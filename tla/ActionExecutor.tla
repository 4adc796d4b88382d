--------------------------- MODULE ActionExecutor ---------------------------
(***************************************************************************)
(* action-executor.service.ts: what one call of executeAction can do.      *)
(*                                                                         *)
(* The service keeps no state.  A call is described by the set of outcomes *)
(* the caller can see; which of them happens depends on the users table,   *)
(* on the mail provider (Resend) and on the database, all outside it:      *)
(*                                                                         *)
(*   "sent"         the mail or notification left and the promise resolved *)
(*   "skipped"      an early return: nothing left, the promise resolved    *)
(*   "rejected"     nothing left and the promise rejected                  *)
(*   "unconfirmed"  it left, but the answer was lost: the promise rejected *)
(*                                                                         *)
(* A string matters only by its class: the empty string, a string without  *)
(* '@' (perhaps a user id), a string with '@', and, before resolution, a   *)
(* reference "campo_..." to a field of the record.                         *)
(***************************************************************************)

ActionTypes == {"send_notification", "send_email", "unknown"}
Values      == {"empty", "plain", "address"}
References  == Values \cup {"campo"}

\* What the executor reads of a WorkspaceAction and of the record's data;
\* field is the class of the value the reference names, "empty" when absent.
Tasks ==
  [actionType         : ActionTypes,
   configured         : BOOLEAN,
   isRecipientDynamic : BOOLEAN,
   recipientEmail     : References,
   field              : Values,
   active             : BOOLEAN]

Outcomes == {"sent", "skipped", "rejected", "unconfirmed"}

ResolveDynamicValue(value, field) == IF value = "campo" THEN field ELSE value

RecipientValue(task) ==
  IF task.isRecipientDynamic
  THEN ResolveDynamicValue(task.recipientEmail, task.field)
  ELSE task.recipientEmail

\* findByEmail runs outside the try, so only a value with '@' can reject; an
\* unresolved reference is no user's id and findOne's error becomes null.
GetRecipientUser(value) ==
  {"null"}
    \cup (IF value \in {"plain", "address"} THEN {"user"} ELSE {})
    \cup (IF value = "address" THEN {"rejected"} ELSE {})

\* The effect itself: an insert of a notification, or a call of Resend.
EffectOutcomes == {"sent", "rejected", "unconfirmed"}

\* What follows the lookup: a rejection propagates, a reachable recipient
\* gets the effect, an unreachable one is a logged early return.
AfterLookup(found, reachable) ==
  UNION {IF u = "rejected" THEN {"rejected"}
         ELSE IF u \in reachable THEN EffectOutcomes
         ELSE {"skipped"} : u \in found}

\* A notification needs a user.
ExecuteSendNotification(task) ==
  LET value == RecipientValue(task)
  IN  IF ~task.configured \/ value = "empty"
      THEN {"skipped"}
      ELSE AfterLookup(GetRecipientUser(value), {"user"})

\* A mail needs a user (whose email is used) or a value that has an '@'.
ExecuteSendEmail(task) ==
  LET value == RecipientValue(task)
  IN  IF ~task.configured \/ value = "empty"
      THEN {"skipped"}
      ELSE AfterLookup(GetRecipientUser(value),
                       IF value = "address" THEN {"user", "null"} ELSE {"user"})

ExecuteAction(task) ==
  CASE task.actionType = "send_notification" -> ExecuteSendNotification(task)
    [] task.actionType = "send_email"        -> ExecuteSendEmail(task)
    [] OTHER                                 -> {"skipped"}
=============================================================================
