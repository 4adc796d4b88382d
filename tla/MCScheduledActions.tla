------------------------- MODULE MCScheduledActions -------------------------
(* Instances of ScheduledActions for TLC.  A row's task and period are       *)
(* chosen by its key: a mail to a fixed address, a notification to a user    *)
(* named by a field of the record.                                          *)
EXTENDS ScheduledActions, TLC

CONSTANTS t1, t2, t3, p1, p2

MailTask ==
  [actionType |-> "send_email", configured |-> TRUE, isRecipientDynamic |-> FALSE,
   recipientEmail |-> "address", field |-> "empty", active |-> TRUE]

NotificationTask ==
  [actionType |-> "send_notification", configured |-> TRUE, isRecipientDynamic |-> TRUE,
   recipientEmail |-> "campo", field |-> "plain", active |-> TRUE]

\* A row whose field is missing from the record: executeAction returns early.
UnresolvedTask == [NotificationTask EXCEPT !.field = "empty"]

MCTask == [i \in Ids |->
  CASE i = "once" -> MailTask [] i = "every" -> NotificationTask [] OTHER -> UnresolvedTask]
MCRecurrence == [i \in Ids |-> CASE i = "every" -> 2 [] i = "always" -> 0 [] OTHER -> OneTime]

MCTimes == 0..MaxNow

\* Ticks are interchangeable, and so are requests.
MCSymmetry == Permutations(Ticks) \cup Permutations(Patchers)
=============================================================================
