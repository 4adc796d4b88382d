----------------------------- MODULE UserServices -----------------------------
(***************************************************************************)
(* The services whose state hangs on the users, in one process: flows,     *)
(* notifications, uploads, push subscriptions and the sockets of the chat. *)
(* They share the users, which are removed with all their rows, and the    *)
(* process, which may restart: rows and objects stay, whatever was under   *)
(* way is gone, and so are the streams and the sockets.                    *)
(***************************************************************************)
EXTENDS Flows, Notifications, Uploads, PushSubscriptions, ChatSessions

svvars == <<ovars, hvars, nvars, fvars, pvars, svars>>

SvInit == OInit /\ HInit /\ NInit /\ FInit /\ PInit /\ SInit

\* Awaits that are calls which may reject; transcribeAudio, sendPush and the
\* handshake of a socket deal with it themselves.
Calls ==
  {"insert", "find", "save", "delete", "remove", "delete user", "rows", "count",
   "history", "insert history", "remove history", "put", "deactivate",
   "endpoint", "subscribe", "reassign", "subscriptions"}

Leave(q) ==
  /\ ReceiveRemoveUser(q) \/ RemoveUser(q)
  /\ DropSubscriptionsOf(users \ users')

CallLost(q) == at[q] \in Calls /\ CallRejected(q)

\* The process dies with all that it was doing.
Restart ==
  /\ faults < MaxFaults /\ faults' = faults + 1
  /\ Running # {}
  /\ asks' = [q \in Requests |-> Nothing]
  /\ at' = [q \in Requests |-> IF q \in Running THEN "rejected" ELSE at[q]]
  /\ copy' = [q \in Requests |-> NoRow]
  /\ open' = {} /\ registry' = <<>> /\ ghosts' = {}
  /\ stale' = {} /\ shrunk' = {}
  /\ UNCHANGED <<users, rows, landed, raced, hvars, posted, objects, pvars>>

\* What the other services keep, in a step of one of them.
FlowsOnly         == UNCHANGED <<posted, fvars, pvars, svars>> /\ Shrinks
NotificationsOnly == UNCHANGED <<hvars, fvars, pvars, svars>> /\ Shrinks
UploadsOnly       == UNCHANGED <<hvars, posted, pvars, svars>> /\ Shrinks
PushOnly          == UNCHANGED <<hvars, posted, fvars, svars>> /\ Shrinks
SocketsOnly       == UNCHANGED <<hvars, posted, fvars, pvars>> /\ Shrinks

SvNext ==
  \/ \E q \in Requests :
       \/ FlowStep(q) /\ FlowsOnly
       \/ NotificationStep(q) /\ NotificationsOnly
       \/ UploadStep(q) /\ UploadsOnly
       \/ SubscriptionStep(q) /\ PushOnly
       \/ SocketStep(q) /\ SocketsOnly
       \/ Leave(q) /\ PushOnly
       \/ CallLost(q) /\ FlowsOnly /\ UNCHANGED hvars
  \/ \E e \in Endpoints : Lapse(e) /\ PushOnly
  \/ Restart

SvSpec == SvInit /\ [][SvNext]_svvars

-----------------------------------------------------------------------------
(* Properties.                                                              *)

RowType ==
  [state : {"exists"}, table : Tables, text : Requests \cup {None}, mark : Requests \cup {None}]

SvTypeOK ==
  /\ users \subseteq Users
  /\ rows \in [Ids -> RowType \cup {NoRow, Gone}]
  /\ \A q \in Requests :
       /\ at[q] \in Calls \cup Ended \cup
            {"new", "emit", "watch", "transcribe", "push", "verify", "register", "connected"}
       /\ at[q] = "save" => copy[q] \in RowType /\ copy[q].table = asks[q].service
       /\ at[q] = "insert history" => Target(q) \in Ids
  /\ faults \in 0 .. MaxFaults
  /\ landed \subseteq Requests /\ stale \subseteq Requests /\ raced \subseteq Ids
  /\ posted \in Seq(Ids) /\ IsInjective(posted)
  /\ shrunk \subseteq Requests /\ objects \subseteq Ids
  /\ \A q \in Requests : Kept(q) => histories[q].flow \in Ids
  /\ Registered \cup open \cup ghosts \subseteq Requests /\ IsInjective(registry)

-----------------------------------------------------------------------------
(* Requests on rows as atomic edits.                                        *)

\* The request has come to know what it writes, and has not written it.
Placed(q) ==
  \/ at[q] \in {"insert", "save", "delete", "remove", "delete user", "deactivate"}
  \/ at[q] = "find" /\ asks[q].kind \in {"update", "remove"}

Order(q) ==
  LET text == IF asks[q].service \in {"files", "audios"} THEN copy[q].text ELSE q IN
    CASE asks[q].kind = "create" ->
           [kind |-> "insert", key |-> Target(q),
            columns |-> [c \in Columns |-> IF c = "text" THEN text ELSE None]]
      [] asks[q].kind = "update" ->
           [kind |-> "change", key |-> Target(q), columns |-> [c \in asks[q].columns |-> q]]
      [] asks[q].kind = "remove" ->
           [kind |-> "remove",
            keys |-> {i \in Ids : IF asks[q].service = "users" THEN Owner[i] = asks[q].user
                                                              ELSE i = Target(q)}]

OrderOf(q) ==
  IF q \in landed THEN [kind |-> "applied"]
  ELSE IF Placed(q) THEN Order(q)
  ELSE IF at[q] \in Ended THEN [kind |-> "refused"] ELSE [kind |-> "idle"]

TableRow(i) ==
  IF i \in raced THEN [state |-> "uncertain"]
  ELSE IF Exists(i) THEN [c \in Columns |-> rows[i][c]]
  ELSE rows[i]

Table       == [i \in Ids |-> TableRow(i)]
OrdersTaken == [q \in Requests |-> OrderOf(q)]

Edits == INSTANCE AtomicEdits WITH
  Keys <- Ids, Values <- Requests \cup {None},
  Absent <- NoRow, Removed <- Gone, Uncertain <- [state |-> "uncertain"],
  Idle <- [kind |-> "idle"], Applied <- [kind |-> "applied"], Refused <- [kind |-> "refused"],
  table <- Table, order <- OrdersTaken

\* Whatever runs beside it, and whoever is removed, a request on a flow, a
\* notification or an upload takes effect in one step and changes the columns
\* it brings, and rows that were removed stay removed; until a service saves a
\* copy that is older than the row.
RowsEditedAtomically == Edits!ESpec
=============================================================================
