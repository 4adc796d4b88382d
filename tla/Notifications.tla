---------------------------- MODULE Notifications ----------------------------
(***************************************************************************)
(* notifications.service.ts: the notifications of users, and the clients   *)
(* that follow them.                                                       *)
(*                                                                         *)
(* A client opens an event stream and then reads the pages of what there   *)
(* already is, newest first.  A page is two queries, for its rows and for  *)
(* their number; an event is emitted some time after the insert it tells   *)
(* of, to the streams that are open at that moment.                        *)
(*                                                                         *)
(* createdAt is the time the insert's transaction began, so a row may be   *)
(* committed behind rows that are later in the order.  Two rows with the   *)
(* same microsecond, which a page might order either way, are left out.    *)
(***************************************************************************)
EXTENDS OwnedRows, Sequences, SequencesExt

CONSTANT PageSize \* limit

ASSUME PageSizeAssumption == PageSize \in Nat \ {0}

VARIABLES
  posted, \* the notifications by createdAt, those removed included
  shrunk  \* history: followers who had a notification removed, or come back

nvars == <<posted, shrunk>>

NInit ==
  /\ posted \in SetToSeqs({i \in Stored : IsIn(i, "notifications")})
  /\ shrunk = {}

-----------------------------------------------------------------------------
(* The pages and the streams.                                               *)

\* The user's notifications, by their places in the order of createdAt.
Inbox(u) == {k \in DOMAIN posted : Exists(posted[k]) /\ Owner[posted[k]] = u}

\* How many come before place k when the order is DESC.
Newer(u, k) == Cardinality({m \in Inbox(u) : m > k})

\* skip and take
Taken(u, skip) ==
  {posted[k] : k \in {n \in Inbox(u) : Newer(u, n) \in skip .. (skip + PageSize - 1)}}

\* Mutant of Page: skip = page * limit.
PageSkipping(u, page) == Taken(u, page * PageSize)

Page(u, page) == Taken(u, (page - 1) * PageSize)

\* page < Math.ceil(total / limit)
HasNext(u, page) == page * PageSize < Cardinality(Inbox(u))

Follows(q) == Asks(q, "follow", "notifications")

\* getEventStream, and the first page is asked for.
OpenStream(q) ==
  \E u \in Users :
    /\ Receive(q, Ask("follow", "notifications", u, None, {}), "rows")
    /\ copy' = [copy EXCEPT ![q] = [page |-> 1, seen |-> {}]]
    /\ UNCHANGED posted

FindPage(q) ==
  /\ at[q] = "rows"
  /\ copy' = [copy EXCEPT ![q].seen = @ \cup Page(asks[q].user, copy[q].page)]
  /\ Goto(q, "count")
  /\ Stays /\ UNCHANGED <<asks, posted>>

CountRows(q) ==
  /\ at[q] = "count"
  /\ IF HasNext(asks[q].user, copy[q].page)
     THEN Goto(q, "rows") /\ copy' = [copy EXCEPT ![q].page = @ + 1]
     ELSE Goto(q, "watch") /\ UNCHANGED copy
  /\ Stays /\ UNCHANGED <<asks, posted>>

CloseStream(q) ==
  Follows(q) /\ Answer(q, "done") /\ Stays /\ UNCHANGED posted

-----------------------------------------------------------------------------
(* The operations.                                                          *)

ReceiveNotification(q) ==
  /\ \/ \E i \in Ids :
          /\ Fresh(i)
          /\ Receive(q, Ask("create", "notifications", Owner[i], i, Columns), "insert")
     \/ \E i \in Ids, u \in Users, columns \in {{"text"}, {"mark"}} :
          /\ IsIn(i, "notifications")
          /\ Receive(q, Ask("update", "notifications", u, i, columns), "find")
     \/ \E i \in Ids, u \in Users :
          /\ IsIn(i, "notifications")
          /\ Receive(q, Ask("remove", "notifications", u, i, {}), "delete")
  /\ UNCHANGED <<copy, posted>>

CreateNotification(q) ==
  /\ Asks(q, "create", "notifications")
  /\ InsertRow(q, Row("notifications", q), "emit")
  /\ IF asks[q].user \in users
     THEN \E k \in 1 .. (Len(posted) + 1) : posted' = InsertAt(posted, k, Target(q))
     ELSE UNCHANGED posted

\* emit('notification.created'), to the open streams of the user.
Emit(q) ==
  /\ at[q] = "emit"
  /\ Goto(q, "done")
  /\ asks' = [asks EXCEPT ![q] = Nothing]
  /\ copy' = [p \in Requests |->
       IF Follows(p) /\ asks[p].user = asks[q].user
       THEN [copy[p] EXCEPT !.seen = @ \cup {Target(q)}] ELSE copy[p]]
  /\ Stays /\ UNCHANGED posted

\* update and markAsRead
FindNotification(q) ==
  Asks(q, "update", "notifications") /\ FindOwn(q, Target(q), "save") /\ UNCHANGED posted

SaveNotification(q) ==
  Asks(q, "update", "notifications") /\ SaveRow(q) /\ UNCHANGED posted

\* delete({ id, userId })
DeleteNotification(q) ==
  /\ at[q] = "delete" /\ Asks(q, "remove", "notifications")
  /\ IF IsIn(Target(q), "notifications") /\ Owner[Target(q)] = asks[q].user
     THEN DeleteRow(q)
     ELSE Answer(q, "rejected") /\ Stays
  /\ UNCHANGED posted

NotificationStep(q) ==
  \/ OpenStream(q) \/ FindPage(q) \/ CountRows(q) \/ CloseStream(q)
  \/ ReceiveNotification(q) \/ CreateNotification(q) \/ Emit(q)
  \/ FindNotification(q) \/ SaveNotification(q) \/ DeleteNotification(q)

\* Those who follow the user of a row that goes, or comes back, in a step.
Shrinks ==
  shrunk' = {p \in Requests : Follows(p) /\ (p \in shrunk \/ \E i \in Ids :
     Owner[i] = asks[p].user /\ rows[i] # NoRow /\ Exists(i) # (rows'[i].state = "exists"))}

-----------------------------------------------------------------------------
\* A client that has opened its stream before it walked the pages knows every
\* notification of its user, however creations interleave with the two queries
\* of each page; unless one was removed meanwhile, which moves the rest up, or
\* its event is still to be emitted.
NothingMissed ==
  \A q \in Requests \ shrunk : at[q] = "watch" =>
    \A i \in Ids : IsIn(i, "notifications") /\ Owner[i] = asks[q].user =>
      i \in copy[q].seen \/ \E p \in Requests : at[p] = "emit" /\ Target(p) = i
=============================================================================
