-------------------------- MODULE UserServices_proofs --------------------------
(***************************************************************************)
(* Proofs about the services of users in one process, for any users, rows, *)
(* endpoints, clients, faults and restarts.                                *)
(*                                                                         *)
(* RowInv is what all of them need: what a request asks for at each await, *)
(* that the uuid of a new row is its alone, and that a copy no write has   *)
(* overtaken is the row.  Each service has an invariant of its own beside  *)
(* it, which the steps of the others leave alone.                          *)
(***************************************************************************)
EXTENDS
  UserServices, FiniteSetTheorems, NaturalsInduction, WellFoundedInduction, SequenceTheorems, TLAPS

-----------------------------------------------------------------------------
(* Types, and what a request asks for at each of its awaits.                *)

Awaits ==
  Calls \cup Ended \cup
    {"new", "emit", "watch", "transcribe", "push", "verify", "register", "connected"}

AskType ==
  [kind : {"none", "create", "update", "remove", "create history", "remove history", "follow",
           "send", "connect"},
   service : Tables \cup {"none", "users", "push", "chat"},
   user : Users \cup {None},
   on : Ids \cup Requests \cup Endpoints \cup {None},
   columns : SUBSET Columns]

Types ==
  /\ users \subseteq Users
  /\ rows \in [Ids -> RowType \cup {NoRow, Gone}]
  /\ asks \in [Requests -> AskType]
  /\ at \in [Requests -> Awaits]
  /\ DOMAIN copy = Requests
  /\ faults \in 0 .. MaxFaults
  /\ landed \subseteq Requests /\ stale \subseteq Requests /\ raced \subseteq Ids

\* What is asked, and where each operation waits.
Is(ask, kind, service) == ask.kind = kind /\ ask.service = service

Fits(ask, await) ==
  \/ ask = Nothing /\ await \in Ended \cup {"new"}
  \/ Is(ask, "create", "flows") /\ await = "insert"
  \/ Is(ask, "update", "flows") /\ await \in {"find", "save"}
  \/ Is(ask, "remove", "flows") /\ await \in {"find", "remove"}
  \/ Is(ask, "create history", "flows") /\ await \in {"find", "insert history"}
  \/ Is(ask, "remove history", "flows") /\ await \in {"history", "find", "remove history"}
  \/ Is(ask, "create", "notifications") /\ await \in {"insert", "emit"}
  \/ Is(ask, "update", "notifications") /\ await \in {"find", "save"}
  \/ Is(ask, "remove", "notifications") /\ await = "delete"
  \/ Is(ask, "follow", "notifications") /\ await \in {"rows", "count", "watch"}
  \/ Is(ask, "create", "files") /\ await \in {"put", "insert"}
  \/ Is(ask, "create", "audios") /\ await \in {"put", "transcribe", "insert"}
  \/ Is(ask, "update", "audios") /\ ask.columns = {"mark"} /\ await = "deactivate"
  \/ Is(ask, "create", "push") /\ await \in {"endpoint", "subscribe", "reassign"}
  \/ Is(ask, "send", "push") /\ await \in {"subscriptions", "push"}
  \/ Is(ask, "connect", "chat") /\ await \in {"verify", "register", "connected"}
  \/ Is(ask, "remove", "users") /\ await = "delete user"

Stage(q)  == Fits(asks[q], at[q])
Stages == \A q \in Requests : Stage(q)

-----------------------------------------------------------------------------
(* Requests and the rows they are about.                                    *)

\* The awaits before the insert of a row.
Unborn == {"put", "transcribe", "insert"}

\* A new row is of the caller, and there is none with its uuid.
Creates(q) ==
  /\ asks[q].service \in Tables /\ asks[q].kind = "create" =>
       Target(q) \in Ids /\ asks[q].user = Owner[Target(q)]
  /\ at[q] \in Unborn =>
       /\ rows[Target(q)] = NoRow
       /\ \A p \in Requests : at[p] \in Unborn /\ Target(p) = Target(q) => p = q
  /\ at[q] = "emit" => rows[Target(q)] # NoRow

\* Other requests are about rows that are, or were, there.
Found(q) ==
  asks[q].service \in Tables /\ asks[q].kind \in {"update", "remove", "create history"} =>
    Target(q) \in Ids /\ rows[Target(q)] # NoRow

\* What is in the hands of a request is a row of the table it is for, and the
\* row itself as long as nobody has written it.
Holds(q) ==
  /\ at[q] = "save" =>
       /\ copy[q] \in RowType /\ copy[q].table = asks[q].service
       /\ q \in stale \/ copy[q] = rows[Target(q)]
  /\ at[q] = "transcribe" => copy[q] = Row("audios", None)
  /\ at[q] = "insert" /\ asks[q].service \in {"files", "audios"} =>
       copy[q] \in RowType /\ copy[q].table = asks[q].service /\ copy[q].mark = None

\* A request writes once; only a copy that is to be saved is stale; a row that
\* a stale copy was saved over is, or was, there.
Marks ==
  /\ \A q \in landed : at[q] \in Ended \cup {"emit"}
  /\ \A q \in stale : at[q] = "save"
  /\ \A i \in raced : rows[i] # NoRow

RowInv ==
  /\ Types /\ Stages /\ Marks
  /\ \A q \in Requests : Creates(q) /\ Found(q) /\ Holds(q)

-----------------------------------------------------------------------------
(* Histories.                                                               *)

\* A request that removes a history has found it, and then its flow.
HistoryInv ==
  /\ histories \in [Requests -> {NoRow} \cup [state : {"exists", "removed"}, flow : Ids]]
  /\ \A q \in Requests :
       /\ histories[q] # NoRow => at[q] \in Ended /\ rows[histories[q].flow] # NoRow
       /\ Asks(q, "remove history", "flows") => Target(q) \in Requests /\ histories[Target(q)] # NoRow
       /\ at[q] = "remove history" => copy[q] # NoRow

-----------------------------------------------------------------------------
(* Objects.                                                                 *)

\* An upload has its object before it goes on to its row.
ObjectInv ==
  /\ objects \subseteq Ids
  /\ RowsHaveObjects
  /\ \A q \in Requests :
       asks[q].service \in {"files", "audios"} /\ at[q] \in {"transcribe", "insert"} =>
         Target(q) \in objects

-----------------------------------------------------------------------------
(* Sockets.                                                                 *)

\* A socket is in the registry once, and is authenticated while it is connected,
\* or as a ghost.
SocketInv ==
  /\ registry \in Seq(Requests) /\ IsInjective(registry)
  /\ open \subseteq Requests /\ ghosts \subseteq Requests
  /\ \A s \in Registered : at[s] = "connected"
  /\ \A s \in open : at[s] \in {"verify", "register", "connected"}
  /\ \A q \in Requests : at[q] \in {"verify", "register"} => q \in open \cup ghosts
  /\ RegistryIsLive /\ OneConnection

-----------------------------------------------------------------------------
(* Subscriptions.                                                           *)

\* A row is inserted by its request, and a request that is to insert or save one
\* has looked for the endpoint; alone with it, it still knows all its rows.
SubscriptionType == [state : {"exists"}, endpoint : Endpoints, user : Users]

PushTypes ==
  /\ subscriptions \in [Requests -> SubscriptionType \cup {NoRow, Gone}]
  /\ holder \in [Endpoints -> Users \cup {None}]
  /\ lapsed \subseteq Endpoints /\ overlapped \subseteq Endpoints

Subscriber(q) ==
  /\ Asks(q, "create", "push") => Target(q) \in Endpoints /\ asks[q].user \in Users
  /\ subscriptions[q] # NoRow => at[q] \in Ended
  /\ at[q] = "subscribe" /\ Target(q) \notin overlapped => Subscribed(Target(q)) = {}
  /\ at[q] = "reassign" =>
       /\ copy[q].row \in Requests
       /\ subscriptions[copy[q].row] # NoRow
       /\ subscriptions[copy[q].row] # Gone => subscriptions[copy[q].row].endpoint = Target(q)
       /\ Target(q) \notin overlapped => Subscribed(Target(q)) \subseteq {copy[q].row}

\* A row has one endpoint, whoever is about to save it.
OneEndpoint ==
  \A p, q \in Requests :
    at[p] = "reassign" /\ at[q] = "reassign" /\ copy[p].row = copy[q].row => Target(p) = Target(q)

\* The subscriptions of an endpoint are one at a time unless they overlapped.
Alone ==
  \A p, q \in Requests :
    Asks(p, "create", "push") /\ Asks(q, "create", "push") /\ Target(p) = Target(q)
      /\ Target(p) \notin overlapped => p = q

\* The sends of a push, one per subscription found; what is gone was seen to be.
Sends == UNION {[S -> [endpoint : Endpoints, gone : BOOLEAN]] : S \in SUBSET Requests}

Sender(q) ==
  at[q] = "push" =>
    /\ copy[q] \in [sends : Sends]
    /\ \A s \in DOMAIN copy[q].sends :
         copy[q].sends[s].gone => copy[q].sends[s].endpoint \in lapsed

\* Without overlaps an endpoint has one row.
PushInv ==
  /\ PushTypes /\ OneEndpoint /\ Alone
  /\ \A q \in Requests : Subscriber(q) /\ Sender(q)
  /\ EndpointHasHolder

-----------------------------------------------------------------------------
(* Notifications.                                                           *)

\* The order by createdAt has each notification once, and no other row.
InOrder ==
  /\ posted \in Seq(Ids) /\ IsInjective(posted)
  /\ \A i \in Range(posted) : rows[i] # NoRow /\ (Exists(i) => rows[i].table = "notifications")
  /\ \A i \in Ids : IsIn(i, "notifications") => i \in Range(posted)
  /\ \A q \in Requests : at[q] = "save" =>
       (Target(q) \in Range(posted) <=> asks[q].service = "notifications")

\* The follower has seen notification i, or will when its event is emitted.
Known(q, i) == i \in copy[q].seen \/ \E p \in Requests : at[p] = "emit" /\ Target(p) = i

\* So many of the newest notifications are known.
KnownTo(q, n) ==
  \A k \in Inbox(asks[q].user) : Newer(asks[q].user, k) < n => Known(q, posted[k])

Pages == [page : Nat \ {0}, seen : SUBSET Ids]

Follower(q) ==
  /\ Follows(q) => copy[q] \in Pages /\ asks[q].user \in Users
  /\ q \notin shrunk =>
       /\ at[q] = "rows" => KnownTo(q, (copy[q].page - 1) * PageSize)
       /\ at[q] = "count" => KnownTo(q, copy[q].page * PageSize)
       /\ at[q] = "watch" => \A k \in Inbox(asks[q].user) : Known(q, posted[k])

InboxInv == InOrder /\ shrunk \subseteq Requests /\ \A q \in Requests : Follower(q)

-----------------------------------------------------------------------------
(* What a step of a request leaves alone.                                   *)

Others(q) == Requests \ {q}

\* A step of request q is no step of another, but that an event is delivered.
StepOf(q) ==
  /\ asks' \in [Requests -> AskType] /\ at' \in [Requests -> Awaits] /\ DOMAIN copy' = Requests
  /\ \A p \in Others(q) :
       /\ asks'[p] = asks[p] /\ at'[p] = at[p]
       /\ copy'[p] = copy[p] \/ (Follows(p) /\ at[q] = "emit")

LEMMA NothingType == Nothing \in AskType
BY DEF Nothing, Ask, AskType

LEMMA ReceiveStep ==
  ASSUME Types, NEW q \in Requests, NEW ask \in AskType, NEW first \in Awaits,
         Receive(q, ask, first), copy' = copy
  PROVE  StepOf(q) /\ at[q] = "new" /\ at'[q] = first /\ asks'[q] = ask
BY DEF Types, Receive, Goto, StepOf, Others

LEMMA AnswerStep ==
  ASSUME Types, NEW q \in Requests, NEW how \in Ended, Answer(q, how)
  PROVE  StepOf(q) /\ at'[q] = how /\ asks'[q] = Nothing /\ copy'[q] = NoRow
BY NothingType DEF Types, Answer, Goto, StepOf, Others, Awaits

LEMMA GotoStep ==
  ASSUME Types, NEW q \in Requests, NEW await \in Awaits, Goto(q, await), UNCHANGED <<asks, copy>>
  PROVE  StepOf(q) /\ at'[q] = await
BY DEF Types, Goto, StepOf, Others

LEMMA TakeStep ==
  ASSUME Types, NEW q \in Requests, NEW await \in Awaits, Goto(q, await), asks' = asks,
         NEW x, copy' = [copy EXCEPT ![q] = x]
  PROVE  StepOf(q) /\ at'[q] = await /\ copy'[q] = x
BY DEF Types, Goto, StepOf, Others

LEMMA StagesStay ==
  ASSUME Stages, NEW q \in Requests, StepOf(q), Stage(q)'
  PROVE  Stages'
<1>1. ASSUME NEW p \in Others(q) PROVE Stage(p)'
  <2>1. Stage(p) /\ asks'[p] = asks[p] /\ at'[p] = at[p]
    BY <1>1 DEF Stages, StepOf, Others
  <2>. QED
    BY <2>1 DEF Stage
<1>. QED
  BY <1>1 DEF Stages, Others

\* The rest of RowInv after a step of q: no row is forgotten, rows are inserted
\* by those whose they are, and a row that is written makes copies stale.
LEMMA RowStep ==
  ASSUME RowInv, Types', NEW q \in Requests, StepOf(q), Stage(q)', Marks',
         \A i \in Ids : rows[i] # NoRow => rows'[i] # NoRow,
         \A i \in Ids : rows[i] = NoRow /\ rows'[i] # NoRow => at[q] = "insert" /\ i = Target(q),
         \A p \in Others(q) : at[p] = "save" => p \in stale' \/ (p \notin stale /\ rows'[Target(p)] = rows[Target(p)]),
         Creates(q)', Found(q)', Holds(q)'
  PROVE  RowInv'
<1>1. Types /\ Stages /\ Marks
  BY DEF RowInv
<1>2. Stages'
  BY <1>1, StagesStay
<1>3. \A p \in Others(q) : Stage(p)
  BY <1>1 DEF Stages, Others
<1>4. ASSUME NEW p \in Others(q) PROVE Found(p)'
  BY <1>4 DEF RowInv, Found, StepOf, Target, Others
<1>5. ASSUME NEW p \in Others(q) PROVE Holds(p)'
  <2>1. Stage(p) /\ Holds(p) /\ p \in Requests
    BY <1>3, <1>5 DEF RowInv, Others
  <2>2. at[p] \in {"save", "transcribe", "insert"} => copy'[p] = copy[p]
    BY <1>5, <2>1 DEF StepOf, Stage, Fits, Is, Follows, Asks, Ended
  <2>. QED
    BY <1>1, <1>5, <2>1, <2>2 DEF Holds, StepOf, Target
<1>6. ASSUME NEW p \in Others(q) PROVE Creates(p)'
  <2>1. /\ Stage(p) /\ Creates(p) /\ Creates(q) /\ p \in Requests /\ p # q
        /\ asks'[p] = asks[p] /\ at'[p] = at[p]
    BY <1>3, <1>6 DEF RowInv, Others, StepOf
  <2>2. at[p] \in Unborn => Target(p) \in Ids
    BY <2>1 DEF Unborn, Stage, Fits, Is, Creates, Tables, Ended
  <2>3. at[p] \in Unborn => rows'[Target(p)] = NoRow
    BY <2>1, <2>2 DEF Creates, Unborn
  <2>4. at[p] \in Unborn =>
          \A r \in Requests : (at[r] \in Unborn /\ Target(r) = Target(p))' => r = p
    BY <2>1 DEF Creates, StepOf, Others, Target
  <2>5. at[p] = "emit" => Target(p) \in Ids
    BY <2>1 DEF Stage, Fits, Is, Creates, Tables, Ended
  <2>. QED
    BY <2>1, <2>2, <2>3, <2>4, <2>5 DEF Creates, Target
<1>. QED
  BY <1>2, <1>4, <1>5, <1>6 DEF RowInv, Others

-----------------------------------------------------------------------------
(* RowInv, by the kinds of steps.                                           *)

\* The step of q writes no row, and gives up what q was going to write.
Quiet(q) ==
  /\ StepOf(q)
  /\ UNCHANGED <<users, rows, landed, raced>>
  /\ stale' = stale \ {q}
  /\ faults' \in 0 .. MaxFaults

LEMMA StaysQuiet ==
  ASSUME RowInv, NEW q \in Requests, StepOf(q), Stays, at[q] # "save"
  PROVE  Quiet(q)
BY DEF RowInv, Marks, Stays, Quiet, Types

LEMMA WroteNothingQuiet ==
  ASSUME RowInv, NEW q \in Requests, StepOf(q), WroteNothing(q), UNCHANGED <<users, rows>>,
         faults' \in 0 .. MaxFaults
  PROVE  Quiet(q)
BY DEF WroteNothing, Quiet

LEMMA QuietTypes ==
  ASSUME RowInv, NEW q \in Requests, Quiet(q)
  PROVE  /\ Types'
         /\ \A i \in Ids : rows[i] = NoRow => rows'[i] = NoRow
         /\ \A i \in Ids : rows[i] # NoRow => rows'[i] # NoRow
         /\ \A p \in Others(q) : p \in stale' \/ (p \notin stale /\ rows'[Target(p)] = rows[Target(p)])
BY DEF RowInv, Types, Quiet, StepOf, Others

\* The request ends.
LEMMA EndRows ==
  ASSUME RowInv, NEW q \in Requests, Quiet(q), at'[q] \in Ended, asks'[q] = Nothing
  PROVE  RowInv'
<1>1. Stage(q)'
  BY DEF Stage, Fits
<1>2. Marks'
  BY DEF RowInv, Types, Marks, Quiet, StepOf, Others
<1>3. Creates(q)' /\ Found(q)' /\ Holds(q)'
  BY DEF Creates, Found, Holds, Ended, Unborn, Nothing, Ask, Tables
<1>. QED
  BY <1>1, <1>2, <1>3, QuietTypes, RowStep DEF Quiet

\* The request goes on to its next await.
LEMMA WaitRows ==
  ASSUME RowInv, NEW q \in Requests, Quiet(q), asks'[q] = asks[q], Stage(q)', Holds(q)',
         at[q] \notin Ended \cup {"emit"}, at'[q] \notin Ended \cup {"emit"},
         at'[q] \in Unborn => at[q] \in Unborn
  PROVE  RowInv'
<1>1. Marks'
  BY DEF RowInv, Types, Marks, Quiet, StepOf, Others
<1>2. Target(q)' = Target(q) /\ rows' = rows /\ Creates(q) /\ Found(q)
  BY DEF RowInv, Quiet, Target
<1>3. ASSUME NEW p \in Requests, at'[p] \in Unborn, Target(p)' = Target(q)', p # q
      PROVE  at[p] \in Unborn /\ Target(p) = Target(q)
  BY <1>2, <1>3 DEF Quiet, StepOf, Others, Target
<1>4. Creates(q)'
  BY <1>2, <1>3 DEF Creates
<1>5. Found(q)'
  BY <1>2 DEF Found
<1>. QED
  BY <1>1, <1>4, <1>5, QuietTypes, RowStep DEF Quiet

\* The request begins.
LEMMA ReceiveRows ==
  ASSUME RowInv, NEW q \in Requests, Quiet(q), at[q] = "new", Stage(q)',
         at'[q] \notin Ended \cup {"emit", "save", "transcribe"},
         at'[q] = "insert" => asks'[q].service \notin {"files", "audios"},
         asks'[q].service \in Tables /\ asks'[q].kind = "create" =>
           Target(q)' \in Ids /\ asks'[q].user = Owner[Target(q)'],
         at'[q] \in Unborn => rows[Target(q)'] = NoRow /\ ~\E p \in Running : Target(p) = Target(q)',
         asks'[q].service \in Tables /\ asks'[q].kind \in {"update", "remove", "create history"} =>
           Target(q)' \in Ids /\ rows[Target(q)'] # NoRow
  PROVE  RowInv'
<1>1. Marks'
  BY DEF RowInv, Types, Marks, Quiet, StepOf, Others, Ended
<1>2. Found(q)' /\ Holds(q)'
  BY DEF Found, Holds, Quiet
<1>3. Creates(q)'
  <2>1. \A p \in Others(q) : at[p] \in Unborn => p \in Running
    BY DEF Unborn, Running, Ended, Others
  <2>2. rows' = rows /\ \A p \in Others(q) : at'[p] = at[p] /\ Target(p)' = Target(p)
    BY DEF Quiet, StepOf, Others, Target
  <2>3. ASSUME at'[q] \in Unborn, NEW p \in Requests, at'[p] \in Unborn, Target(p)' = Target(q)', p # q
        PROVE  FALSE
    BY <2>1, <2>2, <2>3 DEF Others
  <2>. QED
    BY <2>2, <2>3 DEF Creates, Unborn
<1>. QED
  BY <1>1, <1>2, <1>3, QuietTypes, RowStep DEF Quiet

\* Nothing happens to the request.
LEMMA IdleRows ==
  ASSUME RowInv, NEW q \in Requests, UNCHANGED <<asks, at, copy>>, Stays
  PROVE  RowInv'
<1>1. Types' /\ Stages' /\ Marks'
  BY DEF RowInv, Types, Stages, Stage, Marks, Stays
<1>2. \A p \in Requests : Creates(p)' /\ Found(p)' /\ Holds(p)'
  BY DEF RowInv, Creates, Found, Holds, Target, Stays
<1>. QED
  BY <1>1, <1>2 DEF RowInv

\* The request writes its row: inserts it, saves or changes it, or removes it.
Writes(q, row) ==
  /\ StepOf(q)
  /\ rows' = [rows EXCEPT ![Target(q)] = row] /\ Wrote(q, Target(q))
  /\ UNCHANGED <<users, faults>>

LEMMA WriteRows ==
  ASSUME RowInv, NEW q \in Requests, NEW row \in RowType \cup {Gone}, Writes(q, row),
         Target(q) \in Ids, rows[Target(q)] = NoRow => at[q] = "insert",
         \/ at'[q] \in Ended /\ asks'[q] = Nothing
         \/ at[q] = "insert" /\ at'[q] = "emit" /\ asks'[q] = asks[q] /\ Is(asks[q], "create", "notifications")
  PROVE  RowInv'
<1>1. row # NoRow
  BY DEF RowType, NoRow, Gone
<1>2. Types /\ Stages /\ Marks /\ Creates(q) /\ Found(q)
  BY DEF RowInv
<1>3. /\ \A i \in Ids \ {Target(q)} : rows'[i] = rows[i]
      /\ rows'[Target(q)] = row
  BY <1>2 DEF Writes, Types
<1>4. Types'
  BY <1>2 DEF Types, Writes, Wrote, StepOf, Holders
<1>5. Marks'
  BY <1>1, <1>2, <1>3 DEF Marks, Writes, Wrote, StepOf, Holders, Others, Types, Ended
<1>6. Stage(q)'
  BY DEF Stage, Fits
<1>7. Creates(q)' /\ Found(q)' /\ Holds(q)'
  <2>1. CASE at'[q] \in Ended /\ asks'[q] = Nothing
    BY <2>1 DEF Creates, Found, Holds, Ended, Unborn, Nothing, Ask, Tables
  <2>2. CASE at[q] = "insert" /\ at'[q] = "emit" /\ asks'[q] = asks[q] /\ Is(asks[q], "create", "notifications")
    BY <1>1, <1>2, <1>3, <2>2 DEF Creates, Found, Holds, Target, Unborn, Is
  <2>. QED
    BY <2>1, <2>2
<1>8. \A p \in Others(q) : at[p] = "save" =>
        p \in stale' \/ (p \notin stale /\ rows'[Target(p)] = rows[Target(p)])
  <2>1. ASSUME NEW p \in Others(q), at[p] = "save", p \notin stale'
        PROVE  p \notin stale /\ rows'[Target(p)] = rows[Target(p)]
    <3>1. Target(p) # Target(q) /\ p \notin stale
      BY <2>1 DEF Writes, Wrote, Holders, Others
    <3>. QED
      BY <3>1 DEF Writes
  <2>. QED
    BY <2>1
<1>. QED
  BY <1>1, <1>3, <1>4, <1>5, <1>6, <1>7, <1>8, RowStep DEF Writes

-----------------------------------------------------------------------------
(* RowInv, by the steps.                                                    *)

LEMMA RowTypes ==
  /\ \A table \in Tables, text \in Requests \cup {None} : Row(table, text) \in RowType
  /\ \A q \in Requests, row \in RowType :
       /\ Assigned(q, row) \in RowType /\ Assigned(q, row).table = row.table
       /\ [row EXCEPT !.mark = q] \in RowType
  /\ NoRow \notin RowType /\ Gone \notin RowType /\ NoRow # Gone
  /\ \A row \in RowType : row.state = "exists"
  /\ Gone.state = "removed" /\ NoRow.state = "none"
<1>1. \A table \in Tables, text \in Requests \cup {None} : Row(table, text) \in RowType
  BY DEF Row, RowType
<1>2. ASSUME NEW q \in Requests, NEW row \in RowType
      PROVE  Assigned(q, row) \in RowType /\ Assigned(q, row).table = row.table
  BY DEF Assigned, RowType
<1>3. \A q \in Requests, row \in RowType : [row EXCEPT !.mark = q] \in RowType
  BY DEF RowType
<1>4. NoRow \notin RowType /\ Gone \notin RowType /\ NoRow # Gone
  BY DEF RowType, NoRow, Gone
<1>. QED
  BY <1>1, <1>2, <1>3, <1>4 DEF RowType, Gone, NoRow

LEMMA ExistingRows ==
  ASSUME RowInv, NEW i \in Ids
  PROVE  /\ Exists(i) <=> rows[i] \in RowType
         /\ Exists(i) \/ rows[i] \in {NoRow, Gone}
BY RowTypes DEF RowInv, Types, Exists

\* A request begins, with what is asked and where.
LEMMA ReceiveAsks ==
  ASSUME RowInv, NEW q \in Requests, NEW ask \in AskType, NEW first \in Awaits,
         Receive(q, ask, first), copy' = copy
  PROVE  Quiet(q) /\ at[q] = "new" /\ at'[q] = first /\ asks'[q] = ask
<1>1. StepOf(q) /\ at[q] = "new" /\ at'[q] = first /\ asks'[q] = ask
  BY ReceiveStep DEF RowInv
<1>. QED
  BY <1>1, StaysQuiet DEF Receive

\* A request ends having written nothing.
LEMMA AnswerRows ==
  ASSUME RowInv, NEW q \in Requests, NEW how \in Ended, Answer(q, how),
         \/ Stays /\ at[q] # "save"
         \/ WroteNothing(q) /\ UNCHANGED <<users, rows>> /\ faults' \in 0 .. MaxFaults
  PROVE  RowInv' /\ Quiet(q) /\ at'[q] = how /\ asks'[q] = Nothing
<1>1. StepOf(q) /\ at'[q] = how /\ asks'[q] = Nothing
  BY AnswerStep DEF RowInv
<1>2. Quiet(q)
  BY <1>1, StaysQuiet, WroteNothingQuiet
<1>. QED
  BY <1>1, <1>2, EndRows

\* The look-up of findOne, for a request that waits in "find" for row i.
LEMMA FindOwnRows ==
  ASSUME RowInv, NEW q \in Requests, NEW i \in Ids, NEW next, FindOwn(q, i, next),
         next \in {"save", "remove", "insert history", "remove history"},
         Fits(asks[q], next), next = "save" => i = Target(q)
  PROVE  /\ RowInv' /\ Quiet(q)
         /\ \/ at'[q] \in Ended /\ asks'[q] = Nothing
            \/ /\ at'[q] = next /\ asks'[q] = asks[q] /\ copy'[q] = rows[i]
               /\ IsIn(i, asks[q].service) /\ Owner[i] = asks[q].user
<1>1. CASE IsIn(i, asks[q].service) /\ Owner[i] = asks[q].user
  <2>1. next \in Awaits
    BY DEF Awaits, Calls
  <2>2. StepOf(q) /\ at'[q] = next /\ copy'[q] = rows[i] /\ asks'[q] = asks[q]
    BY <1>1, <2>1, TakeStep DEF FindOwn, RowInv
  <2>3. Quiet(q)
    BY <2>2, StaysQuiet DEF FindOwn
  <2>4. rows[i] \in RowType /\ rows[i].table = asks[q].service
    BY <1>1, ExistingRows DEF IsIn
  <2>5. Holds(q)' /\ Stage(q)'
    BY <2>2, <2>3, <2>4 DEF Holds, Stage, Quiet, Target
  <2>6. RowInv'
    BY <2>2, <2>3, <2>5, WaitRows DEF FindOwn, Ended, Unborn
  <2>. QED
    BY <1>1, <2>2, <2>3, <2>6
<1>2. CASE ~(IsIn(i, asks[q].service) /\ Owner[i] = asks[q].user)
  BY <1>2, AnswerRows DEF FindOwn, Ended
<1>. QED
  BY <1>1, <1>2

\* The insert of a row that nobody else inserts.
LEMMA InsertRows ==
  ASSUME RowInv, NEW q \in Requests, NEW row \in RowType, NEW next, InsertRow(q, row, next),
         asks[q].kind = "create", asks[q].service \in Tables,
         next = "done" \/ (next = "emit" /\ Is(asks[q], "create", "notifications"))
  PROVE  /\ RowInv' /\ StepOf(q) /\ Target(q) \in Ids /\ rows[Target(q)] = NoRow
         /\ \/ /\ Quiet(q) /\ at'[q] = "rejected" /\ asks'[q] = Nothing /\ asks[q].user \notin users
            \/ /\ Writes(q, row) /\ asks[q].user \in users /\ at'[q] = next
               /\ asks'[q] = IF next = "done" THEN Nothing ELSE asks[q]
<1>1. Target(q) \in Ids /\ rows[Target(q)] = NoRow
  BY DEF RowInv, Creates, InsertRow, Unborn
<1>2. CASE asks[q].user \in users
  <2>1. /\ StepOf(q) /\ at'[q] = next
        /\ asks'[q] = IF next = "done" THEN Nothing ELSE asks[q]
    <3>1. CASE next = "done"
      BY <1>2, <3>1, AnswerStep DEF InsertRow, RowInv, Ended
    <3>2. CASE next = "emit"
      BY <1>2, <3>2, GotoStep DEF InsertRow, RowInv, Awaits
    <3>. QED
      BY <3>1, <3>2
  <2>2. Writes(q, row)
    BY <1>2, <2>1 DEF Writes, InsertRow
  <2>3. at[q] = "insert"
    BY DEF InsertRow
  <2>4. RowInv'
    BY <1>1, <2>1, <2>2, <2>3, WriteRows DEF Ended
  <2>. QED
    BY <1>1, <1>2, <2>1, <2>2, <2>4
<1>3. CASE asks[q].user \notin users
  <2>1. faults' \in 0 .. MaxFaults
    BY DEF RowInv, Types, InsertRow
  <2>2. RowInv' /\ Quiet(q) /\ at'[q] = "rejected" /\ asks'[q] = Nothing
    BY <1>3, <2>1, AnswerRows DEF InsertRow, Ended
  <2>. QED
    BY <1>1, <1>3, <2>2 DEF Quiet
<1>. QED
  BY <1>2, <1>3

\* The save of the copy that a request holds.
LEMMA SaveRows ==
  ASSUME RowInv, NEW q \in Requests, SaveRow(q)
  PROVE  /\ RowInv' /\ StepOf(q) /\ Target(q) \in Ids /\ rows[Target(q)] # NoRow
         /\ at'[q] \in Ended /\ asks'[q] = Nothing
         /\ Assigned(q, copy[q]) \in RowType /\ Assigned(q, copy[q]).table = asks[q].service
         /\ Quiet(q) \/ Writes(q, Assigned(q, copy[q]))
<1>1. /\ Target(q) \in Ids /\ rows[Target(q)] # NoRow
      /\ copy[q] \in RowType /\ copy[q].table = asks[q].service
  <2>1. Stage(q) /\ Found(q) /\ Holds(q) /\ at[q] = "save"
    BY DEF RowInv, Stages, SaveRow
  <2>. QED
    BY <2>1 DEF Stage, Fits, Is, Found, Holds, Tables, Ended
<1>2. Assigned(q, copy[q]) \in RowType /\ Assigned(q, copy[q]).table = asks[q].service
  BY <1>1, RowTypes
<1>3. CASE asks[q].user \in users
  <2>1. StepOf(q) /\ at'[q] \in Ended /\ asks'[q] = Nothing
    BY <1>3, AnswerStep DEF SaveRow, RowInv, Ended
  <2>2. Writes(q, Assigned(q, copy[q]))
    BY <1>3, <2>1 DEF Writes, SaveRow
  <2>3. RowInv'
    BY <1>1, <1>2, <2>1, <2>2, WriteRows
  <2>. QED
    BY <1>1, <1>2, <2>1, <2>2, <2>3
<1>4. CASE asks[q].user \notin users
  <2>1. faults' \in 0 .. MaxFaults
    BY DEF RowInv, Types, SaveRow
  <2>2. RowInv' /\ Quiet(q) /\ at'[q] \in Ended /\ asks'[q] = Nothing
    BY <1>4, <2>1, AnswerRows DEF SaveRow, Ended
  <2>. QED
    BY <1>1, <1>2, <2>2 DEF Quiet
<1>. QED
  BY <1>3, <1>4

\* The removal of a row, which may be gone already.
LEMMA DeleteRows ==
  ASSUME RowInv, NEW q \in Requests, DeleteRow(q), at[q] \in {"remove", "delete"}
  PROVE  /\ RowInv' /\ StepOf(q) /\ Target(q) \in Ids /\ Writes(q, Gone)
         /\ at'[q] \in Ended /\ asks'[q] = Nothing
<1>1. Target(q) \in Ids /\ rows[Target(q)] # NoRow
  <2>1. Stage(q) /\ Found(q)
    BY DEF RowInv, Stages
  <2>. QED
    BY <2>1 DEF Stage, Fits, Is, Found, Tables, Ended
<1>2. StepOf(q) /\ at'[q] \in Ended /\ asks'[q] = Nothing
  BY AnswerStep DEF DeleteRow, RowInv, Ended
<1>3. rows' = [rows EXCEPT ![Target(q)] = Gone]
  <2>1. Exists(Target(q)) \/ rows[Target(q)] = Gone
    BY <1>1, ExistingRows
  <2>. QED
    BY <1>1, <2>1 DEF DeleteRow, RowInv, Types
<1>4. Writes(q, Gone)
  BY <1>2, <1>3 DEF Writes, DeleteRow
<1>5. RowInv'
  BY <1>1, <1>2, <1>4, WriteRows
<1>. QED
  BY <1>1, <1>2, <1>4, <1>5

-----------------------------------------------------------------------------
(* What a step of a service tells the other services.                       *)

\* The rows that request q writes are of its service, or stay where they are.
Tidy(q) ==
  \A i \in Ids :
    \/ rows'[i] = rows[i]
    \/ rows[i] # NoRow /\ rows'[i] = Gone
    \/ rows[i] \in RowType /\ rows'[i] \in RowType /\ rows'[i].table = rows[i].table
    \/ /\ i = Target(q) /\ at[q] \in {"insert", "save"}
       /\ rows'[i] \in RowType /\ rows'[i].table = asks[q].service
       /\ rows[i] = Gone => i \in raced'

\* A request of one of the services in S takes a step.
StepIn(q, S) ==
  /\ StepOf(q) /\ Tidy(q)
  /\ (asks[q] = Nothing /\ at[q] = "new") \/ asks[q].service \in S
  /\ (asks'[q] = Nothing /\ at'[q] \in Ended) \/ asks'[q].service \in S

LEMMA TidyKeeps ==
  ASSUME RowInv, NEW q \in Requests, Tidy(q)
  PROVE  \A i \in Ids : rows[i] # NoRow => rows'[i] # NoRow
BY RowTypes DEF Tidy

LEMMA QuietTidy ==
  ASSUME NEW q \in Requests, Quiet(q)
  PROVE  StepOf(q) /\ Tidy(q)
BY DEF Quiet, Tidy

LEMMA WritesTidy ==
  ASSUME RowInv, NEW q \in Requests, NEW row, Writes(q, row), Target(q) \in Ids,
         \/ row = Gone /\ rows[Target(q)] # NoRow
         \/ rows[Target(q)] \in RowType /\ row \in RowType /\ row.table = rows[Target(q)].table
         \/ at[q] \in {"insert", "save"} /\ row \in RowType /\ row.table = asks[q].service
  PROVE  StepOf(q) /\ Tidy(q)
<1>1. at[q] = "insert" => rows[Target(q)] = NoRow
  BY DEF RowInv, Creates, Unborn
<1>2. at[q] = "save" /\ rows[Target(q)] = Gone => q \in stale
  BY RowTypes DEF RowInv, Holds
<1>3. q \in stale => Target(q) \in raced'
  BY DEF Writes, Wrote
<1>. QED
  BY <1>1, <1>2, <1>3, RowTypes DEF RowInv, Types, Writes, Tidy

LEMMA NewRow == \A table, text : Row(table, text).table = table
BY DEF Row

\* The steps of flow.service.ts.
LEMMA FlowRows ==
  ASSUME RowInv, HistoryInv, NEW q \in Requests, FlowStep(q)
  PROVE  RowInv' /\ StepIn(q, {"flows"})
<1>1. Stage(q) /\ Found(q)
  BY DEF RowInv, Stages
<1>2. CASE ReceiveFlow(q)
  <2>1. CASE \E i \in Ids :
               Fresh(i) /\ Receive(q, Ask("create", "flows", Owner[i], i, Columns), "insert")
    <3>1. PICK i \in Ids :
            Fresh(i) /\ Receive(q, Ask("create", "flows", Owner[i], i, Columns), "insert")
      BY <2>1
    <3>2. Owner[i] \in Users
      BY OwnerAssumption
    <3>3. PICK ask : ask = Ask("create", "flows", Owner[i], i, Columns)
      OBVIOUS
    <3>4. /\ ask \in AskType /\ ask.kind = "create" /\ ask.service = "flows"
          /\ ask.user = Owner[i] /\ ask.on = i
      BY <3>2, <3>3 DEF Ask, AskType, Tables
    <3>5. Receive(q, ask, "insert") /\ copy' = copy /\ "insert" \in Awaits
      BY <1>2, <3>1, <3>3 DEF ReceiveFlow, Awaits, Calls
    <3>6. Quiet(q) /\ at[q] = "new" /\ at'[q] = "insert" /\ asks'[q] = ask
      BY <3>4, <3>5, ReceiveAsks
    <3>7. RowInv'
      BY <3>1, <3>4, <3>6, ReceiveRows DEF Stage, Fits, Is, Target, Fresh, Ended
    <3>. QED
      BY <1>1, <3>4, <3>6, <3>7, QuietTidy DEF StepIn, Stage, Fits, Is
  <2>2. CASE \E i \in Ids, u \in Users, columns \in {{"text"}, {"mark"}} :
               IsIn(i, "flows") /\ Receive(q, Ask("update", "flows", u, i, columns), "find")
    <3>1. PICK i \in Ids, u \in Users, columns \in {{"text"}, {"mark"}} :
            IsIn(i, "flows") /\ Receive(q, Ask("update", "flows", u, i, columns), "find")
      BY <2>2
    <3>2. PICK ask : ask = Ask("update", "flows", u, i, columns)
      OBVIOUS
    <3>3. /\ ask \in AskType /\ ask.kind = "update" /\ ask.service = "flows" /\ ask.on = i
      BY <3>1, <3>2 DEF Ask, AskType, Tables, Columns
    <3>4. Receive(q, ask, "find") /\ copy' = copy /\ "find" \in Awaits
      BY <1>2, <3>1, <3>2 DEF ReceiveFlow, Awaits, Calls
    <3>5. Quiet(q) /\ at[q] = "new" /\ at'[q] = "find" /\ asks'[q] = ask
      BY <3>3, <3>4, ReceiveAsks
    <3>6. rows[i] # NoRow
      BY <3>1, RowTypes, ExistingRows DEF IsIn
    <3>7. RowInv'
      BY <3>1, <3>3, <3>5, <3>6, ReceiveRows DEF Stage, Fits, Is, Target, Ended, Unborn
    <3>. QED
      BY <1>1, <3>3, <3>5, <3>7, QuietTidy DEF StepIn, Stage, Fits, Is
  <2>3. CASE \E i \in Ids, u \in Users, kind \in {"remove", "create history"} :
               IsIn(i, "flows") /\ Receive(q, Ask(kind, "flows", u, i, {}), "find")
    <3>1. PICK i \in Ids, u \in Users, kind \in {"remove", "create history"} :
            IsIn(i, "flows") /\ Receive(q, Ask(kind, "flows", u, i, {}), "find")
      BY <2>3
    <3>2. PICK ask : ask = Ask(kind, "flows", u, i, {})
      OBVIOUS
    <3>3. /\ ask \in AskType /\ ask.kind = kind /\ ask.service = "flows" /\ ask.on = i
      BY <3>1, <3>2 DEF Ask, AskType, Tables, Columns
    <3>4. Receive(q, ask, "find") /\ copy' = copy /\ "find" \in Awaits
      BY <1>2, <3>1, <3>2 DEF ReceiveFlow, Awaits, Calls
    <3>5. Quiet(q) /\ at[q] = "new" /\ at'[q] = "find" /\ asks'[q] = ask
      BY <3>3, <3>4, ReceiveAsks
    <3>6. rows[i] # NoRow
      BY <3>1, RowTypes, ExistingRows DEF IsIn
    <3>7. RowInv'
      BY <3>1, <3>3, <3>5, <3>6, ReceiveRows DEF Stage, Fits, Is, Target, Ended, Unborn
    <3>. QED
      BY <1>1, <3>3, <3>5, <3>7, QuietTidy DEF StepIn, Stage, Fits, Is
  <2>4. CASE \E h \in Requests, u \in Users :
               Kept(h) /\ Receive(q, Ask("remove history", "flows", u, h, {}), "history")
    <3>1. PICK h \in Requests, u \in Users :
            Kept(h) /\ Receive(q, Ask("remove history", "flows", u, h, {}), "history")
      BY <2>4
    <3>2. PICK ask : ask = Ask("remove history", "flows", u, h, {})
      OBVIOUS
    <3>3. ask \in AskType /\ ask.kind = "remove history" /\ ask.service = "flows"
      BY <3>1, <3>2 DEF Ask, AskType, Tables
    <3>4. Receive(q, ask, "history") /\ copy' = copy /\ "history" \in Awaits
      BY <1>2, <3>1, <3>2 DEF ReceiveFlow, Awaits, Calls
    <3>5. Quiet(q) /\ at[q] = "new" /\ at'[q] = "history" /\ asks'[q] = ask
      BY <3>3, <3>4, ReceiveAsks
    <3>6. RowInv'
      BY <3>3, <3>5, ReceiveRows DEF Stage, Fits, Is, Ended, Unborn
    <3>. QED
      BY <1>1, <3>3, <3>5, <3>6, QuietTidy DEF StepIn, Stage, Fits, Is
  <2>. QED
    BY <1>2, <2>1, <2>2, <2>3, <2>4 DEF ReceiveFlow
<1>3. CASE CreateFlow(q)
  <2>1. Row("flows", q) \in RowType /\ Row("flows", q).table = "flows"
    BY RowTypes, NewRow DEF Tables
  <2>2. PICK row : row = Row("flows", q)
    OBVIOUS
  <2>3. InsertRow(q, row, "done") /\ row \in RowType /\ row.table = "flows" /\ at[q] = "insert"
    BY <1>3, <2>1, <2>2 DEF CreateFlow, InsertRow
  <2>4. /\ RowInv' /\ StepOf(q) /\ Target(q) \in Ids
        /\ Quiet(q) \/ Writes(q, row)
        /\ at'[q] \in Ended /\ asks'[q] = Nothing
    BY <1>3, <2>3, InsertRows DEF CreateFlow, Asks, Tables, Ended
  <2>. QED
    BY <1>3, <2>3, <2>4, QuietTidy, WritesTidy DEF StepIn, CreateFlow, Asks
<1>4. CASE FindFlow(q)
  <2>1. PICK next \in {"save", "remove", "insert history"} :
          FindOwn(q, Target(q), next) /\ Fits(asks[q], next) /\ asks[q].service = "flows"
                                      /\ asks[q].kind \in {"update", "remove", "create history"}
    BY <1>4 DEF FindFlow, Asks, Fits, Is
  <2>2. Target(q) \in Ids
    BY <1>1, <2>1 DEF Found, Tables
  <2>3. /\ RowInv' /\ Quiet(q)
        /\ (at'[q] \in Ended /\ asks'[q] = Nothing) \/ asks'[q] = asks[q]
    BY <2>1, <2>2, FindOwnRows
  <2>. QED
    BY <2>1, <2>3, QuietTidy DEF StepIn
<1>5. CASE UpdateFlow(q)
  <2>1. /\ RowInv' /\ StepOf(q) /\ Target(q) \in Ids
        /\ at'[q] \in Ended /\ asks'[q] = Nothing
        /\ Assigned(q, copy[q]) \in RowType /\ Assigned(q, copy[q]).table = asks[q].service
        /\ Quiet(q) \/ Writes(q, Assigned(q, copy[q]))
    BY <1>5, SaveRows DEF UpdateFlow
  <2>. QED
    BY <1>5, <2>1, QuietTidy, WritesTidy DEF StepIn, UpdateFlow, SaveRow, Asks
<1>6. CASE RemoveFlow(q)
  <2>1. /\ RowInv' /\ StepOf(q) /\ Target(q) \in Ids /\ Writes(q, Gone)
        /\ at'[q] \in Ended /\ asks'[q] = Nothing
    BY <1>6, DeleteRows DEF RemoveFlow
  <2>2. asks[q].service = "flows" /\ rows[Target(q)] # NoRow
    BY <1>1, <1>6 DEF RemoveFlow, Stage, Fits, Is, Found, Tables, Ended
  <2>. QED
    BY <2>1, <2>2, WritesTidy DEF StepIn
<1>7. CASE CreateHistory(q)
  <2>1. RowInv' /\ Quiet(q) /\ at'[q] \in Ended /\ asks'[q] = Nothing
    BY <1>7, AnswerRows DEF CreateHistory, Ended
  <2>. QED
    BY <1>1, <1>7, <2>1, QuietTidy DEF StepIn, CreateHistory, Stage, Fits, Is, Ended
<1>8. CASE FindHistory(q)
  <2>1. asks[q].service = "flows" /\ asks[q].kind = "remove history"
    BY <1>1, <1>8 DEF FindHistory, Stage, Fits, Is, Ended
  <2>2. CASE Kept(Target(q))
    <3>1. StepOf(q) /\ at'[q] = "find" /\ asks' = asks
      BY <1>8, <2>2, GotoStep DEF FindHistory, RowInv, Awaits, Calls
    <3>2. Quiet(q)
      BY <1>8, <3>1, StaysQuiet DEF FindHistory
    <3>3. RowInv'
      BY <1>8, <2>1, <3>1, <3>2, WaitRows DEF FindHistory, Stage, Fits, Is, Holds, Ended, Unborn
    <3>. QED
      BY <2>1, <3>1, <3>2, <3>3, QuietTidy DEF StepIn
  <2>3. CASE ~Kept(Target(q))
    <3>1. RowInv' /\ Quiet(q) /\ at'[q] \in Ended /\ asks'[q] = Nothing
      BY <1>8, <2>3, AnswerRows DEF FindHistory, Ended
    <3>. QED
      BY <2>1, <3>1, QuietTidy DEF StepIn
  <2>. QED
    BY <2>2, <2>3
<1>9. CASE FindFlowOfHistory(q)
  <2>1. FindOwn(q, histories[Target(q)].flow, "remove history") /\ Asks(q, "remove history", "flows")
    BY <1>9 DEF FindFlowOfHistory
  <2>2. histories[Target(q)].flow \in Ids
    BY <2>1 DEF HistoryInv, NoRow
  <2>3. Fits(asks[q], "remove history")
    BY <2>1 DEF Fits, Is, Asks
  <2>4. /\ RowInv' /\ Quiet(q)
        /\ (at'[q] \in Ended /\ asks'[q] = Nothing) \/ asks'[q] = asks[q]
    BY <2>1, <2>2, <2>3, FindOwnRows
  <2>. QED
    BY <2>1, <2>4, QuietTidy DEF StepIn, Asks
<1>10. CASE RemoveHistory(q)
  <2>1. RowInv' /\ Quiet(q) /\ at'[q] \in Ended /\ asks'[q] = Nothing
    BY <1>10, AnswerRows DEF RemoveHistory, Ended
  <2>. QED
    BY <1>1, <1>10, <2>1, QuietTidy DEF StepIn, RemoveHistory, Stage, Fits, Is, Ended
<1>. QED
  BY <1>2, <1>3, <1>4, <1>5, <1>6, <1>7, <1>8, <1>9, <1>10 DEF FlowStep

\* The steps of notifications.service.ts.
LEMMA NotificationRows ==
  ASSUME RowInv, NEW q \in Requests, NotificationStep(q)
  PROVE  RowInv' /\ StepIn(q, {"notifications"})
<1>1. Stage(q) /\ Found(q)
  BY DEF RowInv, Stages
<1>2. CASE ReceiveNotification(q)
  <2>1. CASE \E i \in Ids :
               /\ Fresh(i)
               /\ Receive(q, Ask("create", "notifications", Owner[i], i, Columns), "insert")
    <3>1. PICK i \in Ids :
            /\ Fresh(i)
            /\ Receive(q, Ask("create", "notifications", Owner[i], i, Columns), "insert")
      BY <2>1
    <3>2. PICK ask : ask = Ask("create", "notifications", Owner[i], i, Columns)
      OBVIOUS
    <3>3. Owner[i] \in Users
      BY OwnerAssumption
    <3>4. /\ ask \in AskType /\ ask.kind = "create" /\ ask.service = "notifications"
          /\ ask.user = Owner[i] /\ ask.on = i
      BY <3>2, <3>3 DEF Ask, AskType, Tables
    <3>5. Receive(q, ask, "insert") /\ copy' = copy /\ "insert" \in Awaits
      BY <1>2, <3>1, <3>2 DEF ReceiveNotification, Awaits, Calls
    <3>6. Quiet(q) /\ at[q] = "new" /\ at'[q] = "insert" /\ asks'[q] = ask
      BY <3>4, <3>5, ReceiveAsks
    <3>7. RowInv'
      BY <3>1, <3>4, <3>6, ReceiveRows DEF Stage, Fits, Is, Target, Fresh, Ended
    <3>. QED
      BY <1>1, <3>4, <3>6, <3>7, QuietTidy DEF StepIn, Stage, Fits, Is
  <2>2. CASE \E i \in Ids, u \in Users, columns \in {{"text"}, {"mark"}} :
               /\ IsIn(i, "notifications")
               /\ Receive(q, Ask("update", "notifications", u, i, columns), "find")
    <3>1. PICK i \in Ids, u \in Users, columns \in {{"text"}, {"mark"}} :
            /\ IsIn(i, "notifications")
            /\ Receive(q, Ask("update", "notifications", u, i, columns), "find")
      BY <2>2
    <3>2. PICK ask : ask = Ask("update", "notifications", u, i, columns)
      OBVIOUS
    <3>4. /\ ask \in AskType /\ ask.kind = "update" /\ ask.service = "notifications" /\ ask.on = i
      BY <3>1, <3>2 DEF Ask, AskType, Tables, Columns
    <3>5. Receive(q, ask, "find") /\ copy' = copy /\ "find" \in Awaits
      BY <1>2, <3>1, <3>2 DEF ReceiveNotification, Awaits, Calls
    <3>6. Quiet(q) /\ at[q] = "new" /\ at'[q] = "find" /\ asks'[q] = ask
      BY <3>4, <3>5, ReceiveAsks
    <3>7. rows[i] # NoRow
      BY <3>1, RowTypes, ExistingRows DEF IsIn
    <3>8. RowInv'
      BY <3>4, <3>6, <3>7, ReceiveRows DEF Stage, Fits, Is, Target, Ended, Unborn
    <3>. QED
      BY <1>1, <3>4, <3>6, <3>8, QuietTidy DEF StepIn, Stage, Fits, Is
  <2>3. CASE \E i \in Ids, u \in Users :
               /\ IsIn(i, "notifications")
               /\ Receive(q, Ask("remove", "notifications", u, i, {}), "delete")
    <3>1. PICK i \in Ids, u \in Users :
            /\ IsIn(i, "notifications")
            /\ Receive(q, Ask("remove", "notifications", u, i, {}), "delete")
      BY <2>3
    <3>2. PICK ask : ask = Ask("remove", "notifications", u, i, {})
      OBVIOUS
    <3>4. ask \in AskType /\ ask.kind = "remove" /\ ask.service = "notifications" /\ ask.on = i
      BY <3>1, <3>2 DEF Ask, AskType, Tables
    <3>5. Receive(q, ask, "delete") /\ copy' = copy /\ "delete" \in Awaits
      BY <1>2, <3>1, <3>2 DEF ReceiveNotification, Awaits, Calls
    <3>6. Quiet(q) /\ at[q] = "new" /\ at'[q] = "delete" /\ asks'[q] = ask
      BY <3>4, <3>5, ReceiveAsks
    <3>7. rows[i] # NoRow
      BY <3>1, RowTypes, ExistingRows DEF IsIn
    <3>8. RowInv'
      BY <3>4, <3>6, <3>7, ReceiveRows DEF Stage, Fits, Is, Target, Ended, Unborn
    <3>. QED
      BY <1>1, <3>4, <3>6, <3>8, QuietTidy DEF StepIn, Stage, Fits, Is
  <2>. QED
    BY <1>2, <2>1, <2>2, <2>3 DEF ReceiveNotification
<1>3. CASE OpenStream(q)
  <2>1. PICK u \in Users : Receive(q, Ask("follow", "notifications", u, None, {}), "rows")
    BY <1>3 DEF OpenStream
  <2>2. PICK ask : ask = Ask("follow", "notifications", u, None, {})
    OBVIOUS
  <2>3. ask \in AskType /\ ask.kind = "follow" /\ ask.service = "notifications"
    BY <2>1, <2>2 DEF Ask, AskType, Tables
  <2>4. Receive(q, ask, "rows") /\ "rows" \in Awaits
    BY <2>1, <2>2 DEF Awaits, Calls
  <2>5. StepOf(q) /\ at[q] = "new" /\ at'[q] = "rows" /\ asks'[q] = ask
    BY <1>3, <2>3, <2>4 DEF OpenStream, RowInv, Types, Receive, Goto, StepOf, Others
  <2>6. Quiet(q)
    BY <2>4, <2>5, StaysQuiet DEF Receive
  <2>7. RowInv'
    BY <2>3, <2>5, <2>6, ReceiveRows DEF Stage, Fits, Is, Ended, Unborn
  <2>. QED
    BY <1>1, <2>3, <2>5, <2>6, <2>7, QuietTidy DEF StepIn, Stage, Fits, Is
<1>4. CASE FindPage(q)
  <2>1. StepOf(q) /\ at'[q] = "count" /\ asks' = asks
    BY <1>4 DEF FindPage, RowInv, Types, Goto, StepOf, Others, Awaits, Calls
  <2>2. Quiet(q)
    BY <1>4, <2>1, StaysQuiet DEF FindPage
  <2>3. Is(asks[q], "follow", "notifications") /\ at[q] = "rows"
    BY <1>1, <1>4 DEF FindPage, Stage, Fits, Ended
  <2>4. RowInv'
    BY <2>1, <2>2, <2>3, WaitRows DEF Stage, Fits, Holds, Ended, Unborn
  <2>. QED
    BY <2>1, <2>2, <2>3, <2>4, QuietTidy DEF StepIn, Is
<1>5. CASE CountRows(q)
  <2>1. StepOf(q) /\ at'[q] \in {"rows", "watch"} /\ asks' = asks
    BY <1>5 DEF CountRows, RowInv, Types, Goto, StepOf, Others, Awaits, Calls
  <2>2. Quiet(q)
    BY <1>5, <2>1, StaysQuiet DEF CountRows
  <2>3. Is(asks[q], "follow", "notifications") /\ at[q] = "count"
    BY <1>1, <1>5 DEF CountRows, Stage, Fits, Ended
  <2>4. RowInv'
    BY <2>1, <2>2, <2>3, WaitRows DEF Stage, Fits, Holds, Ended, Unborn
  <2>. QED
    BY <2>1, <2>2, <2>3, <2>4, QuietTidy DEF StepIn, Is
<1>6. CASE CloseStream(q)
  <2>1. at[q] # "save" /\ asks[q].service = "notifications"
    BY <1>1, <1>6 DEF CloseStream, Follows, Asks, Stage, Fits, Is, Ended
  <2>2. RowInv' /\ Quiet(q) /\ at'[q] \in Ended /\ asks'[q] = Nothing
    BY <1>6, <2>1, AnswerRows DEF CloseStream, Ended
  <2>. QED
    BY <2>1, <2>2, QuietTidy DEF StepIn
<1>7. CASE CreateNotification(q)
  <2>1. PICK row : row = Row("notifications", q)
    OBVIOUS
  <2>2. row \in RowType /\ row.table = "notifications"
    BY <2>1, RowTypes, NewRow DEF Tables
  <2>3. InsertRow(q, row, "emit") /\ at[q] = "insert"
    BY <1>7, <2>1 DEF CreateNotification, InsertRow
  <2>4. /\ RowInv' /\ StepOf(q) /\ Target(q) \in Ids
        /\ Quiet(q) \/ Writes(q, row)
        /\ (at'[q] \in Ended /\ asks'[q] = Nothing) \/ asks'[q] = asks[q]
    BY <1>7, <2>2, <2>3, InsertRows DEF CreateNotification, Asks, Is, Tables, Ended
  <2>. QED
    BY <1>7, <2>2, <2>3, <2>4, QuietTidy, WritesTidy DEF StepIn, CreateNotification, Asks
<1>8. CASE Emit(q)
  <2>1. StepOf(q) /\ at'[q] = "done" /\ asks'[q] = Nothing
    BY <1>8, NothingType DEF Emit, RowInv, Types, Goto, StepOf, Others, Awaits, Ended
  <2>2. Quiet(q)
    BY <1>8, <2>1, StaysQuiet DEF Emit
  <2>3. RowInv'
    BY <2>1, <2>2, EndRows DEF Ended
  <2>4. asks[q].service = "notifications"
    BY <1>1, <1>8 DEF Emit, Stage, Fits, Is, Ended
  <2>. QED
    BY <2>1, <2>2, <2>3, <2>4, QuietTidy DEF StepIn, Ended
<1>9. CASE FindNotification(q)
  <2>1. /\ FindOwn(q, Target(q), "save") /\ Fits(asks[q], "save")
        /\ asks[q].service = "notifications" /\ asks[q].kind = "update"
    BY <1>9 DEF FindNotification, Asks, Fits, Is
  <2>2. Target(q) \in Ids
    BY <1>1, <2>1 DEF Found, Tables
  <2>3. /\ RowInv' /\ Quiet(q)
        /\ (at'[q] \in Ended /\ asks'[q] = Nothing) \/ asks'[q] = asks[q]
    BY <2>1, <2>2, FindOwnRows
  <2>. QED
    BY <2>1, <2>3, QuietTidy DEF StepIn
<1>10. CASE SaveNotification(q)
  <2>1. /\ RowInv' /\ StepOf(q) /\ Target(q) \in Ids
        /\ at'[q] \in Ended /\ asks'[q] = Nothing
        /\ Assigned(q, copy[q]) \in RowType /\ Assigned(q, copy[q]).table = asks[q].service
        /\ Quiet(q) \/ Writes(q, Assigned(q, copy[q]))
    BY <1>10, SaveRows DEF SaveNotification
  <2>. QED
    BY <1>10, <2>1, QuietTidy, WritesTidy DEF StepIn, SaveNotification, SaveRow, Asks
<1>11. CASE DeleteNotification(q)
  <2>1. CASE IsIn(Target(q), "notifications") /\ Owner[Target(q)] = asks[q].user
    <3>1. /\ RowInv' /\ StepOf(q) /\ Target(q) \in Ids /\ Writes(q, Gone)
          /\ at'[q] \in Ended /\ asks'[q] = Nothing
      BY <1>11, <2>1, DeleteRows DEF DeleteNotification
    <3>2. asks[q].service = "notifications" /\ rows[Target(q)] # NoRow
      BY <1>1, <1>11 DEF DeleteNotification, Asks, Found, Tables
    <3>. QED
      BY <3>1, <3>2, WritesTidy DEF StepIn
  <2>2. CASE ~(IsIn(Target(q), "notifications") /\ Owner[Target(q)] = asks[q].user)
    <3>1. RowInv' /\ Quiet(q) /\ at'[q] \in Ended /\ asks'[q] = Nothing
      BY <1>11, <2>2, AnswerRows DEF DeleteNotification, Ended
    <3>. QED
      BY <1>11, <3>1, QuietTidy DEF StepIn, DeleteNotification, Asks
  <2>. QED
    BY <2>1, <2>2
<1>. QED
  BY <1>2, <1>3, <1>4, <1>5, <1>6, <1>7, <1>8, <1>9, <1>10, <1>11 DEF NotificationStep

\* The steps of files.service.ts and audio.service.ts.
LEMMA UploadRows ==
  ASSUME RowInv, NEW q \in Requests, UploadStep(q)
  PROVE  RowInv' /\ StepIn(q, {"files", "audios"})
<1>1. Stage(q) /\ Found(q) /\ Holds(q)
  BY DEF RowInv, Stages
<1>2. CASE ReceiveUpload(q)
  <2>1. CASE \E i \in Ids, service \in {"files", "audios"} :
               Fresh(i) /\ Receive(q, Ask("create", service, Owner[i], i, Columns), "put")
    <3>1. PICK i \in Ids, service \in {"files", "audios"} :
            Fresh(i) /\ Receive(q, Ask("create", service, Owner[i], i, Columns), "put")
      BY <2>1
    <3>2. PICK ask : ask = Ask("create", service, Owner[i], i, Columns)
      OBVIOUS
    <3>3. Owner[i] \in Users
      BY OwnerAssumption
    <3>4. /\ ask \in AskType /\ ask.kind = "create" /\ ask.service = service
          /\ ask.user = Owner[i] /\ ask.on = i
      BY <3>1, <3>2, <3>3 DEF Ask, AskType, Tables
    <3>5. Receive(q, ask, "put") /\ copy' = copy /\ "put" \in Awaits
      BY <1>2, <3>1, <3>2 DEF ReceiveUpload, Awaits, Calls
    <3>6. Quiet(q) /\ at[q] = "new" /\ at'[q] = "put" /\ asks'[q] = ask
      BY <3>4, <3>5, ReceiveAsks
    <3>7. RowInv'
      BY <3>1, <3>4, <3>6, ReceiveRows DEF Stage, Fits, Is, Target, Fresh, Ended
    <3>. QED
      BY <1>1, <3>1, <3>4, <3>6, <3>7, QuietTidy DEF StepIn, Stage, Fits, Is
  <2>2. CASE \E i \in Ids, u \in Users :
               /\ IsIn(i, "audios")
               /\ Receive(q, Ask("update", "audios", u, i, {"mark"}), "deactivate")
    <3>1. PICK i \in Ids, u \in Users :
            /\ IsIn(i, "audios")
            /\ Receive(q, Ask("update", "audios", u, i, {"mark"}), "deactivate")
      BY <2>2
    <3>2. PICK ask : ask = Ask("update", "audios", u, i, {"mark"})
      OBVIOUS
    <3>4. /\ ask \in AskType /\ ask.kind = "update" /\ ask.service = "audios" /\ ask.on = i
          /\ ask.columns = {"mark"}
      BY <3>1, <3>2 DEF Ask, AskType, Tables, Columns
    <3>5. Receive(q, ask, "deactivate") /\ copy' = copy /\ "deactivate" \in Awaits
      BY <1>2, <3>1, <3>2 DEF ReceiveUpload, Awaits, Calls
    <3>6. Quiet(q) /\ at[q] = "new" /\ at'[q] = "deactivate" /\ asks'[q] = ask
      BY <3>4, <3>5, ReceiveAsks
    <3>7. rows[i] # NoRow
      BY <3>1, RowTypes, ExistingRows DEF IsIn
    <3>8. RowInv'
      BY <3>4, <3>6, <3>7, ReceiveRows DEF Stage, Fits, Is, Target, Ended, Unborn
    <3>. QED
      BY <1>1, <3>4, <3>6, <3>8, QuietTidy DEF StepIn, Stage, Fits, Is
  <2>. QED
    BY <1>2, <2>1, <2>2 DEF ReceiveUpload
<1>3. CASE PutObject(q)
  <2>1. asks[q].kind = "create" /\ asks[q].service \in {"files", "audios"} /\ at[q] = "put"
    BY <1>1, <1>3 DEF PutObject, Stage, Fits, Is, Ended
  <2>2. PICK row : row = Row(asks[q].service, None)
    OBVIOUS
  <2>3. row \in RowType /\ row.table = asks[q].service /\ row.mark = None
    BY <2>1, <2>2, RowTypes DEF Tables, Row
  <2>4. PICK next : next = (IF asks[q].service = "audios" THEN "transcribe" ELSE "insert")
    OBVIOUS
  <2>5. next \in Awaits
    BY <2>4 DEF Awaits, Calls
  <2>6. StepOf(q) /\ at'[q] = next /\ copy'[q] = row /\ asks' = asks
    BY <1>3, <2>2, <2>4, <2>5, TakeStep DEF PutObject, RowInv
  <2>7. Quiet(q)
    BY <2>1, <2>6, <1>3, StaysQuiet DEF PutObject
  <2>8. Stage(q)' /\ Holds(q)'
    <3>1. at'[q] = "transcribe" => copy'[q] = Row("audios", None)
      BY <2>1, <2>2, <2>4, <2>6
    <3>. QED
      BY <2>1, <2>3, <2>4, <2>6, <3>1 DEF Stage, Fits, Is, Holds
  <2>9. RowInv'
    BY <2>1, <2>4, <2>6, <2>7, <2>8, WaitRows DEF Ended, Unborn
  <2>. QED
    BY <2>1, <2>6, <2>7, <2>9, QuietTidy DEF StepIn
<1>4. CASE TranscribeAudio(q)
  <2>1. Is(asks[q], "create", "audios") /\ at[q] = "transcribe" /\ copy[q] = Row("audios", None)
    BY <1>1, <1>4 DEF TranscribeAudio, Stage, Fits, Ended, Holds
  <2>2. PICK text \in {q, None} : copy' = [copy EXCEPT ![q].text = text]
    BY <1>4 DEF TranscribeAudio
  <2>3. PICK row : row = [copy[q] EXCEPT !.text = text]
    OBVIOUS
  <2>4. row \in RowType /\ row.table = "audios" /\ row.mark = None
    <3>1. row = [Row("audios", None) EXCEPT !.text = text]
      BY <2>1, <2>3
    <3>. QED
      BY <2>2, <3>1 DEF Row, RowType, Tables
  <2>5. copy' = [copy EXCEPT ![q] = row] /\ "insert" \in Awaits
    BY <2>2, <2>3 DEF Awaits, Calls
  <2>6. StepOf(q) /\ at'[q] = "insert" /\ copy'[q] = row /\ asks' = asks
    BY <1>4, <2>5, TakeStep DEF TranscribeAudio, RowInv
  <2>7. Quiet(q)
    BY <1>4, <2>1, <2>6, StaysQuiet DEF TranscribeAudio
  <2>8. Stage(q)' /\ Holds(q)'
    BY <2>1, <2>4, <2>6 DEF Stage, Fits, Is, Holds
  <2>9. RowInv'
    BY <2>1, <2>6, <2>7, <2>8, WaitRows DEF Ended, Unborn
  <2>. QED
    BY <2>1, <2>6, <2>7, <2>9, QuietTidy DEF StepIn, Is
<1>5. CASE InsertUpload(q)
  <2>1. InsertRow(q, copy[q], "done") /\ at[q] = "insert" /\ asks[q].service \in {"files", "audios"}
    BY <1>5 DEF InsertUpload, InsertRow
  <2>2. copy[q] \in RowType /\ copy[q].table = asks[q].service /\ asks[q].kind = "create"
    BY <1>1, <2>1 DEF Holds, Stage, Fits, Is, Ended
  <2>3. /\ RowInv' /\ StepOf(q) /\ Target(q) \in Ids
        /\ Quiet(q) \/ Writes(q, copy[q])
        /\ at'[q] \in Ended /\ asks'[q] = Nothing
    BY <2>1, <2>2, InsertRows DEF Tables, Ended
  <2>. QED
    BY <2>1, <2>2, <2>3, QuietTidy, WritesTidy DEF StepIn
<1>6. CASE DeactivateAudio(q)
  <2>1. Is(asks[q], "update", "audios") /\ at[q] = "deactivate"
    BY <1>1, <1>6 DEF DeactivateAudio, Stage, Fits, Ended
  <2>2. Target(q) \in Ids /\ rows[Target(q)] # NoRow
    BY <1>1, <2>1 DEF Found, Is, Tables
  <2>3. CASE Exists(Target(q))
    <3>1. StepOf(q) /\ at'[q] \in Ended /\ asks'[q] = Nothing
      BY <1>6, AnswerStep DEF DeactivateAudio, RowInv, Ended
    <3>2. PICK row : row = [rows[Target(q)] EXCEPT !.mark = q]
      OBVIOUS
    <3>3. row \in RowType /\ rows[Target(q)] \in RowType /\ row.table = rows[Target(q)].table
      BY <2>2, <2>3, <3>2, ExistingRows DEF RowType
    <3>4. Writes(q, row)
      BY <1>6, <2>3, <3>1, <3>2 DEF DeactivateAudio, Writes
    <3>5. RowInv'
      BY <2>2, <3>1, <3>3, <3>4, WriteRows
    <3>. QED
      BY <2>1, <2>2, <3>1, <3>3, <3>4, <3>5, WritesTidy DEF StepIn, Is
  <2>4. CASE ~Exists(Target(q))
    <3>1. Stays /\ Answer(q, "done")
      BY <1>6, <2>4 DEF DeactivateAudio, Stays
    <3>2. RowInv' /\ Quiet(q) /\ at'[q] \in Ended /\ asks'[q] = Nothing
      BY <2>1, <3>1, AnswerRows DEF Ended
    <3>. QED
      BY <2>1, <3>2, QuietTidy DEF StepIn, Is
  <2>. QED
    BY <2>3, <2>4
<1>. QED
  BY <1>2, <1>3, <1>4, <1>5, <1>6 DEF UploadStep

\* The steps of push-notifications.service.ts.
LEMMA SubscriptionRows ==
  ASSUME RowInv, NEW q \in Requests, SubscriptionStep(q)
  PROVE  RowInv' /\ StepIn(q, {"push"})
<1>1. Stage(q)
  BY DEF RowInv, Stages
<1>2. CASE ReceiveSubscribe(q)
  <2>1. PICK e \in Endpoints, u \in Users : Receive(q, Ask("create", "push", u, e, {}), "endpoint")
    BY <1>2 DEF ReceiveSubscribe
  <2>2. PICK ask : ask = Ask("create", "push", u, e, {})
    OBVIOUS
  <2>3. ask \in AskType /\ ask.kind = "create" /\ ask.service = "push"
    BY <2>1, <2>2 DEF Ask, AskType, Tables
  <2>4. Receive(q, ask, "endpoint") /\ copy' = copy /\ "endpoint" \in Awaits
    BY <1>2, <2>1, <2>2 DEF ReceiveSubscribe, Awaits, Calls
  <2>5. Quiet(q) /\ at[q] = "new" /\ at'[q] = "endpoint" /\ asks'[q] = ask
    BY <2>3, <2>4, ReceiveAsks
  <2>6. RowInv'
    BY <2>3, <2>5, ReceiveRows DEF Stage, Fits, Is, Ended, Unborn, Tables
  <2>. QED
    BY <1>1, <2>3, <2>5, <2>6, QuietTidy DEF StepIn, Stage, Fits, Is
<1>3. CASE FindEndpoint(q)
  <2>1. Is(asks[q], "create", "push") /\ at[q] = "endpoint"
    BY <1>1, <1>3 DEF FindEndpoint, Stage, Fits, Ended
  <2>2. CASE Answer(q, "done")
    <3>1. RowInv' /\ Quiet(q) /\ at'[q] \in Ended /\ asks'[q] = Nothing
      BY <1>3, <2>1, <2>2, AnswerRows DEF FindEndpoint, Ended
    <3>. QED
      BY <2>1, <3>1, QuietTidy DEF StepIn, Is
  <2>3. CASE ~Answer(q, "done")
    <3>1. StepOf(q) /\ at'[q] \in {"subscribe", "reassign"} /\ asks' = asks
      BY <1>3, <2>3 DEF FindEndpoint, RowInv, Types, Goto, StepOf, Others, Awaits, Calls
    <3>2. Quiet(q)
      BY <1>3, <2>1, <3>1, StaysQuiet DEF FindEndpoint
    <3>3. RowInv'
      BY <2>1, <3>1, <3>2, WaitRows DEF Stage, Fits, Is, Holds, Ended, Unborn
    <3>. QED
      BY <2>1, <3>1, <3>2, <3>3, QuietTidy DEF StepIn, Is
  <2>. QED
    BY <2>2, <2>3
<1>4. CASE SaveSubscription(q)
  <2>1. Is(asks[q], "create", "push") /\ at[q] # "save"
    BY <1>1, <1>4 DEF SaveSubscription, Stage, Fits, Ended
  <2>2. PICK how \in Ended : Answer(q, how)
    BY <1>4 DEF SaveSubscription, Ended
  <2>3. RowInv' /\ Quiet(q) /\ at'[q] \in Ended /\ asks'[q] = Nothing
    BY <1>4, <2>1, <2>2, AnswerRows DEF SaveSubscription
  <2>. QED
    BY <2>1, <2>3, QuietTidy DEF StepIn, Is
<1>5. CASE SendToUser(q)
  <2>1. PICK u \in Users : Receive(q, Ask("send", "push", u, None, {}), "subscriptions")
    BY <1>5 DEF SendToUser
  <2>2. PICK ask : ask = Ask("send", "push", u, None, {})
    OBVIOUS
  <2>3. ask \in AskType /\ ask.kind = "send" /\ ask.service = "push"
    BY <2>1, <2>2 DEF Ask, AskType, Tables
  <2>4. Receive(q, ask, "subscriptions") /\ copy' = copy /\ "subscriptions" \in Awaits
    BY <1>5, <2>1, <2>2 DEF SendToUser, Awaits, Calls
  <2>5. Quiet(q) /\ at[q] = "new" /\ at'[q] = "subscriptions" /\ asks'[q] = ask
    BY <2>3, <2>4, ReceiveAsks
  <2>6. RowInv'
    BY <2>3, <2>5, ReceiveRows DEF Stage, Fits, Is, Ended, Unborn, Tables
  <2>. QED
    BY <1>1, <2>3, <2>5, <2>6, QuietTidy DEF StepIn, Stage, Fits, Is
<1>6. CASE FindSubscriptions(q)
  <2>1. Is(asks[q], "send", "push") /\ at[q] = "subscriptions"
    BY <1>1, <1>6 DEF FindSubscriptions, Stage, Fits, Ended
  <2>2. StepOf(q) /\ at'[q] = "push" /\ asks' = asks
    BY <1>6 DEF FindSubscriptions, RowInv, Types, Goto, StepOf, Others, Awaits
  <2>3. Quiet(q)
    BY <1>6, <2>1, <2>2, StaysQuiet DEF FindSubscriptions
  <2>4. RowInv'
    BY <2>1, <2>2, <2>3, WaitRows DEF Stage, Fits, Is, Holds, Ended, Unborn
  <2>. QED
    BY <2>1, <2>2, <2>3, <2>4, QuietTidy DEF StepIn, Is
<1>7. CASE AllSent(q)
  <2>1. Is(asks[q], "send", "push") /\ at[q] = "push"
    BY <1>1, <1>7 DEF AllSent, Stage, Fits, Ended
  <2>2. RowInv' /\ Quiet(q) /\ at'[q] \in Ended /\ asks'[q] = Nothing
    BY <1>7, <2>1, AnswerRows DEF AllSent, Ended
  <2>. QED
    BY <2>1, <2>2, QuietTidy DEF StepIn, Is
<1>8. CASE \E s \in Requests : SendPush(q, s) \/ DeleteEndpoint(q, s) \/ DeleteRejected(q, s)
  <2>1. at[q] = "push" /\ UNCHANGED <<users, rows, landed, stale, raced>> /\ UNCHANGED <<asks, at>>
    BY <1>8 DEF SendPush, DeleteEndpoint, DeleteRejected, FoundGone, Sending, Stays
  <2>2. Is(asks[q], "send", "push")
    BY <1>1, <2>1 DEF Stage, Fits, Ended
  <2>3. StepOf(q)
    BY <1>8, <2>1 DEF SendPush, DeleteEndpoint, DeleteRejected, HasSent, RowInv, Types, StepOf, Others
  <2>4. faults' \in 0 .. MaxFaults
    BY <1>8, MaxFaultsAssumption DEF SendPush, DeleteEndpoint, DeleteRejected, Stays, RowInv, Types
  <2>5. Quiet(q)
    BY <2>1, <2>3, <2>4 DEF Quiet, RowInv, Marks
  <2>6. RowInv'
    BY <2>1, <2>2, <2>5, WaitRows DEF Stage, Fits, Is, Holds, Ended, Unborn
  <2>. QED
    BY <2>1, <2>2, <2>5, <2>6, QuietTidy DEF StepIn, Is
<1>. QED
  BY <1>2, <1>3, <1>4, <1>5, <1>6, <1>7, <1>8 DEF SubscriptionStep

\* The steps of chat.gateway.ts.
LEMMA SocketRows ==
  ASSUME RowInv, SocketInv, NEW q \in Requests, SocketStep(q)
  PROVE  RowInv' /\ StepIn(q, {"chat"})
<1>1. Stage(q)
  BY DEF RowInv, Stages
<1>2. CASE HandleConnection(q)
  <2>1. PICK u \in Users : Receive(q, Ask("connect", "chat", u, None, {}), "verify")
    BY <1>2 DEF HandleConnection
  <2>2. PICK ask : ask = Ask("connect", "chat", u, None, {})
    OBVIOUS
  <2>3. ask \in AskType /\ ask.kind = "connect" /\ ask.service = "chat"
    BY <2>1, <2>2 DEF Ask, AskType, Tables
  <2>4. Receive(q, ask, "verify") /\ copy' = copy /\ "verify" \in Awaits
    BY <1>2, <2>1, <2>2 DEF HandleConnection, Awaits
  <2>5. Quiet(q) /\ at[q] = "new" /\ at'[q] = "verify" /\ asks'[q] = ask
    BY <2>3, <2>4, ReceiveAsks
  <2>6. RowInv'
    BY <2>3, <2>5, ReceiveRows DEF Stage, Fits, Is, Ended, Unborn, Tables
  <2>. QED
    BY <1>1, <2>3, <2>5, <2>6, QuietTidy DEF StepIn, Stage, Fits, Is
<1>3. CASE VerifyToken(q) \/ RegisterClient(q) \/ AuthenticationRejected(q)
  <2>1. at[q] \in {"verify", "register"}
    BY <1>3 DEF VerifyToken, RegisterClient, AuthenticationRejected
  <2>2. Is(asks[q], "connect", "chat")
    BY <1>1, <2>1 DEF Stage, Fits, Ended
  <2>3. CASE TurnAway(q)
    <3>1. StepOf(q) /\ at'[q] \in Ended /\ asks'[q] = Nothing
      BY <2>3, AnswerStep DEF TurnAway, RowInv, Ended
    <3>2. UNCHANGED <<users, rows, landed, stale, raced>> /\ faults' \in 0 .. MaxFaults
      BY <1>3, MaxFaultsAssumption
      DEF VerifyToken, RegisterClient, AuthenticationRejected, Stays, RowInv, Types
    <3>3. Quiet(q)
      BY <2>1, <3>1, <3>2 DEF Quiet, RowInv, Marks
    <3>4. RowInv'
      BY <3>1, <3>3, EndRows
    <3>. QED
      BY <2>2, <3>1, <3>3, <3>4, QuietTidy DEF StepIn, Is
  <2>4. CASE ~TurnAway(q)
    <3>1. /\ Stays /\ UNCHANGED <<asks, copy>>
          /\ Goto(q, "register") \/ Goto(q, "connected")
      BY <1>3, <2>4 DEF VerifyToken, RegisterClient, AuthenticationRejected
    <3>2. StepOf(q) /\ at'[q] \in {"register", "connected"}
      BY <3>1, GotoStep DEF RowInv, Awaits
    <3>3. Quiet(q)
      BY <2>1, <3>1, <3>2, StaysQuiet
    <3>4. RowInv'
      BY <2>1, <2>2, <3>1, <3>2, <3>3, WaitRows DEF Stage, Fits, Is, Holds, Ended, Unborn
    <3>. QED
      BY <2>2, <3>1, <3>3, <3>4, QuietTidy DEF StepIn, Is
  <2>. QED
    BY <2>3, <2>4
<1>4. CASE HandleDisconnect(q)
  <2>1. at[q] \in {"verify", "register", "connected"}
    BY <1>4 DEF HandleDisconnect, SocketInv
  <2>2. Is(asks[q], "connect", "chat")
    BY <1>1, <2>1 DEF Stage, Fits, Ended
  <2>3. CASE at[q] = "connected"
    <3>1. RowInv' /\ Quiet(q) /\ at'[q] \in Ended /\ asks'[q] = Nothing
      BY <1>4, <2>3, AnswerRows DEF HandleDisconnect, Ended
    <3>. QED
      BY <2>2, <3>1, QuietTidy DEF StepIn, Is
  <2>4. CASE at[q] # "connected"
    <3>1. RowInv' /\ UNCHANGED <<asks, at, copy, rows>>
      BY <1>4, <2>4, IdleRows DEF HandleDisconnect, Stays
    <3>2. StepOf(q) /\ Tidy(q)
      BY <3>1 DEF RowInv, Types, StepOf, Others, Tidy
    <3>. QED
      BY <2>2, <3>1, <3>2 DEF StepIn, Is
  <2>. QED
    BY <2>3, <2>4
<1>. QED
  BY <1>2, <1>3, <1>4 DEF SocketStep

\* A user is removed.
LEMMA LeaveRows ==
  ASSUME RowInv, NEW q \in Requests, Leave(q)
  PROVE  RowInv' /\ StepIn(q, {"users"})
<1>1. Stage(q)
  BY DEF RowInv, Stages
<1>2. CASE ReceiveRemoveUser(q)
  <2>1. PICK u \in Users : Receive(q, Ask("remove", "users", u, None, {}), "delete user")
    BY <1>2 DEF ReceiveRemoveUser
  <2>2. PICK ask : ask = Ask("remove", "users", u, None, {})
    OBVIOUS
  <2>3. ask \in AskType /\ ask.kind = "remove" /\ ask.service = "users"
    BY <2>1, <2>2 DEF Ask, AskType, Tables
  <2>4. Receive(q, ask, "delete user") /\ copy' = copy /\ "delete user" \in Awaits
    BY <1>2, <2>1, <2>2 DEF ReceiveRemoveUser, Awaits, Calls
  <2>5. Quiet(q) /\ at[q] = "new" /\ at'[q] = "delete user" /\ asks'[q] = ask
    BY <2>3, <2>4, ReceiveAsks
  <2>6. RowInv'
    BY <2>3, <2>5, ReceiveRows DEF Stage, Fits, Is, Ended, Unborn, Tables
  <2>. QED
    BY <1>1, <2>3, <2>5, <2>6, QuietTidy DEF StepIn, Stage, Fits, Is
<1>3. CASE RemoveUser(q)
  <2>1. Is(asks[q], "remove", "users") /\ at[q] = "delete user"
    BY <1>1, <1>3 DEF RemoveUser, Stage, Fits, Ended
  <2>2. faults' \in 0 .. MaxFaults
    BY <1>3 DEF RemoveUser, RowInv, Types
  <2>3. CASE asks[q].user \in users
    <3>1. /\ Answer(q, "done") /\ users' \subseteq users
          /\ rows' = [i \in Ids |-> IF Owner[i] = asks[q].user /\ Exists(i) THEN Gone ELSE rows[i]]
          /\ landed' = landed \cup {q} /\ raced' = raced
          /\ stale' = stale \cup {p \in Requests : at[p] = "save" /\ Owner[Target(p)] = asks[q].user}
      BY <1>3, <2>3 DEF RemoveUser
    <3>2. StepOf(q) /\ at'[q] \in Ended /\ asks'[q] = Nothing
      BY <3>1, AnswerStep DEF RowInv, Ended
    <3>3. Tidy(q)
      <4>1. \A i \in Ids : Exists(i) => rows[i] # NoRow
        BY RowTypes DEF Exists
      <4>. QED
        BY <3>1, <4>1 DEF Tidy
    <3>4. Types'
      BY <3>1, <3>2, <2>2 DEF RowInv, Types, StepOf
    <3>5. Marks'
      BY <2>1, <3>1, <3>2, <3>3, TidyKeeps DEF RowInv, Types, Marks, StepOf, Others, Ended
    <3>12. Stage(q)'
      BY <3>2 DEF Stage, Fits
    <3>6. Creates(q)' /\ Found(q)' /\ Holds(q)'
      BY <3>2 DEF Creates, Found, Holds, Ended, Unborn, Nothing, Ask, Tables
    <3>7. ASSUME NEW p \in Others(q), at[p] = "save", p \notin stale'
          PROVE  p \notin stale /\ rows'[Target(p)] = rows[Target(p)]
      <4>1. p \notin stale /\ Owner[Target(p)] # asks[q].user
        BY <3>1, <3>7 DEF Others
      <4>2. Stage(p) /\ Found(p)
        BY <3>7 DEF RowInv, Stages, Others
      <4>3. Target(p) \in Ids
        BY <3>7, <4>2 DEF Stage, Fits, Is, Found, Tables, Ended
      <4>. QED
        BY <3>1, <4>1, <4>3
    <3>8. \A i \in Ids : rows[i] = NoRow => rows'[i] = NoRow
      <4>1. \A i \in Ids : rows[i] = NoRow => ~Exists(i)
        BY RowTypes DEF Exists
      <4>. QED
        BY <3>1, <4>1
    <3>9. \A i \in Ids : rows[i] # NoRow => rows'[i] # NoRow
      BY <3>3, TidyKeeps
    <3>10. \A p \in Others(q) : at[p] = "save" =>
             p \in stale' \/ (p \notin stale /\ rows'[Target(p)] = rows[Target(p)])
      BY <3>7
    <3>11. RowInv'
      BY <3>2, <3>4, <3>5, <3>12, <3>6, <3>8, <3>9, <3>10, RowStep
    <3>. QED
      BY <2>1, <3>2, <3>3, <3>11 DEF StepIn, Is
  <2>4. CASE asks[q].user \notin users
    <3>1. RowInv' /\ Quiet(q) /\ at'[q] \in Ended /\ asks'[q] = Nothing
      BY <1>3, <2>2, <2>4, AnswerRows DEF RemoveUser, Ended
    <3>. QED
      BY <2>1, <3>1, QuietTidy DEF StepIn, Is
  <2>. QED
    BY <2>3, <2>4
<1>. QED
  BY <1>2, <1>3 DEF Leave

Services == Tables \cup {"users", "push", "chat"}

\* A call rejects.
LEMMA LostRows ==
  ASSUME RowInv, NEW q \in Requests, CallLost(q)
  PROVE  /\ RowInv' /\ StepIn(q, Services) /\ Quiet(q) /\ at'[q] = "rejected" /\ asks'[q] = Nothing
         /\ asks[q].service \in Services
<1>1. Stage(q) /\ at[q] \in Calls
  BY DEF RowInv, Stages, CallLost
<1>2. asks[q].service \in Services
  BY <1>1 DEF Stage, Fits, Is, Ended, Calls, Services, Tables
<1>3. Answer(q, "rejected") /\ WroteNothing(q) /\ UNCHANGED <<users, rows>>
  BY DEF CallLost, CallRejected
<1>4. faults' \in 0 .. MaxFaults
  BY MaxFaultsAssumption DEF CallLost, CallRejected, RowInv, Types
<1>5. RowInv' /\ Quiet(q) /\ at'[q] = "rejected" /\ asks'[q] = Nothing
  BY <1>3, <1>4, AnswerRows DEF Ended
<1>. QED
  BY <1>2, <1>5, QuietTidy DEF StepIn, Ended

\* Nothing happens to the rows and the requests.
LEMMA SameRows ==
  ASSUME RowInv, UNCHANGED ovars
  PROVE  RowInv'
<1>1. Types' /\ Stages' /\ Marks'
  BY DEF RowInv, ovars, Types, Stages, Stage, Marks
<1>2. \A q \in Requests : Creates(q)' /\ Found(q)' /\ Holds(q)'
  BY DEF RowInv, ovars, Creates, Found, Holds, Target
<1>. QED
  BY <1>1, <1>2 DEF RowInv

LEMMA RestartRows ==
  ASSUME RowInv, Restart
  PROVE  RowInv'
<1>1. \A q \in Requests : asks'[q] = Nothing /\ at'[q] \in Ended \cup {"new"}
  BY DEF Restart, RowInv, Types, Running, Ended
<1>2. Types'
  <2>1. asks' \in [Requests -> AskType]
    BY NothingType DEF Restart
  <2>2. at' \in [Requests -> Awaits]
    BY DEF Restart, RowInv, Types, Awaits, Ended
  <2>. QED
    BY <2>1, <2>2, MaxFaultsAssumption DEF Restart, RowInv, Types
<1>3. Stages'
  BY <1>1 DEF Stages, Stage, Fits
<1>4. Marks'
  <2>1. \A q \in landed : at'[q] \in Ended
    BY DEF RowInv, Types, Marks, Restart, Running, Ended
  <2>. QED
    BY <2>1 DEF RowInv, Marks, Restart
<1>5. ASSUME NEW q \in Requests PROVE Creates(q)' /\ Found(q)' /\ Holds(q)'
  <2>1. asks'[q] = Nothing /\ at'[q] \in Ended \cup {"new"}
    BY <1>1
  <2>. QED
    BY <2>1 DEF Creates, Found, Holds, Ended, Unborn, Nothing, Ask, Tables
<1>. QED
  BY <1>2, <1>3, <1>4, <1>5 DEF RowInv

LEMMA InitRows ==
  ASSUME OInit
  PROVE  RowInv
<1>1. PICK table \in [Stored -> Tables] :
        rows = [i \in Ids |-> IF i \in Stored THEN Row(table[i], None) ELSE NoRow]
  BY DEF OInit
<1>2. Types
  <2>1. \A i \in Stored : Row(table[i], None) \in RowType
    BY RowTypes
  <2>2. rows \in [Ids -> RowType \cup {NoRow, Gone}]
    BY <1>1, <2>1
  <2>. QED
    BY <2>2, NothingType, MaxFaultsAssumption DEF OInit, Types, Awaits
<1>3. Stages /\ Marks
  BY DEF OInit, Stages, Stage, Fits, Marks
<1>4. \A q \in Requests : Creates(q) /\ Found(q) /\ Holds(q)
  BY DEF OInit, Creates, Found, Holds, Unborn, Nothing, Ask, Tables
<1>. QED
  BY <1>2, <1>3, <1>4 DEF RowInv

-----------------------------------------------------------------------------
(* The sockets.                                                             *)

\* A set of numbers that is not empty has its minimum for a member.
LEMMA LeastIsMember ==
  ASSUME NEW S \in SUBSET Nat, S # {}
  PROVE  Min(S) \in S
<1>1. \E x \in S : \A y \in S : ~(<<y, x>> \in OpToRel(<, Nat))
  BY NatLessThanWellFounded, WFMin
<1>2. \A x, y \in Nat : <<y, x>> \in OpToRel(<, Nat) <=> y < x
  BY DEF OpToRel
<1>3. PICK x \in S : \A y \in S : ~(<<y, x>> \in OpToRel(<, Nat))
  BY <1>1
<1>4. \A y \in S : ~(y < x)
  BY <1>2, <1>3, Zenon
<1>5. \E z \in S : \A y \in S : z <= y
  BY <1>4, SMT
<1>. QED
  BY <1>5, Zenon DEF Min

\* A sequence without one of its places.
LEMMA RemovedAt ==
  ASSUME NEW T, NEW s \in Seq(T), NEW k \in DOMAIN s
  PROVE  /\ RemoveAt(s, k) \in Seq(T) /\ Len(RemoveAt(s, k)) = Len(s) - 1
         /\ \A j \in 1 .. Len(s) - 1 : RemoveAt(s, k)[j] = IF j < k THEN s[j] ELSE s[j + 1]
<1>1. /\ SubSeq(s, 1, k - 1) \in Seq(T) /\ Len(SubSeq(s, 1, k - 1)) = k - 1
      /\ \A j \in 1 .. k - 1 : SubSeq(s, 1, k - 1)[j] = s[j]
  <2>1. 1 \in Int /\ k - 1 \in Int /\ k \in 1 .. Len(s) /\ \A j \in 1 .. k - 1 : s[j] \in T
    OBVIOUS
  <2>2. /\ SubSeq(s, 1, k - 1) \in Seq(T)
        /\ Len(SubSeq(s, 1, k - 1)) = IF 1 <= k - 1 THEN (k - 1) - 1 + 1 ELSE 0
        /\ \A j \in 1 .. (k - 1) - 1 + 1 : SubSeq(s, 1, k - 1)[j] = s[1 + j - 1]
    BY <2>1, SubSeqProperties
  <2>. QED
    BY <2>1, <2>2
<1>2. /\ SubSeq(s, k + 1, Len(s)) \in Seq(T) /\ Len(SubSeq(s, k + 1, Len(s))) = Len(s) - k
      /\ \A j \in 1 .. Len(s) - k : SubSeq(s, k + 1, Len(s))[j] = s[k + j]
  <2>1. /\ k + 1 \in Int /\ Len(s) \in Int /\ k \in 1 .. Len(s)
        /\ \A j \in k + 1 .. Len(s) : s[j] \in T
    OBVIOUS
  <2>2. /\ SubSeq(s, k + 1, Len(s)) \in Seq(T)
        /\ Len(SubSeq(s, k + 1, Len(s))) = IF k + 1 <= Len(s) THEN Len(s) - (k + 1) + 1 ELSE 0
        /\ \A j \in 1 .. Len(s) - (k + 1) + 1 : SubSeq(s, k + 1, Len(s))[j] = s[(k + 1) + j - 1]
    BY <2>1, SubSeqProperties
  <2>. QED
    BY <2>1, <2>2
<1>3. PICK a \in Seq(T), b \in Seq(T) : a = SubSeq(s, 1, k - 1) /\ b = SubSeq(s, k + 1, Len(s))
  BY <1>1, <1>2
<1>4. /\ a \o b \in Seq(T) /\ Len(a \o b) = Len(a) + Len(b)
      /\ \A j \in 1 .. Len(a) + Len(b) : (a \o b)[j] = IF j <= Len(a) THEN a[j] ELSE b[j - Len(a)]
  BY ConcatProperties
<1>5. RemoveAt(s, k) = a \o b
  BY <1>3 DEF RemoveAt
<1>6. k \in 1 .. Len(s) /\ Len(s) \in Nat
  OBVIOUS
<1>7. Len(a) = k - 1 /\ Len(b) = Len(s) - k
  BY <1>1, <1>2, <1>3
<1>8. ASSUME NEW j \in 1 .. Len(s) - 1
      PROVE  (a \o b)[j] = IF j < k THEN s[j] ELSE s[j + 1]
  <2>1. j \in 1 .. Len(a) + Len(b)
    BY <1>6, <1>7
  <2>2. (a \o b)[j] = IF j <= Len(a) THEN a[j] ELSE b[j - Len(a)]
    BY <1>4, <2>1
  <2>3. CASE j < k
    <3>1. j \in 1 .. k - 1 /\ j <= Len(a)
      BY <1>6, <1>7, <2>3
    <3>2. a[j] = s[j]
      BY <1>1, <1>3, <3>1
    <3>. QED
      BY <2>2, <2>3, <3>1, <3>2
  <2>4. CASE ~(j < k)
    <3>1. j - (k - 1) \in 1 .. Len(s) - k /\ k + (j - (k - 1)) = j + 1
      BY <1>6, <2>4
    <3>. QED
      <4>1. (a \o b)[j] = b[j - (k - 1)]
        BY <1>6, <1>7, <2>2, <2>4
      <4>2. b[j - (k - 1)] = s[k + (j - (k - 1))]
        BY <1>2, <1>3, <3>1
      <4>. QED
        BY <2>4, <3>1, <4>1, <4>2
  <2>. QED
    BY <2>3, <2>4
<1>9. Len(a) + Len(b) = Len(s) - 1
  BY <1>6, <1>7
<1>. QED
  BY <1>4, <1>5, <1>8, <1>9

\* A registry without one socket.
LEMMA WithoutOne ==
  ASSUME registry \in Seq(Requests), IsInjective(registry), NEW S \in SUBSET Requests,
         \A s, r \in S : s = r,
         NEW without, without = Without(S)
  PROVE  /\ without \in Seq(Requests) /\ IsInjective(without)
         /\ {without[j] : j \in DOMAIN without} = Registered \ S
<1>1. CASE ~\E k \in DOMAIN registry : registry[k] \in S
  <2>1. without = registry
    BY <1>1 DEF Without
  <2>. QED
    BY <1>1, <2>1 DEF Registered
<1>2. CASE \E k \in DOMAIN registry : registry[k] \in S
  <2>1. PICK k \in DOMAIN registry : k = (CHOOSE n \in DOMAIN registry : registry[n] \in S) /\ registry[k] \in S
    BY <1>2
  <2>2. without = RemoveAt(registry, k)
    BY <1>2, <2>1 DEF Without
  <2>3. /\ without \in Seq(Requests) /\ Len(without) = Len(registry) - 1
        /\ \A j \in 1 .. Len(registry) - 1 :
             without[j] = IF j < k THEN registry[j] ELSE registry[j + 1]
    BY <2>2, RemovedAt
  <2>4. DOMAIN without = 1 .. Len(registry) - 1 /\ DOMAIN registry = 1 .. Len(registry)
        /\ k \in 1 .. Len(registry) /\ Len(registry) \in Nat
    BY <2>3
  <2>5. IsInjective(without)
    <3>1. ASSUME NEW x \in 1 .. Len(registry) - 1, NEW y \in 1 .. Len(registry) - 1, without[x] = without[y]
          PROVE  x = y
      <4>1. PICK m \in 1 .. Len(registry), n \in 1 .. Len(registry) :
              /\ m = (IF x < k THEN x ELSE x + 1) /\ without[x] = registry[m]
              /\ n = (IF y < k THEN y ELSE y + 1) /\ without[y] = registry[n]
        <5>1. \A z \in 1 .. Len(registry) - 1 : (IF z < k THEN z ELSE z + 1) \in 1 .. Len(registry)
          BY <2>4
        <5>2. \A z \in 1 .. Len(registry) - 1 : without[z] = registry[IF z < k THEN z ELSE z + 1]
          BY <2>3
        <5>. QED
          BY <5>1, <5>2
      <4>2. m = n
        BY <2>4, <3>1, <4>1 DEF IsInjective
      <4>. QED
        BY <2>4, <4>1, <4>2
    <3>. QED
      BY <2>4, <3>1 DEF IsInjective
  <2>6. \A n \in 1 .. Len(registry) : registry[n] \in S <=> n = k
    BY <2>1, <2>4 DEF IsInjective
  <2>7. ASSUME NEW x \in {without[j] : j \in DOMAIN without} PROVE x \in Registered \ S
    <3>1. PICK j \in 1 .. Len(registry) - 1 : x = without[j]
      BY <2>4
    <3>2. PICK n \in 1 .. Len(registry) : x = registry[n] /\ n # k
      <4>1. CASE j < k
        <5>1. x = registry[j] /\ j \in 1 .. Len(registry) /\ j # k
          BY <2>3, <2>4, <3>1, <4>1
        <5>. QED
          BY <5>1
      <4>2. CASE ~(j < k)
        <5>1. x = registry[j + 1] /\ j + 1 \in 1 .. Len(registry) /\ j + 1 # k
          BY <2>3, <2>4, <3>1, <4>2
        <5>. QED
          BY <5>1
      <4>. QED
        BY <4>1, <4>2
    <3>. QED
      BY <2>4, <2>6, <3>2 DEF Registered
  <2>8. ASSUME NEW x \in Registered \ S PROVE x \in {without[j] : j \in DOMAIN without}
    <3>1. PICK n \in 1 .. Len(registry) : x = registry[n]
      BY <2>4 DEF Registered
    <3>2. n # k
      BY <2>1, <3>1
    <3>3. CASE n < k
      <4>1. n \in 1 .. Len(registry) - 1 /\ without[n] = registry[n]
        BY <2>3, <2>4, <3>3
      <4>. QED
        BY <2>4, <3>1, <4>1
    <3>4. CASE n > k
      <4>1. n - 1 \in 1 .. Len(registry) - 1 /\ without[n - 1] = registry[n]
        BY <2>3, <2>4, <3>4
      <4>. QED
        BY <2>4, <3>1, <4>1
    <3>. QED
      BY <2>4, <3>2, <3>3, <3>4
  <2>. QED
    BY <2>3, <2>5, <2>7, <2>8
<1>. QED
  BY <1>1, <1>2

\* Where the requests of a service can be.
LEMMA Whereabouts ==
  ASSUME RowInv, NEW q \in Requests
  PROVE  /\ at[q] \in {"verify", "register", "connected"} => asks[q].service = "chat"
         /\ at[q] \in {"rows", "count", "watch"} => Follows(q)
         /\ at[q] = "emit" => asks[q].service = "notifications"
         /\ at[q] \in {"endpoint", "subscribe", "reassign"} <=> Asks(q, "create", "push")
         /\ at[q] \in {"subscriptions", "push"} => asks[q].service = "push"
         /\ at[q] \in {"put", "transcribe"} => asks[q].service \in {"files", "audios"}
         /\ at[q] \in {"history", "insert history", "remove history"} => asks[q].service = "flows"
         /\ at[q] \in Ended \cup {"new"} <=> asks[q] = Nothing
         /\ at[q] = "remove history" => Asks(q, "remove history", "flows")
<1>1. Stage(q)
  BY DEF RowInv, Stages
<1>2. Nothing.kind = "none"
  BY DEF Nothing, Ask
<1>3. at[q] \in Ended \cup {"new"} <=> asks[q] = Nothing
  BY <1>1, <1>2 DEF Stage, Fits, Is, Ended
<1>4. at[q] \in {"endpoint", "subscribe", "reassign"} <=> Asks(q, "create", "push")
  BY <1>1, <1>2 DEF Stage, Fits, Is, Asks, Ended
<1>5. /\ at[q] \in {"verify", "register", "connected"} => asks[q].service = "chat"
      /\ at[q] \in {"rows", "count", "watch"} => Follows(q)
      /\ at[q] = "emit" => asks[q].service = "notifications"
      /\ at[q] \in {"subscriptions", "push"} => asks[q].service = "push"
  BY <1>1 DEF Stage, Fits, Is, Asks, Follows, Ended
<1>6. /\ at[q] \in {"put", "transcribe"} => asks[q].service \in {"files", "audios"}
      /\ at[q] \in {"history", "insert history", "remove history"} => asks[q].service = "flows"
      /\ at[q] = "remove history" => Asks(q, "remove history", "flows")
  BY <1>1 DEF Stage, Fits, Is, Asks, Ended
<1>. QED
  BY <1>3, <1>4, <1>5, <1>6

LEMMA WhereaboutsNext ==
  ASSUME RowInv', NEW q \in Requests
  PROVE  (/\ at[q] \in {"verify", "register", "connected"} => asks[q].service = "chat"
          /\ at[q] \in {"endpoint", "subscribe", "reassign"} <=> Asks(q, "create", "push")
          /\ at[q] \in {"subscriptions", "push"} => asks[q].service = "push"
          /\ at[q] \in {"put", "transcribe"} => asks[q].service \in {"files", "audios"}
          /\ at[q] \in {"rows", "count", "watch"} => Follows(q)
          /\ at[q] = "emit" => asks[q].service = "notifications"
          /\ at[q] \in {"history", "insert history", "remove history"} => asks[q].service = "flows"
          /\ at[q] = "remove history" => Asks(q, "remove history", "flows"))'
<1>1. (RowInv =>
        (/\ at[q] \in {"verify", "register", "connected"} => asks[q].service = "chat"
         /\ at[q] \in {"endpoint", "subscribe", "reassign"} <=> Asks(q, "create", "push")
         /\ at[q] \in {"subscriptions", "push"} => asks[q].service = "push"
         /\ at[q] \in {"put", "transcribe"} => asks[q].service \in {"files", "audios"}
         /\ at[q] \in {"rows", "count", "watch"} => Follows(q)
         /\ at[q] = "emit" => asks[q].service = "notifications"
         /\ at[q] \in {"history", "insert history", "remove history"} => asks[q].service = "flows"
         /\ at[q] = "remove history" => Asks(q, "remove history", "flows")))'
  BY Whereabouts, PTL
<1>. QED
  BY <1>1, PTL

LEMMA NoneAsked == Nothing.service = "none" /\ Nothing.kind = "none"
BY DEF Nothing, Ask

\* Steps in which no socket is concerned.
LEMMA SocketsStay ==
  ASSUME RowInv, SocketInv, RowInv', NEW q \in Requests, StepOf(q), UNCHANGED svars,
         at[q] \notin {"verify", "register", "connected"},
         at'[q] \notin {"verify", "register", "connected"}
  PROVE  SocketInv'
<1>1. \A s \in Registered \cup open : s \in Others(q)
  BY DEF SocketInv, Others, Registered
<1>2. \A s \in Others(q) : asks'[s] = asks[s] /\ at'[s] = at[s]
  BY DEF StepOf
<1>3. Registered' = Registered
  BY DEF svars, Registered
<1>4. RegistryIsLive' /\ OneConnection'
  BY <1>1, <1>2, <1>3 DEF SocketInv, RegistryIsLive, OneConnection, svars
<1>5. \A p \in Requests : at'[p] \in {"verify", "register"} => p \in open' \cup ghosts'
  BY <1>2 DEF SocketInv, Others, svars
<1>. QED
  BY <1>1, <1>2, <1>3, <1>4, <1>5 DEF SocketInv, svars

LEMMA OtherSockets ==
  ASSUME RowInv, SocketInv, RowInv', NEW q \in Requests, NEW S, StepIn(q, S), UNCHANGED svars,
         "chat" \notin S
  PROVE  SocketInv'
<1>1. at[q] \notin {"verify", "register", "connected"}
  BY Whereabouts, NoneAsked DEF StepIn
<1>2. at'[q] \notin {"verify", "register", "connected"}
  <2>1. (at[q] \in {"verify", "register", "connected"} => asks[q].service = "chat")'
    BY Whereabouts, PTL
  <2>. QED
    BY <2>1, NoneAsked DEF StepIn
<1>. QED
  BY <1>1, <1>2, SocketsStay DEF StepIn

\* The steps of the gateway, after which the rest of SocketInv is as before.
LEMMA RegistryStep ==
  ASSUME RowInv, SocketInv, NEW q \in Requests, SocketStep(q), StepOf(q), RowInv'
  PROVE  SocketInv'
<1>1. /\ registry \in Seq(Requests) /\ IsInjective(registry)
      /\ open \subseteq Requests /\ ghosts \subseteq Requests
      /\ \A s \in Registered : s \in Requests /\ at[s] = "connected"
      /\ \A s \in open : at[s] \in {"verify", "register", "connected"}
      /\ \A p \in Requests : at[p] \in {"verify", "register"} => p \in open \cup ghosts
      /\ RegistryIsLive /\ OneConnection
  BY DEF SocketInv, Registered
<1>2. \A s \in Others(q) : asks'[s] = asks[s] /\ at'[s] = at[s]
  BY DEF StepOf
<1>3. ASSUME NEW S \in SUBSET Requests, \A s, r \in S : s = r
      PROVE  /\ Without(S) \in Seq(Requests) /\ IsInjective(Without(S))
             /\ {Without(S)[j] : j \in DOMAIN Without(S)} = Registered \ S
  <2>1. PICK without : without = Without(S)
    OBVIOUS
  <2>. QED
    BY <1>1, <1>3, <2>1, WithoutOne
<1>4. /\ Without({q}) \in Seq(Requests) /\ IsInjective(Without({q}))
      /\ {Without({q})[j] : j \in DOMAIN Without({q})} = Registered \ {q}
  BY <1>3
\* A socket that was not registered goes away.
<1>5. ASSUME q \notin Registered, registry' = Without({q}), open' = open \ {q},
             ghosts \subseteq ghosts', ghosts' \subseteq Requests,
             at'[q] \notin {"verify", "register"} \/ q \in ghosts'
      PROVE  SocketInv'
  <2>1. Registered' = Registered /\ registry' \in Seq(Requests) /\ IsInjective(registry')
    BY <1>4, <1>5 DEF Registered
  <2>2. \A s \in Registered : at'[s] = "connected" /\ asks'[s] = asks[s]
    BY <1>1, <1>2, <1>5 DEF Others
  <2>3. \A s \in open' : at'[s] \in {"verify", "register", "connected"}
    BY <1>1, <1>2, <1>5 DEF Others
  <2>4. \A p \in Requests : at'[p] \in {"verify", "register"} => p \in open' \cup ghosts'
    BY <1>1, <1>2, <1>5 DEF Others
  <2>5. RegistryIsLive'
    BY <1>1, <1>5, <2>1 DEF RegistryIsLive
  <2>6. OneConnection'
    BY <1>1, <1>5, <2>1, <2>2 DEF OneConnection
  <2>. QED
    BY <1>1, <1>5, <2>1, <2>2, <2>3, <2>4, <2>5, <2>6 DEF SocketInv
<1>6. CASE HandleConnection(q)
  <2>1. at[q] = "new" /\ at'[q] = "verify" /\ open' = open \cup {q} /\ UNCHANGED <<registry, ghosts>>
    BY <1>6 DEF HandleConnection, Receive, Goto, RowInv, Types
  <2>2. q \notin Registered /\ Registered' = Registered
    BY <1>1, <2>1 DEF Registered
  <2>3. \A s \in Registered : at'[s] = "connected" /\ asks'[s] = asks[s]
    BY <1>1, <1>2, <2>2 DEF Others
  <2>4. /\ \A s \in open' : at'[s] \in {"verify", "register", "connected"}
        /\ \A p \in Requests : at'[p] \in {"verify", "register"} => p \in open' \cup ghosts'
    BY <1>1, <1>2, <2>1 DEF Others
  <2>5. RegistryIsLive'
    BY <1>1, <2>1, <2>2 DEF RegistryIsLive
  <2>6. OneConnection'
    BY <1>1, <2>1, <2>2, <2>3 DEF OneConnection
  <2>. QED
    BY <1>1, <2>1, <2>2, <2>3, <2>4, <2>5, <2>6 DEF SocketInv
<1>7. CASE at[q] \in {"verify", "register"} /\ TurnAway(q)
  <2>1. q \notin Registered /\ at'[q] = "rejected"
    BY <1>1, <1>7 DEF TurnAway, Answer, Goto, RowInv, Types
  <2>. QED
    BY <1>1, <1>5, <1>7, <2>1 DEF TurnAway
<1>8. CASE VerifyToken(q) /\ ~TurnAway(q)
  <2>1. at[q] = "verify" /\ at'[q] = "register" /\ UNCHANGED <<open, registry, ghosts, asks>>
    BY <1>8 DEF VerifyToken, Goto, RowInv, Types
  <2>2. q \notin Registered /\ Registered' = Registered
    BY <1>1, <2>1 DEF Registered
  <2>3. \A s \in Registered : at'[s] = "connected"
    BY <1>1, <1>2, <2>2 DEF Others
  <2>4. /\ \A s \in open' : at'[s] \in {"verify", "register", "connected"}
        /\ \A p \in Requests : at'[p] \in {"verify", "register"} => p \in open' \cup ghosts'
    BY <1>1, <1>2, <2>1 DEF Others
  <2>5. RegistryIsLive' /\ OneConnection'
    BY <1>1, <2>1, <2>2 DEF RegistryIsLive, OneConnection
  <2>. QED
    BY <1>1, <2>1, <2>2, <2>3, <2>4, <2>5 DEF SocketInv
<1>9. CASE RegisterClient(q) /\ ~TurnAway(q)
  <2>1. PICK u : u = asks[q].user
    OBVIOUS
  <2>2. PICK old : old = CheckConnection(u)
    OBVIOUS
  <2>3. /\ at[q] = "register" /\ at'[q] = "connected" /\ UNCHANGED <<asks, ghosts>>
        /\ open' = open \ old /\ registry' = Append(Without(old), q)
    BY <1>9, <2>1, <2>2 DEF RegisterClient, Goto, RowInv, Types
  <2>4. q \notin Registered /\ q \in open \cup ghosts
    BY <1>1, <2>3
  <2>5. Entries(u) # {} => registry[Min(Entries(u))] \in Registered /\ asks[registry[Min(Entries(u))]].user = u
    <3>1. Entries(u) \in SUBSET Nat
      BY <1>1 DEF Entries
    <3>2. Entries(u) # {} => Min(Entries(u)) \in Entries(u)
      BY <3>1, LeastIsMember
    <3>. QED
      BY <3>2 DEF Entries, Registered
  <2>6. /\ old \subseteq Registered \cap open /\ \A s, r \in old : s = r
        /\ \A s \in old : asks[s].user = u
    BY <2>2, <2>5 DEF CheckConnection
  <2>7. old \in SUBSET Requests /\ q \notin old
    BY <1>1, <2>4, <2>6
  <2>8. PICK without : without = Without(old)
    OBVIOUS
  <2>9. /\ without \in Seq(Requests) /\ IsInjective(without)
        /\ {without[j] : j \in DOMAIN without} = Registered \ old
    BY <1>3, <2>6, <2>7, <2>8
  <2>10. PICK n \in Nat : n = Len(without) /\ DOMAIN without = 1 .. n
    BY <2>9
  <2>11. /\ registry' \in Seq(Requests) /\ DOMAIN registry' = 1 .. n + 1
         /\ \A j \in 1 .. n : registry'[j] = without[j]
         /\ registry'[n + 1] = q
    BY <2>3, <2>8, <2>9, <2>10, AppendProperties
  <2>12. Registered' = (Registered \ old) \cup {q}
    <3>1. \A j \in 1 .. n + 1 : j \in 1 .. n \/ j = n + 1
      OBVIOUS
    <3>2. 1 .. n \subseteq 1 .. n + 1 /\ n + 1 \in 1 .. n + 1
      OBVIOUS
    <3>. QED
      BY <2>9, <2>10, <2>11, <3>1, <3>2, Zenon DEF Registered
  <2>13. IsInjective(registry')
    <3>1. \A j \in 1 .. n : without[j] # q
      BY <2>4, <2>9, <2>10
    <3>. QED
      BY <2>9, <2>10, <2>11, <3>1 DEF IsInjective
  <2>14. /\ \A s \in Registered' : at'[s] = "connected"
         /\ \A s \in open' : at'[s] \in {"verify", "register", "connected"}
         /\ \A p \in Requests : at'[p] \in {"verify", "register"} => p \in open' \cup ghosts'
    <3>1. \A s \in Registered' : at'[s] = "connected"
      BY <1>1, <1>2, <2>3, <2>12 DEF Others
    <3>2. \A s \in open' : at'[s] \in {"verify", "register", "connected"}
      BY <1>1, <1>2, <2>3 DEF Others
    <3>3. \A p \in old : at[p] = "connected"
      BY <1>1, <2>6
    <3>4. \A p \in Requests : at'[p] \in {"verify", "register"} => p \in open' \cup ghosts'
      BY <1>1, <1>2, <2>3, <3>3 DEF Others
    <3>. QED
      BY <3>1, <3>2, <3>4
  <2>15. RegistryIsLive'
    BY <1>1, <2>3, <2>4, <2>6, <2>7, <2>12 DEF RegistryIsLive
  <2>16. ASSUME NEW s \in Registered' \cap open', NEW r \in Registered' \cap open',
                asks[s].user = asks[r].user, s # r
         PROVE  \E g \in Registered' \ open' : asks[g].user = asks[s].user
    <3>1. ASSUME NEW g \in Registered \ open, asks[g].user = asks[s].user
          PROVE  g \in Registered' \ open' /\ asks[g].user = asks[s].user
      BY <2>3, <2>6, <2>12, <3>1
    <3>2. CASE s # q /\ r # q
      BY <1>1, <2>3, <2>12, <2>16, <3>1, <3>2 DEF OneConnection
    <3>3. CASE s = q \/ r = q
      <4>1. PICK x \in Registered \cap open : x \notin old /\ asks[x].user = u
        BY <2>1, <2>3, <2>12, <2>16, <3>3
      <4>2. Entries(u) # {}
        BY <4>1 DEF Entries, Registered
      <4>3. PICK m : m = registry[Min(Entries(u))] /\ m \in Registered /\ asks[m].user = u
        BY <2>5, <4>2
      <4>4. asks[s].user = u
        BY <2>1, <2>16, <3>3
      <4>5. CASE m \in open
        <5>1. old = {m}
          BY <2>2, <4>2, <4>3, <4>5 DEF CheckConnection
        <5>. QED
          BY <1>1, <3>1, <4>1, <4>3, <4>4, <4>5, <5>1 DEF OneConnection
      <4>6. CASE m \notin open
        BY <3>1, <4>3, <4>4, <4>6
      <4>. QED
        BY <4>5, <4>6
    <3>. QED
      BY <3>2, <3>3
  <2>17. OneConnection'
    BY <2>3, <2>16 DEF OneConnection
  <2>. QED
    BY <1>1, <2>3, <2>11, <2>13, <2>14, <2>15, <2>17 DEF SocketInv
<1>10. CASE HandleDisconnect(q)
  <2>1. CASE at[q] = "connected"
    <3>1. /\ open' = open \ {q} /\ registry' = Without({q}) /\ ghosts' = ghosts /\ q \in open
          /\ at'[q] = "done"
      BY <1>10, <2>1 DEF HandleDisconnect, Answer, Goto, RowInv, Types
    <3>2. Registered' = Registered \ {q} /\ registry' \in Seq(Requests) /\ IsInjective(registry')
      BY <1>4, <3>1 DEF Registered
    <3>3. \A s \in Registered' : at'[s] = "connected" /\ asks'[s] = asks[s]
      BY <1>1, <1>2, <3>2 DEF Others
    <3>4. /\ \A s \in open' : at'[s] \in {"verify", "register", "connected"}
          /\ \A p \in Requests : at'[p] \in {"verify", "register"} => p \in open' \cup ghosts'
      BY <1>1, <1>2, <3>1 DEF Others
    <3>5. RegistryIsLive'
      BY <1>1, <3>1, <3>2 DEF RegistryIsLive
    <3>6. OneConnection'
      <4>1. ASSUME NEW s \in Registered \cap open, NEW r \in Registered \cap open,
                   s # q, r # q, asks'[s].user = asks'[r].user, s # r
            PROVE  \E g \in Registered' \ open' : asks'[g].user = asks'[s].user
        <5>1. asks'[s] = asks[s] /\ asks'[r] = asks[r]
          BY <3>2, <3>3, <4>1
        <5>2. PICK g \in Registered \ open : asks[g].user = asks[s].user
          BY <1>1, <4>1, <5>1 DEF OneConnection
        <5>3. g \in Registered' \ open' /\ asks'[g] = asks[g]
          BY <3>1, <3>2, <3>3, <5>2
        <5>. QED
          BY <5>1, <5>2, <5>3
      <4>. QED
        BY <3>1, <3>2, <4>1 DEF OneConnection
    <3>. QED
      BY <1>1, <3>1, <3>2, <3>3, <3>4, <3>5, <3>6 DEF SocketInv
  <2>2. CASE at[q] # "connected"
    <3>1. /\ open' = open \ {q} /\ registry' = Without({q}) /\ ghosts' = ghosts \cup {q}
          /\ q \notin Registered
      BY <1>1, <1>10, <2>2 DEF HandleDisconnect
    <3>. QED
      BY <1>1, <1>5, <3>1
  <2>. QED
    BY <2>1, <2>2
<1>11. CASE AuthenticationRejected(q)
  BY <1>7, <1>11 DEF AuthenticationRejected
<1>12. CASE (VerifyToken(q) \/ RegisterClient(q)) /\ TurnAway(q)
  BY <1>7, <1>12 DEF VerifyToken, RegisterClient
<1>. QED
  BY <1>6, <1>8, <1>9, <1>10, <1>11, <1>12 DEF SocketStep

LEMMA RestartSockets ==
  ASSUME RowInv, Restart
  PROVE  SocketInv'
<1>1. registry' = <<>> /\ open' = {} /\ ghosts' = {} /\ Registered' = {}
  BY DEF Restart, Registered
<1>2. \A q \in Requests : at'[q] \notin {"verify", "register"}
  BY DEF Restart, RowInv, Types, Running, Ended
<1>3. registry' \in Seq(Requests) /\ IsInjective(registry')
  BY <1>1 DEF IsInjective
<1>. QED
  BY <1>1, <1>2, <1>3 DEF SocketInv, RegistryIsLive, OneConnection

-----------------------------------------------------------------------------
(* The subscriptions.                                                       *)

LEMMA SubscriptionTypes ==
  /\ \A e \in Endpoints, u \in Users : Subscription(e, u) \in SubscriptionType
  /\ NoRow \notin SubscriptionType /\ Gone \notin SubscriptionType /\ NoRow # Gone
  /\ NoRow.state # "exists" /\ Gone.state # "exists"
  /\ \A s \in SubscriptionType : s.state = "exists"
BY DEF Subscription, SubscriptionType, NoRow, Gone

\* The subscriber q is in the process with its row, if it has one.
LEMMA NotEnded ==
  ASSUME RowInv, NEW q \in Requests, NEW S, S \subseteq Services, StepIn(q, S)
  PROVE  at[q] \notin Ended
<1>1. asks[q] = Nothing => asks[q].service = "none"
  BY NoneAsked
<1>2. at[q] \in Ended => asks[q] = Nothing
  BY Whereabouts
<1>. QED
  BY <1>1, <1>2 DEF StepIn, Ended, Services, Tables

\* Steps that subscribe nobody, though rows may go with their user.
LEMMA SubscriptionsStay ==
  ASSUME RowInv, PushInv, RowInv', NEW q \in Requests, StepOf(q), at[q] \notin Ended,
         asks'[q].service # "push",
         subscriptions' \in [Requests -> SubscriptionType \cup {NoRow, Gone}],
         \A r \in Requests :
           \/ subscriptions'[r] = subscriptions[r]
           \/ subscriptions[r].state = "exists" /\ subscriptions'[r] = Gone,
         UNCHANGED <<lapsed, phistory>>
  PROVE  PushInv'
<1>1. UNCHANGED <<lapsed, holder, overlapped>>
  BY DEF phistory
<1>2. \A p \in Requests : at'[p] \in {"endpoint", "subscribe", "reassign", "push"} =>
        p \in Others(q) /\ asks'[p] = asks[p] /\ at'[p] = at[p] /\ copy'[p] = copy[p]
  <2>1. (at[q] \in {"endpoint", "subscribe", "reassign"} <=> Asks(q, "create", "push"))'
    BY Whereabouts, PTL
  <2>2. (at[q] \in {"subscriptions", "push"} => asks[q].service = "push")'
    BY Whereabouts, PTL
  <2>3. at'[q] \notin {"endpoint", "subscribe", "reassign", "push"}
    BY <2>1, <2>2 DEF Asks
  <2>4. \A p \in Requests : at[p] \in {"endpoint", "subscribe", "reassign", "push"} => ~Follows(p)
    BY Whereabouts DEF Asks, Follows
  <2>. QED
    BY <2>3, <2>4 DEF StepOf, Others
<1>3. \A p \in Requests : Asks(p, "create", "push")' =>
        p \in Others(q) /\ asks'[p] = asks[p] /\ at'[p] = at[p] /\ Asks(p, "create", "push")
  BY DEF Asks, StepOf, Others
<1>4. \A e : Subscribed(e)' \subseteq Subscribed(e) /\ \A s \in Subscribed(e)' : subscriptions'[s] = subscriptions[s]
  BY SubscriptionTypes DEF Subscribed
<1>5. \A e : Subscribing(e)' \subseteq Subscribing(e)
  BY <1>3 DEF Subscribing, Subscribes, Target
<1>6. PushTypes'
  BY <1>1 DEF PushInv, PushTypes
<1>7. OneEndpoint' /\ Alone'
  BY <1>1, <1>2, <1>3 DEF PushInv, OneEndpoint, Alone, Target
<1>8. ASSUME NEW p \in Requests PROVE Subscriber(p)'
  <2>1. Subscriber(p)
    BY DEF PushInv
  <2>2. Asks(p, "create", "push")' => Target(p)' \in Endpoints /\ asks'[p].user \in Users
    BY <1>3, <2>1 DEF Subscriber, Target
  <2>3. subscriptions'[p] # NoRow => at'[p] \in Ended
    <3>1. subscriptions'[p] # NoRow => subscriptions[p] # NoRow
      BY SubscriptionTypes DEF PushInv, PushTypes
    <3>. QED
      BY <2>1, <3>1 DEF Subscriber, StepOf, Others
  <2>4. (at[p] = "subscribe" /\ Target(p) \notin overlapped => Subscribed(Target(p)) = {})'
    BY <1>1, <1>2, <1>4, <2>1 DEF Subscriber, Target
  <2>5. (at[p] = "reassign" =>
           /\ copy[p].row \in Requests
           /\ subscriptions[copy[p].row] # NoRow
           /\ subscriptions[copy[p].row] # Gone => subscriptions[copy[p].row].endpoint = Target(p)
           /\ Target(p) \notin overlapped => Subscribed(Target(p)) \subseteq {copy[p].row})'
    BY <1>1, <1>2, <1>4, <2>1, SubscriptionTypes DEF Subscriber, Target
  <2>. QED
    BY <2>2, <2>3, <2>4, <2>5 DEF Subscriber
<1>9. \A p \in Requests : Sender(p)'
  BY <1>1, <1>2 DEF PushInv, Sender
<1>10. EndpointHasHolder'
  BY <1>1, <1>4 DEF PushInv, EndpointHasHolder
<1>. QED
  BY <1>6, <1>7, <1>8, <1>9, <1>10 DEF PushInv

LEMMA OtherSubscriptions ==
  ASSUME RowInv, PushInv, RowInv', NEW q \in Requests, NEW S, S \subseteq Services,
         StepIn(q, S), "push" \notin S, UNCHANGED pvars
  PROVE  PushInv'
<1>1. at[q] \notin Ended
  BY NotEnded
<1>2. asks'[q].service # "push"
  BY NoneAsked DEF StepIn
<1>. QED
  BY <1>1, <1>2, SubscriptionsStay DEF StepIn, pvars, phistory, PushInv, PushTypes

LEMMA LeaveSubscriptions ==
  ASSUME RowInv, PushInv, RowInv', NEW q \in Requests, Leave(q)
  PROVE  PushInv'
<1>1. StepIn(q, {"users"})
  BY LeaveRows
<1>2. at[q] \notin Ended
  BY <1>1, NotEnded DEF Services
<1>3. asks'[q].service # "push"
  BY <1>1, NoneAsked DEF StepIn
<1>4. /\ subscriptions' \in [Requests -> SubscriptionType \cup {NoRow, Gone}]
      /\ \A r \in Requests :
           \/ subscriptions'[r] = subscriptions[r]
           \/ subscriptions[r].state = "exists" /\ subscriptions'[r] = Gone
      /\ UNCHANGED <<lapsed, phistory>>
  BY DEF Leave, DropSubscriptionsOf, PushInv, PushTypes
<1>. QED
  BY <1>1, <1>2, <1>3, <1>4, SubscriptionsStay DEF StepIn

LEMMA LostSubscriptions ==
  ASSUME RowInv, PushInv, NEW q \in Requests, CallLost(q), UNCHANGED pvars
  PROVE  PushInv'
<1>1. RowInv' /\ StepIn(q, Services) /\ asks'[q] = Nothing
  BY LostRows
<1>2. at[q] \notin Ended
  BY <1>1, NotEnded
<1>. QED
  BY <1>1, <1>2, NoneAsked, SubscriptionsStay DEF StepIn, pvars, phistory, PushInv, PushTypes

LEMMA LapseSubscriptions ==
  ASSUME PushInv, NEW e \in Endpoints, Lapse(e)
  PROVE  PushInv'
<1>1. /\ UNCHANGED <<asks, at, copy, subscriptions, holder, overlapped>>
      /\ lapsed' = lapsed \cup {e}
  BY DEF Lapse, ovars, phistory
<1>2. PushTypes' /\ OneEndpoint' /\ Alone'
  BY <1>1 DEF PushInv, PushTypes, OneEndpoint, Alone, Target, Asks
<1>3. \A x : Subscribed(x)' = Subscribed(x) /\ Subscribing(x)' = Subscribing(x)
  BY <1>1 DEF Subscribed, Subscribing, Subscribes, Asks, Target
<1>4. \A q \in Requests : Subscriber(q)' /\ Sender(q)'
  BY <1>1, <1>3 DEF PushInv, Subscriber, Sender, Asks, Target
<1>5. EndpointHasHolder'
  BY <1>1, <1>3 DEF PushInv, EndpointHasHolder
<1>. QED
  BY <1>1, <1>2, <1>3, <1>4, <1>5 DEF PushInv

LEMMA RestartSubscriptions ==
  ASSUME RowInv, PushInv, Restart
  PROVE  PushInv'
<1>1. /\ UNCHANGED <<subscriptions, lapsed, holder, overlapped>>
      /\ \A q \in Requests : asks'[q] = Nothing /\ at'[q] \in Ended \cup {"new"}
      /\ \A q \in Requests : at[q] \in Ended => at'[q] \in Ended
  BY DEF Restart, RowInv, Types, Running, Ended, pvars
<1>2. \A q \in Requests : ~Asks(q, "create", "push")'
  BY <1>1, NoneAsked DEF Asks
<1>3. \A x : Subscribed(x)' = Subscribed(x) /\ Subscribing(x)' = {}
  BY <1>1, <1>2 DEF Subscribed, Subscribing, Subscribes
<1>4. PushTypes' /\ OneEndpoint' /\ Alone'
  BY <1>1, <1>2 DEF PushInv, PushTypes, OneEndpoint, Alone, Ended
<1>5. \A q \in Requests : Subscriber(q)' /\ Sender(q)'
  BY <1>1, <1>2 DEF PushInv, Subscriber, Sender, Ended
<1>6. EndpointHasHolder'
  BY <1>1, <1>3 DEF PushInv, EndpointHasHolder
<1>. QED
  BY <1>1, <1>3, <1>4, <1>5, <1>6 DEF PushInv

\* A step in which only the sends of q change hands.
LEMMA SendsStep ==
  ASSUME RowInv, PushInv, RowInv', NEW q \in Requests, StepOf(q), at[q] \notin Ended,
         ~Asks(q, "create", "push"), ~Asks(q, "create", "push")', Sender(q)',
         UNCHANGED <<subscriptions, lapsed, holder, overlapped>>
  PROVE  PushInv'
<1>1. \A p \in Requests : Asks(p, "create", "push")' =>
        /\ p \in Others(q) /\ asks'[p] = asks[p] /\ at'[p] = at[p] /\ copy'[p] = copy[p]
        /\ Asks(p, "create", "push")
  BY DEF Asks, StepOf, Others, Follows
<1>2. \A p \in Requests : at'[p] \in {"endpoint", "subscribe", "reassign"} => Asks(p, "create", "push")'
  BY WhereaboutsNext
<1>3. \A e : Subscribed(e)' = Subscribed(e) /\ Subscribing(e)' \subseteq Subscribing(e)
  BY <1>1 DEF Subscribed, Subscribing, Subscribes, Target
<1>4. PushTypes' /\ OneEndpoint' /\ Alone'
  BY <1>1, <1>2 DEF PushInv, PushTypes, OneEndpoint, Alone, Target
<1>5. ASSUME NEW p \in Requests PROVE Subscriber(p)'
  <2>1. Subscriber(p) /\ (subscriptions[p] # NoRow => at'[p] \in Ended)
    BY DEF PushInv, Subscriber, StepOf, Others
  <2>. QED
    BY <1>1, <1>2, <1>3, <2>1 DEF Subscriber, Target
<1>6. ASSUME NEW p \in Others(q) PROVE Sender(p)'
  <2>1. Sender(p) /\ (at[p] = "push" => ~Follows(p))
    BY <1>6, Whereabouts DEF PushInv, Others, Follows, Asks
  <2>. QED
    BY <1>6, <2>1 DEF Sender, StepOf
<1>7. EndpointHasHolder'
  BY <1>3 DEF PushInv, EndpointHasHolder
<1>. QED
  BY <1>4, <1>5, <1>6, <1>7 DEF PushInv, Others

\* The steps of push-notifications.service.ts.
LEMMA SubscriptionsStep ==
  ASSUME RowInv, PushInv, RowInv', NEW q \in Requests, SubscriptionStep(q)
  PROVE  PushInv'
<1>1. StepOf(q) /\ at[q] \notin Ended
  BY SubscriptionRows, NotEnded DEF StepIn, Services
<1>2. \A p \in Others(q) : asks'[p] = asks[p] /\ at'[p] = at[p] /\ (at[p] \in {"push", "reassign"} => copy'[p] = copy[p])
  BY <1>1, Whereabouts DEF StepOf, Others, Follows, Asks
<1>3. \A p \in Requests : Subscriber(p) /\ Sender(p)
  BY DEF PushInv
<1>4. /\ subscriptions \in [Requests -> SubscriptionType \cup {NoRow, Gone}]
      /\ holder \in [Endpoints -> Users \cup {None}]
      /\ asks \in [Requests -> AskType] /\ at \in [Requests -> Awaits] /\ DOMAIN copy = Requests
  BY DEF PushInv, PushTypes, RowInv, Types
<1>5. subscriptions[q] = NoRow
  BY <1>1, <1>3 DEF Subscriber
<1>6. \A e : \A s \in Subscribed(e) : s \in Requests /\ subscriptions[s] \in SubscriptionType
  BY <1>4, SubscriptionTypes DEF Subscribed
<1>7. (at[q] \in {"endpoint", "subscribe", "reassign"} <=> Asks(q, "create", "push"))
  BY Whereabouts
<1>8. (at[q] \in {"endpoint", "subscribe", "reassign"} <=> Asks(q, "create", "push"))'
  BY Whereabouts, PTL
<1>10. CASE ReceiveSubscribe(q)
  <2>1. PICK e \in Endpoints, u \in Users :
          /\ Receive(q, Ask("create", "push", u, e, {}), "endpoint")
          /\ overlapped' = IF Subscribing(e) = {} THEN overlapped ELSE overlapped \cup {e}
    BY <1>10 DEF ReceiveSubscribe
  <2>2. PICK ask : ask = Ask("create", "push", u, e, {})
    OBVIOUS
  <2>3. ask.kind = "create" /\ ask.service = "push" /\ ask.on = e /\ ask.user = u
    BY <2>2 DEF Ask
  <2>4. /\ at[q] = "new" /\ at'[q] = "endpoint" /\ asks'[q] = ask
        /\ UNCHANGED <<copy, subscriptions, lapsed, holder>>
        /\ overlapped \subseteq overlapped' /\ overlapped' \subseteq overlapped \cup {e}
        /\ Subscribing(e) # {} => e \in overlapped'
    BY <1>4, <1>10, <2>1, <2>2 DEF ReceiveSubscribe, Receive, Goto
  <2>5. \A x : Subscribed(x)' = Subscribed(x)
    BY <2>4 DEF Subscribed
  <2>7. PushTypes'
    BY <2>1, <2>4 DEF PushInv, PushTypes
  <2>8. Alone'
    <3>1. ASSUME NEW p \in Others(q), Asks(p, "create", "push"), Target(p) = e
          PROVE  e \in overlapped'
      BY <2>4, <3>1 DEF Subscribing, Subscribes, Others
    <3>2. \A p \in Others(q) : (Asks(p, "create", "push")' <=> Asks(p, "create", "push")) /\ Target(p)' = Target(p)
      BY <1>2 DEF Asks, Target
    <3>3. Target(q)' = e
      BY <2>3, <2>4 DEF Target
    <3>4. ASSUME NEW p \in Requests, NEW r \in Requests, Asks(p, "create", "push")',
                 Asks(r, "create", "push")', Target(p)' = Target(r)', Target(p)' \notin overlapped'
          PROVE  p = r
      <4>1. CASE p = q /\ r # q
        BY <3>1, <3>2, <3>3, <3>4, <4>1 DEF Others
      <4>2. CASE p # q /\ r = q
        BY <3>1, <3>2, <3>3, <3>4, <4>2 DEF Others
      <4>3. CASE p # q /\ r # q
        BY <2>4, <3>2, <3>4, <4>3 DEF Others, PushInv, Alone
      <4>. QED
        BY <4>1, <4>2, <4>3
    <3>. QED
      BY <3>4 DEF Alone
  <2>9. OneEndpoint'
    BY <1>2, <2>4 DEF PushInv, OneEndpoint, Others, Target
  <2>10. Subscriber(q)' /\ Sender(q)'
    BY <1>5, <2>1, <2>3, <2>4 DEF Subscriber, Sender, Target
  <2>11. \A p \in Others(q) : Subscriber(p)' /\ Sender(p)'
    BY <1>2, <1>3, <2>4, <2>5 DEF Subscriber, Sender, Target, Asks, Others
  <2>12. EndpointHasHolder'
    BY <2>4, <2>5 DEF PushInv, EndpointHasHolder
  <2>. QED
    BY <2>7, <2>8, <2>9, <2>10, <2>11, <2>12 DEF PushInv, Others
<1>11. CASE FindEndpoint(q)
  <2>1. /\ at[q] = "endpoint" /\ Asks(q, "create", "push") /\ Target(q) \in Endpoints /\ asks[q].user \in Users
        /\ UNCHANGED <<subscriptions, lapsed, overlapped>>
    BY <1>3, <1>7, <1>11 DEF FindEndpoint, Subscriber
  <2>2. \A x : Subscribed(x)' = Subscribed(x)
    BY <2>1 DEF Subscribed
  <2>3. \A p \in Others(q) : Subscriber(p)' /\ Sender(p)'
    BY <1>2, <1>3, <2>1, <2>2 DEF Subscriber, Sender, Target, Asks, Others
  <2>4. (asks'[q] = asks[q] \/ asks'[q] = Nothing) /\ at'[q] # "push"
    BY <1>4, <1>11 DEF FindEndpoint, Answer, Goto
  <2>5. \A x : Subscribing(x)' \subseteq Subscribing(x)
    BY <1>2, <2>4, NoneAsked DEF Subscribing, Subscribes, Asks, Target, Others
  <2>6. Alone'
    BY <1>2, <2>1, <2>4, NoneAsked DEF PushInv, Alone, Asks, Target, Others
  <2>8. CASE \E s \in Subscribed(Target(q)) :
               /\ subscriptions[s].user = asks[q].user /\ Answer(q, "done")
               /\ holder' = [holder EXCEPT ![Target(q)] = asks[q].user]
    <3>1. PICK s \in Subscribed(Target(q)) : subscriptions[s].user = asks[q].user
      BY <2>8
    <3>2. /\ asks'[q] = Nothing /\ at'[q] = "done"
          /\ holder' = [holder EXCEPT ![Target(q)] = asks[q].user]
      BY <1>4, <2>8 DEF Answer, Goto
    <3>3. PushTypes'
      BY <2>1, <3>2 DEF PushInv, PushTypes
    <3>4. OneEndpoint'
      BY <1>2, <3>2 DEF PushInv, OneEndpoint, Others, Target
    <3>5. Subscriber(q)' /\ Sender(q)'
      BY <3>2, NoneAsked DEF Subscriber, Sender, Asks, Ended
    <3>6. EndpointHasHolder'
      BY <1>4, <2>1, <2>2, <3>1, <3>2 DEF PushInv, EndpointHasHolder
    <3>. QED
      BY <2>3, <2>6, <3>3, <3>4, <3>5, <3>6 DEF PushInv, Others
  <2>9. CASE \E s \in Subscribed(Target(q)) :
               /\ Goto(q, "reassign") /\ copy' = [copy EXCEPT ![q] = [row |-> s]]
               /\ UNCHANGED <<asks, holder>>
    <3>1. PICK s \in Subscribed(Target(q)) : copy' = [copy EXCEPT ![q] = [row |-> s]]
      BY <2>9
    <3>2. asks' = asks /\ at'[q] = "reassign" /\ holder' = holder /\ copy'[q].row = s
      BY <1>4, <2>9, <3>1 DEF Goto
    <3>3. s \in Requests /\ subscriptions[s] \in SubscriptionType /\ subscriptions[s].endpoint = Target(q)
      BY <1>6, <3>1 DEF Subscribed
    <3>4. PushTypes'
      BY <2>1, <3>2 DEF PushInv, PushTypes
    <3>5. OneEndpoint'
      <4>1. \A p \in Others(q) : at[p] = "reassign" /\ copy[p].row = s => Target(p) = Target(q)
        BY <1>3, <3>3, SubscriptionTypes DEF Subscriber, Others
      <4>. QED
        BY <1>2, <3>2, <4>1 DEF PushInv, OneEndpoint, Others, Target
    <3>6. Subscriber(q)'
      <4>1. Target(q) \notin overlapped => Subscribed(Target(q)) \subseteq {s}
        BY <2>1, <3>1 DEF PushInv, EndpointHasHolder
      <4>. QED
        BY <1>5, <2>1, <2>2, <3>2, <3>3, <4>1, SubscriptionTypes DEF Subscriber, Target
    <3>7. Sender(q)'
      BY <3>2 DEF Sender
    <3>8. EndpointHasHolder'
      BY <2>1, <2>2, <3>2 DEF PushInv, EndpointHasHolder
    <3>. QED
      BY <2>3, <2>6, <3>4, <3>5, <3>6, <3>7, <3>8 DEF PushInv, Others
  <2>10. CASE Subscribed(Target(q)) = {} /\ Goto(q, "subscribe") /\ UNCHANGED <<asks, copy, holder>>
    <3>1. at'[q] = "subscribe"
      BY <1>4, <2>10 DEF Goto
    <3>2. PushTypes'
      BY <2>1, <2>10 DEF PushInv, PushTypes
    <3>3. OneEndpoint'
      BY <1>2, <2>10, <3>1 DEF PushInv, OneEndpoint, Others, Target
    <3>4. Subscriber(q)' /\ Sender(q)'
      BY <1>5, <2>1, <2>2, <2>10, <3>1 DEF Subscriber, Sender, Target
    <3>5. EndpointHasHolder'
      BY <2>1, <2>2, <2>10 DEF PushInv, EndpointHasHolder
    <3>. QED
      BY <2>3, <2>6, <3>2, <3>3, <3>4, <3>5 DEF PushInv, Others
  <2>. QED
    BY <1>11, <2>8, <2>9, <2>10 DEF FindEndpoint
<1>12. CASE SaveSubscription(q)
  <2>1. /\ at[q] \in {"reassign", "subscribe"} /\ Asks(q, "create", "push")
        /\ Target(q) \in Endpoints /\ asks[q].user \in Users
        /\ UNCHANGED <<lapsed, overlapped>>
    BY <1>3, <1>7, <1>12 DEF SaveSubscription, Subscriber
  <2>2. /\ asks'[q] = Nothing /\ at'[q] \in Ended
    BY <1>4, <1>12 DEF SaveSubscription, Answer, Goto, Ended
  <2>3. \A x : Subscribing(x)' \subseteq Subscribing(x)
    BY <1>2, <2>2, NoneAsked DEF Subscribing, Subscribes, Asks, Target, Others
  <2>4. Alone'
    BY <1>2, <2>1, <2>2, NoneAsked DEF PushInv, Alone, Asks, Target, Others
  <2>5. OneEndpoint'
    BY <1>2, <2>2 DEF PushInv, OneEndpoint, Others, Target, Ended
  <2>6. /\ \A p \in Others(q) : Sender(p)'
        /\ Sender(q)'
    BY <1>2, <1>3, <2>1, <2>2 DEF Sender, Others, Ended
  <2>7. CASE asks[q].user \notin users
    <3>1. UNCHANGED <<subscriptions, holder>>
      BY <1>12, <2>7 DEF SaveSubscription
    <3>2. \A x : Subscribed(x)' = Subscribed(x)
      BY <3>1 DEF Subscribed
    <3>3. PushTypes' /\ EndpointHasHolder'
      BY <2>1, <3>1, <3>2 DEF PushInv, PushTypes, EndpointHasHolder
    <3>4. \A p \in Others(q) : Subscriber(p)'
      BY <1>2, <1>3, <2>1, <3>1, <3>2 DEF Subscriber, Target, Asks, Others
    <3>5. Subscriber(q)'
      BY <2>2, NoneAsked DEF Subscriber, Asks, Ended
    <3>. QED
      BY <2>4, <2>5, <2>6, <3>3, <3>4, <3>5 DEF PushInv, Others
  <2>8. CASE asks[q].user \in users
    <3>1. PICK s : s = (IF at[q] = "reassign" THEN copy[q].row ELSE q)
      OBVIOUS
    <3>2. PICK new : new = Subscription(Target(q), asks[q].user)
      OBVIOUS
    <3>3. /\ subscriptions' = [subscriptions EXCEPT ![s] = new]
          /\ holder' = [holder EXCEPT ![Target(q)] = asks[q].user]
      BY <1>12, <2>8, <3>1, <3>2 DEF SaveSubscription
    <3>4. new \in SubscriptionType /\ new.endpoint = Target(q) /\ new.user = asks[q].user /\ new.state = "exists"
      BY <2>1, <3>2 DEF Subscription, SubscriptionType
    <3>5. /\ s \in Requests
          /\ subscriptions[s] \in SubscriptionType => subscriptions[s].endpoint = Target(q)
          /\ s # q => subscriptions[s] # NoRow
          /\ Target(q) \notin overlapped => Subscribed(Target(q)) \subseteq {s}
      BY <1>3, <1>5, <2>1, <3>1, SubscriptionTypes DEF Subscriber
    <3>6. /\ \A x : x # Target(q) => Subscribed(x)' = Subscribed(x)
          /\ \A x : x = Target(q) => Subscribed(x)' = Subscribed(x) \cup {s}
      <4>1. \A r \in Requests : subscriptions'[r] = IF r = s THEN new ELSE subscriptions[r]
        BY <1>4, <3>3, <3>5
      <4>2. \A r \in Requests : subscriptions[r].state = "exists" => subscriptions[r] \in SubscriptionType
        BY <1>4, SubscriptionTypes
      <4>3. \A x : \A r \in Requests \ {s} : r \in Subscribed(x)' <=> r \in Subscribed(x)
        BY <4>1 DEF Subscribed
      <4>4. \A x : s \in Subscribed(x)' <=> x = Target(q)
        BY <3>4, <3>5, <4>1 DEF Subscribed
      <4>5. \A x : s \in Subscribed(x) => x = Target(q)
        BY <3>5, <4>2 DEF Subscribed
      <4>6. \A x : Subscribed(x) \subseteq Requests /\ Subscribed(x)' \subseteq Requests
        BY DEF Subscribed
      <4>. QED
        BY <3>5, <4>3, <4>4, <4>5, <4>6
    <3>7. PushTypes'
      BY <2>1, <3>3, <3>4, <3>5 DEF PushInv, PushTypes
    <3>8. EndpointHasHolder'
      <4>1. ASSUME NEW e \in Endpoints \ overlapped, e = Target(q), NEW r \in Subscribed(e)'
            PROVE  r = s /\ subscriptions'[r].user = holder'[e]
        <5>1. r = s
          BY <3>5, <3>6, <4>1
        <5>2. subscriptions'[s] = new /\ holder'[Target(q)] = asks[q].user
          BY <1>4, <2>1, <3>3, <3>5
        <5>. QED
          BY <3>4, <4>1, <5>1, <5>2
      <4>2. ASSUME NEW e \in Endpoints \ overlapped, e # Target(q), NEW r \in Subscribed(e)'
            PROVE  r \in Subscribed(e) /\ subscriptions'[r].user = subscriptions[r].user /\ holder'[e] = holder[e]
        <5>1. r \in Subscribed(e) /\ subscriptions'[r].endpoint = e
          BY <3>6, <4>2 DEF Subscribed
        <5>2. r # s
          BY <1>4, <3>3, <3>4, <3>5, <4>2, <5>1
        <5>. QED
          BY <1>4, <2>1, <3>3, <3>5, <4>2, <5>1, <5>2
      <4>3. \A e \in Endpoints \ overlapped : e # Target(q) => Subscribed(e)' = Subscribed(e)
        BY <3>6
      <4>. QED
        BY <2>1, <4>1, <4>2, <4>3 DEF PushInv, EndpointHasHolder
    <3>9. ASSUME NEW p \in Others(q) PROVE Subscriber(p)'
      <4>1. /\ Subscriber(p) /\ p \in Requests /\ p # q
            /\ asks'[p] = asks[p] /\ at'[p] = at[p] /\ (at[p] \in {"push", "reassign"} => copy'[p] = copy[p])
        BY <1>2, <1>3, <3>9 DEF Others
      <4>2. subscriptions'[p] # NoRow => at[p] \in Ended
        <5>1. p = s => subscriptions[p] # NoRow
          BY <3>5, <4>1
        <5>2. p # s => subscriptions'[p] = subscriptions[p]
          BY <1>4, <3>3, <4>1
        <5>. QED
          BY <4>1, <5>1, <5>2 DEF Subscriber
      <4>3. at[p] \in {"subscribe", "reassign"} /\ Target(p) \notin overlapped => Target(p) # Target(q)
        <5>1. at[p] \in {"subscribe", "reassign"} => Asks(p, "create", "push")
          BY <4>1, Whereabouts
        <5>. QED
          BY <2>1, <4>1, <5>1 DEF PushInv, Alone
      <4>4. at[p] = "reassign" =>
              /\ subscriptions'[copy[p].row] # NoRow
              /\ subscriptions'[copy[p].row] # Gone => subscriptions'[copy[p].row].endpoint = Target(p)
        <5>1. CASE at[p] = "reassign" /\ copy[p].row = s
          <6>1. s # q
            BY <1>5, <4>1, <5>1 DEF Subscriber
          <6>2. Target(p) = Target(q)
            BY <2>1, <3>1, <4>1, <5>1, <6>1 DEF PushInv, OneEndpoint
          <6>. QED
            BY <1>4, <3>3, <3>4, <3>5, <5>1, <6>2, SubscriptionTypes
        <5>2. CASE at[p] = "reassign" /\ copy[p].row # s
          BY <1>4, <3>3, <4>1, <5>2 DEF Subscriber
        <5>. QED
          BY <5>1, <5>2
      <4>5. (Asks(p, "create", "push") => Target(p) \in Endpoints /\ asks[p].user \in Users)'
        BY <4>1 DEF Subscriber, Asks, Target
      <4>6. (at[p] = "subscribe" /\ Target(p) \notin overlapped => Subscribed(Target(p)) = {})'
        BY <2>1, <3>6, <4>1, <4>3 DEF Subscriber, Target
      <4>7. (at[p] = "reassign" /\ Target(p) \notin overlapped => Subscribed(Target(p)) \subseteq {copy[p].row})'
        BY <2>1, <3>6, <4>1, <4>3 DEF Subscriber, Target
      <4>. QED
        BY <4>1, <4>2, <4>4, <4>5, <4>6, <4>7 DEF Subscriber, Target
    <3>10. Subscriber(q)'
      BY <2>2, NoneAsked DEF Subscriber, Asks, Ended
    <3>. QED
      BY <2>4, <2>5, <2>6, <3>7, <3>8, <3>9, <3>10 DEF PushInv, Others
  <2>. QED
    BY <2>7, <2>8
<1>13. CASE SendToUser(q)
  <2>1. PICK u \in Users : Receive(q, Ask("send", "push", u, None, {}), "subscriptions")
    BY <1>13 DEF SendToUser
  <2>2. PICK ask : ask = Ask("send", "push", u, None, {})
    OBVIOUS
  <2>3. ask.kind = "send"
    BY <2>2 DEF Ask
  <2>4. at[q] = "new" /\ at'[q] = "subscriptions" /\ asks'[q] = ask /\ UNCHANGED pvars
    BY <1>4, <1>13, <2>1, <2>2 DEF SendToUser, Receive, Goto
  <2>. QED
    BY <1>1, <1>7, <2>3, <2>4, SendsStep DEF pvars, Asks, Sender
<1>14. CASE FindSubscriptions(q)
  <2>1. PICK S \in SUBSET Requests :
          S = {r \in Requests : subscriptions[r].state = "exists" /\ subscriptions[r].user = asks[q].user}
    OBVIOUS
  <2>2. PICK sends : sends = [s \in S |-> [endpoint |-> subscriptions[s].endpoint, gone |-> FALSE]]
    OBVIOUS
  <2>3. copy' = [copy EXCEPT ![q] = [sends |-> sends]]
    BY <1>14, <2>1, <2>2 DEF FindSubscriptions
  <2>4. sends \in Sends /\ \A s \in DOMAIN sends : ~sends[s].gone
    <3>1. \A s \in S : subscriptions[s].endpoint \in Endpoints
      BY <1>4, <2>1, SubscriptionTypes DEF SubscriptionType
    <3>2. sends \in [S -> [endpoint : Endpoints, gone : BOOLEAN]]
      BY <2>2, <3>1
    <3>. QED
      BY <2>2, <3>2 DEF Sends
  <2>5. /\ at[q] = "subscriptions" /\ at'[q] = "push" /\ asks' = asks /\ UNCHANGED pvars
        /\ copy'[q] = [sends |-> sends]
    BY <1>4, <1>14, <2>3 DEF FindSubscriptions, Goto
  <2>6. Sender(q)'
    BY <2>4, <2>5 DEF Sender
  <2>. QED
    BY <1>1, <1>7, <1>8, <2>5, <2>6, SendsStep DEF pvars
<1>15. CASE AllSent(q)
  <2>1. at[q] = "push" /\ at'[q] = "done" /\ UNCHANGED pvars
    BY <1>4, <1>15 DEF AllSent, Answer, Goto
  <2>. QED
    BY <1>1, <1>7, <1>8, <2>1, SendsStep DEF pvars, Sender
<1>16. ASSUME NEW s \in Requests, SendPush(q, s) \/ DeleteEndpoint(q, s) \/ DeleteRejected(q, s)
       PROVE  PushInv'
  <2>1. /\ at[q] = "push" /\ UNCHANGED <<asks, at, lapsed, holder, overlapped>>
        /\ s \in DOMAIN copy[q].sends
    BY <1>16 DEF SendPush, DeleteEndpoint, DeleteRejected, FoundGone, Sending, pvars
  <2>2. PICK S \in SUBSET Requests, sends \in Sends :
          sends \in [S -> [endpoint : Endpoints, gone : BOOLEAN]] /\ copy[q] = [sends |-> sends]
    <3>1. PICK all \in Sends : copy[q] = [sends |-> all]
      BY <1>3, <2>1 DEF Sender
    <3>. QED
      BY <3>1 DEF Sends
  <2>3. s \in S /\ \A r \in S : sends[r].gone => sends[r].endpoint \in lapsed
    BY <1>3, <2>1, <2>2 DEF Sender
  <2>4. PICK T, rest : T = S \ {s} /\ rest = [r \in T |-> sends[r]]
    OBVIOUS
  <2>5. HasSent(q, s) => copy'[q] = [sends |-> rest]
    <3>1. [r \in DOMAIN copy[q].sends \ {s} |-> copy[q].sends[r]] = rest
      BY <2>2, <2>4
    <3>. QED
      BY <1>4, <2>2, <3>1 DEF HasSent
  <2>6. rest \in Sends /\ \A r \in DOMAIN rest : rest[r].gone => rest[r].endpoint \in lapsed
    <3>1. rest \in [T -> [endpoint : Endpoints, gone : BOOLEAN]]
      BY <2>2, <2>4
    <3>. QED
      BY <2>3, <2>4, <3>1 DEF Sends
  <2>7. HasSent(q, s) => Sender(q)'
    BY <2>1, <2>5, <2>6 DEF Sender
  <2>8. CASE SendPush(q, s)
    <3>1. UNCHANGED subscriptions
      BY <2>8 DEF SendPush, pvars
    <3>2. CASE /\ sends[s].endpoint \in lapsed
               /\ copy' = [copy EXCEPT ![q].sends[s].gone = TRUE]
      <4>1. PICK tried : tried = [sends EXCEPT ![s].gone = TRUE]
        OBVIOUS
      <4>2. /\ tried \in [S -> [endpoint : Endpoints, gone : BOOLEAN]] /\ tried \in Sends
            /\ \A r \in S : tried[r].gone => tried[r].endpoint \in lapsed
        BY <2>2, <2>3, <3>2, <4>1 DEF Sends
      <4>3. copy'[q] \in [sends : Sends] /\ copy'[q].sends = tried
        <5>1. copy' = [copy EXCEPT ![q].sends[s].gone = TRUE]
          BY <3>2
        <5>2. PICK held : held = copy[q]
          OBVIOUS
        <5>3. copy'[q] = [held EXCEPT !.sends = [held.sends EXCEPT ![s].gone = TRUE]]
          BY <1>4, <5>1, <5>2
        <5>4. held \in [sends : Sends] /\ held.sends = sends
          BY <2>2, <5>2
        <5>5. copy'[q] = [held EXCEPT !.sends = tried]
          BY <4>1, <5>3, <5>4
        <5>. QED
          BY <4>2, <5>4, <5>5
      <4>4. Sender(q)'
        BY <2>1, <4>2, <4>3 DEF Sender
      <4>. QED
        BY <1>1, <1>7, <1>8, <2>1, <3>1, <4>4, SendsStep
    <3>3. CASE HasSent(q, s)
      BY <1>1, <1>7, <1>8, <2>1, <2>7, <3>1, <3>3, SendsStep
    <3>. QED
      BY <2>2, <2>8, <3>2, <3>3 DEF SendPush
  <2>9. CASE DeleteRejected(q, s)
    BY <1>1, <1>7, <1>8, <2>1, <2>7, <2>9, SendsStep DEF DeleteRejected, pvars
  <2>10. CASE DeleteEndpoint(q, s)
    <3>1. PICK e : e = sends[s].endpoint
      OBVIOUS
    <3>2. e \in lapsed /\ e \in Endpoints
      BY <2>2, <2>3, <2>10, <3>1 DEF DeleteEndpoint, FoundGone
    <3>3. HasSent(q, s)
      BY <2>10 DEF DeleteEndpoint
    <3>4. subscriptions' = [r \in Requests |-> IF r \in Subscribed(e) THEN Gone ELSE subscriptions[r]]
      BY <2>2, <2>10, <3>1 DEF DeleteEndpoint
    <3>5. /\ \A x : x # e => Subscribed(x)' = Subscribed(x)
          /\ Subscribed(e)' = {}
          /\ \A x : \A r \in Subscribed(x)' : subscriptions'[r] = subscriptions[r]
      BY <3>4, SubscriptionTypes DEF Subscribed
    <3>6. \A x : Subscribing(x)' = Subscribing(x)
      BY <2>1 DEF Subscribing, Subscribes, Asks, Target
    <3>7. PushTypes'
      BY <2>1, <3>2, <3>4 DEF PushInv, PushTypes
    <3>8. OneEndpoint'
      BY <1>2, <2>1 DEF PushInv, OneEndpoint, Target, Others
    <3>9. Alone'
      BY <2>1 DEF PushInv, Alone, Asks, Target
    <3>10. ASSUME NEW p \in Requests PROVE Subscriber(p)'
      <4>1. Subscriber(p) /\ asks'[p] = asks[p] /\ at'[p] = at[p] /\ (at[p] = "reassign" => copy'[p] = copy[p])
        BY <1>2, <1>3, <2>1 DEF Others
      <4>2. \A r \in Requests : /\ subscriptions'[r] = NoRow <=> subscriptions[r] = NoRow
                                /\ subscriptions'[r] = subscriptions[r] \/ subscriptions'[r] = Gone
        BY <3>4, SubscriptionTypes DEF Subscribed
      <4>3. \A x : Subscribed(x)' \subseteq Subscribed(x)
        BY <3>5
      <4>. QED
        BY <2>1, <4>1, <4>2, <4>3 DEF Subscriber, Asks, Target
    <3>11. \A p \in Requests : Sender(p)'
      BY <1>2, <1>3, <2>1, <2>7, <3>3 DEF Sender, Others
    <3>12. EndpointHasHolder'
      BY <2>1, <3>5 DEF PushInv, EndpointHasHolder
    <3>. QED
      BY <3>7, <3>8, <3>9, <3>10, <3>11, <3>12 DEF PushInv
  <2>. QED
    BY <1>16, <2>8, <2>9, <2>10
<1>. QED
  BY <1>10, <1>11, <1>12, <1>13, <1>14, <1>15, <1>16 DEF SubscriptionStep

-----------------------------------------------------------------------------
(* The objects.                                                             *)

LEMMA ObjectsStep ==
  ASSUME RowInv, ObjectInv, RowInv', NEW q \in Requests, StepOf(q), Tidy(q),
         objects \subseteq objects', objects' \subseteq Ids,
         asks'[q].service \in {"files", "audios"} /\ at'[q] \in {"transcribe", "insert"} =>
           Target(q)' \in objects'
  PROVE  ObjectInv'
<1>1. ASSUME NEW i \in Ids, (IsIn(i, "files") \/ IsIn(i, "audios"))'
      PROVE  i \in objects'
  <2>1. rows'[i] \in RowType /\ rows'[i].table \in {"files", "audios"}
    BY <1>1, RowTypes DEF RowInv, Types, IsIn, Exists
  <2>2. CASE rows[i] \in RowType /\ rows[i].table = rows'[i].table
    BY <2>1, <2>2, RowTypes DEF ObjectInv, RowsHaveObjects, IsIn, Exists
  <2>3. CASE i = Target(q) /\ at[q] \in {"insert", "save"} /\ rows'[i].table = asks[q].service
    <3>1. Stage(q)
      BY DEF RowInv, Stages
    <3>2. at[q] = "insert"
      BY <2>1, <2>3, <3>1 DEF Stage, Fits, Is, Ended
    <3>. QED
      BY <2>1, <2>3, <3>2 DEF ObjectInv
  <2>. QED
    BY <2>1, <2>2, <2>3, RowTypes DEF Tidy
<1>2. ASSUME NEW p \in Others(q)
      PROVE  (asks[p].service \in {"files", "audios"} /\ at[p] \in {"transcribe", "insert"} =>
                Target(p) \in objects)'
  BY <1>2 DEF ObjectInv, StepOf, Others, Target
<1>. QED
  BY <1>1, <1>2 DEF ObjectInv, RowsHaveObjects, Others

LEMMA OtherObjects ==
  ASSUME RowInv, ObjectInv, RowInv', NEW q \in Requests, NEW S, StepIn(q, S),
         "files" \notin S, "audios" \notin S, objects' = objects
  PROVE  ObjectInv'
<1>1. asks'[q].service \notin {"files", "audios"}
  BY NoneAsked DEF StepIn
<1>. QED
  BY <1>1, ObjectsStep DEF StepIn, ObjectInv

LEMMA UploadObjects ==
  ASSUME RowInv, ObjectInv, RowInv', NEW q \in Requests, UploadStep(q)
  PROVE  ObjectInv'
<1>1. StepOf(q) /\ Tidy(q)
  BY UploadRows DEF StepIn
<1>2. asks \in [Requests -> AskType] /\ at \in [Requests -> Awaits]
  BY DEF RowInv, Types
<1>3. CASE PutObject(q)
  <2>1. Stage(q) /\ Creates(q) /\ at[q] = "put"
    BY <1>3 DEF RowInv, Stages, PutObject
  <2>2. Target(q) \in Ids
    BY <2>1 DEF Stage, Fits, Is, Creates, Tables, Ended
  <2>. QED
    BY <1>1, <1>3, <2>2, ObjectsStep DEF PutObject, ObjectInv, Target
<1>4. CASE TranscribeAudio(q)
  <2>1. at[q] = "transcribe" /\ asks[q].service \in {"files", "audios"} /\ asks' = asks /\ objects' = objects
    BY <1>4, Whereabouts DEF TranscribeAudio
  <2>2. Target(q)' \in objects'
    <3>1. Stage(q)
      BY DEF RowInv, Stages
    <3>. QED
      BY <2>1 DEF ObjectInv, Target
  <2>. QED
    BY <1>1, <2>1, <2>2, ObjectsStep DEF ObjectInv
<1>5. CASE ReceiveUpload(q) \/ InsertUpload(q) \/ DeactivateAudio(q)
  <2>1. objects' = objects /\ at'[q] \notin {"transcribe", "insert"}
    BY <1>2, <1>5 DEF ReceiveUpload, InsertUpload, DeactivateAudio, Receive, InsertRow, Answer, Goto
  <2>. QED
    BY <1>1, <2>1, ObjectsStep DEF ObjectInv
<1>. QED
  BY <1>3, <1>4, <1>5 DEF UploadStep

-----------------------------------------------------------------------------
(* The histories.                                                           *)

LEMMA HistoriesStay ==
  ASSUME RowInv, HistoryInv, RowInv', NEW q \in Requests, StepOf(q), Tidy(q), at[q] \notin Ended,
         histories' = histories, ~Asks(q, "remove history", "flows")'
  PROVE  HistoryInv'
<1>1. ASSUME NEW p \in Requests
      PROVE  (histories[p] # NoRow => at[p] \in Ended /\ rows[histories[p].flow] # NoRow)'
  <2>1. histories[p] # NoRow => at[p] \in Ended /\ rows[histories[p].flow] # NoRow /\ histories[p].flow \in Ids
    BY DEF HistoryInv, NoRow
  <2>. QED
    BY <2>1, TidyKeeps DEF StepOf, Others
<1>2. ASSUME NEW p \in Requests
      PROVE  (/\ Asks(p, "remove history", "flows") => Target(p) \in Requests /\ histories[Target(p)] # NoRow
              /\ at[p] = "remove history" => copy[p] # NoRow)'
  <2>1. Asks(p, "remove history", "flows")' => p \in Others(q) /\ asks'[p] = asks[p] /\ at'[p] = at[p] /\ copy'[p] = copy[p]
    BY DEF Asks, StepOf, Others, Follows
  <2>2. at'[p] = "remove history" => Asks(p, "remove history", "flows")'
    BY WhereaboutsNext
  <2>. QED
    BY <2>1, <2>2 DEF HistoryInv, Asks, Target
<1>. QED
  BY <1>1, <1>2 DEF HistoryInv

LEMMA OtherHistories ==
  ASSUME RowInv, HistoryInv, RowInv', NEW q \in Requests, NEW S, S \subseteq Services, StepIn(q, S),
         "flows" \notin S, histories' = histories
  PROVE  HistoryInv'
<1>1. at[q] \notin Ended
  BY NotEnded
<1>2. ~Asks(q, "remove history", "flows")'
  BY NoneAsked DEF StepIn, Asks
<1>. QED
  BY <1>1, <1>2, HistoriesStay DEF StepIn

LEMMA FlowHistories ==
  ASSUME RowInv, HistoryInv, RowInv', NEW q \in Requests, FlowStep(q)
  PROVE  HistoryInv'
<1>1. StepOf(q) /\ Tidy(q) /\ at[q] \notin Ended
  BY FlowRows, NotEnded DEF StepIn, Services, Tables
<1>2. /\ asks \in [Requests -> AskType] /\ at \in [Requests -> Awaits] /\ DOMAIN copy = Requests
      /\ histories \in [Requests -> {NoRow} \cup [state : {"exists", "removed"}, flow : Ids]]
  BY DEF RowInv, Types, HistoryInv
<1>3. \A i \in Ids : rows[i] # NoRow => rows'[i] # NoRow
  BY <1>1, TidyKeeps
<1>4. /\ \A p \in Others(q) : asks'[p] = asks[p] /\ at'[p] = at[p] /\ (at[p] = "remove history" => copy'[p] = copy[p])
      /\ \A p \in Requests : at[p] = "remove history" => Asks(p, "remove history", "flows")
  BY <1>1, Whereabouts DEF StepOf, Others, Follows, Asks
<1>5. \A p \in Requests : histories[p] # NoRow => at[p] \in Ended /\ rows[histories[p].flow] # NoRow /\ histories[p].flow \in Ids
  BY DEF HistoryInv, NoRow
\* It is enough to look at q, and at the history that is written.
<1>6. ASSUME histories' \in [Requests -> {NoRow} \cup [state : {"exists", "removed"}, flow : Ids]],
             \A p \in Requests : histories[p] # NoRow => histories'[p] # NoRow /\ histories'[p].flow = histories[p].flow,
             \A p \in Others(q) : histories[p] = NoRow => histories'[p] = NoRow,
             histories'[q] # NoRow => at'[q] \in Ended /\ rows'[histories'[q].flow] # NoRow,
             Asks(q, "remove history", "flows")' => Target(q)' \in Requests /\ histories'[Target(q)'] # NoRow,
             at'[q] = "remove history" => copy'[q] # NoRow
      PROVE  HistoryInv'
  <2>1. ASSUME NEW p \in Others(q)
        PROVE  (/\ histories[p] # NoRow => at[p] \in Ended /\ rows[histories[p].flow] # NoRow
                /\ Asks(p, "remove history", "flows") => Target(p) \in Requests /\ histories[Target(p)] # NoRow
                /\ at[p] = "remove history" => copy[p] # NoRow)'
    <3>1. p \in Requests /\ asks'[p] = asks[p] /\ at'[p] = at[p] /\ (at[p] = "remove history" => copy'[p] = copy[p])
      BY <1>4, <2>1 DEF Others
    <3>2. histories'[p] # NoRow => at'[p] \in Ended /\ rows'[histories'[p].flow] # NoRow
      BY <1>3, <1>5, <1>6, <2>1, <3>1
    <3>3. Asks(p, "remove history", "flows")' => Target(p)' \in Requests /\ histories'[Target(p)'] # NoRow
      BY <1>6, <3>1 DEF HistoryInv, Asks, Target
    <3>4. at'[p] = "remove history" => copy'[p] # NoRow
      BY <3>1 DEF HistoryInv
    <3>. QED
      BY <3>2, <3>3, <3>4
  <2>. QED
    BY <1>6, <2>1 DEF HistoryInv, Others
<1>7. CASE histories' = histories /\ ~Asks(q, "remove history", "flows")'
  BY <1>1, <1>7, HistoriesStay
<1>8. CASE ReceiveFlow(q)
  <2>1. histories' = histories /\ at[q] = "new" /\ at'[q] # "remove history" /\ histories[q] = NoRow
    BY <1>2, <1>5, <1>8 DEF ReceiveFlow, Receive, Goto, Ended
  <2>2. CASE \E h \in Requests, u \in Users :
               Kept(h) /\ Receive(q, Ask("remove history", "flows", u, h, {}), "history")
    <3>1. PICK h \in Requests, u \in Users :
            Kept(h) /\ Receive(q, Ask("remove history", "flows", u, h, {}), "history")
      BY <2>2
    <3>2. PICK ask : ask = Ask("remove history", "flows", u, h, {})
      OBVIOUS
    <3>3. asks'[q] = ask /\ ask.on = h
      BY <1>2, <3>1, <3>2 DEF Receive, Ask
    <3>4. histories[h] # NoRow
      BY <3>1, RowTypes DEF Kept
    <3>. QED
      BY <1>2, <1>6, <2>1, <3>3, <3>4 DEF Target
  <2>3. CASE ~\E h \in Requests, u \in Users :
               Kept(h) /\ Receive(q, Ask("remove history", "flows", u, h, {}), "history")
    <3>1. ASSUME NEW i \in Ids, Receive(q, Ask("create", "flows", Owner[i], i, Columns), "insert")
          PROVE  asks'[q].kind # "remove history"
      BY <1>2, <3>1 DEF Receive, Ask
    <3>2. ASSUME NEW i \in Ids, NEW u \in Users, NEW columns \in {{"text"}, {"mark"}},
                 Receive(q, Ask("update", "flows", u, i, columns), "find")
          PROVE  asks'[q].kind # "remove history"
      BY <1>2, <3>2 DEF Receive, Ask
    <3>3. ASSUME NEW i \in Ids, NEW u \in Users, NEW kind \in {"remove", "create history"},
                 Receive(q, Ask(kind, "flows", u, i, {}), "find")
          PROVE  asks'[q].kind # "remove history"
      BY <1>2, <3>3 DEF Receive, Ask
    <3>4. asks'[q].kind # "remove history"
      BY <1>8, <2>3, <3>1, <3>2, <3>3 DEF ReceiveFlow
    <3>. QED
      BY <1>7, <2>1, <3>4 DEF Asks
  <2>. QED
    BY <2>2, <2>3
<1>9. CASE CreateFlow(q) \/ FindFlow(q) \/ UpdateFlow(q) \/ RemoveFlow(q)
  <2>1. ~Asks(q, "remove history", "flows")
    <3>1. Stage(q)
      BY DEF RowInv, Stages
    <3>. QED
      BY <1>9, <3>1 DEF CreateFlow, FindFlow, UpdateFlow, RemoveFlow, Asks, Stage, Fits, Is, Ended
  <2>2. asks' = asks \/ \E how : Answer(q, how)
    <3>1. CASE CreateFlow(q)
      BY <3>1 DEF CreateFlow, InsertRow
    <3>2. CASE FindFlow(q)
      BY <3>2 DEF FindFlow, FindOwn
    <3>3. CASE UpdateFlow(q) \/ RemoveFlow(q)
      BY <3>3 DEF UpdateFlow, RemoveFlow, SaveRow, DeleteRow
    <3>. QED
      BY <1>9, <3>1, <3>2, <3>3
  <2>3. histories' = histories /\ (asks'[q] = asks[q] \/ asks'[q] = Nothing)
    BY <1>2, <1>9, <2>2 DEF CreateFlow, FindFlow, UpdateFlow, RemoveFlow, Answer
  <2>. QED
    BY <1>7, <2>1, <2>3, NoneAsked DEF Asks
<1>10. CASE CreateHistory(q)
  <2>1. Stage(q) /\ Found(q) /\ at[q] = "insert history"
    BY <1>10 DEF RowInv, Stages, CreateHistory
  <2>2. Target(q) \in Ids /\ rows[Target(q)] # NoRow
    BY <2>1 DEF Stage, Fits, Is, Found, Tables, Ended
  <2>3. PICK new : new = History(Target(q))
    OBVIOUS
  <2>4. new \in [state : {"exists", "removed"}, flow : Ids] /\ new.flow = Target(q) /\ new # NoRow
    BY <2>2, <2>3 DEF History, NoRow
  <2>5. histories' = [histories EXCEPT ![q] = new] /\ asks'[q] = Nothing /\ at'[q] = "done"
    BY <1>2, <1>10, <2>3 DEF CreateHistory, Answer, Goto
  <2>6. histories[q] = NoRow
    BY <1>1, <1>5
  <2>7. rows'[new.flow] # NoRow
    BY <1>3, <2>2, <2>4
  <2>. QED
    BY <1>2, <1>6, <2>4, <2>5, <2>6, <2>7, NoneAsked DEF Ended, Asks, Others
<1>11. CASE FindHistory(q)
  <2>1. /\ histories' = histories /\ at'[q] # "remove history"
        /\ asks'[q] = asks[q] \/ asks'[q] = Nothing
    BY <1>2, <1>11 DEF FindHistory, Answer, Goto
  <2>2. histories[q] = NoRow
    BY <1>1, <1>5
  <2>. QED
    BY <1>2, <1>6, <2>1, <2>2, NoneAsked DEF Asks, Target, HistoryInv
<1>12. CASE FindFlowOfHistory(q)
  <2>1. /\ Asks(q, "remove history", "flows") /\ histories' = histories
        /\ FindOwn(q, histories[Target(q)].flow, "remove history")
    BY <1>12 DEF FindFlowOfHistory
  <2>2. asks'[q] = asks[q] \/ asks'[q] = Nothing
    BY <1>2, <2>1 DEF FindOwn, Answer
  <2>3. PICK i \in Ids : i = histories[Target(q)].flow
    BY <2>1, <1>5 DEF HistoryInv
  <2>4. at'[q] = "remove history" => copy'[q] # NoRow
    BY <1>2, <2>1, <2>3, RowTypes DEF FindOwn, Answer, Goto, IsIn, Exists
  <2>5. histories[q] = NoRow
    BY <1>1, <1>5
  <2>. QED
    BY <1>2, <1>6, <2>1, <2>2, <2>4, <2>5, NoneAsked DEF Asks, Target, HistoryInv
<1>13. CASE RemoveHistory(q)
  <2>1. PICK h \in Requests : h = Target(q) /\ histories[h] # NoRow /\ at[q] = "remove history"
    BY <1>4, <1>13 DEF RemoveHistory, HistoryInv
  <2>2. /\ histories' = [histories EXCEPT ![h].state = "removed"] /\ asks'[q] = Nothing /\ at'[q] = "done"
    BY <1>2, <1>13, <2>1 DEF RemoveHistory, Answer, Goto
  <2>3. histories[q] = NoRow /\ h # q
    BY <1>1, <1>5, <2>1
  <2>4. histories[h] \in [state : {"exists", "removed"}, flow : Ids]
    BY <1>2, <2>1
  <2>5. PICK old : old = [histories[h] EXCEPT !.state = "removed"]
    OBVIOUS
  <2>6. old \in [state : {"exists", "removed"}, flow : Ids] /\ old.flow = histories[h].flow /\ old # NoRow
    BY <2>4, <2>5 DEF NoRow
  <2>7. histories' = [histories EXCEPT ![h] = old]
    BY <2>2, <2>5
  <2>8. /\ histories' \in [Requests -> {NoRow} \cup [state : {"exists", "removed"}, flow : Ids]]
        /\ histories'[q] = NoRow
        /\ \A p \in Others(q) : histories[p] = NoRow => histories'[p] = NoRow
    BY <1>2, <2>1, <2>3, <2>6, <2>7 DEF Others
  <2>9. \A p \in Requests : histories[p] # NoRow => histories'[p] # NoRow /\ histories'[p].flow = histories[p].flow
    BY <1>2, <2>1, <2>6, <2>7
  <2>10. ~Asks(q, "remove history", "flows")' /\ at'[q] # "remove history"
    BY <1>2, <2>2, NoneAsked DEF Asks
  <2>. QED
    BY <1>6, <2>8, <2>9, <2>10
<1>. QED
  BY <1>8, <1>9, <1>10, <1>11, <1>12, <1>13 DEF FlowStep

LEMMA LostHistories ==
  ASSUME RowInv, HistoryInv, NEW q \in Requests, CallLost(q), histories' = histories
  PROVE  HistoryInv'
<1>1. RowInv' /\ StepIn(q, Services) /\ asks'[q] = Nothing
  BY LostRows
<1>2. at[q] \notin Ended
  BY <1>1, NotEnded
<1>. QED
  BY <1>1, <1>2, NoneAsked, HistoriesStay DEF StepIn, Asks

LEMMA RestartHistories ==
  ASSUME RowInv, HistoryInv, ObjectInv, Restart
  PROVE  HistoryInv' /\ ObjectInv'
<1>1. /\ UNCHANGED <<rows, histories, objects>>
      /\ \A q \in Requests : asks'[q] = Nothing /\ at'[q] \in Ended \cup {"new"}
      /\ \A q \in Requests : at[q] \in Ended => at'[q] \in Ended
  BY DEF Restart, RowInv, Types, Running, Ended, hvars
<1>2. HistoryInv'
  BY <1>1, NoneAsked DEF HistoryInv, Asks, Ended
<1>3. ObjectInv'
  BY <1>1, NoneAsked DEF ObjectInv, RowsHaveObjects, IsIn, Exists, Ended
<1>. QED
  BY <1>2, <1>3

-----------------------------------------------------------------------------
(* The notifications and those who follow them.                             *)

LEMMA InboxIsFinite ==
  ASSUME posted \in Seq(Ids), NEW u, NEW k
  PROVE  /\ IsFiniteSet(Inbox(u)) /\ Inbox(u) \subseteq 1 .. Len(posted)
         /\ IsFiniteSet({m \in Inbox(u) : m > k}) /\ Newer(u, k) \in Nat
<1>1. Inbox(u) \subseteq 1 .. Len(posted) /\ Len(posted) \in Nat
  BY DEF Inbox
<1>2. IsFiniteSet(1 .. Len(posted))
  BY <1>1, FS_Interval
<1>3. IsFiniteSet(Inbox(u))
  BY <1>1, <1>2, FS_Subset
<1>4. {m \in Inbox(u) : m > k} \in SUBSET Inbox(u)
  OBVIOUS
<1>5. IsFiniteSet({m \in Inbox(u) : m > k})
  BY <1>3, <1>4, FS_Subset
<1>. QED
  BY <1>1, <1>3, <1>5, FS_CardinalityType DEF Newer

\* The places of s in t, which has one more element, at m.
Places(s, m, t) ==
  {place \in [1 .. Len(s) -> 1 .. (Len(s) + 1)] :
     /\ \A k \in 1 .. Len(s) : t[place[k]] = s[k]
     /\ \A k, j \in 1 .. Len(s) : k < j => place[k] < place[j]
     /\ \A k \in 1 .. (Len(s) + 1) : k = m \/ \E j \in 1 .. Len(s) : k = place[j]}

\* An element inserted in a sequence keeps the order of the others.
LEMMA InsertedAt ==
  ASSUME NEW S, NEW s \in Seq(S), NEW e \in S, NEW m \in 1 .. (Len(s) + 1)
  PROVE  /\ InsertAt(s, m, e) \in Seq(S)
         /\ DOMAIN InsertAt(s, m, e) = 1 .. (Len(s) + 1)
         /\ InsertAt(s, m, e)[m] = e
         /\ Places(s, m, InsertAt(s, m, e)) # {}
<1>1. PICK n \in Nat : /\ n = Len(s) /\ m \in 1 .. (n + 1) /\ m \in Nat
                      /\ \A k \in 1 .. n : s[k] \in S
  OBVIOUS
<1>2. PICK left : left = SubSeq(s, 1, m - 1)
  OBVIOUS
<1>3. /\ left \in Seq(S) /\ Len(left) = m - 1
      /\ \A k \in 1 .. (m - 1) : left[k] = s[k]
  <2>1. /\ left \in Seq(S)
        /\ Len(left) = IF 1 <= m - 1 THEN (m - 1) - 1 + 1 ELSE 0
        /\ \A k \in 1 .. ((m - 1) - 1 + 1) : left[k] = s[1 + k - 1]
    <3>1. \A k \in 1 .. (m - 1) : s[k] \in S
      BY <1>1
    <3>2. 1 \in Int /\ m - 1 \in Int
      BY <1>1
    <3>. QED
      BY <1>2, <3>1, <3>2, SubSeqProperties
  <2>2. Len(left) = m - 1
    BY <1>1, <2>1
  <2>3. ASSUME NEW k \in 1 .. (m - 1) PROVE left[k] = s[k]
    BY <1>1, <2>1
  <2>. QED
    BY <2>1, <2>2, <2>3
<1>4. PICK right : right = SubSeq(s, m, n)
  OBVIOUS
<1>5. /\ right \in Seq(S) /\ Len(right) = n - m + 1
      /\ \A k \in 1 .. (n - m + 1) : right[k] = s[m + k - 1]
  <2>1. /\ right \in Seq(S)
        /\ Len(right) = IF m <= n THEN n - m + 1 ELSE 0
        /\ \A k \in 1 .. (n - m + 1) : right[k] = s[m + k - 1]
    <3>1. \A k \in m .. n : s[k] \in S
      BY <1>1
    <3>2. m \in Int /\ n \in Int
      BY <1>1
    <3>. QED
      BY <1>4, <3>1, <3>2, SubSeqProperties
  <2>2. Len(right) = n - m + 1
    BY <1>1, <2>1
  <2>. QED
    BY <2>1, <2>2
<1>6. PICK t : t = left \o <<e>>
  OBVIOUS
<1>7. /\ t \in Seq(S) /\ Len(t) = m
      /\ \A k \in 1 .. m : t[k] = IF k < m THEN s[k] ELSE e
  <2>1. PICK last : last = <<e>>
    OBVIOUS
  <2>2. last \in Seq(S) /\ Len(last) = 1 /\ last[1] = e
    BY <2>1
  <2>3. /\ t \in Seq(S) /\ Len(t) = Len(left) + Len(last)
        /\ \A k \in 1 .. Len(left) + Len(last) :
             t[k] = IF k <= Len(left) THEN left[k] ELSE last[k - Len(left)]
    BY <1>3, <1>6, <2>1, <2>2, ConcatProperties
  <2>4. Len(left) + Len(last) = m
    BY <1>1, <1>3, <2>2
  <2>5. ASSUME NEW k \in 1 .. m PROVE t[k] = IF k < m THEN s[k] ELSE e
    <3>1. CASE k < m
      <4>1. k \in 1 .. (m - 1) /\ k <= Len(left)
        BY <1>1, <1>3, <3>1
      <4>. QED
        BY <1>3, <2>3, <2>4, <3>1, <4>1
    <3>2. CASE k = m
      <4>1. ~(k <= Len(left)) /\ k - Len(left) = 1
        BY <1>1, <1>3, <3>2
      <4>. QED
        BY <2>2, <2>3, <2>4, <3>2, <4>1
    <3>. QED
      BY <1>1, <3>1, <3>2
  <2>. QED
    BY <2>3, <2>4, <2>5
<1>8. PICK x : x = InsertAt(s, m, e)
  OBVIOUS
<1>9. /\ x \in Seq(S) /\ Len(x) = n + 1
      /\ \A k \in 1 .. (n + 1) : x[k] = IF k < m THEN s[k] ELSE IF k = m THEN e ELSE s[k - 1]
  <2>1. x = t \o right
    BY <1>1, <1>2, <1>4, <1>6, <1>8 DEF InsertAt
  <2>2. /\ x \in Seq(S) /\ Len(x) = Len(t) + Len(right)
        /\ \A k \in 1 .. Len(t) + Len(right) :
             x[k] = IF k <= Len(t) THEN t[k] ELSE right[k - Len(t)]
    BY <1>5, <1>7, <2>1, ConcatProperties
  <2>3. Len(t) + Len(right) = n + 1
    BY <1>1, <1>5, <1>7
  <2>4. ASSUME NEW k \in 1 .. (n + 1)
        PROVE  x[k] = IF k < m THEN s[k] ELSE IF k = m THEN e ELSE s[k - 1]
    <3>1. CASE k <= m
      <4>1. k \in 1 .. m
        BY <1>1, <3>1
      <4>2. x[k] = t[k]
        BY <1>7, <2>2, <2>3, <3>1
      <4>. QED
        BY <1>1, <1>7, <4>1, <4>2
    <3>2. CASE k > m
      <4>1. k - m \in 1 .. (n - m + 1) /\ m + (k - m) - 1 = k - 1
        BY <1>1, <3>2
      <4>2. right[k - m] = s[k - 1]
        BY <1>5, <4>1
      <4>3. ~(k <= m) /\ ~(k < m) /\ k # m
        BY <1>1, <3>2
      <4>. QED
        BY <1>7, <2>2, <2>3, <4>2, <4>3
    <3>. QED
      BY <1>1, <3>1, <3>2
  <2>. QED
    BY <2>2, <2>3, <2>4
<1>10. PICK place \in [1 .. n -> 1 .. (n + 1)] : \A k \in 1 .. n : place[k] = IF k < m THEN k ELSE k + 1
  <2>1. [k \in 1 .. n |-> IF k < m THEN k ELSE k + 1] \in [1 .. n -> 1 .. (n + 1)]
    BY <1>1
  <2>. QED
    BY <2>1
<1>11. \A k \in 1 .. n : x[place[k]] = s[k]
  BY <1>1, <1>9, <1>10
<1>12. \A k, j \in 1 .. n : k < j => place[k] < place[j]
  BY <1>1, <1>10
<1>13. ASSUME NEW k \in 1 .. (n + 1), k # m PROVE \E j \in 1 .. n : k = place[j]
  <2>1. CASE k < m
    <3>1. k \in 1 .. n /\ k = place[k]
      BY <1>1, <1>10, <2>1
    <3>. QED
      BY <3>1
  <2>2. CASE k > m
    <3>1. k - 1 \in 1 .. n /\ k = place[k - 1]
      BY <1>1, <1>10, <2>2
    <3>. QED
      BY <3>1
  <2>. QED
    BY <1>13, <2>1, <2>2
<1>14. x[m] = e /\ DOMAIN x = 1 .. (n + 1)
  BY <1>1, <1>9
<1>. QED
  <2>1. place \in Places(s, m, x)
    BY <1>1, <1>10, <1>11, <1>12, <1>13 DEF Places
  <2>. QED
    BY <1>1, <1>8, <1>9, <1>14, <2>1

\* A follower who knows as much as before, of an inbox that has not shrunk.
LEMMA KnowsStill ==
  ASSUME NEW p \in Requests, NEW u, asks[p].user = u, asks'[p].user = u,
         \A k \in Inbox(u)' : Newer(u, k)' \in Nat,
         \A k \in Inbox(u)' :
           \/ Known(p, posted[k])'
           \/ \E j \in Inbox(u) : /\ Newer(u, j) \in Nat /\ Newer(u, j) <= Newer(u, k)'
                                  /\ Known(p, posted[j]) => Known(p, posted[k])',
         NEW n \in Int
  PROVE  /\ KnownTo(p, n) => KnownTo(p, n)'
         /\ (\A k \in Inbox(u) : Known(p, posted[k])) => \A k \in Inbox(u)' : Known(p, posted[k])'
<1>1. ASSUME KnownTo(p, n), NEW k \in Inbox(u)', Newer(u, k)' < n
      PROVE  Known(p, posted[k])'
  <2>1. ASSUME NEW j \in Inbox(u), Newer(u, j) \in Nat, Newer(u, j) <= Newer(u, k)',
               Known(p, posted[j]) => Known(p, posted[k])'
        PROVE  Known(p, posted[k])'
    <3>1. Newer(u, j) < n
      BY <1>1, <2>1
    <3>2. Known(p, posted[j])
      BY <1>1, <3>1 DEF KnownTo
    <3>. QED
      BY <2>1, <3>2
  <2>. QED
    BY <1>1, <2>1
<1>2. KnownTo(p, n) => KnownTo(p, n)'
  BY <1>1 DEF KnownTo
<1>. QED
  BY <1>2

\* The order, in a step that posts nothing.
LEMMA OrderStays ==
  ASSUME RowInv, InOrder, RowInv', NEW q \in Requests, StepOf(q), Tidy(q), posted' = posted,
         at[q] = "insert" /\ asks[q].service = "notifications" => rows' = rows,
         at'[q] = "save" =>
           /\ asks'[q] = asks[q] /\ rows' = rows
           /\ Target(q) \in Ids /\ IsIn(Target(q), asks[q].service)
  PROVE  InOrder'
<1>1. ASSUME NEW i \in Range(posted)
      PROVE  (rows[i] # NoRow /\ (Exists(i) => rows[i].table = "notifications"))'
  <2>1. i \in Ids /\ rows[i] # NoRow /\ (Exists(i) => rows[i].table = "notifications")
    BY DEF InOrder, Range
  <2>2. rows'[i] # NoRow
    BY <2>1, TidyKeeps
  <2>3. CASE i = Target(q) /\ at[q] \in {"insert", "save"} /\ rows'[i].table = asks[q].service
    <3>1. at[q] = "save"
      BY <2>1, <2>3 DEF RowInv, Creates, Unborn
    <3>. QED
      BY <2>2, <2>3, <3>1 DEF InOrder
  <2>. QED
    BY <2>1, <2>2, <2>3, RowTypes DEF Tidy, Exists
<1>2. ASSUME NEW i \in Ids, IsIn(i, "notifications")'
      PROVE  i \in Range(posted)
  <2>1. rows'[i] \in RowType /\ rows'[i].table = "notifications"
    BY <1>2, RowTypes DEF RowInv, Types, IsIn, Exists
  <2>2. CASE rows[i] \in RowType /\ rows[i].table = "notifications"
    BY <2>2, RowTypes DEF InOrder, IsIn, Exists
  <2>3. CASE i = Target(q) /\ at[q] \in {"insert", "save"} /\ rows'[i].table = asks[q].service
    BY <2>1, <2>2, <2>3 DEF InOrder
  <2>. QED
    BY <2>1, <2>2, <2>3, RowTypes DEF Tidy
<1>3. ASSUME NEW p \in Requests, at'[p] = "save"
      PROVE  (Target(p) \in Range(posted) <=> asks[p].service = "notifications")'
  <2>1. CASE p = q
    BY <1>3, <2>1 DEF InOrder, IsIn, Target
  <2>2. CASE p \in Others(q)
    BY <1>3, <2>2 DEF InOrder, StepOf, Target
  <2>. QED
    BY <2>1, <2>2 DEF Others
<1>. QED
  BY <1>1, <1>2, <1>3 DEF InOrder

\* The inbox of a follower that has not shrunk, in a step that posts nothing.
LEMMA SameInbox ==
  ASSUME InOrder, Shrinks, posted' = posted, NEW p \in Requests \ shrunk', Follows(p),
         NEW u, u = asks[p].user
  PROVE  /\ Inbox(u)' = Inbox(u) /\ \A k : Newer(u, k)' = Newer(u, k)
         /\ p \notin shrunk
<1>1. \A k \in DOMAIN posted : posted[k] \in Ids /\ rows[posted[k]] # NoRow
  BY DEF InOrder, Range
<1>2. \A i \in Ids : Owner[i] = u /\ rows[i] # NoRow => (Exists(i) <=> Exists(i)')
  BY DEF Shrinks, Exists
<1>3. Inbox(u)' = Inbox(u)
  BY <1>1, <1>2 DEF Inbox
<1>. QED
  BY <1>3 DEF Newer, Shrinks

\* A follower in a step of another request that posts nothing.
LEMMA FollowerStays ==
  ASSUME RowInv, InboxInv, Shrinks, posted' = posted,
         NEW p \in Requests, asks'[p] = asks[p], at'[p] = at[p],
         Follows(p) => copy'[p] \in Pages /\ copy'[p].page = copy[p].page,
         Follows(p) => \A i \in Ids : Owner[i] = asks[p].user /\ Known(p, i) => Known(p, i)'
  PROVE  Follower(p)'
<1>1. CASE ~Follows(p)
  BY <1>1, Whereabouts DEF Follower, Follows, Asks
<1>2. CASE Follows(p) /\ p \in shrunk'
  BY <1>2 DEF InboxInv, Follower, Follows, Asks
<1>3. CASE Follows(p) /\ p \notin shrunk'
  <2>1. PICK u \in Users : u = asks[p].user
    BY <1>3 DEF InboxInv, Follower
  <2>2. /\ Inbox(u)' = Inbox(u) /\ \A k : Newer(u, k)' = Newer(u, k)
        /\ p \notin shrunk
    BY <1>3, <2>1, SameInbox DEF InboxInv
  <2>3. posted \in Seq(Ids) /\ InOrder
    BY DEF InboxInv, InOrder
  <2>4. \A k \in Inbox(u) : Newer(u, k) \in Nat
    BY <2>3, InboxIsFinite
  <2>5. \A k \in Inbox(u) : posted[k] \in Ids /\ Owner[posted[k]] = u
    BY <2>3 DEF Inbox
  <2>6. \A k \in Inbox(u) : Known(p, posted[k]) => Known(p, posted[k])'
    <3>1. ASSUME NEW k \in Inbox(u), Known(p, posted[k]) PROVE Known(p, posted[k])'
      <4>1. PICK i \in Ids : i = posted[k]
        BY <2>5
      <4>2. Known(p, i)'
        BY <1>3, <2>1, <2>5, <3>1, <4>1
      <4>. QED
        BY <4>1, <4>2 DEF Known
    <3>. QED
      BY <3>1
  <2>7. \A n \in Int : KnownTo(p, n) => KnownTo(p, n)'
    <3>1. ASSUME NEW n \in Int PROVE KnownTo(p, n) => KnownTo(p, n)'
      BY <2>1, <2>2, <2>4, <2>6, KnowsStill
    <3>. QED
      BY <3>1
  <2>8. (\A k \in Inbox(u) : Known(p, posted[k])) => \A k \in Inbox(u)' : Known(p, posted[k])'
    BY <2>2, <2>6
  <2>9. copy[p] \in Pages
    BY <1>3 DEF InboxInv, Follower
  <2>10. PICK m \in Int, n \in Int : m = (copy[p].page - 1) * PageSize /\ n = copy[p].page * PageSize
    <3>1. PICK page \in Nat : page = copy[p].page
      BY <2>9 DEF Pages
    <3>2. (page - 1) * PageSize \in Int /\ page * PageSize \in Int
      BY PageSizeAssumption
    <3>. QED
      BY <3>1, <3>2
  <2>11. /\ (copy[p].page - 1) * PageSize = m /\ copy[p].page * PageSize = n
         /\ (copy'[p].page - 1) * PageSize = m /\ copy'[p].page * PageSize = n
    BY <1>3, <2>10
  <2>12. at[p] = "rows" => KnownTo(p, m)'
    BY <2>2, <2>7, <2>11 DEF InboxInv, Follower
  <2>13. at[p] = "count" => KnownTo(p, n)'
    BY <2>2, <2>7, <2>11 DEF InboxInv, Follower
  <2>14. at[p] = "watch" => \A k \in Inbox(asks[p].user)' : Known(p, posted[k])'
    BY <2>1, <2>2, <2>8 DEF InboxInv, Follower
  <2>. QED
    BY <1>3, <2>1, <2>11, <2>12, <2>13, <2>14 DEF Follower, KnownTo
<1>. QED
  BY <1>1, <1>2, <1>3

\* A step of the other requests, and of those that follow no more.
LEMMA FollowersStay ==
  ASSUME RowInv, InboxInv, RowInv', NEW q \in Requests, StepOf(q), Shrinks, posted' = posted,
         at[q] # "emit", InOrder', Follower(q)'
  PROVE  InboxInv'
<1>1. ASSUME NEW p \in Others(q) PROVE Follower(p)'
  <2>1. p \in Requests /\ p # q /\ asks'[p] = asks[p] /\ at'[p] = at[p] /\ copy'[p] = copy[p]
    BY <1>1 DEF StepOf, Others
  <2>2. Follows(p) => copy'[p] \in Pages /\ copy'[p].page = copy[p].page
    BY <2>1 DEF InboxInv, Follower
  <2>3. \A i \in Ids : Known(p, i) => Known(p, i)'
    <3>1. ASSUME NEW r \in Requests, at[r] = "emit" PROVE at'[r] = "emit" /\ Target(r)' = Target(r)
      BY <3>1 DEF StepOf, Others, Target
    <3>. QED
      BY <2>1, <3>1 DEF Known
  <2>. QED
    BY <2>1, <2>2, <2>3, FollowerStays
<1>. QED
  BY <1>1 DEF InboxInv, Shrinks, Others

LEMMA FollowsNoMore ==
  ASSUME RowInv', NEW q \in Requests, asks'[q] = Nothing \/ asks'[q].kind # "follow"
  PROVE  Follower(q)'
BY WhereaboutsNext, NoneAsked DEF Follower, Follows, Asks

LEMMA OtherInbox ==
  ASSUME RowInv, InboxInv, RowInv', NEW q \in Requests, NEW S, StepIn(q, S), S \subseteq Services,
         "notifications" \notin S, "flows" \notin S, posted' = posted, Shrinks
  PROVE  InboxInv'
<1>1. asks[q].service # "notifications" /\ asks'[q].service \notin {"notifications", "flows"}
  BY NoneAsked DEF StepIn
<1>2. at[q] # "emit"
  BY <1>1, Whereabouts
<1>3. at'[q] # "save"
  <2>1. Stage(q)'
    BY DEF RowInv, Stages
  <2>. QED
    BY <1>1, <2>1, NoneAsked DEF Stage, Fits, Is, Ended
<1>4. InOrder'
  BY <1>1, <1>3, OrderStays DEF StepIn, InboxInv
<1>5. Follower(q)'
  BY <1>1, WhereaboutsNext DEF Follower, Follows, Asks
<1>. QED
  BY <1>2, <1>4, <1>5, FollowersStay DEF StepIn

LEMMA LostInbox ==
  ASSUME RowInv, InboxInv, NEW q \in Requests, CallLost(q), posted' = posted, Shrinks
  PROVE  InboxInv'
<1>1. RowInv' /\ StepOf(q) /\ Tidy(q) /\ rows' = rows /\ at'[q] = "rejected" /\ asks'[q] = Nothing
  BY LostRows DEF StepIn, Quiet
<1>2. at[q] # "emit"
  BY DEF CallLost, Calls
<1>3. InOrder'
  BY <1>1, OrderStays DEF InboxInv
<1>. QED
  BY <1>1, <1>2, <1>3, FollowsNoMore, FollowersStay

LEMMA FlowInbox ==
  ASSUME RowInv, HistoryInv, InboxInv, NEW q \in Requests, FlowStep(q), posted' = posted, Shrinks
  PROVE  InboxInv'
<1>1. RowInv' /\ StepIn(q, {"flows"})
  BY FlowRows
<1>2. asks[q].service # "notifications" /\ asks'[q].service # "notifications"
  BY <1>1, NoneAsked DEF StepIn
<1>3. at[q] # "emit"
  BY <1>2, Whereabouts
<1>4. asks \in [Requests -> AskType] /\ at \in [Requests -> Awaits]
  BY DEF RowInv, Types
<1>5. at'[q] = "save" => FindOwn(q, Target(q), "save") /\ asks[q].service = "flows" /\ asks[q].kind = "update"
  <2>1. CASE FindFlow(q)
    BY <1>4, <2>1 DEF FindFlow, FindOwn, Goto, Answer, Asks
  <2>2. CASE ReceiveFlow(q) \/ CreateFlow(q) \/ UpdateFlow(q) \/ RemoveFlow(q)
    BY <1>4, <2>2 DEF ReceiveFlow, Receive, CreateFlow, InsertRow, UpdateFlow, SaveRow, RemoveFlow, DeleteRow, Goto, Answer
  <2>3. CASE CreateHistory(q) \/ FindHistory(q) \/ FindFlowOfHistory(q) \/ RemoveHistory(q)
    BY <1>4, <2>3 DEF CreateHistory, FindHistory, FindFlowOfHistory, FindOwn, RemoveHistory, Goto, Answer
  <2>. QED
    BY <2>1, <2>2, <2>3 DEF FlowStep
<1>6. at'[q] = "save" =>
        /\ asks'[q] = asks[q] /\ rows' = rows
        /\ Target(q) \in Ids /\ IsIn(Target(q), asks[q].service)
  BY <1>4, <1>5 DEF FindOwn, Answer, Goto, Stays, RowInv, Found, Tables
<1>7. InOrder'
  BY <1>1, <1>2, <1>6, OrderStays DEF StepIn, InboxInv
<1>8. Follower(q)'
  BY <1>1, <1>2, WhereaboutsNext DEF Follower, Follows, Asks
<1>. QED
  BY <1>1, <1>3, <1>7, <1>8, FollowersStay DEF StepIn

\* A follower reads a page, and their number.
LEMMA PageInbox ==
  ASSUME RowInv, InboxInv, RowInv', NEW q \in Requests, StepOf(q), Tidy(q), Shrinks,
         FindPage(q) \/ CountRows(q)
  PROVE  InboxInv'
<1>1. /\ asks \in [Requests -> AskType] /\ at \in [Requests -> Awaits] /\ DOMAIN copy = Requests
      /\ posted \in Seq(Ids) /\ InOrder
  BY DEF RowInv, Types, InboxInv, InOrder
<1>2. /\ at[q] \in {"rows", "count"} /\ at'[q] \in {"rows", "count", "watch"}
      /\ rows' = rows /\ asks' = asks /\ posted' = posted
  BY <1>1 DEF FindPage, CountRows, Goto, Stays
<1>3. InOrder'
  <2>1. at[q] # "insert" /\ at'[q] # "save"
    BY <1>2
  <2>. QED
    BY <1>1, <1>2, <2>1, OrderStays
<1>4. Follows(q) /\ copy[q] \in Pages /\ asks[q].user \in Users
  BY <1>2, Whereabouts DEF InboxInv, Follower
<1>5. PICK u \in Users, page \in Nat \ {0} : u = asks[q].user /\ page = copy[q].page
  BY <1>4 DEF Pages
<1>6. PICK from \in Int : from = (page - 1) * PageSize
  BY PageSizeAssumption
<1>7. page * PageSize = from + PageSize /\ ((page + 1) - 1) * PageSize = from + PageSize
  BY <1>6, PageSizeAssumption
<1>8. \A k \in Inbox(u) : posted[k] \in Ids /\ Newer(u, k) \in Nat
  <2>1. \A k \in Inbox(u) : Newer(u, k) \in Nat
    BY <1>1, InboxIsFinite
  <2>2. \A k \in Inbox(u) : posted[k] \in Ids
    BY <1>1 DEF Inbox
  <2>. QED
    BY <2>1, <2>2
<1>9. Inbox(u)' = Inbox(u) /\ \A k : Newer(u, k)' = Newer(u, k)
  <2>1. Inbox(u)' = Inbox(u)
    BY <1>2 DEF Inbox, Exists
  <2>. QED
    BY <2>1 DEF Newer
<1>10. q \notin shrunk' => q \notin shrunk
  BY <1>4 DEF Shrinks
<1>11. CASE FindPage(q)
  <2>1. /\ at[q] = "rows" /\ at'[q] = "count"
        /\ copy' = [copy EXCEPT ![q].seen = @ \cup Page(u, page)]
    BY <1>1, <1>5, <1>11 DEF FindPage, Goto
  <2>2. Page(u, page) \subseteq Ids
    BY <1>8 DEF Page, Taken
  <2>3. /\ copy'[q] \in Pages /\ copy'[q].page = page
        /\ copy'[q].seen = copy[q].seen \cup Page(u, page)
    BY <1>1, <1>4, <1>5, <2>1, <2>2 DEF Pages
  <2>4. ASSUME q \notin shrunk, NEW k \in Inbox(u), Newer(u, k) < from + PageSize
        PROVE  Known(q, posted[k])'
    <3>1. CASE Newer(u, k) < from
      <4>1. Known(q, posted[k])
        BY <1>5, <1>6, <2>1, <2>4, <3>1 DEF InboxInv, Follower, KnownTo
      <4>2. \A r \in Requests : at[r] = "emit" => at'[r] = "emit" /\ Target(r)' = Target(r)
        BY <1>2, <2>1 DEF StepOf, Others, Target
      <4>. QED
        BY <1>2, <2>3, <4>1, <4>2 DEF Known
    <3>2. CASE Newer(u, k) >= from
      <4>1. Newer(u, k) \in from .. (from + PageSize - 1)
        BY <1>8, <2>4, <3>2, PageSizeAssumption
      <4>2. posted[k] \in Page(u, page)
        BY <1>6, <2>4, <4>1 DEF Page, Taken
      <4>. QED
        BY <1>2, <2>3, <4>2 DEF Known
    <3>. QED
      BY <1>6, <1>8, <2>4, <3>1, <3>2
  <2>5. q \notin shrunk' => KnownTo(q, page * PageSize)'
    BY <1>2, <1>5, <1>7, <1>9, <1>10, <2>3, <2>4 DEF KnownTo
  <2>6. Follower(q)'
    BY <1>2, <1>4, <2>1, <2>3, <2>5 DEF Follower
  <2>. QED
    BY <1>2, <1>3, <2>6, FollowersStay
<1>12. CASE CountRows(q)
  <2>1. /\ at[q] = "count"
        /\ IF HasNext(u, page)
           THEN at'[q] = "rows" /\ copy' = [copy EXCEPT ![q].page = @ + 1]
           ELSE at'[q] = "watch" /\ copy' = copy
    BY <1>1, <1>5, <1>12 DEF CountRows, Goto
  <2>2. /\ copy'[q] \in Pages /\ copy'[q].seen = copy[q].seen
        /\ copy'[q].page = IF HasNext(u, page) THEN page + 1 ELSE page
    BY <1>1, <1>4, <1>5, <2>1 DEF Pages
  <2>3. ASSUME q \notin shrunk, NEW k \in Inbox(u), Newer(u, k) < from + PageSize
        PROVE  Known(q, posted[k])'
    <3>1. Known(q, posted[k])
      BY <1>5, <1>7, <2>1, <2>3 DEF InboxInv, Follower, KnownTo
    <3>2. \A r \in Requests : at[r] = "emit" => at'[r] = "emit" /\ Target(r)' = Target(r)
      BY <1>2, <2>1 DEF StepOf, Others, Target
    <3>. QED
      BY <1>2, <2>2, <3>1, <3>2 DEF Known
  <2>4. CASE HasNext(u, page)
    <3>1. q \notin shrunk' => KnownTo(q, (copy[q].page - 1) * PageSize)'
      BY <1>2, <1>5, <1>7, <1>9, <1>10, <2>2, <2>3, <2>4 DEF KnownTo
    <3>2. Follower(q)'
      BY <1>2, <1>4, <2>1, <2>2, <2>4, <3>1 DEF Follower
    <3>. QED
      BY <1>2, <1>3, <3>2, FollowersStay
  <2>5. CASE ~HasNext(u, page)
    <3>1. ASSUME NEW k \in Inbox(u) PROVE Newer(u, k) < from + PageSize
      <4>1. /\ IsFiniteSet(Inbox(u)) /\ Cardinality(Inbox(u)) \in Nat
            /\ {m \in Inbox(u) : m > k} \subseteq Inbox(u) \ {k}
        <5>1. Inbox(u) \subseteq Int
          BY <1>1 DEF Inbox
        <5>2. IsFiniteSet(Inbox(u))
          BY <1>1, InboxIsFinite
        <5>. QED
          BY <5>1, <5>2, FS_CardinalityType
      <4>2. /\ IsFiniteSet(Inbox(u) \ {k})
            /\ Cardinality(Inbox(u) \ {k}) = Cardinality(Inbox(u)) - 1
        BY <4>1, <3>1, FS_RemoveElement
      <4>3. PICK S : S = {m \in Inbox(u) : m > k}
        OBVIOUS
      <4>4. Cardinality(S) <= Cardinality(Inbox(u) \ {k})
        BY <4>1, <4>2, <4>3, FS_Subset
      <4>5. Cardinality(Inbox(u)) <= from + PageSize
        BY <1>6, <1>7, <2>5, <4>1, PageSizeAssumption DEF HasNext
      <4>. QED
        BY <1>6, <1>8, <3>1, <4>1, <4>2, <4>3, <4>4, <4>5, PageSizeAssumption DEF Newer
    <3>2. q \notin shrunk' => \A k \in Inbox(u)' : Known(q, posted[k])'
      BY <1>9, <1>10, <2>3, <3>1
    <3>3. Follower(q)'
      BY <1>2, <1>4, <1>5, <2>1, <2>2, <2>5, <3>2 DEF Follower
    <3>. QED
      BY <1>2, <1>3, <3>3, FollowersStay
  <2>. QED
    BY <2>4, <2>5
<1>. QED
  BY <1>11, <1>12

\* A notification is inserted, and its event is still to be emitted.
LEMMA PostedInbox ==
  ASSUME RowInv, InboxInv, RowInv', NEW q \in Requests, StepOf(q), Shrinks,
         NEW row, row \in RowType, row.table = "notifications", Writes(q, row),
         at[q] = "insert", at'[q] = "emit", asks'[q] = asks[q],
         Target(q) \in Ids, rows[Target(q)] = NoRow,
         NEW m \in 1 .. (Len(posted) + 1), posted' = InsertAt(posted, m, Target(q))
  PROVE  InboxInv'
<1>1. /\ posted \in Seq(Ids) /\ IsInjective(posted)
      /\ \A i \in Range(posted) : rows[i] # NoRow /\ (Exists(i) => rows[i].table = "notifications")
      /\ rows \in [Ids -> RowType \cup {NoRow, Gone}] /\ DOMAIN copy = Requests
  BY DEF InboxInv, InOrder, RowInv, Types
<1>2. PICK i \in Ids, n \in Nat : i = Target(q) /\ n = Len(posted)
  BY <1>1
<1>3. /\ DOMAIN posted = 1 .. n /\ DOMAIN posted' = 1 .. (n + 1)
      /\ posted' \in Seq(Ids) /\ m \in 1 .. (n + 1) /\ posted'[m] = i
  <2>1. /\ posted' \in Seq(Ids) /\ DOMAIN posted' = 1 .. (Len(posted) + 1)
        /\ posted'[m] = Target(q)
    BY <1>1, InsertedAt
  <2>. QED
    BY <1>1, <1>2, <2>1
<1>4. PICK place \in [1 .. n -> 1 .. (n + 1)] :
        /\ \A k \in 1 .. n : posted'[place[k]] = posted[k]
        /\ \A k, j \in 1 .. n : k < j => place[k] < place[j]
        /\ \A k \in 1 .. (n + 1) : k = m \/ \E j \in 1 .. n : k = place[j]
  <2>1. Places(posted, m, posted') # {}
    BY <1>1, InsertedAt
  <2>. QED
    BY <1>2, <2>1 DEF Places
<1>5. /\ \A k \in 1 .. n : posted[k] \in Ids /\ posted[k] # i
      /\ Range(posted) = {posted[k] : k \in 1 .. n} /\ Range(posted') = Range(posted) \cup {i}
      /\ i \notin Range(posted)
  <2>1. Range(posted) = {posted[k] : k \in 1 .. n}
    BY <1>3 DEF Range
  <2>2. i \notin Range(posted)
    BY <1>1, <1>2
  <2>3. \A k \in 1 .. n : posted[k] \in Ids /\ posted[k] # i
    BY <1>1, <1>3, <2>1, <2>2
  <2>4. Range(posted') = Range(posted) \cup {i}
    <3>1. ASSUME NEW x \in Range(posted') PROVE x \in Range(posted) \cup {i}
      <4>1. PICK k \in 1 .. (n + 1) : x = posted'[k]
        BY <1>3 DEF Range
      <4>2. k = m \/ \E j \in 1 .. n : k = place[j]
        BY <1>4
      <4>. QED
        BY <1>3, <1>4, <2>1, <4>1, <4>2
    <3>2. ASSUME NEW x \in Range(posted) PROVE x \in Range(posted')
      <4>1. PICK k \in 1 .. n : x = posted[k]
        BY <2>1
      <4>2. place[k] \in 1 .. (n + 1) /\ x = posted'[place[k]]
        BY <1>4, <4>1
      <4>. QED
        BY <1>3, <4>2 DEF Range
    <3>3. i \in Range(posted')
      BY <1>3 DEF Range
    <3>. QED
      BY <3>1, <3>2, <3>3
  <2>. QED
    BY <2>1, <2>2, <2>3, <2>4
<1>6. /\ rows'[i] = row /\ \A j \in Ids \ {i} : rows'[j] = rows[j]
  BY <1>1, <1>2 DEF Writes
<1>7. row # NoRow
  BY RowTypes
<1>8. InOrder'
  <2>1. IsInjective(posted')
    <3>1. ASSUME NEW x \in 1 .. (n + 1), NEW y \in 1 .. (n + 1), posted'[x] = posted'[y]
          PROVE  x = y
      <4>1. x = m \/ \E j \in 1 .. n : x = place[j]
        BY <1>4
      <4>2. y = m \/ \E j \in 1 .. n : y = place[j]
        BY <1>4
      <4>3. \A a, b \in 1 .. n : posted[a] = posted[b] => a = b
        BY <1>1, <1>3 DEF IsInjective
      <4>4. CASE x = m /\ y = m
        BY <4>4
      <4>5. CASE x = m /\ \E j \in 1 .. n : y = place[j]
        BY <1>3, <1>4, <1>5, <3>1, <4>5
      <4>6. CASE y = m /\ \E j \in 1 .. n : x = place[j]
        BY <1>3, <1>4, <1>5, <3>1, <4>6
      <4>7. ASSUME NEW c \in 1 .. n, NEW d \in 1 .. n, x = place[c], y = place[d] PROVE x = y
        BY <1>4, <3>1, <4>3, <4>7
      <4>. QED
        BY <4>1, <4>2, <4>4, <4>5, <4>6, <4>7
    <3>. QED
      BY <1>3, <3>1 DEF IsInjective
  <2>2. \A j \in Range(posted') : rows'[j] # NoRow /\ (Exists(j)' => rows'[j].table = "notifications")
    <3>1. Range(posted) \subseteq Ids
      BY <1>5
    <3>. QED
      BY <1>1, <1>5, <1>6, <1>7, <3>1 DEF Exists
  <2>3. \A j \in Ids : IsIn(j, "notifications")' => j \in Range(posted')
    BY <1>5, <1>6 DEF InboxInv, InOrder, IsIn, Exists
  <2>4. ASSUME NEW p \in Requests, at'[p] = "save"
        PROVE  (Target(p) \in Range(posted) <=> asks[p].service = "notifications")'
    <3>1. p \in Others(q) /\ at[p] = "save" /\ asks'[p] = asks[p]
      BY <2>4 DEF StepOf, Others
    <3>2. Stage(p) /\ Found(p)
      BY <3>1 DEF RowInv, Stages
    <3>3. rows[Target(p)] # NoRow
      BY <3>1, <3>2 DEF Stage, Fits, Is, Found, Tables, Ended
    <3>. QED
      BY <1>2, <1>5, <3>1, <3>3 DEF InboxInv, InOrder, Target
  <2>. QED
    BY <1>3, <2>1, <2>2, <2>3, <2>4 DEF InOrder
<1>9. ASSUME NEW p \in Others(q) PROVE Follower(p)'
  <2>1. /\ p \in Requests /\ p # q /\ asks'[p] = asks[p] /\ at'[p] = at[p] /\ copy'[p] = copy[p]
        /\ Follower(p)
    BY <1>9 DEF StepOf, Others, InboxInv
  <2>2. CASE ~Follows(p)
    BY <2>1, <2>2, Whereabouts DEF Follower, Follows, Asks
  <2>3. CASE Follows(p) /\ p \in shrunk'
    BY <2>1, <2>3 DEF Follower, Follows, Asks
  <2>4. CASE Follows(p) /\ p \notin shrunk'
    <3>1. PICK u \in Users : u = asks[p].user
      BY <2>1, <2>4 DEF Follower
    <3>2. /\ p \notin shrunk
          /\ \A k \in 1 .. n : posted[k] \in Ids /\ posted[k] # i
      BY <1>5, <2>1, <2>4 DEF Shrinks
    <3>3. Inbox(u) \subseteq 1 .. n /\ Inbox(u)' \subseteq 1 .. (n + 1)
      BY <1>3 DEF Inbox
    <3>4. \A k \in 1 .. n : place[k] \in Inbox(u)' <=> k \in Inbox(u)
      <4>1. ASSUME NEW k \in 1 .. n PROVE place[k] \in Inbox(u)' <=> k \in Inbox(u)
        <5>1. /\ place[k] \in 1 .. (n + 1) /\ posted'[place[k]] = posted[k]
              /\ rows'[posted[k]] = rows[posted[k]]
          BY <1>4, <1>6, <3>2
        <5>. QED
          BY <1>3, <5>1 DEF Inbox, Exists
      <4>. QED
        BY <4>1
    <3>5. \A k \in Inbox(u)' : k = m \/ \E j \in Inbox(u) : k = place[j]
      <4>1. ASSUME NEW k \in Inbox(u)', k # m PROVE \E j \in Inbox(u) : k = place[j]
        <5>1. PICK j \in 1 .. n : k = place[j]
          BY <1>4, <3>3, <4>1
        <5>2. j \in Inbox(u)
          BY <3>4, <4>1, <5>1
        <5>. QED
          BY <5>1, <5>2
      <4>. QED
        BY <4>1
    <3>6. \A k : Newer(u, k) \in Nat /\ Newer(u, k)' \in Nat
      <4>1. \A k : Newer(u, k) \in Nat
        BY <1>1, InboxIsFinite
      <4>2. IsFiniteSet(1 .. (n + 1))
        BY <1>2, FS_Interval
      <4>3. ASSUME NEW k PROVE Newer(u, k)' \in Nat
        <5>1. {x \in Inbox(u)' : x > k} \in SUBSET (1 .. (n + 1))
          BY <3>3
        <5>. QED
          BY <4>2, <5>1, FS_Subset, FS_CardinalityType DEF Newer
      <4>. QED
        BY <4>1, <4>3
    <3>7. ASSUME NEW k \in Inbox(u) PROVE Newer(u, k) <= Newer(u, place[k])'
      <4>1. PICK Big : Big = {x \in Inbox(u)' : x > place[k]}
        OBVIOUS
      <4>2. PICK Small : Small = {x \in Inbox(u) : x > k}
        OBVIOUS
      <4>3. IsFiniteSet(Big)
        <5>1. IsFiniteSet(1 .. (n + 1)) /\ Big \in SUBSET (1 .. (n + 1))
          BY <1>2, <3>3, <4>1, FS_Interval
        <5>. QED
          BY <5>1, FS_Subset
      <4>4. \A x \in Small : place[x] \in Big
        BY <1>4, <3>3, <3>4, <3>7, <4>1, <4>2
      <4>5. PICK move \in [Small -> Big] : \A x \in Small : move[x] = place[x]
        <5>1. [x \in Small |-> place[x]] \in [Small -> Big]
          BY <4>4
        <5>. QED
          BY <5>1
      <4>6. \A x, y \in Small : place[x] = place[y] => x = y
        <5>1. ASSUME NEW x \in Small, NEW y \in Small, place[x] = place[y] PROVE x = y
          <6>1. x \in 1 .. n /\ y \in 1 .. n
            BY <3>3, <4>2, <5>1
          <6>2. ~(x < y) /\ ~(y < x)
            BY <1>4, <5>1, <6>1
          <6>. QED
            BY <1>2, <6>1, <6>2
        <5>. QED
          BY <5>1
      <4>7. move \in Injection(Small, Big)
        BY <4>5, <4>6 DEF Injection, IsInjective
      <4>8. Cardinality(Small) <= Cardinality(Big)
        BY <4>3, <4>7, FS_Injection
      <4>. QED
        BY <4>1, <4>2, <4>8 DEF Newer
    <3>8. Known(p, posted[m])'
      <4>1. at'[q] = "emit" /\ Target(q)' = i
        BY <1>2 DEF Target
      <4>. QED
        BY <1>3, <4>1 DEF Known
    <3>9. ASSUME NEW k \in Inbox(u)
          PROVE  Known(p, posted[k]) => Known(p, posted[place[k]])'
      <4>1. posted'[place[k]] = posted[k]
        BY <1>4, <3>3
      <4>2. \A r \in Requests : at[r] = "emit" => at'[r] = "emit" /\ Target(r)' = Target(r)
        BY DEF StepOf, Others, Target
      <4>. QED
        BY <2>1, <4>1, <4>2 DEF Known
    <3>10. \A k \in Inbox(u)' :
             \/ Known(p, posted[k])'
             \/ \E j \in Inbox(u) : /\ Newer(u, j) \in Nat /\ Newer(u, j) <= Newer(u, k)'
                                    /\ Known(p, posted[j]) => Known(p, posted[k])'
      BY <3>5, <3>6, <3>7, <3>8, <3>9
    <3>11. asks'[p].user = u
      BY <2>1, <3>1
    <3>12. /\ \A x \in Int : KnownTo(p, x) => KnownTo(p, x)'
           /\ (\A k \in Inbox(u) : Known(p, posted[k])) => \A k \in Inbox(u)' : Known(p, posted[k])'
      <4>1. ASSUME NEW x \in Int
            PROVE  /\ KnownTo(p, x) => KnownTo(p, x)'
                   /\ (\A k \in Inbox(u) : Known(p, posted[k])) => \A k \in Inbox(u)' : Known(p, posted[k])'
        BY <2>1, <3>1, <3>6, <3>10, <3>11, KnowsStill
      <4>2. 0 \in Int
        OBVIOUS
      <4>. QED
        BY <4>1, <4>2
    <3>13. copy[p] \in Pages
      BY <2>1, <2>4 DEF Follower
    <3>14. PICK from \in Int, to \in Int :
             from = (copy[p].page - 1) * PageSize /\ to = copy[p].page * PageSize
      <4>1. PICK page \in Nat : page = copy[p].page
        BY <3>13 DEF Pages
      <4>2. (page - 1) * PageSize \in Int /\ page * PageSize \in Int
        BY PageSizeAssumption
      <4>. QED
        BY <4>1, <4>2
    <3>15. /\ at[p] = "rows" => KnownTo(p, from)'
           /\ at[p] = "count" => KnownTo(p, to)'
           /\ at[p] = "watch" => \A k \in Inbox(u)' : Known(p, posted[k])'
      BY <2>1, <3>1, <3>2, <3>12, <3>14 DEF Follower
    <3>16. /\ (copy[p].page - 1) * PageSize = from /\ (copy'[p].page - 1) * PageSize = from
           /\ copy[p].page * PageSize = to /\ copy'[p].page * PageSize = to
      BY <2>1, <3>14
    <3>. QED
      BY <2>1, <2>4, <3>1, <3>11, <3>13, <3>15, <3>16 DEF Follower, KnownTo
  <2>. QED
    BY <2>2, <2>3, <2>4
<1>10. Follower(q)'
  <2>1. ~Follows(q)'
    <3>1. Stage(q)'
      BY DEF RowInv, Stages
    <3>. QED
      BY <3>1 DEF Stage, Fits, Is, Ended, Follows, Asks
  <2>. QED
    BY WhereaboutsNext, <2>1 DEF Follower
<1>. QED
  BY <1>8, <1>9, <1>10 DEF InboxInv, Shrinks, Others

\* The event of a notification reaches the streams of its user.
LEMMA EmittedInbox ==
  ASSUME RowInv, InboxInv, RowInv', NEW q \in Requests, StepOf(q), Tidy(q), Shrinks, Emit(q)
  PROVE  InboxInv'
<1>1. /\ asks \in [Requests -> AskType] /\ at \in [Requests -> Awaits] /\ DOMAIN copy = Requests
      /\ InOrder
  BY DEF RowInv, Types, InboxInv
<1>2. /\ at[q] = "emit" /\ at'[q] = "done" /\ asks'[q] = Nothing /\ posted' = posted /\ rows' = rows
  BY <1>1 DEF Emit, Goto, Stays
<1>3. Stage(q) /\ Creates(q)
  BY DEF RowInv, Stages
<1>4. Target(q) \in Ids /\ asks[q].user = Owner[Target(q)]
  BY <1>2, <1>3 DEF Stage, Fits, Is, Creates, Tables, Ended
<1>5. InOrder'
  BY <1>1, <1>2, OrderStays
<1>6. ASSUME NEW p \in Others(q) PROVE Follower(p)'
  <2>1. /\ p \in Requests /\ p # q /\ asks'[p] = asks[p] /\ at'[p] = at[p]
    BY <1>6 DEF StepOf, Others
  <2>2. copy'[p] = IF Follows(p) /\ asks[p].user = asks[q].user
                   THEN [copy[p] EXCEPT !.seen = @ \cup {Target(q)}] ELSE copy[p]
    BY <2>1 DEF Emit
  <2>3. Follows(p) => /\ copy'[p] \in Pages /\ copy'[p].page = copy[p].page
                      /\ copy[p].seen \subseteq copy'[p].seen
                      /\ asks[p].user = asks[q].user => Target(q) \in copy'[p].seen
    <3>1. ASSUME Follows(p)
          PROVE  /\ copy'[p] \in Pages /\ copy'[p].page = copy[p].page
                 /\ copy[p].seen \subseteq copy'[p].seen
                 /\ asks[p].user = asks[q].user => Target(q) \in copy'[p].seen
      <4>1. copy[p] \in Pages
        BY <2>1, <3>1 DEF InboxInv, Follower
      <4>. QED
        BY <1>4, <2>2, <3>1, <4>1 DEF Pages
    <3>. QED
      BY <3>1
  <2>4. ASSUME Follows(p), NEW i \in Ids, Owner[i] = asks[p].user, Known(p, i)
        PROVE  Known(p, i)'
    <3>1. CASE i \in copy[p].seen \/ i = Target(q)
      BY <1>4, <2>3, <2>4, <3>1 DEF Known
    <3>2. CASE \E r \in Others(q) : at[r] = "emit" /\ Target(r) = i
      BY <3>2 DEF Known, StepOf, Others, Target
    <3>. QED
      BY <2>4, <3>1, <3>2 DEF Known, Others
  <2>. QED
    BY <1>2, <2>1, <2>3, <2>4, FollowerStays
<1>7. Follower(q)'
  BY <1>2, FollowsNoMore
<1>. QED
  BY <1>5, <1>6, <1>7 DEF InboxInv, Shrinks, Others

\* A stream is opened, and the first page is asked for.
LEMMA OpenedInbox ==
  ASSUME RowInv, InboxInv, RowInv', NEW q \in Requests, StepOf(q), Tidy(q), Shrinks, OpenStream(q)
  PROVE  InboxInv'
<1>1. /\ asks \in [Requests -> AskType] /\ at \in [Requests -> Awaits] /\ DOMAIN copy = Requests
      /\ InOrder /\ posted \in Seq(Ids)
  BY DEF RowInv, Types, InboxInv, InOrder
<1>2. PICK u \in Users : Receive(q, Ask("follow", "notifications", u, None, {}), "rows")
  BY DEF OpenStream
<1>3. PICK ask : ask = Ask("follow", "notifications", u, None, {})
  OBVIOUS
<1>4. ask.user = u
  BY <1>3 DEF Ask
<1>5. /\ at[q] = "new" /\ at'[q] = "rows" /\ asks'[q] = ask /\ rows' = rows /\ posted' = posted
  BY <1>1, <1>2, <1>3 DEF OpenStream, Receive, Goto, Stays
<1>6. PICK first : first = [page |-> 1, seen |-> {}]
  OBVIOUS
<1>7. first \in Pages /\ first.page = 1
  BY <1>6 DEF Pages
<1>8. copy'[q] = first
  BY <1>1, <1>6 DEF OpenStream
<1>9. InOrder'
  BY <1>1, <1>5, OrderStays
<1>10. \A k \in Inbox(u)' : Newer(u, k)' \in Nat
  <2>1. Inbox(u)' = Inbox(u)
    BY <1>5 DEF Inbox, Exists
  <2>2. \A k \in Inbox(u) : Newer(u, k) \in Nat
    BY <1>1, InboxIsFinite
  <2>. QED
    BY <2>1, <2>2 DEF Newer
<1>11. (first.page - 1) * PageSize = 0
  BY <1>7, PageSizeAssumption
<1>12. Follower(q)'
  BY <1>4, <1>5, <1>7, <1>8, <1>10, <1>11 DEF Follower, KnownTo
<1>. QED
  BY <1>5, <1>9, <1>12, FollowersStay

\* The steps of notifications.service.ts.
LEMMA NotificationInbox ==
  ASSUME RowInv, InboxInv, NEW q \in Requests, NotificationStep(q), Shrinks
  PROVE  InboxInv'
<1>1. RowInv' /\ StepOf(q) /\ Tidy(q)
  BY NotificationRows DEF StepIn
<1>2. /\ asks \in [Requests -> AskType] /\ at \in [Requests -> Awaits] /\ InOrder
  BY DEF RowInv, Types, InboxInv
\* Most of them post nothing, and are not those of a follower.
<1>3. ASSUME posted' = posted, at[q] # "emit", asks'[q] = Nothing \/ asks'[q].kind # "follow",
             at[q] = "insert" => rows' = rows,
             at'[q] = "save" =>
               /\ asks'[q] = asks[q] /\ rows' = rows
               /\ Target(q) \in Ids /\ IsIn(Target(q), asks[q].service)
      PROVE  InboxInv'
  BY <1>1, <1>2, <1>3, OrderStays, FollowsNoMore, FollowersStay
<1>4. CASE ReceiveNotification(q)
  <2>1. asks'[q].kind # "follow"
    <3>1. ASSUME NEW i \in Ids, Receive(q, Ask("create", "notifications", Owner[i], i, Columns), "insert")
          PROVE  asks'[q].kind # "follow"
      BY <1>2, <3>1 DEF Receive, Ask
    <3>2. ASSUME NEW i \in Ids, NEW u \in Users, NEW columns \in {{"text"}, {"mark"}},
                 Receive(q, Ask("update", "notifications", u, i, columns), "find")
          PROVE  asks'[q].kind # "follow"
      BY <1>2, <3>2 DEF Receive, Ask
    <3>3. ASSUME NEW i \in Ids, NEW u \in Users,
                 Receive(q, Ask("remove", "notifications", u, i, {}), "delete")
          PROVE  asks'[q].kind # "follow"
      BY <1>2, <3>3 DEF Receive, Ask
    <3>. QED
      BY <1>4, <3>1, <3>2, <3>3 DEF ReceiveNotification
  <2>2. posted' = posted /\ at[q] = "new" /\ at'[q] # "save"
    BY <1>2, <1>4 DEF ReceiveNotification, Receive, Goto
  <2>. QED
    BY <1>3, <2>1, <2>2
<1>5. CASE CreateNotification(q)
  <2>1. PICK row : row = Row("notifications", q)
    OBVIOUS
  <2>2. row \in RowType /\ row.table = "notifications"
    BY <2>1, RowTypes, NewRow DEF Tables
  <2>3. InsertRow(q, row, "emit") /\ at[q] = "insert" /\ Is(asks[q], "create", "notifications")
    BY <1>5, <2>1 DEF CreateNotification, InsertRow, Asks, Is
  <2>4. /\ Target(q) \in Ids /\ rows[Target(q)] = NoRow
        /\ \/ /\ Quiet(q) /\ at'[q] = "rejected" /\ asks'[q] = Nothing /\ asks[q].user \notin users
           \/ /\ Writes(q, row) /\ asks[q].user \in users /\ at'[q] = "emit" /\ asks'[q] = asks[q]
    BY <2>2, <2>3, InsertRows DEF Is, Tables
  <2>5. CASE Quiet(q) /\ at'[q] = "rejected" /\ asks'[q] = Nothing /\ asks[q].user \notin users
    BY <1>3, <1>5, <2>3, <2>5 DEF CreateNotification, Quiet
  <2>6. CASE Writes(q, row) /\ asks[q].user \in users /\ at'[q] = "emit" /\ asks'[q] = asks[q]
    <3>1. PICK k \in 1 .. (Len(posted) + 1) : posted' = InsertAt(posted, k, Target(q))
      BY <1>5, <2>6 DEF CreateNotification
    <3>. QED
      BY <1>1, <2>2, <2>3, <2>4, <2>6, <3>1, PostedInbox
  <2>. QED
    BY <2>4, <2>5, <2>6
<1>6. CASE FindNotification(q)
  <2>1. /\ asks[q].service = "notifications" /\ asks[q].kind = "update" /\ at[q] = "find"
        /\ FindOwn(q, Target(q), "save") /\ posted' = posted
    BY <1>6 DEF FindNotification, FindOwn, Asks
  <2>2. Target(q) \in Ids
    BY <2>1 DEF RowInv, Found, Tables
  <2>3. /\ rows' = rows /\ (asks'[q] = asks[q] \/ asks'[q] = Nothing)
        /\ at'[q] = "save" => asks'[q] = asks[q] /\ IsIn(Target(q), asks[q].service)
    BY <1>2, <2>1 DEF FindOwn, Stays, Answer, Goto
  <2>. QED
    BY <1>3, <2>1, <2>2, <2>3
<1>7. CASE CloseStream(q) \/ SaveNotification(q) \/ DeleteNotification(q)
  <2>1. posted' = posted /\ asks'[q] = Nothing /\ at'[q] # "save"
    BY <1>2, <1>7 DEF CloseStream, SaveNotification, SaveRow, DeleteNotification, DeleteRow, Answer, Goto
  <2>2. at[q] \notin {"emit", "insert"}
    <3>1. Stage(q)
      BY DEF RowInv, Stages
    <3>. QED
      BY <1>7, <3>1 DEF CloseStream, SaveNotification, SaveRow, DeleteNotification, Follows, Asks, Stage, Fits, Is, Ended
  <2>. QED
    BY <1>3, <2>1, <2>2
<1>. QED
  BY <1>1, <1>4, <1>5, <1>6, <1>7, PageInbox, EmittedInbox, OpenedInbox DEF NotificationStep

LEMMA LapseInbox ==
  ASSUME RowInv, InboxInv, UNCHANGED <<ovars, posted>>, Shrinks \/ shrunk' = shrunk
  PROVE  InboxInv'
<1>1. InOrder'
  BY DEF InboxInv, InOrder, IsIn, Exists, Target, ovars
<1>2. ASSUME NEW q \in Requests PROVE Follower(q)'
  <2>1. \A u : Inbox(u)' = Inbox(u) /\ \A k : Newer(u, k)' = Newer(u, k)
    <3>1. \A u : Inbox(u)' = Inbox(u)
      BY DEF Inbox, Exists, ovars
    <3>. QED
      BY <3>1 DEF Newer
  <2>2. \A i : Known(q, i) <=> Known(q, i)'
    BY DEF Known, Target, ovars
  <2>3. PICK u : u = asks[q].user
    OBVIOUS
  <2>4. \A k : Known(q, posted[k]) <=> Known(q, posted[k])'
    <3>1. ASSUME NEW k PROVE Known(q, posted[k]) <=> Known(q, posted[k])'
      <4>1. PICK i : i = posted[k]
        OBVIOUS
      <4>. QED
        BY <2>2, <4>1 DEF Known
    <3>. QED
      BY <3>1
  <2>5. asks'[q].user = u /\ copy'[q] = copy[q] /\ at'[q] = at[q] /\ (Follows(q)' <=> Follows(q))
    BY <2>3 DEF ovars, Follows, Asks
  <2>6. \A n : KnownTo(q, n) <=> KnownTo(q, n)'
    BY <2>1, <2>3, <2>4, <2>5 DEF KnownTo
  <2>7. q \notin shrunk' => q \notin shrunk \/ at[q] \notin {"rows", "count", "watch"}
    BY Whereabouts DEF Shrinks
  <2>8. PICK from, to : from = (copy[q].page - 1) * PageSize /\ to = copy[q].page * PageSize
    OBVIOUS
  <2>9. q \notin shrunk' =>
          /\ at[q] = "rows" => KnownTo(q, from)'
          /\ at[q] = "count" => KnownTo(q, to)'
          /\ at[q] = "watch" => \A k \in Inbox(u)' : Known(q, posted[k])'
    BY <2>1, <2>3, <2>4, <2>6, <2>7, <2>8 DEF InboxInv, Follower
  <2>10. (copy'[q].page - 1) * PageSize = from /\ copy'[q].page * PageSize = to
    BY <2>5, <2>8
  <2>11. Follows(q) => copy[q] \in Pages /\ asks[q].user \in Users
    BY DEF InboxInv, Follower
  <2>. QED
    BY <2>3, <2>5, <2>9, <2>10, <2>11 DEF Follower, KnownTo
<1>. QED
  BY <1>1, <1>2 DEF InboxInv, Shrinks

LEMMA RestartInbox ==
  ASSUME RowInv, InboxInv, Restart
  PROVE  InboxInv'
<1>1. /\ UNCHANGED <<rows, posted>> /\ shrunk' = {}
      /\ \A q \in Requests : asks'[q] = Nothing /\ at'[q] \in Ended \cup {"new"}
  BY DEF Restart, RowInv, Types, Running, Ended
<1>2. \A q \in Requests : ~Follows(q)' /\ at'[q] \notin {"save", "rows", "count", "watch"}
  BY <1>1, NoneAsked DEF Follows, Asks, Ended
<1>3. InOrder'
  BY <1>1, <1>2 DEF InboxInv, InOrder, IsIn, Exists
<1>. QED
  BY <1>1, <1>2, <1>3 DEF InboxInv, Follower

LEMMA InitInbox ==
  ASSUME OInit, NInit
  PROVE  InboxInv
<1>1. PICK table \in [Stored -> Tables] :
        rows = [i \in Ids |-> IF i \in Stored THEN Row(table[i], None) ELSE NoRow]
  BY DEF OInit
<1>2. \A i \in Ids : rows[i] = IF i \in Stored THEN Row(table[i], None) ELSE NoRow
  BY <1>1
<1>3. PICK S : S = {i \in Stored : IsIn(i, "notifications")}
  OBVIOUS
<1>4. S \subseteq Ids /\ IsFiniteSet(S)
  <2>1. S \in SUBSET Stored
    BY <1>3
  <2>. QED
    BY <2>1, OwnerAssumption, StoredIsFinite, FS_Subset
<1>5. PICK n \in Nat : n = Cardinality(S)
  BY <1>4, FS_CardinalityType
<1>6. posted \in [1 .. n -> S] /\ \A j, k \in 1 .. n : j # k => posted[j] # posted[k]
  BY <1>3, <1>5 DEF NInit, SetToSeqs
<1>7. \A i \in S : \E k \in 1 .. n : posted[k] = i
  <2>1. posted \in Injection(1 .. n, S)
    BY <1>6 DEF Injection, IsInjective
  <2>2. Cardinality(1 .. n) = n
    BY <1>5, FS_Interval
  <2>3. posted \in Surjection(1 .. n, S)
    BY <1>4, <1>5, <2>1, <2>2, FS_Injection
  <2>. QED
    BY <2>3 DEF Surjection
<1>8. posted \in Seq(Ids) /\ IsInjective(posted) /\ Range(posted) = S
  <2>1. posted \in Seq(S)
    BY <1>6
  <2>2. posted \in Seq(Ids)
    BY <1>4, <1>5, <1>6
  <2>3. IsInjective(posted)
    BY <1>6 DEF IsInjective
  <2>4. Range(posted) = S
    BY <1>6, <1>7 DEF Range
  <2>. QED
    BY <2>2, <2>3, <2>4
<1>9. \A i \in S : rows[i] # NoRow /\ rows[i].table = "notifications"
  BY <1>3, <1>4, <1>2, RowTypes DEF IsIn, Exists
<1>10. \A i \in Ids : IsIn(i, "notifications") => i \in S
  BY <1>2, <1>3, RowTypes DEF IsIn, Exists
<1>11. \A q \in Requests : at[q] = "new" /\ asks[q] = Nothing
  BY DEF OInit
<1>12. InOrder
  BY <1>8, <1>9, <1>10, <1>11 DEF InOrder
<1>. QED
  BY <1>11, <1>12, NoneAsked DEF InboxInv, Follower, Follows, Asks, NInit

-----------------------------------------------------------------------------
(* All of them together.                                                    *)

SvInv == RowInv /\ HistoryInv /\ ObjectInv /\ SocketInv /\ PushInv /\ InboxInv

LEMMA SvInitially ==
  ASSUME SvInit
  PROVE  SvInv
<1>1. /\ RowInv /\ InboxInv
      /\ \A q \in Requests : at[q] = "new" /\ asks[q] = Nothing
  BY InitRows, InitInbox DEF SvInit, OInit
<1>2. HistoryInv
  BY <1>1, NoneAsked DEF SvInit, HInit, HistoryInv, Asks, Ended
<1>3. ObjectInv
  <2>1. \A i \in Ids : rows[i] # NoRow => i \in Stored
    BY DEF SvInit, OInit
  <2>2. RowsHaveObjects
    BY <2>1, RowTypes DEF RowsHaveObjects, IsIn, Exists, SvInit, FInit
  <2>. QED
    BY <1>1, <2>2, NoneAsked, OwnerAssumption DEF ObjectInv, SvInit, FInit
<1>4. SocketInv
  BY <1>1 DEF SvInit, SInit, SocketInv, IsInjective, Registered, RegistryIsLive, OneConnection
<1>5. PushInv
  <2>1. \A e : Subscribed(e) = {} /\ Subscribing(e) = {}
    BY <1>1, NoneAsked, SubscriptionTypes DEF SvInit, PInit, Subscribed, Subscribing, Subscribes, Asks
  <2>2. PushTypes
    BY DEF SvInit, PInit, PushTypes
  <2>3. OneEndpoint /\ Alone
    BY <1>1, NoneAsked DEF OneEndpoint, Alone, Asks
  <2>4. \A q \in Requests : Subscriber(q) /\ Sender(q)
    BY <1>1, NoneAsked DEF SvInit, PInit, Subscriber, Sender, Asks
  <2>. QED
    BY <2>1, <2>2, <2>3, <2>4 DEF PushInv, EndpointHasHolder
<1>. QED
  BY <1>1, <1>2, <1>3, <1>4, <1>5 DEF SvInv

\* What a service keeps in a step that is not its own.
LEMMA FlowsKeep ==
  ASSUME SvInv, NEW q \in Requests, FlowStep(q), FlowsOnly
  PROVE  SvInv'
<1>1. RowInv' /\ StepIn(q, {"flows"}) /\ {"flows"} \subseteq Services
  BY FlowRows DEF SvInv, Services, Tables
<1>2. UNCHANGED <<posted, objects>> /\ UNCHANGED pvars /\ UNCHANGED svars /\ Shrinks
  BY DEF FlowsOnly, fvars
<1>3. HistoryInv' /\ InboxInv'
  BY <1>1, <1>2, FlowHistories, FlowInbox DEF SvInv
<1>4. ObjectInv' /\ SocketInv' /\ PushInv'
  BY <1>1, <1>2, OtherObjects, OtherSockets, OtherSubscriptions DEF SvInv
<1>. QED
  BY <1>1, <1>3, <1>4 DEF SvInv

LEMMA NotificationsKeep ==
  ASSUME SvInv, NEW q \in Requests, NotificationStep(q), NotificationsOnly
  PROVE  SvInv'
<1>1. RowInv' /\ StepIn(q, {"notifications"}) /\ {"notifications"} \subseteq Services
  BY NotificationRows DEF SvInv, Services, Tables
<1>2. UNCHANGED <<histories, objects>> /\ UNCHANGED pvars /\ UNCHANGED svars /\ Shrinks
  BY DEF NotificationsOnly, fvars, hvars
<1>3. InboxInv'
  BY <1>2, NotificationInbox DEF SvInv
<1>4. HistoryInv' /\ ObjectInv' /\ SocketInv' /\ PushInv'
  BY <1>1, <1>2, OtherHistories, OtherObjects, OtherSockets, OtherSubscriptions DEF SvInv
<1>. QED
  BY <1>1, <1>3, <1>4 DEF SvInv

LEMMA UploadsKeep ==
  ASSUME SvInv, NEW q \in Requests, UploadStep(q), UploadsOnly
  PROVE  SvInv'
<1>1. RowInv' /\ StepIn(q, {"files", "audios"}) /\ {"files", "audios"} \subseteq Services
  BY UploadRows DEF SvInv, Services, Tables
<1>2. UNCHANGED <<histories, posted>> /\ UNCHANGED pvars /\ UNCHANGED svars /\ Shrinks
  BY DEF UploadsOnly, hvars
<1>3. ObjectInv'
  BY <1>1, UploadObjects DEF SvInv
<1>4. HistoryInv' /\ SocketInv' /\ PushInv' /\ InboxInv'
  BY <1>1, <1>2, OtherHistories, OtherSockets, OtherSubscriptions, OtherInbox DEF SvInv
<1>. QED
  BY <1>1, <1>3, <1>4 DEF SvInv

LEMMA SubscriptionsKeep ==
  ASSUME SvInv, NEW q \in Requests, SubscriptionStep(q), PushOnly
  PROVE  SvInv'
<1>1. RowInv' /\ StepIn(q, {"push"}) /\ {"push"} \subseteq Services
  BY SubscriptionRows DEF SvInv, Services
<1>2. UNCHANGED <<histories, posted, objects>> /\ UNCHANGED svars /\ Shrinks
  BY DEF PushOnly, hvars, fvars
<1>3. PushInv'
  BY <1>1, SubscriptionsStep DEF SvInv
<1>4. HistoryInv' /\ ObjectInv' /\ SocketInv' /\ InboxInv'
  BY <1>1, <1>2, OtherHistories, OtherObjects, OtherSockets, OtherInbox DEF SvInv
<1>. QED
  BY <1>1, <1>3, <1>4 DEF SvInv

LEMMA SocketsKeep ==
  ASSUME SvInv, NEW q \in Requests, SocketStep(q), SocketsOnly
  PROVE  SvInv'
<1>1. RowInv' /\ StepIn(q, {"chat"}) /\ {"chat"} \subseteq Services /\ StepOf(q)
  BY SocketRows DEF SvInv, Services, StepIn
<1>2. UNCHANGED <<histories, posted, objects>> /\ UNCHANGED pvars /\ Shrinks
  BY DEF SocketsOnly, hvars, fvars
<1>3. SocketInv'
  BY <1>1, RegistryStep DEF SvInv
<1>4. HistoryInv' /\ ObjectInv' /\ PushInv' /\ InboxInv'
  BY <1>1, <1>2, OtherHistories, OtherObjects, OtherSubscriptions, OtherInbox DEF SvInv
<1>. QED
  BY <1>1, <1>3, <1>4 DEF SvInv

LEMMA LeaveKeeps ==
  ASSUME SvInv, NEW q \in Requests, Leave(q), PushOnly
  PROVE  SvInv'
<1>1. RowInv' /\ StepIn(q, {"users"}) /\ {"users"} \subseteq Services
  BY LeaveRows DEF SvInv, Services
<1>2. UNCHANGED <<histories, posted, objects>> /\ UNCHANGED svars /\ Shrinks
  BY DEF PushOnly, hvars, fvars
<1>3. PushInv'
  BY <1>1, LeaveSubscriptions DEF SvInv
<1>4. HistoryInv' /\ ObjectInv' /\ SocketInv' /\ InboxInv'
  BY <1>1, <1>2, OtherHistories, OtherObjects, OtherSockets, OtherInbox DEF SvInv
<1>. QED
  BY <1>1, <1>3, <1>4 DEF SvInv

LEMMA LostKeeps ==
  ASSUME SvInv, NEW q \in Requests, CallLost(q), FlowsOnly, UNCHANGED hvars
  PROVE  SvInv'
<1>1. RowInv' /\ StepOf(q) /\ Tidy(q) /\ asks'[q] = Nothing /\ at'[q] = "rejected"
  BY LostRows DEF SvInv, StepIn
<1>2. UNCHANGED <<histories, posted, objects>> /\ UNCHANGED pvars /\ UNCHANGED svars /\ Shrinks
  BY DEF FlowsOnly, fvars, hvars
<1>3. HistoryInv' /\ PushInv' /\ InboxInv'
  BY <1>2, LostHistories, LostSubscriptions, LostInbox DEF SvInv
<1>4. ObjectInv'
  BY <1>1, <1>2, NoneAsked, ObjectsStep DEF SvInv, ObjectInv
<1>5. SocketInv'
  BY <1>1, <1>2, SocketsStay DEF SvInv, CallLost, Calls
<1>. QED
  BY <1>1, <1>3, <1>4, <1>5 DEF SvInv

\* Steps that leave the requests alone.
LEMMA SameKeeps ==
  ASSUME SvInv, UNCHANGED <<ovars, hvars, posted, fvars, svars>>, Shrinks \/ shrunk' = shrunk
  PROVE  RowInv' /\ HistoryInv' /\ ObjectInv' /\ SocketInv' /\ InboxInv'
<1>1. RowInv' /\ InboxInv'
  BY SameRows, LapseInbox DEF SvInv
<1>2. HistoryInv'
  BY DEF SvInv, HistoryInv, ovars, hvars, Asks, Target
<1>3. ObjectInv'
  BY DEF SvInv, ObjectInv, RowsHaveObjects, IsIn, Exists, Target, ovars, fvars
<1>4. SocketInv'
  <2>1. Registered' = Registered
    BY DEF Registered, svars
  <2>. QED
    BY <2>1 DEF SvInv, SocketInv, RegistryIsLive, OneConnection, ovars, svars
<1>. QED
  BY <1>1, <1>2, <1>3, <1>4

LEMMA StutterSubscriptions ==
  ASSUME PushInv, UNCHANGED ovars, UNCHANGED pvars
  PROVE  PushInv'
<1>1. \A e : Subscribed(e)' = Subscribed(e) /\ Subscribing(e)' = Subscribing(e)
  BY DEF Subscribed, Subscribing, Subscribes, Asks, Target, ovars, pvars
<1>2. PushTypes' /\ OneEndpoint' /\ Alone' /\ EndpointHasHolder'
  BY <1>1 DEF PushInv, PushTypes, OneEndpoint, Alone, EndpointHasHolder, Asks, Target, ovars, pvars
<1>3. \A q \in Requests : Subscriber(q)' /\ Sender(q)'
  BY <1>1 DEF PushInv, Subscriber, Sender, Asks, Target, ovars, pvars
<1>. QED
  BY <1>1, <1>2, <1>3 DEF PushInv, pvars

\* The combined invariant is inductive.
LEMMA SvStep ==
  ASSUME SvInv, [SvNext]_svvars
  PROVE  SvInv'
<1>1. CASE \E q \in Requests :
             \/ FlowStep(q) /\ FlowsOnly
             \/ NotificationStep(q) /\ NotificationsOnly
             \/ UploadStep(q) /\ UploadsOnly
             \/ SubscriptionStep(q) /\ PushOnly
             \/ SocketStep(q) /\ SocketsOnly
             \/ Leave(q) /\ PushOnly
             \/ CallLost(q) /\ FlowsOnly /\ UNCHANGED hvars
  BY <1>1, FlowsKeep, NotificationsKeep, UploadsKeep, SubscriptionsKeep, SocketsKeep, LeaveKeeps, LostKeeps
<1>2. CASE \E e \in Endpoints : Lapse(e) /\ PushOnly
  <2>1. PICK e \in Endpoints : Lapse(e) /\ PushOnly
    BY <1>2
  <2>2. PushInv'
    BY <2>1, LapseSubscriptions DEF SvInv
  <2>3. UNCHANGED <<ovars, hvars, posted, fvars, svars>> /\ Shrinks
    BY <2>1 DEF Lapse, PushOnly
  <2>. QED
    BY <2>2, <2>3, SameKeeps DEF SvInv
<1>3. CASE Restart
  BY <1>3, RestartRows, RestartHistories, RestartSockets, RestartSubscriptions, RestartInbox DEF SvInv
<1>4. CASE UNCHANGED svvars
  <2>1. UNCHANGED <<ovars, hvars, posted, fvars, svars>> /\ shrunk' = shrunk /\ UNCHANGED pvars
    BY <1>4 DEF svvars, nvars
  <2>2. PushInv'
    BY <2>1, StutterSubscriptions DEF SvInv
  <2>. QED
    BY <2>1, <2>2, SameKeeps DEF SvInv
<1>. QED
  BY <1>1, <1>2, <1>3, <1>4 DEF SvNext

-----------------------------------------------------------------------------
(* The theorems.                                                            *)

\* All of the invariant holds at all times, in whatever order the steps of the
\* requests, rejected calls, lapses and restarts come.
THEOREM ServicesAreInductive == SvSpec => []SvInv
<1>1. SvInit => SvInv
  BY SvInitially
<1>2. SvInv /\ [SvNext]_svvars => SvInv'
  BY SvStep
<1>. QED
  BY <1>1, <1>2, PTL DEF SvSpec

\* Every variable has its type, and what a request carries to its write is a
\* row of its table: no service saves the row of another.
THEOREM ServicesAreTyped == SvSpec => []SvTypeOK
<1>1. SvInv => SvTypeOK
  <2>1. SUFFICES ASSUME SvInv PROVE SvTypeOK
    OBVIOUS
  <2>2. RowInv /\ HistoryInv /\ ObjectInv /\ SocketInv /\ InboxInv /\ Types
    BY <2>1 DEF SvInv, RowInv
  <2>3. ASSUME NEW q \in Requests
        PROVE  /\ at[q] \in Calls \cup Ended \cup
                    {"new", "emit", "watch", "transcribe", "push", "verify", "register", "connected"}
               /\ at[q] = "save" => copy[q] \in RowType /\ copy[q].table = asks[q].service
               /\ at[q] = "insert history" => Target(q) \in Ids
    <3>1. Stage(q) /\ Found(q) /\ Holds(q) /\ at[q] \in Awaits
      BY <2>2 DEF RowInv, Stages, Types
    <3>2. at[q] = "insert history" => Target(q) \in Ids
      BY <3>1 DEF Stage, Fits, Is, Found, Tables, Ended
    <3>. QED
      BY <3>1, <3>2 DEF Holds, Awaits
  <2>4. \A q \in Requests : Kept(q) => histories[q].flow \in Ids
    BY <2>2, RowTypes DEF HistoryInv, Kept
  <2>5. Registered \cup open \cup ghosts \subseteq Requests /\ IsInjective(registry)
    BY <2>2 DEF SocketInv, Registered
  <2>6. posted \in Seq(Ids) /\ IsInjective(posted) /\ shrunk \subseteq Requests /\ objects \subseteq Ids
    BY <2>2 DEF InboxInv, InOrder, ObjectInv
  <2>. QED
    BY <2>2, <2>3, <2>4, <2>5, <2>6 DEF SvTypeOK, Types
<1>. QED
  BY <1>1, ServicesAreInductive, PTL

\* notifications.service.ts: whatever is created between the two queries of a
\* page, and however many pages there are, a client that has walked them with
\* its stream open misses no notification of its user.
THEOREM FollowersMissNothing == SvSpec => []NothingMissed
<1>1. SvInv => NothingMissed
  <2>1. SUFFICES ASSUME SvInv, NEW q \in Requests \ shrunk, at[q] = "watch",
                        NEW i \in Ids, IsIn(i, "notifications"), Owner[i] = asks[q].user
                 PROVE  i \in copy[q].seen \/ \E p \in Requests : at[p] = "emit" /\ Target(p) = i
    BY DEF NothingMissed
  <2>2. PICK k \in DOMAIN posted : posted[k] = i
    BY <2>1 DEF SvInv, InboxInv, InOrder, Range
  <2>3. k \in Inbox(asks[q].user)
    BY <2>1, <2>2 DEF Inbox, IsIn
  <2>. QED
    BY <2>1, <2>2, <2>3 DEF SvInv, InboxInv, Follower, Known
<1>. QED
  BY <1>1, ServicesAreInductive, PTL

\* files.service.ts and audio.service.ts: the row of an upload names an object
\* that is there, at whichever await the upload broke off.
THEOREM UploadsHaveObjects == SvSpec => []RowsHaveObjects
<1>1. SvInv => RowsHaveObjects
  BY DEF SvInv, ObjectInv
<1>. QED
  BY <1>1, ServicesAreInductive, PTL

\* push-notifications.service.ts: an endpoint has one row, of the user who
\* subscribed it last, unless its subscriptions overlapped.
THEOREM EndpointsHaveHolders == SvSpec => []EndpointHasHolder
<1>1. SvInv => EndpointHasHolder
  BY DEF SvInv, PushInv
<1>. QED
  BY <1>1, ServicesAreInductive, PTL

-----------------------------------------------------------------------------
(* The subscribers of endpoints.                                            *)

\* Users who go, and endpoints that lapse, ask for less.
LEMMA ReachedStays ==
  ASSUME SubscribersAreReached, UNCHANGED <<subscriptions, holder>>,
         users' \subseteq users, lapsed \subseteq lapsed'
  PROVE  SubscribersAreReached'
BY DEF SubscribersAreReached, Subscribed

\* The user goes, and no row but the user's own.
LEMMA LeaveReached ==
  ASSUME PushInv, SubscribersAreReached, NEW q \in Requests, Leave(q)
  PROVE  SubscribersAreReached'
<1>1. /\ users' \subseteq users /\ UNCHANGED <<lapsed, holder>>
      /\ \A r \in Requests : subscriptions'[r] =
           IF subscriptions[r].state = "exists" /\ subscriptions[r].user \in users \ users'
           THEN Gone ELSE subscriptions[r]
  BY DEF Leave, DropSubscriptionsOf, phistory, ReceiveRemoveUser, Receive, Stays, RemoveUser
<1>2. ASSUME NEW e \in Endpoints \ lapsed, holder[e] \in users',
             NEW s \in Subscribed(e), subscriptions[s].user = holder[e]
      PROVE  s \in Subscribed(e)' /\ subscriptions'[s] = subscriptions[s]
  BY <1>1, <1>2 DEF Subscribed
<1>. QED
  BY <1>1, <1>2 DEF SubscribersAreReached

\* A subscription that ends leaves a row of its user, found or saved.
LEMMA SubscribeReached ==
  ASSUME RowInv, PushInv, SubscribersAreReached, NEW q \in Requests,
         FindEndpoint(q) \/ SaveSubscription(q)
  PROVE  SubscribersAreReached'
<1>1. /\ Asks(q, "create", "push") /\ Target(q) \in Endpoints /\ Subscriber(q)
      /\ holder \in [Endpoints -> Users \cup {None}]
      /\ subscriptions \in [Requests -> SubscriptionType \cup {NoRow, Gone}]
  BY Whereabouts DEF PushInv, PushTypes, Subscriber, FindEndpoint, SaveSubscription
<1>2. users' = users /\ lapsed' = lapsed
  BY DEF FindEndpoint, SaveSubscription, Stays
<1>3. CASE UNCHANGED <<subscriptions, holder>>
  BY <1>2, <1>3, ReachedStays
<1>4. ASSUME NEW s \in Subscribed(Target(q)), subscriptions[s].user = asks[q].user,
             holder' = [holder EXCEPT ![Target(q)] = asks[q].user], subscriptions' = subscriptions
      PROVE  SubscribersAreReached'
  BY <1>1, <1>2, <1>4 DEF SubscribersAreReached, Subscribed
<1>5. ASSUME NEW s \in Requests, NEW new, NEW t, NEW u, t = Target(q), u = asks[q].user,
             s = (IF at[q] = "reassign" THEN copy[q].row ELSE q), SaveSubscription(q),
             new = Subscription(t, u),
             subscriptions' = [subscriptions EXCEPT ![s] = new],
             holder' = [holder EXCEPT ![t] = u]
      PROVE  SubscribersAreReached'
  <2>1. new.state = "exists" /\ new.endpoint = t /\ new.user = u
    BY <1>5 DEF Subscription
  <2>2. subscriptions'[s] = new /\ \A r \in Requests \ {s} : subscriptions'[r] = subscriptions[r]
    BY <1>1, <1>5
  <2>3. s \in Subscribed(t)'
    BY <1>5, <2>1, <2>2 DEF Subscribed
  <2>4. ASSUME NEW e \in Endpoints, e # t, NEW r \in Subscribed(e)
        PROVE  r \in Subscribed(e)' /\ subscriptions'[r] = subscriptions[r]
    <3>1. at[q] \notin Ended /\ (at[q] = "reassign" \/ s = q)
      BY <1>5 DEF SaveSubscription, Ended
    <3>2. s \notin Subscribed(e)
      BY <1>1, <1>5, <2>4, <3>1, SubscriptionTypes DEF Subscriber, Subscribed
    <3>. QED
      BY <2>2, <2>4, <3>2 DEF Subscribed
  <2>5. holder'[t] = u /\ \A e \in Endpoints : e # t => holder'[e] = holder[e]
    BY <1>1, <1>5
  <2>6. ASSUME NEW e \in Endpoints \ lapsed', holder'[e] \in users'
        PROVE  \E r \in Subscribed(e)' : subscriptions'[r].user = holder'[e]
    <3>1. CASE e = t
      BY <2>1, <2>2, <2>3, <2>5, <3>1
    <3>2. CASE e # t
      <4>1. PICK r \in Subscribed(e) : subscriptions[r].user = holder[e]
        BY <1>2, <2>5, <2>6, <3>2 DEF SubscribersAreReached
      <4>2. r \in Subscribed(e)' /\ subscriptions'[r] = subscriptions[r] /\ holder'[e] = holder[e]
        BY <2>4, <2>5, <2>6, <3>2, <4>1
      <4>. QED
        BY <4>1, <4>2
    <3>. QED
      BY <3>1, <3>2
  <2>. QED
    BY <2>6 DEF SubscribersAreReached
<1>6. CASE FindEndpoint(q)
  BY <1>3, <1>4, <1>6 DEF FindEndpoint
<1>7. CASE SaveSubscription(q)
  <2>1. copy[q].row \in Requests \/ at[q] # "reassign"
    BY <1>1 DEF Subscriber
  <2>. QED
    BY <1>3, <1>5, <1>7, <2>1 DEF SaveSubscription
<1>. QED
  BY <1>6, <1>7

\* The rows deleted upon a 410 are of an endpoint that has lapsed.
LEMMA SendReached ==
  ASSUME PushInv, SubscribersAreReached, NEW q \in Requests, NEW s \in Requests, DeleteEndpoint(q, s)
  PROVE  SubscribersAreReached'
<1>1. /\ at[q] = "push" /\ s \in DOMAIN copy[q].sends /\ copy[q].sends[s].gone
      /\ UNCHANGED <<users, lapsed, holder>>
  BY DEF DeleteEndpoint, FoundGone, Sending, Stays
<1>2. copy[q].sends[s].endpoint \in lapsed
  BY <1>1 DEF PushInv, Sender
<1>3. ASSUME NEW e \in Endpoints \ lapsed, NEW r \in Subscribed(e)
      PROVE  r \in Subscribed(e)' /\ subscriptions'[r] = subscriptions[r]
  BY <1>2, <1>3 DEF DeleteEndpoint, Subscribed
<1>. QED
  BY <1>1, <1>3 DEF SubscribersAreReached

LEMMA ReachedStep == SvInv /\ SubscribersAreReached /\ [SvNext]_svvars => SubscribersAreReached'
<1>. SUFFICES ASSUME SvInv, SubscribersAreReached, [SvNext]_svvars
              PROVE  SubscribersAreReached'
  OBVIOUS
<1>1. RowInv /\ PushInv
  BY DEF SvInv
<1>2. ASSUME NEW q \in Requests, SubscriptionStep(q) PROVE SubscribersAreReached'
  <2>1. CASE \/ ReceiveSubscribe(q) \/ SendToUser(q) \/ FindSubscriptions(q) \/ AllSent(q)
             \/ \E s \in Requests : SendPush(q, s) \/ DeleteRejected(q, s)
    <3>1. UNCHANGED <<users, subscriptions, holder, lapsed>>
      BY <2>1 DEF ReceiveSubscribe, SendToUser, FindSubscriptions, AllSent, SendPush, DeleteRejected,
         Receive, Stays, pvars
    <3>. QED
      BY <3>1, ReachedStays
  <2>. QED
    BY <1>1, <1>2, <2>1, SubscribeReached, SendReached DEF SubscriptionStep
<1>3. ASSUME NEW q \in Requests,
             FlowStep(q) \/ NotificationStep(q) \/ UploadStep(q) \/ SocketStep(q) \/ CallLost(q)
      PROVE  users' = users
  <2>1. CASE FlowStep(q)
    BY <2>1 DEF FlowStep, ReceiveFlow, CreateFlow, FindFlow, UpdateFlow, RemoveFlow, CreateHistory, FindHistory,
       FindFlowOfHistory, RemoveHistory, Receive, Stays, InsertRow, FindOwn, SaveRow, DeleteRow
  <2>2. CASE NotificationStep(q)
    BY <2>2 DEF NotificationStep, ReceiveNotification, CreateNotification, Emit, FindNotification, SaveNotification,
       DeleteNotification, OpenStream, FindPage, CountRows, CloseStream, Receive, Stays,
       InsertRow, FindOwn, SaveRow, DeleteRow
  <2>3. CASE UploadStep(q)
    BY <2>3 DEF UploadStep, ReceiveUpload, PutObject, TranscribeAudio, InsertUpload, DeactivateAudio,
       Receive, Stays, InsertRow
  <2>4. CASE SocketStep(q)
    BY <2>4 DEF SocketStep, HandleConnection, VerifyToken, RegisterClient, AuthenticationRejected,
       HandleDisconnect, Receive, Stays
  <2>5. CASE CallLost(q)
    BY <2>5 DEF CallLost, CallRejected
  <2>. QED
    BY <1>3, <2>1, <2>2, <2>3, <2>4, <2>5
<1>4. CASE \E q \in Requests :
             \/ FlowStep(q) /\ FlowsOnly
             \/ NotificationStep(q) /\ NotificationsOnly
             \/ UploadStep(q) /\ UploadsOnly
             \/ SocketStep(q) /\ SocketsOnly
             \/ CallLost(q) /\ FlowsOnly
  <2>1. UNCHANGED <<users, pvars>>
    BY <1>3, <1>4 DEF FlowsOnly, NotificationsOnly, UploadsOnly, SocketsOnly
  <2>. QED
    BY <2>1, ReachedStays DEF pvars
<1>5. CASE \E e \in Endpoints : Lapse(e)
  BY <1>5, ReachedStays DEF Lapse, ovars, phistory
<1>6. CASE Restart
  BY <1>6, ReachedStays DEF Restart, pvars
<1>7. CASE UNCHANGED svvars
  BY <1>7, ReachedStays DEF svvars, ovars, pvars
<1>. QED
  BY <1>1, <1>2, <1>4, <1>5, <1>6, <1>7, LeaveReached DEF SvNext

\* push-notifications.service.ts: the user who subscribed an endpoint last has a
\* row of it, until the user is removed or the push service gives it up.
THEOREM SubscribersStayReached == SvSpec => []SubscribersAreReached
<1>1. SvInit => SubscribersAreReached
  BY NoneIsNoUser DEF SvInit, OInit, PInit, SubscribersAreReached
<1>. QED
  BY <1>1, ReachedStep, ServicesAreInductive, PTL DEF SvSpec

\* chat.wss.service.ts: a registered socket is connected, or was disconnected
\* while it was authenticated.
THEOREM RegisteredSocketsAreLive == SvSpec => []RegistryIsLive
<1>1. SvInv => RegistryIsLive
  BY DEF SvInv, SocketInv
<1>. QED
  BY <1>1, ServicesAreInductive, PTL

\* chat.gateway.ts: two connected sockets of one user are registered only
\* where a ghost of the user is registered before them.
THEOREM UsersHaveOneConnection == SvSpec => []OneConnection
<1>1. SvInv => OneConnection
  BY DEF SvInv, SocketInv
<1>. QED
  BY <1>1, ServicesAreInductive, PTL

-----------------------------------------------------------------------------
(* Orphans.                                                                 *)

\* What OrphansStay lets a step do to history h.
OrphanStays(h) ==
  Orphan(h) =>
    \/ Orphan(h)'
    \/ histories[h].flow \in raced'
    \/ \E p \in Requests : at[p] = "remove history" /\ Target(p) = h /\ copy[p] # NoRow

\* The flow of a history is gone, and a row that is gone comes back only when
\* an old copy of it is saved.
LEMMA TidyOrphans ==
  ASSUME RowInv, HistoryInv, NEW q \in Requests, Tidy(q), NEW h \in Requests,
         histories'[h] = histories[h]
  PROVE  OrphanStays(h)
<1>1. CASE Orphan(h)
  <2>1. PICK i \in Ids : i = histories[h].flow /\ rows[i] # NoRow
    BY <1>1, RowTypes DEF Orphan, Kept, HistoryInv
  <2>2. rows[i] = Gone
    BY <1>1, <2>1, ExistingRows DEF Orphan
  <2>3. rows'[i] = Gone \/ i \in raced'
    BY <2>2, RowTypes DEF Tidy
  <2>4. Kept(h)' /\ histories'[h].flow = i
    BY <1>1, <2>1 DEF Orphan, Kept
  <2>. QED
    BY <2>1, <2>3, <2>4, RowTypes DEF OrphanStays, Orphan, Exists
<1>. QED
  BY <1>1 DEF OrphanStays

LEMMA FlowOrphans ==
  ASSUME RowInv, HistoryInv, NEW q \in Requests, FlowStep(q), NEW h \in Requests
  PROVE  OrphanStays(h)
<1>1. StepIn(q, {"flows"}) /\ Tidy(q) /\ at[q] \notin Ended
  BY FlowRows, NotEnded DEF StepIn, Services, Tables
<1>2. histories \in [Requests -> {NoRow} \cup [state : {"exists", "removed"}, flow : Ids]]
  BY DEF HistoryInv
<1>3. CASE histories' = histories
  BY <1>1, <1>3, TidyOrphans
<1>4. CASE CreateHistory(q)
  <2>1. CASE h = q
    <3>1. histories[h] = NoRow
      BY <1>1, <2>1 DEF HistoryInv
    <3>. QED
      BY <3>1, RowTypes DEF OrphanStays, Orphan, Kept
  <2>2. CASE h # q
    <3>1. histories'[h] = histories[h]
      BY <1>2, <1>4, <2>2 DEF CreateHistory
    <3>. QED
      BY <1>1, <3>1, TidyOrphans
  <2>. QED
    BY <2>1, <2>2
<1>5. CASE RemoveHistory(q)
  <2>1. CASE h = Target(q)
    BY <1>5, <2>1 DEF RemoveHistory, HistoryInv, OrphanStays
  <2>2. CASE h # Target(q)
    <3>1. histories'[h] = histories[h]
      BY <1>2, <1>5, <2>2 DEF RemoveHistory
    <3>. QED
      BY <1>1, <3>1, TidyOrphans
  <2>. QED
    BY <2>1, <2>2
<1>6. FlowStep(q) => histories' = histories \/ CreateHistory(q) \/ RemoveHistory(q)
  BY DEF FlowStep, ReceiveFlow, CreateFlow, FindFlow, UpdateFlow, RemoveFlow, FindHistory, FindFlowOfHistory
<1>. QED
  BY <1>3, <1>4, <1>5, <1>6

LEMMA OrphansStep ==
  ASSUME SvInv, [SvNext]_svvars, NEW h \in Requests
  PROVE  OrphanStays(h)
<1>1. RowInv /\ HistoryInv /\ SocketInv
  BY DEF SvInv
<1>2. ASSUME UNCHANGED <<rows, histories>> PROVE OrphanStays(h)
  BY <1>2 DEF OrphanStays, Orphan, Kept, Exists
<1>3. ASSUME NEW q \in Requests, FlowStep(q) PROVE OrphanStays(h)
  BY <1>1, <1>3, FlowOrphans
<1>4. ASSUME NEW q \in Requests, histories' = histories,
             \/ NotificationStep(q) \/ UploadStep(q) \/ SubscriptionStep(q) \/ SocketStep(q)
             \/ Leave(q) \/ CallLost(q)
      PROVE  OrphanStays(h)
  <2>1. \E S : StepIn(q, S)
    BY <1>1, <1>4, NotificationRows, UploadRows, SubscriptionRows, SocketRows, LeaveRows, LostRows
  <2>2. Tidy(q)
    BY <2>1 DEF StepIn
  <2>. QED
    BY <1>1, <1>4, <2>2, TidyOrphans
<1>5. CASE \E q \in Requests :
             \/ FlowStep(q) /\ FlowsOnly
             \/ NotificationStep(q) /\ NotificationsOnly
             \/ UploadStep(q) /\ UploadsOnly
             \/ SubscriptionStep(q) /\ PushOnly
             \/ SocketStep(q) /\ SocketsOnly
             \/ Leave(q) /\ PushOnly
             \/ CallLost(q) /\ FlowsOnly /\ UNCHANGED hvars
  BY <1>3, <1>4, <1>5 DEF hvars, NotificationsOnly, UploadsOnly, PushOnly, SocketsOnly
<1>6. CASE \E e \in Endpoints : Lapse(e) /\ PushOnly
  BY <1>2, <1>6 DEF Lapse, PushOnly, ovars, hvars
<1>7. CASE Restart
  BY <1>2, <1>7 DEF Restart, hvars
<1>8. CASE UNCHANGED svvars
  BY <1>2, <1>8 DEF svvars, ovars, hvars
<1>. QED
  BY <1>5, <1>6, <1>7, <1>8 DEF SvNext

\* flow.service.ts: a history whose flow is gone cannot be removed any more,
\* but by a removal that had found the flow, and until an old copy of the flow
\* is saved.
THEOREM OrphanedHistoriesStay == SvSpec => OrphansStay
<1>1. SvInv /\ [SvNext]_svvars =>
        [\A h \in Requests : Orphan(h) =>
           \/ Orphan(h)'
           \/ histories[h].flow \in raced'
           \/ \E p \in Requests :
                at[p] = "remove history" /\ Target(p) = h /\ copy[p] # NoRow]_<<ovars, histories>>
  BY OrphansStep DEF OrphanStays
<1>. QED
  BY <1>1, ServicesAreInductive, PTL DEF SvSpec, OrphansStay

-----------------------------------------------------------------------------
(* The services implement AtomicEdits.                                      *)

\* In place of an order.
IdleOrder    == [kind |-> "idle"]
AppliedOrder == [kind |-> "applied"]
RefusedOrder == [kind |-> "refused"]

LEMMA OrderKinds ==
  /\ IdleOrder \notin Edits!Orders /\ AppliedOrder \notin Edits!Orders /\ RefusedOrder \notin Edits!Orders
  /\ IdleOrder # AppliedOrder /\ IdleOrder # RefusedOrder /\ AppliedOrder # RefusedOrder
<1>1. IdleOrder.kind = "idle" /\ AppliedOrder.kind = "applied" /\ RefusedOrder.kind = "refused"
  BY DEF IdleOrder, AppliedOrder, RefusedOrder
<1>2. \A o \in Edits!Orders : o.kind \in {"insert", "change", "remove"}
  BY DEF Edits!Orders
<1>. QED
  BY <1>1, <1>2

\* The rows of the table are those that exist and that no stale copy was saved over.
LEMMA RowsOfTable ==
  ASSUME RowInv, NEW i \in Ids
  PROVE  /\ TableRow(i) \in Edits!Rows <=> i \notin raced /\ Exists(i)
         /\ i \notin raced /\ Exists(i) => TableRow(i) = [c \in Columns |-> rows[i][c]]
<1>1. \A row \in Edits!Rows : DOMAIN row = Columns
  BY DEF Edits!Rows
<1>2. "state" \notin Columns
  BY DEF Columns
<1>3. DOMAIN [state |-> "uncertain"] = {"state"} /\ DOMAIN NoRow = {"state"} /\ DOMAIN Gone = {"state"}
  BY DEF NoRow, Gone
<1>4. CASE i \in raced
  BY <1>1, <1>2, <1>3, <1>4 DEF TableRow
<1>5. CASE i \notin raced /\ ~Exists(i)
  <2>1. TableRow(i) \in {NoRow, Gone}
    BY <1>5, ExistingRows DEF TableRow
  <2>. QED
    BY <1>1, <1>2, <1>3, <1>5, <2>1
<1>6. CASE i \notin raced /\ Exists(i)
  <2>1. rows[i] \in RowType
    BY <1>6, ExistingRows
  <2>2. \A c \in Columns : rows[i][c] \in Requests \cup {None}
    BY <2>1 DEF RowType, Columns
  <2>3. TableRow(i) = [c \in Columns |-> rows[i][c]]
    BY <1>6 DEF TableRow
  <2>. QED
    BY <1>6, <2>2, <2>3 DEF Edits!Rows
<1>. QED
  BY <1>4, <1>5, <1>6

\* What a request brings that creates a row.
Brought(q) ==
  [c \in Columns |->
    IF c = "text" THEN IF asks[q].service \in {"files", "audios"} THEN copy[q].text ELSE q ELSE None]

\* A request that knows what it writes, and has not written it.
LEMMA PlacedAsks ==
  ASSUME RowInv, NEW q \in Requests, Placed(q)
  PROVE  /\ q \notin landed /\ at[q] \notin Ended
         /\ \/ /\ asks[q].kind = "create" /\ at[q] = "insert"
               /\ asks[q].service \in Tables /\ Target(q) \in Ids
            \/ /\ asks[q].kind = "update" /\ at[q] \in {"find", "save", "deactivate"}
               /\ asks[q].service \in Tables /\ Target(q) \in Ids
            \/ /\ asks[q].kind = "remove" /\ at[q] \in {"find", "remove", "delete"}
               /\ asks[q].service \in Tables /\ Target(q) \in Ids
            \/ /\ asks[q].kind = "remove" /\ at[q] = "delete user"
               /\ asks[q].service = "users"
<1>1. Stage(q) /\ Creates(q) /\ Found(q) /\ Marks
  BY DEF RowInv, Stages
<1>2. q \notin landed /\ at[q] \notin Ended
  BY <1>1 DEF Marks, Placed, Ended
<1>3. CASE at[q] = "find"
  BY <1>1, <1>2, <1>3 DEF Placed, Stage, Fits, Is, Found, Tables, Ended
<1>4. CASE at[q] \in {"save", "deactivate", "remove", "delete", "delete user"}
  BY <1>1, <1>2, <1>4 DEF Stage, Fits, Is, Found, Tables, Ended
<1>5. CASE at[q] = "insert"
  BY <1>1, <1>2, <1>5 DEF Stage, Fits, Is, Creates, Tables, Ended
<1>. QED
  BY <1>3, <1>4, <1>5 DEF Placed

\* The orders of the three kinds.
LEMMA PlacedOrder ==
  ASSUME RowInv, NEW q \in Requests, Placed(q)
  PROVE  /\ asks[q].kind = "create" =>
              /\ OrderOf(q) = [kind |-> "insert", key |-> Target(q), columns |-> Brought(q)]
              /\ Brought(q) \in Edits!Rows
         /\ asks[q].kind = "update" =>
              OrderOf(q) = [kind |-> "change", key |-> Target(q), columns |-> [c \in asks[q].columns |-> q]]
         /\ asks[q].kind = "remove" =>
              OrderOf(q) = [kind |-> "remove",
                            keys |-> {i \in Ids : IF asks[q].service = "users" THEN Owner[i] = asks[q].user
                                                                              ELSE i = Target(q)}]
         /\ OrderOf(q) \in Edits!Orders
<1>1. OrderOf(q) = Order(q) /\ asks[q].columns \subseteq Columns
  BY PlacedAsks DEF OrderOf, RowInv, Types, AskType
<1>2. CASE asks[q].kind = "create"
  <2>1. OrderOf(q) = [kind |-> "insert", key |-> Target(q), columns |-> Brought(q)]
    BY <1>1, <1>2 DEF Order, Brought
  <2>2. asks[q].service \in {"files", "audios"} => copy[q].text \in Requests \cup {None}
    BY <1>2, PlacedAsks DEF RowInv, Holds, RowType
  <2>3. Brought(q) \in Edits!Rows
    BY <2>2 DEF Brought, Edits!Rows
  <2>4. Brought(q) \in Edits!Parts
    BY <2>3 DEF Edits!Rows, Edits!Parts
  <2>5. Target(q) \in Ids
    BY <1>2, PlacedAsks
  <2>. QED
    BY <1>2, <2>1, <2>3, <2>4, <2>5 DEF Edits!Orders
<1>3. CASE asks[q].kind = "update"
  <2>1. OrderOf(q) = [kind |-> "change", key |-> Target(q), columns |-> [c \in asks[q].columns |-> q]]
    BY <1>1, <1>3 DEF Order
  <2>2. [c \in asks[q].columns |-> q] \in [asks[q].columns -> Requests \cup {None}]
    OBVIOUS
  <2>3. [c \in asks[q].columns |-> q] \in Edits!Parts
    BY <1>1, <2>2 DEF Edits!Parts
  <2>4. Target(q) \in Ids
    BY <1>3, PlacedAsks
  <2>. QED
    BY <1>3, <2>1, <2>3, <2>4 DEF Edits!Orders
<1>4. CASE asks[q].kind = "remove"
  BY <1>1, <1>4 DEF Order, Edits!Orders
<1>. QED
  BY <1>2, <1>3, <1>4, PlacedAsks

\* The order of a request, by the await it is in.
Staged(q) ==
  /\ q \in landed => OrderOf(q) = AppliedOrder
  /\ q \notin landed /\ at[q] \in Ended => OrderOf(q) = RefusedOrder
  /\ q \notin landed /\ at[q] \notin Ended /\ ~Placed(q) => OrderOf(q) = IdleOrder
  /\ Placed(q) => OrderOf(q) \in Edits!Orders

LEMMA OrderStages == RowInv => \A q \in Requests : Staged(q)
<1>1. ASSUME RowInv, NEW q \in Requests PROVE Staged(q)
  <2>1. Placed(q) => OrderOf(q) \in Edits!Orders
    BY <1>1, PlacedOrder
  <2>2. at[q] \in Ended => ~Placed(q)
    BY DEF Placed, Ended
  <2>. QED
    BY <2>1, <2>2 DEF Staged, OrderOf, AppliedOrder, RefusedOrder, IdleOrder
<1>. QED
  BY <1>1

LEMMA OrderStagesNext == RowInv' => (\A q \in Requests : Staged(q))'
  BY OrderStages, PTL

\* The order of a request is its own.
LEMMA OrdersStay ==
  ASSUME RowInv, NEW q \in Requests, StepOf(q), landed \subseteq landed', landed' \subseteq landed \cup {q},
         NEW p \in Others(q)
  PROVE  OrderOf(p)' = OrderOf(p)
<1>1. asks'[p] = asks[p] /\ at'[p] = at[p] /\ p \in Requests /\ (p \in landed' <=> p \in landed)
  BY DEF StepOf, Others
<1>2. Target(p)' = Target(p) /\ (Placed(p)' <=> Placed(p))
  BY <1>1 DEF Target, Placed
<1>3. Placed(p) /\ asks[p].kind = "create" => copy'[p] = copy[p]
  BY <1>1 DEF StepOf, Follows, Asks
<1>4. Placed(p) => Order(p)' = Order(p)
  BY <1>1, <1>2, <1>3, PlacedAsks DEF Order
<1>. QED
  BY <1>1, <1>2, <1>4 DEF OrderOf

\* A step that writes no row: its request stays, gets an order, or gives up.
LEMMA QuietEdit ==
  ASSUME NEW q \in Requests,
         \A p \in Others(q) : OrderOf(p)' = OrderOf(p),
         UNCHANGED Table,
         \/ OrderOf(q)' = OrderOf(q)
         \/ OrderOf(q) = IdleOrder /\ OrderOf(q)' \in Edits!Orders
         \/ OrderOf(q) \notin {AppliedOrder, RefusedOrder} /\ OrderOf(q)' = RefusedOrder
  PROVE  [Edits!ENext]_(Edits!evars)
<1>1. \A p \in Requests : OrdersTaken[p] = OrderOf(p) /\ OrdersTaken'[p] = OrderOf(p)'
  BY DEF OrdersTaken
<1>2. OrdersTaken' = [OrdersTaken EXCEPT ![q] = OrderOf(q)']
  BY DEF OrdersTaken, Others
<1>3. CASE OrderOf(q)' = OrderOf(q)
  <2>1. OrdersTaken' = OrdersTaken
    BY <1>1, <1>3 DEF OrdersTaken, Others
  <2>. QED
    BY <2>1 DEF Edits!evars
<1>4. CASE OrderOf(q)' # OrderOf(q)
  <2>1. {p \in Requests : OrdersTaken'[p] # OrdersTaken[p]} = {q}
    BY <1>1, <1>4 DEF Others
  <2>2. CASE OrderOf(q) = IdleOrder /\ OrderOf(q)' \in Edits!Orders
    <3>1. Edits!Place(q)
      BY <1>1, <1>2, <2>2 DEF Edits!Place, Edits!Becomes, IdleOrder
    <3>. QED
      BY <2>1, <3>1 DEF Edits!ENext
  <2>3. CASE OrderOf(q) \notin {AppliedOrder, RefusedOrder} /\ OrderOf(q)' = RefusedOrder
    <3>1. OrdersTaken' = [p \in Requests |-> IF p \in {q} THEN RefusedOrder ELSE OrdersTaken[p]]
      BY <1>1, <2>3 DEF OrdersTaken, Others
    <3>2. Edits!Refuse({q})
      BY <1>1, <2>3, <3>1 DEF Edits!Refuse, AppliedOrder, RefusedOrder
    <3>. QED
      BY <2>1, <3>2 DEF Edits!ENext
  <2>. QED
    BY <1>4, <2>2, <2>3
<1>. QED
  BY <1>3, <1>4

\* A step that writes rows is the one step in which its order takes effect.
LEMMA WriteEdit ==
  ASSUME NEW q \in Requests,
         \A p \in Others(q) : OrderOf(p)' = OrderOf(p),
         OrderOf(q) \in Edits!Orders, OrderOf(q)' = AppliedOrder,
         \/ OrderOf(q).kind = "insert" /\ Edits!Insert(OrderOf(q).key, OrderOf(q).columns)
         \/ OrderOf(q).kind = "change" /\ Edits!Change(OrderOf(q).key, OrderOf(q).columns)
         \/ OrderOf(q).kind = "remove" /\ Edits!Remove(OrderOf(q).keys)
  PROVE  Edits!ENext
<1>1. \A p \in Requests : OrdersTaken[p] = OrderOf(p) /\ OrdersTaken'[p] = OrderOf(p)'
  BY DEF OrdersTaken
<1>2. OrdersTaken' = [OrdersTaken EXCEPT ![q] = OrderOf(q)']
  BY DEF OrdersTaken, Others
<1>3. OrdersTaken[q] \notin {IdleOrder, AppliedOrder, RefusedOrder}
  BY <1>1, OrderKinds
<1>4. q \in {p \in Requests : OrdersTaken'[p] # OrdersTaken[p]}
  BY <1>1, <1>3
<1>5. Edits!Execute(q)
  BY <1>1, <1>2, <1>3 DEF Edits!Execute, Edits!Becomes, IdleOrder, AppliedOrder, RefusedOrder
<1>. QED
  BY <1>4, <1>5 DEF Edits!ENext

\* The step of q writes row, at its target: what becomes of the table and of
\* the orders.
LEMMA TableWritten ==
  ASSUME RowInv, RowInv', NEW q \in Requests, NEW row, Writes(q, row), NEW i \in Ids, i = Target(q)
  PROVE  /\ Table' = [Table EXCEPT ![i] = TableRow(i)']
         /\ Table[i] = TableRow(i)
         /\ rows'[i] = row
         /\ i \in raced' <=> i \in raced \/ q \in stale
         /\ OrderOf(q)' = AppliedOrder
         /\ \A p \in Others(q) : OrderOf(p)' = OrderOf(p)
<1>1. Types
  BY DEF RowInv
<1>2. /\ rows'[i] = row
      /\ \A j \in Ids \ {i} : rows'[j] = rows[j] /\ (j \in raced' <=> j \in raced)
      /\ i \in raced' <=> i \in raced \/ q \in stale
      /\ StepOf(q) /\ landed' = landed \cup {q}
  BY <1>1 DEF Types, Writes, Wrote
<1>3. \A j \in Ids \ {i} : TableRow(j)' = TableRow(j)
  BY <1>2 DEF TableRow, Exists
<1>4. Table' = [Table EXCEPT ![i] = TableRow(i)'] /\ Table[i] = TableRow(i)
  BY <1>3 DEF Table
<1>5. OrderOf(q)' = AppliedOrder
  BY <1>2, OrderStagesNext DEF Staged
<1>6. \A p \in Others(q) : OrderOf(p)' = OrderOf(p)
  BY <1>2, OrdersStay
<1>. QED
  BY <1>2, <1>4, <1>5, <1>6

LEMMA InsertEdit ==
  ASSUME RowInv, RowInv', NEW q \in Requests, NEW row \in RowType, Writes(q, row),
         asks[q].kind = "create", at[q] = "insert", row.mark = None,
         row.text = IF asks[q].service \in {"files", "audios"} THEN copy[q].text ELSE q
  PROVE  Edits!ENext
<1>1. PICK i \in Ids : i = Target(q)
  BY PlacedAsks DEF Placed
<1>2. rows[i] = NoRow /\ i \notin raced /\ q \notin stale
  BY <1>1 DEF RowInv, Creates, Unborn, Marks
<1>3. /\ Table' = [Table EXCEPT ![i] = TableRow(i)'] /\ Table[i] = TableRow(i) /\ rows'[i] = row
      /\ i \notin raced'
      /\ OrderOf(q)' = AppliedOrder /\ \A p \in Others(q) : OrderOf(p)' = OrderOf(p)
  BY <1>1, <1>2, TableWritten
<1>4. /\ OrderOf(q) = [kind |-> "insert", key |-> i, columns |-> Brought(q)]
      /\ OrderOf(q) \in Edits!Orders /\ Brought(q) \in Edits!Rows
  BY <1>1, PlacedOrder DEF Placed
<1>5. TableRow(i)' = Brought(q)
  <2>1. TableRow(i)' = [c \in Columns |-> row[c]]
    BY <1>3, RowTypes DEF TableRow, Exists
  <2>2. row["mark"] = None
          /\ row["text"] = IF asks[q].service \in {"files", "audios"} THEN copy[q].text ELSE q
    BY DEF RowType
  <2>. QED
    BY <2>1, <2>2 DEF Brought, Columns
<1>6. TableRow(i) = NoRow
  BY <1>2, RowTypes DEF TableRow, Exists
<1>7. Edits!Insert(OrderOf(q).key, OrderOf(q).columns)
  BY <1>3, <1>4, <1>5, <1>6 DEF Edits!Insert
<1>. QED
  BY <1>3, <1>4, <1>7, WriteEdit

\* A write that changes the columns of request q, or makes the row uncertain.
LEMMA ChangeEdit ==
  ASSUME RowInv, RowInv', NEW q \in Requests, NEW row \in RowType, Writes(q, row),
         asks[q].kind = "update", Placed(q),
         q \notin stale =>
           /\ Exists(Target(q))
           /\ \A c \in Columns : row[c] = IF c \in asks[q].columns THEN q ELSE rows[Target(q)][c]
  PROVE  Edits!ENext
<1>1. PICK i \in Ids : i = Target(q)
  BY PlacedAsks
<1>2. /\ Table' = [Table EXCEPT ![i] = TableRow(i)'] /\ Table[i] = TableRow(i) /\ rows'[i] = row
      /\ i \in raced' <=> i \in raced \/ q \in stale
      /\ OrderOf(q)' = AppliedOrder /\ \A p \in Others(q) : OrderOf(p)' = OrderOf(p)
  BY <1>1, TableWritten
<1>3. PICK columns : columns = [c \in asks[q].columns |-> q]
  OBVIOUS
<1>4. OrderOf(q) = [kind |-> "change", key |-> i, columns |-> columns] /\ OrderOf(q) \in Edits!Orders
  BY <1>1, <1>3, PlacedOrder
<1>5. Edits!Change(i, columns)
  <2>1. CASE i \in raced'
    BY <1>2, <2>1 DEF TableRow, Edits!Change
  <2>2. CASE i \notin raced'
    <3>1. /\ Exists(i) /\ i \notin raced
          /\ \A c \in Columns : row[c] = IF c \in asks[q].columns THEN q ELSE rows[i][c]
      BY <1>1, <1>2, <2>2
    <3>2. TableRow(i) = [c \in Columns |-> rows[i][c]] /\ TableRow(i) \in Edits!Rows
      BY <3>1, RowsOfTable
    <3>3. TableRow(i)' = [c \in Columns |-> row[c]]
      BY <1>2, <2>2, RowTypes DEF TableRow, Exists
    <3>4. TableRow(i)' = Edits!Edited(TableRow(i), columns)
      BY <1>3, <3>1, <3>2, <3>3 DEF Edits!Edited
    <3>. QED
      BY <1>2, <3>2, <3>4 DEF Edits!Change
  <2>. QED
    BY <2>1, <2>2
<1>6. Edits!Change(OrderOf(q).key, OrderOf(q).columns)
  BY <1>4, <1>5
<1>. QED
  BY <1>2, <1>4, <1>6, WriteEdit

LEMMA SaveEdit ==
  ASSUME RowInv, RowInv', NEW q \in Requests, at[q] = "save", Writes(q, Assigned(q, copy[q]))
  PROVE  Edits!ENext
<1>1. Placed(q) /\ asks[q].kind = "update"
  BY PlacedAsks DEF Placed
<1>2. copy[q] \in RowType /\ (q \in stale \/ copy[q] = rows[Target(q)])
  BY DEF RowInv, Holds
<1>3. PICK row \in RowType : row = Assigned(q, copy[q])
  BY <1>2, RowTypes
<1>4. \A c \in Columns : row[c] = IF c \in asks[q].columns THEN q ELSE copy[q][c]
  BY <1>2, <1>3 DEF Assigned, RowType, Columns
<1>5. q \notin stale => Exists(Target(q))
  BY <1>2, RowTypes DEF Exists
<1>. QED
  BY <1>1, <1>2, <1>3, <1>4, <1>5, ChangeEdit

\* The removal of one row, which may be gone.
LEMMA DeleteEdit ==
  ASSUME RowInv, RowInv', NEW q \in Requests, at[q] \in {"remove", "delete"}, Writes(q, Gone)
  PROVE  Edits!ENext
<1>1. PICK i \in Ids : i = Target(q)
  BY PlacedAsks DEF Placed
<1>2. asks[q].kind = "remove" /\ asks[q].service \in Tables /\ rows[i] # NoRow /\ q \notin stale
  <2>1. asks[q].kind = "remove" /\ asks[q].service \in Tables
    BY PlacedAsks DEF Placed
  <2>. QED
    BY <1>1, <2>1 DEF RowInv, Found, Marks
<1>3. /\ Table' = [Table EXCEPT ![i] = TableRow(i)'] /\ Table[i] = TableRow(i) /\ rows'[i] = Gone
      /\ i \in raced' <=> i \in raced
      /\ OrderOf(q)' = AppliedOrder /\ \A p \in Others(q) : OrderOf(p)' = OrderOf(p)
  BY <1>1, <1>2, TableWritten
<1>4. OrderOf(q) = [kind |-> "remove", keys |-> {i}] /\ OrderOf(q) \in Edits!Orders
  <2>1. asks[q].service # "users"
    BY <1>2 DEF Tables
  <2>2. {j \in Ids : IF asks[q].service = "users" THEN Owner[j] = asks[q].user ELSE j = Target(q)} = {i}
    BY <1>1, <2>1
  <2>. QED
    BY <1>2, <2>2, PlacedOrder DEF Placed
<1>5. TableRow(i)' = IF Table[i] \in Edits!Rows THEN Gone ELSE Table[i]
  BY <1>2, <1>3, RowsOfTable, ExistingRows, RowTypes DEF TableRow, Exists
<1>6. Edits!Remove(OrderOf(q).keys)
  <2>1. Table' = [k \in Ids |-> IF k \in {i} /\ Table[k] \in Edits!Rows THEN Gone ELSE Table[k]]
    BY <1>3, <1>5 DEF Table
  <2>. QED
    BY <1>4, <2>1 DEF Edits!Remove
<1>. QED
  BY <1>3, <1>4, <1>6, WriteEdit

\* A user is removed, with all the rows of the user.
LEMMA RemoveUserEdit ==
  ASSUME RowInv, RowInv', NEW q \in Requests, StepOf(q), RemoveUser(q), asks[q].user \in users
  PROVE  Edits!ENext
<1>1. PICK u : u = asks[q].user
  OBVIOUS
<1>2. /\ rows' = [i \in Ids |-> IF Owner[i] = u /\ Exists(i) THEN Gone ELSE rows[i]]
      /\ landed' = landed \cup {q} /\ raced' = raced /\ Placed(q) /\ at[q] = "delete user"
  BY <1>1 DEF RemoveUser, Placed
<1>3. asks[q].kind = "remove" /\ asks[q].service = "users"
  BY <1>2, PlacedAsks
<1>4. OrderOf(q) = [kind |-> "remove", keys |-> {i \in Ids : Owner[i] = u}] /\ OrderOf(q) \in Edits!Orders
  BY <1>1, <1>2, <1>3, PlacedOrder
<1>5. ASSUME NEW i \in Ids
      PROVE  TableRow(i)' = IF Owner[i] = u /\ TableRow(i) \in Edits!Rows THEN Gone ELSE TableRow(i)
  <2>1. rows'[i] = (IF Owner[i] = u /\ Exists(i) THEN Gone ELSE rows[i]) /\ (i \in raced' <=> i \in raced)
    BY <1>2
  <2>2. TableRow(i) \in Edits!Rows <=> i \notin raced /\ Exists(i)
    BY RowsOfTable
  <2>. QED
    BY <2>1, <2>2, RowTypes DEF TableRow, Exists
<1>6. Edits!Remove(OrderOf(q).keys)
  <2>1. Table' = [i \in Ids |-> IF i \in {j \in Ids : Owner[j] = u} /\ Table[i] \in Edits!Rows
                                THEN Gone ELSE Table[i]]
    BY <1>5 DEF Table
  <2>. QED
    BY <1>4, <2>1 DEF Edits!Remove
<1>7. OrderOf(q)' = AppliedOrder
  BY <1>2, OrderStagesNext DEF Staged
<1>8. \A p \in Others(q) : OrderOf(p)' = OrderOf(p)
  BY <1>2, OrdersStay
<1>. QED
  BY <1>4, <1>6, <1>7, <1>8, WriteEdit

\* How a request comes to its next await when it writes nothing.
Proceeds(q) ==
  \/ at'[q] \in Ended
  \/ at[q] = "find" /\ at'[q] \in {"save", "remove"} /\ asks'[q] = asks[q]
  \/ ~Placed(q)

LEMMA QuietEdits ==
  ASSUME RowInv, RowInv', NEW q \in Requests, StepOf(q), UNCHANGED <<rows, landed, raced>>,
         at[q] \notin Ended, Proceeds(q)
  PROVE  [Edits!ENext]_(Edits!evars)
<1>1. Staged(q) /\ Staged(q)'
  BY OrderStages, OrderStagesNext
<1>2. \A p \in Others(q) : OrderOf(p)' = OrderOf(p)
  BY OrdersStay
<1>3. UNCHANGED Table
  BY DEF Table, TableRow, Exists
<1>4. CASE q \in landed
  BY <1>1, <1>2, <1>3, <1>4, QuietEdit DEF Staged
<1>5. CASE q \notin landed
  <2>1. OrderOf(q) \in {IdleOrder} \cup Edits!Orders
    BY <1>1, <1>5 DEF Staged
  <2>2. CASE at'[q] \in Ended
    <3>1. OrderOf(q)' = RefusedOrder
      BY <1>1, <1>5, <2>2 DEF Staged
    <3>. QED
      BY <1>2, <1>3, <2>1, <3>1, OrderKinds, QuietEdit
  <2>3. CASE at[q] = "find" /\ at'[q] \in {"save", "remove"} /\ asks'[q] = asks[q]
    <3>1. asks[q].kind \in {"update", "remove"}
      <4>1. Stage(q)'
        BY DEF RowInv, Stages
      <4>. QED
        BY <2>3, <4>1 DEF Stage, Fits, Is, Ended
    <3>2. Placed(q) /\ Placed(q)' /\ Target(q)' = Target(q)
      BY <2>3, <3>1 DEF Placed, Target
    <3>3. Order(q)' = Order(q)
      BY <2>3, <3>1, <3>2 DEF Order
    <3>4. OrderOf(q)' = OrderOf(q)
      BY <1>5, <3>2, <3>3 DEF OrderOf
    <3>. QED
      BY <1>2, <1>3, <3>4, QuietEdit
  <2>4. CASE ~Placed(q) /\ at'[q] \notin Ended
    <3>1. OrderOf(q) = IdleOrder
      BY <1>1, <1>5, <2>4 DEF Staged
    <3>2. OrderOf(q)' \in {IdleOrder} \cup Edits!Orders
      BY <1>1, <1>5, <2>4 DEF Staged
    <3>. QED
      BY <1>2, <1>3, <3>1, <3>2, QuietEdit
  <2>. QED
    BY <2>2, <2>3, <2>4 DEF Proceeds
<1>. QED
  BY <1>4, <1>5

\* findOne, as far as rows go.
LEMMA FindEdit ==
  ASSUME RowInv, RowInv', NEW q \in Requests, StepOf(q), NEW i, NEW next, FindOwn(q, i, next),
         next \in {"save", "remove"} \/ ~Placed(q)
  PROVE  [Edits!ENext]_(Edits!evars)
<1>1. at \in [Requests -> Awaits]
  BY DEF RowInv, Types
<1>2. at[q] \notin Ended /\ UNCHANGED <<rows, landed, raced>>
  BY DEF FindOwn, Stays, Ended
<1>3. Proceeds(q)
  BY <1>1 DEF FindOwn, Goto, Answer, Proceeds, Ended
<1>. QED
  BY <1>2, <1>3, QuietEdits

LEMMA FlowEdits ==
  ASSUME RowInv, HistoryInv, RowInv', NEW q \in Requests, FlowStep(q)
  PROVE  [Edits!ENext]_(Edits!evars)
<1>1. StepOf(q) /\ at[q] \notin Ended /\ at \in [Requests -> Awaits]
  BY FlowRows, NotEnded DEF StepIn, Services, Tables, RowInv, Types
<1>2. CASE CreateFlow(q)
  <2>1. PICK row : row = Row("flows", q)
    OBVIOUS
  <2>2. /\ row \in RowType /\ row.text = q /\ row.mark = None
        /\ InsertRow(q, row, "done") /\ at[q] = "insert" /\ Asks(q, "create", "flows")
    BY <1>2, <2>1, RowTypes DEF CreateFlow, InsertRow, Row, Tables
  <2>3. \/ Quiet(q) /\ at'[q] \in Ended
        \/ Writes(q, row)
    BY <2>2, InsertRows DEF Asks, Tables, Ended
  <2>4. CASE Quiet(q) /\ at'[q] \in Ended
    BY <1>1, <2>4, QuietEdits DEF Quiet, Proceeds
  <2>5. CASE Writes(q, row)
    BY <2>2, <2>5, InsertEdit DEF Asks
  <2>. QED
    BY <2>3, <2>4, <2>5
<1>3. CASE FindFlow(q)
  <2>1. \/ FindOwn(q, Target(q), "save") \/ FindOwn(q, Target(q), "remove")
        \/ Asks(q, "create history", "flows") /\ FindOwn(q, Target(q), "insert history")
    BY <1>3 DEF FindFlow
  <2>2. Asks(q, "create history", "flows") => ~Placed(q)
    BY PlacedAsks DEF Asks
  <2>. QED
    BY <1>1, <2>1, <2>2, FindEdit
<1>4. CASE UpdateFlow(q)
  <2>1. at[q] = "save" /\ at'[q] \in Ended /\ (Quiet(q) \/ Writes(q, Assigned(q, copy[q])))
    BY <1>4, SaveRows DEF UpdateFlow, SaveRow
  <2>. QED
    BY <1>1, <2>1, QuietEdits, SaveEdit DEF Quiet, Proceeds
<1>5. CASE RemoveFlow(q)
  BY <1>5, DeleteRows, DeleteEdit DEF RemoveFlow
<1>6. CASE ReceiveFlow(q) \/ CreateHistory(q) \/ FindHistory(q) \/ RemoveHistory(q)
  <2>1. UNCHANGED <<rows, landed, raced>> /\ at[q] \in {"new", "insert history", "history", "remove history"}
    BY <1>6 DEF ReceiveFlow, Receive, CreateHistory, FindHistory, RemoveHistory, Stays
  <2>2. ~Placed(q)
    BY <2>1 DEF Placed
  <2>. QED
    BY <1>1, <2>1, <2>2, QuietEdits DEF Proceeds
<1>7. CASE FindFlowOfHistory(q)
  <2>1. PICK i : FindOwn(q, i, "remove history")
    BY <1>7 DEF FindFlowOfHistory
  <2>2. ~Placed(q)
    BY <1>7, PlacedAsks DEF FindFlowOfHistory, Asks
  <2>. QED
    BY <1>1, <2>1, <2>2, FindEdit
<1>. QED
  BY <1>2, <1>3, <1>4, <1>5, <1>6, <1>7 DEF FlowStep

LEMMA NotificationEdits ==
  ASSUME RowInv, RowInv', NEW q \in Requests, NotificationStep(q)
  PROVE  [Edits!ENext]_(Edits!evars)
<1>1. StepOf(q) /\ at[q] \notin Ended /\ at \in [Requests -> Awaits]
  BY NotificationRows, NotEnded DEF StepIn, Services, Tables, RowInv, Types
<1>2. CASE CreateNotification(q)
  <2>1. PICK row : row = Row("notifications", q)
    OBVIOUS
  <2>2. /\ row \in RowType /\ row.text = q /\ row.mark = None
        /\ InsertRow(q, row, "emit") /\ at[q] = "insert" /\ Asks(q, "create", "notifications")
    BY <1>2, <2>1, RowTypes DEF CreateNotification, InsertRow, Row, Tables
  <2>3. \/ Quiet(q) /\ at'[q] \in Ended
        \/ Writes(q, row)
    BY <2>2, InsertRows DEF Asks, Is, Tables, Ended
  <2>4. CASE Quiet(q) /\ at'[q] \in Ended
    BY <1>1, <2>4, QuietEdits DEF Quiet, Proceeds
  <2>5. CASE Writes(q, row)
    BY <2>2, <2>5, InsertEdit DEF Asks
  <2>. QED
    BY <2>3, <2>4, <2>5
<1>3. CASE FindNotification(q)
  BY <1>1, <1>3, FindEdit DEF FindNotification
<1>4. CASE SaveNotification(q)
  <2>1. at[q] = "save" /\ at'[q] \in Ended /\ (Quiet(q) \/ Writes(q, Assigned(q, copy[q])))
    BY <1>4, SaveRows DEF SaveNotification, SaveRow
  <2>. QED
    BY <1>1, <2>1, QuietEdits, SaveEdit DEF Quiet, Proceeds
<1>5. CASE DeleteNotification(q)
  <2>1. at[q] = "delete" /\ (DeleteRow(q) \/ (Answer(q, "rejected") /\ Stays))
    BY <1>5 DEF DeleteNotification
  <2>2. CASE DeleteRow(q)
    BY <2>1, <2>2, DeleteRows, DeleteEdit
  <2>3. CASE Answer(q, "rejected") /\ Stays
    <3>1. at'[q] \in Ended
      BY <1>1, <2>3 DEF Answer, Goto, Ended
    <3>. QED
      BY <1>1, <2>3, <3>1, QuietEdits DEF Stays, Proceeds
  <2>. QED
    BY <2>1, <2>2, <2>3
<1>6. CASE OpenStream(q) \/ FindPage(q) \/ CountRows(q) \/ CloseStream(q) \/ ReceiveNotification(q) \/ Emit(q)
  <2>1. UNCHANGED <<rows, landed, raced>> /\ (at[q] \in {"new", "rows", "count", "emit"} \/ Follows(q))
    BY <1>6 DEF OpenStream, FindPage, CountRows, CloseStream, ReceiveNotification, Emit, Receive, Stays
  <2>2. ~Placed(q)
    BY <2>1, PlacedAsks DEF Placed, Follows, Asks
  <2>. QED
    BY <1>1, <2>1, <2>2, QuietEdits DEF Proceeds
<1>. QED
  BY <1>2, <1>3, <1>4, <1>5, <1>6 DEF NotificationStep

LEMMA UploadEdits ==
  ASSUME RowInv, RowInv', NEW q \in Requests, UploadStep(q)
  PROVE  [Edits!ENext]_(Edits!evars)
<1>1. StepOf(q) /\ at[q] \notin Ended /\ at \in [Requests -> Awaits]
  BY UploadRows, NotEnded DEF StepIn, Services, Tables, RowInv, Types
<1>2. CASE ReceiveUpload(q) \/ PutObject(q) \/ TranscribeAudio(q)
  <2>1. UNCHANGED <<rows, landed, raced>> /\ at[q] \in {"new", "put", "transcribe"}
    BY <1>2 DEF ReceiveUpload, Receive, PutObject, TranscribeAudio, Stays
  <2>2. ~Placed(q)
    BY <2>1 DEF Placed
  <2>. QED
    BY <1>1, <2>1, <2>2, QuietEdits DEF Proceeds
<1>3. CASE InsertUpload(q)
  <2>1. InsertRow(q, copy[q], "done") /\ at[q] = "insert" /\ asks[q].service \in {"files", "audios"}
    BY <1>3 DEF InsertUpload, InsertRow
  <2>2. copy[q] \in RowType /\ copy[q].mark = None /\ asks[q].kind = "create"
    BY <2>1, PlacedAsks DEF RowInv, Holds, Placed
  <2>3. \/ Quiet(q) /\ at'[q] \in Ended
        \/ Writes(q, copy[q])
    BY <2>1, <2>2, InsertRows DEF Tables, Ended
  <2>4. CASE Quiet(q) /\ at'[q] \in Ended
    BY <1>1, <2>4, QuietEdits DEF Quiet, Proceeds
  <2>5. CASE Writes(q, copy[q])
    BY <2>1, <2>2, <2>5, InsertEdit
  <2>. QED
    BY <2>3, <2>4, <2>5
<1>4. CASE DeactivateAudio(q)
  <2>1. at[q] = "deactivate" /\ at'[q] \in Ended
    BY <1>1, <1>4 DEF DeactivateAudio, Answer, Goto, Ended
  <2>2. CASE Exists(Target(q))
    <3>1. Placed(q) /\ Target(q) \in Ids /\ asks[q].kind = "update" /\ asks[q].columns = {"mark"}
      <4>1. Placed(q) /\ Stage(q)
        BY <2>1 DEF Placed, RowInv, Stages
      <4>. QED
        BY <2>1, <4>1, PlacedAsks DEF Stage, Fits, Is, Ended
    <3>2. PICK row : row = [rows[Target(q)] EXCEPT !.mark = q]
      OBVIOUS
    <3>3. rows[Target(q)] \in RowType
      BY <2>2, <3>1, ExistingRows
    <3>4. /\ row \in RowType
          /\ \A c \in Columns : row[c] = IF c \in asks[q].columns THEN q ELSE rows[Target(q)][c]
      BY <3>1, <3>2, <3>3 DEF RowType, Columns
    <3>5. Writes(q, row)
      BY <1>1, <1>4, <2>2, <3>2 DEF DeactivateAudio, Writes
    <3>. QED
      BY <2>2, <3>1, <3>4, <3>5, ChangeEdit
  <2>3. CASE ~Exists(Target(q))
    BY <1>1, <1>4, <2>1, <2>3, QuietEdits DEF DeactivateAudio, Proceeds
  <2>. QED
    BY <2>2, <2>3
<1>. QED
  BY <1>2, <1>3, <1>4 DEF UploadStep

\* Subscriptions and sockets write no rows.
LEMMA OtherEdits ==
  ASSUME RowInv, SocketInv, RowInv', NEW q \in Requests, SubscriptionStep(q) \/ SocketStep(q)
  PROVE  [Edits!ENext]_(Edits!evars)
<1>1. StepIn(q, {"push", "chat"})
  <2>1. StepIn(q, {"push"}) \/ StepIn(q, {"chat"})
    BY SubscriptionRows, SocketRows
  <2>. QED
    BY <2>1 DEF StepIn
<1>2. StepOf(q) /\ at[q] \notin Ended
  BY <1>1, NotEnded DEF StepIn, Services
<1>3. ~Placed(q)
  <2>1. at[q] = "new" \/ asks[q].service \in {"push", "chat"}
    BY <1>1 DEF StepIn
  <2>2. Placed(q) => asks[q].service \in Tables \cup {"users"} /\ at[q] # "new"
    BY PlacedAsks
  <2>. QED
    BY <2>1, <2>2 DEF Tables
<1>4. UNCHANGED <<rows, landed, raced>>
  <2>1. CASE SubscriptionStep(q)
    BY <2>1 DEF SubscriptionStep, ReceiveSubscribe, FindEndpoint, SaveSubscription, SendToUser,
       FindSubscriptions, AllSent, SendPush, DeleteEndpoint, DeleteRejected, Receive, Stays
  <2>2. CASE SocketStep(q)
    BY <2>2 DEF SocketStep, HandleConnection, VerifyToken, RegisterClient, AuthenticationRejected,
       HandleDisconnect, Receive, Stays
  <2>. QED
    BY <2>1, <2>2
<1>. QED
  BY <1>2, <1>3, <1>4, QuietEdits DEF Proceeds

LEMMA LeaveEdits ==
  ASSUME RowInv, RowInv', NEW q \in Requests, Leave(q)
  PROVE  [Edits!ENext]_(Edits!evars)
<1>1. StepOf(q) /\ at[q] \notin Ended /\ at \in [Requests -> Awaits]
  BY LeaveRows, NotEnded DEF StepIn, Services, RowInv, Types
<1>2. CASE ReceiveRemoveUser(q)
  BY <1>1, <1>2, QuietEdits DEF ReceiveRemoveUser, Receive, Stays, Proceeds, Placed
<1>3. CASE RemoveUser(q)
  <2>1. CASE asks[q].user \in users
    BY <1>1, <1>3, <2>1, RemoveUserEdit
  <2>2. CASE asks[q].user \notin users
    <3>1. Answer(q, "rejected") /\ UNCHANGED <<rows, landed, raced>>
      BY <1>3, <2>2 DEF RemoveUser, WroteNothing
    <3>2. at'[q] \in Ended
      BY <1>1, <3>1 DEF Answer, Goto, Ended
    <3>. QED
      BY <1>1, <3>1, <3>2, QuietEdits DEF Proceeds
  <2>. QED
    BY <2>1, <2>2
<1>. QED
  BY <1>2, <1>3 DEF Leave

LEMMA LostEdits ==
  ASSUME RowInv, RowInv', NEW q \in Requests, CallLost(q)
  PROVE  [Edits!ENext]_(Edits!evars)
<1>1. StepIn(q, Services) /\ Quiet(q) /\ at'[q] = "rejected"
  BY LostRows
<1>2. StepOf(q) /\ at[q] \notin Ended
  BY <1>1, NotEnded DEF StepIn
<1>. QED
  BY <1>1, <1>2, QuietEdits DEF Quiet, Proceeds, Ended

\* A restart refuses what is under way and has not been written.
LEMMA RestartEdits ==
  ASSUME RowInv, RowInv', Restart
  PROVE  [Edits!ENext]_(Edits!evars)
<1>1. UNCHANGED <<rows, landed, raced>>
      /\ at' = [q \in Requests |-> IF q \in Running THEN "rejected" ELSE at[q]]
  BY DEF Restart
<1>2. UNCHANGED Table
  BY <1>1 DEF Table, TableRow, Exists
<1>3. PICK Q \in SUBSET Requests : Q = Running \ landed
  BY DEF Running
<1>4. ASSUME NEW q \in Requests
      PROVE  /\ q \in Q => OrderOf(q)' = RefusedOrder /\ OrderOf(q) \notin {AppliedOrder, RefusedOrder}
             /\ q \notin Q => OrderOf(q)' = OrderOf(q)
  <2>1. Staged(q) /\ Staged(q)'
    BY OrderStages, OrderStagesNext
  <2>2. q \in landed' <=> q \in landed
    BY <1>1
  <2>3. CASE q \in Q
    <3>1. at[q] \notin Ended /\ at'[q] \in Ended /\ q \notin landed
      BY <1>1, <1>3, <2>3 DEF Running, Ended
    <3>2. OrderOf(q)' = RefusedOrder
      BY <2>1, <2>2, <3>1 DEF Staged
    <3>3. OrderOf(q) \in {IdleOrder} \cup Edits!Orders
      BY <2>1, <3>1 DEF Staged
    <3>. QED
      BY <2>3, <3>2, <3>3, OrderKinds
  <2>4. CASE q \in landed
    BY <1>3, <2>1, <2>2, <2>4 DEF Staged
  <2>5. CASE q \notin Running /\ q \notin landed
    <3>1. at'[q] = at[q] /\ at[q] \in Ended \cup {"new"}
      BY <1>1, <2>5 DEF Running
    <3>2. ~Placed(q) /\ ~Placed(q)'
      BY <3>1 DEF Placed, Ended
    <3>. QED
      BY <1>3, <2>1, <2>2, <2>5, <3>1, <3>2 DEF Staged
  <2>. QED
    BY <1>3, <2>3, <2>4, <2>5
<1>5. \A q \in Requests : OrdersTaken[q] = OrderOf(q) /\ OrdersTaken'[q] = OrderOf(q)'
  BY DEF OrdersTaken
<1>6. OrdersTaken' = [q \in Requests |-> IF q \in Q THEN RefusedOrder ELSE OrdersTaken[q]]
  BY <1>4, <1>5 DEF OrdersTaken
<1>7. {q \in Requests : OrdersTaken'[q] # OrdersTaken[q]} = Q
  BY <1>4, <1>5
<1>8. CASE Q = {}
  <2>1. OrdersTaken' = OrdersTaken
    BY <1>4, <1>8 DEF OrdersTaken
  <2>. QED
    BY <1>2, <2>1 DEF Edits!evars
<1>9. CASE Q # {}
  <2>1. Edits!Refuse(Q)
    BY <1>2, <1>4, <1>5, <1>6, <1>9 DEF Edits!Refuse, AppliedOrder, RefusedOrder
  <2>. QED
    BY <1>7, <2>1 DEF Edits!ENext
<1>. QED
  BY <1>8, <1>9

LEMMA SameEdits ==
  ASSUME UNCHANGED ovars
  PROVE  UNCHANGED Edits!evars
<1>1. UNCHANGED Table
  BY DEF ovars, Table, TableRow, Exists
<1>2. ASSUME NEW q \in Requests PROVE OrderOf(q)' = OrderOf(q)
  <2>1. Target(q)' = Target(q) /\ (Placed(q)' <=> Placed(q))
    BY DEF ovars, Target, Placed
  <2>2. Order(q)' = Order(q)
    BY <2>1 DEF ovars, Order
  <2>. QED
    BY <2>1, <2>2 DEF ovars, OrderOf
<1>3. UNCHANGED OrdersTaken
  BY <1>2 DEF OrdersTaken
<1>. QED
  BY <1>1, <1>3 DEF Edits!evars

LEMMA InitEdits ==
  ASSUME SvInit, SvInv
  PROVE  Edits!EInit
<1>1. RowInv /\ raced = {} /\ landed = {}
  BY DEF SvInit, SvInv, OInit
<1>2. ASSUME NEW q \in Requests PROVE OrderOf(q) = IdleOrder
  <2>1. at[q] = "new"
    BY DEF SvInit, OInit
  <2>2. ~Placed(q) /\ at[q] \notin Ended
    BY <2>1 DEF Placed, Ended
  <2>. QED
    BY <1>1, <2>2, OrderStages DEF Staged
<1>3. \A i \in Ids : TableRow(i) \in Edits!Rows \cup {NoRow, Gone}
  BY <1>1, RowsOfTable, ExistingRows DEF TableRow
<1>4. Table \in [Ids -> Edits!Rows \cup {NoRow, Gone}]
  BY <1>3 DEF Table
<1>5. OrdersTaken = [q \in Requests |-> IdleOrder]
  BY <1>2 DEF OrdersTaken
<1>. QED
  BY <1>4, <1>5 DEF Edits!EInit, IdleOrder

LEMMA StepEdits == SvInv /\ SvInv' /\ [SvNext]_svvars => [Edits!ENext]_(Edits!evars)
<1>. SUFFICES ASSUME SvInv, SvInv', [SvNext]_svvars
              PROVE  [Edits!ENext]_(Edits!evars)
  OBVIOUS
<1>1. RowInv /\ RowInv' /\ HistoryInv /\ SocketInv
  BY DEF SvInv
<1>2. CASE \E q \in Requests :
             \/ FlowStep(q) /\ FlowsOnly
             \/ NotificationStep(q) /\ NotificationsOnly
             \/ UploadStep(q) /\ UploadsOnly
             \/ SubscriptionStep(q) /\ PushOnly
             \/ SocketStep(q) /\ SocketsOnly
             \/ Leave(q) /\ PushOnly
             \/ CallLost(q) /\ FlowsOnly /\ UNCHANGED hvars
  BY <1>1, <1>2, FlowEdits, NotificationEdits, UploadEdits, OtherEdits, LeaveEdits, LostEdits
<1>3. CASE \E e \in Endpoints : Lapse(e) /\ PushOnly
  BY <1>3, SameEdits DEF Lapse
<1>4. CASE Restart
  BY <1>1, <1>4, RestartEdits
<1>5. CASE UNCHANGED svvars
  BY <1>5, SameEdits DEF svvars
<1>. QED
  BY <1>2, <1>3, <1>4, <1>5 DEF SvNext

\* Each request on a flow, a notification, an upload or a user takes effect on
\* the rows in one step, once, with the columns it brings, and what was removed
\* stays removed; but for a row over which a copy older than it has been saved.
THEOREM RowsAreEditedAtomically == SvSpec => RowsEditedAtomically
<1>1. SvInit => SvInv
  BY SvInitially
<1>2. SvInit /\ SvInv => Edits!EInit
  BY InitEdits
<1>. QED
  BY <1>1, <1>2, StepEdits, ServicesAreInductive, PTL
  DEF SvSpec, RowsEditedAtomically, Edits!ESpec
=============================================================================
