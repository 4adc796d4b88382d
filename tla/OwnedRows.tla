------------------------------ MODULE OwnedRows ------------------------------
(***************************************************************************)
(* Rows that hang on a user: notifications, flows, files and audios.       *)
(*                                                                         *)
(* Their services are written alike.  A row is inserted with the uuid of   *)
(* the caller, which the foreign key checks; a change finds the row, looks *)
(* whose it is, assigns the columns of the body to the entity and saves    *)
(* it; users.service.ts removes a user, and the database all its rows.     *)
(* Repository.save writes the whole entity and inserts it when the row is  *)
(* gone.  This module holds the tables and these steps; the modules of the *)
(* services make their operations of them.                                 *)
(*                                                                         *)
(* A row has two columns, for whichever a service changes: `text' (title,  *)
(* nodes, transcription) and `mark' (readAt, description, isActive).  What *)
(* a request writes in them is its own name.                               *)
(***************************************************************************)
EXTENDS Naturals, FiniteSets

CONSTANTS
  Users,
  Ids,       \* uuids of rows
  Owner,     \* Owner[i]: the user whose row i is or will be
  Stored,    \* uuids of rows that are there at the start
  Requests,  \* what clients open: HTTP requests, event streams and sockets
  None,
  MaxFaults  \* bound: calls that reject and restarts

ASSUME OwnerAssumption == Owner \in [Ids -> Users] /\ Stored \subseteq Ids
ASSUME StoredIsFinite == IsFiniteSet(Stored)
ASSUME NoneIsNoRequest == None \notin Requests
ASSUME NoneIsNoUser == None \notin Users
ASSUME MaxFaultsAssumption == MaxFaults \in Nat

VARIABLES
  users, \* users that have a row
  rows,  \* rows[i], with the table it is in
  asks,  \* asks[q]: what q asks for
  at,    \* at[q]: the await it is in
  copy,  \* copy[q]: the row it has read, or what else it has in its hands
  faults,

  \* history
  landed, \* requests whose write has been carried out
  stale,  \* requests whose copy is older than the row
  raced   \* rows that such a copy has been saved over

ovars == <<users, rows, asks, at, copy, faults, landed, stale, raced>>

Tables  == {"notifications", "flows", "files", "audios"}
Columns == {"text", "mark"}

NoRow == [state |-> "none"]
Gone  == [state |-> "removed"]
Row(table, text) == [state |-> "exists", table |-> table, text |-> text, mark |-> None]
Exists(i) == rows[i].state = "exists"
IsIn(i, table) == Exists(i) /\ rows[i].table = table

\* What is asked of a service, by whom, of which row, and the columns it brings.
Ask(kind, service, user, on, columns) ==
  [kind |-> kind, service |-> service, user |-> user, on |-> on, columns |-> columns]
Nothing == Ask("none", "none", None, None, {})
Target(q) == asks[q].on
Asks(q, kind, service) == asks[q].kind = kind /\ asks[q].service = service

OInit ==
  /\ users = Users
  /\ \E table \in [Stored -> Tables] :
       rows = [i \in Ids |-> IF i \in Stored THEN Row(table[i], None) ELSE NoRow]
  /\ asks = [q \in Requests |-> Nothing]
  /\ at = [q \in Requests |-> "new"]
  /\ copy = [q \in Requests |-> NoRow]
  /\ faults = 0
  /\ landed = {}
  /\ stale = {}
  /\ raced = {}

-----------------------------------------------------------------------------
(* What the steps of a request are made of.                                 *)

Ended == {"done", "rejected"}
Running == {q \in Requests : at[q] \notin Ended \cup {"new"}}

Goto(q, await) == at' = [at EXCEPT ![q] = await]

Stays == UNCHANGED <<users, rows, faults, landed, stale, raced>>

Receive(q, ask, first) ==
  /\ at[q] = "new"
  /\ asks' = [asks EXCEPT ![q] = ask]
  /\ Goto(q, first)
  /\ Stays

Answer(q, how) ==
  /\ Goto(q, how)
  /\ asks' = [asks EXCEPT ![q] = Nothing]
  /\ copy' = [copy EXCEPT ![q] = NoRow]

\* Requests other than q that hold a copy of row i and are going to save it.
Holders(q, i) == {p \in Requests \ {q} : at[p] = "save" /\ Target(p) = i}

\* Request q writes row i: copies of it grow stale, a stale one ends the order.
Wrote(q, i) ==
  /\ landed' = landed \cup {q}
  /\ stale' = (stale \ {q}) \cup Holders(q, i)
  /\ raced' = IF q \in stale THEN raced \cup {i} ELSE raced

WroteNothing(q) == stale' = stale \ {q} /\ UNCHANGED <<landed, raced>>

-----------------------------------------------------------------------------
(* The steps.                                                               *)

\* A uuid no row and no request has.
Fresh(i) == rows[i] = NoRow /\ ~\E p \in Running : Target(p) = i

\* The insert of a new row, which fails when the user is gone.
InsertRow(q, row, next) ==
  /\ at[q] = "insert"
  /\ IF asks[q].user \in users
     THEN /\ rows' = [rows EXCEPT ![Target(q)] = row]
          /\ Wrote(q, Target(q))
          /\ IF next = "done" THEN Answer(q, "done")
             ELSE Goto(q, next) /\ UNCHANGED <<asks, copy>>
     ELSE Answer(q, "rejected") /\ WroteNothing(q) /\ UNCHANGED rows
  /\ UNCHANGED <<users, faults>>

\* Mutant of FindOwn: what the query returns is not looked at.
FindOwnUnchecked(q, i, next) ==
  /\ at[q] = "find"
  /\ Goto(q, next) /\ copy' = [copy EXCEPT ![q] = rows[i]]
  /\ Stays /\ UNCHANGED asks

\* findOne(id, userId): the row, if it is there and the user's.
FindOwn(q, i, next) ==
  /\ at[q] = "find"
  /\ IF IsIn(i, asks[q].service) /\ Owner[i] = asks[q].user
     THEN Goto(q, next) /\ copy' = [copy EXCEPT ![q] = rows[i]] /\ UNCHANGED asks
     ELSE Answer(q, "rejected")
  /\ Stays

\* Mutant of Assigned: what the request brings is a row of its own.
AssignedAfresh(q, row) ==
  [row EXCEPT !.text = IF "text" \in asks[q].columns THEN q ELSE None,
              !.mark = IF "mark" \in asks[q].columns THEN q ELSE None]

\* Object.assign(entity, dto)
Assigned(q, row) ==
  [row EXCEPT !.text = IF "text" \in asks[q].columns THEN q ELSE @,
              !.mark = IF "mark" \in asks[q].columns THEN q ELSE @]

\* The whole entity is saved, over a newer row or in the place of none.
SaveRow(q) ==
  /\ at[q] = "save"
  /\ IF asks[q].user \in users
     THEN /\ rows' = [rows EXCEPT ![Target(q)] = Assigned(q, copy[q])]
          /\ Wrote(q, Target(q))
          /\ Answer(q, "done")
     ELSE Answer(q, "rejected") /\ WroteNothing(q) /\ UNCHANGED rows
  /\ UNCHANGED <<users, faults>>

\* The row is deleted, if it is still there.
DeleteRow(q) ==
  /\ rows' = [rows EXCEPT ![Target(q)] = IF Exists(Target(q)) THEN Gone ELSE @]
  /\ Wrote(q, Target(q))
  /\ Answer(q, "done")
  /\ UNCHANGED <<users, faults>>

-----------------------------------------------------------------------------
(* users.service.ts, as far as rows hang on it.                             *)

ReceiveRemoveUser(q) ==
  \E u \in Users :
    Receive(q, Ask("remove", "users", u, None, {}), "delete user") /\ UNCHANGED copy

\* onDelete: CASCADE, in one transaction.
RemoveUser(q) ==
  /\ at[q] = "delete user"
  /\ LET u == asks[q].user IN
       IF u \in users
       THEN /\ users' = users \ {u}
            /\ rows' = [i \in Ids |-> IF Owner[i] = u /\ Exists(i) THEN Gone ELSE rows[i]]
            /\ landed' = landed \cup {q}
            /\ stale' = stale \cup
                 {p \in Requests : at[p] = "save" /\ Owner[Target(p)] = u}
            /\ Answer(q, "done")
            /\ UNCHANGED raced
       ELSE Answer(q, "rejected") /\ WroteNothing(q) /\ UNCHANGED <<users, rows>>
  /\ UNCHANGED faults

\* A call that q waits for rejects, and wrote nothing.
CallRejected(q) ==
  /\ faults < MaxFaults
  /\ faults' = faults + 1
  /\ Answer(q, "rejected")
  /\ WroteNothing(q)
  /\ UNCHANGED <<users, rows>>
=============================================================================
