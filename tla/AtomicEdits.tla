------------------------------ MODULE AtomicEdits ------------------------------
(***************************************************************************)
(* What a service that keeps rows of a table is expected to do: each       *)
(* request takes effect in one step, once, changes the columns it brings   *)
(* and no others, and a row that was removed stays removed.                *)
(*                                                                         *)
(* The services of this server read a row, wait, and save all of it, which *)
(* is this only as long as nobody else writes the row in between: a row    *)
(* may therefore become Uncertain by a change, and says nothing from then  *)
(* on.  The detailed modules say precisely when that is.                   *)
(***************************************************************************)
CONSTANTS
  Keys,      \* keys of rows
  Columns,   \* the columns requests change
  Values,    \* what they hold
  Requests,
  Absent,    \* in place of a row: there has been none yet
  Removed,   \* in place of a row: it was removed
  Uncertain, \* in place of a row: an old copy was saved over it
  Idle,      \* in place of an order: the request has not got to it
  Applied,   \* in place of an order: it has taken effect
  Refused    \* in place of an order: it never will

VARIABLES
  table, \* table[k]: the row of key k
  order  \* order[q]: what request q is to do

evars == <<table, order>>

Rows   == [Columns -> Values]
Parts  == UNION {[C -> Values] : C \in SUBSET Columns}

\* One row is inserted or changed; a removal may be of several.
Orders ==
  [kind : {"insert", "change"}, key : Keys, columns : Parts]
    \cup [kind : {"remove"}, keys : SUBSET Keys]

\* A row once the columns of an order are assigned.
Edited(row, columns) ==
  [c \in Columns |-> IF c \in DOMAIN columns THEN columns[c] ELSE row[c]]

EInit ==
  /\ table \in [Keys -> Rows \cup {Absent, Removed}]
  /\ order = [q \in Requests |-> Idle]

\* Request q comes to an order, or to its end.
Becomes(q, o) == order' = [order EXCEPT ![q] = o]

Place(q) ==
  /\ order[q] = Idle
  /\ order'[q] \in Orders /\ Becomes(q, order'[q])
  /\ UNCHANGED table

\* One request fails, or all those that are under way do.
Refuse(Q) ==
  /\ Q # {}
  /\ \A q \in Q : order[q] \notin {Applied, Refused}
  /\ order' = [q \in Requests |-> IF q \in Q THEN Refused ELSE order[q]]
  /\ UNCHANGED table

\* The one step in which q takes effect.
Insert(k, columns) ==
  /\ table[k] = Absent /\ columns \in Rows
  /\ table' = [table EXCEPT ![k] = columns]

Change(k, columns) ==
  \/ table[k] \in Rows /\ table' = [table EXCEPT ![k] = Edited(@, columns)]
  \/ table' = [table EXCEPT ![k] = Uncertain]

Remove(K) ==
  table' = [k \in Keys |-> IF k \in K /\ table[k] \in Rows THEN Removed ELSE table[k]]

Execute(q) ==
  /\ order[q] \notin {Idle, Applied, Refused}
  /\ \/ order[q].kind = "insert" /\ Insert(order[q].key, order[q].columns)
     \/ order[q].kind = "change" /\ Change(order[q].key, order[q].columns)
     \/ order[q].kind = "remove" /\ Remove(order[q].keys)
     \/ order[q].kind # "remove" /\ table[order[q].key] = Uncertain /\ UNCHANGED table
  /\ Becomes(q, Applied)

\* A request in a step never stays where it is.
ENext ==
  LET moving == {q \in Requests : order'[q] # order[q]} IN
    Refuse(moving) \/ \E q \in moving : Place(q) \/ Execute(q)

ESpec == EInit /\ [][ENext]_evars
=============================================================================
