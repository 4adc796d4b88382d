--------------------------- MODULE Accounts_proofs ---------------------------
(***************************************************************************)
(* Proofs about the accounts, for any users, addresses and requests: the   *)
(* inductive invariant, what follows of it for passwords, codes and        *)
(* removed users, and that the service implements AtomicEdits.             *)
(*                                                                         *)
(* The argument turns on the copies that updates and resets hold across    *)
(* their await.  Every write of a row makes the other copies of it stale,  *)
(* so a copy that is not stale is the row, and saving it changes no more   *)
(* than the columns of the request.  A code and a password point back to   *)
(* the request that brought them, whose state cannot change any more.      *)
(***************************************************************************)
EXTENDS Accounts, TLAPS

-----------------------------------------------------------------------------
(* What a step of one request leaves alone.                                 *)

Others(q) == Requests \ {q}

\* Nothing of another request moves.
Alone(q) ==
  \A p \in Others(q) : asks'[p] = asks[p] /\ at'[p] = at[p] /\ entity'[p] = entity[p]

\* No row is touched.
Quiet(q) ==
  /\ UNCHANGED <<accounts, written, owner, landed, raced>>
  /\ \A p \in Others(q) : p \in stale' <=> p \in stale

\* Who has ended stays so, and a reset that has saved is not forgotten or changed.
Ended(q) ==
  at[q] \in {"clear", "done", "rejected"} =>
    /\ at'[q] \in {"clear", "done", "rejected"}
    /\ asks'[q].kind = "reset" => asks'[q] = asks[q]

\* A code gets an owner once.
OwnerOnce(q) ==
  owner' = owner \/ (owner[q] = None /\ at[q] = "store" /\ owner' = [owner EXCEPT ![q] = Target(q)])

\* A new user's uuid is q's alone.
BirthAlone(q) ==
  asks'[q].kind = "create" =>
    asks'[q] = asks[q] \/ \A p \in Requests : at[p] = "insert" => Target(p) # asks'[q].user

\* The invariant as far as request q is concerned.
Own(q) ==
  Stage(q) /\ FreshCopy(q) /\ CodeUsed(q) /\ (at[q] = "save" => Origin(entity[q], Target(q)))

\* Where a code and a password come from stays true of any row.
LEMMA OriginStays ==
  ASSUME UInv, NEW q \in Requests, Alone(q), Ended(q), OwnerOnce(q),
         NEW row \in RowType, NEW u \in Users, Origin(row, u)
  PROVE  Origin(row, u)'
<1>. USE NoneAssumption
<1>1. ASSUME row.code # None PROVE owner'[row.code] = u
  <2>1. row.code \in Requests /\ owner[row.code] = u
    BY <1>1 DEF Origin, RowType
  <2>2. owner \in [Requests -> Users \cup {None}]
    BY DEF UInv, UTypeOK
  <2>. QED
    BY <2>1, <2>2 DEF OwnerOnce
<1>2. ASSUME row.password # None
      PROVE  /\ at'[row.password] \in {"clear", "done", "rejected"}
             /\ asks'[row.password].kind = "reset" => owner'[asks'[row.password].code] = u
  <2>. DEFINE p == row.password
  <2>1. /\ p \in Requests /\ at[p] \in {"clear", "done", "rejected"}
        /\ asks[p].kind = "reset" => owner[asks[p].code] = u
    BY <1>2 DEF Origin, RowType
  <2>2. at'[p] \in {"clear", "done", "rejected"} /\ (asks'[p].kind = "reset" => asks'[p] = asks[p])
    <3>1. CASE p = q
      BY <2>1, <3>1 DEF Ended
    <3>2. CASE p # q
      BY <2>1, <3>2 DEF Alone, Others
    <3>. QED
      BY <3>1, <3>2
  <2>3. ASSUME asks[p].kind = "reset" PROVE owner'[asks[p].code] = u
    <3>1. asks[p].code \in Requests /\ owner[asks[p].code] = u
      BY <2>1, <2>3 DEF UInv, Provenance, CodeUsed
    <3>2. owner \in [Requests -> Users \cup {None}]
      BY DEF UInv, UTypeOK
    <3>. QED
      BY <3>1, <3>2 DEF OwnerOnce
  <2>. QED
    BY <2>2, <2>3
<1>. QED
  BY <1>1, <1>2 DEF Origin

\* What the others have to say of codes stays true.
LEMMA CodesStay ==
  ASSUME UInv, NEW q \in Requests, Alone(q), OwnerOnce(q), NEW p \in Others(q)
  PROVE  CodeUsed(p)'
<1>. USE NoneAssumption
<1>1. CodeUsed(p) /\ owner \in [Requests -> Users \cup {None}] /\ p \in Requests /\ p # q
  BY DEF UInv, UTypeOK, Provenance, Others
<1>2. asks'[p] = asks[p] /\ at'[p] = at[p]
  BY DEF Alone
<1>3. owner'[p] = owner[p]
  BY <1>1 DEF OwnerOnce
<1>4. ASSUME asks[p].kind = "reset" PROVE owner'[asks[p].code] = owner[asks[p].code]
  BY <1>1, <1>4 DEF OwnerOnce, CodeUsed
<1>. QED
  BY <1>1, <1>2, <1>3, <1>4 DEF CodeUsed, Target

\* A stage of another request stays what it was when no row turns into or out
\* of NoRow under it, and no new user takes its uuid.
LEMMA StageStays ==
  ASSUME NEW q \in Requests, NEW p \in Others(q), Stage(p), Alone(q),
         landed \subseteq landed', landed' \subseteq landed \cup {q},
         (Placed(p) \/ at[p] = "clear") =>
           (accounts'[Target(p)] = NoRow <=> accounts[Target(p)] = NoRow),
         at[p] = "insert" => (asks'[q].kind = "create" => asks'[q].user # Target(p))
  PROVE  Stage(p)'
<1>1. asks'[p] = asks[p] /\ at'[p] = at[p] /\ p \in Requests /\ p # q
  BY DEF Alone, Others
<1>2. ASSUME at[p] = "insert"
      PROVE  \A r \in Requests \ {p} : asks'[r].kind = "create" => asks'[r].user # asks'[p].user
  <2>1. \A r \in Requests \ {p} : asks[r].kind = "create" => asks[r].user # asks[p].user
    BY <1>2 DEF Stage, Target
  <2>. QED
    BY <1>1, <1>2, <2>1 DEF Alone, Others, Target
<1>3. landed' \cap {p} \subseteq landed
  BY <1>1
<1>4. at[p] \in {"insert", "find", "save", "delete", "store", "clear"} =>
        /\ asks[p].user \in Users
        /\ accounts'[asks[p].user] = NoRow <=> accounts[asks[p].user] = NoRow
  BY DEF Stage, Placed, Target
<1>5. at[p] = "insert" =>
        /\ asks'[p].kind = "create" /\ asks'[p].email \in Emails
        /\ accounts'[asks'[p].user] = NoRow
  BY <1>1, <1>4 DEF Stage, Target
<1>6. /\ at[p] \in {"find", "save", "delete", "store", "clear"} => accounts'[asks'[p].user] # NoRow
      /\ at[p] = "clear" => p \in landed'
      /\ p \in landed' => at[p] \in {"mail", "clear", "sent", "done", "rejected"}
  BY <1>1, <1>3, <1>4 DEF Stage, Target
<1>. QED
  BY <1>1, <1>2, <1>4, <1>5, <1>6 DEF Stage, Target, Placed

\* A step that touches no row keeps the invariant if q's own part of it holds.
LEMMA QuietStep ==
  ASSUME UInv, UTypeOK', NEW q \in Requests,
         Alone(q), Quiet(q), Ended(q), BirthAlone(q), Own(q)'
  PROVE  UInv'
<1>1. NoLostUpdate'
  BY DEF UInv, NoLostUpdate, Quiet, Exists
<1>2. OwnerOnce(q)
  BY DEF Quiet, OwnerOnce
<1>3. ASSUME NEW p \in Requests PROVE Stage(p)' /\ FreshCopy(p)'
  <2>1. CASE p = q
    BY <2>1 DEF Own
  <2>2. CASE p # q
    <3>1. p \in Others(q) /\ Stage(p) /\ FreshCopy(p)
      BY <2>2 DEF Others, UInv
    <3>2. at[p] = "insert" => (asks'[q].kind = "create" => asks'[q].user # Target(p))
      BY <3>1 DEF BirthAlone, Stage, Target, Others
    <3>3. Stage(p)'
      BY <3>1, <3>2, StageStays DEF Quiet
    <3>4. FreshCopy(p)'
      BY <3>1 DEF FreshCopy, Alone, Quiet, Target, Exists
    <3>. QED
      BY <3>3, <3>4
  <2>. QED
    BY <2>1, <2>2
<1>4. ASSUME NEW u \in Users, Exists(u)' PROVE Origin(accounts[u], u)'
  <2>1. Exists(u) /\ Origin(accounts[u], u) /\ accounts' = accounts
    BY <1>4 DEF Quiet, Exists, UInv, Provenance
  <2>2. accounts[u] \in RowType
    BY <2>1 DEF UInv, UTypeOK, Exists, NoRow, Gone
  <2>3. Origin(accounts[u], u)' <=> \E row \in RowType : row = accounts[u] /\ Origin(row, u)'
    BY <2>1, <2>2 DEF Origin
  <2>. QED
    BY <1>2, <2>1, <2>2, <2>3, OriginStays
<1>5. ASSUME NEW p \in Requests PROVE CodeUsed(p)' /\ (at[p] = "save" => Origin(entity[p], Target(p)))'
  <2>1. CASE p = q
    BY <2>1 DEF Own
  <2>2. CASE p # q
    <3>1. p \in Others(q)
      BY <2>2 DEF Others
    <3>2. CodeUsed(p)'
      BY <1>2, <3>1, CodesStay
    <3>3. ASSUME at'[p] = "save" PROVE Origin(entity[p], Target(p))'
      <4>1. at[p] = "save" /\ entity'[p] = entity[p] /\ asks'[p] = asks[p]
        BY <3>1, <3>3 DEF Alone
      <4>2. entity[p] \in RowType /\ Target(p) \in Users /\ Origin(entity[p], Target(p))
        BY <4>1 DEF UInv, UTypeOK, Stage, Placed, Provenance
      <4>3. Origin(entity[p], Target(p))' <=>
              \E row \in RowType, u \in Users : row = entity[p] /\ u = Target(p) /\ Origin(row, u)'
        BY <4>1, <4>2 DEF Origin, Target
      <4>. QED
        BY <1>2, <4>2, <4>3, OriginStays
    <3>. QED
      BY <3>2, <3>3
  <2>. QED
    BY <2>1, <2>2
<1>. QED
  BY <1>1, <1>3, <1>4, <1>5 DEF UInv, Provenance

\* Request q makes row of the row of its user u, and of what is meant to be
\* there; a row that exists afterwards is the one last written on purpose.
Writes(q, u, row) ==
  /\ u = Target(q) /\ u \in Users
  /\ at[q] \in {"insert", "save", "delete", "store"} /\ at'[q] # "save"
  /\ accounts' = [accounts EXCEPT ![u] = row] /\ row \in RowType \cup {Gone}
  /\ Wrote(q, u)
  /\ \A v \in Users \ {u} : written'[v] = written[v]
  /\ row \in RowType /\ u \notin raced' => written'[u] = row
  /\ asks'[q].kind # "create"

LEMMA WriteStep ==
  ASSUME UInv, UTypeOK', NEW q \in Requests, NEW u, NEW row,
         Alone(q), OwnerOnce(q), Writes(q, u, row), row \in RowType => Origin(row, u)',
         Stage(q)', CodeUsed(q)'
  PROVE  UInv'
<1>. USE DEF Writes
<1>1. Ended(q)
  BY DEF Ended
<1>2. /\ accounts \in [Users -> RowType \cup {NoRow, Gone}]
      /\ \A v \in Users : accounts'[v] = IF v = u THEN row ELSE accounts[v]
  BY DEF UInv, UTypeOK
<1>3. row # NoRow /\ (row.state = "exists" <=> row \in RowType)
  <2>1. NoRow.state = "none" /\ Gone.state = "removed" /\ \A r \in RowType : r.state = "exists"
    BY DEF RowType, NoRow, Gone
  <2>. QED
    BY <2>1
<1>4. NoLostUpdate'
  BY <1>2, <1>3 DEF UInv, NoLostUpdate, Exists, Wrote
<1>5. ASSUME NEW p \in Others(q) PROVE Stage(p)' /\ FreshCopy(p)'
  <2>1. Stage(p) /\ Stage(q) /\ FreshCopy(p) /\ p \in Requests /\ p # q
    BY DEF UInv, Others
  <2>2. at[p] = "insert" => Target(p) # u
    BY <2>1 DEF Stage
  <2>3. accounts[u] = NoRow => at[q] = "insert"
    BY <2>1 DEF Stage
  <2>4. Placed(p) \/ at[p] = "clear" =>
          (accounts'[Target(p)] = NoRow <=> accounts[Target(p)] = NoRow)
    BY <1>2, <1>3, <2>1, <2>2, <2>3 DEF Stage, Placed
  <2>5. Stage(p)'
    BY <2>1, <2>4, StageStays DEF Wrote
  <2>6. FreshCopy(p)'
    BY <1>2, <2>1 DEF FreshCopy, Alone, Wrote, Holders, Target, Exists, Stage, Placed
  <2>. QED
    BY <2>5, <2>6
<1>6. FreshCopy(q)'
  BY DEF FreshCopy
<1>7. ASSUME NEW v \in Users, Exists(v)' PROVE Origin(accounts[v], v)'
  <2>1. CASE v = u
    <3>1. accounts'[v] = row /\ row \in RowType
      BY <1>2, <1>3, <1>7, <2>1 DEF Exists
    <3>. QED
      BY <2>1, <3>1 DEF Origin
  <2>2. CASE v # u
    <3>1. accounts'[v] = accounts[v] /\ Exists(v)
      BY <1>2, <1>7, <2>2 DEF Exists
    <3>2. accounts[v] \in RowType /\ Origin(accounts[v], v)
      BY <3>1 DEF UInv, UTypeOK, Exists, NoRow, Gone, Provenance
    <3>3. Origin(accounts[v], v)' <=> \E r \in RowType : r = accounts[v] /\ Origin(r, v)'
      BY <3>1, <3>2 DEF Origin
    <3>. QED
      BY <1>1, <3>2, <3>3, OriginStays
  <2>. QED
    BY <2>1, <2>2
<1>8. ASSUME NEW p \in Others(q) PROVE CodeUsed(p)' /\ (at[p] = "save" => Origin(entity[p], Target(p)))'
  <2>1. CodeUsed(p)'
    BY CodesStay
  <2>2. ASSUME at'[p] = "save" PROVE Origin(entity[p], Target(p))'
    <3>1. at[p] = "save" /\ entity'[p] = entity[p] /\ asks'[p] = asks[p] /\ p \in Requests
      BY <2>2 DEF Alone, Others
    <3>2. entity[p] \in RowType /\ Target(p) \in Users /\ Origin(entity[p], Target(p))
      BY <3>1 DEF UInv, UTypeOK, Stage, Placed, Provenance
    <3>3. Origin(entity[p], Target(p))' <=>
            \E r \in RowType, v \in Users : r = entity[p] /\ v = Target(p) /\ Origin(r, v)'
      BY <3>1, <3>2 DEF Origin, Target
    <3>. QED
      BY <1>1, <3>2, <3>3, OriginStays
  <2>. QED
    BY <2>1, <2>2
<1>9. \A p \in Requests : p = q \/ p \in Others(q)
  BY DEF Others
<1>. QED
  BY <1>4, <1>5, <1>6, <1>7, <1>8, <1>9 DEF UInv, Provenance

-----------------------------------------------------------------------------
(* The requests come in.                                                    *)

\* What all of them have in common.
LEMMA ReceiveFacts ==
  ASSUME UInv, NEW q \in Requests, NEW ask \in Asks,
         NEW first \in {"insert", "find", "delete", "email", "token"}, Receive(q, ask, first)
  PROVE  /\ UTypeOK' /\ Alone(q) /\ Quiet(q) /\ Ended(q)
         /\ at'[q] = first /\ asks'[q] = ask /\ owner[q] = None /\ q \notin landed
<1>1. UTypeOK /\ Stage(q) /\ CodeUsed(q)
  BY DEF UInv, Provenance
<1>2. at'[q] = first /\ asks'[q] = ask
  BY <1>1 DEF UTypeOK, Receive
<1>3. owner[q] = None /\ q \notin landed
  BY <1>1 DEF Receive, Stage, CodeUsed
<1>4. asks' \in [Requests -> Asks] /\ at' \in [Requests ->
        {"new", "insert", "find", "save", "delete", "email", "store", "mail",
         "token", "clear", "sent", "done", "rejected"}]
  BY <1>1 DEF UTypeOK, Receive
<1>5. \A p \in Requests : at'[p] = "save" => at[p] = "save"
  BY <1>1 DEF UTypeOK, Receive
<1>6. UTypeOK'
  BY <1>1, <1>4, <1>5 DEF UTypeOK, Receive
<1>7. Alone(q) /\ Quiet(q) /\ Ended(q)
  BY <1>1 DEF UTypeOK, Receive, Alone, Quiet, Ended, Others
<1>. QED
  BY <1>2, <1>3, <1>6, <1>7

LEMMA ReceiveCreateStep ==
  ASSUME UInv, NEW q \in Requests, ReceiveCreate(q)
  PROVE  UInv'
<1>1. PICK u \in Users, email \in Emails :
        /\ Fresh(u)
        /\ Receive(q, [Nothing EXCEPT !.kind = "create", !.user = u, !.email = email], "insert")
  BY DEF ReceiveCreate
<1>. DEFINE ask == [Nothing EXCEPT !.kind = "create", !.user = u, !.email = email]
<1>2. ask \in Asks /\ ask.kind = "create" /\ ask.user = u /\ ask.email = email
  BY DEF Nothing, Asks
<1>3. Receive(q, ask, "insert")
  BY <1>1
<1>. HIDE DEF ask
<1>4. /\ UTypeOK' /\ Alone(q) /\ Quiet(q) /\ Ended(q)
      /\ at'[q] = "insert" /\ asks'[q] = ask /\ owner[q] = None /\ q \notin landed
  BY <1>2, <1>3, ReceiveFacts
<1>5. BirthAlone(q)
  BY <1>1, <1>2, <1>4 DEF BirthAlone, Fresh, UInv, Stage, Target
<1>6. Stage(q)'
  <2>1. \A p \in Requests \ {q} : asks'[p].kind = "create" => asks'[p].user # u
    BY <1>1, <1>4 DEF Fresh, Alone, Others
  <2>2. accounts'[u] = NoRow /\ q \notin landed'
    BY <1>1, <1>4 DEF Fresh, Quiet
  <2>. QED
    BY <1>1, <1>2, <1>4, <2>1, <2>2 DEF Stage, Target, Placed
<1>7. Own(q)'
  BY <1>2, <1>4, <1>6 DEF Own, FreshCopy, CodeUsed, Quiet
<1>. QED
  BY <1>4, <1>5, <1>7, QuietStep

\* The other requests, which bring no uuid.
LEMMA ReceiveStep ==
  ASSUME UInv, NEW q \in Requests,
         ReceiveUpdate(q) \/ ReceiveForgot(q) \/ ReceiveReset(q) \/ ReceiveRemove(q)
  PROVE  UInv'
<1>1. ASSUME NEW ask \in Asks, NEW first \in {"find", "delete", "email", "token"},
             Receive(q, ask, first),
             \/ first = "find" /\ ask.kind = "update" /\ ask.user \in Users /\ accounts[ask.user] # NoRow
             \/ first = "delete" /\ ask.kind = "remove" /\ ask.user \in Users /\ accounts[ask.user] # NoRow
             \/ first = "email" /\ ask.kind = "forgot" /\ ~ask.password
             \/ /\ first = "token" /\ ask.kind = "reset" /\ ask.password
                /\ ask.code \in Requests /\ owner[ask.code] # None
      PROVE  UInv'
  <2>1. /\ UTypeOK' /\ Alone(q) /\ Quiet(q) /\ Ended(q)
        /\ at'[q] = first /\ asks'[q] = ask /\ owner[q] = None /\ q \notin landed
    BY <1>1, ReceiveFacts
  <2>2. BirthAlone(q)
    BY <1>1, <2>1 DEF BirthAlone
  <2>3. Stage(q)'
    BY <1>1, <2>1 DEF Stage, Target, Placed, Quiet
  <2>4. Own(q)'
    BY <1>1, <2>1, <2>3 DEF Own, FreshCopy, CodeUsed, Quiet
  <2>. QED
    BY <2>1, <2>2, <2>4, QuietStep
<1>2. CASE ReceiveUpdate(q)
  <2>1. PICK u \in Users, email \in Emails \cup {None}, password \in BOOLEAN :
          accounts[u] # NoRow /\ Receive(q, [Nothing EXCEPT !.kind = "update", !.user = u, !.email = email, !.password = password], "find")
    BY <1>2 DEF ReceiveUpdate
  <2>. DEFINE ask == [Nothing EXCEPT !.kind = "update", !.user = u, !.email = email, !.password = password]
  <2>2. ask \in Asks
    BY DEF Nothing, Asks
  <2>3. ask.kind = "update" /\ ask.user = u /\ ask.password = password /\ ask.code = None
    BY DEF Nothing
  <2>4. Receive(q, ask, "find")
    BY <2>1
  <2>. HIDE DEF ask
  <2>. QED
    BY <1>1, <2>1, <2>2, <2>3, <2>4
<1>3. CASE ReceiveForgot(q)
  <2>1. PICK email \in Emails :
          Receive(q, [Nothing EXCEPT !.kind = "forgot", !.email = email], "email")
    BY <1>3 DEF ReceiveForgot
  <2>. DEFINE ask == [Nothing EXCEPT !.kind = "forgot", !.email = email]
  <2>2. ask \in Asks
    BY DEF Nothing, Asks
  <2>3. ask.kind = "forgot" /\ ask.user = None /\ ask.password = FALSE /\ ask.code = None
    BY DEF Nothing
  <2>4. Receive(q, ask, "email")
    BY <2>1
  <2>. HIDE DEF ask
  <2>. QED
    BY <1>1, <2>1, <2>2, <2>3, <2>4
<1>4. CASE ReceiveReset(q)
  <2>1. PICK code \in Requests :
          owner[code] # None /\ Receive(q, [Nothing EXCEPT !.kind = "reset", !.password = TRUE, !.code = code], "token")
    BY <1>4 DEF ReceiveReset
  <2>. DEFINE ask == [Nothing EXCEPT !.kind = "reset", !.password = TRUE, !.code = code]
  <2>2. ask \in Asks
    BY DEF Nothing, Asks
  <2>3. ask.kind = "reset" /\ ask.user = None /\ ask.password = TRUE /\ ask.code = code
    BY DEF Nothing
  <2>4. Receive(q, ask, "token")
    BY <2>1
  <2>. HIDE DEF ask
  <2>. QED
    BY <1>1, <2>1, <2>2, <2>3, <2>4
<1>5. CASE ReceiveRemove(q)
  <2>1. PICK u \in Users :
          accounts[u] # NoRow /\ Receive(q, [Nothing EXCEPT !.kind = "remove", !.user = u], "delete")
    BY <1>5 DEF ReceiveRemove
  <2>. DEFINE ask == [Nothing EXCEPT !.kind = "remove", !.user = u]
  <2>2. ask \in Asks
    BY DEF Nothing, Asks
  <2>3. ask.kind = "remove" /\ ask.user = u /\ ask.password = FALSE /\ ask.code = None
    BY DEF Nothing
  <2>4. Receive(q, ask, "delete")
    BY <2>1
  <2>. HIDE DEF ask
  <2>. QED
    BY <1>1, <2>1, <2>2, <2>3, <2>4
<1>. QED
  BY <1>2, <1>3, <1>4, <1>5

-----------------------------------------------------------------------------
(* Steps that touch no row.                                                 *)

Tables == UNCHANGED <<accounts, written, owner, landed, raced>>

Counters == faults' \in Nat /\ expired' \subseteq Requests

\* An answer without a write.
LEMMA AnswerStep ==
  ASSUME UInv, NEW q \in Requests, NEW how \in {"sent", "done", "rejected"}, Answer(q, how),
         Tables, Counters, stale' = stale \/ stale' = stale \ {q},
         at[q] \notin {"new", "sent", "done", "rejected"},
         at[q] = "mail" => how # "done", at[q] = "clear" => how # "sent"
  PROVE  UInv'
<1>1. UTypeOK /\ Stage(q) /\ CodeUsed(q)
  BY DEF UInv, Provenance
<1>2. Nothing \in Asks /\ Nothing.kind = "none"
  BY DEF Nothing, Asks
<1>3. /\ asks' \in [Requests -> Asks]
      /\ at' \in [Requests -> {"new", "insert", "find", "save", "delete", "email", "store", "mail",
                          "token", "clear", "sent", "done", "rejected"}]
      /\ entity' \in [Requests -> RowType \cup {NoRow}]
  BY <1>1, <1>2 DEF UTypeOK, Answer
<1>4. /\ at'[q] = how
      /\ asks'[q] = IF at[q] = "clear" THEN asks[q] ELSE Nothing
      /\ Alone(q)
  BY <1>1 DEF UTypeOK, Answer, Alone, Others
<1>5. \A p \in Requests : at'[p] = "save" => entity'[p] \in RowType
  BY <1>1, <1>4 DEF UTypeOK, Alone, Others
<1>6. UTypeOK'
  BY <1>1, <1>3, <1>5 DEF UTypeOK, Tables, Counters
<1>7. Quiet(q)
  BY DEF Quiet, Tables, Others
<1>8. Ended(q) /\ BirthAlone(q)
  BY <1>1, <1>2, <1>4 DEF Ended, BirthAlone, Stage
<1>9. Stage(q)'
  BY <1>1, <1>2, <1>4, <1>7 DEF Stage, Target, Placed, Quiet
<1>10. CodeUsed(q)'
  BY <1>1, <1>2, <1>4, <1>7 DEF CodeUsed, Quiet, Target
<1>11. Own(q)'
  BY <1>4, <1>9, <1>10 DEF Own, FreshCopy
<1>. QED
  BY <1>4, <1>6, <1>7, <1>8, <1>11, QuietStep

\* A query has told whose row the request is about.
LEMMA FoundStep ==
  ASSUME UInv, NEW q \in Requests, NEW u \in Users, NEW next \in {"store", "find"}, Found(q, u, next),
         Tables, UNCHANGED <<expired, faults, stale>>, Exists(u),
         \/ next = "store" /\ at[q] = "email"
         \/ next = "find" /\ at[q] = "token" /\ owner[asks[q].code] = u
  PROVE  UInv'
<1>1. UTypeOK /\ Stage(q) /\ CodeUsed(q) /\ asks[q] \in Asks
  BY DEF UInv, Provenance, UTypeOK
<1>2. /\ [asks[q] EXCEPT !.user = u] \in Asks
      /\ asks'[q] = [asks[q] EXCEPT !.user = u]
      /\ at'[q] = next /\ Alone(q) /\ entity' = entity
  BY <1>1 DEF UTypeOK, Found, Asks, Alone, Others
<1>3. /\ asks'[q].user = u /\ asks'[q].kind = asks[q].kind /\ asks'[q].email = asks[q].email
      /\ asks'[q].password = asks[q].password /\ asks'[q].code = asks[q].code
  BY <1>1, <1>2 DEF Asks
<1>4. /\ asks' \in [Requests -> Asks]
      /\ at' \in [Requests -> {"new", "insert", "find", "save", "delete", "email", "store", "mail",
                          "token", "clear", "sent", "done", "rejected"}]
  BY <1>1, <1>2 DEF UTypeOK, Found
<1>5. \A p \in Requests : at'[p] = "save" => entity'[p] \in RowType
  BY <1>1, <1>2 DEF UTypeOK, Alone, Others
<1>6. UTypeOK'
  BY <1>1, <1>2, <1>4, <1>5 DEF UTypeOK, Tables
<1>7. Quiet(q)
  BY DEF Quiet, Tables
<1>8. Ended(q) /\ BirthAlone(q)
  BY <1>1, <1>3 DEF Ended, BirthAlone, Stage
<1>9. accounts[u] # NoRow
  BY DEF Exists, NoRow
<1>10. Stage(q)'
  BY <1>1, <1>2, <1>3, <1>7, <1>9 DEF Stage, Target, Placed, Quiet
<1>11. CodeUsed(q)'
  BY <1>1, <1>2, <1>3, <1>7 DEF CodeUsed, Quiet, Target, Stage
<1>12. Own(q)'
  BY <1>2, <1>10, <1>11 DEF Own, FreshCopy
<1>. QED
  BY <1>2, <1>6, <1>7, <1>8, <1>12, QuietStep

-----------------------------------------------------------------------------
(* The steps of a request that update, reset and remove.                    *)

LEMMA FindOneStep ==
  ASSUME UInv, NEW q \in Requests, FindOne(q)
  PROVE  UInv'
<1>1. UTypeOK /\ Stage(q) /\ CodeUsed(q) /\ Target(q) \in Users /\ at[q] = "find"
  BY DEF UInv, Provenance, FindOne, Stage, Placed
<1>2. CASE Exists(Target(q))
  <2>. DEFINE row == accounts[Target(q)]
  <2>1. /\ entity' = [entity EXCEPT ![q] = row] /\ at' = [at EXCEPT ![q] = "save"]
        /\ UNCHANGED <<asks, accounts, expired, faults, written, owner, landed, stale, raced>>
    BY <1>2 DEF FindOne, Goto
  <2>2. row \in RowType /\ Origin(row, Target(q))
    BY <1>1, <1>2 DEF UInv, UTypeOK, Exists, NoRow, Gone, Provenance
  <2>3. entity'[q] = row /\ at'[q] = "save" /\ Alone(q) /\ Quiet(q)
    BY <1>1, <2>1 DEF UTypeOK, Alone, Others, Quiet
  <2>4. entity' \in [Requests -> RowType \cup {NoRow}]
    BY <1>1, <2>1, <2>2 DEF UTypeOK
  <2>5. at' \in [Requests -> {"new", "insert", "find", "save", "delete", "email", "store", "mail",
                          "token", "clear", "sent", "done", "rejected"}]
    BY <1>1, <2>1 DEF UTypeOK
  <2>6. \A p \in Requests : at'[p] = "save" => entity'[p] \in RowType
    BY <1>1, <2>2, <2>3 DEF UTypeOK, Alone, Others
  <2>7. UTypeOK'
    BY <1>1, <2>1, <2>4, <2>5, <2>6 DEF UTypeOK
  <2>8. Ended(q) /\ BirthAlone(q)
    BY <1>1, <2>1 DEF Ended, BirthAlone
  <2>9. Stage(q)'
    BY <1>1, <2>1, <2>3 DEF Stage, Target, Placed
  <2>10. FreshCopy(q)' /\ CodeUsed(q)'
    BY <1>1, <1>2, <2>1, <2>3 DEF FreshCopy, CodeUsed, Target, Exists
  <2>11. Origin(entity[q], Target(q))'
    <3>1. ~(at[row.password] = "find")  \/ row.password = None
      BY <2>2 DEF Origin
    <3>2. row.password # None => row.password \in Requests
      BY <2>2 DEF RowType
    <3>3. row.password # None => at'[row.password] = at[row.password]
      BY <1>1, <2>1, <3>1, <3>2
    <3>. QED
      BY <2>1, <2>2, <2>3, <3>3 DEF Origin, Target
  <2>. QED
    BY <2>3, <2>7, <2>8, <2>9, <2>10, <2>11, QuietStep DEF Own
<1>3. CASE ~Exists(Target(q))
  <2>1. Answer(q, "rejected") /\ Tables /\ stale' = stale /\ UNCHANGED <<expired, faults>>
    BY <1>3 DEF FindOne, Tables
  <2>2. Counters
    BY <1>1, <2>1 DEF Counters, UTypeOK
  <2>. QED
    BY <1>1, <2>1, <2>2, AnswerStep
<1>. QED
  BY <1>2, <1>3

\* A save, an insert or a removal that fails.
LEMMA RefusedStep ==
  ASSUME UInv, NEW q \in Requests, at[q] \in {"insert", "save", "delete"},
         Answer(q, "rejected"), WroteNothing(q),
         UNCHANGED <<accounts, written, expired, faults, owner>>
  PROVE  UInv'
<1>1. Tables /\ Counters /\ stale' = stale \ {q}
  BY DEF Tables, Counters, WroteNothing, UInv, UTypeOK
<1>. QED
  BY <1>1, AnswerStep

\* What a write that is answered has in common.
LEMMA DoneFacts ==
  ASSUME UTypeOK, NEW q \in Requests, NEW u \in Users, NEW row \in RowType \cup {Gone},
         Answer(q, "done"), at[q] \in {"insert", "save", "delete"}, Wrote(q, u),
         accounts' = [accounts EXCEPT ![u] = row],
         written' \in [Users -> RowType \cup {NoRow}],
         \A v \in Users \ {u} : written'[v] = written[v],
         accounts[u] # NoRow \/ written'[u] \in RowType,
         written[u] \in RowType => written'[u] \in RowType,
         UNCHANGED <<expired, faults, owner>>, Stage(q), CodeUsed(q)
  PROVE  /\ UTypeOK' /\ Alone(q) /\ OwnerOnce(q) /\ Stage(q)' /\ CodeUsed(q)'
         /\ at'[q] = "done" /\ asks'[q].kind = "none"
<1>1. Nothing \in Asks /\ Nothing.kind = "none" /\ ~Nothing.password
  BY DEF Nothing, Asks
<1>2. at'[q] = "done" /\ asks'[q] = Nothing /\ Alone(q) /\ OwnerOnce(q)
  BY DEF UTypeOK, Answer, Alone, Others, OwnerOnce
<1>3. /\ asks' \in [Requests -> Asks]
      /\ at' \in [Requests -> {"new", "insert", "find", "save", "delete", "email", "store", "mail",
                          "token", "clear", "sent", "done", "rejected"}]
      /\ entity' \in [Requests -> RowType \cup {NoRow}]
      /\ accounts' \in [Users -> RowType \cup {NoRow, Gone}]
  BY <1>1 DEF UTypeOK, Answer
<1>4. \A p \in Requests : at'[p] = "save" => entity'[p] \in RowType
  BY <1>2 DEF UTypeOK, Alone, Others
<1>5. landed' \subseteq Requests /\ stale' \subseteq Requests /\ raced' \subseteq Users
  BY DEF UTypeOK, Wrote, Holders
<1>6. \A v \in Users : accounts'[v] # NoRow => written'[v] \in RowType
  BY DEF UTypeOK
<1>7. UTypeOK'
  BY <1>3, <1>4, <1>5, <1>6 DEF UTypeOK
<1>8. Stage(q)' /\ CodeUsed(q)'
  BY <1>1, <1>2 DEF Stage, CodeUsed, Target, Placed
<1>. QED
  BY <1>1, <1>2, <1>7, <1>8

LEMMA InsertUserStep ==
  ASSUME UInv, NEW q \in Requests, InsertUser(q)
  PROVE  UInv'
<1>1. PICK u, row : u = Target(q) /\ row = Row(asks[q].email, q, None)
  OBVIOUS
<1>2. /\ UTypeOK /\ Stage(q) /\ CodeUsed(q) /\ u \in Users /\ at[q] = "insert"
      /\ asks[q].email \in Emails /\ UNCHANGED <<expired, faults, owner>>
  BY <1>1 DEF UInv, Provenance, InsertUser, Stage, Placed
<1>3. CASE Taken(u, asks[q].email)
  BY <1>1, <1>2, <1>3, RefusedStep DEF InsertUser
<1>4. CASE ~Taken(u, asks[q].email)
  <2>1. /\ accounts' = [accounts EXCEPT ![u] = row] /\ written' = [written EXCEPT ![u] = row]
        /\ Wrote(q, u) /\ Answer(q, "done")
    BY <1>1, <1>4 DEF InsertUser
  <2>2. row \in RowType /\ row.code = None /\ row.password = q
    BY <1>1, <1>2 DEF Row, RowType
  <2>3. /\ written' \in [Users -> RowType \cup {NoRow}] /\ written'[u] = row
        /\ \A v \in Users \ {u} : written'[v] = written[v]
    BY <1>2, <2>1, <2>2 DEF UTypeOK
  <2>4. /\ UTypeOK' /\ Alone(q) /\ OwnerOnce(q) /\ Stage(q)' /\ CodeUsed(q)'
        /\ at'[q] = "done" /\ asks'[q].kind = "none"
    BY <1>2, <2>1, <2>2, <2>3, DoneFacts
  <2>5. Writes(q, u, row)
    BY <1>1, <1>2, <2>1, <2>2, <2>3, <2>4 DEF Writes
  <2>6. Origin(row, u)'
    BY <2>2, <2>4 DEF Origin
  <2>. QED
    BY <2>2, <2>4, <2>5, <2>6, WriteStep
<1>. QED
  BY <1>3, <1>4

LEMMA RemoveUserStep ==
  ASSUME UInv, NEW q \in Requests, RemoveUser(q)
  PROVE  UInv'
<1>1. PICK u : u = Target(q)
  OBVIOUS
<1>2. /\ UTypeOK /\ Stage(q) /\ CodeUsed(q) /\ u \in Users /\ at[q] = "delete"
      /\ UNCHANGED <<expired, faults, written, owner>>
  BY <1>1 DEF UInv, Provenance, RemoveUser, Stage, Placed
<1>3. CASE ~Exists(u)
  BY <1>1, <1>2, <1>3, RefusedStep DEF RemoveUser
<1>4. CASE Exists(u)
  <2>1. accounts' = [accounts EXCEPT ![u] = Gone] /\ Wrote(q, u) /\ Answer(q, "done")
    BY <1>1, <1>4 DEF RemoveUser
  <2>2. Gone \notin RowType /\ accounts[u] # NoRow
    BY <1>4 DEF Gone, RowType, Exists, NoRow
  <2>3. /\ UTypeOK' /\ Alone(q) /\ OwnerOnce(q) /\ Stage(q)' /\ CodeUsed(q)'
        /\ at'[q] = "done" /\ asks'[q].kind = "none"
    BY <1>2, <2>1, <2>2, DoneFacts DEF UTypeOK
  <2>4. Writes(q, u, Gone)
    BY <1>1, <1>2, <2>1, <2>2, <2>3 DEF Writes
  <2>. QED
    BY <2>2, <2>3, <2>4, WriteStep
<1>. QED
  BY <1>3, <1>4

\* The columns of request q on a row.
LEMMA AssignedRow ==
  ASSUME NEW q \in Requests, asks[q] \in Asks, NEW row \in RowType
  PROVE  /\ Assigned(q, row) \in RowType
         /\ Assigned(q, row).code = row.code
         /\ Assigned(q, row).password = IF asks[q].password THEN q ELSE row.password
  BY DEF Assigned, RowType, Asks

LEMMA SaveUserStep ==
  ASSUME UInv, NEW q \in Requests, SaveUser(q)
  PROVE  UInv'
<1>. USE NoneAssumption
<1>1. PICK u, row : u = Target(q) /\ row = Assigned(q, entity[q])
  OBVIOUS
<1>2. /\ UTypeOK /\ Stage(q) /\ CodeUsed(q) /\ FreshCopy(q) /\ u \in Users /\ at[q] = "save"
      /\ UNCHANGED <<expired, faults, owner>> /\ asks[q].kind \in {"update", "reset"}
  BY <1>1 DEF UInv, Provenance, SaveUser, Stage, Placed
<1>3. CASE Taken(u, row.email)
  BY <1>1, <1>2, <1>3, RefusedStep DEF SaveUser
<1>4. CASE ~Taken(u, row.email)
  <2>1. /\ accounts' = [accounts EXCEPT ![u] = row]
        /\ written' = [written EXCEPT ![u] = Assigned(q, written[u])]
        /\ Wrote(q, u)
        /\ \/ asks[q].kind = "reset" /\ Goto(q, "clear") /\ UNCHANGED entity
           \/ asks[q].kind = "update" /\ Answer(q, "done")
    BY <1>1, <1>2, <1>4 DEF SaveUser, UTypeOK
  <2>2. /\ entity[q] \in RowType /\ Origin(entity[q], u) /\ asks[q] \in Asks
        /\ accounts[u] # NoRow /\ written[u] \in RowType
    BY <1>1, <1>2 DEF UInv, UTypeOK, Provenance, Stage
  <2>3. /\ row \in RowType /\ row.code = entity[q].code
        /\ row.password = IF asks[q].password THEN q ELSE entity[q].password
    BY <1>1, <2>2, AssignedRow
  <2>4. Assigned(q, written[u]) \in RowType
    BY <2>2, AssignedRow
  <2>5. /\ written' \in [Users -> RowType \cup {NoRow}]
        /\ written'[u] = Assigned(q, written[u])
        /\ \A v \in Users \ {u} : written'[v] = written[v]
    BY <1>2, <2>1, <2>4 DEF UTypeOK
  <2>6. u \notin raced' => written'[u] = row
    <3>1. SUFFICES ASSUME q \notin stale, u \notin raced PROVE written[u] = entity[q]
      BY <1>1, <1>2, <2>1, <2>5 DEF Wrote, UTypeOK
    <3>. QED
      BY <1>1, <1>2, <3>1 DEF FreshCopy, UInv, NoLostUpdate
  <2>7. /\ UTypeOK' /\ Alone(q) /\ OwnerOnce(q) /\ Stage(q)' /\ CodeUsed(q)'
        /\ at'[q] \in {"clear", "done"} /\ asks'[q].kind # "create"
        /\ asks'[q].kind = "reset" => owner'[asks'[q].code] = u
    <3>1. CASE asks[q].kind = "update"
      BY <1>2, <2>1, <2>3, <2>4, <2>5, <3>1, DoneFacts
    <3>2. CASE asks[q].kind = "reset"
      <4>1. at' = [at EXCEPT ![q] = "clear"] /\ asks' = asks /\ entity' = entity
        BY <2>1, <3>2 DEF Goto
      <4>2. at'[q] = "clear" /\ Alone(q) /\ OwnerOnce(q)
        BY <1>2, <4>1 DEF UTypeOK, Alone, Others, OwnerOnce
      <4>3. at' \in [Requests -> {"new", "insert", "find", "save", "delete", "email", "store", "mail",
                          "token", "clear", "sent", "done", "rejected"}]
        BY <1>2, <4>1 DEF UTypeOK
      <4>4. /\ accounts' \in [Users -> RowType \cup {NoRow, Gone}] /\ accounts'[u] = row /\ row # NoRow
            /\ landed' = landed \cup {q} /\ landed' \subseteq Requests /\ stale' \subseteq Requests
            /\ raced' \subseteq Users
        BY <1>2, <2>1, <2>3 DEF UTypeOK, Wrote, Holders, NoRow, RowType
      <4>5. \A v \in Users : accounts'[v] # NoRow => written'[v] \in RowType
        BY <1>2, <2>1, <2>4, <2>5 DEF UTypeOK
      <4>6. \A p \in Requests : at'[p] = "save" => entity'[p] \in RowType
        BY <1>2, <4>1, <4>2 DEF UTypeOK, Alone, Others
      <4>7. UTypeOK'
        BY <1>2, <2>5, <4>1, <4>3, <4>4, <4>5, <4>6 DEF UTypeOK
      <4>8. Stage(q)'
        BY <1>1, <1>2, <3>2, <4>1, <4>2, <4>4 DEF Stage, Target, Placed
      <4>9. CodeUsed(q)' /\ (asks'[q].kind = "reset" => owner'[asks'[q].code] = u)
        BY <1>1, <1>2, <3>2, <4>1, <4>2 DEF CodeUsed, Target
      <4>. QED
        BY <3>2, <4>1, <4>2, <4>7, <4>8, <4>9
    <3>. QED
      BY <1>2, <3>1, <3>2
  <2>8. Writes(q, u, row)
    BY <1>1, <1>2, <2>1, <2>3, <2>5, <2>6, <2>7 DEF Writes
  <2>9. Origin(row, u)'
    <3>1. CASE row.password = q
      BY <1>2, <2>2, <2>3, <2>7, <3>1 DEF Origin
    <3>2. CASE row.password # q
      <4>1. row.password = entity[q].password
        BY <2>3, <3>2
      <4>2. Origin(row, u)
        BY <2>2, <2>3, <4>1 DEF Origin
      <4>3. Ended(q)
        BY <1>2 DEF Ended
      <4>. QED
        BY <1>2, <2>3, <2>7, <4>2, <4>3, OriginStays
    <3>. QED
      BY <3>1, <3>2
  <2>. QED
    BY <2>7, <2>8, <2>9, WriteStep
<1>. QED
  BY <1>3, <1>4

-----------------------------------------------------------------------------
(* The steps of forgotPassword and resetPassword.                           *)

LEMMA FindByStep ==
  ASSUME UInv, NEW q \in Requests, FindByEmail(q) \/ FindByResetToken(q)
  PROVE  UInv'
<1>1. /\ Tables /\ Counters /\ UNCHANGED <<expired, faults, stale>>
      /\ at[q] \in {"email", "token"}
  BY DEF FindByEmail, FindByResetToken, Tables, Counters, UInv, UTypeOK
<1>2. CASE Answer(q, "rejected")
  BY <1>1, <1>2, AnswerStep
<1>3. ASSUME NEW u \in Users, at[q] = "email", Exists(u), Found(q, u, "store")
      PROVE  UInv'
  BY <1>1, <1>3, FoundStep
<1>4. ASSUME NEW u \in Users, at[q] = "token", Exists(u), accounts[u].code = asks[q].code,
             Found(q, u, "find")
      PROVE  UInv'
  <2>1. asks[q].code \in Requests
    BY <1>4 DEF UInv, Provenance, CodeUsed, Stage
  <2>2. owner[asks[q].code] = u
    BY <1>4, <2>1, NoneAssumption DEF UInv, Provenance, Origin
  <2>. QED
    BY <1>1, <1>4, <2>2, FoundStep
<1>. QED
  BY <1>2, <1>3, <1>4 DEF FindByEmail, FindByResetToken

LEMMA SetResetTokenStep ==
  ASSUME UInv, NEW q \in Requests, SetResetToken(q)
  PROVE  UInv'
<1>. USE NoneAssumption
<1>1. PICK u, row : u = Target(q) /\ row = [accounts[u] EXCEPT !.code = q]
  OBVIOUS
<1>2. /\ UTypeOK /\ Stage(q) /\ CodeUsed(q) /\ u \in Users /\ at[q] = "store"
      /\ UNCHANGED <<entity, expired, faults, asks>> /\ at' = [at EXCEPT ![q] = "mail"]
      /\ asks[q].kind = "forgot" /\ owner[q] = None
  BY <1>1 DEF UInv, Provenance, SetResetToken, Goto, Stage, Placed, CodeUsed
<1>3. /\ at'[q] = "mail" /\ Alone(q) /\ Ended(q)
      /\ at' \in [Requests -> {"new", "insert", "find", "save", "delete", "email", "store", "mail",
                          "token", "clear", "sent", "done", "rejected"}]
      /\ \A p \in Requests : at'[p] = "save" => entity'[p] \in RowType
  BY <1>2 DEF UTypeOK, Alone, Others, Ended
<1>4. Stage(q)'
  BY <1>1, <1>2, <1>3 DEF Stage, Target, Placed
<1>5. CASE ~Exists(u)
  <2>1. UNCHANGED <<accounts, written, owner, landed, stale, raced>>
    BY <1>1, <1>5 DEF SetResetToken
  <2>2. UTypeOK'
    BY <1>2, <1>3, <2>1 DEF UTypeOK
  <2>3. Quiet(q) /\ BirthAlone(q)
    BY <1>2, <2>1 DEF Quiet, BirthAlone
  <2>4. Own(q)'
    BY <1>2, <1>3, <1>4, <2>1 DEF Own, FreshCopy, CodeUsed
  <2>. QED
    BY <1>3, <2>2, <2>3, <2>4, QuietStep
<1>6. CASE Exists(u)
  <2>1. /\ accounts' = [accounts EXCEPT ![u].code = q]
        /\ written' = [written EXCEPT ![u].code = q]
        /\ owner' = [owner EXCEPT ![q] = u] /\ Wrote(q, u)
    BY <1>1, <1>6 DEF SetResetToken
  <2>2. accounts[u] \in RowType /\ written[u] \in RowType /\ Origin(accounts[u], u)
    BY <1>2, <1>6 DEF UInv, UTypeOK, Exists, NoRow, Gone, Provenance
  <2>3. /\ row \in RowType /\ row.code = q /\ row.password = accounts[u].password
        /\ [written[u] EXCEPT !.code = q] \in RowType
    BY <1>1, <2>2 DEF RowType
  <2>4. /\ accounts' = [accounts EXCEPT ![u] = row]
        /\ written' = [written EXCEPT ![u] = [written[u] EXCEPT !.code = q]]
    BY <1>1, <1>2, <2>1 DEF UTypeOK
  <2>5. /\ written' \in [Users -> RowType \cup {NoRow}]
        /\ written'[u] = [written[u] EXCEPT !.code = q]
        /\ \A v \in Users \ {u} : written'[v] = written[v]
    BY <1>2, <2>3, <2>4 DEF UTypeOK
  <2>6. u \notin raced' => written'[u] = row
    BY <1>1, <1>2, <1>6, <2>1, <2>5 DEF UInv, NoLostUpdate, Wrote
  <2>7. /\ accounts' \in [Users -> RowType \cup {NoRow, Gone}]
        /\ owner' \in [Requests -> Users \cup {None}] /\ owner'[q] = u
        /\ landed' \subseteq Requests /\ stale' \subseteq Requests /\ raced' \subseteq Users
    BY <1>2, <2>1, <2>3, <2>4 DEF UTypeOK, Wrote, Holders
  <2>8. \A v \in Users : accounts'[v] # NoRow => written'[v] \in RowType
    BY <1>2, <2>3, <2>4, <2>5 DEF UTypeOK
  <2>9. UTypeOK'
    BY <1>2, <1>3, <2>5, <2>7, <2>8 DEF UTypeOK
  <2>10. OwnerOnce(q)
    BY <1>1, <1>2, <2>1 DEF OwnerOnce
  <2>11. CodeUsed(q)'
    BY <1>2, <1>3 DEF CodeUsed
  <2>12. Writes(q, u, row)
    BY <1>1, <1>2, <1>3, <2>1, <2>3, <2>4, <2>5, <2>6 DEF Writes
  <2>13. Origin(row, u)'
    <3>1. row.password # None =>
            /\ at'[row.password] \in {"clear", "done", "rejected"}
            /\ asks'[row.password].kind = "reset" => owner'[asks'[row.password].code] = u
      <4>1. SUFFICES ASSUME row.password # None
                     PROVE  /\ at'[row.password] \in {"clear", "done", "rejected"}
                            /\ asks'[row.password].kind = "reset" => owner'[asks'[row.password].code] = u
        OBVIOUS
      <4>2. /\ row.password \in Requests /\ at[row.password] \in {"clear", "done", "rejected"}
            /\ asks[row.password].kind = "reset" => owner[asks[row.password].code] = u
        BY <2>2, <2>3, <4>1 DEF Origin, RowType
      <4>3. asks[row.password].kind = "reset" => asks[row.password].code \in Requests
        BY <4>2 DEF UInv, Provenance, CodeUsed
      <4>. QED
        BY <1>2, <1>3, <2>1, <4>2, <4>3 DEF UTypeOK
    <3>. QED
      BY <2>3, <2>7, <3>1 DEF Origin
  <2>. QED
    BY <1>3, <1>4, <2>9, <2>10, <2>11, <2>12, <2>13, WriteStep
<1>. QED
  BY <1>5, <1>6

LEMMA EndStep ==
  ASSUME UInv, NEW q \in Requests, SendEmail(q) \/ ClearResetToken(q) \/ CallRejected(q)
  PROVE  UInv'
<1>1. Tables /\ Counters /\ (stale' = stale \/ stale' = stale \ {q})
  BY FaultsAssumption DEF SendEmail, ClearResetToken, CallRejected, WroteNothing, Tables, Counters, UInv, UTypeOK
<1>2. CASE SendEmail(q)
  <2>1. PICK how \in {"sent", "rejected"} : Answer(q, how)
    BY <1>2 DEF SendEmail
  <2>2. at[q] = "mail"
    BY <1>2 DEF SendEmail
  <2>. QED
    BY <1>1, <2>1, <2>2, AnswerStep
<1>3. CASE ClearResetToken(q)
  <2>1. Answer(q, "done") /\ at[q] = "clear"
    BY <1>3 DEF ClearResetToken
  <2>. QED
    BY <1>1, <2>1, AnswerStep
<1>4. CASE CallRejected(q)
  <2>1. Answer(q, "rejected") /\ at[q] \notin {"new", "sent", "done", "rejected"}
    BY <1>4 DEF CallRejected
  <2>. QED
    BY <1>1, <2>1, AnswerStep
<1>. QED
  BY <1>2, <1>3, <1>4

LEMMA CodeExpiresStep ==
  ASSUME UInv, NEW q \in Requests, CodeExpires(q)
  PROVE  UInv'
<1>1. UTypeOK'
  BY DEF UInv, UTypeOK, CodeExpires
<1>2. Alone(q) /\ Quiet(q) /\ Ended(q) /\ BirthAlone(q)
  BY DEF CodeExpires, Alone, Quiet, Ended, BirthAlone
<1>3. Own(q)'
  BY DEF UInv, Provenance, CodeExpires, Own, Stage, FreshCopy, CodeUsed, Origin, Target, Placed, Exists
<1>. QED
  BY <1>1, <1>2, <1>3, QuietStep

-----------------------------------------------------------------------------
LEMMA InitInvariant == UInit => UInv
<1>. SUFFICES ASSUME UInit PROVE UInv
  OBVIOUS
<1>. USE UsersAssumption, NoneAssumption DEF UInit
<1>1. Nothing \in Asks /\ Nothing.kind = "none" /\ ~Nothing.password
  BY DEF Nothing, Asks
<1>2. \A u \in Existing : /\ Row(Email[u], None, None) \in RowType
                          /\ Row(Email[u], None, None).code = None
                          /\ Row(Email[u], None, None).password = None
  BY DEF Row, RowType
<1>3. \A u \in Users : /\ u \in Existing => accounts[u] = Row(Email[u], None, None)
                       /\ u \notin Existing => accounts[u] = NoRow /\ ~Exists(u)
  BY DEF Exists, NoRow
<1>4. UTypeOK
  BY <1>1, <1>2, <1>3 DEF UTypeOK
<1>5. NoLostUpdate
  BY DEF NoLostUpdate
<1>6. \A q \in Requests : Stage(q) /\ FreshCopy(q) /\ CodeUsed(q) /\ at[q] # "save"
  BY <1>1 DEF Stage, FreshCopy, CodeUsed, Target, Placed
<1>7. \A u \in Users : Exists(u) => Origin(accounts[u], u)
  BY <1>2, <1>3 DEF Origin
<1>. QED
  BY <1>4, <1>5, <1>6, <1>7 DEF UInv, Provenance

LEMMA StepInvariant == UInv /\ [UNext]_uvars => UInv'
<1>1. ASSUME UInv, NEW q \in Requests, Serve(q) PROVE UInv'
  BY <1>1, ReceiveCreateStep, ReceiveStep, InsertUserStep, FindOneStep, SaveUserStep,
     RemoveUserStep, FindByStep, SetResetTokenStep, EndStep DEF Serve
<1>2. ASSUME UInv, UNCHANGED uvars PROVE UInv'
  <2>1. UTypeOK' /\ NoLostUpdate'
    BY <1>2 DEF UInv, UTypeOK, NoLostUpdate, Exists, uvars
  <2>2. \A q \in Requests : Stage(q)' /\ FreshCopy(q)'
    BY <1>2 DEF UInv, Stage, FreshCopy, Target, Placed, Exists, uvars
  <2>3. Provenance'
    BY <1>2 DEF UInv, Provenance, CodeUsed, Origin, Target, Exists, uvars
  <2>. QED
    BY <2>1, <2>2, <2>3 DEF UInv
<1>. QED
  BY <1>1, <1>2, CodeExpiresStep DEF UNext

\* The rows, the copies that requests hold of them across their awaits and the
\* codes fit together in every state (users.service.ts, auth.service.ts).
THEOREM AccountsInvariant == USpec => []UInv
  BY InitInvariant, StepInvariant, PTL DEF USpec

\* Unless a copy older than the row has been saved over it, no column of a user
\* loses what a request last wrote there.
THEOREM UpdatesAreKept == USpec => []NoLostUpdate
<1>1. UInv => NoLostUpdate
  BY DEF UInv
<1>. QED
  BY <1>1, AccountsInvariant, PTL

\* A password that a reset has set belongs to the user for whom the code of
\* that reset was stored.
THEOREM ResetsHitTheirOwner == USpec => []ResetHitsOwner
<1>1. UInv => ResetHitsOwner
  BY DEF UInv, Provenance, Origin, ResetHitsOwner
<1>. QED
  BY <1>1, AccountsInvariant, PTL

\* A removed user comes back only when a copy that had been read before is saved.
THEOREM RemovedUsersStayRemoved == USpec => RemovedStaysRemoved
<1>1. ASSUME UInv, NEW q \in Requests, Serve(q), NEW u \in Users, accounts[u] = Gone, accounts'[u] # Gone
      PROVE  u \in raced'
  <2>1. UTypeOK /\ Stage(q) /\ FreshCopy(q) /\ ~Exists(u) /\ Gone # NoRow
    BY <1>1 DEF UInv, Exists, Gone, NoRow
  <2>2. CASE InsertUser(q)
    BY <1>1, <2>1, <2>2 DEF InsertUser, UTypeOK, Stage
  <2>3. CASE SaveUser(q)
    BY <1>1, <2>1, <2>3 DEF SaveUser, UTypeOK, FreshCopy, Wrote
  <2>4. CASE RemoveUser(q)
    BY <1>1, <2>1, <2>4 DEF RemoveUser, UTypeOK
  <2>5. CASE SetResetToken(q)
    BY <1>1, <2>1, <2>5 DEF SetResetToken, UTypeOK
  <2>6. CASE UNCHANGED accounts
    BY <1>1, <2>6
  <2>. QED
    BY <1>1, <2>2, <2>3, <2>4, <2>5, <2>6
    DEF Serve, ReceiveCreate, ReceiveUpdate, ReceiveForgot, ReceiveReset, ReceiveRemove, Receive,
        FindOne, FindByEmail, SendEmail, FindByResetToken, ClearResetToken, CallRejected
<1>2. UInv /\ [UNext]_uvars =>
        [\A u \in Users : accounts[u] = Gone /\ accounts'[u] # Gone => u \in raced']_uvars
  BY <1>1 DEF UNext, CodeExpires, uvars
<1>. QED
  BY <1>2, AccountsInvariant, PTL DEF USpec, RemovedStaysRemoved

-----------------------------------------------------------------------------
(* The service implements AtomicEdits.                                      *)

\* A row that a stale copy has been saved over is there, or was.
Raced == \A u \in raced : accounts[u] # NoRow

\* What a step of request q leaves alone, whichever it is.
LEMMA ServeAlone ==
  ASSUME UTypeOK, NEW q \in Requests, Serve(q)
  PROVE  Alone(q) /\ landed \subseteq landed' /\ landed' \subseteq landed \cup {q}
<1>1. CASE InsertUser(q) \/ FindOne(q) \/ SaveUser(q) \/ RemoveUser(q)
  BY <1>1 DEF UTypeOK, Alone, Others, InsertUser, FindOne, SaveUser, RemoveUser, Answer, Goto,
     Wrote, WroteNothing
<1>2. CASE SetResetToken(q) \/ FindByEmail(q) \/ FindByResetToken(q)
  BY <1>2 DEF UTypeOK, Alone, Others, SetResetToken, FindByEmail, FindByResetToken, Answer, Goto,
     Found, Wrote
<1>3. CASE SendEmail(q) \/ ClearResetToken(q) \/ CallRejected(q)
  BY <1>3 DEF UTypeOK, Alone, Others, SendEmail, ClearResetToken, CallRejected, Answer, WroteNothing
<1>4. CASE \E ask, first : Receive(q, ask, first)
  BY <1>4 DEF UTypeOK, Alone, Others, Receive
<1>. QED
  BY <1>1, <1>2, <1>3, <1>4
  DEF Serve, ReceiveCreate, ReceiveUpdate, ReceiveForgot, ReceiveReset, ReceiveRemove

\* The steps that write a row.
Writing(q) == InsertUser(q) \/ SaveUser(q) \/ RemoveUser(q) \/ SetResetToken(q)

LEMMA RacedRows == USpec => []Raced
<1>1. UInit => Raced
  BY DEF UInit, Raced
<1>2. ASSUME UInv, Raced, NEW q \in Requests, Serve(q) PROVE Raced'
  <2>1. UTypeOK /\ Stage(q)
    BY <1>2 DEF UInv
  <2>2. CASE Writing(q)
    <3>1. \A email, code : Row(email, q, code) # NoRow
      BY DEF Row, NoRow
    <3>2. Gone # NoRow
      BY DEF Gone, NoRow
    <3>3. at[q] = "save" => Assigned(q, entity[q]) # NoRow
      <4>1. SUFFICES ASSUME at[q] = "save" PROVE Assigned(q, entity[q]) # NoRow
        OBVIOUS
      <4>2. Assigned(q, entity[q]) \in RowType
        BY <2>1, <4>1, AssignedRow DEF UTypeOK
      <4>. QED
        BY <4>2 DEF RowType, NoRow
    <3>4. \A u \in Users : Exists(u) => [accounts[u] EXCEPT !.code = q] # NoRow
      BY <2>1 DEF UTypeOK, Exists, RowType, NoRow, Gone
    <3>5. at[q] \in {"insert", "save", "delete", "store"} /\ Target(q) \in Users
      BY <2>1, <2>2 DEF Writing, InsertUser, SaveUser, RemoveUser, SetResetToken, Stage, Placed
    <3>6. ASSUME NEW row, row # NoRow, accounts' = [accounts EXCEPT ![Target(q)] = row], Wrote(q, Target(q))
          PROVE  Raced'
      BY <1>2, <2>1, <3>5, <3>6 DEF Raced, UTypeOK, Wrote
    <3>7. CASE UNCHANGED <<accounts, raced>>
      BY <1>2, <3>7 DEF Raced
    <3>8. CASE InsertUser(q)
      BY <3>1, <3>6, <3>7, <3>8 DEF InsertUser, WroteNothing
    <3>9. CASE SaveUser(q)
      BY <3>3, <3>6, <3>7, <3>9 DEF SaveUser, WroteNothing
    <3>10. CASE RemoveUser(q)
      BY <3>2, <3>6, <3>7, <3>10 DEF RemoveUser, WroteNothing
    <3>11. CASE SetResetToken(q)
      <4>1. UNCHANGED <<accounts, raced>>
              \/ /\ accounts' = [accounts EXCEPT ![Target(q)] = [accounts[Target(q)] EXCEPT !.code = q]]
                 /\ Exists(Target(q)) /\ Wrote(q, Target(q))
        BY <2>1, <3>5, <3>11 DEF SetResetToken, UTypeOK
      <4>. QED
        BY <3>4, <3>5, <3>6, <3>7, <4>1
    <3>. QED
      BY <2>2, <3>8, <3>9, <3>10, <3>11 DEF Writing
  <2>3. CASE UNCHANGED <<accounts, raced>>
    BY <1>2, <2>3 DEF Raced
  <2>. QED
    BY <1>2, <2>2, <2>3
    DEF Serve, Writing, ReceiveCreate, ReceiveUpdate, ReceiveForgot, ReceiveReset, ReceiveRemove, Receive,
        FindOne, FindByEmail, SendEmail, FindByResetToken, ClearResetToken, CallRejected, WroteNothing
<1>3. UInv /\ Raced /\ [UNext]_uvars => Raced'
  BY <1>2 DEF UNext, CodeExpires, uvars, Raced
<1>. QED
  BY <1>1, <1>3, AccountsInvariant, PTL DEF USpec

\* In place of an order.
IdleOrder    == [kind |-> "idle"]
AppliedOrder == [kind |-> "applied"]
RefusedOrder == [kind |-> "refused"]

LEMMA OrderKinds ==
  /\ IdleOrder \notin Edits!Orders /\ AppliedOrder \notin Edits!Orders /\ RefusedOrder \notin Edits!Orders
  /\ IdleOrder # AppliedOrder /\ IdleOrder # RefusedOrder /\ AppliedOrder # RefusedOrder
<1>1. IdleOrder.kind = "idle" /\ AppliedOrder.kind = "applied" /\ RefusedOrder.kind = "refused"
  BY DEF IdleOrder, AppliedOrder, RefusedOrder
<1>2. \A o \in Edits!Orders : o.kind \in {"insert", "change", "remove"}
  BY DEF Edits!Orders
<1>. QED
  BY <1>1, <1>2

\* A row that exists is a row of the table, and nothing else is.
LEMMA RowsOfTable ==
  ASSUME UTypeOK, NEW u \in Users
  PROVE  /\ UserRow(u) \in Edits!Rows <=> u \notin raced /\ Exists(u)
         /\ u \notin raced /\ Exists(u) => UserRow(u) = [c \in UColumns |-> accounts[u][c]]
<1>1. \A row \in Edits!Rows : DOMAIN row = UColumns
  BY DEF Edits!Rows
<1>2. "state" \notin UColumns
  BY DEF UColumns
<1>3. /\ DOMAIN [state |-> "uncertain"] = {"state"}
      /\ DOMAIN NoRow = {"state"} /\ DOMAIN Gone = {"state"}
  BY DEF NoRow, Gone
<1>4. accounts[u] \in RowType \cup {NoRow, Gone} /\ \A row \in RowType : row.state = "exists"
  BY DEF UTypeOK, RowType
<1>5. CASE u \in raced
  BY <1>1, <1>2, <1>3, <1>5 DEF UserRow
<1>6. CASE u \notin raced /\ ~Exists(u)
  <2>1. UserRow(u) \in {NoRow, Gone}
    BY <1>4, <1>6 DEF UserRow, Exists
  <2>. QED
    BY <1>1, <1>2, <1>3, <1>6, <2>1
<1>7. CASE u \notin raced /\ Exists(u)
  <2>1. accounts[u] \in RowType
    BY <1>4, <1>7 DEF Exists, NoRow, Gone
  <2>2. \A c \in UColumns : accounts[u][c] \in Emails \cup Requests \cup {None}
    BY <2>1 DEF RowType, UColumns
  <2>3. UserRow(u) = [c \in UColumns |-> accounts[u][c]]
    BY <1>7 DEF UserRow
  <2>. QED
    BY <1>7, <2>2, <2>3 DEF Edits!Rows
<1>. QED
  BY <1>5, <1>6, <1>7

\* What a request brings is part of a row, and all of it when it creates one.
LEMMA BroughtParts ==
  ASSUME NEW q \in Requests, asks[q] \in Asks
  PROVE  /\ Brought(q) \in Edits!Parts
         /\ asks[q].kind = "create" => Brought(q) \in Edits!Rows
<1>1. Brings(q) \in SUBSET UColumns
  BY DEF Brings
<1>2. \A c \in Brings(q) : Brought(q)[c] \in Emails \cup Requests \cup {None}
  <2>1. asks[q].email \in Emails \cup {None}
    BY DEF Asks
  <2>. QED
    BY <2>1 DEF Brought
<1>3. Brought(q) \in [Brings(q) -> Emails \cup Requests \cup {None}]
  BY <1>2 DEF Brought
<1>4. asks[q].kind = "create" => Brings(q) = UColumns
  BY DEF Brings
<1>. QED
  BY <1>1, <1>3, <1>4 DEF Edits!Parts, Edits!Rows

\* A request that knows whose row it writes, and has not written it, has an order.
LEMMA PlacedOrder == \A q \in Requests : UInv /\ Placed(q) =>
  /\ OrderOf(q) \in Edits!Orders
  /\ OrderOf(q) = IF asks[q].kind = "remove" THEN [kind |-> "remove", keys |-> {Target(q)}]
                  ELSE [kind |-> IF asks[q].kind = "create" THEN "insert" ELSE "change",
                        key |-> Target(q), columns |-> Brought(q)]
<1>. SUFFICES ASSUME NEW q \in Requests, UInv, Placed(q)
              PROVE  /\ OrderOf(q) \in Edits!Orders
                     /\ OrderOf(q) = IF asks[q].kind = "remove" THEN [kind |-> "remove", keys |-> {Target(q)}]
                                     ELSE [kind |-> IF asks[q].kind = "create" THEN "insert" ELSE "change",
                                           key |-> Target(q), columns |-> Brought(q)]
  OBVIOUS
<1>1. q \notin landed /\ at[q] # "done" /\ Target(q) \in Users /\ asks[q] \in Asks
  BY DEF UInv, UTypeOK, Stage, Placed
<1>2. OrderOf(q) = IF asks[q].kind = "remove" THEN [kind |-> "remove", keys |-> {Target(q)}]
                   ELSE [kind |-> IF asks[q].kind = "create" THEN "insert" ELSE "change",
                         key |-> Target(q), columns |-> Brought(q)]
  BY <1>1 DEF OrderOf
<1>3. Brought(q) \in Edits!Parts
  BY <1>1, BroughtParts
<1>. QED
  BY <1>1, <1>2, <1>3 DEF Edits!Orders

\* A step that writes no row: its request stays, gets an order, or gives up.
LEMMA QuietEdit ==
  ASSUME NEW q \in Requests,
         \A p \in Others(q) : OrderOf(p)' = OrderOf(p),
         UNCHANGED Table,
         \/ OrderOf(q)' = OrderOf(q)
         \/ OrderOf(q) = IdleOrder /\ OrderOf(q)' \in Edits!Orders
         \/ OrderOf(q) \notin {AppliedOrder, RefusedOrder} /\ OrderOf(q)' = RefusedOrder
  PROVE  [Edits!ENext]_(Edits!evars)
<1>1. \A p \in Requests : Order[p] = OrderOf(p) /\ Order'[p] = OrderOf(p)'
  BY DEF Order
<1>2. Order' = [Order EXCEPT ![q] = OrderOf(q)']
  BY DEF Order, Others
<1>3. CASE OrderOf(q)' = OrderOf(q)
  <2>1. Order' = Order
    BY <1>1, <1>3 DEF Order, Others
  <2>. QED
    BY <2>1 DEF Edits!evars
<1>4. CASE OrderOf(q)' # OrderOf(q)
  <2>1. {p \in Requests : Order'[p] # Order[p]} = {q}
    BY <1>1, <1>4 DEF Others
  <2>2. CASE OrderOf(q) = IdleOrder /\ OrderOf(q)' \in Edits!Orders
    <3>1. Edits!Place(q)
      BY <1>1, <1>2, <2>2 DEF Edits!Place, Edits!Becomes, IdleOrder
    <3>. QED
      BY <2>1, <3>1 DEF Edits!ENext
  <2>3. CASE OrderOf(q) \notin {AppliedOrder, RefusedOrder} /\ OrderOf(q)' = RefusedOrder
    <3>1. Order' = [p \in Requests |-> IF p \in {q} THEN RefusedOrder ELSE Order[p]]
      BY <1>1, <2>3 DEF Order, Others
    <3>2. Edits!Refuse({q})
      BY <1>1, <2>3, <3>1 DEF Edits!Refuse, AppliedOrder, RefusedOrder
    <3>. QED
      BY <2>1, <3>2 DEF Edits!ENext
  <2>. QED
    BY <1>4, <2>2, <2>3
<1>. QED
  BY <1>3, <1>4

\* A step that writes a row is the one step in which its order takes effect.
LEMMA WriteEdit ==
  ASSUME NEW q \in Requests,
         \A p \in Others(q) : OrderOf(p)' = OrderOf(p),
         OrderOf(q) \in Edits!Orders, OrderOf(q)' = AppliedOrder,
         \/ OrderOf(q).kind = "insert" /\ Edits!Insert(OrderOf(q).key, OrderOf(q).columns)
         \/ OrderOf(q).kind = "change" /\ Edits!Change(OrderOf(q).key, OrderOf(q).columns)
         \/ OrderOf(q).kind = "remove" /\ Edits!Remove(OrderOf(q).keys)
  PROVE  Edits!ENext
<1>1. \A p \in Requests : Order[p] = OrderOf(p) /\ Order'[p] = OrderOf(p)'
  BY DEF Order
<1>2. Order' = [Order EXCEPT ![q] = OrderOf(q)']
  BY DEF Order, Others
<1>3. Order[q] \notin {IdleOrder, AppliedOrder, RefusedOrder}
  BY <1>1, OrderKinds
<1>4. q \in {p \in Requests : Order'[p] # Order[p]}
  BY <1>1, <1>3
<1>5. Edits!Execute(q)
  BY <1>1, <1>2, <1>3 DEF Edits!Execute, Edits!Becomes, IdleOrder, AppliedOrder, RefusedOrder
<1>. QED
  BY <1>4, <1>5 DEF Edits!ENext

\* The order of a request, by the await it is in.
Staged(q) ==
  /\ q \in landed \/ at[q] = "done" => OrderOf(q) = AppliedOrder
  /\ at[q] \in {"new", "email", "token"} => OrderOf(q) = IdleOrder
  /\ at[q] \in {"mail", "sent", "rejected"} /\ q \notin landed => OrderOf(q) = RefusedOrder
  /\ Placed(q) => OrderOf(q) \in Edits!Orders

LEMMA OrderStages == UInv => \A q \in Requests : Staged(q)
<1>1. \A q \in Requests : UInv =>
        /\ q \in landed \/ at[q] = "done" => OrderOf(q) = AppliedOrder
        /\ at[q] \in {"new", "email", "token"} => OrderOf(q) = IdleOrder
        /\ at[q] \in {"mail", "sent", "rejected"} /\ q \notin landed => OrderOf(q) = RefusedOrder
  BY DEF OrderOf, UInv, Stage, Placed, IdleOrder, AppliedOrder, RefusedOrder
<1>. QED
  BY <1>1, PlacedOrder DEF Staged

LEMMA OrderStagesNext == UInv' => (\A q \in Requests : Staged(q))'
  BY OrderStages, PTL

\* An order depends on nothing but the request and whether it has written.
LEMMA OrdersStay ==
  ASSUME NEW q \in Requests, Alone(q), landed \subseteq landed', landed' \subseteq landed \cup {q},
         NEW p \in Others(q)
  PROVE  OrderOf(p)' = OrderOf(p)
<1>1. asks'[p] = asks[p] /\ at'[p] = at[p] /\ p \in Requests /\ (p \in landed' <=> p \in landed)
  BY DEF Alone, Others
<1>2. Brings(p)' = Brings(p)
  BY <1>1 DEF Brings
<1>3. Brought(p)' = Brought(p)
  BY <1>1, <1>2 DEF Brought
<1>4. Target(p)' = Target(p) /\ (Placed(p)' <=> Placed(p))
  BY <1>1 DEF Target, Placed
<1>. QED
  BY <1>1, <1>3, <1>4 DEF OrderOf

\* Only a copy that is going to be saved can be stale.
StaleSaves == \A q \in stale : at[q] = "save"

LEMMA StaleCopies == USpec => []StaleSaves
<1>1. UInit => StaleSaves
  BY DEF UInit, StaleSaves
<1>2. ASSUME UInv, StaleSaves, NEW q \in Requests, Serve(q) PROVE StaleSaves'
  <2>1. UTypeOK
    BY <1>2 DEF UInv
  <2>2. CASE InsertUser(q) \/ SaveUser(q) \/ RemoveUser(q) \/ SetResetToken(q)
    BY <1>2, <2>1, <2>2 DEF InsertUser, SaveUser, RemoveUser, SetResetToken, StaleSaves, UTypeOK,
       Wrote, WroteNothing, Holders, Answer, Goto
  <2>3. CASE CallRejected(q)
    BY <1>2, <2>1, <2>3 DEF CallRejected, StaleSaves, UTypeOK, WroteNothing, Answer
  <2>4. CASE UNCHANGED stale /\ at[q] # "save"
    BY <1>2, <2>1, <2>4, ServeAlone DEF StaleSaves, Alone, Others, UTypeOK
  <2>. QED
    BY <1>2, <2>2, <2>3, <2>4
    DEF Serve, ReceiveCreate, ReceiveUpdate, ReceiveForgot, ReceiveReset, ReceiveRemove, Receive,
        FindOne, FindByEmail, SendEmail, FindByResetToken, ClearResetToken
<1>3. UInv /\ StaleSaves /\ [UNext]_uvars => StaleSaves'
  BY <1>2 DEF UNext, CodeExpires, uvars, StaleSaves
<1>. QED
  BY <1>1, <1>3, AccountsInvariant, PTL DEF USpec

\* A write of u changes the table at u.
LEMMA TableWritten ==
  ASSUME UTypeOK, NEW q \in Requests, NEW u \in Users, NEW row,
         accounts' = [accounts EXCEPT ![u] = row], Wrote(q, u)
  PROVE  /\ Table' = [Table EXCEPT ![u] = UserRow(u)']
         /\ Table[u] = UserRow(u)
         /\ accounts'[u] = row
         /\ u \in raced' <=> u \in raced \/ q \in stale
         /\ q \in landed'
<1>1. \A v \in Users \ {u} : accounts'[v] = accounts[v] /\ (v \in raced' <=> v \in raced)
  BY DEF UTypeOK, Wrote
<1>2. \A v \in Users \ {u} : UserRow(v)' = UserRow(v)
  BY <1>1 DEF UserRow, Exists
<1>3. Table' = [Table EXCEPT ![u] = UserRow(u)'] /\ Table[u] = UserRow(u)
  BY <1>2 DEF Table
<1>. QED
  BY <1>3 DEF UTypeOK, Wrote

LEMMA InsertEdit ==
  ASSUME UInv, UInv', Raced, StaleSaves, NEW q \in Requests, InsertUser(q),
         ~Taken(Target(q), asks[q].email)
  PROVE  Edits!ENext
<1>1. PICK u, row : u = Target(q) /\ row = Row(asks[q].email, q, None)
  OBVIOUS
<1>2. /\ UTypeOK /\ UTypeOK' /\ Stage(q) /\ u \in Users /\ at[q] = "insert" /\ Placed(q)
      /\ asks[q].kind = "create" /\ asks[q] \in Asks /\ accounts[u] = NoRow
  BY <1>1 DEF UInv, UTypeOK, InsertUser, Stage, Placed
<1>3. accounts' = [accounts EXCEPT ![u] = row] /\ Wrote(q, u)
  BY <1>1 DEF InsertUser
<1>4. /\ Table' = [Table EXCEPT ![u] = UserRow(u)'] /\ Table[u] = UserRow(u) /\ accounts'[u] = row
      /\ u \notin raced /\ u \notin raced' /\ q \in landed'
  BY <1>2, <1>3, TableWritten DEF Raced, StaleSaves
<1>5. OrderOf(q) = [kind |-> "insert", key |-> u, columns |-> Brought(q)] /\ OrderOf(q) \in Edits!Orders
  BY <1>1, <1>2, PlacedOrder
<1>6. Brought(q) \in Edits!Rows
  BY <1>2, BroughtParts
<1>7. UserRow(u)' = Brought(q)
  <2>1. /\ row.state = "exists" /\ row["email"] = asks[q].email /\ row["password"] = q
        /\ row["code"] = None
    BY <1>1 DEF Row
  <2>2. UserRow(u)' = [c \in UColumns |-> row[c]]
    BY <1>4, <2>1 DEF UserRow, Exists
  <2>3. Brings(q) = UColumns
    BY <1>2 DEF Brings
  <2>4. \A c \in UColumns : Brought(q)[c] = row[c]
    BY <1>2, <2>1, <2>3 DEF Brought, UColumns
  <2>5. Brought(q) = [c \in UColumns |-> Brought(q)[c]]
    BY <1>6 DEF Edits!Rows
  <2>. QED
    BY <2>2, <2>4, <2>5
<1>8. UserRow(u) = NoRow
  BY <1>2, <1>4 DEF UserRow, Exists, NoRow
<1>9. Edits!Insert(OrderOf(q).key, OrderOf(q).columns)
  BY <1>4, <1>5, <1>6, <1>7, <1>8 DEF Edits!Insert
<1>10. OrderOf(q)' = AppliedOrder
  BY <1>4, OrderStagesNext DEF Staged
<1>11. \A p \in Others(q) : OrderOf(p)' = OrderOf(p)
  BY <1>2, ServeAlone, OrdersStay DEF Serve
<1>. QED
  BY <1>5, <1>9, <1>10, <1>11, WriteEdit

LEMMA RemoveEdit ==
  ASSUME UInv, UInv', Raced, StaleSaves, NEW q \in Requests, RemoveUser(q), Exists(Target(q))
  PROVE  Edits!ENext
<1>1. PICK u : u = Target(q)
  OBVIOUS
<1>2. /\ UTypeOK /\ Stage(q) /\ u \in Users /\ at[q] = "delete" /\ Placed(q)
      /\ asks[q].kind = "remove"
  BY <1>1 DEF UInv, RemoveUser, Stage, Placed
<1>3. accounts' = [accounts EXCEPT ![u] = Gone] /\ Wrote(q, u)
  BY <1>1 DEF RemoveUser
<1>4. /\ Table' = [Table EXCEPT ![u] = UserRow(u)'] /\ Table[u] = UserRow(u) /\ accounts'[u] = Gone
      /\ u \in raced' <=> u \in raced
      /\ q \in landed'
  BY <1>2, <1>3, TableWritten DEF StaleSaves
<1>5. OrderOf(q) = [kind |-> "remove", keys |-> {u}] /\ OrderOf(q) \in Edits!Orders
  BY <1>1, <1>2, PlacedOrder
<1>6. UserRow(u)' = IF Table[u] \in Edits!Rows THEN Gone ELSE Table[u]
  BY <1>1, <1>2, <1>4, RowsOfTable DEF UserRow, Exists, Gone
<1>7. Edits!Remove(OrderOf(q).keys)
  <2>1. Table' = [k \in Users |-> IF k \in {u} /\ Table[k] \in Edits!Rows THEN Gone ELSE Table[k]]
    BY <1>4, <1>6 DEF Table
  <2>. QED
    BY <1>5, <2>1 DEF Edits!Remove
<1>8. OrderOf(q)' = AppliedOrder
  BY <1>4, OrderStagesNext DEF Staged
<1>9. \A p \in Others(q) : OrderOf(p)' = OrderOf(p)
  BY <1>2, ServeAlone, OrdersStay DEF Serve
<1>. QED
  BY <1>5, <1>7, <1>8, <1>9, WriteEdit

\* row is the row of u with the columns of request q.
Assigns(q, u, row) ==
  /\ Exists(u)
  /\ \A c \in UColumns : row[c] = IF c \in Brings(q) THEN Brought(q)[c] ELSE accounts[u][c]

\* A write that changes the columns of request q, or makes the row uncertain.
LEMMA ChangeEdit ==
  ASSUME UInv, UInv', NEW q \in Requests, Serve(q), NEW u, u = Target(q), NEW row \in RowType,
         at[q] \in {"save", "store"},
         accounts' = [accounts EXCEPT ![u] = row], Wrote(q, u),
         q \notin stale => Assigns(q, u, row)
  PROVE  Edits!ENext
<1>1. /\ UTypeOK /\ u \in Users /\ Placed(q) /\ asks[q] \in Asks
      /\ asks[q].kind \in {"update", "reset", "forgot"}
  BY DEF UInv, UTypeOK, Stage, Placed
<1>2. /\ Table' = [Table EXCEPT ![u] = UserRow(u)'] /\ Table[u] = UserRow(u) /\ accounts'[u] = row
      /\ u \in raced' <=> u \in raced \/ q \in stale
      /\ q \in landed'
  BY <1>1, TableWritten
<1>3. OrderOf(q) = [kind |-> "change", key |-> u, columns |-> Brought(q)] /\ OrderOf(q) \in Edits!Orders
  BY <1>1, PlacedOrder
<1>4. Edits!Change(u, Brought(q))
  <2>1. CASE u \in raced'
    BY <1>2, <2>1 DEF UserRow, Edits!Change
  <2>2. CASE u \notin raced'
    <3>1. /\ Exists(u) /\ u \notin raced
          /\ \A c \in UColumns : row[c] = IF c \in Brings(q) THEN Brought(q)[c] ELSE accounts[u][c]
      BY <1>2, <2>2 DEF Assigns
    <3>2. UserRow(u) = [c \in UColumns |-> accounts[u][c]] /\ UserRow(u) \in Edits!Rows
      BY <1>1, <3>1, RowsOfTable
    <3>3. UserRow(u)' = [c \in UColumns |-> row[c]]
      BY <1>2, <2>2 DEF UserRow, Exists, RowType
    <3>4. DOMAIN Brought(q) = Brings(q)
      BY DEF Brought
    <3>5. UserRow(u)' = Edits!Edited(UserRow(u), Brought(q))
      BY <3>1, <3>2, <3>3, <3>4 DEF Edits!Edited
    <3>. QED
      BY <1>2, <3>2, <3>5 DEF Edits!Change
  <2>. QED
    BY <2>1, <2>2
<1>5. Edits!Change(OrderOf(q).key, OrderOf(q).columns)
  BY <1>3, <1>4
<1>6. OrderOf(q)' = AppliedOrder
  BY <1>2, OrderStagesNext DEF Staged
<1>7. \A p \in Others(q) : OrderOf(p)' = OrderOf(p)
  BY <1>1, ServeAlone, OrdersStay
<1>. QED
  BY <1>3, <1>5, <1>6, <1>7, WriteEdit

LEMMA SaveEdit ==
  ASSUME UInv, UInv', NEW q \in Requests, SaveUser(q),
         ~Taken(Target(q), Assigned(q, entity[q]).email)
  PROVE  Edits!ENext
<1>1. PICK u, row : u = Target(q) /\ row = Assigned(q, entity[q])
  OBVIOUS
<1>2. /\ UTypeOK /\ at[q] = "save" /\ FreshCopy(q) /\ asks[q] \in Asks /\ entity[q] \in RowType
      /\ asks[q].kind \in {"update", "reset"} /\ Serve(q)
  BY DEF UInv, UTypeOK, SaveUser, Stage, Serve
<1>3. accounts' = [accounts EXCEPT ![u] = row] /\ Wrote(q, u) /\ row \in RowType
  BY <1>1, <1>2, AssignedRow DEF SaveUser
<1>4. \A c \in UColumns : row[c] = IF c \in Brings(q) THEN Brought(q)[c] ELSE entity[q][c]
  <2>1. /\ row["email"] = IF asks[q].email # None THEN asks[q].email ELSE entity[q]["email"]
        /\ row["password"] = IF asks[q].password THEN q ELSE entity[q]["password"]
        /\ row["code"] = entity[q]["code"]
    BY <1>1, <1>2 DEF Assigned, RowType
  <2>2. /\ "email" \in Brings(q) <=> asks[q].email # None
        /\ "password" \in Brings(q) <=> asks[q].password
        /\ "code" \notin Brings(q)
    BY <1>2 DEF Brings, UColumns
  <2>3. /\ "email" \in Brings(q) => Brought(q)["email"] = asks[q].email
        /\ "password" \in Brings(q) => Brought(q)["password"] = q
    BY DEF Brought
  <2>. QED
    BY <2>1, <2>2, <2>3 DEF UColumns
<1>. QED
  BY <1>1, <1>2, <1>3, <1>4, ChangeEdit DEF FreshCopy, Assigns

LEMMA StoreEdit ==
  ASSUME UInv, UInv', StaleSaves, NEW q \in Requests, SetResetToken(q), Exists(Target(q))
  PROVE  Edits!ENext
<1>1. PICK u, row : u = Target(q) /\ row = [accounts[u] EXCEPT !.code = q]
  OBVIOUS
<1>2. /\ UTypeOK /\ at[q] = "store" /\ asks[q].kind = "forgot" /\ u \in Users /\ Serve(q)
  BY <1>1 DEF UInv, SetResetToken, Stage, Placed, Serve
<1>3. accounts[u] \in RowType
  BY <1>1, <1>2 DEF UTypeOK, Exists, NoRow, Gone
<1>4. /\ row \in RowType /\ row["email"] = accounts[u]["email"]
      /\ row["password"] = accounts[u]["password"] /\ row["code"] = q
  BY <1>1, <1>3 DEF RowType
<1>5. accounts' = [accounts EXCEPT ![u] = row] /\ Wrote(q, u)
  BY <1>1, <1>2 DEF SetResetToken, UTypeOK
<1>6. Brings(q) = {"code"} /\ Brought(q)["code"] = q
  BY <1>2 DEF Brings, Brought, UColumns
<1>7. \A c \in UColumns : row[c] = IF c \in Brings(q) THEN Brought(q)[c] ELSE accounts[u][c]
  BY <1>4, <1>6 DEF UColumns
<1>. QED
  BY <1>1, <1>2, <1>4, <1>5, <1>7, ChangeEdit DEF Assigns

\* The steps that write no row.
LEMMA QuietEdits ==
  ASSUME UInv, UInv', NEW q \in Requests, Serve(q), UNCHANGED <<accounts, landed, raced>>
  PROVE  [Edits!ENext]_(Edits!evars)
<1>1. UTypeOK /\ Stage(q) /\ Staged(q) /\ Staged(q)' /\ Stage(q)'
  BY OrderStages, OrderStagesNext DEF UInv
<1>2. \A p \in Others(q) : OrderOf(p)' = OrderOf(p)
  BY <1>1, ServeAlone, OrdersStay
<1>3. UNCHANGED Table
  BY DEF Table, UserRow, Exists
<1>4. CASE q \in landed
  BY <1>1, <1>2, <1>3, <1>4, QuietEdit DEF Staged
<1>5. CASE q \notin landed
  <2>1. at[q] \in {"new", "email", "token", "mail"} \/ Placed(q)
    BY <1>1, <1>5
    DEF Serve, ReceiveCreate, ReceiveUpdate, ReceiveForgot, ReceiveReset, ReceiveRemove, Receive,
        InsertUser, FindOne, SaveUser, RemoveUser, FindByEmail, SetResetToken, SendEmail,
        FindByResetToken, ClearResetToken, CallRejected, Placed, Stage, UTypeOK
  <2>2. CASE at[q] \in {"new", "email", "token"}
    <3>1. at'[q] \in {"insert", "find", "delete", "email", "token", "store", "rejected"}
      BY <1>1, <2>2
      DEF Serve, ReceiveCreate, ReceiveUpdate, ReceiveForgot, ReceiveReset, ReceiveRemove, Receive,
          InsertUser, FindOne, SaveUser, RemoveUser, FindByEmail, SetResetToken, SendEmail,
          FindByResetToken, ClearResetToken, CallRejected, Found, Answer, UTypeOK
    <3>2. OrderOf(q) = IdleOrder
      BY <1>1, <2>2 DEF Staged
    <3>3. OrderOf(q)' \in {IdleOrder, RefusedOrder} \cup Edits!Orders
      BY <1>1, <1>5, <3>1 DEF Staged, Placed
    <3>. QED
      BY <1>2, <1>3, <3>2, <3>3, OrderKinds, QuietEdit
  <2>3. CASE at[q] = "mail"
    <3>1. at'[q] \in {"sent", "rejected"}
      BY <1>1, <2>3
      DEF Serve, ReceiveCreate, ReceiveUpdate, ReceiveForgot, ReceiveReset, ReceiveRemove, Receive,
          InsertUser, FindOne, SaveUser, RemoveUser, FindByEmail, SetResetToken, SendEmail,
          FindByResetToken, ClearResetToken, CallRejected, Answer, UTypeOK
    <3>2. OrderOf(q) = RefusedOrder /\ OrderOf(q)' = RefusedOrder
      BY <1>1, <1>5, <2>3, <3>1 DEF Staged
    <3>. QED
      BY <1>2, <1>3, <3>2, QuietEdit
  <2>4. CASE Placed(q)
    <3>1. at'[q] \in {"rejected", "mail"} \/ (at[q] = "find" /\ at'[q] = "save" /\ asks' = asks)
      <4>1. CASE InsertUser(q) \/ SaveUser(q) \/ RemoveUser(q) \/ SetResetToken(q)
        BY <1>1, <1>5, <4>1
        DEF InsertUser, SaveUser, RemoveUser, SetResetToken, Answer, Goto, Wrote, UTypeOK
      <4>2. CASE FindOne(q) \/ CallRejected(q)
        BY <1>1, <4>2 DEF FindOne, CallRejected, Answer, Goto, UTypeOK
      <4>. QED
        BY <2>4, <4>1, <4>2
        DEF Serve, ReceiveCreate, ReceiveUpdate, ReceiveForgot, ReceiveReset, ReceiveRemove, Receive,
            FindByEmail, SendEmail, FindByResetToken, ClearResetToken, Placed
    <3>2. OrderOf(q) \in Edits!Orders
      BY <1>1, <2>4 DEF Staged
    <3>3. CASE at'[q] \in {"rejected", "mail"}
      <4>1. OrderOf(q)' = RefusedOrder
        BY <1>1, <1>5, <3>3 DEF Staged
      <4>. QED
        BY <1>2, <1>3, <3>2, <4>1, OrderKinds, QuietEdit
    <3>4. CASE at[q] = "find" /\ at'[q] = "save" /\ asks' = asks
      <4>1. Brings(q)' = Brings(q) /\ Target(q)' = Target(q) /\ Placed(q)'
        BY <3>4 DEF Brings, Target, Placed
      <4>2. Brought(q)' = Brought(q)
        BY <3>4, <4>1 DEF Brought
      <4>3. OrderOf(q)' = OrderOf(q)
        BY <2>4, <3>4, <4>1, <4>2 DEF OrderOf
      <4>. QED
        BY <1>2, <1>3, <4>3, QuietEdit
    <3>. QED
      BY <3>1, <3>3, <3>4
  <2>. QED
    BY <2>1, <2>2, <2>3, <2>4
<1>. QED
  BY <1>4, <1>5

LEMMA InitEdits == UInit /\ UInv => Edits!EInit
<1>. SUFFICES ASSUME UInit, UInv PROVE Edits!EInit
  OBVIOUS
<1>1. UTypeOK /\ raced = {}
  BY DEF UInit, UInv
<1>2. \A q \in Requests : Staged(q) /\ at[q] = "new"
  BY OrderStages DEF UInit
<1>3. \A u \in Users : UserRow(u) \in Edits!Rows \cup {NoRow, Gone}
  BY <1>1, RowsOfTable DEF UserRow, UTypeOK, Exists, RowType
<1>4. Table \in [Users -> Edits!Rows \cup {NoRow, Gone}]
  BY <1>3 DEF Table
<1>5. Order = [q \in Requests |-> IdleOrder]
  BY <1>2 DEF Staged, Order
<1>. QED
  BY <1>4, <1>5 DEF Edits!EInit, IdleOrder

LEMMA StepEdits ==
  UInv /\ UInv' /\ Raced /\ StaleSaves /\ [UNext]_uvars => [Edits!ENext]_(Edits!evars)
<1>1. ASSUME UInv, UInv', Raced, StaleSaves, NEW q \in Requests, Serve(q)
      PROVE  [Edits!ENext]_(Edits!evars)
  <2>1. CASE UNCHANGED <<accounts, landed, raced>>
    BY <1>1, <2>1, QuietEdits
  <2>2. CASE InsertUser(q)
    BY <1>1, <2>1, <2>2, InsertEdit DEF InsertUser, WroteNothing
  <2>3. CASE SaveUser(q)
    BY <1>1, <2>1, <2>3, SaveEdit DEF SaveUser, WroteNothing
  <2>4. CASE RemoveUser(q)
    BY <1>1, <2>1, <2>4, RemoveEdit DEF RemoveUser, WroteNothing
  <2>5. CASE SetResetToken(q)
    BY <1>1, <2>1, <2>5, StoreEdit DEF SetResetToken
  <2>. QED
    BY <1>1, <2>1, <2>2, <2>3, <2>4, <2>5
    DEF Serve, ReceiveCreate, ReceiveUpdate, ReceiveForgot, ReceiveReset, ReceiveRemove, Receive,
        FindOne, FindByEmail, SendEmail, FindByResetToken, ClearResetToken, CallRejected, WroteNothing
<1>2. ASSUME UNCHANGED <<accounts, asks, at, landed, raced>>
      PROVE  UNCHANGED Edits!evars
  <2>1. UNCHANGED Table
    BY <1>2 DEF Table, UserRow, Exists
  <2>2. \A q \in Requests : Brings(q)' = Brings(q) /\ Target(q)' = Target(q) /\ (Placed(q)' <=> Placed(q))
    BY <1>2 DEF Brings, Target, Placed
  <2>3. \A q \in Requests : Brought(q)' = Brought(q)
    BY <1>2, <2>2 DEF Brought
  <2>4. \A q \in Requests : OrderOf(q)' = OrderOf(q)
    BY <1>2, <2>2, <2>3 DEF OrderOf
  <2>5. UNCHANGED Order
    BY <2>4 DEF Order
  <2>. QED
    BY <2>1, <2>5 DEF Edits!evars
<1>. QED
  BY <1>1, <1>2 DEF UNext, CodeExpires, uvars

\* The requests on users.service.ts take effect as atomic edits of the table
\* users, but for a row over which a copy older than it has been saved.
THEOREM AccountsImplementEdits == USpec => EditsAreAtomic
  BY InitInvariant, InitEdits, StepEdits, AccountsInvariant, RacedRows, StaleCopies, PTL
  DEF USpec, EditsAreAtomic, Edits!ESpec
=============================================================================
