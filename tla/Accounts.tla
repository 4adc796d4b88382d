------------------------------ MODULE Accounts ------------------------------
(***************************************************************************)
(* The accounts of users: users.service.ts and the password reset of       *)
(* auth.service.ts.                                                        *)
(*                                                                         *)
(* Profile updates and resets read the whole row, hash a password, and     *)
(* save the row; forgotPassword stores a code by an UPDATE of two columns  *)
(* and mails it afterwards.  Nothing ties the steps of a request together. *)
(* Repository.save writes every column of the entity that differs from the *)
(* row, inserts an entity whose row is gone, and fails on a taken email.   *)
(*                                                                         *)
(* Of a row the columns email, password and resetPasswordToken are kept.   *)
(* A password, and a code with its hour of validity, is known by the       *)
(* request that brought it: six random digits are taken to be new.         *)
(***************************************************************************)
EXTENDS Naturals, FiniteSets

CONSTANTS
  Users,     \* uuids of users
  Existing,  \* those that are there at the start
  Emails,    \* addresses
  Email,     \* Email[u]: the address of an existing user at the start
  Requests,  \* HTTP requests
  None,      \* no code, or the password an account had at the start
  MaxFaults  \* bound: calls that reject

ASSUME UsersAssumption ==
  /\ Existing \subseteq Users
  /\ Email \in [Users -> Emails]
  /\ \A u, v \in Existing : Email[u] = Email[v] => u = v
ASSUME NoneAssumption   == None \notin Users \cup Emails \cup Requests
ASSUME FaultsAssumption == MaxFaults \in Nat

VARIABLES
  accounts, \* the table users
  asks,     \* asks[q]: what request q asks for
  at,       \* at[q]: the await it is in
  entity,   \* entity[q]: the user it has read and will save
  expired,  \* codes whose hour is over
  faults,

  \* history
  written,  \* written[u]: the last value any request meant for each column
  owner,    \* owner[q]: the user for whom the code q was stored
  landed,   \* requests whose write has been carried out
  stale,    \* requests whose copy is older than the row
  raced     \* users whose row such a copy has been saved over

uvars == <<accounts, asks, at, entity, expired, faults, written, owner, landed, stale, raced>>

NoRow == [state |-> "none"]
Gone  == [state |-> "removed"]
Row(email, password, code) ==
  [state |-> "exists", email |-> email, password |-> password, code |-> code]
Exists(u) == accounts[u].state = "exists"

Asks ==
  [kind : {"none", "create", "update", "forgot", "reset", "remove"},
   user : Users \cup {None}, email : Emails \cup {None}, password : BOOLEAN,
   code : Requests \cup {None}]
Nothing == [kind |-> "none", user |-> None, email |-> None, password |-> FALSE, code |-> None]

UInit ==
  /\ accounts = [u \in Users |-> IF u \in Existing THEN Row(Email[u], None, None) ELSE NoRow]
  /\ asks = [q \in Requests |-> Nothing]
  /\ at = [q \in Requests |-> "new"]
  /\ entity = [q \in Requests |-> NoRow]
  /\ expired = {}
  /\ faults = 0
  /\ written = accounts
  /\ owner = [q \in Requests |-> None]
  /\ landed = {}
  /\ stale = {}
  /\ raced = {}

-----------------------------------------------------------------------------
Goto(q, await) == at' = [at EXCEPT ![q] = await] /\ UNCHANGED asks

\* Only of a reset that has saved its password is it remembered what it asked.
Answer(q, how) ==
  /\ at' = [at EXCEPT ![q] = how]
  /\ entity' = [entity EXCEPT ![q] = NoRow]
  /\ asks' = [asks EXCEPT ![q] = IF at[q] = "clear" THEN @ ELSE Nothing]

\* A query has told the request whose row it is about.
Found(q, u, next) ==
  /\ asks' = [asks EXCEPT ![q].user = u]
  /\ at' = [at EXCEPT ![q] = next]
  /\ UNCHANGED entity

\* The user whose row a request is about to change.
Target(q) == asks[q].user

\* Requests other than q that hold a copy of u and are going to save it.
Holders(q, u) == {p \in Requests \ {q} : at[p] = "save" /\ Target(p) = u}

\* Request q writes u: copies of it grow stale, and a stale one ends the order.
Wrote(q, u) ==
  /\ landed' = landed \cup {q}
  /\ stale' = (stale \ {q}) \cup Holders(q, u)
  /\ raced' = IF q \in stale THEN raced \cup {u} ELSE raced

WroteNothing(q) == stale' = stale \ {q} /\ UNCHANGED <<landed, raced>>

Taken(u, email) == \E v \in Users \ {u} : Exists(v) /\ accounts[v].email = email

-----------------------------------------------------------------------------
(* The requests of users.controller.ts and auth.controller.ts.              *)

Receive(q, ask, first) ==
  /\ at[q] = "new"
  /\ asks' = [asks EXCEPT ![q] = ask]
  /\ at' = [at EXCEPT ![q] = first]
  /\ UNCHANGED <<accounts, entity, expired, faults, written, owner, landed, stale, raced>>

\* The uuid of a new user: no row and no other request has it.
Fresh(u) ==
  accounts[u] = NoRow /\ ~\E p \in Requests : asks[p].kind = "create" /\ asks[p].user = u

ReceiveCreate(q) ==
  \E u \in Users, email \in Emails :
    /\ Fresh(u)
    /\ Receive(q, [Nothing EXCEPT !.kind = "create", !.user = u, !.email = email], "insert")

\* The columns the dto names: email, password, either or (a name only) none.
ReceiveUpdate(q) ==
  \E u \in Users, email \in Emails \cup {None}, password \in BOOLEAN :
    /\ accounts[u] # NoRow
    /\ Receive(q, [Nothing EXCEPT !.kind = "update", !.user = u, !.email = email,
                                  !.password = password], "find")

ReceiveForgot(q) ==
  \E email \in Emails : Receive(q, [Nothing EXCEPT !.kind = "forgot", !.email = email], "email")

\* With a code that was once stored, whether or not its mail arrived.
ReceiveReset(q) ==
  \E code \in Requests :
    /\ owner[code] # None
    /\ Receive(q, [Nothing EXCEPT !.kind = "reset", !.password = TRUE, !.code = code], "token")

ReceiveRemove(q) ==
  \E u \in Users :
    accounts[u] # NoRow /\ Receive(q, [Nothing EXCEPT !.kind = "remove", !.user = u], "delete")

-----------------------------------------------------------------------------
(* create and update.                                                       *)

\* The hash has been computed; the insert fails on an email that is taken.
InsertUser(q) ==
  /\ at[q] = "insert"
  /\ LET u == Target(q) IN
       IF Taken(u, asks[q].email)
       THEN Answer(q, "rejected") /\ WroteNothing(q) /\ UNCHANGED <<accounts, written>>
       ELSE /\ accounts' = [accounts EXCEPT ![u] = Row(asks[q].email, q, None)]
            /\ written' = [written EXCEPT ![u] = Row(asks[q].email, q, None)]
            /\ Wrote(q, u)
            /\ Answer(q, "done")
  /\ UNCHANGED <<expired, faults, owner>>

\* Mutant of FindOne: what the query returns is not looked at.
FindOneUnchecked(q) ==
  /\ at[q] = "find"
  /\ entity' = [entity EXCEPT ![q] = accounts[Target(q)]]
  /\ Goto(q, "save")
  /\ UNCHANGED <<accounts, expired, faults, written, owner, landed, stale, raced>>

FindOne(q) ==
  /\ at[q] = "find"
  /\ IF Exists(Target(q))
     THEN /\ entity' = [entity EXCEPT ![q] = accounts[Target(q)]]
          /\ Goto(q, "save")
     ELSE Answer(q, "rejected")
  /\ UNCHANGED <<accounts, expired, faults, written, owner, landed, stale, raced>>

\* Object.assign(user, payload): the columns that request q brings.
Assigned(q, row) ==
  [row EXCEPT !.email = IF asks[q].email # None THEN asks[q].email ELSE @,
              !.password = IF asks[q].password THEN q ELSE @]

\* Mutant of SaveUser: the payload is computed and not assigned.
SaveUserUnassigned(q) ==
  /\ at[q] = "save"
  /\ LET u == Target(q) IN
       /\ accounts' = [accounts EXCEPT ![u] = entity[q]]
       /\ written' = [written EXCEPT ![u] = Assigned(q, @)]
       /\ Wrote(q, u)
  /\ Answer(q, "done")
  /\ UNCHANGED <<expired, faults, owner>>

\* The hash has been computed.  A row that has been removed is inserted again,
\* and a column that has changed since it was read gets its old value back.
SaveUser(q) ==
  /\ at[q] = "save"
  /\ LET u == Target(q)
         row == Assigned(q, entity[q])
     IN  IF Taken(u, row.email)
         THEN Answer(q, "rejected") /\ WroteNothing(q) /\ UNCHANGED <<accounts, written>>
         ELSE /\ accounts' = [accounts EXCEPT ![u] = row]
              /\ written' = [written EXCEPT ![u] = Assigned(q, @)]
              /\ Wrote(q, u)
              /\ IF asks[q].kind = "reset"
                 THEN Goto(q, "clear") /\ UNCHANGED entity
                 ELSE Answer(q, "done")
  /\ UNCHANGED <<expired, faults, owner>>

RemoveUser(q) ==
  /\ at[q] = "delete"
  /\ LET u == Target(q) IN
       IF Exists(u)
       THEN /\ accounts' = [accounts EXCEPT ![u] = Gone]
            /\ Wrote(q, u)
            /\ Answer(q, "done")
       ELSE Answer(q, "rejected") /\ WroteNothing(q) /\ UNCHANGED accounts
  /\ UNCHANGED <<expired, faults, written, owner>>

-----------------------------------------------------------------------------
(* forgotPassword.                                                          *)

FindByEmail(q) ==
  /\ at[q] = "email"
  /\ \/ \E u \in Users :
          /\ Exists(u) /\ accounts[u].email = asks[q].email
          /\ Found(q, u, "store")
     \/ /\ ~\E u \in Users : Exists(u) /\ accounts[u].email = asks[q].email
        /\ Answer(q, "rejected")
  /\ UNCHANGED <<accounts, expired, faults, written, owner, landed, stale, raced>>

\* Mutant of SetResetToken: a save, which inserts a row that is gone.
SetResetTokenUpserting(q) ==
  /\ at[q] = "store"
  /\ LET u == Target(q) IN
       /\ accounts' = [accounts EXCEPT ![u] =
            IF Exists(u) THEN [@ EXCEPT !.code = q] ELSE Row(asks[q].email, None, q)]
       /\ written' = [written EXCEPT ![u].code = q]
       /\ owner' = [owner EXCEPT ![q] = u]
       /\ Wrote(q, u)
  /\ Goto(q, "mail")
  /\ UNCHANGED <<entity, expired, faults>>

\* An UPDATE by id, which does not mind that the row is gone.
SetResetToken(q) ==
  /\ at[q] = "store"
  /\ LET u == Target(q) IN
       IF Exists(u)
       THEN /\ accounts' = [accounts EXCEPT ![u].code = q]
            /\ written' = [written EXCEPT ![u].code = q]
            /\ owner' = [owner EXCEPT ![q] = u]
            /\ Wrote(q, u)
       ELSE UNCHANGED <<accounts, written, owner, landed, stale, raced>>
  /\ Goto(q, "mail")
  /\ UNCHANGED <<entity, expired, faults>>

SendEmail(q) ==
  /\ at[q] = "mail"
  /\ \E how \in {"sent", "rejected"} : Answer(q, how)
  /\ UNCHANGED <<accounts, expired, faults, written, owner, landed, stale, raced>>

-----------------------------------------------------------------------------
(* resetPassword: findByResetToken, then update, then clearResetToken.      *)

\* Mutant of FindByResetToken: the query has no condition.
FindByResetTokenOfAny(q) ==
  /\ at[q] = "token"
  /\ \E u \in Users :
       /\ Exists(u)
       /\ asks[q].code \notin expired
       /\ Found(q, u, "find")
  /\ UNCHANGED <<accounts, expired, faults, written, owner, landed, stale, raced>>

FindByResetToken(q) ==
  /\ at[q] = "token"
  /\ \/ \E u \in Users :
          /\ Exists(u) /\ accounts[u].code = asks[q].code
          /\ asks[q].code \notin expired
          /\ Found(q, u, "find")
     \/ /\ \A u \in Users : ~(Exists(u) /\ accounts[u].code = asks[q].code)
             \/ asks[q].code \in expired
        /\ Answer(q, "rejected")
  /\ UNCHANGED <<accounts, expired, faults, written, owner, landed, stale, raced>>

\* Mutant of ClearResetToken: it saves the user once more, without the code.
ClearResetTokenSaving(q) ==
  /\ at[q] = "clear"
  /\ accounts' = [accounts EXCEPT ![Target(q)] =
                    [Assigned(q, entity[q]) EXCEPT !.code = None]]
  /\ Answer(q, "done")
  /\ UNCHANGED <<expired, faults, written, owner, landed, stale, raced>>

\* update(id, {resetPasswordToken: undefined, ...}): undefined properties are
\* left out of the statement, which sets updatedAt and nothing else.
ClearResetToken(q) ==
  /\ at[q] = "clear"
  /\ Answer(q, "done")
  /\ UNCHANGED <<accounts, expired, faults, written, owner, landed, stale, raced>>

-----------------------------------------------------------------------------
\* A query, a hash or a statement of any request rejects, and wrote nothing.
CallRejected(q) ==
  /\ at[q] \notin {"new", "sent", "done", "rejected"}
  /\ faults < MaxFaults
  /\ faults' = faults + 1
  /\ Answer(q, "rejected")
  /\ WroteNothing(q)
  /\ UNCHANGED <<accounts, expired, written, owner>>

\* The hour of a code passes.
CodeExpires(q) ==
  /\ owner[q] # None /\ q \notin expired
  /\ expired' = expired \cup {q}
  /\ UNCHANGED <<accounts, asks, at, entity, faults, written, owner, landed, stale, raced>>

Serve(q) ==
  \/ ReceiveCreate(q) \/ ReceiveUpdate(q) \/ ReceiveForgot(q) \/ ReceiveReset(q) \/ ReceiveRemove(q)
  \/ InsertUser(q) \/ FindOne(q) \/ SaveUser(q) \/ RemoveUser(q)
  \/ FindByEmail(q) \/ SetResetToken(q) \/ SendEmail(q)
  \/ FindByResetToken(q) \/ ClearResetToken(q)
  \/ CallRejected(q)

UNext == \E q \in Requests : Serve(q) \/ CodeExpires(q)

USpec == UInit /\ [][UNext]_uvars

-----------------------------------------------------------------------------
(* Properties.                                                              *)

RowType ==
  [state : {"exists"}, email : Emails, password : Requests \cup {None},
   code : Requests \cup {None}]

UTypeOK ==
  /\ accounts \in [Users -> RowType \cup {NoRow, Gone}]
  /\ asks \in [Requests -> Asks]
  /\ at \in [Requests -> {"new", "insert", "find", "save", "delete", "email", "store", "mail",
                          "token", "clear", "sent", "done", "rejected"}]
  /\ entity \in [Requests -> RowType \cup {NoRow}]
  /\ expired \subseteq Requests /\ faults \in Nat
  /\ written \in [Users -> RowType \cup {NoRow}]
  /\ owner \in [Requests -> Users \cup {None}]
  /\ landed \subseteq Requests /\ stale \subseteq Requests /\ raced \subseteq Users
  /\ \A q \in Requests : at[q] = "save" => entity[q] \in RowType
  /\ \A u \in Users : accounts[u] # NoRow => written[u] \in RowType

\* A request changes the columns it brings and no other: unless a copy older
\* than the row has been saved over it, every column holds what was last
\* written on purpose.  An answered reset is in force, and so is the
\* last code that was stored.
NoLostUpdate ==
  \A u \in Users \ raced : Exists(u) => accounts[u] = written[u]

\* The request has found out whose row it writes, and has not written it.
Placed(q) == at[q] \in {"insert", "find", "save", "delete", "store"}

\* A copy that no write has overtaken is the row.
FreshCopy(q) ==
  at[q] = "save" /\ q \notin stale =>
    Exists(Target(q)) /\ entity[q] = accounts[Target(q)]

\* What a request asks, and whose row it is about, at each of its awaits.
Stage(q) ==
  /\ Placed(q) \/ at[q] = "clear" => Target(q) \in Users
  /\ at[q] = "insert" =>
       /\ asks[q].kind = "create" /\ asks[q].email \in Emails
       /\ accounts[Target(q)] = NoRow
       /\ \A p \in Requests \ {q} : asks[p].kind = "create" => Target(p) # Target(q)
  /\ at[q] \in {"find", "save"} => asks[q].kind \in {"update", "reset"}
  /\ at[q] = "delete" => asks[q].kind = "remove"
  /\ at[q] \in {"email", "store"} => asks[q].kind = "forgot"
  /\ at[q] \in {"token", "clear"} => asks[q].kind = "reset"
  /\ asks[q].kind = "create" => at[q] = "insert"
  /\ asks[q].kind = "forgot" => ~asks[q].password
  /\ at[q] \in {"find", "save", "delete", "store", "clear"} => accounts[Target(q)] # NoRow
  /\ at[q] = "clear" => q \in landed
  /\ q \in landed => at[q] \in {"mail", "clear", "sent", "done", "rejected"}

\* A code stays with the user it was stored for, in the row and in every copy,
\* and a password in force came from a request that has saved it: if it was a
\* reset, with a code of that user.
Origin(row, u) ==
  /\ row.code # None => owner[row.code] = u
  /\ row.password # None =>
       /\ at[row.password] \in {"clear", "done", "rejected"}
       /\ asks[row.password].kind = "reset" => owner[asks[row.password].code] = u

CodeUsed(q) ==
  /\ owner[q] # None => at[q] \in {"mail", "sent", "rejected"}
  /\ asks[q].kind = "reset" =>
       /\ asks[q].code \in Requests /\ owner[asks[q].code] # None /\ asks[q].password
       /\ at[q] # "token" => owner[asks[q].code] = Target(q)

Provenance ==
  /\ \A u \in Users : Exists(u) => Origin(accounts[u], u)
  /\ \A q \in Requests : CodeUsed(q) /\ (at[q] = "save" => Origin(entity[q], Target(q)))

\* The rows, the copies that requests hold of them and the requests themselves
\* fit together: the inductive invariant of the service, and its type invariant.
UInv ==
  /\ UTypeOK
  /\ NoLostUpdate
  /\ \A q \in Requests : Stage(q) /\ FreshCopy(q)
  /\ Provenance

\* A removed user comes back only by the save of a request that had read it.
RemovedStaysRemoved ==
  [][\A u \in Users : accounts[u] = Gone /\ accounts'[u] # Gone => u \in raced']_uvars

\* A reset changes the password of the user for whom its code was stored,
\* though codes move through copies of rows, and rows come and go (l. 86-97).
ResetHitsOwner ==
  \A u \in Users : Exists(u) /\ accounts[u].password # None =>
    LET q == accounts[u].password IN asks[q].kind = "reset" => owner[asks[q].code] = u

-----------------------------------------------------------------------------
(* Requests on accounts as atomic edits of the table users.                 *)

UColumns == {"email", "password", "code"}

\* The columns request q brings.
Brings(q) ==
  {c \in UColumns :
    CASE asks[q].kind = "create" -> TRUE
      [] asks[q].kind = "forgot" -> c = "code"
      [] OTHER -> \/ c = "email" /\ asks[q].email # None
                  \/ c = "password" /\ asks[q].password}

Brought(q) ==
  [c \in Brings(q) |->
    CASE c = "email" -> asks[q].email
      [] c = "code" /\ asks[q].kind = "create" -> None
      [] OTHER -> q]

\* An answer of success counts as the effect, but for "sent": forgotPassword
\* mails a code also when its row has gone.
OrderOf(q) ==
  IF q \in landed \/ at[q] = "done" THEN [kind |-> "applied"]
  ELSE IF Placed(q)
       THEN IF asks[q].kind = "remove" THEN [kind |-> "remove", keys |-> {Target(q)}]
            ELSE [kind |-> IF asks[q].kind = "create" THEN "insert" ELSE "change",
                  key |-> Target(q), columns |-> Brought(q)]
  ELSE IF at[q] \in {"new", "email", "token"} THEN [kind |-> "idle"]
  ELSE [kind |-> "refused"]

UserRow(u) ==
  IF u \in raced THEN [state |-> "uncertain"]
  ELSE IF Exists(u) THEN [c \in UColumns |-> accounts[u][c]]
  ELSE accounts[u]

\* The table and the orders of AtomicEdits.
Table == [u \in Users |-> UserRow(u)]
Order == [q \in Requests |-> OrderOf(q)]

Edits == INSTANCE AtomicEdits WITH
  Keys <- Users, Columns <- UColumns, Values <- Emails \cup Requests \cup {None},
  Absent <- NoRow, Removed <- Gone, Uncertain <- [state |-> "uncertain"],
  Idle <- [kind |-> "idle"], Applied <- [kind |-> "applied"], Refused <- [kind |-> "refused"],
  table <- Table, order <- Order

\* Every request on the accounts takes effect in one step, once, on the columns
\* it brings, whatever runs beside it, and removed users stay removed; until
\* line 61 of users.service.ts saves a copy older than the row.
EditsAreAtomic == Edits!ESpec
=============================================================================
