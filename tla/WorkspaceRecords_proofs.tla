----------------------- MODULE WorkspaceRecords_proofs -----------------------
(***************************************************************************)
(* Proof that a field of a record has one relation row at most, for every  *)
(* number of records, fields, requests, faults and restarts, unless two    *)
(* requests wrote the record at the same time.                             *)
(*                                                                         *)
(* The invariant is inductive because of the order of the code: the rows   *)
(* of a field are deleted before its target is looked up, and a record     *)
(* that is not raced has one writer between its write and its last link.   *)
(***************************************************************************)
EXTENDS WorkspaceRecords, WellFoundedInduction, TLAPS

-----------------------------------------------------------------------------
(* The turn of a relation loop.                                             *)

\* A set of numbers that is not empty has its minimum for a member.
LEMMA MinIsMember ==
  ASSUME NEW S \in SUBSET Nat, S # {}
  PROVE  Min(S) \in S
<1>1. IsWellFoundedOn(OpToRel(<, Nat), Nat)
  BY NatLessThanWellFounded
<1>2. \E x \in S : \A y \in S : ~(<<y, x>> \in OpToRel(<, Nat))
  BY <1>1, WFMin
<1>3. \A x, y \in Nat : <<y, x>> \in OpToRel(<, Nat) <=> y < x
  BY DEF OpToRel
<1>4. PICK x \in S : \A y \in S : ~(<<y, x>> \in OpToRel(<, Nat))
  BY <1>2
<1>5. \A y \in S : ~(y < x)
  BY <1>3, <1>4, Zenon
<1>6. \E z \in S : \A y \in S : z <= y
  BY <1>5, SMT
<1>. QED
  BY <1>6, Zenon DEF Min

\* The field a loop is at is one of the fields it has left.
LEMMA TurnIsLeft ==
  ASSUME RTypeOK, NEW q \in Requests, todo[q] # {}
  PROVE  Turn(q) \in todo[q] /\ Turn(q) \in Fields
BY MinIsMember, FieldsAssumption DEF Turn, RTypeOK

-----------------------------------------------------------------------------
(* What a step of one request may change.                                   *)

StepOf(q) ==
  /\ \A p \in Requests \ {q} : pc'[p] = pc[p] /\ todo'[p] = todo[p] /\ seen'[p] = seen[p]
  /\ req' = req
  /\ raced \subseteq raced'

ControlOK ==
  /\ req \in [Requests -> {NoRequest} \cup
       [kind : Kinds, id : Records, body : [Fields -> Values \cup {Unsent}]]]
  /\ pc \in [Requests -> {"new", "validate", "find", "write", "delete", "reread",
                          "workspace", "clear", "lookup", "link", "done", "rejected", "lost"}]
  /\ todo \in [Requests -> SUBSET Fields]
  /\ seen \in [Requests -> Data \cup {Absent}]
  /\ lastEvent \in [Records -> {NoEvent} \cup
       [kind : {"created", "updated", "deleted"}, by : Requests, data : Data]]

TablesOK ==
  /\ rows \in [Records -> Data \cup {Unborn, Absent}]
  /\ users \subseteq Users
  /\ relations \subseteq
       [by : Requests, owner : Records, field : Fields, link : Links \cup {None}]

CountsOK ==
  /\ faults \in Nat /\ crashes \in Nat
  /\ raced \subseteq Records /\ broken \subseteq Records

\* The type invariant in three parts.
LEMMA TypeParts == RTypeOK <=> ControlOK /\ TablesOK /\ CountsOK
BY DEF RTypeOK, ControlOK, TablesOK, CountsOK

\* A request that has begun asks for something about a record.
LEMMA RequestFields ==
  ASSUME RTypeOK, NEW q \in Requests, req[q] # NoRequest
  PROVE  /\ req[q].kind \in Kinds
         /\ req[q].id \in Records
         /\ req[q].body \in [Fields -> Values \cup {Unsent}]
BY DEF RTypeOK

\* The state of a request after its answer.
LEMMA AnswerStep ==
  ASSUME RTypeOK, NEW q \in Requests, NEW how \in {"done", "rejected"},
         Answer(q, how), lastEvent' = lastEvent
  PROVE  ControlOK' /\ pc'[q] = how /\ req' = req
         /\ \A p \in Requests \ {q} :
              pc'[p] = pc[p] /\ todo'[p] = todo[p] /\ seen'[p] = seen[p]
BY DEF Answer, RTypeOK, ControlOK

\* ... after the event that comes with it.
LEMMA EmitType ==
  ASSUME RTypeOK, NEW q \in Requests, req[q] # NoRequest, NEW data \in Data,
         NEW kind \in {"created", "updated", "deleted"}, Emit(q, kind, data)
  PROVE  lastEvent' \in [Records -> {NoEvent} \cup
           [kind : {"created", "updated", "deleted"}, by : Requests, data : Data]]
<1>1. req[q].id \in Records
  BY RequestFields
<1>. QED
  BY <1>1 DEF Emit, RTypeOK

\* ... and after the end of its relation loop.
LEMMA CompleteStep ==
  ASSUME RTypeOK, NEW q \in Requests, req[q] # NoRequest,
         NEW data \in Data \cup {Absent}, Complete(q, data)
  PROVE  ControlOK' /\ pc'[q] = "done" /\ req' = req
         /\ \A p \in Requests \ {q} :
              pc'[p] = pc[p] /\ todo'[p] = todo[p] /\ seen'[p] = seen[p]
<1>1. lastEvent' \in [Records -> {NoEvent} \cup
           [kind : {"created", "updated", "deleted"}, by : Requests, data : Data]]
  <2>1. CASE data = Absent
    BY <2>1 DEF Complete, RTypeOK
  <2>2. CASE data # Absent
    <3>1. data \in Data
      BY <2>2
    <3>2. PICK kind \in {"created", "updated", "deleted"} : Emit(q, kind, data)
      BY <2>2 DEF Complete
    <3>. QED
      BY <3>1, <3>2, EmitType
  <2>. QED
    BY <2>1, <2>2
<1>2. Answer(q, "done")
  BY DEF Complete
<1>. QED
  BY <1>1, <1>2 DEF Answer, RTypeOK, ControlOK

\* The state of a request after a turn of its loop.
LEMMA ContinueStep ==
  ASSUME RTypeOK, NEW q \in Requests, req[q] # NoRequest,
         NEW rest \in SUBSET Fields, NEW data \in Data \cup {Absent},
         Continue(q, rest, data)
  PROVE  /\ ControlOK' /\ req' = req
         /\ \A p \in Requests \ {q} :
              pc'[p] = pc[p] /\ todo'[p] = todo[p] /\ seen'[p] = seen[p]
         /\ rest = {} => pc'[q] = "done"
         /\ rest # {} =>
              /\ todo'[q] = rest
              /\ pc'[q] = IF req[q].kind = "update" THEN "clear" ELSE "lookup"
<1>1. CASE rest = {}
  BY <1>1, CompleteStep DEF Continue
<1>2. CASE rest # {}
  BY <1>2 DEF Continue, RTypeOK, ControlOK
<1>. QED
  BY <1>1, <1>2

-----------------------------------------------------------------------------
(* The parts of the invariant, for a step of one request that has begun.    *)

\* Only a request whose record is to be born gives birth, and then no longer
\* waits for it; relations belong to rows that were born.
Births(q) ==
  /\ pc[q] # "new" /\ pc'[q] \notin {"new", "validate"}
  /\ pc'[q] = "write" => pc[q] = "validate" /\ rows' = rows
  /\ \A r \in Records : rows[r] # Unborn => rows'[r] # Unborn
  /\ \A r \in Records : rows[r] = Unborn /\ rows'[r] # Unborn =>
       r = req[q].id /\ ToBeBorn(q) /\ ~ToBeBorn(q)'
  /\ \A x \in relations' : x \in relations \/ rows'[x.owner] # Unborn
  /\ \A r \in Records : InLoop(q, r)' => rows'[r] # Unborn

LEMMA BirthIsUniqueStep ==
  ASSUME RInv, RTypeOK', NEW q \in Requests, StepOf(q), Births(q)
  PROVE  BirthIsUnique'
<1>1. RTypeOK /\ Stages /\ BirthIsUnique
  BY DEF RInv
<1>2. \A p \in Requests : pc'[p] # "new" => req[p] # NoRequest /\ req[p].id \in Records
  BY <1>1, RequestFields DEF StepOf, Births, Stages
<1>3. \A x \in relations' : rows'[x.owner] # Unborn
  BY <1>1 DEF Births, BirthIsUnique, RTypeOK
<1>4. \A p \in Requests : pc'[p] # "new" /\ req'[p].kind \in {"update", "delete"}
        => rows'[req'[p].id] # Unborn
  BY <1>1, <1>2 DEF Births, BirthIsUnique, StepOf
<1>5. \A p \in Requests : \A r \in Records : InLoop(p, r)' => rows'[r] # Unborn
  <2>1. \A p \in Requests \ {q}, r \in Records : InLoop(p, r)' => InLoop(p, r)
    BY DEF StepOf, InLoop
  <2>. QED
    BY <1>1, <2>1 DEF Births, BirthIsUnique
<1>6. \A p \in Requests : ToBeBorn(p)' => ToBeBorn(p)
  BY DEF StepOf, Births, ToBeBorn
<1>7. \A p \in Requests : ToBeBorn(p)' => rows'[req'[p].id] = Unborn
  <2>1. SUFFICES ASSUME NEW p \in Requests, ToBeBorn(p)', rows'[req[p].id] # Unborn
                 PROVE  FALSE
    BY DEF StepOf
  <2>2. ToBeBorn(p) /\ rows[req[p].id] = Unborn
    BY <1>1, <1>6, <2>1 DEF BirthIsUnique
  <2>3. req[p].id \in Records
    BY <1>2, <2>1 DEF ToBeBorn
  <2>4. req[p].id = req[q].id /\ ToBeBorn(q) /\ ~ToBeBorn(q)'
    BY <2>1, <2>2, <2>3 DEF Births
  <2>5. p = q
    BY <1>1, <2>2, <2>4 DEF BirthIsUnique
  <2>. QED
    BY <2>1, <2>4, <2>5
<1>8. \A o, p \in Requests : ToBeBorn(o)' /\ ToBeBorn(p)' /\ req'[o].id = req'[p].id => o = p
  BY <1>1, <1>6 DEF BirthIsUnique, StepOf
<1>. QED
  BY <1>3, <1>4, <1>5, <1>7, <1>8 DEF BirthIsUnique

\* A request enters the loop only when no other is in it, unless that is a race.
LEMMA OneWriterStep ==
  ASSUME RInv, NEW q \in Requests, StepOf(q),
         \A r \in Records \ raced' : InLoop(q, r)' =>
           InLoop(q, r) \/ \A p \in Requests \ {q} : ~InLoop(p, r)
  PROVE  OneWriter'
<1>1. \A p \in Requests \ {q} : \A r : InLoop(p, r)' <=> InLoop(p, r)
  BY DEF StepOf, InLoop
<1>2. Records \ raced' \subseteq Records \ raced
  BY DEF StepOf
<1>. QED
  BY <1>1, <1>2 DEF RInv, OneWriter

\* Rows are inserted by the request in its loop only, which looks after itself.
LEMMA NothingToReplaceStep ==
  ASSUME RInv, NEW q \in Requests, StepOf(q),
         \A x \in relations' : x \in relations \/ InLoop(q, x.owner),
         \A r \in Records \ raced' : InLoop(q, r)' =>
           /\ pc'[q] \in {"lookup", "link"} => OfField(r, Turn(q))' = {}
           /\ req'[q].kind = "create" => 
                \A f \in Fields : f \in todo'[q] \/ pc'[q] = "workspace" => OfField(r, f)' = {}
  PROVE  NothingToReplace'
<1>1. SUFFICES ASSUME NEW r \in Records \ raced', NEW p \in Requests \ {q}, InLoop(p, r)'
               PROVE  /\ pc'[p] \in {"lookup", "link"} => OfField(r, Turn(p))' = {}
                      /\ req'[p].kind = "create" =>
                           \A f \in Fields : f \in todo'[p] \/ pc'[p] = "workspace" =>
                             OfField(r, f)' = {}
  BY DEF NothingToReplace
<1>2. InLoop(p, r) /\ r \in Records \ raced
  BY <1>1 DEF StepOf, InLoop
<1>3. ~InLoop(q, r)
  BY <1>2 DEF RInv, OneWriter
<1>4. \A f : OfField(r, f) = {} => OfField(r, f)' = {}
  BY <1>3 DEF OfField
<1>5. Turn(p)' = Turn(p)
  BY DEF Turn, StepOf
<1>. QED
  BY <1>2, <1>4, <1>5 DEF RInv, NothingToReplace, StepOf

\* The only row inserted is the one of the field that the request links.
LEMMA OneRelationStep ==
  ASSUME RInv, NEW q \in Requests, StepOf(q), relations' \subseteq
           relations \cup {[by |-> q, owner |-> req[q].id, field |-> Turn(q), link |-> Value(q)]},
         relations' \subseteq relations \/ (pc[q] = "link" /\ req[q].id \in Records)
  PROVE  OneRelationPerField'
<1>1. CASE relations' \subseteq relations
  BY <1>1 DEF RInv, OneRelationPerField, StepOf
<1>2. CASE pc[q] = "link" /\ req[q].id \in Records
  <2>1. req[q].id \in raced \/ \A x \in relations : x.owner # req[q].id \/ x.field # Turn(q)
    <3>1. req[q].id \in raced \/ OfField(req[q].id, Turn(q)) = {}
      BY <1>2 DEF RInv, NothingToReplace, InLoop
    <3>. QED
      BY <3>1 DEF OfField
  <2>. QED
    BY <2>1 DEF RInv, OneRelationPerField, StepOf
<1>. QED
  BY <1>1, <1>2

\* Where q may be after a step: what Stages asks of it.
Staged(q) ==
  /\ pc[q] # "new" /\ req[q] # NoRequest
  /\ pc[q] \in {"validate", "write"} => req[q].kind # "delete"
  /\ pc[q] \in {"clear", "lookup", "link"} => todo[q] # {}
  /\ pc[q] \in {"clear", "reread"} => req[q].kind = "update"
  /\ pc[q] \in {"workspace", "lookup", "link"} => req[q].kind \in {"create", "update"}
  /\ pc[q] \in {"find", "delete"} => req[q].kind = "delete"
  /\ pc[q] = "delete" => seen[q] \in Data

LEMMA StagesStep ==
  ASSUME RInv, NEW q \in Requests, StepOf(q), Staged(q)'
  PROVE  Stages'
BY DEF RInv, Stages, StepOf, Staged

\* A request that has answered leaves the invariant to the others.
LEMMA EndStep ==
  ASSUME RInv, RTypeOK', NEW q \in Requests, StepOf(q),
         pc[q] # "new", pc'[q] \in {"done", "rejected"},
         \A r \in Records : rows[r] # Unborn => rows'[r] # Unborn,
         \A r \in Records : rows[r] = Unborn /\ rows'[r] # Unborn =>
           r = req[q].id /\ ToBeBorn(q),
         relations' \subseteq relations
  PROVE  RInv'
<1>1. Stages'
  BY StagesStep DEF Staged, RInv, Stages, StepOf
<1>2. \A r : ~InLoop(q, r)'
  BY DEF InLoop
<1>3. ~ToBeBorn(q)'
  BY DEF ToBeBorn
<1>4. BirthIsUnique'
  BY <1>2, <1>3, BirthIsUniqueStep DEF Births
<1>5. OneWriter'
  BY <1>2, OneWriterStep
<1>6. NothingToReplace'
  BY <1>2, NothingToReplaceStep
<1>7. OneRelationPerField'
  BY OneRelationStep
<1>. QED
  BY <1>1, <1>4, <1>5, <1>6, <1>7 DEF RInv

-----------------------------------------------------------------------------
(* The steps outside the relation loop.                                     *)

\* The answer with an error, before anything was written.
LEMMA RejectStep ==
  ASSUME RInv, NEW q \in Requests, pc[q] # "new", Answer(q, "rejected"),
         UNCHANGED <<rows, users, relations, faults, crashes, history>>
  PROVE  RInv'
<1>1. RTypeOK
  BY DEF RInv
<1>2. ControlOK' /\ pc'[q] = "rejected" /\ StepOf(q)
  BY <1>1, AnswerStep DEF history, StepOf
<1>3. RTypeOK'
  BY <1>1, <1>2, TypeParts DEF RTypeOK, TablesOK, CountsOK, ControlOK, history
<1>. QED
  BY <1>2, <1>3, EndStep

LEMMA ValidateRecordDataStep ==
  ASSUME RInv, NEW q \in Requests, ValidateRecordData(q)
  PROVE  RInv'
<1>1. CASE Answer(q, "rejected")
  BY <1>1, RejectStep DEF ValidateRecordData
<1>2. CASE pc' = [pc EXCEPT ![q] = "write"] /\ UNCHANGED <<req, todo, seen>>
  <2>1. RTypeOK' /\ StepOf(q) /\ pc'[q] = "write" /\ pc[q] = "validate"
    BY <1>2 DEF ValidateRecordData, history, RInv, RTypeOK, StepOf
  <2>2. Stages'
    BY <2>1, StagesStep DEF Staged, RInv, Stages, StepOf
  <2>3. (\A r : ~InLoop(q, r)') /\ (ToBeBorn(q) <=> ToBeBorn(q)')
    BY <2>1 DEF InLoop, ToBeBorn, StepOf
  <2>4. BirthIsUnique'
    BY <2>1, <2>3, BirthIsUniqueStep DEF Births, ValidateRecordData
  <2>5. OneWriter'
    BY <2>1, <2>3, OneWriterStep
  <2>6. NothingToReplace'
    BY <2>1, <2>3, NothingToReplaceStep DEF ValidateRecordData
  <2>7. OneRelationPerField'
    BY <2>1, OneRelationStep DEF ValidateRecordData
  <2>. QED
    BY <2>1, <2>2, <2>4, <2>5, <2>6, <2>7 DEF RInv
<1>. QED
  BY <1>1, <1>2 DEF ValidateRecordData

\* The body of a request is data once its missing fields are null.
LEMMA AsDataType ==
  ASSUME NEW body \in [Fields -> Values \cup {Unsent}]
  PROVE  AsData(body) \in Data
BY DEF AsData, Data, Values

LEMMA MergedType ==
  ASSUME NEW body \in [Fields -> Values \cup {Unsent}], NEW data \in Data
  PROVE  Merged(data, body) \in Data
BY DEF Merged, Data

LEMMA InsertRecordStep ==
  ASSUME RInv, NEW q \in Requests, InsertRecord(q)
  PROVE  RInv'
<1>. DEFINE r == req[q].id
            data == AsData(req[q].body)
<1>1. RTypeOK /\ Stages /\ BirthIsUnique
  BY DEF RInv
<1>2. pc[q] = "write" /\ req[q].kind = "create" /\ req[q] # NoRequest
  BY <1>1 DEF InsertRecord, Stages
<1>3. r \in Records /\ data \in Data
  BY <1>1, <1>2, RequestFields, AsDataType
<1>4. /\ rows' = [rows EXCEPT ![r] = data] /\ seen' = [seen EXCEPT ![q] = data]
      /\ pc' = [pc EXCEPT ![q] = "workspace"]
      /\ UNCHANGED <<users, relations, req, todo, faults, crashes, lastEvent, raced, broken>>
  BY DEF InsertRecord, history
<1>. HIDE DEF data
<1>5. StepOf(q) /\ pc'[q] = "workspace" /\ req'[q].id = r
  BY <1>1, <1>4 DEF StepOf, RTypeOK
<1>6. RTypeOK'
  <2>1. TablesOK' /\ CountsOK'
    BY <1>1, <1>3, <1>4 DEF RTypeOK, TablesOK, CountsOK
  <2>2. ControlOK'
    BY <1>1, <1>3, <1>4 DEF RTypeOK, ControlOK
  <2>. QED
    BY <2>1, <2>2, TypeParts DEF RTypeOK, TablesOK, CountsOK, ControlOK
<1>7. rows[r] = Unborn /\ rows'[r] # Unborn /\ ToBeBorn(q) /\ ~ToBeBorn(q)'
  <2>1. ToBeBorn(q) /\ ~ToBeBorn(q)'
    BY <1>2, <1>5 DEF ToBeBorn
  <2>2. rows'[r] = data
    BY <1>1, <1>3, <1>4 DEF RTypeOK
  <2>. QED
    BY <1>1, <1>3, <2>1, <2>2, MarksAssumption DEF BirthIsUnique
<1>8. \A s \in Records \ {r} : rows'[s] = rows[s]
  BY <1>1, <1>3, <1>4 DEF RTypeOK
<1>9. \A s \in Records : InLoop(q, s)' => s = r
  BY <1>5 DEF InLoop
<1>10. Stages'
  BY <1>2, <1>4, <1>5, StagesStep DEF Staged
<1>11. BirthIsUnique'
  BY <1>2, <1>4, <1>5, <1>6, <1>7, <1>8, <1>9, BirthIsUniqueStep DEF Births
<1>12. \A p \in Requests : ~InLoop(p, r)
  BY <1>1, <1>3, <1>7 DEF BirthIsUnique
<1>13. OneWriter'
  BY <1>5, <1>9, <1>12, OneWriterStep
<1>14. \A f : OfField(r, f)' = {}
  <2>1. \A x \in relations : x.owner # r
    BY <1>1, <1>7 DEF BirthIsUnique
  <2>. QED
    BY <1>4, <2>1 DEF OfField
<1>15. NothingToReplace'
  <2>1. \A s \in Records : InLoop(q, s)' => \A f : OfField(s, f)' = {}
    BY <1>4, <1>9, <1>14 DEF OfField
  <2>. QED
    BY <1>4, <1>5, <2>1, NothingToReplaceStep
<1>16. OneRelationPerField'
  BY <1>4, <1>5, OneRelationStep
<1>. QED
  BY <1>6, <1>10, <1>11, <1>13, <1>15, <1>16 DEF RInv

LEMMA BulkInsertStep ==
  ASSUME RInv, NEW q \in Requests, BulkInsert(q)
  PROVE  RInv'
<1>1. RTypeOK /\ Stages /\ BirthIsUnique
  BY DEF RInv
<1>2. pc[q] = "write" /\ req[q].kind = "bulkInsert" /\ req[q] # NoRequest
  BY <1>1 DEF BulkInsert, Stages
<1>3. req[q].id \in Records /\ AsData(req[q].body) \in Data
  BY <1>1, <1>2, RequestFields, AsDataType
<1>4. ControlOK' /\ pc'[q] = "done" /\ StepOf(q)
  BY <1>1, AnswerStep DEF BulkInsert, history, StepOf
<1>5. rows' = [rows EXCEPT ![req[q].id] = AsData(req[q].body)]
  BY DEF BulkInsert
<1>6. RTypeOK'
  <2>1. TablesOK' /\ CountsOK'
    BY <1>1, <1>3, <1>5 DEF RTypeOK, TablesOK, CountsOK, BulkInsert, history
  <2>. QED
    BY <1>4, <2>1, TypeParts DEF RTypeOK, TablesOK, CountsOK, ControlOK
<1>7. \A r \in Records : rows'[r] = IF r = req[q].id THEN AsData(req[q].body) ELSE rows[r]
  BY <1>1, <1>5 DEF RTypeOK
<1>8. AsData(req[q].body) # Unborn
  BY <1>3, MarksAssumption
<1>9. ToBeBorn(q)
  BY <1>2 DEF ToBeBorn
<1>. QED
  BY <1>2, <1>4, <1>6, <1>7, <1>8, <1>9, EndStep DEF BulkInsert

\* The data of a row that exists.
LEMMA RowType ==
  ASSUME RTypeOK, NEW r \in Records, Exists(r)
  PROVE  rows[r] \in Data /\ rows[r] # Unborn
BY DEF RTypeOK, Exists

LEMMA MergeRecordStep ==
  ASSUME RInv, NEW q \in Requests, MergeRecord(q)
  PROVE  RInv'
<1>. DEFINE r == req[q].id
<1>1. RTypeOK /\ Stages /\ BirthIsUnique
  BY DEF RInv
<1>2. pc[q] = "write" /\ req[q].kind = "update" /\ req[q] # NoRequest
  BY <1>1 DEF MergeRecord, Stages
<1>3. r \in Records /\ req[q].body \in [Fields -> Values \cup {Unsent}]
  BY <1>1, <1>2, RequestFields
<1>4. CASE ~Exists(r)
  BY <1>2, <1>4, RejectStep DEF MergeRecord, history
<1>5. CASE Exists(r)
  <2>1. /\ rows' = [rows EXCEPT ![r] = Merged(rows[r], req[q].body)]
        /\ raced' = raced \cup Overlapped(q)
        /\ pc' = [pc EXCEPT ![q] = "reread"]
        /\ UNCHANGED <<req, todo, seen, users, relations, faults, crashes, lastEvent, broken>>
    BY <1>5 DEF MergeRecord
  <2>2. Merged(rows[r], req[q].body) \in Data
    BY <1>1, <1>3, <1>5, RowType, MergedType
  <2>3. StepOf(q) /\ pc'[q] = "reread"
    BY <1>1, <2>1 DEF StepOf, RTypeOK
  <2>4. RTypeOK'
    <3>1. TablesOK'
      BY <1>1, <1>3, <2>1, <2>2 DEF RTypeOK, TablesOK
    <3>2. CountsOK'
      BY <1>1, <1>3, <2>1 DEF RTypeOK, CountsOK, Overlapped
    <3>3. ControlOK'
      BY <1>1, <2>1 DEF RTypeOK, ControlOK
    <3>. QED
      BY <3>1, <3>2, <3>3, TypeParts DEF RTypeOK, TablesOK, CountsOK, ControlOK
  <2>5. Stages'
    BY <1>2, <2>1, <2>3, StagesStep DEF Staged
  <2>6. \A s \in Records : (rows'[s] = Unborn) <=> (rows[s] = Unborn)
    <3>1. rows[r] # Unborn /\ Merged(rows[r], req[q].body) # Unborn
      BY <1>1, <1>3, <1>5, <2>2, RowType, MarksAssumption
    <3>. QED
      BY <1>1, <2>1, <3>1 DEF RTypeOK
  <2>7. BirthIsUnique'
    <3>1. \A s \in Records : InLoop(q, s)' => s = r /\ rows'[s] # Unborn
      BY <1>1, <1>3, <1>5, <2>1, <2>6, RowType DEF InLoop
    <3>. QED
      BY <1>2, <2>1, <2>3, <2>4, <2>6, <3>1, BirthIsUniqueStep DEF Births
  <2>8. \A s \in Records \ raced' : InLoop(q, s)' => \A p \in Requests \ {q} : ~InLoop(p, s)
    <3>1. \A s \in Records : InLoop(q, s)' => s = r
      BY <2>1 DEF InLoop
    <3>2. r \notin raced' => \A p \in Requests \ {q} : ~Working(p, r)
      BY <2>1 DEF Overlapped
    <3>. QED
      BY <3>1, <3>2 DEF Working, InLoop
  <2>9. OneWriter'
    BY <2>3, <2>8, OneWriterStep
  <2>10. NothingToReplace'
    BY <1>2, <2>1, <2>3, NothingToReplaceStep
  <2>11. OneRelationPerField'
    BY <2>1, <2>3, OneRelationStep
  <2>. QED
    BY <2>4, <2>5, <2>7, <2>9, <2>10, <2>11 DEF RInv
<1>. QED
  BY <1>4, <1>5

-----------------------------------------------------------------------------
(* The relation loop.                                                       *)

\* A turn of the loop ends: nothing was inserted, or the row of this field.
LEMMA TurnStep ==
  ASSUME RInv, NEW q \in Requests, pc[q] \in {"workspace", "clear", "lookup", "link"},
         NEW rest \in SUBSET Fields, NEW data \in Data \cup {Absent},
         Continue(q, rest, data), TablesOK', CountsOK', rows' = rows, raced' = raced,
         relations' \subseteq
           relations \cup {[by |-> q, owner |-> req[q].id, field |-> Turn(q), link |-> Value(q)]},
         relations' \subseteq relations \/ pc[q] = "link",
         req[q].kind = "create" /\ req[q].id \notin raced =>
           \A f \in rest : OfField(req[q].id, f)' = {},
         req[q].kind \in {"create", "update"}
  PROVE  RInv'
<1>. DEFINE r == req[q].id
<1>1. RTypeOK /\ Stages /\ BirthIsUnique
  BY DEF RInv
<1>2. req[q] # NoRequest /\ r \in Records /\ InLoop(q, r)
  BY <1>1, RequestFields DEF Stages, InLoop
<1>3. /\ ControlOK' /\ req' = req
      /\ \A p \in Requests \ {q} :
           pc'[p] = pc[p] /\ todo'[p] = todo[p] /\ seen'[p] = seen[p]
      /\ rest = {} => pc'[q] = "done"
      /\ rest # {} =>
           /\ todo'[q] = rest
           /\ pc'[q] = IF req[q].kind = "update" THEN "clear" ELSE "lookup"
  BY <1>1, <1>2, ContinueStep
<1>4. StepOf(q) /\ RTypeOK'
  BY <1>3, TypeParts DEF StepOf, RTypeOK, TablesOK, CountsOK, ControlOK
<1>5. \A x \in relations' : x \in relations \/ (x.owner = r /\ x.field = Turn(q))
  OBVIOUS
<1>6. Stages'
  BY <1>2, <1>3, <1>4, StagesStep DEF Staged
<1>7. BirthIsUnique'
  <2>1. rows[r] # Unborn
    BY <1>1, <1>2 DEF BirthIsUnique
  <2>. QED
    BY <1>2, <1>3, <1>4, <1>5, <2>1, BirthIsUniqueStep DEF Births, InLoop, ToBeBorn
<1>8. OneWriter'
  BY <1>3, <1>4, OneWriterStep DEF InLoop
<1>9. NothingToReplace'
  <2>1. SUFFICES ASSUME NEW s \in Records \ raced', InLoop(q, s)'
                 PROVE  /\ pc'[q] \in {"lookup", "link"} => OfField(s, Turn(q))' = {}
                        /\ req'[q].kind = "create" =>
                             \A f \in Fields : f \in todo'[q] \/ pc'[q] = "workspace" =>
                               OfField(s, f)' = {}
    BY <1>2, <1>4, <1>5, NothingToReplaceStep
  <2>2. s = r /\ s \in Records \ raced /\ rest # {} /\ todo'[q] = rest /\ InLoop(q, s)
    BY <1>2, <1>3, <2>1 DEF InLoop
  <2>3. req[q].kind = "create" => \A f \in rest : OfField(s, f)' = {}
    BY <1>3, <2>2 DEF OfField
  <2>4. Turn(q)' \in rest
    <3>1. RTypeOK' /\ todo'[q] # {}
      BY <1>4, <2>2
    <3>. QED
      BY <2>2, <3>1, MinIsMember, FieldsAssumption DEF Turn, RTypeOK
  <2>5. pc'[q] \in {"lookup", "link"} => req[q].kind = "create"
    BY <1>3, <2>2
  <2>6. (\A f \in rest : OfField(s, f)' = {}) => OfField(s, Turn(q))' = {}
    BY <2>4 DEF OfField
  <2>. QED
    BY <1>3, <2>2, <2>3, <2>5, <2>6
<1>10. OneRelationPerField'
  BY <1>2, <1>4, OneRelationStep
<1>. QED
  BY <1>4, <1>6, <1>7, <1>8, <1>9, <1>10 DEF RInv

\* The turn ends because its loop was left.
LEMMA AbandonStep ==
  ASSUME RInv, NEW q \in Requests, pc[q] \in {"workspace", "clear", "lookup", "link"},
         NEW unfinished, AbandonLoop(q, unfinished), TablesOK',
         UNCHANGED <<rows, raced>>, faults' \in Nat, crashes' = crashes,
         relations' \subseteq
           relations \cup {[by |-> q, owner |-> req[q].id, field |-> Turn(q), link |-> Value(q)]},
         relations' \subseteq relations \/ pc[q] = "link"
  PROVE  RInv'
<1>1. RTypeOK /\ Stages
  BY DEF RInv
<1>2. req[q].kind \in {"create", "update"} /\ req[q].id \in Records
  BY <1>1, RequestFields DEF Stages
<1>3. seen[q] \in Data \cup {Absent} /\ {} \in SUBSET Fields
  BY <1>1 DEF RTypeOK
<1>4. Continue(q, {}, seen[q])
  BY DEF AbandonLoop, Continue
<1>5. CountsOK'
  BY <1>1, <1>2 DEF RTypeOK, CountsOK, AbandonLoop
<1>. QED
  BY <1>2, <1>3, <1>4, <1>5, TurnStep

LEMMA RereadRecordStep ==
  ASSUME RInv, NEW q \in Requests, RereadRecord(q)
  PROVE  RInv'
<1>1. RTypeOK /\ Stages /\ BirthIsUnique
  BY DEF RInv
<1>2. pc[q] = "reread" /\ req[q] # NoRequest /\ req[q].kind = "update" /\ req[q].id \in Records
  BY <1>1, RequestFields DEF Stages, RereadRecord
<1>3. rows[req[q].id] # Unborn
  BY <1>1, <1>2 DEF BirthIsUnique, InLoop
<1>4. rows[req[q].id] \in Data \cup {Absent}
  BY <1>1, <1>2, <1>3 DEF RTypeOK
<1>5. /\ seen' = [seen EXCEPT ![q] = rows[req[q].id]] /\ pc' = [pc EXCEPT ![q] = "workspace"]
      /\ UNCHANGED <<rows, users, relations, req, todo, faults, crashes, lastEvent, raced, broken>>
  BY DEF RereadRecord, history
<1>6. RTypeOK' /\ StepOf(q) /\ pc'[q] = "workspace"
  BY <1>1, <1>4, <1>5 DEF RTypeOK, StepOf
<1>7. \A r : InLoop(q, r)' <=> InLoop(q, r)
  BY <1>2, <1>5, <1>6 DEF InLoop
<1>8. Stages'
  BY <1>2, <1>5, <1>6, StagesStep DEF Staged
<1>9. BirthIsUnique'
  BY <1>1, <1>2, <1>5, <1>6, <1>7, BirthIsUniqueStep DEF Births, BirthIsUnique, ToBeBorn
<1>10. OneWriter'
  BY <1>6, <1>7, OneWriterStep
<1>11. NothingToReplace'
  BY <1>2, <1>5, <1>6, NothingToReplaceStep
<1>12. OneRelationPerField'
  BY <1>5, <1>6, OneRelationStep
<1>. QED
  BY <1>6, <1>8, <1>9, <1>10, <1>11, <1>12 DEF RInv

LEMMA ReadRelationFieldsStep ==
  ASSUME RInv, NEW q \in Requests, ReadRelationFields(q)
  PROVE  RInv'
<1>. DEFINE rest == LoopFields(req[q].kind, req[q].body)
<1>1. RTypeOK /\ Stages
  BY DEF RInv
<1>2. pc[q] = "workspace" /\ req[q].kind \in {"create", "update"} /\ req[q].id \in Records
  BY <1>1, RequestFields DEF Stages, ReadRelationFields
<1>3. rest \in SUBSET Fields /\ seen[q] \in Data \cup {Absent}
  BY <1>1, <1>2 DEF LoopFields, RTypeOK
<1>4. /\ Continue(q, rest, seen[q])
      /\ UNCHANGED <<rows, users, relations, faults, crashes, raced, broken>>
  BY DEF ReadRelationFields
<1>. HIDE DEF rest
<1>5. TablesOK' /\ CountsOK'
  BY <1>1, <1>4 DEF RTypeOK, TablesOK, CountsOK
<1>6. req[q].kind = "create" /\ req[q].id \notin raced =>
        \A f \in rest : OfField(req[q].id, f) = {}
  BY <1>2, <1>3 DEF RInv, NothingToReplace, InLoop
<1>7. req[q].kind = "create" /\ req[q].id \notin raced =>
        \A f \in rest : OfField(req[q].id, f)' = {}
  <2>1. req' = req
    BY <1>1, <1>2, <1>3, <1>4, ContinueStep DEF Stages
  <2>. QED
    BY <1>4, <1>6, <2>1 DEF OfField
<1>. QED
  BY <1>2, <1>3, <1>4, <1>5, <1>7, TurnStep

\* From one stage of a turn to the next, with its field cleared or still clear.
LEMMA WithinTurnStep ==
  ASSUME RInv, NEW q \in Requests, pc[q] \in {"clear", "lookup"},
         NEW next \in {"lookup", "link"}, pc' = [pc EXCEPT ![q] = next],
         UNCHANGED <<rows, users, req, todo, seen, faults, crashes, lastEvent, raced, broken>>,
         relations' \subseteq relations,
         req[q].id \notin raced => OfField(req[q].id, Turn(q))' = {}
  PROVE  RInv'
<1>1. RTypeOK /\ Stages /\ BirthIsUnique
  BY DEF RInv
<1>2. RTypeOK' /\ StepOf(q) /\ pc'[q] = next
  BY <1>1 DEF RTypeOK, StepOf
<1>3. Stages'
  BY <1>1, <1>2, StagesStep DEF Staged, Stages
<1>4. \A r : InLoop(q, r)' <=> InLoop(q, r)
  BY <1>2 DEF InLoop
<1>5. BirthIsUnique'
  BY <1>1, <1>2, <1>4, BirthIsUniqueStep DEF Births, BirthIsUnique, ToBeBorn
<1>6. OneWriter'
  BY <1>2, <1>4, OneWriterStep
<1>7. NothingToReplace'
  <2>1. SUFFICES ASSUME NEW r \in Records \ raced', InLoop(q, r)'
                 PROVE  /\ OfField(r, Turn(q))' = {}
                        /\ req'[q].kind = "create" =>
                             \A f \in Fields : f \in todo'[q] \/ pc'[q] = "workspace" =>
                               OfField(r, f)' = {}
    BY <1>2, NothingToReplaceStep
  <2>2. r = req[q].id /\ r = req'[q].id /\ r \in Records \ raced /\ InLoop(q, r)
    BY <1>2, <1>4, <2>1 DEF InLoop
  <2>3. OfField(r, Turn(q))' = {}
    BY <2>2 DEF OfField
  <2>4. req[q].kind = "create" => \A f \in Fields : f \in todo[q] => OfField(r, f) = {}
    BY <2>2 DEF RInv, NothingToReplace
  <2>. QED
    BY <1>2, <2>3, <2>4 DEF OfField
<1>8. OneRelationPerField'
  BY <1>2, OneRelationStep
<1>. QED
  BY <1>2, <1>3, <1>5, <1>6, <1>7, <1>8 DEF RInv

LEMMA ClearRelationsStep ==
  ASSUME RInv, NEW q \in Requests, ClearRelations(q)
  PROVE  RInv'
<1>1. RTypeOK /\ Stages
  BY DEF RInv
<1>2. pc[q] = "clear" /\ req[q].kind = "update"
  BY <1>1 DEF ClearRelations, Stages
<1>3. relations' = relations \ OfField(req[q].id, Turn(q))
  BY DEF ClearRelations
<1>4. CASE Value(q) = None
  <2>1. Others(q) \in SUBSET Fields /\ seen[q] \in Data \cup {Absent}
    BY <1>1 DEF Others, RTypeOK
  <2>2. TablesOK' /\ CountsOK'
    BY <1>1, <1>3 DEF RTypeOK, TablesOK, CountsOK, ClearRelations
  <2>. QED
    BY <1>2, <1>3, <1>4, <2>1, <2>2, TurnStep DEF ClearRelations
<1>5. CASE Value(q) # None
  <2>1. pc' = [pc EXCEPT ![q] = "lookup"] /\ UNCHANGED <<req, todo, seen, lastEvent>>
    BY <1>5 DEF ClearRelations
  <2>2. OfField(req[q].id, Turn(q))' = {}
    BY <1>3, <2>1 DEF OfField, Turn
  <2>. QED
    BY <1>2, <1>3, <2>1, <2>2, WithinTurnStep DEF ClearRelations
<1>. QED
  BY <1>4, <1>5

\* A turn inserts nothing for the fields that are still to come.
LEMMA OthersStillClear ==
  ASSUME RInv, NEW q \in Requests, pc[q] \in {"lookup", "link"}, req[q].id \in Records,
         Continue(q, Others(q), seen[q]), Others(q) \in SUBSET Fields,
         relations' \subseteq
           relations \cup {[by |-> q, owner |-> req[q].id, field |-> Turn(q), link |-> Value(q)]},
         req[q].kind = "create", req[q].id \notin raced
  PROVE  \A f \in Others(q) : OfField(req[q].id, f)' = {}
<1>1. req' = req
  BY DEF Continue, Complete, Answer
<1>2. \A f \in Others(q) : f \in todo[q] /\ f # Turn(q)
  BY DEF Others
<1>3. \A f \in Others(q) : OfField(req[q].id, f) = {}
  BY <1>2 DEF RInv, NothingToReplace, InLoop
<1>4. \A x \in relations' : x \in relations \/ x.field = Turn(q)
  OBVIOUS
<1>. QED
  BY <1>1, <1>2, <1>3, <1>4 DEF OfField

LEMMA LookUpTargetStep ==
  ASSUME RInv, NEW q \in Requests, LookUpTarget(q)
  PROVE  RInv'
<1>1. RTypeOK /\ Stages
  BY DEF RInv
<1>2. pc[q] = "lookup" /\ req[q].kind \in {"create", "update"} /\ req[q].id \in Records
  BY <1>1, RequestFields DEF LookUpTarget, Stages
<1>3. /\ UNCHANGED <<rows, users, relations, faults, crashes, raced>>
      /\ TablesOK' /\ faults' \in Nat
  BY <1>1 DEF LookUpTarget, RTypeOK, TablesOK
<1>4. CASE Value(q) = Bad
  BY <1>2, <1>3, <1>4, AbandonStep DEF LookUpTarget
<1>5. CASE Value(q) # Bad /\ Found(Turn(q), Value(q))
  <2>1. /\ pc' = [pc EXCEPT ![q] = "link"]
        /\ UNCHANGED <<req, todo, seen, lastEvent, broken>>
    BY <1>5 DEF LookUpTarget
  <2>2. req[q].id \notin raced => OfField(req[q].id, Turn(q)) = {}
    BY <1>2 DEF RInv, NothingToReplace, InLoop
  <2>3. req[q].id \notin raced => OfField(req[q].id, Turn(q))' = {}
    BY <1>3, <2>1, <2>2 DEF OfField, Turn
  <2>. QED
    BY <1>2, <1>3, <2>1, <2>3, WithinTurnStep
<1>6. CASE Value(q) # Bad /\ ~Found(Turn(q), Value(q))
  <2>1. Continue(q, Others(q), seen[q]) /\ broken' = broken
    BY <1>6 DEF LookUpTarget
  <2>2. Others(q) \in SUBSET Fields /\ seen[q] \in Data \cup {Absent}
    BY <1>1 DEF Others, RTypeOK
  <2>3. CountsOK'
    BY <1>1, <1>3, <2>1 DEF RTypeOK, CountsOK
  <2>4. req[q].kind = "create" /\ req[q].id \notin raced =>
          \A f \in Others(q) : OfField(req[q].id, f)' = {}
    BY <1>1, <1>2, <1>3, <2>1, <2>2, OthersStillClear
  <2>. QED
    BY <1>2, <1>3, <2>1, <2>2, <2>3, <2>4, TurnStep
<1>. QED
  BY <1>4, <1>5, <1>6

\* What the insert of a found target adds to the table.
LEMMA LinkType ==
  ASSUME RTypeOK, NEW q \in Requests, req[q].id \in Records, todo[q] # {},
         Found(Turn(q), Value(q)),
         UNCHANGED <<rows, users>>,
         relations' = relations \cup
           {[by |-> q, owner |-> req[q].id, field |-> Turn(q), link |-> Value(q)]}
  PROVE  TablesOK'
<1>1. Turn(q) \in Fields
  BY TurnIsLeft
<1>2. Value(q) \in Links \cup {None}
  BY DEF Found, RTypeOK, Links
<1>. QED
  BY <1>1, <1>2 DEF RTypeOK, TablesOK

LEMMA LinkTargetStep ==
  ASSUME RInv, NEW q \in Requests, LinkTarget(q)
  PROVE  RInv'
<1>1. RTypeOK /\ Stages
  BY DEF RInv
<1>2. /\ pc[q] = "link" /\ req[q].kind \in {"create", "update"}
      /\ req[q].id \in Records /\ todo[q] # {}
  BY <1>1, RequestFields DEF LinkTarget, Stages
<1>3. UNCHANGED <<rows, users, faults, crashes, raced>> /\ faults' \in Nat
  BY <1>1 DEF LinkTarget, RTypeOK
<1>4. CASE Exists(req[q].id) /\ Found(Turn(q), Value(q))
  <2>1. /\ relations' = relations \cup
             {[by |-> q, owner |-> req[q].id, field |-> Turn(q), link |-> Value(q)]}
        /\ Continue(q, Others(q), seen[q]) /\ broken' = broken
    BY <1>4 DEF LinkTarget
  <2>2. TablesOK' /\ CountsOK'
    BY <1>1, <1>2, <1>3, <1>4, <2>1, LinkType DEF RTypeOK, CountsOK
  <2>3. Others(q) \in SUBSET Fields /\ seen[q] \in Data \cup {Absent}
    BY <1>1 DEF Others, RTypeOK
  <2>4. req[q].kind = "create" /\ req[q].id \notin raced =>
          \A f \in Others(q) : OfField(req[q].id, f)' = {}
    BY <1>1, <1>2, <2>1, <2>3, OthersStillClear
  <2>. QED
    BY <1>2, <1>3, <2>1, <2>2, <2>3, <2>4, TurnStep
<1>5. CASE ~(Exists(req[q].id) /\ Found(Turn(q), Value(q)))
  <2>1. AbandonLoop(q, Others(q)) /\ relations' = relations
    BY <1>5 DEF LinkTarget
  <2>2. TablesOK'
    BY <1>1, <1>3, <2>1 DEF RTypeOK, TablesOK
  <2>. QED
    BY <1>2, <1>3, <2>1, <2>2, AbandonStep DEF LinkTarget
<1>. QED
  BY <1>4, <1>5

LEMMA RelationsRejectedStep ==
  ASSUME RInv, NEW q \in Requests, RelationsRejected(q)
  PROVE  RInv'
<1>1. RTypeOK /\ Stages
  BY DEF RInv
<1>2. /\ pc[q] \in {"workspace", "clear", "lookup", "link"} /\ req[q].id \in Records
      /\ pc[q] = "link" => todo[q] # {}
  BY <1>1, RequestFields DEF RelationsRejected, Stages
<1>3. /\ UNCHANGED <<rows, users, crashes, raced>> /\ faults' \in Nat
      /\ AbandonLoop(q, LoopFields(req[q].kind, req[q].body))
  BY <1>1 DEF RelationsRejected, RTypeOK
<1>4. CASE relations' \subseteq relations
  <2>1. TablesOK'
    BY <1>1, <1>3, <1>4 DEF RTypeOK, TablesOK
  <2>. QED
    BY <1>2, <1>3, <1>4, <2>1, AbandonStep
<1>5. CASE ~(relations' \subseteq relations)
  <2>1. /\ pc[q] = "link" /\ Found(Turn(q), Value(q))
        /\ relations' = relations \cup
             {[by |-> q, owner |-> req[q].id, field |-> Turn(q), link |-> Value(q)]}
    BY <1>5 DEF RelationsRejected
  <2>2. TablesOK'
    BY <1>1, <1>2, <1>3, <2>1, LinkType
  <2>. QED
    BY <1>2, <1>3, <2>1, <2>2, AbandonStep
<1>. QED
  BY <1>4, <1>5

-----------------------------------------------------------------------------
(* Deletions, failures, and steps of no request.                            *)

LEMMA FindToDeleteStep ==
  ASSUME RInv, NEW q \in Requests, FindToDelete(q)
  PROVE  RInv'
<1>1. RTypeOK /\ Stages /\ BirthIsUnique
  BY DEF RInv
<1>2. pc[q] = "find" /\ req[q] # NoRequest /\ req[q].id \in Records
  BY <1>1, RequestFields DEF FindToDelete, Stages
<1>3. CASE ~Exists(req[q].id)
  BY <1>2, <1>3, RejectStep DEF FindToDelete
<1>4. CASE Exists(req[q].id)
  <2>1. /\ seen' = [seen EXCEPT ![q] = rows[req[q].id]]
        /\ pc' = [pc EXCEPT ![q] = "delete"]
        /\ UNCHANGED <<rows, users, relations, req, todo, faults, crashes, history>>
    BY <1>4 DEF FindToDelete
  <2>2. rows[req[q].id] \in Data
    BY <1>1, <1>2, <1>4, RowType
  <2>3. RTypeOK' /\ StepOf(q) /\ pc'[q] = "delete" /\ seen'[q] \in Data
    BY <1>1, <2>1, <2>2 DEF RTypeOK, StepOf, history
  <2>4. (\A r : ~InLoop(q, r)') /\ ~ToBeBorn(q)'
    BY <2>3 DEF InLoop, ToBeBorn
  <2>5. Stages'
    BY <1>1, <1>2, <2>1, <2>3, StagesStep DEF Staged, Stages
  <2>6. BirthIsUnique'
    BY <1>2, <2>1, <2>3, <2>4, BirthIsUniqueStep DEF Births
  <2>7. OneWriter'
    BY <2>3, <2>4, OneWriterStep
  <2>8. NothingToReplace'
    BY <2>1, <2>3, <2>4, NothingToReplaceStep
  <2>9. OneRelationPerField'
    BY <2>1, <2>3, OneRelationStep
  <2>. QED
    BY <2>3, <2>5, <2>6, <2>7, <2>8, <2>9 DEF RInv
<1>. QED
  BY <1>3, <1>4

LEMMA DeleteRecordStep ==
  ASSUME RInv, NEW q \in Requests, DeleteRecord(q)
  PROVE  RInv'
<1>1. RTypeOK /\ Stages
  BY DEF RInv
<1>2. pc[q] = "delete" /\ req[q] # NoRequest /\ seen[q] \in Data /\ req[q].id \in Records
  BY <1>1, RequestFields DEF DeleteRecord, Stages
<1>3. lastEvent' \in [Records -> {NoEvent} \cup
           [kind : {"created", "updated", "deleted"}, by : Requests, data : Data]]
  BY <1>1, <1>2, EmitType DEF DeleteRecord
<1>4. ControlOK' /\ StepOf(q) /\ pc'[q] = "done"
  BY <1>1, <1>3 DEF DeleteRecord, Answer, RTypeOK, ControlOK, StepOf
<1>5. relations' \subseteq relations
  BY DEF DeleteRecord, Cascade
<1>6. RTypeOK'
  <2>1. TablesOK' /\ CountsOK'
    BY <1>1, <1>2, <1>5 DEF DeleteRecord, RTypeOK, TablesOK, CountsOK, Overlapped
  <2>. QED
    BY <1>4, <2>1, TypeParts DEF RTypeOK, TablesOK, CountsOK, ControlOK
<1>7. \A r \in Records : rows'[r] = IF r = req[q].id THEN Absent ELSE rows[r]
  BY <1>1 DEF DeleteRecord, RTypeOK
<1>8. rows[req[q].id] # Unborn /\ Absent # Unborn
  BY <1>1, <1>2, MarksAssumption DEF RInv, BirthIsUnique, Stages
<1>9. \A r \in Records : (rows'[r] = Unborn) <=> (rows[r] = Unborn)
  BY <1>7, <1>8
<1>. QED
  BY <1>2, <1>4, <1>5, <1>6, <1>9, EndStep

LEMMA RequestRejectedStep ==
  ASSUME RInv, NEW q \in Requests, RequestRejected(q)
  PROVE  RInv'
<1>1. RTypeOK /\ Stages /\ BirthIsUnique
  BY DEF RInv
<1>2. /\ pc[q] \in {"find", "write", "reread", "delete"} /\ req[q] # NoRequest
      /\ req[q].id \in Records /\ req[q].body \in [Fields -> Values \cup {Unsent}]
      /\ req[q].kind \in Kinds
  BY <1>1, RequestFields DEF RequestRejected, Stages
<1>3. raced \subseteq raced' /\ CountsOK'
  BY <1>1, <1>2 DEF RequestRejected, RTypeOK, CountsOK, Overlapped
<1>4. ControlOK' /\ StepOf(q) /\ pc'[q] = "rejected"
  BY <1>1, <1>3, AnswerStep DEF RequestRejected, StepOf
<1>5. relations' \subseteq relations
  BY DEF RequestRejected, Cascade
<1>. DEFINE changed == rows' # rows
<1>5a. changed => rows' = Written(q)
  BY DEF RequestRejected
<1>6. /\ rows' \in [Records -> Data \cup {Unborn, Absent}]
      /\ \A r \in Records : rows[r] # Unborn => rows'[r] # Unborn
      /\ \A r \in Records : rows[r] = Unborn /\ rows'[r] # Unborn => r = req[q].id /\ ToBeBorn(q)
  <2>1. CASE rows' = rows
    BY <1>1, <2>1 DEF RTypeOK
  <2>2. CASE rows' # rows /\ pc[q] = "write" /\ req[q].kind # "update"
    <3>1. rows' = [rows EXCEPT ![req[q].id] = AsData(req[q].body)]
      BY <1>5a, <2>2 DEF Written
    <3>2. AsData(req[q].body) \in Data /\ AsData(req[q].body) # Unborn
      BY <1>2, AsDataType, MarksAssumption
    <3>3. ToBeBorn(q) \/ rows[req[q].id] # Unborn
      BY <1>1, <1>2, <2>2 DEF ToBeBorn, Kinds, BirthIsUnique
    <3>. QED
      BY <1>1, <1>2, <3>1, <3>2, <3>3 DEF RTypeOK
  <2>3. CASE rows' # rows /\ pc[q] = "write" /\ req[q].kind = "update"
    <3>1. /\ Exists(req[q].id)
          /\ rows' = [rows EXCEPT ![req[q].id] = Merged(rows[req[q].id], req[q].body)]
      BY <1>5a, <2>3 DEF Written
    <3>2. /\ Merged(rows[req[q].id], req[q].body) \in Data
          /\ rows[req[q].id] # Unborn
      BY <1>1, <1>2, <3>1, RowType, MergedType
    <3>. QED
      BY <1>1, <1>2, <3>1, <3>2, MarksAssumption DEF RTypeOK
  <2>4. CASE rows' # rows /\ pc[q] # "write"
    <3>1. rows' = [rows EXCEPT ![req[q].id] = Absent]
      BY <1>5a, <2>4 DEF Written
    <3>2. rows[req[q].id] # Unborn
      <4>1. pc[q] = "delete"
        BY <1>5a, <2>4 DEF Written
      <4>2. req[q].kind = "delete"
        BY <1>1, <4>1 DEF Stages
      <4>. QED
        BY <1>1, <1>2, <4>1, <4>2 DEF BirthIsUnique
    <3>. QED
      BY <1>1, <1>2, <3>1, <3>2, MarksAssumption DEF RTypeOK
  <2>. QED
    BY <2>1, <2>2, <2>3, <2>4
<1>7. RTypeOK'
  <2>1. TablesOK'
    BY <1>1, <1>5, <1>6 DEF RequestRejected, RTypeOK, TablesOK
  <2>. QED
    BY <1>3, <1>4, <2>1, TypeParts DEF RTypeOK, TablesOK, CountsOK, ControlOK
<1>. QED
  BY <1>2, <1>4, <1>5, <1>6, <1>7, EndStep

LEMMA RemoveUserStep ==
  ASSUME RInv, NEW u \in Users, RemoveUser(u)
  PROVE  RInv'
<1>. DEFINE Orphan(x) == IF x.link = u THEN [x EXCEPT !.link = None] ELSE x
<1>1. RTypeOK
  BY DEF RInv
<1>2. relations' = {Orphan(x) : x \in relations}
  BY DEF RemoveUser
<1>3. UNCHANGED <<rows, req, pc, todo, seen, faults, crashes, lastEvent, raced, broken>>
  BY DEF RemoveUser, request, history
<1>4. \A x \in relations :
        /\ Orphan(x) \in [by : Requests, owner : Records, field : Fields, link : Links \cup {None}]
        /\ Orphan(x).owner = x.owner /\ Orphan(x).field = x.field
  BY <1>1 DEF RTypeOK
<1>5. RTypeOK'
  BY <1>1, <1>2, <1>3, <1>4 DEF RTypeOK, RemoveUser
<1>6. \A y \in relations' : \E x \in relations :
        y = Orphan(x) /\ y.owner = x.owner /\ y.field = x.field
  BY <1>2, <1>4
<1>7. Stages' /\ OneWriter'
  BY <1>3 DEF RInv, Stages, OneWriter, InLoop
<1>8. BirthIsUnique'
  BY <1>3, <1>6 DEF RInv, BirthIsUnique, ToBeBorn, InLoop
<1>9. NothingToReplace'
  <2>1. \A r, f : OfField(r, f) = {} => OfField(r, f)' = {}
    BY <1>6 DEF OfField
  <2>. QED
    BY <1>3, <2>1 DEF RInv, NothingToReplace, InLoop, Turn
<1>10. OneRelationPerField'
  BY <1>3, <1>6 DEF RInv, OneRelationPerField
<1>. QED
  BY <1>5, <1>7, <1>8, <1>9, <1>10 DEF RInv

LEMMA CrashStep ==
  ASSUME RInv, RCrash
  PROVE  RInv'
<1>1. RTypeOK /\ Stages /\ BirthIsUnique
  BY DEF RInv
<1>2. /\ UNCHANGED <<rows, users, relations, req, faults, lastEvent, raced>>
      /\ \A q \in Requests :
           pc'[q] = IF pc[q] \in {"new", "done", "rejected"} THEN pc[q] ELSE "lost"
  BY DEF RCrash
<1>3. RTypeOK'
  BY <1>1, <1>2 DEF RCrash, RTypeOK
<1>4. (\A q \in Requests, r \in Records : ~InLoop(q, r)') /\ \A q \in Requests : ~ToBeBorn(q)'
  BY <1>2 DEF InLoop, ToBeBorn
<1>5. Stages'
  BY <1>1, <1>2 DEF Stages
<1>6. BirthIsUnique'
  BY <1>1, <1>2, <1>4 DEF BirthIsUnique
<1>7. OneWriter' /\ NothingToReplace'
  <2>1. Records \ raced' \subseteq Records
    OBVIOUS
  <2>. QED
    BY <1>4, <2>1 DEF OneWriter, NothingToReplace
<1>8. OneRelationPerField'
  BY <1>2 DEF RInv, OneRelationPerField
<1>. QED
  BY <1>3, <1>5, <1>6, <1>7, <1>8 DEF RInv

LEMMA ReceiveStep ==
  ASSUME RInv, NEW q \in Requests, NEW r \in Records, NEW kind \in Kinds,
         NEW body \in [Fields -> Values \cup {Unsent}], NEW first \in {"validate", "find"},
         Receive(q, r, kind, body, first),
         first = "find" <=> kind = "delete",
         kind \in {"update", "delete"} => rows[r] # Unborn,
         kind \in {"create", "bulkInsert"} => Generated(r)
  PROVE  RInv'
<1>1. RTypeOK /\ Stages /\ BirthIsUnique
  BY DEF RInv
<1>2. /\ UNCHANGED <<rows, users, relations, todo, seen, faults, crashes, lastEvent, raced, broken>>
      /\ req' = [req EXCEPT ![q] = [kind |-> kind, id |-> r, body |-> body]]
      /\ pc' = [pc EXCEPT ![q] = first] /\ pc[q] = "new"
  BY DEF Receive, history
<1>3. /\ req'[q] = [kind |-> kind, id |-> r, body |-> body] /\ pc'[q] = first
      /\ \A p \in Requests \ {q} : req'[p] = req[p] /\ pc'[p] = pc[p]
  BY <1>1, <1>2 DEF RTypeOK
<1>4. RTypeOK'
  BY <1>1, <1>2 DEF RTypeOK
<1>5. req'[q] # NoRequest
  <2>1. kind # "none"
    BY DEF Kinds
  <2>. QED
    BY <1>3, <2>1 DEF NoRequest
<1>6. Stages'
  BY <1>1, <1>2, <1>3, <1>5 DEF Stages
<1>7. \A p \in Requests : \A s : InLoop(p, s)' <=> InLoop(p, s)
  BY <1>2, <1>3 DEF InLoop
<1>8. \A p \in Requests \ {q} : ToBeBorn(p)' <=> ToBeBorn(p)
  BY <1>3 DEF ToBeBorn
<1>9. BirthIsUnique'
  <2>1. ToBeBorn(q)' => Generated(r)
    BY <1>3 DEF ToBeBorn
  <2>2. ToBeBorn(q)' => \A p \in Requests \ {q} : ToBeBorn(p) => req[p].id # r
    BY <2>1 DEF Generated, ToBeBorn
  <2>3. \A p \in Requests : ToBeBorn(p)' => rows'[req'[p].id] = Unborn
    BY <1>1, <1>2, <1>3, <1>8, <2>1 DEF Generated, BirthIsUnique
  <2>4. \A o, p \in Requests : ToBeBorn(o)' /\ ToBeBorn(p)' /\ req'[o].id = req'[p].id => o = p
    BY <1>1, <1>3, <1>8, <2>2 DEF BirthIsUnique
  <2>5. \A p \in Requests : pc'[p] # "new" /\ req'[p].kind \in {"update", "delete"}
          => rows'[req'[p].id] # Unborn
    BY <1>1, <1>2, <1>3 DEF BirthIsUnique
  <2>. QED
    BY <1>1, <1>2, <1>7, <2>3, <2>4, <2>5 DEF BirthIsUnique
<1>10. OneWriter'
  BY <1>2, <1>7 DEF RInv, OneWriter
<1>11. NothingToReplace'
  <2>1. \A p \in Requests, s \in Records : InLoop(p, s) => p # q
    BY <1>2 DEF InLoop
  <2>2. \A s, f : OfField(s, f)' = OfField(s, f)
    BY <1>2 DEF OfField
  <2>3. \A s \in Records, p \in Requests : OfField(s, Turn(p))' = OfField(s, Turn(p))
    BY <1>2 DEF OfField, Turn
  <2>. QED
    BY <1>2, <1>3, <1>7, <2>1, <2>2, <2>3 DEF RInv, NothingToReplace
<1>12. OneRelationPerField'
  BY <1>2 DEF RInv, OneRelationPerField
<1>. QED
  BY <1>4, <1>6, <1>9, <1>10, <1>11, <1>12 DEF RInv

-----------------------------------------------------------------------------
(* The theorems.                                                            *)

\* No record has been written yet but the existing ones, which link nothing.
LEMMA InitRInv == RInit => RInv
<1>. SUFFICES ASSUME RInit PROVE RInv
  OBVIOUS
<1>1. Existing \subseteq Records /\ [f \in Fields |-> None] \in Data
  BY RecordsAssumption DEF Data, Values
<1>2. RTypeOK
  BY <1>1, LimitsAssumption DEF RInit, RTypeOK
<1>3. Stages /\ BirthIsUnique /\ OneWriter /\ NothingToReplace /\ OneRelationPerField
  BY DEF RInit, Stages, BirthIsUnique, OneWriter, NothingToReplace, OneRelationPerField,
         InLoop, ToBeBorn
<1>. QED
  BY <1>2, <1>3 DEF RInv

LEMMA NextRInv == RInv /\ [RNext]_rvars => RInv'
<1>. SUFFICES ASSUME RInv, [RNext]_rvars PROVE RInv'
  OBVIOUS
<1>1. ASSUME NEW q \in Requests, Receives(q) PROVE RInv'
  <2>1. PICK r \in Records, kind \in Kinds, body \in [Fields -> Values \cup {Unsent}],
             first \in {"validate", "find"} :
          /\ Receive(q, r, kind, body, first)
          /\ first = "find" <=> kind = "delete"
          /\ kind \in {"update", "delete"} => rows[r] # Unborn
          /\ kind \in {"create", "bulkInsert"} => Generated(r)
    <3>1. CASE ReceiveCreate(q)
      BY <3>1, BodiesAssumption DEF ReceiveCreate, Kinds
    <3>2. CASE ReceiveUpdate(q)
      BY <3>2, BodiesAssumption DEF ReceiveUpdate, Kinds
    <3>3. CASE ReceiveDelete(q)
      BY <3>3 DEF ReceiveDelete, Kinds
    <3>. QED
      BY <1>1, <3>1, <3>2, <3>3 DEF Receives
  <2>. QED
    BY <2>1, ReceiveStep
<1>2. ASSUME NEW q \in Requests, Serve(q) PROVE RInv'
  BY <1>2, ValidateRecordDataStep, InsertRecordStep, BulkInsertStep, MergeRecordStep,
     RereadRecordStep, ReadRelationFieldsStep, ClearRelationsStep, LookUpTargetStep, LinkTargetStep,
     FindToDeleteStep, DeleteRecordStep, RequestRejectedStep, RelationsRejectedStep DEF Serve
<1>3. CASE \E u \in Users : RemoveUser(u)
  BY <1>3, RemoveUserStep
<1>4. CASE RCrash
  BY <1>4, CrashStep
<1>5. CASE UNCHANGED rvars
  <2>1. UNCHANGED <<rows, users, relations, req, pc, todo, seen, faults, crashes,
                    lastEvent, raced, broken>>
    BY <1>5 DEF rvars, request, history
  <2>. QED
    BY <2>1 DEF RInv, RTypeOK, Stages, BirthIsUnique, OneWriter, NothingToReplace,
       OneRelationPerField, InLoop, ToBeBorn, OfField, Turn
<1>. QED
  BY <1>1, <1>2, <1>3, <1>4, <1>5 DEF RNext

\* The records service keeps its inductive invariant, whatever its constants.
THEOREM RecordsInvariant == RSpec => []RInv
BY InitRInv, NextRInv, PTL DEF RSpec

\* createRelations and updateRelations leave one row per record and field, at
\* every moment, unless two requests wrote the record at the same time.
THEOREM OneRelation == RSpec => []OneRelationPerField
<1>1. RInv => OneRelationPerField
  BY DEF RInv
<1>. QED
  BY <1>1, RecordsInvariant, PTL
=============================================================================
