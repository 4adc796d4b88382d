-------------------------- MODULE RecordReads_proofs --------------------------
(***************************************************************************)
(* Proofs about what is told and shown of the records, for any records,    *)
(* fields, requests, bodies and bounds: the events of a record come in the *)
(* order of its life and the last one tells its row, and the relation rows *)
(* show what the data lists.                                               *)
(*                                                                         *)
(* The one writer of a record that is not raced holds the row as it is     *)
(* (WriterSaw), so what it emits at the end is the row.  The fields that   *)
(* its loop has left are the only ones in which the two tables differ      *)
(* (FieldsAgree), because what its body sent stands in the row meanwhile.  *)
(***************************************************************************)
EXTENDS RecordQueries, WorkspaceRecords_proofs, FiniteSetTheorems

-----------------------------------------------------------------------------
(* Events.                                                                  *)

\* No event before the row, and none after "deleted" as long as it is the last.
EventsFollowRows ==
  \A r \in Records :
    /\ rows[r] = Unborn => lastEvent[r].kind = "none"
    /\ lastEvent[r].kind = "deleted" => rows[r] = Absent

\* What a request works on, alone, exists.
WorkedOnExists == \A r \in Records \ raced, q \in Requests : Working(q, r) => Exists(r)

\* The one writer has the row as it is; for its creator nothing was emitted.
WriterSaw ==
  \A r \in Records \ raced, q \in Requests : InLoop(q, r) =>
    /\ pc[q] # "reread" => seen[q] = rows[r]
    /\ req[q].kind = "create" => lastEvent[r].kind = "none"

Tells(r) ==
  /\ lastEvent[r].kind \in {"created", "updated"} => rows[r] = lastEvent[r].data
  /\ lastEvent[r].kind = "deleted" <=> rows[r] = Absent
  /\ lastEvent[r].kind = "none" => r \in Existing \/ BulkInserted(r) \/ rows[r] = Unborn

\* Once no request is between its write of r and its event, the last one tells.
EventTells ==
  \A r \in Records \ (raced \cup broken) : (\A q \in Requests : ~InLoop(q, r)) => Tells(r)

EventInv == EventsFollowRows /\ WorkedOnExists /\ WriterSaw /\ EventTells

\* A step of q that writes no row and emits nothing: it stays in the loop with
\* the row it has seen, or leaves it broken.
LEMMA QuietEvents ==
  ASSUME RInv, RInv', EventInv, NEW q \in Requests, StepOf(q), pc'[q] # "new",
         UNCHANGED <<rows, lastEvent, raced>>, broken \subseteq broken',
         \A r \in Records \ raced :
           /\ Working(q, r)' => Exists(r)
           /\ InLoop(q, r)' => InLoop(q, r) /\ (pc'[q] # "reread" => seen'[q] = rows[r])
           /\ InLoop(q, r) => InLoop(q, r)' \/ r \in broken'
  PROVE  EventInv'
<1>1. \A p \in Requests \ {q}, r \in Records :
        (InLoop(p, r)' <=> InLoop(p, r)) /\ (Working(p, r)' <=> Working(p, r))
  BY DEF StepOf, InLoop, Working
<1>2. \A r \in Records : Exists(r)' <=> Exists(r)
  BY DEF Exists
<1>3. \A r \in Records : BulkInserted(r)' <=> BulkInserted(r)
  BY DEF BulkInserted, StepOf
<1>4. EventsFollowRows'
  BY DEF EventInv, EventsFollowRows, StepOf
<1>5. WorkedOnExists'
  BY <1>1, <1>2 DEF EventInv, WorkedOnExists
<1>6. WriterSaw'
  BY <1>1 DEF EventInv, WriterSaw, StepOf
<1>7. EventTells'
  <2>1. \A r \in Records \ (raced' \cup broken') :
          (\A p \in Requests : ~InLoop(p, r)') => \A p \in Requests : ~InLoop(p, r)
    BY <1>1
  <2>. QED
    BY <1>3, <2>1 DEF EventInv, EventTells, Tells
<1>. QED
  BY <1>4, <1>5, <1>6, <1>7 DEF EventInv

\* The event that ends the loop, or its lack when nothing was seen.
LEMMA CompleteEvents ==
  ASSUME RInv, RInv', EventInv, NEW q \in Requests, StepOf(q),
         pc[q] \in {"workspace", "clear", "lookup", "link"}, pc'[q] = "done",
         UNCHANGED <<rows, raced>>, broken \subseteq broken',
         Complete(q, seen[q])
  PROVE  EventInv'
<1>. DEFINE s == req[q].id
<1>1. RTypeOK /\ Stages /\ BirthIsUnique /\ OneWriter
  BY DEF RInv
<1>2. s \in Records /\ InLoop(q, s) /\ Working(q, s) /\ rows[s] # Unborn
  BY <1>1, RequestFields DEF Stages, InLoop, Working, BirthIsUnique
<1>3. \A p \in Requests \ {q}, r \in Records :
        (InLoop(p, r)' <=> InLoop(p, r)) /\ (Working(p, r)' <=> Working(p, r))
  BY DEF StepOf, InLoop, Working
<1>4. \A r \in Records : ~InLoop(q, r)' /\ ~Working(q, r)' /\ (InLoop(q, r) => r = s)
  BY DEF InLoop, Working
<1>5. \A r \in Records : Exists(r)' <=> Exists(r)
  BY DEF Exists
<1>6. \A r \in Records : BulkInserted(r)' <=> BulkInserted(r)
  BY DEF BulkInserted, StepOf
<1>7. s \notin raced => seen[q] = rows[s] /\ Exists(s)
  BY <1>2 DEF EventInv, WriterSaw, WorkedOnExists
<1>8. \/ lastEvent' = lastEvent /\ seen[q] = Absent
      \/ \E e : /\ lastEvent' = [lastEvent EXCEPT ![s] = e]
                /\ e.kind \in {"created", "updated"} /\ e.data = seen[q]
  BY DEF Complete, Emit
<1>9. /\ \A r \in Records \ {s} : lastEvent'[r] = lastEvent[r]
      /\ lastEvent'[s] = lastEvent[s] \/ lastEvent'[s].kind \in {"created", "updated"}
      /\ s \notin raced =>
           lastEvent'[s].kind \in {"created", "updated"} /\ lastEvent'[s].data = rows[s]
  BY <1>1, <1>2, <1>7, <1>8 DEF RTypeOK, Exists
<1>10. EventsFollowRows'
  BY <1>2, <1>9 DEF EventInv, EventsFollowRows, StepOf
<1>11. WorkedOnExists'
  BY <1>3, <1>4, <1>5 DEF EventInv, WorkedOnExists
<1>12. WriterSaw'
  <2>1. \A p \in Requests \ {q} : s \notin raced => ~InLoop(p, s)
    BY <1>1, <1>2 DEF OneWriter
  <2>. QED
    BY <1>3, <1>4, <1>9, <2>1 DEF EventInv, WriterSaw, StepOf
<1>13. EventTells'
  <2>1. ASSUME NEW r \in Records \ (raced' \cup broken'), r # s,
               \A p \in Requests : ~InLoop(p, r)'
        PROVE  Tells(r)'
    <3>1. \A p \in Requests : ~InLoop(p, r)
      BY <1>3, <1>4, <2>1
    <3>. QED
      BY <1>6, <1>9, <2>1, <3>1 DEF EventInv, EventTells, Tells
  <2>2. \A r \in Records : r = s /\ s \notin raced => Tells(r)'
    BY <1>2, <1>7, <1>9 DEF Tells, Exists
  <2>. QED
    BY <2>1, <2>2 DEF EventTells
<1>. QED
  BY <1>10, <1>11, <1>12, <1>13 DEF EventInv

\* What a request in its loop does to its own state, in one of three ways.
Turns(q) ==
  \/ \E rest \in SUBSET Fields : Continue(q, rest, seen[q])
  \/ Complete(q, seen[q])
  \/ /\ pc[q] \in {"clear", "lookup"}
     /\ \E next \in {"lookup", "link"} : pc' = [pc EXCEPT ![q] = next]
     /\ UNCHANGED <<req, todo, seen, lastEvent>>

LEMMA TurnEvents ==
  ASSUME RInv, RInv', EventInv, NEW q \in Requests,
         pc[q] \in {"workspace", "clear", "lookup", "link"}, Turns(q),
         UNCHANGED <<rows, raced>>, broken \subseteq broken'
  PROVE  EventInv'
<1>1. RTypeOK /\ Stages
  BY DEF RInv
<1>2. req[q] # NoRequest /\ seen[q] \in Data \cup {Absent}
  BY <1>1 DEF Stages, RTypeOK
<1>3. CASE Complete(q, seen[q])
  <2>1. StepOf(q) /\ pc'[q] = "done"
    BY <1>1, <1>2, <1>3, CompleteStep DEF StepOf
  <2>. QED
    BY <1>3, <2>1, CompleteEvents
<1>4. ASSUME StepOf(q), pc'[q] \in {"clear", "lookup", "link"}, seen'[q] = seen[q],
             lastEvent' = lastEvent
      PROVE  EventInv'
  <2>1. \A r \in Records \ raced :
          /\ Working(q, r)' => Exists(r)
          /\ InLoop(q, r)' => InLoop(q, r) /\ (pc'[q] # "reread" => seen'[q] = rows[r])
          /\ InLoop(q, r) => InLoop(q, r)' \/ r \in broken'
    BY <1>4 DEF StepOf, InLoop, Working, EventInv, WorkedOnExists, WriterSaw
  <2>. QED
    BY <1>4, <2>1, QuietEvents
<1>5. ASSUME NEW rest \in SUBSET Fields, Continue(q, rest, seen[q])
      PROVE  EventInv'
  <2>1. CASE rest = {}
    BY <1>3, <1>5, <2>1 DEF Continue
  <2>2. CASE rest # {}
    <3>1. StepOf(q) /\ pc'[q] \in {"clear", "lookup"}
      BY <1>1, <1>2, <1>5, <2>2, ContinueStep DEF StepOf
    <3>2. seen'[q] = seen[q] /\ lastEvent' = lastEvent
      BY <1>1, <1>5, <2>2 DEF Continue, RTypeOK
    <3>. QED
      BY <1>4, <3>1, <3>2
  <2>. QED
    BY <2>1, <2>2
<1>6. CASE /\ pc[q] \in {"clear", "lookup"}
           /\ \E next \in {"lookup", "link"} : pc' = [pc EXCEPT ![q] = next]
           /\ UNCHANGED <<req, todo, seen, lastEvent>>
  <2>1. StepOf(q) /\ pc'[q] \in {"lookup", "link"}
    BY <1>1, <1>6 DEF StepOf, RTypeOK
  <2>. QED
    BY <1>4, <1>6, <2>1
<1>. QED
  BY <1>3, <1>5, <1>6 DEF Turns

\* The five steps of the relation loop.
LoopStep(q) ==
  \/ ReadRelationFields(q)
  \/ ClearRelations(q)
  \/ LookUpTarget(q)
  \/ LinkTarget(q)
  \/ RelationsRejected(q)

LEMMA LoopStepTurns ==
  ASSUME RInv, NEW q \in Requests, LoopStep(q)
  PROVE  /\ pc[q] \in {"workspace", "clear", "lookup", "link"}
         /\ Turns(q)
         /\ UNCHANGED <<rows, raced>>
         /\ broken \subseteq broken'
<1>1. Others(q) \in SUBSET Fields /\ LoopFields(req[q].kind, req[q].body) \in SUBSET Fields
  BY DEF RInv, RTypeOK, Others, LoopFields
<1>2. CASE ReadRelationFields(q)
  BY <1>1, <1>2 DEF ReadRelationFields, Turns
<1>3. CASE ClearRelations(q)
  BY <1>1, <1>3 DEF ClearRelations, Turns
<1>4. CASE LookUpTarget(q)
  BY <1>1, <1>4 DEF LookUpTarget, Turns, AbandonLoop
<1>5. CASE LinkTarget(q)
  BY <1>1, <1>5 DEF LinkTarget, Turns, AbandonLoop
<1>6. CASE RelationsRejected(q)
  BY <1>6 DEF RelationsRejected, Turns, AbandonLoop
<1>. QED
  BY <1>2, <1>3, <1>4, <1>5, <1>6 DEF LoopStep

\* Steps outside the loop that write nothing: what they look for, they find.
LEMMA OutsideEvents ==
  ASSUME RInv, RInv', EventInv, NEW q \in Requests,
         ValidateRecordData(q) \/ RereadRecord(q) \/ FindToDelete(q)
  PROVE  EventInv'
<1>1. RTypeOK /\ Stages
  BY DEF RInv
<1>2. UNCHANGED <<rows, lastEvent, raced, broken>>
  BY DEF ValidateRecordData, RereadRecord, FindToDelete, history
<1>3. StepOf(q) /\ pc'[q] # "new"
  BY <1>1, <1>2 DEF ValidateRecordData, RereadRecord, FindToDelete, Answer, RTypeOK, StepOf
<1>4. CASE ValidateRecordData(q)
  <2>1. \A r : ~Working(q, r)' /\ ~InLoop(q, r)' /\ ~InLoop(q, r)
    BY <1>1, <1>4 DEF ValidateRecordData, Answer, RTypeOK, Working, InLoop
  <2>. QED
    BY <1>2, <1>3, <2>1, QuietEvents
<1>5. CASE RereadRecord(q)
  <2>1. pc[q] = "reread" /\ pc'[q] = "workspace" /\ seen'[q] = rows[req[q].id] /\ req' = req
    BY <1>1, <1>5 DEF RereadRecord, RTypeOK
  <2>2. \A r \in Records \ raced :
          /\ Working(q, r)' => Exists(r)
          /\ InLoop(q, r)' => InLoop(q, r) /\ (pc'[q] # "reread" => seen'[q] = rows[r])
          /\ InLoop(q, r) => InLoop(q, r)' \/ r \in broken'
    BY <2>1 DEF InLoop, Working, EventInv, WorkedOnExists
  <2>. QED
    BY <1>2, <1>3, <2>2, QuietEvents
<1>6. CASE FindToDelete(q)
  <2>1. \A r \in Records \ raced :
          (Working(q, r)' => Exists(r)) /\ ~InLoop(q, r)' /\ ~InLoop(q, r)
    BY <1>1, <1>6 DEF FindToDelete, Answer, RTypeOK, InLoop, Working
  <2>. QED
    BY <1>2, <1>3, <2>1, QuietEvents
<1>. QED
  BY <1>4, <1>5, <1>6

\* A write of the row of s by q, which works on it alone or races.
LEMMA WriteEvents ==
  ASSUME RInv, RInv', EventInv, NEW q \in Requests, StepOf(q), pc'[q] # "new",
         NEW CONSTANT s \in Records, s = req[q].id, ~InLoop(q, s),
         broken \subseteq broken', rows'[s] # Unborn,
         \A r \in Records \ {s} : rows'[r] = rows[r] /\ lastEvent'[r] = lastEvent[r],
         lastEvent'[s].kind = "deleted" => rows'[s] = Absent,
         s \notin raced' => \A p \in Requests \ {q} : ~Working(p, s),
         Working(q, s)' => Exists(s)',
         InLoop(q, s)' =>
           /\ pc'[q] # "reread" => seen'[q] = rows'[s]
           /\ req[q].kind = "create" => lastEvent'[s].kind = "none",
         s \notin raced' \cup broken' /\ ~InLoop(q, s)' => Tells(s)'
  PROVE  EventInv'
<1>1. raced \subseteq raced' /\ req' = req
  BY DEF StepOf
<1>2. \A p \in Requests \ {q}, r \in Records :
        (InLoop(p, r)' <=> InLoop(p, r)) /\ (Working(p, r)' <=> Working(p, r))
  BY DEF StepOf, InLoop, Working
<1>3. \A r \in Records \ {s} :
        ~InLoop(q, r) /\ ~InLoop(q, r)' /\ ~Working(q, r)'
  BY <1>1 DEF InLoop, Working
<1>4. \A r \in Records \ {s} : Exists(r)' <=> Exists(r)
  BY DEF Exists
<1>5. \A r \in Records : BulkInserted(r)' <=> BulkInserted(r)
  BY <1>1 DEF BulkInserted
<1>6. \A p \in Requests \ {q} : s \notin raced' => ~InLoop(p, s)
  BY DEF InLoop, Working
<1>7. EventsFollowRows'
  BY DEF EventInv, EventsFollowRows, StepOf
<1>8. WorkedOnExists'
  BY <1>1, <1>2, <1>3, <1>4 DEF EventInv, WorkedOnExists
<1>9. WriterSaw'
  BY <1>1, <1>2, <1>3, <1>6 DEF EventInv, WriterSaw, StepOf
<1>10. EventTells'
  <2>1. ASSUME NEW r \in Records \ (raced' \cup broken'), r # s,
               \A p \in Requests : ~InLoop(p, r)'
        PROVE  Tells(r)'
    <3>1. \A p \in Requests : ~InLoop(p, r)
      BY <1>2, <1>3, <2>1
    <3>. QED
      BY <1>1, <1>5, <2>1, <3>1 DEF EventInv, EventTells, Tells
  <2>2. \A r \in Records : r = s /\ s \notin raced' \cup broken' /\ ~InLoop(q, s)' => Tells(r)'
    OBVIOUS
  <2>. QED
    BY <2>1, <2>2 DEF EventTells
<1>. QED
  BY <1>7, <1>8, <1>9, <1>10 DEF EventInv

\* A row that is not born yet has no event, and nobody works on it.
LEMMA UnbornIsAlone ==
  ASSUME RInv, EventInv, NEW r \in Records, rows[r] = Unborn
  PROVE  /\ \A p \in Requests : ~Working(p, r) /\ ~InLoop(p, r)
         /\ lastEvent[r].kind = "none"
BY DEF RInv, Stages, BirthIsUnique, EventInv, EventsFollowRows, Working, InLoop

\* Two requests that overlap race.
LEMMA NotRacedIsAlone ==
  ASSUME NEW q \in Requests, raced' = raced \cup Overlapped(q), req[q].id \notin raced'
  PROVE  \A p \in Requests \ {q} : ~Working(p, req[q].id)
BY DEF Overlapped

LEMMA InsertEvents ==
  ASSUME RInv, RInv', EventInv, NEW q \in Requests, InsertRecord(q) \/ BulkInsert(q)
  PROVE  EventInv'
<1>1. RTypeOK /\ Stages /\ BirthIsUnique
  BY DEF RInv
<1>2. PICK s : s = req[q].id
  OBVIOUS
<1>3. pc[q] = "write" /\ req[q].kind \in {"create", "bulkInsert"} /\ req[q] # NoRequest
  BY <1>1 DEF InsertRecord, BulkInsert, Stages
<1>4. PICK data : data = AsData(req[q].body)
  OBVIOUS
<1>5. s \in Records /\ data \in Data
  BY <1>1, <1>2, <1>3, <1>4, RequestFields, AsDataType
<1>6. rows[s] = Unborn
  BY <1>1, <1>2, <1>3 DEF BirthIsUnique, ToBeBorn
<1>7. /\ \A p \in Requests : ~Working(p, s) /\ ~InLoop(p, s)
      /\ lastEvent[s].kind = "none"
  BY <1>5, <1>6, UnbornIsAlone
<1>8. /\ rows' = [rows EXCEPT ![s] = data]
      /\ UNCHANGED <<req, lastEvent, raced, broken>>
  BY <1>2, <1>4 DEF InsertRecord, BulkInsert, Answer, history
<1>9. /\ rows'[s] = data /\ data \notin {Unborn, Absent}
      /\ \A r \in Records \ {s} : rows'[r] = rows[r]
  BY <1>1, <1>5, <1>8, MarksAssumption DEF RTypeOK
<1>10. /\ StepOf(q)
       /\ \/ pc'[q] = "workspace" /\ seen'[q] = data
          \/ pc'[q] = "done" /\ req[q].kind = "bulkInsert"
  BY <1>1, <1>4, <1>8 DEF InsertRecord, BulkInsert, Answer, RTypeOK, StepOf
<1>11. ~InLoop(q, s)' => Tells(s)'
  <2>1. ~InLoop(q, s)' => BulkInserted(s)'
    BY <1>2, <1>8, <1>10 DEF InLoop, BulkInserted
  <2>. QED
    BY <1>7, <1>8, <1>9, <2>1 DEF Tells
<1>12. Exists(s)' /\ rows'[s] # Unborn
  BY <1>9 DEF Exists
<1>13. InLoop(q, s)' => seen'[q] = rows'[s] /\ lastEvent'[s].kind = "none"
  BY <1>7, <1>8, <1>9, <1>10 DEF InLoop
<1>14. lastEvent'[s].kind # "deleted" /\ pc'[q] # "new"
  BY <1>7, <1>8, <1>10
<1>. QED
  BY <1>2, <1>5, <1>7, <1>8, <1>9, <1>10, <1>11, <1>12, <1>13, <1>14, WriteEvents

LEMMA MergeEvents ==
  ASSUME RInv, RInv', EventInv, NEW q \in Requests, MergeRecord(q)
  PROVE  EventInv'
<1>1. RTypeOK /\ Stages
  BY DEF RInv
<1>2. PICK s : s = req[q].id
  OBVIOUS
<1>3. pc[q] = "write" /\ req[q].kind = "update" /\ req[q] # NoRequest /\ ~InLoop(q, s)
  BY <1>1 DEF MergeRecord, Stages, InLoop
<1>4. s \in Records /\ req[q].body \in [Fields -> Values \cup {Unsent}]
  BY <1>1, <1>2, <1>3, RequestFields
<1>5. CASE ~Exists(s)
  <2>1. Answer(q, "rejected") /\ UNCHANGED <<rows, raced, lastEvent, broken>>
    BY <1>2, <1>5 DEF MergeRecord
  <2>2. StepOf(q) /\ pc'[q] = "rejected"
    BY <1>1, <2>1, AnswerStep DEF StepOf
  <2>3. \A r : ~Working(q, r)' /\ ~InLoop(q, r)' /\ ~InLoop(q, r)
    BY <1>3, <2>2 DEF InLoop, Working
  <2>. QED
    BY <2>1, <2>2, <2>3, QuietEvents
<1>6. CASE Exists(s)
  <2>1. PICK data : data = Merged(rows[s], req[q].body)
    OBVIOUS
  <2>2. /\ rows' = [rows EXCEPT ![s] = data]
        /\ raced' = raced \cup Overlapped(q)
        /\ pc' = [pc EXCEPT ![q] = "reread"]
        /\ UNCHANGED <<req, todo, seen, lastEvent, broken>>
    BY <1>2, <1>6, <2>1 DEF MergeRecord
  <2>3. data \in Data
    BY <1>1, <1>4, <1>6, <2>1, RowType, MergedType
  <2>4. StepOf(q) /\ pc'[q] = "reread"
    BY <1>1, <2>2 DEF StepOf, RTypeOK
  <2>5. /\ rows'[s] = data /\ data \notin {Unborn, Absent}
        /\ \A r \in Records \ {s} : rows'[r] = rows[r]
    BY <1>1, <1>4, <2>2, <2>3, MarksAssumption DEF RTypeOK
  <2>6. lastEvent[s].kind # "deleted"
    BY <1>4, <1>6 DEF EventInv, EventsFollowRows, Exists
  <2>7. InLoop(q, s)' /\ Exists(s)'
    BY <1>2, <2>2, <2>4, <2>5 DEF InLoop, Exists
  <2>8. s \notin raced' => \A p \in Requests \ {q} : ~Working(p, s)
    BY <1>2, <2>2, NotRacedIsAlone
  <2>. QED
    BY <1>2, <1>3, <1>4, <2>2, <2>4, <2>5, <2>6, <2>7, <2>8, WriteEvents
<1>. QED
  BY <1>5, <1>6

LEMMA DeleteEvents ==
  ASSUME RInv, RInv', EventInv, NEW q \in Requests, DeleteRecord(q)
  PROVE  EventInv'
<1>1. RTypeOK /\ Stages
  BY DEF RInv
<1>2. PICK s : s = req[q].id
  OBVIOUS
<1>3. pc[q] = "delete" /\ req[q] # NoRequest /\ ~InLoop(q, s)
  BY <1>1 DEF DeleteRecord, Stages, InLoop
<1>4. s \in Records
  BY <1>1, <1>2, <1>3, RequestFields
<1>5. /\ rows' = [rows EXCEPT ![s] = Absent]
      /\ raced' = raced \cup Overlapped(q) /\ broken' = broken
      /\ Answer(q, "done")
  BY <1>2 DEF DeleteRecord
<1>6. lastEvent'[s].kind = "deleted" /\ \A r \in Records \ {s} : lastEvent'[r] = lastEvent[r]
  BY <1>1, <1>2, <1>4 DEF DeleteRecord, Emit, RTypeOK
<1>7. rows'[s] = Absent /\ Absent # Unborn /\ \A r \in Records \ {s} : rows'[r] = rows[r]
  BY <1>1, <1>4, <1>5, MarksAssumption DEF RTypeOK
<1>8. StepOf(q) /\ pc'[q] = "done"
  BY <1>1, <1>5 DEF Answer, StepOf, RTypeOK
<1>9. ~Working(q, s)' /\ ~InLoop(q, s)'
  BY <1>8 DEF Working, InLoop
<1>10. Tells(s)'
  BY <1>6, <1>7 DEF Tells
<1>11. s \notin raced' => \A p \in Requests \ {q} : ~Working(p, s)
  BY <1>2, <1>5, NotRacedIsAlone
<1>. QED
  BY <1>2, <1>3, <1>4, <1>5, <1>6, <1>7, <1>8, <1>9, <1>10, <1>11, WriteEvents

\* What the statement that rejects has written, if it has written: the row of
\* its record, with data before it or gone after it.
LEMMA WrittenRow ==
  ASSUME RInv, NEW q \in Requests, pc[q] \in {"find", "write", "reread", "delete"},
         rows' = Written(q), rows' # rows
  PROVE  /\ pc[q] \in {"write", "delete"} /\ req[q].id \in Records
         /\ \A r \in Records \ {req[q].id} : rows'[r] = rows[r]
         /\ \/ rows'[req[q].id] \in Data /\ rows[req[q].id] # Absent
            \/ rows'[req[q].id] = Absent /\ pc[q] = "delete"
<1>1. RTypeOK /\ Stages /\ BirthIsUnique
  BY DEF RInv
<1>2. /\ req[q].id \in Records /\ req[q].body \in [Fields -> Values \cup {Unsent}]
      /\ req[q].kind \in Kinds
  BY <1>1, RequestFields DEF Stages
<1>3. CASE pc[q] = "write" /\ req[q].kind # "update"
  <2>1. rows' = [rows EXCEPT ![req[q].id] = AsData(req[q].body)]
    BY <1>3 DEF Written
  <2>2. ToBeBorn(q)
    BY <1>1, <1>2, <1>3 DEF ToBeBorn, Kinds, Stages
  <2>3. rows[req[q].id] = Unborn
    BY <1>1, <2>2 DEF BirthIsUnique
  <2>. QED
    BY <1>1, <1>2, <1>3, <2>1, <2>3, AsDataType, MarksAssumption DEF RTypeOK
<1>4. CASE pc[q] = "write" /\ req[q].kind = "update"
  <2>1. /\ Exists(req[q].id)
        /\ rows' = [rows EXCEPT ![req[q].id] = Merged(rows[req[q].id], req[q].body)]
    BY <1>4 DEF Written
  <2>2. Merged(rows[req[q].id], req[q].body) \in Data /\ rows[req[q].id] # Absent
    BY <1>1, <1>2, <2>1, RowType, MergedType DEF Exists
  <2>. QED
    BY <1>1, <1>2, <1>4, <2>1, <2>2 DEF RTypeOK
<1>5. CASE pc[q] # "write"
  <2>1. pc[q] = "delete" /\ rows' = [rows EXCEPT ![req[q].id] = Absent]
    BY <1>5 DEF Written
  <2>. QED
    BY <1>1, <1>2, <2>1 DEF RTypeOK
<1>. QED
  BY <1>3, <1>4, <1>5

LEMMA RequestRejectedEvents ==
  ASSUME RInv, RInv', EventInv, NEW q \in Requests, RequestRejected(q)
  PROVE  EventInv'
<1>1. RTypeOK /\ Stages /\ BirthIsUnique
  BY DEF RInv
<1>2. PICK s : s = req[q].id
  OBVIOUS
<1>3. pc[q] \in {"find", "write", "reread", "delete"} /\ s \in Records
  BY <1>1, <1>2, RequestFields DEF RequestRejected, Stages
<1>4. lastEvent' = lastEvent /\ Answer(q, "rejected") /\ raced \subseteq raced'
  BY DEF RequestRejected
<1>5. StepOf(q) /\ pc'[q] = "rejected"
  BY <1>1, <1>4, AnswerStep DEF StepOf
<1>6. \A r : ~Working(q, r)' /\ ~InLoop(q, r)' /\ (InLoop(q, r) => pc[q] = "reread" /\ r = s)
  BY <1>2, <1>3, <1>5 DEF InLoop, Working
<1>7. CASE UNCHANGED <<rows, raced>> /\ broken' = IF pc[q] = "reread" THEN broken \cup {s} ELSE broken
  BY <1>4, <1>5, <1>6, <1>7, QuietEvents
<1>8. CASE rows' = Written(q) /\ rows' # rows /\ raced' = raced \cup Overlapped(q)
           /\ broken' = broken \cup {s}
  <2>1. /\ pc[q] \in {"write", "delete"}
        /\ \A r \in Records \ {s} : rows'[r] = rows[r]
        /\ \/ rows'[s] \in Data /\ rows[s] # Absent
           \/ rows'[s] = Absent
    BY <1>2, <1>3, <1>8, WrittenRow
  <2>2. rows'[s] # Unborn
    BY <2>1, MarksAssumption
  <2>3. lastEvent'[s].kind = "deleted" => rows'[s] = Absent
    BY <1>3, <1>4, <2>1 DEF EventInv, EventsFollowRows
  <2>4. s \notin raced' => \A p \in Requests \ {q} : ~Working(p, s)
    BY <1>2, <1>8, NotRacedIsAlone
  <2>5. ~InLoop(q, s)
    BY <1>6, <2>1
  <2>. QED
    BY <1>2, <1>3, <1>4, <1>5, <1>6, <1>8, <2>1, <2>2, <2>3, <2>4, <2>5, WriteEvents
<1>. QED
  BY <1>2, <1>7, <1>8 DEF RequestRejected

\* A request comes, for a record that is not born yet or for one that is.
LEMMA ReceiveEvents ==
  ASSUME RInv, RInv', EventInv, NEW q \in Requests, Receives(q)
  PROVE  EventInv'
<1>1. RTypeOK /\ Stages
  BY DEF RInv
<1>2. \E r, kind, body, first : first \in {"validate", "find"} /\ Receive(q, r, kind, body, first)
  <2>1. CASE ReceiveCreate(q)
    BY <2>1, Zenon DEF ReceiveCreate
  <2>2. CASE ReceiveUpdate(q)
    BY <2>2, Zenon DEF ReceiveUpdate
  <2>3. CASE ReceiveDelete(q)
    BY <2>3, Zenon DEF ReceiveDelete
  <2>. QED
    BY <2>1, <2>2, <2>3 DEF Receives
<1>2a. PICK r, kind, body, first : first \in {"validate", "find"} /\ Receive(q, r, kind, body, first)
  BY <1>2
<1>3. /\ UNCHANGED <<rows, seen, lastEvent, raced, broken>>
      /\ pc[q] = "new" /\ pc' = [pc EXCEPT ![q] = first]
      /\ req' = [req EXCEPT ![q] = [kind |-> kind, id |-> r, body |-> body]]
  BY <1>2a DEF Receive, history
<1>4. req[q] = NoRequest /\ \A p \in Requests \ {q} : req'[p] = req[p] /\ pc'[p] = pc[p]
  BY <1>1, <1>3 DEF Stages, RTypeOK
<1>5. \A p \in Requests, s \in Records :
        (InLoop(p, s)' <=> InLoop(p, s)) /\ (Working(p, s)' <=> Working(p, s))
  BY <1>1, <1>2a, <1>3, <1>4 DEF InLoop, Working, RTypeOK
<1>6. \A s \in Records : BulkInserted(s) => BulkInserted(s)'
  BY <1>4 DEF BulkInserted, NoRequest
<1>7. EventsFollowRows' /\ WorkedOnExists'
  BY <1>3, <1>5 DEF EventInv, EventsFollowRows, WorkedOnExists, Exists
<1>8. WriterSaw'
  <2>1. \A p \in Requests, s \in Records : InLoop(p, s) => p # q
    BY <1>3 DEF InLoop
  <2>. QED
    BY <1>3, <1>4, <1>5, <2>1 DEF EventInv, WriterSaw
<1>9. EventTells'
  BY <1>3, <1>5, <1>6 DEF EventInv, EventTells, Tells
<1>. QED
  BY <1>7, <1>8, <1>9 DEF EventInv

LEMMA CrashEvents ==
  ASSUME RInv, RInv', EventInv, RCrash
  PROVE  EventInv'
<1>1. UNCHANGED <<rows, req, lastEvent, raced>>
  BY DEF RCrash
<1>2. broken' = broken \cup {r \in Records : \E q \in Requests : Working(q, r)}
  BY DEF RCrash
<1>3. \A q \in Requests : pc'[q] \in {"new", "done", "rejected", "lost"}
  BY DEF RCrash
<1>4. \A q \in Requests, r \in Records : ~InLoop(q, r)' /\ ~Working(q, r)'
  BY <1>3 DEF InLoop, Working
<1>5. EventsFollowRows' /\ WorkedOnExists' /\ WriterSaw'
  BY <1>1, <1>4 DEF EventInv, EventsFollowRows, WorkedOnExists, WriterSaw
<1>6. \A r \in Records \ broken' : \A q \in Requests : ~InLoop(q, r)
  BY <1>2 DEF InLoop, Working
<1>7. broken \subseteq broken'
  BY <1>2
<1>8. EventTells'
  BY <1>1, <1>6, <1>7 DEF EventInv, EventTells, Tells, BulkInserted
<1>. QED
  BY <1>5, <1>8 DEF EventInv

LEMMA InitEvents == RInit => EventInv
<1>. SUFFICES ASSUME RInit PROVE EventInv
  OBVIOUS
<1>1. [f \in Fields |-> None] \in Data
  BY DEF Data, Values
<1>2. \A r \in Records : /\ lastEvent[r].kind = "none"
                         /\ rows[r] # Absent /\ (rows[r] = Unborn <=> r \notin Existing)
  BY <1>1, MarksAssumption DEF RInit, NoEvent
<1>3. \A q \in Requests, r \in Records : ~InLoop(q, r) /\ ~Working(q, r)
  BY DEF RInit, InLoop, Working
<1>. QED
  BY <1>2, <1>3 DEF EventInv, EventsFollowRows, WorkedOnExists, WriterSaw, EventTells, Tells

LEMMA NextEvents ==
  ASSUME RInv, RInv', EventInv, [RNext]_rvars
  PROVE  EventInv'
<1>1. ASSUME NEW q \in Requests, Receives(q) PROVE EventInv'
  BY <1>1, ReceiveEvents
<1>2. ASSUME NEW q \in Requests, Serve(q) PROVE EventInv'
  <2>1. ASSUME LoopStep(q) PROVE EventInv'
    BY <2>1, LoopStepTurns, TurnEvents
  <2>. QED
    BY <1>2, <2>1, OutsideEvents, InsertEvents, MergeEvents, DeleteEvents, RequestRejectedEvents
    DEF Serve, LoopStep
<1>3. ASSUME UNCHANGED <<rows, req, pc, seen, lastEvent, raced, broken>> PROVE EventInv'
  BY <1>3 DEF EventInv, EventsFollowRows, WorkedOnExists, WriterSaw, EventTells, Tells,
              Exists, Working, InLoop, BulkInserted
<1>4. ASSUME NEW u \in Users, RemoveUser(u) PROVE EventInv'
  BY <1>3, <1>4 DEF RemoveUser, request, history
<1>5. CASE RCrash
  BY <1>5, CrashEvents
<1>6. CASE UNCHANGED rvars
  BY <1>3, <1>6 DEF rvars, request, history
<1>. QED
  BY <1>1, <1>2, <1>4, <1>5, <1>6 DEF RNext

LEMMA EventInvariant == RSpec => [](RInv /\ EventInv)
<1>1. RInit => RInv /\ EventInv
  BY InitRInv, InitEvents
<1>2. RInv /\ EventInv /\ [RNext]_rvars => (RInv /\ EventInv)'
  BY NextRInv, NextEvents
<1>. QED
  BY <1>1, <1>2, PTL DEF RSpec

\* Once no request works on a record, its last event tells what its row holds:
\* the data of a row that exists, the deletion of one that is gone, and no event
\* for a row that nobody has written.
THEOREM LastEventsAreRows == RSpec => []LastEventIsRow
<1>1. RInv /\ EventInv => LastEventIsRow
  <2>1. \A q \in Requests, r \in Records : InLoop(q, r) => Working(q, r)
    BY DEF InLoop, Working
  <2>. QED
    BY <2>1 DEF EventInv, EventTells, Tells, LastEventIsRow, AtRest
<1>. QED
  BY <1>1, EventInvariant, PTL

\* Only a writer in its loop and a deletion emit; alone, both find the record.
LEMMA EmittersFind ==
  ASSUME RInv, RInv', EventInv, [RNext]_rvars,
         NEW r \in Records \ raced', lastEvent'[r] # lastEvent[r]
  PROVE  /\ Exists(r)
         /\ lastEvent'[r].kind = "created" => lastEvent[r].kind = "none"
<1>0. RTypeOK /\ Stages
  BY DEF RInv
<1>1. PICK q \in Requests : LoopStep(q) \/ DeleteRecord(q)
  <2>1. \A q \in Requests : Receives(q) => lastEvent' = lastEvent
    BY DEF Receives, ReceiveCreate, ReceiveUpdate, ReceiveDelete, Receive, history
  <2>2. \A q \in Requests : ValidateRecordData(q) \/ InsertRecord(q) \/ BulkInsert(q)
           \/ MergeRecord(q) \/ RereadRecord(q) \/ FindToDelete(q) \/ RequestRejected(q)
           => lastEvent' = lastEvent
    BY DEF ValidateRecordData, InsertRecord, BulkInsert, MergeRecord, RereadRecord,
           FindToDelete, RequestRejected, history
  <2>3. (\E u \in Users : RemoveUser(u)) \/ RCrash \/ UNCHANGED rvars => lastEvent' = lastEvent
    BY DEF RemoveUser, RCrash, rvars, history
  <2>. QED
    BY <2>1, <2>2, <2>3 DEF RNext, Serve, LoopStep
<1>2. CASE LoopStep(q)
  <2>1. /\ pc[q] \in {"workspace", "clear", "lookup", "link"} /\ Turns(q)
        /\ raced' = raced
    BY <1>2, LoopStepTurns
  <2>2. req[q].id \in Records
    BY <1>0, <2>1, RequestFields DEF Stages
  <2>3. PICK kind, data : /\ Emit(q, kind, data)
                          /\ kind = "created" => req[q].kind = "create"
    BY <2>1 DEF Turns, Continue, Complete
  <2>4. /\ r = req[q].id
        /\ lastEvent'[r].kind = "created" => req[q].kind = "create"
    BY <1>0, <2>2, <2>3 DEF Emit, RTypeOK
  <2>5. InLoop(q, r) /\ Working(q, r) /\ r \notin raced
    BY <2>1, <2>4 DEF InLoop, Working
  <2>. QED
    BY <2>4, <2>5 DEF EventInv, WorkedOnExists, WriterSaw
<1>3. CASE DeleteRecord(q)
  <2>1. pc[q] = "delete" /\ req[q].id \in Records /\ raced \subseteq raced'
    BY <1>0, <1>3, RequestFields DEF DeleteRecord, Stages
  <2>2. r = req[q].id /\ lastEvent'[r].kind = "deleted"
    BY <1>0, <1>3, <2>1 DEF DeleteRecord, Emit, RTypeOK
  <2>3. Working(q, r) /\ r \notin raced
    BY <2>1, <2>2 DEF Working
  <2>. QED
    BY <2>2, <2>3 DEF EventInv, WorkedOnExists
<1>. QED
  BY <1>1, <1>2, <1>3

\* The events of a record come in the order of its life, unless two requests
\* wrote it at the same time: "created" before any other, none after "deleted".
THEOREM EventsInOrder == RSpec => EventOrder
<1>1. RInv /\ EventInv /\ RInv' /\ [RNext]_rvars =>
        [\A r \in Records : r \notin raced' /\ lastEvent'[r] # lastEvent[r] =>
           /\ lastEvent[r].kind # "deleted"
           /\ lastEvent'[r].kind = "created" => lastEvent[r].kind = "none"]_rvars
  BY EmittersFind DEF EventInv, EventsFollowRows, Exists
<1>. QED
  BY <1>1, EventInvariant, PTL DEF RSpec, EventOrder

-----------------------------------------------------------------------------
(* The two tables.                                                          *)

Linked(r, f, v) == \E x \in relations : x.owner = r /\ x.field = f /\ x.link = v

\* The relation rows of a field show what the data has, if it is found.
AgreesOn(r, f) == \A v \in Links : Linked(r, f, v) <=> Found(f, v) /\ rows[r][f] = v

\* The fields that a request in its loop has left.
Pending(q) ==
  IF pc[q] \in {"reread", "workspace"} THEN LoopFields(req[q].kind, req[q].body) ELSE todo[q]

\* Nothing refers to a record that is not born yet.
BodiesKnown ==
  /\ \A r \in Records, f \in Fields :
       Exists(r) /\ rows[r][f] \in Records => rows[rows[r][f]] # Unborn
  /\ \A q \in Requests : pc[q] # "new" => Sendable(req[q].body)

\* The cascades of the tables: what a relation row points to exists.
TargetsFound == \A x \in relations : x.link # None => Found(x.field, x.link)

\* What the one writer has sent stands in the row until its loop is over.
WritesStand ==
  \A r \in Records \ raced, q \in Requests : InLoop(q, r) =>
    /\ \A f \in Fields : req[q].body[f] # Unsent => rows[r][f] = req[q].body[f]
    /\ pc[q] \in {"clear", "lookup", "link"} => todo[q] \subseteq LoopFields(req[q].kind, req[q].body)

NotPending(r, f) == \A q \in Requests : InLoop(q, r) => f \notin Pending(q)

FieldsAgree ==
  \A r \in Records \ (raced \cup broken), f \in Fields :
    Exists(r) /\ ~BulkInserted(r) /\ NotPending(r, f) => AgreesOn(r, f)

ReadInv == BodiesKnown /\ TargetsFound /\ WritesStand /\ FieldsAgree

\* A step of q that writes no row: only fields that it has left change, and
\* one that it leaves no longer agrees.
LEMMA LoopReads ==
  ASSUME RInv, RInv', ReadInv, NEW q \in Requests, StepOf(q), pc[q] # "new",
         UNCHANGED <<rows, users, raced>>, broken \subseteq broken',
         \A r \in Records : InLoop(q, r)' => InLoop(q, r),
         pc'[q] \in {"clear", "lookup", "link"} /\ req[q].id \notin raced =>
           todo'[q] \subseteq LoopFields(req[q].kind, req[q].body),
         \A x \in relations' : x \in relations \/ x.link = None \/ Found(x.field, x.link),
         \A r \in Records \ raced, f \in Fields :
           \/ InLoop(q, r) /\ f \in Pending(q)
           \/ \A v : Linked(r, f, v)' <=> Linked(r, f, v),
         \A r \in Records \ (raced \cup broken'), f \in Fields :
           InLoop(q, r) /\ f \in Pending(q) =>
             \/ InLoop(q, r)' /\ f \in Pending(q)'
             \/ AgreesOn(r, f)'
  PROVE  ReadInv'
<1>1. \A p \in Requests \ {q} : Pending(p)' = Pending(p)
  BY DEF Pending, StepOf
<1>2. \A p \in Requests \ {q}, r \in Records : InLoop(p, r)' <=> InLoop(p, r)
  BY DEF StepOf, InLoop
<1>3. \A f, v : Found(f, v)' <=> Found(f, v)
  BY DEF Found, Exists
<1>4. \A r \in Records : (BulkInserted(r)' <=> BulkInserted(r)) /\ (Exists(r)' <=> Exists(r))
  BY DEF BulkInserted, StepOf, Exists
<1>5. BodiesKnown'
  BY <1>4 DEF ReadInv, BodiesKnown, StepOf, Sendable
<1>6. TargetsFound'
  BY <1>3 DEF ReadInv, TargetsFound
<1>7. WritesStand'
  <2>1. \A r \in Records : InLoop(q, r)' => InLoop(q, r) /\ r = req[q].id
    BY DEF InLoop
  <2>. QED
    BY <1>2, <2>1 DEF ReadInv, WritesStand, StepOf
<1>8. FieldsAgree'
  <2>1. SUFFICES ASSUME NEW r \in Records \ (raced' \cup broken'), NEW f \in Fields,
                        Exists(r)', ~BulkInserted(r)', NotPending(r, f)'
                 PROVE  AgreesOn(r, f)'
    BY DEF FieldsAgree
  <2>2. CASE InLoop(q, r) /\ f \in Pending(q)
    BY <2>1, <2>2 DEF NotPending
  <2>3. CASE ~(InLoop(q, r) /\ f \in Pending(q))
    <3>1. NotPending(r, f)
      BY <1>1, <1>2, <2>1, <2>3 DEF NotPending
    <3>2. AgreesOn(r, f)
      BY <1>4, <2>1, <3>1 DEF ReadInv, FieldsAgree
    <3>3. \A v : Linked(r, f, v)' <=> Linked(r, f, v)
      BY <2>3
    <3>. QED
      BY <1>3, <3>2, <3>3 DEF AgreesOn
  <2>. QED
    BY <2>2, <2>3
<1>. QED
  BY <1>5, <1>6, <1>7, <1>8 DEF ReadInv

\* A step outside the loop that writes nothing.
LEMMA OutsideReads ==
  ASSUME RInv, RInv', ReadInv, NEW q \in Requests, StepOf(q), pc[q] # "new",
         UNCHANGED <<rows, users, relations, raced>>, broken \subseteq broken',
         \A r \in Records : ~InLoop(q, r)',
         \A r \in Records : InLoop(q, r) => r \in broken'
  PROVE  ReadInv'
<1>1. \A r, f, v : Linked(r, f, v)' <=> Linked(r, f, v)
  BY DEF Linked
<1>2. req[q].id \in Records
  BY RequestFields DEF RInv, Stages
<1>3. pc'[q] \notin {"clear", "lookup", "link"}
  BY <1>2 DEF StepOf, InLoop
<1>. QED
  BY <1>1, <1>3, LoopReads

\* The end of one turn: the rows of its field are what they should be.
LEMMA TurnReads ==
  ASSUME RInv, RInv', ReadInv, NEW q \in Requests, StepOf(q),
         pc[q] \in {"clear", "lookup", "link"},
         UNCHANGED <<rows, users, raced>>, broken \subseteq broken',
         NEW CONSTANT s, s = req[q].id, NEW CONSTANT f, f = Turn(q),
         \A x : x.owner # s \/ x.field # f => (x \in relations' <=> x \in relations),
         \A x \in relations' : x \in relations \/ Found(x.field, x.link),
         \/ pc'[q] \in {"lookup", "link"} /\ todo'[q] = todo[q]
         \/ /\ s \in raced \cup broken' \/ AgreesOn(s, f)'
            /\ \/ pc'[q] \in {"clear", "lookup"} /\ todo'[q] = Others(q)
               \/ pc'[q] = "done" /\ (Others(q) = {} \/ s \in broken')
  PROVE  ReadInv'
<1>1. RTypeOK /\ Stages
  BY DEF RInv
<1>2. f \in todo[q] /\ f \in Fields /\ s \in Records /\ InLoop(q, s)
  BY <1>1, TurnIsLeft, RequestFields DEF Stages, InLoop
<1>3. Pending(q) = todo[q] /\ (pc'[q] # "done" => Pending(q)' = todo'[q])
  BY DEF Pending
<1>4. \A r \in Records : /\ InLoop(q, r) <=> r = s
                         /\ InLoop(q, r)' <=> r = s /\ pc'[q] # "done"
  BY <1>2 DEF InLoop, StepOf
<1>5. s \notin raced => todo[q] \subseteq LoopFields(req[q].kind, req[q].body)
  BY <1>2 DEF ReadInv, WritesStand
<1>6. \A r \in Records, g \in Fields :
        (r = s /\ g = f) \/ \A v : Linked(r, g, v)' <=> Linked(r, g, v)
  BY DEF Linked
<1>7. Others(q) = todo[q] \ {f}
  BY DEF Others
<1>8. pc'[q] \in {"clear", "lookup", "link"} /\ s \notin raced =>
        todo'[q] \subseteq LoopFields(req[q].kind, req[q].body)
  BY <1>5, <1>7
<1>9. \A g \in todo[q] : s \in raced \cup broken' \/ AgreesOn(s, g)'
                         \/ (pc'[q] # "done" /\ g \in todo'[q])
  BY <1>7 DEF AgreesOn, Linked, Found, Exists
<1>10. \A r \in Records \ (raced \cup broken'), g \in Fields :
        InLoop(q, r) /\ g \in Pending(q) =>
          \/ InLoop(q, r)' /\ g \in Pending(q)'
          \/ AgreesOn(r, g)'
  <2>1. ASSUME NEW r \in Records \ (raced \cup broken'), NEW g \in Fields,
               InLoop(q, r), g \in Pending(q)
        PROVE  \/ InLoop(q, r)' /\ g \in Pending(q)'
               \/ AgreesOn(r, g)'
    <3>1. r = s /\ g \in todo[q] /\ s \notin raced \cup broken'
      <4>1. r = s
        BY <2>1 DEF InLoop
      <4>2. g \in todo[q]
        BY <1>3, <2>1
      <4>. QED
        BY <4>1, <4>2, <2>1
    <3>2. AgreesOn(s, g)' => AgreesOn(r, g)'
      BY <3>1 DEF AgreesOn, Linked, Found, Exists
    <3>3. pc'[q] # "done" => InLoop(q, r)' /\ Pending(q)' = todo'[q]
      BY <1>3, <1>4, <3>1
    <3>. QED
      BY <1>9, <3>1, <3>2, <3>3
  <2>. QED
    BY <2>1
<1>. QED
  BY <1>2, <1>3, <1>4, <1>6, <1>8, <1>10, LoopReads

\* The value of the turn stands in the row of the one writer.
LEMMA TurnStands ==
  ASSUME RInv, ReadInv, NEW q \in Requests, pc[q] \in {"clear", "lookup", "link"},
         req[q].id \notin raced
  PROVE  rows[req[q].id][Turn(q)] = Value(q)
<1>1. RTypeOK /\ Stages
  BY DEF RInv
<1>2. req[q].id \in Records /\ InLoop(q, req[q].id) /\ Turn(q) \in todo[q] /\ Turn(q) \in Fields
  BY <1>1, TurnIsLeft, RequestFields DEF Stages, InLoop
<1>3. Turn(q) \in LoopFields(req[q].kind, req[q].body)
  BY <1>2 DEF ReadInv, WritesStand
<1>. QED
  BY <1>2, <1>3 DEF ReadInv, WritesStand, LoopFields, Value

\* What a turn does to its request when the loop goes on, and when it is left.
LEMMA TurnGoesOn ==
  ASSUME RInv, NEW q \in Requests, pc[q] \in {"clear", "lookup", "link"},
         Continue(q, Others(q), seen[q]), UNCHANGED raced
  PROVE  /\ StepOf(q)
         /\ \/ pc'[q] \in {"clear", "lookup"} /\ todo'[q] = Others(q)
            \/ pc'[q] = "done" /\ Others(q) = {}
<1>1. RTypeOK /\ req[q] # NoRequest /\ seen[q] \in Data \cup {Absent} /\ Others(q) \in SUBSET Fields
  BY DEF RInv, Stages, RTypeOK, Others
<1>. QED
  BY <1>1, ContinueStep DEF StepOf

LEMMA LoopIsLeft ==
  ASSUME RInv, NEW q \in Requests, pc[q] \in {"workspace", "clear", "lookup", "link"},
         NEW CONSTANT left_, AbandonLoop(q, left_), UNCHANGED raced
  PROVE  /\ StepOf(q) /\ pc'[q] = "done" /\ broken \subseteq broken'
         /\ left_ = {} \/ req[q].id \in broken'
<1>1. RTypeOK /\ req[q] # NoRequest /\ seen[q] \in Data \cup {Absent}
  BY DEF RInv, Stages, RTypeOK
<1>2. Complete(q, seen[q])
  BY DEF AbandonLoop
<1>. QED
  BY <1>1, <1>2, CompleteStep DEF StepOf, AbandonLoop

LEMMA ReadRelationFieldsReads ==
  ASSUME RInv, RInv', ReadInv, NEW q \in Requests, ReadRelationFields(q)
  PROVE  ReadInv'
<1>. DEFINE rest == LoopFields(req[q].kind, req[q].body)
<1>1. /\ RTypeOK /\ req[q] # NoRequest /\ seen[q] \in Data \cup {Absent}
      /\ rest \in SUBSET Fields
  BY DEF RInv, Stages, RTypeOK, LoopFields, ReadRelationFields
<1>2. /\ pc[q] = "workspace" /\ Continue(q, rest, seen[q])
      /\ UNCHANGED <<rows, users, relations, raced, broken>>
  BY DEF ReadRelationFields
<1>3. /\ StepOf(q)
      /\ \/ rest = {} /\ pc'[q] = "done"
         \/ pc'[q] \in {"clear", "lookup"} /\ todo'[q] = rest
  BY <1>1, <1>2, ContinueStep DEF StepOf
<1>4. Pending(q) = rest /\ (pc'[q] # "done" => Pending(q)' = rest)
  BY <1>2, <1>3 DEF Pending
<1>5. \A r \in Records : /\ InLoop(q, r)' => InLoop(q, r)
                         /\ InLoop(q, r) /\ pc'[q] # "done" => InLoop(q, r)'
  BY <1>2, <1>3 DEF InLoop, StepOf
<1>6. \A r, f, v : Linked(r, f, v)' <=> Linked(r, f, v)
  BY <1>2 DEF Linked
<1>7. \A r \in Records, f \in Fields :
        InLoop(q, r) /\ f \in Pending(q) => InLoop(q, r)' /\ f \in Pending(q)'
  BY <1>3, <1>4, <1>5
<1>8. pc'[q] \in {"clear", "lookup", "link"} => todo'[q] \subseteq LoopFields(req[q].kind, req[q].body)
  BY <1>3
<1>9. \A r \in Records : InLoop(q, r)' => InLoop(q, r)
  BY <1>5
<1>10. pc[q] # "new" /\ broken \subseteq broken'
  BY <1>2
<1>. HIDE DEF rest
<1>. QED
  BY <1>2, <1>3, <1>6, <1>7, <1>8, <1>9, <1>10, LoopReads

LEMMA ClearRelationsReads ==
  ASSUME RInv, RInv', ReadInv, NEW q \in Requests, ClearRelations(q)
  PROVE  ReadInv'
<1>1. PICK s, f : s = req[q].id /\ f = Turn(q)
  OBVIOUS
<1>2. /\ pc[q] = "clear" /\ UNCHANGED <<rows, users, raced, broken>>
      /\ relations' = relations \ OfField(s, f)
  BY <1>1 DEF ClearRelations
<1>3. /\ \A x : x.owner # s \/ x.field # f => (x \in relations' <=> x \in relations)
      /\ \A x \in relations' : x \in relations \/ Found(x.field, x.link)
  BY <1>2 DEF OfField
<1>4. CASE Value(q) = None
  <2>1. /\ StepOf(q)
        /\ \/ pc'[q] \in {"clear", "lookup"} /\ todo'[q] = Others(q)
           \/ pc'[q] = "done" /\ Others(q) = {}
    BY <1>2, <1>4, TurnGoesOn DEF ClearRelations
  <2>2. s \notin raced => rows'[s][f] = None
    BY <1>1, <1>2, <1>4, TurnStands
  <2>3. \A v : ~Linked(s, f, v)'
    BY <1>2 DEF Linked, OfField
  <2>4. s \in raced \/ AgreesOn(s, f)'
    BY <2>2, <2>3, MarksAssumption DEF AgreesOn
  <2>. QED
    BY <1>1, <1>2, <1>3, <2>1, <2>4, TurnReads
<1>5. CASE Value(q) # None
  <2>1. StepOf(q) /\ pc'[q] = "lookup" /\ todo'[q] = todo[q]
    BY <1>2, <1>5 DEF ClearRelations, RInv, RTypeOK, StepOf
  <2>. QED
    BY <1>1, <1>2, <1>3, <2>1, TurnReads
<1>. QED
  BY <1>4, <1>5

LEMMA LookUpTargetReads ==
  ASSUME RInv, RInv', ReadInv, NEW q \in Requests, LookUpTarget(q)
  PROVE  ReadInv'
<1>1. PICK s, f : s = req[q].id /\ f = Turn(q)
  OBVIOUS
<1>2. pc[q] = "lookup" /\ UNCHANGED <<rows, users, relations, raced>>
  BY DEF LookUpTarget
<1>3. s \in Records /\ InLoop(q, s)
  BY <1>1, <1>2, RequestFields DEF RInv, Stages, InLoop
<1>4. s \notin raced => rows'[s][f] = Value(q) /\ OfField(s, f) = {}
  BY <1>1, <1>2, <1>3, TurnStands DEF RInv, NothingToReplace
<1>5. s \notin raced => \A v : ~Linked(s, f, v)'
  BY <1>2, <1>4 DEF Linked, OfField
<1>6. \A v : Found(f, v)' <=> Found(f, v)
  BY <1>2 DEF Found, Exists
<1>7. CASE Value(q) = Bad
  <2>1. StepOf(q) /\ pc'[q] = "done" /\ broken \subseteq broken' /\ (Others(q) = {} \/ s \in broken')
    BY <1>1, <1>2, <1>7, LoopIsLeft DEF LookUpTarget
  <2>2. s \in raced \/ AgreesOn(s, f)'
    BY <1>4, <1>5, <1>7, MarksAssumption DEF AgreesOn
  <2>. QED
    BY <1>1, <1>2, <2>1, <2>2, TurnReads
<1>8. CASE Value(q) # Bad /\ Found(f, Value(q))
  <2>1. StepOf(q) /\ pc'[q] = "link" /\ todo'[q] = todo[q] /\ broken' = broken
    BY <1>1, <1>2, <1>8 DEF LookUpTarget, RInv, RTypeOK, StepOf
  <2>. QED
    BY <1>1, <1>2, <2>1, TurnReads
<1>9. CASE Value(q) # Bad /\ ~Found(f, Value(q))
  <2>1. Continue(q, Others(q), seen[q]) /\ broken' = broken
    BY <1>1, <1>9 DEF LookUpTarget
  <2>2. /\ StepOf(q)
        /\ \/ pc'[q] \in {"clear", "lookup"} /\ todo'[q] = Others(q)
           \/ pc'[q] = "done" /\ Others(q) = {}
    BY <1>2, <2>1, TurnGoesOn
  <2>3. s \in raced \/ AgreesOn(s, f)'
    BY <1>4, <1>5, <1>6, <1>9 DEF AgreesOn
  <2>. QED
    BY <1>1, <1>2, <2>1, <2>2, <2>3, TurnReads
<1>. QED
  BY <1>7, <1>8, <1>9

LEMMA LinkTargetReads ==
  ASSUME RInv, RInv', EventInv, ReadInv, NEW q \in Requests, LinkTarget(q)
  PROVE  ReadInv'
<1>1. PICK s, f : s = req[q].id /\ f = Turn(q)
  OBVIOUS
<1>2. pc[q] = "link" /\ UNCHANGED <<rows, users, raced>>
  BY DEF LinkTarget
<1>3. s \in Records /\ InLoop(q, s) /\ Working(q, s)
  BY <1>1, <1>2, RequestFields DEF RInv, Stages, InLoop, Working
<1>4. s \notin raced => rows'[s][f] = Value(q) /\ OfField(s, f) = {}
  BY <1>1, <1>2, <1>3, TurnStands DEF RInv, NothingToReplace
<1>5. \A v : Found(f, v)' <=> Found(f, v)
  BY <1>2 DEF Found, Exists
<1>6. CASE Exists(s) /\ Found(f, Value(q))
  <2>1. PICK x : x = [by |-> q, owner |-> s, field |-> f, link |-> Value(q)]
    OBVIOUS
  <2>2. /\ relations' = relations \cup {x}
        /\ Continue(q, Others(q), seen[q]) /\ broken' = broken
    BY <1>1, <1>6, <2>1 DEF LinkTarget
  <2>3. /\ StepOf(q)
        /\ \/ pc'[q] \in {"clear", "lookup"} /\ todo'[q] = Others(q)
           \/ pc'[q] = "done" /\ Others(q) = {}
    BY <1>2, <2>2, TurnGoesOn
  <2>4. s \notin raced => \A v : Linked(s, f, v)' <=> v = Value(q)
    BY <1>4, <2>1, <2>2 DEF Linked, OfField
  <2>5. s \in raced \/ AgreesOn(s, f)'
    BY <1>4, <1>5, <1>6, <2>4 DEF AgreesOn
  <2>6. /\ \A y : y.owner # s \/ y.field # f => (y \in relations' <=> y \in relations)
        /\ \A y \in relations' : y \in relations \/ Found(y.field, y.link)
    BY <1>6, <2>1, <2>2
  <2>. QED
    BY <1>1, <1>2, <2>2, <2>3, <2>5, <2>6, TurnReads
<1>7. CASE ~(Exists(s) /\ Found(f, Value(q)))
  <2>1. AbandonLoop(q, Others(q)) /\ relations' = relations
    BY <1>1, <1>7 DEF LinkTarget
  <2>2. StepOf(q) /\ pc'[q] = "done" /\ broken \subseteq broken' /\ (Others(q) = {} \/ s \in broken')
    BY <1>1, <1>2, <2>1, LoopIsLeft
  <2>3. s \notin raced => ~Found(f, Value(q))
    BY <1>3, <1>7 DEF EventInv, WorkedOnExists
  <2>4. s \notin raced => \A v : ~Linked(s, f, v)'
    BY <1>4, <2>1 DEF Linked, OfField
  <2>5. s \in raced \/ AgreesOn(s, f)'
    BY <1>4, <1>5, <2>3, <2>4 DEF AgreesOn
  <2>. QED
    BY <1>1, <1>2, <2>1, <2>2, <2>5, TurnReads
<1>. QED
  BY <1>6, <1>7

\* The loop is left early: its record is broken, if any field was left.
LEMMA RelationsRejectedReads ==
  ASSUME RInv, RInv', ReadInv, NEW q \in Requests, RelationsRejected(q)
  PROVE  ReadInv'
<1>1. PICK s, f, sent : s = req[q].id /\ f = Turn(q) /\ sent = LoopFields(req[q].kind, req[q].body)
  OBVIOUS
<1>2. /\ pc[q] \in {"workspace", "clear", "lookup", "link"}
      /\ AbandonLoop(q, sent)
      /\ UNCHANGED <<rows, users, raced>>
      /\ \/ relations' = relations
         \/ pc[q] = "clear" /\ relations' = relations \ OfField(s, f)
         \/ /\ pc[q] = "link" /\ Found(f, Value(q))
            /\ relations' = relations \cup
                 {[by |-> q, owner |-> s, field |-> f, link |-> Value(q)]}
  BY <1>1 DEF RelationsRejected
<1>3. StepOf(q) /\ pc'[q] = "done" /\ broken \subseteq broken' /\ (sent = {} \/ s \in broken')
  BY <1>1, <1>2, LoopIsLeft
<1>4. RTypeOK /\ Stages /\ s \in Records /\ InLoop(q, s)
  BY <1>1, <1>2, RequestFields DEF RInv, Stages, InLoop
<1>5. pc[q] \in {"clear", "link"} => f \in Pending(q)
  BY <1>1, <1>4, TurnIsLeft DEF Stages, Pending
<1>6. s \notin raced => Pending(q) \subseteq sent
  BY <1>1, <1>2, <1>4 DEF ReadInv, WritesStand, Pending
<1>7. \A r \in Records : ~InLoop(q, r)' /\ (InLoop(q, r) => r = s)
  BY <1>1, <1>3 DEF InLoop
<1>8. \A x \in relations' : x \in relations \/ x.link = None \/ Found(x.field, x.link)
  BY <1>2
<1>9. \A r \in Records, g \in Fields :
        (r = s /\ g = f /\ pc[q] \in {"clear", "link"}) \/ \A v : Linked(r, g, v)' <=> Linked(r, g, v)
  BY <1>2 DEF Linked, OfField
<1>10. \A r \in Records \ raced, g \in Fields :
         \/ InLoop(q, r) /\ g \in Pending(q)
         \/ \A v : Linked(r, g, v)' <=> Linked(r, g, v)
  BY <1>4, <1>5, <1>9
<1>11. \A r \in Records \ (raced \cup broken'), g \in Fields :
         InLoop(q, r) /\ g \in Pending(q) => FALSE
  BY <1>3, <1>6, <1>7
<1>. QED
  BY <1>2, <1>3, <1>7, <1>8, <1>10, <1>11, LoopReads

\* Steps outside the loop that write no row.
LEMMA StartReads ==
  ASSUME RInv, RInv', ReadInv, NEW q \in Requests,
         ValidateRecordData(q) \/ RereadRecord(q) \/ FindToDelete(q)
  PROVE  ReadInv'
<1>1. RTypeOK /\ Stages
  BY DEF RInv
<1>2. UNCHANGED <<rows, users, relations, raced, broken>> /\ pc[q] # "new"
  BY DEF ValidateRecordData, RereadRecord, FindToDelete, history
<1>3. StepOf(q)
  BY <1>1, <1>2 DEF ValidateRecordData, RereadRecord, FindToDelete, Answer, RTypeOK, StepOf
<1>4. CASE ValidateRecordData(q) \/ FindToDelete(q)
  <2>1. \A r : ~InLoop(q, r)' /\ ~InLoop(q, r)
    BY <1>1, <1>4 DEF ValidateRecordData, FindToDelete, Answer, RTypeOK, InLoop
  <2>. QED
    BY <1>2, <1>3, <2>1, OutsideReads
<1>5. CASE RereadRecord(q)
  <2>1. pc[q] = "reread" /\ pc'[q] = "workspace"
    BY <1>1, <1>5 DEF RereadRecord, RTypeOK
  <2>2. Pending(q)' = Pending(q)
    BY <1>3, <2>1 DEF Pending, StepOf
  <2>3. \A r : InLoop(q, r)' <=> InLoop(q, r)
    BY <1>3, <2>1 DEF InLoop, StepOf
  <2>4. \A r, f, v : Linked(r, f, v)' <=> Linked(r, f, v)
    BY <1>2 DEF Linked
  <2>. QED
    BY <1>2, <1>3, <2>1, <2>2, <2>3, <2>4, LoopReads
<1>. QED
  BY <1>4, <1>5

\* A write of the row of s by q.
LEMMA WriteReads ==
  ASSUME RInv, RInv', ReadInv, NEW q \in Requests, StepOf(q), pc[q] # "new",
         NEW CONSTANT s \in Records, s = req[q].id, ~InLoop(q, s),
         users' = users, broken \subseteq broken', rows'[s] # Unborn,
         \A r \in Records \ {s} : rows'[r] = rows[r],
         \/ /\ rows'[s] \in Data /\ rows[s] # Absent /\ relations' = relations
            /\ \A f \in Fields : rows'[s][f] \in Records => rows[rows'[s][f]] # Unborn
         \/ rows'[s] = Absent /\ relations' = Cascade(s),
         s \notin raced' => \A p \in Requests \ {q} : ~InLoop(p, s),
         s \notin raced' /\ InLoop(q, s)' =>
           /\ pc'[q] \in {"reread", "workspace"}
           /\ \A f \in Fields : req[q].body[f] # Unsent => rows'[s][f] = req[q].body[f],
         \A f \in Fields : s \notin raced' \cup broken' /\ Exists(s)' /\ ~BulkInserted(s)
           /\ (InLoop(q, s)' => f \notin Pending(q)') => AgreesOn(s, f)'
  PROVE  ReadInv'
<1>1. raced \subseteq raced' /\ req' = req
  BY DEF StepOf
<1>2. \A p \in Requests \ {q} : Pending(p)' = Pending(p)
  BY DEF Pending, StepOf
<1>3. \A p \in Requests \ {q}, r \in Records : InLoop(p, r)' <=> InLoop(p, r)
  BY DEF StepOf, InLoop
<1>4. \A r \in Records \ {s} : ~InLoop(q, r) /\ ~InLoop(q, r)'
  BY <1>1 DEF InLoop
<1>5. \A r \in Records \ {s} : Exists(r)' <=> Exists(r)
  BY DEF Exists
<1>6. \A r \in Records : BulkInserted(r)' <=> BulkInserted(r)
  BY <1>1 DEF BulkInserted
<1>7. RTypeOK /\ RTypeOK'
  BY DEF RInv
<1>8. BodiesKnown'
  <2>1. \A r \in Records : rows[r] # Unborn => rows'[r] # Unborn
    OBVIOUS
  <2>2. \A p \in Requests : Sendable(req[p].body) => Sendable(req[p].body)'
    BY <1>1, <2>1 DEF Sendable
  <2>3. \A p \in Requests : pc'[p] # "new" => Sendable(req[p].body)
    BY DEF ReadInv, BodiesKnown, StepOf
  <2>4. \A r \in Records, f \in Fields :
          Exists(r)' /\ rows'[r][f] \in Records => rows[rows'[r][f]] # Unborn
    BY <1>5 DEF ReadInv, BodiesKnown, Exists
  <2>. QED
    BY <1>1, <2>1, <2>2, <2>3, <2>4 DEF BodiesKnown
<1>9. TargetsFound'
  <2>1. \A f, v : Found(f, v) /\ (rows'[s] = Absent => v # s) => Found(f, v)'
    BY <1>5, MarksAssumption DEF Found, Exists
  <2>2. \A x \in relations' : x \in relations /\ (rows'[s] = Absent => x.link # s)
    BY MarksAssumption DEF Cascade
  <2>. QED
    BY <2>1, <2>2 DEF ReadInv, TargetsFound
<1>10. WritesStand'
  BY <1>1, <1>3, <1>4 DEF ReadInv, WritesStand, StepOf
<1>11. FieldsAgree'
  <2>1. ASSUME NEW r \in Records \ (raced' \cup broken'), r # s, NEW f \in Fields,
               Exists(r)', ~BulkInserted(r)', NotPending(r, f)'
        PROVE  AgreesOn(r, f)'
    <3>1. NotPending(r, f)
      BY <1>2, <1>3, <1>4, <2>1 DEF NotPending
    <3>2. AgreesOn(r, f) /\ Exists(r)
      BY <1>1, <1>5, <1>6, <2>1, <3>1 DEF ReadInv, FieldsAgree
    <3>3. CASE relations' = relations /\ rows'[s] \in Data /\ rows[s] # Absent
      <4>1. rows[s] = Unborn => rows[r][f] # s
        BY <3>2 DEF ReadInv, BodiesKnown
      <4>2. \A v : v # s => (Found(f, v)' <=> Found(f, v))
        BY <1>5 DEF Found
      <4>3. rows[s] # Unborn => (Found(f, s)' <=> Found(f, s))
        BY <3>3, MarksAssumption DEF Found, Exists
      <4>4. rows'[r] = rows[r] /\ \A v : Linked(r, f, v)' <=> Linked(r, f, v)
        BY <2>1, <3>3 DEF Linked
      <4>. QED
        BY <3>2, <4>1, <4>2, <4>3, <4>4 DEF AgreesOn
    <3>4. CASE rows'[s] = Absent /\ relations' = Cascade(s)
      <4>1. \A v : Linked(r, f, v)' <=> Linked(r, f, v) /\ v # s
        BY <2>1, <3>4 DEF Linked, Cascade
      <4>2. s \notin users /\ ~Exists(s)'
        BY <1>7, <3>4, RecordsAssumption DEF RTypeOK, Exists
      <4>3. \A v : Found(f, v)' <=> Found(f, v) /\ v # s
        BY <1>5, <4>2 DEF Found
      <4>4. rows'[r] = rows[r]
        BY <2>1
      <4>. QED
        BY <3>2, <4>1, <4>3, <4>4 DEF AgreesOn
    <3>. QED
      BY <3>3, <3>4
  <2>2. ASSUME NEW r \in Records \ (raced' \cup broken'), r = s, NEW f \in Fields,
               Exists(r)', ~BulkInserted(r)', NotPending(r, f)'
        PROVE  AgreesOn(r, f)'
    <3>1. Exists(s)' /\ ~BulkInserted(s) /\ s \notin raced' \cup broken'
      BY <1>6, <2>2 DEF Exists
    <3>2. InLoop(q, s)' => f \notin Pending(q)'
      BY <2>2 DEF NotPending, InLoop
    <3>3. AgreesOn(s, f)'
      BY <3>1, <3>2
    <3>. QED
      BY <2>2, <3>3 DEF AgreesOn, Linked, Found, Exists
  <2>. QED
    BY <2>1, <2>2 DEF FieldsAgree
<1>. QED
  BY <1>8, <1>9, <1>10, <1>11 DEF ReadInv

\* The data that a request writes refers to rows that were born.
LEMMA NewDataKnown ==
  ASSUME RInv, ReadInv, NEW q \in Requests, pc[q] # "new", NEW f \in Fields
  PROVE  /\ AsData(req[q].body)[f] \in Records => rows[AsData(req[q].body)[f]] # Unborn
         /\ Exists(req[q].id) /\ Merged(rows[req[q].id], req[q].body)[f] \in Records =>
              rows[Merged(rows[req[q].id], req[q].body)[f]] # Unborn
<1>1. Sendable(req[q].body)
  BY DEF ReadInv, BodiesKnown
<1>2. req[q].id \in Records /\ None \notin Records
  BY RequestFields, MarksAssumption DEF RInv, Stages, Links
<1>. QED
  BY <1>1, <1>2 DEF Sendable, AsData, Merged, ReadInv, BodiesKnown

LEMMA InsertReads ==
  ASSUME RInv, RInv', EventInv, ReadInv, NEW q \in Requests, InsertRecord(q) \/ BulkInsert(q)
  PROVE  ReadInv'
<1>1. RTypeOK /\ Stages /\ BirthIsUnique
  BY DEF RInv
<1>2. PICK s : s = req[q].id
  OBVIOUS
<1>3. pc[q] = "write" /\ req[q].kind \in {"create", "bulkInsert"} /\ req[q] # NoRequest
  BY <1>1 DEF InsertRecord, BulkInsert, Stages
<1>4. PICK data : data = AsData(req[q].body)
  OBVIOUS
<1>5. s \in Records /\ data \in Data
  BY <1>1, <1>2, <1>3, <1>4, RequestFields, AsDataType
<1>6. rows[s] = Unborn
  BY <1>1, <1>2, <1>3 DEF BirthIsUnique, ToBeBorn
<1>7. \A p \in Requests : ~InLoop(p, s)
  BY <1>5, <1>6, UnbornIsAlone
<1>8. /\ rows' = [rows EXCEPT ![s] = data]
      /\ UNCHANGED <<users, relations, req, raced, broken>>
  BY <1>2, <1>4 DEF InsertRecord, BulkInsert, Answer, history
<1>9. /\ rows'[s] = data /\ data \notin {Unborn, Absent}
      /\ \A r \in Records \ {s} : rows'[r] = rows[r]
  BY <1>1, <1>5, <1>8, MarksAssumption DEF RTypeOK
<1>10. /\ StepOf(q)
       /\ \/ pc'[q] = "workspace" /\ req[q].kind = "create"
          \/ pc'[q] = "done" /\ req[q].kind = "bulkInsert"
  BY <1>1, <1>8 DEF InsertRecord, BulkInsert, Answer, RTypeOK, StepOf
<1>11. \A f \in Fields : rows'[s][f] \in Records => rows[rows'[s][f]] # Unborn
  BY <1>3, <1>4, <1>9, NewDataKnown
<1>12. rows[s] # Absent /\ rows'[s] # Unborn
  BY <1>6, <1>9, MarksAssumption
<1>13. \A f \in Fields : req[q].body[f] # Unsent => rows'[s][f] = req[q].body[f]
  BY <1>4, <1>9 DEF AsData
<1>14. InLoop(q, s)' => pc'[q] \in {"reread", "workspace"}
  BY <1>10 DEF InLoop
<1>15. ASSUME NEW f \in Fields, ~BulkInserted(s), InLoop(q, s)' => f \notin Pending(q)'
       PROVE  AgreesOn(s, f)'
  <2>1. pc'[q] = "workspace" /\ req[q].kind = "create" /\ f \notin Pending(q)'
    BY <1>2, <1>8, <1>10, <1>15 DEF BulkInserted, InLoop
  <2>2. req[q].body[f] \in {Unsent, None}
    BY <1>8, <2>1 DEF Pending, LoopFields
  <2>3. rows'[s][f] = None
    BY <1>4, <1>9, <2>2 DEF AsData
  <2>4. \A v : ~Linked(s, f, v)'
    BY <1>1, <1>6, <1>8 DEF Linked, BirthIsUnique
  <2>. QED
    BY <2>3, <2>4, MarksAssumption DEF AgreesOn
<1>. QED
  BY <1>2, <1>3, <1>5, <1>7, <1>8, <1>9, <1>10, <1>11, <1>12, <1>13, <1>14, <1>15, WriteReads

LEMMA MergeReads ==
  ASSUME RInv, RInv', ReadInv, NEW q \in Requests, MergeRecord(q)
  PROVE  ReadInv'
<1>1. RTypeOK /\ Stages
  BY DEF RInv
<1>2. PICK s : s = req[q].id
  OBVIOUS
<1>3. pc[q] = "write" /\ req[q].kind = "update" /\ req[q] # NoRequest /\ ~InLoop(q, s)
  BY <1>1 DEF MergeRecord, Stages, InLoop
<1>4. s \in Records /\ req[q].body \in [Fields -> Values \cup {Unsent}]
  BY <1>1, <1>2, <1>3, RequestFields
<1>5. UNCHANGED <<users, relations, broken>>
  BY DEF MergeRecord
<1>6. CASE ~Exists(s)
  <2>1. Answer(q, "rejected") /\ UNCHANGED <<rows, raced, lastEvent>>
    BY <1>2, <1>6 DEF MergeRecord
  <2>2. StepOf(q) /\ pc'[q] = "rejected"
    BY <1>1, <2>1, AnswerStep DEF StepOf
  <2>3. \A r : ~InLoop(q, r)' /\ ~InLoop(q, r)
    BY <1>3, <2>2 DEF InLoop
  <2>. QED
    BY <1>3, <1>5, <2>1, <2>2, <2>3, OutsideReads
<1>7. CASE Exists(s)
  <2>1. PICK data : data = Merged(rows[s], req[q].body)
    OBVIOUS
  <2>2. /\ rows' = [rows EXCEPT ![s] = data]
        /\ raced' = raced \cup Overlapped(q)
        /\ pc' = [pc EXCEPT ![q] = "reread"]
        /\ UNCHANGED <<req, todo, seen>>
    BY <1>2, <1>7, <2>1 DEF MergeRecord
  <2>3. data \in Data
    BY <1>1, <1>4, <1>7, <2>1, RowType, MergedType
  <2>4. StepOf(q) /\ pc'[q] = "reread"
    BY <1>1, <2>2 DEF StepOf, RTypeOK
  <2>5. /\ rows'[s] = data /\ data \notin {Unborn, Absent}
        /\ \A r \in Records \ {s} : rows'[r] = rows[r]
    BY <1>1, <1>4, <2>2, <2>3, MarksAssumption DEF RTypeOK
  <2>6. rows[s] # Absent /\ rows'[s] # Unborn
    BY <1>7, <2>5 DEF Exists
  <2>7. \A f \in Fields : rows'[s][f] \in Records => rows[rows'[s][f]] # Unborn
    BY <1>2, <1>3, <1>7, <2>1, <2>5, NewDataKnown
  <2>8. s \notin raced' => \A p \in Requests \ {q} : ~InLoop(p, s)
    BY <1>2, <2>2, NotRacedIsAlone DEF InLoop, Working
  <2>9. \A f \in Fields : req[q].body[f] # Unsent => rows'[s][f] = req[q].body[f]
    BY <2>1, <2>5 DEF Merged
  <2>10. ASSUME NEW f \in Fields, s \notin raced' \cup broken', ~BulkInserted(s),
                InLoop(q, s)' => f \notin Pending(q)'
         PROVE  AgreesOn(s, f)'
    <3>1. InLoop(q, s)'
      BY <1>2, <2>2, <2>4 DEF InLoop
    <3>2. req[q].body[f] = Unsent
      BY <1>3, <2>2, <2>4, <2>10, <3>1 DEF Pending, LoopFields
    <3>3. rows'[s][f] = rows[s][f]
      BY <2>1, <2>5, <3>2 DEF Merged
    <3>4. NotPending(s, f)
      BY <1>3, <2>8, <2>10 DEF NotPending
    <3>5. AgreesOn(s, f)
      BY <1>4, <1>5, <1>7, <2>2, <2>10, <3>4 DEF ReadInv, FieldsAgree
    <3>6. \A v : (Found(f, v)' <=> Found(f, v)) /\ (Linked(s, f, v)' <=> Linked(s, f, v))
      BY <1>5, <1>7, <2>5 DEF Found, Exists, Linked
    <3>. QED
      BY <3>3, <3>5, <3>6 DEF AgreesOn
  <2>. QED
    BY <1>2, <1>3, <1>4, <1>5, <2>3, <2>4, <2>5, <2>6, <2>7, <2>8, <2>9, <2>10, WriteReads
<1>. QED
  BY <1>6, <1>7

LEMMA DeleteReads ==
  ASSUME RInv, RInv', ReadInv, NEW q \in Requests, DeleteRecord(q)
  PROVE  ReadInv'
<1>1. RTypeOK /\ Stages
  BY DEF RInv
<1>2. PICK s : s = req[q].id
  OBVIOUS
<1>3. pc[q] = "delete" /\ req[q] # NoRequest /\ ~InLoop(q, s)
  BY <1>1 DEF DeleteRecord, Stages, InLoop
<1>4. s \in Records
  BY <1>1, <1>2, <1>3, RequestFields
<1>5. /\ rows' = [rows EXCEPT ![s] = Absent] /\ relations' = Cascade(s)
      /\ raced' = raced \cup Overlapped(q) /\ UNCHANGED <<users, broken>>
      /\ Answer(q, "done")
  BY <1>2 DEF DeleteRecord
<1>6. rows'[s] = Absent /\ Absent # Unborn /\ \A r \in Records \ {s} : rows'[r] = rows[r]
  BY <1>1, <1>4, <1>5, MarksAssumption DEF RTypeOK
<1>7. StepOf(q) /\ pc'[q] = "done"
  BY <1>1, <1>5 DEF Answer, StepOf, RTypeOK
<1>8. ~InLoop(q, s)' /\ ~Exists(s)'
  BY <1>6, <1>7 DEF InLoop, Exists
<1>9. s \notin raced' => \A p \in Requests \ {q} : ~InLoop(p, s)
  BY <1>2, <1>5, NotRacedIsAlone DEF InLoop, Working
<1>. QED
  BY <1>2, <1>3, <1>4, <1>5, <1>6, <1>7, <1>8, <1>9, WriteReads

LEMMA RequestRejectedReads ==
  ASSUME RInv, RInv', ReadInv, NEW q \in Requests, RequestRejected(q)
  PROVE  ReadInv'
<1>1. RTypeOK /\ Stages /\ BirthIsUnique
  BY DEF RInv
<1>2. PICK s : s = req[q].id
  OBVIOUS
<1>3. pc[q] \in {"find", "write", "reread", "delete"} /\ s \in Records /\ pc[q] # "new"
  BY <1>1, <1>2, RequestFields DEF RequestRejected, Stages
<1>4. lastEvent' = lastEvent /\ users' = users /\ Answer(q, "rejected") /\ raced \subseteq raced'
  BY DEF RequestRejected
<1>5. StepOf(q) /\ pc'[q] = "rejected"
  BY <1>1, <1>4, AnswerStep DEF StepOf
<1>6. \A r : ~InLoop(q, r)' /\ (InLoop(q, r) => pc[q] = "reread" /\ r = s)
  BY <1>2, <1>3, <1>5 DEF InLoop
<1>7. CASE /\ UNCHANGED <<rows, relations, raced>>
           /\ broken' = IF pc[q] = "reread" THEN broken \cup {s} ELSE broken
  <2>1. \A r \in Records : InLoop(q, r) => r \in broken'
    BY <1>6, <1>7
  <2>2. broken \subseteq broken'
    BY <1>7
  <2>. QED
    BY <1>3, <1>4, <1>5, <1>6, <1>7, <2>1, <2>2, OutsideReads
<1>8. CASE /\ rows' = Written(q) /\ rows' # rows /\ raced' = raced \cup Overlapped(q)
           /\ relations' = IF pc[q] = "delete" THEN Cascade(s) ELSE relations
           /\ broken' = broken \cup {s}
  <2>1. /\ pc[q] \in {"write", "delete"}
        /\ \A r \in Records \ {s} : rows'[r] = rows[r]
        /\ \/ rows'[s] \in Data /\ rows[s] # Absent
           \/ rows'[s] = Absent
    BY <1>2, <1>3, <1>8, WrittenRow
  <2>2. rows'[s] # Unborn
    BY <2>1, MarksAssumption
  <2>3. s \notin raced' => \A p \in Requests \ {q} : ~InLoop(p, s)
    BY <1>2, <1>8, NotRacedIsAlone DEF InLoop, Working
  <2>4. ~InLoop(q, s) /\ ~InLoop(q, s)'
    BY <1>6, <2>1
  <2>5. CASE pc[q] = "delete"
    <3>1. rows'[s] = Absent /\ relations' = Cascade(s)
      BY <1>1, <1>2, <1>3, <1>8, <2>5 DEF Written, RTypeOK
    <3>. QED
      BY <1>2, <1>3, <1>4, <1>5, <1>8, <2>1, <2>2, <2>3, <2>4, <3>1, WriteReads
  <2>6. CASE pc[q] = "write"
    <3>1. \/ rows'[s] = AsData(req[q].body)
          \/ Exists(s) /\ rows'[s] = Merged(rows[s], req[q].body)
      <4>1. CASE req[q].kind # "update"
        BY <1>1, <1>2, <1>3, <1>8, <2>6, <4>1 DEF Written, RTypeOK
      <4>2. CASE req[q].kind = "update" /\ Exists(s)
        BY <1>1, <1>2, <1>3, <1>8, <2>6, <4>2 DEF Written, RTypeOK
      <4>3. CASE req[q].kind = "update" /\ ~Exists(s)
        BY <1>2, <1>8, <2>6, <4>3 DEF Written
      <4>. QED
        BY <4>1, <4>2, <4>3
    <3>2. \A f \in Fields : rows'[s][f] \in Records => rows[rows'[s][f]] # Unborn
      BY <1>2, <1>3, <3>1, NewDataKnown
    <3>3. rows'[s] \in Data /\ rows[s] # Absent
      <4>1. req[q].body \in [Fields -> Values \cup {Unsent}]
        BY <1>1, <1>3, RequestFields DEF Stages
      <4>2. AsData(req[q].body) \in Data
        BY <4>1, AsDataType
      <4>3. Exists(s) => Merged(rows[s], req[q].body) \in Data
        BY <1>1, <1>3, <4>1, RowType, MergedType
      <4>4. rows'[s] \in Data
        BY <3>1, <4>2, <4>3
      <4>. QED
        BY <2>1, <4>4, MarksAssumption
    <3>. QED
      BY <1>2, <1>3, <1>4, <1>5, <1>8, <2>1, <2>2, <2>3, <2>4, <2>6, <3>2, <3>3, WriteReads
  <2>. QED
    BY <2>1, <2>5, <2>6
<1>. QED
  BY <1>2, <1>7, <1>8 DEF RequestRejected

\* ON DELETE SET NULL: what pointed to the user shows nothing, and is not found.
LEMMA RemoveUserReads ==
  ASSUME RInv, RInv', ReadInv, NEW u \in Users, RemoveUser(u)
  PROVE  ReadInv'
<1>1. /\ UNCHANGED <<rows, req, pc, todo, seen, raced, broken>>
      /\ users' = users \ {u}
      /\ relations' = {IF x.link = u THEN [x EXCEPT !.link = None] ELSE x : x \in relations}
  BY DEF RemoveUser, request, history
<1>2. u \notin Records /\ u # None /\ None \notin Links
  BY RecordsAssumption, MarksAssumption DEF Links
<1>3. \A f, v : Found(f, v)' <=> Found(f, v) /\ v # u
  BY <1>1, <1>2 DEF Found, Exists
<1>4. /\ \A x \in relations : x.link # u => x \in relations'
      /\ \A y \in relations' : y.link # u /\ (y.link # None => y \in relations)
  <2>1. \A x \in relations : x = [by |-> x.by, owner |-> x.owner, field |-> x.field, link |-> x.link]
    BY DEF RInv, RTypeOK
  <2>2. \A x \in relations : [x EXCEPT !.link = None].link = None
    BY <2>1
  <2>. QED
    BY <1>1, <1>2, <2>2
<1>5. \A r, f : \A v \in Links : Linked(r, f, v)' <=> Linked(r, f, v) /\ v # u
  BY <1>2, <1>4 DEF Linked
<1>6. BodiesKnown'
  BY <1>1 DEF ReadInv, BodiesKnown, Sendable, Exists
<1>7. TargetsFound'
  BY <1>3, <1>4 DEF ReadInv, TargetsFound
<1>8. WritesStand'
  BY <1>1 DEF ReadInv, WritesStand, InLoop
<1>9. \A r \in Records, f \in Fields :
        /\ Exists(r)' <=> Exists(r)
        /\ BulkInserted(r)' <=> BulkInserted(r)
        /\ NotPending(r, f)' <=> NotPending(r, f)
        /\ AgreesOn(r, f) => AgreesOn(r, f)'
  BY <1>1, <1>3, <1>5 DEF Exists, BulkInserted, NotPending, InLoop, Pending, AgreesOn
<1>10. FieldsAgree'
  BY <1>1, <1>9 DEF ReadInv, FieldsAgree
<1>. QED
  BY <1>6, <1>7, <1>8, <1>10 DEF ReadInv

LEMMA CrashReads ==
  ASSUME RInv, RInv', ReadInv, RCrash
  PROVE  ReadInv'
<1>1. /\ UNCHANGED <<rows, users, relations, req, raced>>
      /\ broken' = broken \cup {r \in Records : \E q \in Requests : Working(q, r)}
  BY DEF RCrash
<1>2. \A q \in Requests : /\ pc'[q] \in {"new", "done", "rejected", "lost"}
                          /\ pc'[q] # "new" => pc[q] # "new"
  BY DEF RCrash
<1>3. \A q \in Requests, r \in Records : ~InLoop(q, r)'
  BY <1>2 DEF InLoop
<1>4. \A r \in Records \ broken' : \A q \in Requests : ~InLoop(q, r)
  BY <1>1 DEF InLoop, Working
<1>5. BodiesKnown' /\ TargetsFound'
  BY <1>1, <1>2 DEF ReadInv, BodiesKnown, Sendable, TargetsFound, Found, Exists
<1>6. WritesStand'
  BY <1>1, <1>3 DEF WritesStand
<1>7. \A r \in Records \ broken', f \in Fields :
        /\ NotPending(r, f)
        /\ (Exists(r)' <=> Exists(r)) /\ (BulkInserted(r)' <=> BulkInserted(r))
        /\ AgreesOn(r, f)' <=> AgreesOn(r, f)
  BY <1>1, <1>4 DEF NotPending, Exists, BulkInserted, AgreesOn, Linked, Found
<1>8. FieldsAgree'
  BY <1>1, <1>7 DEF ReadInv, FieldsAgree
<1>. QED
  BY <1>5, <1>6, <1>8 DEF ReadInv

LEMMA ReceiveReads ==
  ASSUME RInv, RInv', ReadInv, NEW q \in Requests, Receives(q)
  PROVE  ReadInv'
<1>1. RTypeOK /\ Stages
  BY DEF RInv
<1>2. \E r, kind, body, first :
        first \in {"validate", "find"} /\ Sendable(body) /\ Receive(q, r, kind, body, first)
  <2>1. CASE ReceiveCreate(q)
    BY <2>1, Zenon DEF ReceiveCreate
  <2>2. CASE ReceiveUpdate(q)
    BY <2>2, Zenon DEF ReceiveUpdate
  <2>3. CASE ReceiveDelete(q)
    <3>1. Unsent \notin Records
      BY MarksAssumption DEF Links
    <3>2. Sendable([f \in Fields |-> Unsent])
      BY <3>1 DEF Sendable
    <3>3. \E r : Receive(q, r, "delete", [f \in Fields |-> Unsent], "find")
      BY <2>3, Zenon DEF ReceiveDelete
    <3>. QED
      BY <3>2, <3>3, Zenon
  <2>. QED
    BY <2>1, <2>2, <2>3 DEF Receives
<1>3. PICK r, kind, body, first :
        first \in {"validate", "find"} /\ Sendable(body) /\ Receive(q, r, kind, body, first)
  BY <1>2
<1>4. /\ UNCHANGED <<rows, users, relations, todo, raced, broken>>
      /\ pc[q] = "new" /\ pc' = [pc EXCEPT ![q] = first]
      /\ req' = [req EXCEPT ![q] = [kind |-> kind, id |-> r, body |-> body]]
  BY <1>3 DEF Receive, history
<1>5. /\ req[q] = NoRequest /\ req'[q].body = body
      /\ pc'[q] = first /\ pc'[q] \notin {"clear", "lookup", "link"}
      /\ \A p \in Requests \ {q} : req'[p] = req[p] /\ pc'[p] = pc[p]
  BY <1>1, <1>3, <1>4 DEF Stages, RTypeOK
<1>6. \A s \in Records : ~InLoop(q, s)' /\ ~InLoop(q, s)
  BY <1>3, <1>4, <1>5 DEF InLoop
<1>7. \A p \in Requests \ {q} : /\ Pending(p)' = Pending(p)
                                /\ \A s \in Records : InLoop(p, s)' <=> InLoop(p, s)
  BY <1>4, <1>5 DEF InLoop, Pending
<1>8. \A s \in Records : BulkInserted(s) => BulkInserted(s)'
  BY <1>5 DEF BulkInserted, NoRequest
<1>9. BodiesKnown' /\ TargetsFound'
  BY <1>3, <1>4, <1>5 DEF ReadInv, BodiesKnown, Sendable, TargetsFound, Found, Exists
<1>10. WritesStand'
  BY <1>4, <1>5, <1>6, <1>7 DEF ReadInv, WritesStand
<1>11. \A s \in Records, f \in Fields :
         /\ NotPending(s, f)' => NotPending(s, f)
         /\ Exists(s)' <=> Exists(s)
         /\ AgreesOn(s, f)' <=> AgreesOn(s, f)
  <2>1. \A s \in Records, f \in Fields : NotPending(s, f)' => NotPending(s, f)
    BY <1>6, <1>7 DEF NotPending
  <2>. QED
    BY <1>4, <2>1 DEF Exists, AgreesOn, Linked, Found
<1>12. FieldsAgree'
  BY <1>4, <1>8, <1>11 DEF ReadInv, FieldsAgree
<1>. QED
  BY <1>9, <1>10, <1>12 DEF ReadInv

LEMMA InitReads == RInit => ReadInv
<1>. SUFFICES ASSUME RInit PROVE ReadInv
  OBVIOUS
<1>1. None \notin Links
  BY MarksAssumption
<1>2. relations = {} /\ \A q \in Requests : pc[q] = "new"
  BY DEF RInit
<1>3. \A r \in Records, f \in Fields : Exists(r) => rows[r][f] = None
  BY DEF RInit, Exists
<1>4. BodiesKnown /\ TargetsFound
  BY <1>1, <1>2, <1>3 DEF BodiesKnown, TargetsFound, Links
<1>5. WritesStand
  BY <1>2 DEF WritesStand, InLoop
<1>6. FieldsAgree
  BY <1>1, <1>2, <1>3 DEF FieldsAgree, AgreesOn, Linked
<1>. QED
  BY <1>4, <1>5, <1>6 DEF ReadInv

LEMMA NextReads ==
  ASSUME RInv, RInv', EventInv, ReadInv, [RNext]_rvars
  PROVE  ReadInv'
<1>1. ASSUME NEW q \in Requests, Receives(q) PROVE ReadInv'
  BY <1>1, ReceiveReads
<1>2. ASSUME NEW q \in Requests, Serve(q) PROVE ReadInv'
  BY <1>2, StartReads, InsertReads, MergeReads, ReadRelationFieldsReads, ClearRelationsReads,
     LookUpTargetReads, LinkTargetReads, DeleteReads, RequestRejectedReads, RelationsRejectedReads
  DEF Serve
<1>3. ASSUME NEW u \in Users, RemoveUser(u) PROVE ReadInv'
  BY <1>3, RemoveUserReads
<1>4. CASE RCrash
  BY <1>4, CrashReads
<1>5. CASE UNCHANGED rvars
  <2>1. UNCHANGED <<rows, users, relations, req, pc, todo, raced, broken>>
    BY <1>5 DEF rvars, request, history
  <2>2. BodiesKnown' /\ TargetsFound' /\ WritesStand'
    BY <2>1 DEF ReadInv, BodiesKnown, Sendable, TargetsFound, WritesStand, Found, Exists, InLoop
  <2>3. FieldsAgree'
    BY <2>1 DEF ReadInv, FieldsAgree, Exists, BulkInserted, NotPending, InLoop, Pending, AgreesOn,
                Linked, Found
  <2>. QED
    BY <2>2, <2>3 DEF ReadInv
<1>. QED
  BY <1>1, <1>2, <1>3, <1>4, <1>5 DEF RNext

LEMMA ReadInvariant == RSpec => [](RInv /\ EventInv /\ ReadInv)
<1>1. RInit => RInv /\ EventInv /\ ReadInv
  BY InitRInv, InitEvents, InitReads
<1>2. RInv /\ EventInv /\ ReadInv /\ [RNext]_rvars => (RInv /\ EventInv /\ ReadInv)'
  BY NextRInv, NextEvents, NextReads
<1>. QED
  BY <1>1, <1>2, PTL DEF RSpec

\* What an include of a record shows under a field and the lists of those that
\* it shows agree, once no request works on the record, whatever else goes on:
\* users are removed, other records written or deleted, the process restarted.
THEOREM ReadsOfBothTablesAgree == RSpec => []ReadsAgree
<1>1. RInv /\ ReadInv => ReadsAgree
  <2>1. SUFFICES ASSUME RInv, ReadInv, NEW r \in Records \ (raced \cup broken),
                        Exists(r), AtRest(r), ~BulkInserted(r),
                        NEW f \in Fields, NEW v \in Links
                 PROVE  v \in Included(r, f) <=> Found(f, v) /\ r \in Listed(v, f)
    BY DEF ReadsAgree
  <2>2. NotPending(r, f)
    BY <2>1 DEF NotPending, AtRest, InLoop, Working
  <2>3. AgreesOn(r, f)
    BY <2>1, <2>2 DEF ReadInv, FieldsAgree
  <2>4. v \in Included(r, f) <=> Linked(r, f, v)
    BY MarksAssumption DEF Included, Linked
  <2>5. r \in Listed(v, f) <=> rows[r][f] = v
    BY <2>1 DEF Listed
  <2>. QED
    BY <2>3, <2>4, <2>5 DEF AgreesOn
<1>. QED
  BY <1>1, ReadInvariant, PTL

-----------------------------------------------------------------------------
(* Answers.                                                                 *)

\* The writes go on beside a query as without it.
LEMMA RecordsBesideQueries == QSpec => [](RInv /\ EventInv /\ ReadInv)
<1>1. QInit => RInv /\ EventInv /\ ReadInv
  BY InitRInv, InitEvents, InitReads DEF QInit
<1>2. ASSUME RInv /\ EventInv /\ ReadInv, [QNext]_qvars
      PROVE  (RInv /\ EventInv /\ ReadInv)'
  <2>1. ASSUME [RNext]_rvars PROVE (RInv /\ EventInv /\ ReadInv)'
    BY <1>2, <2>1, NextRInv, NextEvents, NextReads
  <2>2. CASE QueryRejected
    <3>1. /\ UNCHANGED <<rows, users, relations, req, pc, todo, seen, crashes,
                         lastEvent, raced, broken>>
          /\ faults' = faults + 1
      BY <2>2 DEF QueryRejected, request, history
    <3>2. RInv'
      BY <1>2, <3>1 DEF RInv, RTypeOK, Stages, BirthIsUnique, OneWriter, NothingToReplace,
                        OneRelationPerField, InLoop, ToBeBorn, OfField, Turn
    <3>3. EventInv'
      BY <1>2, <3>1 DEF EventInv, EventsFollowRows, WorkedOnExists, WriterSaw, EventTells, Tells,
                        Exists, Working, InLoop, BulkInserted
    <3>4. ReadInv'
      BY <1>2, <3>1 DEF ReadInv, BodiesKnown, Sendable, TargetsFound, WritesStand, FieldsAgree,
                        Exists, Found, InLoop, BulkInserted, NotPending, Pending, AgreesOn, Linked
    <3>. QED
      BY <3>2, <3>3, <3>4
  <2>3. CASE UNCHANGED rvars
    BY <2>1, <2>3
  <2>4. ASSUME NEW q \in Requests, Receives(q) \/ Serve(q) PROVE (RInv /\ EventInv /\ ReadInv)'
    BY <2>1, <2>4 DEF RNext
  <2>5. ASSUME NEW u \in Users, RemoveUser(u) PROVE (RInv /\ EventInv /\ ReadInv)'
    BY <2>1, <2>5 DEF RNext
  <2>. QED
    BY <1>2, <2>2, <2>3, <2>4, <2>5 DEF QNext, qvars, ReceiveQuery
<1>. QED
  BY <1>1, <1>2, PTL DEF QSpec

LEMMA PageLengthIs ==
  ASSUME NEW k \in Queries, NEW n \in Nat
  PROVE  PageLength(k, n) \in Nat /\ PageLength(k, n) <= k.limit
<1>1. k.limit \in Nat /\ k.page \in Nat
  BY QueriesAssumption
<1>2. PICK m : m = n - (k.page - 1) * k.limit
  OBVIOUS
<1>3. m \in Int
  BY <1>1, <1>2
<1>4. PICK x \in {0, m} : x = Max({0, m}) /\ x >= 0
  <2>1. \E x \in {0, m} : \A y \in {0, m} : x >= y
    BY <1>3
  <2>. QED
    BY <1>3, <2>1 DEF Max
<1>5. \E y \in {k.limit, x} : \A z \in {k.limit, x} : y =< z
  BY <1>1, <1>3, <1>4
<1>6. Min({k.limit, x}) \in {k.limit, x} /\ Min({k.limit, x}) =< k.limit
  BY <1>5 DEF Min
<1>. QED
  BY <1>1, <1>2, <1>3, <1>4, <1>6 DEF PageLength

LEMMA MatchingIsFinite ==
  ASSUME NEW k
  PROVE  /\ Matching(k) \subseteq Records
         /\ IsFiniteSet(Matching(k)) /\ Cardinality(Matching(k)) \in Nat
<1>1. Matching(k) \in SUBSET Records
  BY DEF Matching
<1>. QED
  BY <1>1, RecordsAreFinite, FS_Subset, FS_CardinalityType

\* A sequence of all elements of a set, each once, has them all.
LEMMA SequenceHasAll ==
  ASSUME NEW S, IsFiniteSet(S), NEW s \in SetToSeqs(S)
  PROVE  /\ s \in Seq(S) /\ Len(s) = Cardinality(S)
         /\ \A x \in S : \E i \in 1..Len(s) : s[i] = x
<1>1. PICK n \in Nat : n = Cardinality(S)
  BY FS_CardinalityType
<1>2. s \in [1..n -> S] /\ \A i, j \in 1..n : i # j => s[i] # s[j]
  BY <1>1 DEF SetToSeqs
<1>3. s \in Seq(S) /\ Len(s) = n
  BY <1>2
<1>4. s \in Injection(1..n, S)
  BY <1>2 DEF Injection, IsInjective
<1>5. Cardinality(1..n) = n
  BY FS_Interval
<1>6. s \in Surjection(1..n, S)
  BY <1>1, <1>4, <1>5, FS_Injection
<1>. QED
  BY <1>1, <1>3, <1>6 DEF Surjection

\* The stages that have an answer, and those that have all but the incoming links.
Answering == {"total", "joins", "incoming", "list", "answered"}
Filled    == {"incoming", "list", "answered"}

Includes == UNION {[S -> Links] : S \in SUBSET Fields}
Entries ==
  [data : Data, include : Includes,
   count : [IncomingFields -> Nat], list : [IncomingFields -> SUBSET Records]]

QTypeOK ==
  /\ stage \in Answering \cup {"idle", "record", "rows", "rejected"}
  /\ stage # "idle" => ask \in Queries
  /\ stage = "record" => ask.action = "get"
  /\ stage \in {"rows", "joins"} => ask.action = "getAll"
  /\ stage = "total" => ask.action \in {"getAll", "count"}
  /\ stage \in {"idle", "record", "rows"} => answer = NoAnswer
  /\ stage \in Answering /\ ask.action = "count" => answer = NoAnswer
  /\ DOMAIN answer \subseteq Records /\ answer \in [DOMAIN answer -> Entries]
  /\ total \in Nat
  /\ left \in Seq(Records \X IncomingFields)
  /\ stage \in {"incoming", "list"} =>
       left # <<>> /\ \A i \in 1..Len(left) : left[i][1] \in DOMAIN answer
  /\ stage \notin {"incoming", "list", "rejected"} => left = <<>>

\* What the answer says was so at some moment.
Happened ==
  /\ stage \notin {"idle", "answered", "rejected"} =>
       Matching(ask) \subseteq met /\ Cardinality(Matching(ask)) \in sizes
  /\ stage \in Answering => DOMAIN answer \subseteq met /\ Cardinality(DOMAIN answer) <= ask.limit
  /\ stage \in Answering \ {"total"} /\ ask.action # "get" => total \in sizes

CountedRight(r, f) == answer[r].count[f] = Cardinality(Listed(r, f))
ListedRight(r, f)  == answer[r].list[f] = Listed(r, f) /\ CountedRight(r, f)

\* What the answer says is so, as long as nobody writes.
Exact ==
  quiet /\ stage \in Answering =>
    /\ DOMAIN answer \subseteq Matching(ask)
    /\ ask.action = "getAll" =>
         Cardinality(DOMAIN answer) = PageLength(ask, Cardinality(Matching(ask)))
    /\ ask.action # "get" /\ stage # "total" => total = Cardinality(Matching(ask))
    /\ \A r \in DOMAIN answer : answer[r].data = rows[r]
    /\ stage = "total" => \A r \in DOMAIN answer : answer[r].include = NoAnswer
    /\ ask.action = "getAll" /\ stage \in Filled =>
         \A r \in DOMAIN answer : answer[r].include \in Shown(r)
    /\ ask.additional /\ stage \in Filled =>
         \A r \in DOMAIN answer, f \in IncomingFields :
           (\E i \in 1..Len(left) : left[i] = <<r, f>>) \/ ListedRight(r, f)
    /\ stage = "list" => CountedRight(Head(left)[1], Head(left)[2])

QInv == QTypeOK /\ Happened /\ Exact

\* While the tables stay as they are, what is read of them does.
LEMMA SameTables ==
  ASSUME UNCHANGED <<rows, users, relations, ask>>
  PROVE  /\ Matching(ask)' = Matching(ask)
         /\ \A r : Shown(r)' = Shown(r)
         /\ \A r, f : Listed(r, f)' = Listed(r, f)
BY DEF Matching, Exists, Shown, Included, Listed

\* A write beside the query.
LEMMA BesideAnswers ==
  ASSUME QInv, UNCHANGED answering, Observe
  PROVE  QInv'
<1>1. QTypeOK'
  BY DEF QInv, QTypeOK, answering
<1>2. Happened'
  BY DEF QInv, Happened, answering, Observe
<1>3. Exact'
  <2>1. SUFFICES ASSUME quiet' PROVE Exact'
    BY DEF Exact
  <2>2. quiet /\ UNCHANGED <<rows, users, relations, ask, stage, answer, total, left>>
    BY <2>1 DEF Observe, answering
  <2>3. /\ Matching(ask)' = Matching(ask)
        /\ \A r : Shown(r)' = Shown(r)
        /\ \A r, f : Listed(r, f)' = Listed(r, f)
    BY <2>2, SameTables
  <2>4. \A r, f : (CountedRight(r, f)' <=> CountedRight(r, f)) /\ (ListedRight(r, f)' <=> ListedRight(r, f))
    BY <2>2, <2>3 DEF CountedRight, ListedRight
  <2>5. CountedRight(Head(left)[1], Head(left)[2])' <=> CountedRight(Head(left)[1], Head(left)[2])
    BY <2>2 DEF CountedRight, Listed, Exists
  <2>. QED
    BY <2>2, <2>3, <2>4, <2>5 DEF QInv, Exact
<1>. QED
  BY <1>1, <1>2, <1>3 DEF QInv

LEMMA QueryRejectedAnswers ==
  ASSUME QInv, QueryRejected, Observe
  PROVE  QInv'
BY DEF QInv, QTypeOK, Happened, Exact, QueryRejected, Observe, Answering, Filled

LEMMA ReceiveQueryAnswers ==
  ASSUME QInv, ReceiveQuery
  PROVE  QInv'
<1>1. PICK k \in Queries : ask' = k
  BY DEF ReceiveQuery
<1>2. /\ stage = "idle" /\ UNCHANGED <<rvars, answer, total, left>>
      /\ met' = Matching(ask') /\ sizes' = {Cardinality(met')}
  BY DEF ReceiveQuery
<1>3. \/ k.action = "get" /\ stage' = "record"
      \/ k.action = "getAll" /\ stage' = "rows"
      \/ k.action = "count" /\ stage' = "total"
  BY <1>1, QueriesAssumption DEF ReceiveQuery
<1>4. answer = NoAnswer /\ left = <<>> /\ DOMAIN answer = {}
  BY <1>2 DEF QInv, QTypeOK, NoAnswer
<1>5. QTypeOK'
  BY <1>1, <1>2, <1>3, <1>4 DEF QInv, QTypeOK, Answering
<1>6. Matching(ask)' = Matching(ask')
  BY <1>2 DEF rvars, Matching, Exists
<1>7. Cardinality(DOMAIN answer') = 0 /\ k.limit \in Nat /\ DOMAIN answer' = {}
  BY <1>2, <1>4, QueriesAssumption, FS_EmptySet
<1>8. Happened'
  BY <1>1, <1>2, <1>3, <1>6, <1>7 DEF Happened, Answering
<1>9. Exact'
  BY <1>1, <1>3, <1>7 DEF Exact, Answering, Filled
<1>. QED
  BY <1>5, <1>8, <1>9 DEF QInv

\* What follows the queries: all links to come, or none to come.
GoesOn(found) ==
  \/ /\ stage' = "incoming" /\ left' # <<>>
     /\ left' \in Seq(Records \X IncomingFields)
     /\ \A i \in 1..Len(left') : left'[i][1] \in found
     /\ \A r \in found, f \in IncomingFields : \E i \in 1..Len(left') : left'[i] = <<r, f>>
  \/ /\ stage' = "answered" /\ left' = <<>>
     /\ ask.additional => \A r \in found, f \in IncomingFields : FALSE

LEMMA AnswerOrGoesOn ==
  ASSUME QTypeOK, stage \in {"record", "total", "joins"},
         NEW CONSTANT found \in SUBSET Records, AnswerOr(found)
  PROVE  GoesOn(found)
<1>1. IsFiniteSet(found \X IncomingFields)
  BY RecordsAreFinite, FieldsAssumption, FS_Subset, FS_Difference, FS_Product DEF IncomingFields
<1>2. CASE ask.additional /\ found \X IncomingFields # {}
  <2>1. stage' = "incoming" /\ left' \in SetToSeqs(found \X IncomingFields)
    BY <1>2 DEF AnswerOr
  <2>2. PICK s, pairs : s = left' /\ pairs = found \X IncomingFields
    OBVIOUS
  <2>3. /\ s \in Seq(pairs) /\ Len(s) = Cardinality(pairs)
        /\ \A x \in pairs : \E i \in 1..Len(s) : s[i] = x
    <3>1. IsFiniteSet(pairs) /\ s \in SetToSeqs(pairs)
      BY <1>1, <2>1, <2>2
    <3>. QED
      BY <3>1, SequenceHasAll
  <2>4. s # <<>>
    <3>1. PICK x : x \in pairs
      BY <1>2, <2>2
    <3>2. PICK i \in 1..Len(s) : s[i] = x
      BY <2>3, <3>1
    <3>. QED
      BY <2>3, <3>2
  <2>5. \A i \in 1..Len(s) : s[i] \in found \X IncomingFields
    BY <2>2, <2>3
  <2>6. s \in Seq(Records \X IncomingFields)
    BY <2>2, <2>3
  <2>7. \A i \in 1..Len(s) : s[i][1] \in found
    BY <2>5
  <2>8. \A r \in found, f \in IncomingFields : \E i \in 1..Len(s) : s[i] = <<r, f>>
    BY <2>2, <2>3
  <2>. QED
    BY <2>1, <2>2, <2>4, <2>6, <2>7, <2>8 DEF GoesOn
<1>3. CASE ~(ask.additional /\ found \X IncomingFields # {})
  <2>1. stage' = "answered" /\ left' = <<>>
    BY <1>3 DEF AnswerOr, QTypeOK
  <2>2. ask.additional => \A r \in found, f \in IncomingFields : FALSE
    <3>1. SUFFICES ASSUME ask.additional, NEW r \in found, NEW f \in IncomingFields PROVE FALSE
      OBVIOUS
    <3>2. <<r, f>> \in found \X IncomingFields
      BY <3>1
    <3>. QED
      BY <1>3, <3>1, <3>2
  <2>. QED
    BY <2>1, <2>2 DEF GoesOn
<1>. QED
  BY <1>2, <1>3

\* What an answer says of a record before the incoming links.
LEMMA EntryIs ==
  ASSUME NEW data \in Data, NEW shown \in Includes
  PROVE  /\ Entry(data) \in Entries /\ Entry(data).data = data /\ Entry(data).include = NoAnswer
         /\ [Entry(data) EXCEPT !.include = shown] \in Entries
         /\ [Entry(data) EXCEPT !.include = shown].data = data
         /\ [Entry(data) EXCEPT !.include = shown].include = shown
<1>1. NoAnswer \in Includes
  <2>1. NoAnswer \in [{} -> Links] /\ {} \in SUBSET Fields
    BY DEF NoAnswer
  <2>. QED
    BY <2>1 DEF Includes
<1>2. 0 \in Nat /\ {} \in SUBSET Records
  OBVIOUS
<1>. QED
  BY <1>1, <1>2 DEF Entry, Entries

\* A stage before the incoming links, that finds the records of the answer.
LEMMA FoundAnswers ==
  ASSUME RInv, QInv, Observe, UNCHANGED <<rvars, ask>>,
         stage \in {"record", "total", "joins"},
         DOMAIN answer' \subseteq Records, answer' \in [DOMAIN answer' -> Entries],
         total' \in Nat, GoesOn(DOMAIN answer'),
         ask.action = "count" => answer' = NoAnswer,
         DOMAIN answer' \subseteq met', Cardinality(DOMAIN answer') <= ask.limit,
         ask.action # "get" => total' \in sizes',
         quiet =>
           /\ DOMAIN answer' \subseteq Matching(ask)
           /\ ask.action = "getAll" =>
                Cardinality(DOMAIN answer') = PageLength(ask, Cardinality(Matching(ask)))
           /\ ask.action # "get" => total' = Cardinality(Matching(ask))
           /\ \A r \in DOMAIN answer' : answer'[r].data = rows[r]
           /\ ask.action = "getAll" => \A r \in DOMAIN answer' : answer'[r].include \in Shown(r)
  PROVE  QInv'
<1>1. stage' \in {"incoming", "answered"}
  BY DEF GoesOn
<1>2. ask \in Queries
  BY DEF QInv, QTypeOK
<1>3. QTypeOK'
  <2>1. CASE stage' = "incoming"
    BY <1>2, <2>1 DEF QTypeOK, GoesOn, Answering
  <2>2. CASE stage' = "answered"
    <3>1. left' = <<>> /\ left' \in Seq(Records \X IncomingFields)
      BY <2>2 DEF GoesOn
    <3>. QED
      BY <1>2, <2>2, <3>1 DEF QTypeOK, Answering
  <2>. QED
    BY <1>1, <2>1, <2>2
<1>4. UNCHANGED <<rows, users, relations, ask>> /\ (quiet' <=> quiet)
  BY DEF Observe, rvars, QInv
<1>5. /\ Matching(ask)' = Matching(ask)
      /\ \A r : Shown(r)' = Shown(r)
  BY <1>4, SameTables
<1>6. met' = met \cup Matching(ask)' /\ sizes' = sizes \cup {Cardinality(Matching(ask)')}
  BY DEF Observe
<1>7. Happened'
  BY <1>1, <1>5, <1>6 DEF Happened, Answering
<1>8. Exact'
  <2>1. SUFFICES ASSUME quiet' PROVE Exact'
    BY DEF Exact
  <2>2. ask.additional => \A r \in DOMAIN answer', f \in IncomingFields :
                            \E i \in 1..Len(left') : left'[i] = <<r, f>>
    BY DEF GoesOn
  <2>. QED
    BY <1>1, <1>4, <1>5, <2>1, <2>2 DEF Exact, Filled
<1>. QED
  BY <1>3, <1>7, <1>8 DEF QInv

LEMMA FindRecordAnswers ==
  ASSUME RInv, QInv, FindRecord, UNCHANGED rvars, Observe
  PROVE  QInv'
<1>1. stage = "record" /\ ask \in Queries /\ ask.action = "get" /\ ask' = ask /\ total' = total
  BY DEF FindRecord, QInv, QTypeOK
<1>2. PICK r \in Records : r = ask.record
  BY <1>1, QueriesAssumption
<1>3. CASE ~Exists(r)
  BY <1>1, <1>2, <1>3 DEF FindRecord, QInv, QTypeOK, Happened, Exact, Answering, Filled
<1>4. CASE Exists(r)
  <2>1. PICK shown : shown = [f \in {g \in ask.include : OfField(r, g) # {}} |-> r]
    OBVIOUS
  <2>2. shown \in Includes
    <3>1. ask.include \subseteq Fields /\ r \in Links
      BY <1>1, QueriesAssumption DEF Links
    <3>2. PICK S : S = {g \in ask.include : OfField(r, g) # {}}
      OBVIOUS
    <3>3. shown \in [S -> Links] /\ S \in SUBSET Fields
      BY <2>1, <3>1, <3>2
    <3>. QED
      BY <3>3 DEF Includes
  <2>3. PICK e : e = [Entry(rows[r]) EXCEPT !.include = shown]
    OBVIOUS
  <2>4. answer' = [x \in {r} |-> e] /\ AnswerOr({r})
    BY <1>2, <1>4, <2>1, <2>3 DEF FindRecord
  <2>5. rows[r] \in Data
    BY <1>4, RowType DEF RInv
  <2>6. e \in Entries /\ e.data = rows[r]
    BY <2>2, <2>3, <2>5, EntryIs
  <2>7. DOMAIN answer' = {r} /\ answer'[r] = e /\ answer' \in [DOMAIN answer' -> Entries]
    BY <2>4, <2>6
  <2>8. GoesOn({r})
    BY <1>1, <2>4, AnswerOrGoesOn DEF QInv
  <2>9. r \in Matching(ask) /\ met \subseteq met' /\ Matching(ask) \subseteq met
    BY <1>1, <1>4 DEF Matching, Observe, QInv, Happened
  <2>10. Cardinality({r}) = 1 /\ 1 <= ask.limit /\ total \in Nat
    <3>1. ask.limit \in Nat \ {0}
      BY <1>1, QueriesAssumption
    <3>2. Cardinality({r}) = 1
      BY FS_Singleton
    <3>. QED
      BY <3>1, <3>2 DEF QInv, QTypeOK
  <2>. QED
    BY <1>1, <2>6, <2>7, <2>8, <2>9, <2>10, FoundAnswers
<1>. QED
  BY <1>3, <1>4

LEMMA FindRowsAnswers ==
  ASSUME RInv, QInv, FindRows, UNCHANGED rvars, Observe
  PROVE  QInv'
<1>1. /\ stage = "rows" /\ ask \in Queries /\ ask.action = "getAll"
      /\ UNCHANGED <<ask, total, left>>
  BY DEF FindRows, QInv, QTypeOK
<1>2. CASE stage' = "rejected" /\ answer' = answer
  BY <1>1, <1>2 DEF QInv, QTypeOK, Happened, Exact, Answering, Filled
<1>3. ASSUME NEW page \in kSubset(PageLength(ask, Cardinality(Matching(ask))), Matching(ask)),
             answer' = [r \in page |-> Entry(rows[r])], stage' = "total"
      PROVE  QInv'
  <2>1. /\ Matching(ask) \subseteq Records /\ \A r \in Matching(ask) : Exists(r)
        /\ Cardinality(Matching(ask)) \in Nat
    BY MatchingIsFinite DEF Matching
  <2>2. /\ page \subseteq Matching(ask)
        /\ Cardinality(page) = PageLength(ask, Cardinality(Matching(ask)))
    BY <1>3 DEF kSubset
  <2>3. Cardinality(page) <= ask.limit
    BY <1>1, <2>1, <2>2, PageLengthIs
  <2>4. \A r \in page : /\ Entry(rows[r]) \in Entries /\ Entry(rows[r]).data = rows[r]
                        /\ Entry(rows[r]).include = NoAnswer
    <3>1. \A r \in page : rows[r] \in Data
      BY <2>1, <2>2, RowType DEF RInv
    <3>2. Includes # {}
      <4>1. [f \in {} |-> None] \in [{} -> Links] /\ {} \in SUBSET Fields
        OBVIOUS
      <4>. QED
        BY <4>1 DEF Includes
    <3>. QED
      BY <3>1, <3>2, EntryIs
  <2>5. /\ DOMAIN answer' = page /\ answer' \in [page -> Entries]
        /\ \A r \in page : answer'[r].data = rows[r] /\ answer'[r].include = NoAnswer
    BY <1>3, <2>4
  <2>6. UNCHANGED <<rows, users, relations>> /\ (quiet' <=> quiet)
    BY DEF rvars, Observe
  <2>7. Matching(ask)' = Matching(ask)
    BY <1>1, <2>6, SameTables
  <2>8. QTypeOK'
    BY <1>1, <1>3, <2>1, <2>2, <2>5 DEF QInv, QTypeOK, Answering
  <2>9. Happened'
    BY <1>1, <1>3, <2>2, <2>3, <2>5, <2>7 DEF QInv, Happened, Observe
  <2>10. Exact'
    BY <1>1, <1>3, <2>2, <2>5, <2>6, <2>7 DEF Exact, Filled
  <2>. QED
    BY <2>8, <2>9, <2>10 DEF QInv
<1>. QED
  BY <1>2, <1>3 DEF FindRows

LEMMA CountRowsAnswers ==
  ASSUME RInv, QInv, CountRows, UNCHANGED rvars, Observe
  PROVE  QInv'
<1>1. /\ stage = "total" /\ ask \in Queries /\ ask.action \in {"getAll", "count"}
      /\ UNCHANGED <<ask, answer>>
  BY DEF CountRows, QInv, QTypeOK
<1>2. CASE CastFails(ask)
  BY <1>1, <1>2 DEF CountRows, QInv, QTypeOK, Happened, Exact, Answering, Filled
<1>3. CASE ~CastFails(ask)
  <2>1. total' = Cardinality(Matching(ask)) /\ total' \in Nat
    BY <1>3, MatchingIsFinite DEF CountRows
  <2>2. UNCHANGED <<rows, users, relations>> /\ (quiet' <=> quiet)
    BY DEF rvars, Observe
  <2>3. Matching(ask)' = Matching(ask)
    BY <1>1, <2>2, SameTables
  <2>4. total' \in sizes' /\ DOMAIN answer' \subseteq met'
    BY <1>1, <2>1, <2>3 DEF Observe, QInv, Happened, Answering
  <2>5. CASE ask.include # {} /\ DOMAIN answer # {}
    <3>1. stage' = "joins" /\ left' = left
      BY <1>3, <2>5 DEF CountRows
    <3>2. ask.action = "getAll"
      BY <1>1, <2>5 DEF QInv, QTypeOK, Answering, NoAnswer
    <3>3. QTypeOK'
      BY <1>1, <2>1, <3>1, <3>2 DEF QInv, QTypeOK, Answering
    <3>4. Happened'
      BY <1>1, <2>3, <2>4, <3>1 DEF QInv, Happened, Observe, Answering
    <3>5. Exact'
      BY <1>1, <2>1, <2>2, <2>3, <3>1 DEF QInv, Exact, Answering, Filled
    <3>. QED
      BY <3>3, <3>4, <3>5 DEF QInv
  <2>6. CASE ~(ask.include # {} /\ DOMAIN answer # {})
    <3>1. AnswerOr(DOMAIN answer) /\ DOMAIN answer \in SUBSET Records
      BY <1>3, <2>6 DEF CountRows, QInv, QTypeOK
    <3>2. GoesOn(DOMAIN answer')
      BY <1>1, <3>1, AnswerOrGoesOn DEF QInv
    <3>3. ASSUME quiet, ask.action = "getAll", NEW r \in DOMAIN answer
          PROVE  answer[r].include \in Shown(r)
      <4>1. ask.include = {}
        BY <2>6, <3>3
      <4>2. Shown(r) = {g \in [{} -> Links] : TRUE}
        BY <4>1 DEF Shown
      <4>3. answer[r].include \in [{} -> Links]
        BY <1>1, <3>3 DEF QInv, Exact, Answering, NoAnswer
      <4>. QED
        BY <4>2, <4>3
    <3>. QED
      BY <1>1, <2>1, <2>4, <3>1, <3>2, <3>3, FoundAnswers DEF QInv, QTypeOK, Happened, Exact, Answering
  <2>. QED
    BY <2>5, <2>6
<1>. QED
  BY <1>2, <1>3

LEMMA ShownIsInclude ==
  ASSUME QTypeOK, ask \in Queries, NEW r
  PROVE  Shown(r) \subseteq Includes
<1>1. PICK filled : filled = {f \in ask.include : Included(r, f) # {}}
  OBVIOUS
<1>2. filled \in SUBSET Fields
  BY <1>1, QueriesAssumption
<1>3. Shown(r) \subseteq [filled -> Links]
  BY <1>1 DEF Shown
<1>. QED
  BY <1>2, <1>3 DEF Includes

LEMMA JoinRowsAnswers ==
  ASSUME RInv, QInv, JoinRows, UNCHANGED rvars, Observe
  PROVE  QInv'
<1>1. /\ stage = "joins" /\ ask \in Queries /\ ask.action = "getAll"
      /\ UNCHANGED <<ask, total>>
      /\ DOMAIN answer \subseteq Records
  BY DEF JoinRows, QInv, QTypeOK
<1>2. PICK there \in SUBSET Records : there = StillThere
  BY <1>1 DEF StillThere
<1>3. there \subseteq DOMAIN answer /\ \A r \in there : Exists(r)
  BY <1>2 DEF StillThere
<1>4. PICK shown : /\ \A r \in there : shown[r] \in Shown(r)
                   /\ answer' = [r \in there |-> [Entry(rows[r]) EXCEPT !.include = shown[r]]]
  BY <1>2 DEF JoinRows
<1>5. AnswerOr(there)
  BY <1>2 DEF JoinRows
<1>6. ASSUME NEW r \in there
      PROVE  /\ [Entry(rows[r]) EXCEPT !.include = shown[r]] \in Entries
             /\ [Entry(rows[r]) EXCEPT !.include = shown[r]].data = rows[r]
             /\ [Entry(rows[r]) EXCEPT !.include = shown[r]].include = shown[r]
  <2>1. shown[r] \in Includes
    BY <1>1, <1>4, <1>6, ShownIsInclude DEF QInv
  <2>2. rows[r] \in Data
    BY <1>3, <1>6, RowType DEF RInv
  <2>. QED
    BY <2>1, <2>2, EntryIs
<1>7. /\ DOMAIN answer' = there /\ answer' \in [there -> Entries]
      /\ \A r \in there : answer'[r].data = rows[r] /\ answer'[r].include \in Shown(r)
  BY <1>4, <1>6
<1>8. GoesOn(DOMAIN answer')
  BY <1>1, <1>5, <1>7, AnswerOrGoesOn DEF QInv
<1>9. DOMAIN answer' \subseteq met' /\ total' \in sizes' /\ total' \in Nat
  BY <1>1, <1>3, <1>7 DEF QInv, QTypeOK, Happened, Observe, Answering
<1>10. Cardinality(DOMAIN answer') <= ask.limit
  <2>1. IsFiniteSet(DOMAIN answer) /\ Cardinality(DOMAIN answer) \in Nat
    BY <1>1, RecordsAreFinite, FS_Subset, FS_CardinalityType
  <2>2. Cardinality(there) <= Cardinality(DOMAIN answer) /\ Cardinality(there) \in Nat
    BY <1>3, <2>1, FS_Subset, FS_CardinalityType
  <2>3. Cardinality(DOMAIN answer) <= ask.limit /\ ask.limit \in Nat
    BY <1>1, QueriesAssumption DEF QInv, Happened, Answering
  <2>. QED
    BY <1>7, <2>1, <2>2, <2>3
<1>11. ASSUME quiet
       PROVE  /\ there = DOMAIN answer /\ there \subseteq Matching(ask)
              /\ Cardinality(there) = PageLength(ask, Cardinality(Matching(ask)))
              /\ total' = Cardinality(Matching(ask))
  <2>1. DOMAIN answer \subseteq Matching(ask)
    BY <1>1, <1>11 DEF QInv, Exact, Answering
  <2>2. there = DOMAIN answer
    BY <1>2, <1>3, <2>1 DEF StillThere, Matching
  <2>. QED
    BY <1>1, <1>11, <2>1, <2>2 DEF QInv, Exact, Answering
<1>. QED
  BY <1>1, <1>7, <1>8, <1>9, <1>10, <1>11, FoundAnswers

\* One turn of the incoming links: the state of the answer.
LEMMA IncomingHead ==
  ASSUME QInv, stage \in {"incoming", "list"}
  PROVE  /\ left \in Seq(Records \X IncomingFields) /\ left # <<>> /\ Len(left) \in Nat \ {0}
         /\ Head(left) = left[1] /\ left[1] = <<left[1][1], left[1][2]>>
         /\ left[1][1] \in DOMAIN answer /\ left[1][1] \in Records /\ left[1][2] \in IncomingFields
         /\ ask \in Queries /\ ask.action # "count"
         /\ answer \in [DOMAIN answer -> Entries] /\ DOMAIN answer \subseteq Records
<1>1. /\ left \in Seq(Records \X IncomingFields) /\ left # <<>> /\ ask \in Queries
      /\ \A i \in 1..Len(left) : left[i][1] \in DOMAIN answer
      /\ answer \in [DOMAIN answer -> Entries] /\ DOMAIN answer \subseteq Records
      /\ ask.action = "count" => answer = NoAnswer
  BY DEF QInv, QTypeOK, Answering
<1>2. Len(left) \in Nat \ {0} /\ Head(left) = left[1] /\ left[1] \in Records \X IncomingFields
  BY <1>1
<1>3. left[1][1] \in DOMAIN answer
  BY <1>1, <1>2
<1>4. ask.action # "count"
  BY <1>1, <1>3 DEF NoAnswer
<1>. QED
  BY <1>1, <1>2, <1>3, <1>4

LEMMA CountIncomingAnswers ==
  ASSUME RInv, QInv, CountIncoming, UNCHANGED rvars, Observe
  PROVE  QInv'
<1>1. stage = "incoming" /\ stage' = "list" /\ UNCHANGED <<ask, total, left>>
  BY DEF CountIncoming
<1>2. PICK r, f, n : r = left[1][1] /\ f = left[1][2] /\ n = Cardinality(Listed(r, f))
  OBVIOUS
<1>3. /\ Head(left) = left[1] /\ left[1] = <<r, f>> /\ r \in DOMAIN answer /\ f \in IncomingFields
      /\ answer \in [DOMAIN answer -> Entries] /\ ask.action # "count" /\ ask \in Queries
  BY <1>1, <1>2, IncomingHead
<1>4. n \in Nat
  <2>1. Listed(r, f) \in SUBSET Records
    BY DEF Listed
  <2>. QED
    BY <1>2, <2>1, RecordsAreFinite, FS_Subset, FS_CardinalityType
<1>5. answer' = [answer EXCEPT ![r].count[f] = n]
  BY <1>2, <1>3 DEF CountIncoming
<1>6. /\ DOMAIN answer' = DOMAIN answer /\ answer' \in [DOMAIN answer -> Entries]
      /\ \A x \in DOMAIN answer :
           /\ answer'[x].data = answer[x].data /\ answer'[x].include = answer[x].include
           /\ \A g \in IncomingFields :
                /\ answer'[x].list[g] = answer[x].list[g]
                /\ answer'[x].count[g] = IF x = r /\ g = f THEN n ELSE answer[x].count[g]
  BY <1>3, <1>4, <1>5 DEF Entries
<1>7. UNCHANGED <<rows, users, relations>> /\ (quiet' <=> quiet)
  BY DEF rvars, Observe
<1>8. /\ Matching(ask)' = Matching(ask)
      /\ \A x : Shown(x)' = Shown(x)
      /\ \A x, g : Listed(x, g)' = Listed(x, g)
  BY <1>1, <1>7, SameTables
<1>9. QTypeOK'
  BY <1>1, <1>3, <1>6 DEF QInv, QTypeOK, Answering
<1>10. Happened'
  BY <1>1, <1>6, <1>8 DEF QInv, Happened, Observe, Answering
<1>11. CountedRight(Head(left)[1], Head(left)[2])'
  BY <1>1, <1>2, <1>3, <1>6, <1>7 DEF CountedRight, Listed, Exists
<1>12. \A x \in DOMAIN answer, g \in IncomingFields : ListedRight(x, g) => ListedRight(x, g)'
  BY <1>2, <1>6, <1>8 DEF ListedRight, CountedRight
<1>13. Exact'
  BY <1>1, <1>6, <1>7, <1>8, <1>11, <1>12 DEF QInv, Exact, Answering, Filled
<1>. QED
  BY <1>9, <1>10, <1>13 DEF QInv

LEMMA ListIncomingAnswers ==
  ASSUME RInv, QInv, ListIncoming, UNCHANGED rvars, Observe
  PROVE  QInv'
<1>1. /\ stage = "list" /\ left' = Tail(left) /\ UNCHANGED <<ask, total>>
      /\ stage' = IF left' = <<>> THEN "answered" ELSE "incoming"
  BY DEF ListIncoming
<1>2. PICK r, f, S : r = left[1][1] /\ f = left[1][2] /\ S = Listed(r, f)
  OBVIOUS
<1>3. /\ Head(left) = left[1] /\ left[1] = <<r, f>> /\ r \in DOMAIN answer /\ f \in IncomingFields
      /\ answer \in [DOMAIN answer -> Entries] /\ ask.action # "count" /\ ask \in Queries
      /\ left \in Seq(Records \X IncomingFields) /\ Len(left) \in Nat \ {0}
  BY <1>1, <1>2, IncomingHead
<1>4. S \in SUBSET Records
  BY <1>2 DEF Listed
<1>5. answer' = [answer EXCEPT ![r].list[f] = S]
  BY <1>2, <1>3 DEF ListIncoming
<1>6. /\ DOMAIN answer' = DOMAIN answer /\ answer' \in [DOMAIN answer -> Entries]
      /\ \A x \in DOMAIN answer :
           /\ answer'[x].data = answer[x].data /\ answer'[x].include = answer[x].include
           /\ \A g \in IncomingFields :
                /\ answer'[x].count[g] = answer[x].count[g]
                /\ answer'[x].list[g] = IF x = r /\ g = f THEN S ELSE answer[x].list[g]
  BY <1>3, <1>4, <1>5 DEF Entries
<1>7. UNCHANGED <<rows, users, relations>> /\ (quiet' <=> quiet)
  BY DEF rvars, Observe
<1>8. /\ Matching(ask)' = Matching(ask)
      /\ \A x : Shown(x)' = Shown(x)
      /\ \A x, g : Listed(x, g)' = Listed(x, g)
  BY <1>1, <1>7, SameTables
<1>9. /\ left' \in Seq(Records \X IncomingFields) /\ Len(left') = Len(left) - 1
      /\ \A i \in 1..Len(left') : i + 1 \in 1..Len(left) /\ left'[i] = left[i + 1]
  BY <1>1, <1>3
<1>10. QTypeOK'
  BY <1>1, <1>3, <1>6, <1>9 DEF QInv, QTypeOK, Answering
<1>11. Happened'
  BY <1>1, <1>6, <1>8 DEF QInv, Happened, Observe, Answering
<1>12. \A x \in DOMAIN answer, g \in IncomingFields : ListedRight(x, g) => ListedRight(x, g)'
  BY <1>2, <1>6, <1>8 DEF ListedRight, CountedRight
<1>13. quiet => \A x \in DOMAIN answer, g \in IncomingFields : x = r /\ g = f => ListedRight(x, g)'
  BY <1>1, <1>2, <1>3, <1>6, <1>8 DEF QInv, Exact, ListedRight, CountedRight, Answering
<1>14. \A x \in DOMAIN answer, g \in IncomingFields :
         (\E i \in 1..Len(left) : left[i] = <<x, g>>) =>
           (x = r /\ g = f) \/ \E i \in 1..Len(left') : left'[i] = <<x, g>>
  <2>1. ASSUME NEW x, NEW g, NEW i \in 1..Len(left), left[i] = <<x, g>>, i # 1
        PROVE  \E j \in 1..Len(left') : left'[j] = <<x, g>>
    <3>1. i - 1 \in 1..Len(left') /\ left'[i - 1] = left[i]
      BY <1>3, <1>9, <2>1
    <3>. QED
      BY <2>1, <3>1
  <2>2. \A x, g : left[1] = <<x, g>> => x = r /\ g = f
    BY <1>3
  <2>. QED
    BY <2>1, <2>2
<1>15. Exact'
  BY <1>1, <1>6, <1>7, <1>8, <1>12, <1>13, <1>14 DEF QInv, Exact, Answering, Filled
<1>. QED
  BY <1>10, <1>11, <1>15 DEF QInv

LEMMA InitAnswers == QInit => QInv
<1>. SUFFICES ASSUME QInit PROVE QInv
  OBVIOUS
<1>1. /\ stage = "idle" /\ answer = NoAnswer /\ total = 0 /\ left = <<>>
      /\ DOMAIN NoAnswer = {} /\ NoAnswer \in [{} -> Entries]
  BY DEF QInit, NoAnswer
<1>2. QTypeOK
  BY <1>1 DEF QTypeOK, Answering
<1>. QED
  BY <1>1, <1>2 DEF QInv, Happened, Exact, Answering

LEMMA NextAnswers ==
  ASSUME RInv, QInv, [QNext]_qvars
  PROVE  QInv'
<1>1. CASE ReceiveQuery
  BY <1>1, ReceiveQueryAnswers
<1>2. CASE FindRecord /\ UNCHANGED rvars /\ Observe
  BY <1>2, FindRecordAnswers
<1>3. CASE FindRows /\ UNCHANGED rvars /\ Observe
  BY <1>3, FindRowsAnswers
<1>4. CASE CountRows /\ UNCHANGED rvars /\ Observe
  BY <1>4, CountRowsAnswers
<1>5. CASE JoinRows /\ UNCHANGED rvars /\ Observe
  BY <1>5, JoinRowsAnswers
<1>6. CASE CountIncoming /\ UNCHANGED rvars /\ Observe
  BY <1>6, CountIncomingAnswers
<1>7. CASE ListIncoming /\ UNCHANGED rvars /\ Observe
  BY <1>7, ListIncomingAnswers
<1>8. CASE QueryRejected /\ Observe
  BY <1>8, QueryRejectedAnswers
<1>9. CASE UNCHANGED answering /\ Observe
  BY <1>9, BesideAnswers
<1>10. CASE UNCHANGED qvars
  <2>1. UNCHANGED <<rows, users, relations, ask, stage, answer, total, left, quiet, met, sizes>>
    BY <1>10 DEF qvars, rvars, answering
  <2>2. QTypeOK' /\ Happened'
    BY <2>1 DEF QInv, QTypeOK, Happened, Matching, Exists
  <2>3. Exact'
    <3>1. /\ Matching(ask)' = Matching(ask)
          /\ \A r : Shown(r)' = Shown(r)
          /\ \A r, f : Listed(r, f)' = Listed(r, f)
      BY <2>1, SameTables
    <3>2. \A r, f : ListedRight(r, f)' <=> ListedRight(r, f)
      BY <2>1, <3>1 DEF CountedRight, ListedRight
    <3>3. CountedRight(Head(left)[1], Head(left)[2])' <=> CountedRight(Head(left)[1], Head(left)[2])
      BY <2>1 DEF CountedRight, Listed, Exists
    <3>. QED
      BY <2>1, <3>1, <3>2, <3>3 DEF QInv, Exact
  <2>. QED
    BY <2>2, <2>3 DEF QInv
<1>. QED
  BY <1>1, <1>2, <1>3, <1>4, <1>5, <1>6, <1>7, <1>8, <1>9, <1>10 DEF QNext

LEMMA AnswerInvariant == QSpec => [](RInv /\ ReadInv /\ QInv)
<1>1. RInv /\ QInv /\ [QNext]_qvars => QInv'
  BY NextAnswers
<1>. QED
  BY <1>1, InitAnswers, RecordsBesideQueries, PTL DEF QSpec

\* Whatever is written while a query is answered, each record of the answer met
\* the condition at some moment of the request, the total was right at some
\* moment, and no page is longer than its limit.
THEOREM WhatAnswersSayHappened == QSpec => []AnswersHappened
<1>1. QInv => AnswersHappened
  BY DEF QInv, Happened, AnswersHappened, Answering
<1>. QED
  BY <1>1, AnswerInvariant, PTL

\* A query during which nobody writes is answered as by one statement: a page of
\* the records that meet the condition, their number, and for each its data, what
\* it links and how many and which records link it.
THEOREM QuietAnswersAreExact == QSpec => []QuietAnswerIsExact
<1>1. RInv /\ ReadInv /\ QInv => QuietAnswerIsExact
  <2>1. SUFFICES ASSUME RInv, ReadInv, QInv, stage = "answered", quiet
                 PROVE  QuietAnswerIsExact
    BY DEF QuietAnswerIsExact
  <2>2. /\ DOMAIN answer \subseteq Matching(ask) /\ left = <<>> /\ DOMAIN answer \subseteq Records
        /\ ask.action # "get" => total = Cardinality(Matching(ask))
        /\ ask.action = "getAll" =>
             Cardinality(DOMAIN answer) = PageLength(ask, Cardinality(Matching(ask)))
        /\ \A r \in DOMAIN answer : answer[r].data = rows[r]
    BY <2>1 DEF QInv, QTypeOK, Exact, Answering
  <2>3. ASSUME NEW r \in DOMAIN answer, ask.additional, NEW f \in IncomingFields
        PROVE  /\ answer[r].list[f] = {x \in Records : Exists(x) /\ rows[x][f] = r}
               /\ answer[r].count[f] = Cardinality(answer[r].list[f])
    <3>1. ListedRight(r, f)
      BY <2>1, <2>2, <2>3 DEF QInv, Exact, Answering, Filled
    <3>. QED
      BY <3>1 DEF ListedRight, CountedRight, Listed
  <2>4. ASSUME NEW r \in DOMAIN answer, ask.action = "getAll", Settled(r)
        PROVE  answer[r].include = [f \in {g \in ask.include : Found(g, rows[r][g])} |-> rows[r][f]]
    <3>1. answer[r].include \in Shown(r)
      BY <2>1, <2>4 DEF QInv, Exact, Answering, Filled
    <3>2. r \in Records /\ Exists(r)
      BY <2>2, <2>4 DEF Matching
    <3>3. ask.include \subseteq Fields
      BY <2>1, QueriesAssumption DEF QInv, QTypeOK
    <3>4. \A f \in Fields : AgreesOn(r, f)
      BY <2>1, <2>4, <3>2 DEF ReadInv, FieldsAgree, Settled, NotPending, AtRest, InLoop, Working
    <3>5. \A f, v : Found(f, v) => v \in Links
      BY <2>1 DEF Found, Links, RInv, RTypeOK
    <3>6. \A f \in Fields : \A v : v \in Included(r, f) <=> Found(f, v) /\ rows[r][f] = v
      <4>1. \A f, v : v \in Included(r, f) <=> v # None /\ Linked(r, f, v)
        BY DEF Included, Linked
      <4>2. \A f, v : Linked(r, f, v) /\ v # None => v \in Links
        BY <2>1 DEF Linked, RInv, RTypeOK
      <4>. QED
        BY <3>4, <3>5, <4>1, <4>2, MarksAssumption DEF AgreesOn
    <3>7. {f \in ask.include : Included(r, f) # {}} = {g \in ask.include : Found(g, rows[r][g])}
      BY <3>3, <3>6
    <3>8. PICK filled : filled = {g \in ask.include : Found(g, rows[r][g])}
      OBVIOUS
    <3>9. /\ answer[r].include \in [filled -> Links]
          /\ \A f \in filled : answer[r].include[f] \in Included(r, f)
      BY <3>1, <3>7, <3>8 DEF Shown
    <3>10. answer[r].include = [f \in filled |-> rows[r][f]]
      BY <3>3, <3>6, <3>8, <3>9
    <3>. QED
      BY <3>8, <3>10
  <2>. QED
    BY <2>1, <2>2, <2>3, <2>4 DEF QuietAnswerIsExact
<1>. QED
  BY <1>1, AnswerInvariant, PTL
=============================================================================
