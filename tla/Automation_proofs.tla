-------------------------- MODULE Automation_proofs --------------------------
(***************************************************************************)
(* Proofs about the listener on top of the scheduler, for any events,      *)
(* actions, edits of the workspace, ticks and bounds: the composition      *)
(* implements ScheduledActions, and an event has one effect at most for an *)
(* action that is not recurrent.                                           *)
(*                                                                         *)
(* The first needs only the listener's own bookkeeping: the action whose   *)
(* turn it is belongs to the workspace, and its time is one the scheduler  *)
(* knows.  The second joins the two halves: until the turn of an action is *)
(* over the handler has had no effect for it and its row does not exist,   *)
(* and no tick and no PATCH ever gives a row that does not exist a status. *)
(***************************************************************************)
EXTENDS Automation, ScheduledActions_proofs, WellFoundedInduction

-----------------------------------------------------------------------------
(* The bookkeeping of the listener.                                         *)

\* A set of numbers that is not empty has its minimum for a member.
LEMMA LeastIsMember ==
  ASSUME NEW S \in SUBSET Nat, S # {}
  PROVE  Min(S) \in S
<1>1. IsWellFoundedOn(OpToRel(<, Nat), Nat)
  BY NatLessThanWellFounded
<1>2. \E x \in S : \A y \in S : ~(<<y, x>> \in OpToRel(<, Nat))
  BY <1>1, WFMin
<1>3. \A x, y \in Nat : <<y, x>> \in OpToRel(<, Nat) <=> y < x
  BY DEF OpToRel
<1>4. PICK x \in S : \A y \in S : ~(<<y, x>> \in OpToRel(<, Nat))
  BY <1>2
<1>5. \A y \in S : ~(y < x)
  BY <1>3, <1>4, Zenon
<1>6. \E z \in S : \A y \in S : z <= y
  BY <1>5, SMT
<1>. QED
  BY <1>6, Zenon DEF Min

Stages   == {"none", "committed", "find", "loop", "exec", "schedule", "done", "lost"}
Entities == [id : {"workspace"}, active : SUBSET Actions]
Turns    == [action : Nat, at : Int]

LType ==
  /\ workspace \in [exists : BOOLEAN, active : SUBSET Actions]
  /\ edit \in [Editors -> {Fresh, Answered} \cup Entities]
  /\ pc \in [Events -> Stages]
  /\ todo \in [Events -> SUBSET Actions]
  /\ current \in [Events -> Turns]
  /\ immediate \in [Ids -> 0..2]
  /\ now \in 0..MaxNow

\* A handler in its loop has an action left, the one it awaits is one of
\* them, and what it hands to scheduleAction is a time of the scheduler's.
TurnOf(e) ==
  /\ pc[e] \in {"loop", "exec", "schedule"} => todo[e] # {}
  /\ pc[e] \in {"exec", "schedule"} => current[e].action \in todo[e]
  /\ pc[e] = "schedule" => current[e].at \in Times

LInv == LType /\ \A e \in Events : TurnOf(e)

\* The state in which the composition starts has it.
LEMMA InitLInv == AInit => LInv
<1>. SUFFICES ASSUME AInit PROVE LInv
  OBVIOUS
<1>1. edit \in [Editors -> {Fresh, Answered} \cup Entities]
  BY DEF AInit
<1>2. current \in [Events -> Turns]
  BY DEF AInit, NoAction, Turns
<1>3. LType
  BY <1>1, <1>2, BoundsAssumption DEF AInit, Init, LType, Stages
<1>4. \A e \in Events : TurnOf(e)
  BY DEF AInit, TurnOf
<1>. QED
  BY <1>3, <1>4 DEF LInv

\* A step of one handler keeps what holds of the others.
LEMMA AdvanceKeeps ==
  ASSUME LInv, NEW e \in Events, NEW rest \in SUBSET Actions, Advance(e, rest)
  PROVE  /\ pc' \in [Events -> Stages]
         /\ todo' \in [Events -> SUBSET Actions]
         /\ current' \in [Events -> Turns]
         /\ \A f \in Events : TurnOf(f)'
<1>1. NoAction \in Turns
  BY DEF NoAction, Turns
<1>2. pc' \in [Events -> Stages]
  BY DEF Advance, LInv, LType, Stages
<1>3. todo' \in [Events -> SUBSET Actions]
  BY DEF Advance, LInv, LType
<1>4. current' \in [Events -> Turns]
  BY <1>1 DEF Advance, LInv, LType
<1>5. \A f \in Events : TurnOf(f)'
  BY DEF Advance, LInv, LType, TurnOf
<1>. QED
  BY <1>2, <1>3, <1>4, <1>5

\* The action whose turn comes is one that is left.
LEMMA TurnIsOwn ==
  ASSUME LInv, NEW e \in Events, pc[e] = "loop"
  PROVE  Turn(e) \in todo[e] /\ Turn(e) \in Actions /\ Turn(e) \in Nat
<1>1. todo[e] \in SUBSET Nat /\ todo[e] # {} /\ todo[e] \subseteq Actions
  BY ActionsAssumption DEF LInv, LType, TurnOf
<1>2. Min(todo[e]) \in todo[e]
  BY <1>1, LeastIsMember
<1>. QED
  BY <1>1, <1>2 DEF Turn

\* The time that the switch gives an action is one the scheduler knows.
LEMMA TimeIsKnown ==
  ASSUME now \in 0..MaxNow, NEW e \in Events, NEW a \in Actions,
         Decision(e, a) # "skip"
  PROVE  /\ Decision(e, a) \in {"exec", "schedule"}
         /\ TimeOf(e, a) \in Int
         /\ Decision(e, a) = "schedule" => TimeOf(e, a) \in Times
<1>. DEFINE i == <<e, a>>
<1>0. i \in Ids
  BY KeysAssumption
<1>1. Time[i] \in Nat \cup {Invalid, Now} /\ Recurrence[i] \in Int \cup {OneTime}
  BY <1>0, TimeAssumption, RecurrenceAssumption
<1>2. /\ ScheduleType[a] = "recurrent" <=> Recurrence[i] # OneTime
      /\ ScheduleType[a] # "recurrent" => Time[i] # Now
  BY TypesAssumption
<1>3. /\ Time[i] \in Nat => Time[i] \in Times
      /\ Recurrence[i] # OneTime /\ Time[i] = Now => now + Recurrence[i] \in Times
      /\ Recurrence[i] # OneTime /\ Time[i] \in Nat => Time[i] + Recurrence[i] \in Times
  BY <1>0, FirstAssumption
<1>4. now \in Nat
  BY BoundsAssumption
<1>. HIDE DEF i
<1>5. CASE Decision(e, a) = "exec"
  <2>1. TimeOf(e, a) = now
    BY <1>5, Zenon DEF TimeOf
  <2>. QED
    BY <1>4, <1>5, <2>1
<1>6. CASE ScheduleType[a] = "scheduled" /\ Decision(e, a) # "exec"
  <2>1. Time[i] # Invalid /\ Decision(e, a) = "schedule"
    BY <1>6, Zenon DEF Decision, i
  <2>2. Time[i] \in Times
    BY <1>1, <1>2, <1>3, <1>6, <2>1
  <2>3. TimeOf(e, a) = Time[i]
    BY <1>6, <2>1 DEF TimeOf, i
  <2>. QED
    BY <2>1, <2>2, <2>3, TimesAssumption
<1>7. CASE ScheduleType[a] = "recurrent"
  <2>1. Time[i] # Invalid /\ Decision(e, a) = "schedule"
    BY <1>7 DEF Decision, i
  <2>2. FirstExecution(i) \in Times
    BY <1>1, <1>2, <1>3, <1>7, <2>1 DEF FirstExecution
  <2>3. TimeOf(e, a) = FirstExecution(i)
    BY <1>7, <2>1 DEF TimeOf, i
  <2>. QED
    BY <2>1, <2>2, <2>3, TimesAssumption
<1>8. CASE ScheduleType[a] \notin {"scheduled", "recurrent"} /\ Decision(e, a) # "exec"
  BY <1>8 DEF Decision
<1>. QED
  BY <1>5, <1>6, <1>7, <1>8

\* The end of a turn, whatever the turn did.
LEMMA EndTurnKeeps ==
  ASSUME LInv, NEW e \in Events, EndTurn(e)
  PROVE  /\ pc' \in [Events -> Stages]
         /\ todo' \in [Events -> SUBSET Actions]
         /\ current' \in [Events -> Turns]
         /\ \A f \in Events : TurnOf(f)'
<1>1. todo[e] \ {current[e].action} \in SUBSET Actions
  BY DEF LInv, LType
<1>2. Advance(e, todo[e] \ {current[e].action})
  BY DEF EndTurn
<1>. QED
  BY <1>1, <1>2, AdvanceKeeps

\* The handler's own call of executeAction counts for its pair alone.
LEMMA DeliversNowKeeps ==
  ASSUME LInv, NEW i, DeliversNow(i)
  PROVE  /\ immediate' \in [Ids -> 0..2]
         /\ i \in Ids /\ immediate[i] = 0 => immediate'[i] <= 1
         /\ \A j \in Ids \ {i} : immediate'[j] = immediate[j]
<1>1. immediate \in [Ids -> 0..2]
  BY DEF LInv, LType
<1>2. \/ immediate' = [immediate EXCEPT ![i] = @]
      \/ immediate' = [immediate EXCEPT ![i] = IF @ = 0 THEN 1 ELSE 2]
  BY Zenon DEF DeliversNow
<1>. QED
  BY <1>1, <1>2

\* What the workspace gives to an event are actions of its own.
LEMMA MatchingType ==
  ASSUME LInv, NEW e \in Events
  PROVE  Matching(e) \in SUBSET Actions
BY DEF LInv, LType, Matching

\* The clock stops at its bound, and only the clock changes the time.
LEMMA NowStep ==
  ASSUME LInv, SchedulerStep \/ CrashAll
  PROVE  now' \in 0..MaxNow
<1>1. now \in 0..MaxNow /\ MaxNow \in Nat
  BY BoundsAssumption DEF LInv, LType
<1>2. CASE Clock
  BY <1>1, <1>2 DEF Clock
<1>3. ASSUME NEW t \in Ticks, IntervalFires(t) PROVE now' = now
  BY <1>3 DEF IntervalFires
<1>4. ASSUME NEW t \in Ticks, TickStep(t) PROVE now' = now
  BY <1>4 DEF TickStep, FindPending, FindRejected, BeginAction, ActionReturns,
              ActionThrows, SaveOutcome, SaveRejected, SaveFailedRejected
<1>5. ASSUME NEW p \in Patchers, PatchStep(p) PROVE now' = now
  BY <1>5 DEF PatchStep, UpdateEventStatusRead, UpdateEventStatusSave,
              UpdateEventStatusRejected
<1>6. CASE CrashAll
  BY <1>1, <1>6 DEF CrashAll, Crash
<1>. QED
  BY <1>1, <1>2, <1>3, <1>4, <1>5, <1>6 DEF SchedulerStep

\* The bookkeeping is kept by every step.
LEMMA LInvStep == LInv /\ [ANext]_avars => LInv'
<1>. SUFFICES ASSUME LInv, [ANext]_avars PROVE LInv'
  OBVIOUS
<1>0. now \in 0..MaxNow
  BY DEF LInv, LType
<1>1. CASE SchedulerStep
  BY <1>1, NowStep DEF SchedulerStep, LInv, LType, TurnOf, listener
<1>2. CASE CrashAll
  <2>1. edit' \in [Editors -> {Fresh, Answered} \cup Entities]
    BY <1>2 DEF CrashAll
  <2>2. current' \in [Events -> Turns] /\ todo' \in [Events -> SUBSET Actions]
    BY <1>2 DEF CrashAll, Turns, NoAction
  <2>3. pc' \in [Events -> Stages]
    BY <1>2 DEF CrashAll, Stages
  <2>4. \A e \in Events : TurnOf(e)'
    BY <1>2 DEF CrashAll, TurnOf
  <2>. QED
    BY <1>2, <2>1, <2>2, <2>3, <2>4, NowStep DEF CrashAll, LInv, LType
<1>3. ASSUME NEW e \in Events, CommitRecord(e) \/ EmitRecordEvent(e) \/ FindWorkspaceRejected(e)
      PROVE  LInv'
  <2>1. PICK s \in {"committed", "find", "lost"} : pc' = [pc EXCEPT ![e] = s]
    BY <1>3 DEF CommitRecord, EmitRecordEvent, FindWorkspaceRejected
  <2>2. UNCHANGED <<vars, workspace, edit, todo, current, immediate>>
    BY <1>3 DEF CommitRecord, EmitRecordEvent, FindWorkspaceRejected
  <2>3. pc' \in [Events -> Stages]
    BY <2>1 DEF LInv, LType, Stages
  <2>4. \A f \in Events : TurnOf(f)'
    BY <2>1, <2>2 DEF LInv, LType, TurnOf
  <2>. QED
    BY <2>2, <2>3, <2>4 DEF LInv, LType, vars
<1>4. ASSUME NEW e \in Events, FindWorkspace(e) PROVE LInv'
  <2>1. Advance(e, Matching(e)) /\ UNCHANGED <<vars, workspace, edit, immediate>>
    BY <1>4 DEF FindWorkspace
  <2>. QED
    BY <2>1, MatchingType, AdvanceKeeps DEF LInv, LType, vars
<1>5. ASSUME NEW e \in Events, StartAction(e) PROVE LInv'
  <2>. DEFINE a == Turn(e)
  <2>1. a \in todo[e] /\ a \in Actions /\ a \in Nat /\ pc[e] = "loop"
    BY <1>5, TurnIsOwn DEF StartAction
  <2>2. UNCHANGED <<vars, workspace, edit, immediate>>
    BY <1>5 DEF StartAction
  <2>3. CASE Decision(e, a) = "skip"
    <3>1. Advance(e, todo[e] \ {a})
      BY <1>5, <2>3 DEF StartAction
    <3>2. todo[e] \ {a} \in SUBSET Actions
      BY DEF LInv, LType
    <3>. QED
      BY <2>2, <3>1, <3>2, AdvanceKeeps DEF LInv, LType, vars
  <2>4. CASE Decision(e, a) # "skip"
    <3>1. /\ Decision(e, a) \in {"exec", "schedule"}
          /\ TimeOf(e, a) \in Int
          /\ Decision(e, a) = "schedule" => TimeOf(e, a) \in Times
      BY <1>0, <2>1, <2>4, TimeIsKnown
    <3>2. /\ pc' = [pc EXCEPT ![e] = Decision(e, a)]
          /\ current' = [current EXCEPT ![e] = [action |-> a, at |-> TimeOf(e, a)]]
          /\ todo' = todo
      BY <1>5, <2>4 DEF StartAction
    <3>. HIDE DEF a
    <3>3. PICK turn : turn = [action |-> a, at |-> TimeOf(e, a)]
      OBVIOUS
    <3>4. turn \in Turns /\ turn.action = a /\ turn.at = TimeOf(e, a)
      BY <2>1, <3>1, <3>3 DEF Turns
    <3>5. current' = [current EXCEPT ![e] = turn]
      BY <3>2, <3>3
    <3>6. pc' \in [Events -> Stages] /\ current' \in [Events -> Turns]
      BY <3>1, <3>2, <3>4, <3>5 DEF LInv, LType, Stages
    <3>7. \A f \in Events : TurnOf(f)'
      BY <2>1, <3>1, <3>2, <3>4, <3>5 DEF LInv, LType, TurnOf
    <3>. QED
      BY <2>2, <3>2, <3>6, <3>7 DEF LInv, LType, vars
  <2>. QED
    BY <2>3, <2>4
<1>6. ASSUME NEW e \in Events, ExecuteNow(e) PROVE LInv'
  <2>1. EndTurn(e) /\ UNCHANGED <<vars, workspace, edit>>
    BY <1>6 DEF ExecuteNow
  <2>2. DeliversNow(<<e, current[e].action>>)
    BY <1>6 DEF ExecuteNow
  <2>3. immediate' \in [Ids -> 0..2]
    BY <2>2, DeliversNowKeeps
  <2>. QED
    BY <2>1, <2>3, EndTurnKeeps DEF LInv, LType, vars
<1>7. ASSUME NEW e \in Events, ScheduleNow(e) \/ ScheduleRejected(e) PROVE LInv'
  <2>1. EndTurn(e) /\ UNCHANGED <<now, workspace, edit, immediate>>
    BY <1>7 DEF ScheduleNow, ScheduleAction, ScheduleRejected, vars
  <2>. QED
    BY <2>1, EndTurnKeeps DEF LInv, LType
<1>8. ASSUME NEW w \in Editors, UpdateWorkspaceRead(w) PROVE LInv'
  <2>1. PICK active \in {workspace.active} \cup SUBSET Actions :
          edit' = [edit EXCEPT ![w] = [id |-> "workspace", active |-> active]]
    BY <1>8 DEF UpdateWorkspaceRead
  <2>2. [id |-> "workspace", active |-> active] \in Entities
    BY DEF LInv, LType, Entities
  <2>3. edit' \in [Editors -> {Fresh, Answered} \cup Entities]
    BY <2>1, <2>2 DEF LInv, LType
  <2>. QED
    BY <1>8, <2>3 DEF UpdateWorkspaceRead, LInv, LType, TurnOf, listener, vars
<1>9. ASSUME NEW w \in Editors, UpdateWorkspaceSave(w) PROVE LInv'
  <2>1. edit[w] \in Entities
    BY <1>9 DEF UpdateWorkspaceSave, LInv, LType
  <2>2. workspace' \in [exists : BOOLEAN, active : SUBSET Actions]
    BY <1>9, <2>1 DEF UpdateWorkspaceSave, Entities
  <2>3. edit' \in [Editors -> {Fresh, Answered} \cup Entities]
    BY <1>9 DEF UpdateWorkspaceSave, LInv, LType
  <2>. QED
    BY <1>9, <2>2, <2>3 DEF UpdateWorkspaceSave, LInv, LType, TurnOf, listener, vars
<1>10. CASE RemoveWorkspace
  <2>1. workspace' \in [exists : BOOLEAN, active : SUBSET Actions]
    BY <1>10 DEF RemoveWorkspace, LInv, LType
  <2>. QED
    BY <1>10, <2>1 DEF RemoveWorkspace, LInv, LType, TurnOf, listener, vars
<1>11. CASE UNCHANGED avars
  BY <1>11 DEF avars, vars, listener, LInv, LType, TurnOf
<1>. QED
  BY <1>1, <1>2, <1>3, <1>4, <1>5, <1>6, <1>7, <1>8, <1>9, <1>10, <1>11
  DEF ANext, Handle

\* The listener's bookkeeping holds of every behaviour.
LEMMA ListenerInvariant == ASpec => []LInv
BY InitLInv, LInvStep, PTL DEF ASpec

-----------------------------------------------------------------------------
(* The refinement.                                                          *)

\* A step of the composition is a step of the scheduler, or leaves it alone.
LEMMA StepRefines == LInv /\ [ANext]_avars => [Next]_vars
<1>. SUFFICES ASSUME LInv, [ANext]_avars PROVE [Next]_vars
  OBVIOUS
<1>1. CASE SchedulerStep
  BY <1>1 DEF SchedulerStep, Next, Run
<1>2. CASE CrashAll
  BY <1>2 DEF CrashAll, Next, Run
<1>3. ASSUME NEW e \in Events, ScheduleNow(e) PROVE Next
  <2>1. <<e, current[e].action>> \in Ids /\ current[e].at \in Times
    BY <1>3, KeysAssumption DEF ScheduleNow, LInv, LType, TurnOf
  <2>2. ScheduleAction(<<e, current[e].action>>, current[e].at)
    BY <1>3 DEF ScheduleNow
  <2>. QED
    BY <2>1, <2>2 DEF Next, Schedule
<1>4. ASSUME NEW e \in Events,
             CommitRecord(e) \/ EmitRecordEvent(e) \/ FindWorkspace(e)
               \/ FindWorkspaceRejected(e) \/ StartAction(e) \/ ExecuteNow(e)
               \/ ScheduleRejected(e)
      PROVE  UNCHANGED vars
  BY <1>4 DEF CommitRecord, EmitRecordEvent, FindWorkspace, FindWorkspaceRejected,
              StartAction, ExecuteNow, ScheduleRejected
<1>5. ASSUME NEW w \in Editors, UpdateWorkspaceRead(w) \/ UpdateWorkspaceSave(w)
      PROVE  UNCHANGED vars
  BY <1>5 DEF UpdateWorkspaceRead, UpdateWorkspaceSave
<1>6. CASE RemoveWorkspace
  BY <1>6 DEF RemoveWorkspace
<1>7. CASE UNCHANGED avars
  BY <1>7 DEF avars
<1>. QED
  BY <1>1, <1>2, <1>3, <1>4, <1>5, <1>6, <1>7 DEF ANext, Handle

\* The listener, whatever its events, the edits of its workspace and its
\* rejections, is a caller that the scheduler's specification allows: every
\* behaviour of the composition is one of ScheduledActions.
THEOREM ListenerUsesScheduler == ASpec => Spec
<1>1. AInit => Init
  BY DEF AInit
<1>. QED
  BY <1>1, StepRefines, ListenerInvariant, PTL DEF ASpec, Spec

-----------------------------------------------------------------------------
(* One effect per event.                                                    *)

\* A PATCH that will save has read a row that existed.
PatchesKnow ==
  \A p \in Patchers :
    patch[p] \notin {Fresh, Answered} /\ patch[p].id \notin raced
      => rows[patch[p].id].status # "none"

\* No step but scheduleAction's insert makes a row, and none takes one away.
KeepsRows ==
  /\ raced \subseteq raced'
  /\ \A i \in Ids \ raced' : rows'[i].status = "none" <=> rows[i].status = "none"

\* What a tick saves for a row that was not raced is a status of a row.
LEMMA SavedStatus ==
  ASSUME IInv, NEW t \in Ticks, NEW i \in Ids \ raced,
         stage[t][i] \in {"save", "catch"}
  PROVE  copy[t][i].status # "none" /\ rows[i].status # "none"
BY DEF IInv, AdvancedCopy, CountsRuns

\* So no step of a tick makes a row or takes one away.
LEMMA TickKeepsRows ==
  ASSUME IInv, NEW t \in Ticks, TickStep(t)
  PROVE  KeepsRows /\ patch' = patch
<1>0. raced \subseteq Ids /\ rows \in [Ids -> Rows]
  BY DEF IInv, TypeOK
<1>1. CASE FindPending(t)
  BY <1>1 DEF FindPending, KeepsRows
<1>2. CASE FindRejected(t)
  BY <1>2 DEF FindRejected, KeepsRows, history
<1>3. ASSUME NEW i \in Ids, BeginAction(t, i) \/ ActionReturns(t, i) \/ ActionThrows(t, i)
      PROVE  KeepsRows /\ patch' = patch
  BY <1>3 DEF BeginAction, ActionReturns, ActionThrows, KeepsRows, history
<1>4. ASSUME NEW i \in Ids, SaveOutcome(t, i) \/ SaveRejected(t, i) \/ SaveFailedRejected(t, i)
      PROVE  KeepsRows /\ patch' = patch
  <2>1. /\ rows' = rows \/ rows' = [rows EXCEPT ![i] = copy[t][i]]
        /\ stage[t][i] \in {"save", "catch"}
        /\ raced \subseteq raced'
        /\ patch' = patch
    BY <1>4 DEF SaveOutcome, SaveRejected, SaveFailedRejected, history
  <2>2. i \notin raced => copy[t][i].status # "none" /\ rows[i].status # "none"
    BY <2>1, SavedStatus
  <2>. QED
    BY <1>0, <2>1, <2>2 DEF KeepsRows
<1>. QED
  BY <1>1, <1>2, <1>3, <1>4 DEF TickStep

\* Nor does any other step of the scheduler; what waits to be saved was read.
LEMMA RunKeepsRows ==
  ASSUME IInv, PatchesKnow, Run
  PROVE  KeepsRows /\ PatchesKnow'
<1>0. /\ raced \subseteq Ids /\ rows \in [Ids -> Rows]
      /\ patch \in [Patchers -> {Fresh, Answered} \cup [id : Ids, row : Edited]]
  BY DEF IInv, TypeOK
<1>1. ASSUME KeepsRows,
             \A p \in Patchers : patch'[p] \in {patch[p], Fresh, Answered}
      PROVE  PatchesKnow'
  BY <1>0, <1>1 DEF KeepsRows, PatchesKnow
<1>2. CASE Clock
  <2>1. KeepsRows /\ patch' = patch
    BY <1>2 DEF Clock, KeepsRows, history
  <2>. QED
    BY <1>1, <2>1
<1>3. ASSUME NEW t \in Ticks, IntervalFires(t) \/ TickStep(t)
      PROVE  KeepsRows /\ PatchesKnow'
  <2>1. KeepsRows /\ patch' = patch
    BY <1>3, TickKeepsRows DEF IntervalFires, KeepsRows, history
  <2>. QED
    BY <1>1, <2>1
<1>4. ASSUME NEW p \in Patchers, NEW i \in Ids, NEW s \in PatchStatuses,
             UpdateEventStatusRead(p, i, s)
      PROVE  KeepsRows /\ PatchesKnow'
  <2>1. rows' = rows /\ raced' = raced /\ rows[i].status # "none"
    BY <1>4 DEF UpdateEventStatusRead
  <2>2. PICK entity : entity = [id |-> i, row |-> [rows[i] EXCEPT !.status = s]]
    OBVIOUS
  <2>3. patch' = [patch EXCEPT ![p] = entity] /\ entity.id = i
    BY <1>4, <2>2 DEF UpdateEventStatusRead
  <2>. QED
    BY <1>0, <2>1, <2>3 DEF KeepsRows, PatchesKnow
<1>5. ASSUME NEW p \in Patchers, UpdateEventStatusSave(p)
      PROVE  KeepsRows /\ PatchesKnow'
  <2>1. /\ patch[p] \notin {Fresh, Answered}
        /\ rows' = [rows EXCEPT ![patch[p].id] = patch[p].row]
        /\ raced \subseteq raced'
        /\ patch' = [patch EXCEPT ![p] = Answered]
    BY <1>5 DEF UpdateEventStatusSave
  <2>2. patch[p].id \in Ids /\ patch[p].row.status # "none"
    BY <1>0, <2>1, PatchAssumption DEF Edited
  <2>3. patch[p].id \notin raced => rows[patch[p].id].status # "none"
    BY <2>1 DEF PatchesKnow
  <2>4. KeepsRows
    BY <1>0, <2>1, <2>2, <2>3 DEF KeepsRows
  <2>5. \A q \in Patchers : patch'[q] \in {patch[q], Fresh, Answered}
    BY <1>0, <2>1
  <2>. QED
    BY <1>1, <2>4, <2>5
<1>6. ASSUME NEW p \in Patchers, UpdateEventStatusRejected(p)
      PROVE  KeepsRows /\ PatchesKnow'
  <2>1. KeepsRows /\ patch' = [patch EXCEPT ![p] = Answered]
    BY <1>6 DEF UpdateEventStatusRejected, KeepsRows, history
  <2>2. \A q \in Patchers : patch'[q] \in {patch[q], Fresh, Answered}
    BY <1>0, <2>1
  <2>. QED
    BY <1>1, <2>1, <2>2
<1>7. CASE Crash
  <2>1. rows' = rows
        /\ patch' = [p \in Patchers |-> IF patch[p] = Fresh THEN Fresh ELSE Answered]
    BY <1>7 DEF Crash
  <2>2. raced \subseteq raced'
    BY <1>7, Zenon DEF Crash
  <2>3. KeepsRows
    BY <2>1, <2>2 DEF KeepsRows
  <2>4. \A q \in Patchers : patch'[q] \in {patch[q], Fresh, Answered}
    BY <2>1
  <2>. QED
    BY <1>1, <2>3, <2>4
<1>. QED
  BY <1>2, <1>3, <1>4, <1>5, <1>6, <1>7 DEF Run, PatchStep

\* The turn of the action is still to come, or not over.
Ahead(e, a) == pc[e] \in {"none", "committed", "find"} \/ a \in todo[e]

\* Until then the pair has neither an effect nor a row; a pair with a row has
\* had no effect of the handler's own; and that effect happens once.
Effects ==
  \A e \in Events, a \in Actions : <<e, a>> \notin raced =>
    /\ Ahead(e, a) => immediate[<<e, a>>] = 0 /\ rows[<<e, a>>].status = "none"
    /\ rows[<<e, a>>].status # "none" => immediate[<<e, a>>] = 0
    /\ immediate[<<e, a>>] <= 1

EInv == IInv /\ LInv /\ PatchesKnow /\ Effects

LEMMA InitEInv == AInit => PatchesKnow /\ Effects
<1>. SUFFICES ASSUME AInit PROVE PatchesKnow /\ Effects
  OBVIOUS
<1>1. PatchesKnow
  BY DEF AInit, Init, PatchesKnow
<1>2. \A e \in Events, a \in Actions :
        immediate[<<e, a>>] = 0 /\ rows[<<e, a>>].status = "none"
  BY KeysAssumption DEF AInit, Init, NoRow
<1>. QED
  BY <1>1, <1>2 DEF Effects

\* A step that brings no turn forward again and has no effect of its own.
LEMMA QuietEffects ==
  ASSUME EInv, immediate' = immediate, KeepsRows,
         \A e \in Events, a \in Actions : Ahead(e, a)' => Ahead(e, a)
  PROVE  Effects'
<1>1. \A e \in Events, a \in Actions : <<e, a>> \in Ids
  BY KeysAssumption
<1>. QED
  BY <1>1 DEF EInv, Effects, KeepsRows

\* The turns that are ahead after the end of one: those that were, but it.
LEMMA EndTurnAhead ==
  ASSUME LInv, NEW e \in Events, EndTurn(e), pc[e] \in {"exec", "schedule"},
         NEW CONSTANT x, x = current[e].action
  PROVE  /\ x \in Actions
         /\ Ahead(e, x)
         /\ ~Ahead(e, x)'
         /\ \A f \in Events, a \in Actions : Ahead(f, a)' => Ahead(f, a)
<1>1. /\ pc \in [Events -> Stages] /\ todo \in [Events -> SUBSET Actions]
      /\ x \in todo[e]
  BY DEF LInv, LType, TurnOf
<1>2. /\ todo' = [todo EXCEPT ![e] = todo[e] \ {x}]
      /\ \/ pc' = [pc EXCEPT ![e] = "done"]
         \/ pc' = [pc EXCEPT ![e] = "loop"]
  BY Zenon DEF EndTurn, Advance
<1>. QED
  BY <1>1, <1>2 DEF Ahead

\* The handler executes the action itself: its turn is over, and it has no row.
LEMMA ExecuteNowEffects ==
  ASSUME EInv, NEW e \in Events, ExecuteNow(e)
  PROVE  Effects'
<1>0. PICK x : x = current[e].action
  OBVIOUS
<1>1. EndTurn(e) /\ pc[e] = "exec" /\ DeliversNow(<<e, x>>)
      /\ rows' = rows /\ raced' = raced
  BY <1>0 DEF ExecuteNow, vars, history
<1>2. /\ x \in Actions /\ Ahead(e, x) /\ ~Ahead(e, x)'
      /\ \A f \in Events, a \in Actions : Ahead(f, a)' => Ahead(f, a)
  BY <1>0, <1>1, EndTurnAhead DEF EInv
<1>3. /\ <<e, x>> \in Ids /\ immediate[<<e, x>>] = 0 => immediate'[<<e, x>>] <= 1
      /\ \A j \in Ids \ {<<e, x>>} : immediate'[j] = immediate[j]
  BY <1>1, DeliversNowKeeps DEF EInv
<1>4. \A f \in Events, a \in Actions : <<f, a>> \in Ids
  BY KeysAssumption
<1>. QED
  BY <1>1, <1>2, <1>3, <1>4 DEF EInv, Effects

\* The handler schedules the action: its turn is over, and it had no effect.
LEMMA ScheduleNowEffects ==
  ASSUME EInv, NEW e \in Events, ScheduleNow(e)
  PROVE  Effects' /\ PatchesKnow'
<1>0. PICK x : x = current[e].action
  OBVIOUS
<1>1. /\ EndTurn(e) /\ pc[e] = "schedule" /\ immediate' = immediate
      /\ ScheduleAction(<<e, x>>, current[e].at)
  BY <1>0 DEF ScheduleNow
<1>2. raced' = raced /\ patch' = patch
  BY <1>1 DEF ScheduleAction, history
<1>3. /\ x \in Actions /\ Ahead(e, x) /\ ~Ahead(e, x)'
      /\ \A f \in Events, a \in Actions : Ahead(f, a)' => Ahead(f, a)
  BY <1>0, <1>1, EndTurnAhead DEF EInv
<1>4. \A f \in Events, a \in Actions : <<f, a>> \in Ids
  BY KeysAssumption
<1>5. PICK row : row = [status |-> "pending", executeAt |-> current[e].at]
  OBVIOUS
<1>6. rows' = [rows EXCEPT ![<<e, x>>] = row] /\ row.status = "pending"
  BY <1>1, <1>5 DEF ScheduleAction
<1>7. rows \in [Ids -> Rows]
      /\ patch \in [Patchers -> {Fresh, Answered} \cup [id : Ids, row : Edited]]
  BY DEF EInv, IInv, TypeOK
<1>8. /\ rows'[<<e, x>>].status = "pending"
      /\ \A j \in Ids \ {<<e, x>>} : rows'[j] = rows[j]
  BY <1>3, <1>4, <1>6, <1>7
<1>9. Effects'
  BY <1>1, <1>2, <1>3, <1>4, <1>8 DEF EInv, Effects
<1>10. PatchesKnow'
  BY <1>2, <1>7, <1>8 DEF EInv, PatchesKnow
<1>. QED
  BY <1>9, <1>10

\* Every step keeps the two halves together.
LEMMA EInvStep == EInv /\ [ANext]_avars => EInv'
<1>. SUFFICES ASSUME EInv, [ANext]_avars PROVE EInv'
  OBVIOUS
<1>1. LInv' /\ IInv'
  BY LInvStep, StepRefines, NextStep DEF EInv
<1>2. ASSUME UNCHANGED vars, immediate' = immediate,
             \A e \in Events, a \in Actions : Ahead(e, a)' => Ahead(e, a)
      PROVE  Effects' /\ PatchesKnow'
  <2>1. KeepsRows /\ PatchesKnow'
    BY <1>2 DEF KeepsRows, PatchesKnow, EInv, vars, history
  <2>. QED
    BY <1>2, <2>1, QuietEffects
<1>3. CASE SchedulerStep \/ CrashAll
  <2>1. Run /\ immediate' = immediate
    BY <1>3 DEF SchedulerStep, CrashAll, Run, listener
  <2>2. \A e \in Events, a \in Actions : Ahead(e, a)' => Ahead(e, a)
    BY <1>3 DEF SchedulerStep, CrashAll, listener, Ahead
  <2>3. KeepsRows /\ PatchesKnow'
    BY <2>1, RunKeepsRows DEF EInv
  <2>. QED
    BY <1>1, <2>1, <2>2, <2>3, QuietEffects DEF EInv
<1>4. ASSUME NEW e \in Events,
             CommitRecord(e) \/ EmitRecordEvent(e) \/ FindWorkspace(e)
               \/ FindWorkspaceRejected(e) \/ StartAction(e) \/ ScheduleRejected(e)
      PROVE  EInv'
  <2>1. UNCHANGED vars /\ immediate' = immediate
    BY <1>4 DEF CommitRecord, EmitRecordEvent, FindWorkspace, FindWorkspaceRejected,
                StartAction, ScheduleRejected
  <2>2. \A f \in Events, a \in Actions : Ahead(f, a)' => Ahead(f, a)
    <3>1. CASE CommitRecord(e) \/ EmitRecordEvent(e) \/ FindWorkspaceRejected(e)
      BY <3>1 DEF CommitRecord, EmitRecordEvent, FindWorkspaceRejected, Ahead,
                  EInv, LInv, LType
    <3>2. CASE FindWorkspace(e)
      BY <3>2 DEF FindWorkspace, Advance, Ahead, EInv, LInv, LType
    <3>3. CASE StartAction(e)
      <4>1. \/ Advance(e, todo[e] \ {Turn(e)})
            \/ todo' = todo /\ pc' = [pc EXCEPT ![e] = Decision(e, Turn(e))]
        BY <3>3, Zenon DEF StartAction
      <4>2. pc[e] = "loop" /\ Decision(e, Turn(e)) \in {"exec", "schedule", "skip"}
        BY <3>3 DEF StartAction, Decision
      <4>. QED
        BY <4>1, <4>2 DEF Advance, Ahead, EInv, LInv, LType
    <3>4. CASE ScheduleRejected(e)
      <4>1. PICK x : x = current[e].action
        OBVIOUS
      <4>. QED
        BY <3>4, <4>1, EndTurnAhead DEF ScheduleRejected, EInv
    <3>. QED
      BY <1>4, <3>1, <3>2, <3>3, <3>4
  <2>. QED
    BY <1>1, <1>2, <2>1, <2>2 DEF EInv
<1>5. ASSUME NEW e \in Events, ExecuteNow(e) PROVE EInv'
  <2>1. PatchesKnow'
    BY <1>5 DEF ExecuteNow, vars, history, PatchesKnow, EInv
  <2>. QED
    BY <1>1, <1>5, <2>1, ExecuteNowEffects DEF EInv
<1>6. ASSUME NEW e \in Events, ScheduleNow(e) PROVE EInv'
  BY <1>1, <1>6, ScheduleNowEffects DEF EInv
<1>7. CASE \/ \E w \in Editors : UpdateWorkspaceRead(w) \/ UpdateWorkspaceSave(w)
           \/ RemoveWorkspace \/ UNCHANGED avars
  <2>1. UNCHANGED vars /\ UNCHANGED listener
    BY <1>7 DEF UpdateWorkspaceRead, UpdateWorkspaceSave, RemoveWorkspace, avars
  <2>2. \A e \in Events, a \in Actions : Ahead(e, a)' => Ahead(e, a)
    BY <2>1 DEF listener, Ahead
  <2>. QED
    BY <1>1, <1>2, <2>1, <2>2 DEF EInv, listener
<1>. QED
  BY <1>3, <1>4, <1>5, <1>6, <1>7 DEF ANext, Handle

\* The handler's own call of executeAction and the calls of the ticks, counted
\* together, have one effect at most for an event and an action that is not
\* recurrent, outside the four races of the scheduler: an action that the
\* handler ran is not scheduled, and one it scheduled it does not run.
THEOREM EventHasOneEffect == ASpec => []OneEffectPerEvent
<1>1. AInit => EInv
  BY InitLInv, InitIInv, InitEInv DEF AInit, EInv
<1>2. EInv => OneEffectPerEvent
  <2>. SUFFICES ASSUME EInv, NEW i \in Ids, Recurrence[i] = OneTime, i \notin raced
                PROVE  immediate[i] + delivered[i] <= 1
    BY DEF OneEffectPerEvent
  <2>1. PICK e \in Events, a \in Actions : i = <<e, a>>
    BY KeysAssumption
  <2>2. immediate[i] \in 0..2 /\ delivered[i] \in 0..2
    BY DEF EInv, LInv, LType, IInv, TypeOK
  <2>3. immediate[i] <= 1 /\ (rows[i].status # "none" => immediate[i] = 0)
    BY <2>1 DEF EInv, Effects
  <2>4. delivered[i] <= 1
    BY DEF EInv, IInv, AtMostOnce
  <2>5. rows[i].status = "none" => delivered[i] = 0
    BY DEF EInv, IInv, CountsRuns
  <2>. QED
    BY <2>2, <2>3, <2>4, <2>5
<1>. QED
  BY <1>1, <1>2, EInvStep, PTL DEF ASpec
=============================================================================
