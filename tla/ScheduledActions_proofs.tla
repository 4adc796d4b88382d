----------------------- MODULE ScheduledActions_proofs -----------------------
(* Proofs about ScheduledActions for all rows, ticks, requests and bounds.   *)
EXTENDS ScheduledActions, TLAPS

\* The initial state satisfies the inductive invariant.
LEMMA InitIInv == Init => IInv
<1>1. SUFFICES ASSUME Init PROVE IInv
  OBVIOUS
<1>2. TypeOK
  <2>1. rows \in [Ids -> Rows] /\ copy \in [Ticks -> [Ids -> Rows]]
    BY <1>1 DEF Init, Rows, NoRow, Statuses
  <2>2. patch \in [Patchers -> {Fresh, Answered} \cup [id : Ids, row : Edited]]
    BY <1>1 DEF Init
  <2>3. lastRun \in [Ids -> Nat \cup {Never}] /\ delivered \in [Ids -> 0..2]
    BY <1>1 DEF Init, Never
  <2>4. asked \in [Ids -> SUBSET PatchStatuses]
    BY <1>1 DEF Init
  <2>5. /\ phase \in [Ticks -> {"idle", "find", "loop"}]
        /\ start \in [Ticks -> Nat]
        /\ stage \in [Ticks -> [Ids -> {"out", "queued", "exec", "save", "catch"}]]
    BY <1>1 DEF Init
  <2>6. \A t \in Ticks : phase[t] = "loop" <=> \E i \in Ids : stage[t][i] # "out"
    BY <1>1 DEF Init
  <2>. QED
    BY <1>1, <2>1, <2>2, <2>3, <2>4, <2>5, <2>6 DEF Init, TypeOK
<1>3. SingleHolder /\ FreshCopy /\ AdvancedCopy /\ HeldIsDue
  BY <1>1 DEF Init, SingleHolder, FreshCopy, AdvancedCopy, HeldIsDue
<1>4. RowRested /\ CountsRuns /\ AtMostOnce /\ Sequential
  BY <1>1 DEF Init, RowRested, CountsRuns, AtMostOnce, Sequential, NoRow
<1>. QED
  BY <1>2, <1>3, <1>4 DEF IInv

-----------------------------------------------------------------------------
(* Types.                                                                   *)

\* What the try block and the catch block make of a copy is again a row.
LEMMA CopyStaysRow ==
  ASSUME TypeOK, NEW t \in Ticks, NEW i \in Ids
  PROVE  /\ Processed(t, i) \in Rows
         /\ Failed(t, i) \in Rows
         /\ copy[t][i] \in Rows
<1>1. copy[t][i] \in Rows /\ start[t] \in Nat
  BY DEF TypeOK
<1>2. Failed(t, i) \in Rows
  BY <1>1 DEF Failed, Rows, Statuses
<1>3. CASE Recurrence[i] = OneTime
  BY <1>1, <1>2, <1>3 DEF Processed, Rows, Statuses
<1>4. CASE Recurrence[i] # OneTime
  <2>1. start[t] + Recurrence[i] \in Int
    BY <1>1, <1>4, RecurrenceAssumption
  <2>. QED
    BY <1>1, <1>2, <1>4, <2>1 DEF Processed, Rows
<1>. QED
  BY <1>3, <1>4

\* Ending a tick keeps the tick variables well typed.
LEMMA EndTickType ==
  ASSUME TypeOK, NEW t \in Ticks, EndTick(t)
  PROVE  /\ phase' \in [Ticks -> {"idle", "find", "loop"}]
         /\ start' \in [Ticks -> Nat]
         /\ stage' \in [Ticks -> [Ids -> {"out", "queued", "exec", "save", "catch"}]]
         /\ copy' \in [Ticks -> [Ids -> Rows]]
         /\ \A u \in Ticks : phase'[u] = "loop" <=> \E i \in Ids : stage'[u][i] # "out"
<1>1. NoRow \in Rows
  BY DEF NoRow, Rows, Statuses
<1>2. copy' \in [Ticks -> [Ids -> Rows]]
  BY <1>1 DEF TypeOK, EndTick
<1>3. /\ phase' \in [Ticks -> {"idle", "find", "loop"}]
      /\ start' \in [Ticks -> Nat]
      /\ stage' \in [Ticks -> [Ids -> {"out", "queued", "exec", "save", "catch"}]]
  BY DEF TypeOK, EndTick
<1>4. \A u \in Ticks : phase'[u] = "loop" <=> \E i \in Ids : stage'[u][i] # "out"
  BY DEF TypeOK, EndTick
<1>. QED
  BY <1>2, <1>3, <1>4

\* So does leaving one row of the queue.
LEMMA LeaveType ==
  ASSUME TypeOK, NEW t \in Ticks, NEW i \in Ids, Leave(t, i), stage[t][i] # "out"
  PROVE  /\ phase' \in [Ticks -> {"idle", "find", "loop"}]
         /\ start' \in [Ticks -> Nat]
         /\ stage' \in [Ticks -> [Ids -> {"out", "queued", "exec", "save", "catch"}]]
         /\ copy' \in [Ticks -> [Ids -> Rows]]
         /\ \A u \in Ticks : phase'[u] = "loop" <=> \E j \in Ids : stage'[u][j] # "out"
<1>1. CASE EndTick(t)
  BY <1>1, EndTickType
<1>2. CASE ~ \A j \in Ids \ {i} : stage[t][j] = "out"
  <2>1. /\ stage' = [stage EXCEPT ![t][i] = "out"]
        /\ copy' = [copy EXCEPT ![t][i] = NoRow]
        /\ phase' = phase /\ start' = start
    BY <1>2 DEF Leave
  <2>2. copy' \in [Ticks -> [Ids -> Rows]]
    BY <2>1 DEF TypeOK, NoRow, Rows, Statuses
  <2>3. stage' \in [Ticks -> [Ids -> {"out", "queued", "exec", "save", "catch"}]]
    BY <2>1 DEF TypeOK
  <2>4. \A u \in Ticks : phase'[u] = "loop" <=> \E j \in Ids : stage'[u][j] # "out"
    BY <1>2, <2>1 DEF TypeOK
  <2>. QED
    BY <2>1, <2>2, <2>3, <2>4 DEF TypeOK
<1>. QED
  BY <1>1, <1>2 DEF Leave

\* Every step keeps the type invariant.
LEMMA TypeStep == TypeOK /\ [Next]_vars => TypeOK'
<1>. SUFFICES ASSUME TypeOK, [Next]_vars PROVE TypeOK'
  OBVIOUS
<1>1. CASE Clock
  <2>1. now' \in Nat /\ timerDue' \in BOOLEAN
    BY <1>1, BoundsAssumption DEF Clock, TypeOK
  <2>. QED
    BY <1>1, <2>1 DEF Clock, TypeOK, tick, history
<1>2. ASSUME NEW i \in Ids, NEW at \in Times, ScheduleAction(i, at)
      PROVE  TypeOK'
  <2>1. rows' \in [Ids -> Rows]
    BY <1>2, TimesAssumption DEF ScheduleAction, TypeOK, Rows, Statuses
  <2>. QED
    BY <1>2, <2>1 DEF ScheduleAction, TypeOK, tick, history
<1>3. ASSUME NEW t \in Ticks, IntervalFires(t) PROVE TypeOK'
  <2>1. phase' \in [Ticks -> {"idle", "find", "loop"}] /\ start' \in [Ticks -> Nat]
    BY <1>3 DEF IntervalFires, TypeOK
  <2>2. \A u \in Ticks : phase'[u] = "loop" <=> \E i \in Ids : stage'[u][i] # "out"
    BY <1>3 DEF IntervalFires, TypeOK
  <2>. QED
    BY <1>3, <2>1, <2>2 DEF IntervalFires, TypeOK, history
<1>4. ASSUME NEW t \in Ticks, FindPending(t) PROVE TypeOK'
  <2>. DEFINE found == Due(start[t])
  <2>1. found \subseteq Ids
    BY DEF Due
  <2>2. raced' \subseteq Ids
    BY <1>4, <2>1 DEF FindPending, TypeOK
  <2>3. CASE found = {}
    <3>1. EndTick(t)
      BY <1>4, <2>3 DEF FindPending
    <3>. QED
      BY <1>4, <2>2, <3>1, EndTickType DEF FindPending, TypeOK
  <2>4. CASE found # {}
    <3>1. /\ phase' = [phase EXCEPT ![t] = "loop"]
          /\ stage' = [stage EXCEPT ![t] =
               [i \in Ids |-> IF i \in found THEN "queued" ELSE "out"]]
          /\ copy' = [copy EXCEPT ![t] =
               [i \in Ids |-> IF i \in found THEN rows[i] ELSE NoRow]]
          /\ start' = start
      BY <1>4, <2>4 DEF FindPending
    <3>2. copy' \in [Ticks -> [Ids -> Rows]]
      BY <3>1 DEF TypeOK, NoRow, Rows, Statuses
    <3>3. /\ phase' \in [Ticks -> {"idle", "find", "loop"}]
          /\ stage' \in [Ticks -> [Ids -> {"out", "queued", "exec", "save", "catch"}]]
      BY <3>1 DEF TypeOK
    <3>4. \A u \in Ticks : phase'[u] = "loop" <=> \E i \in Ids : stage'[u][i] # "out"
      BY <3>1, <2>1, <2>4 DEF TypeOK
    <3>. QED
      BY <1>4, <2>2, <3>1, <3>2, <3>3, <3>4 DEF FindPending, TypeOK
  <2>. QED
    BY <2>3, <2>4
<1>5. ASSUME NEW t \in Ticks, FindRejected(t) PROVE TypeOK'
  BY <1>5, EndTickType DEF FindRejected, TypeOK, history
<1>6. ASSUME NEW t \in Ticks, NEW i \in Ids, BeginAction(t, i) PROVE TypeOK'
  <2>0. \/ stage' = [stage EXCEPT ![t][i] = "exec"] /\ copy' = copy
        \/ /\ stage' = [stage EXCEPT ![t][i] = "save"]
           /\ copy' = [copy EXCEPT ![t][i] = Processed(t, i)]
    BY <1>6, Zenon DEF BeginAction
  <2>1. copy' \in [Ticks -> [Ids -> Rows]]
    <3>1. copy[t][i] \in Rows /\ Processed(t, i) \in Rows
      BY CopyStaysRow
    <3>2. CASE copy' = copy
      BY <3>2 DEF TypeOK
    <3>3. CASE copy' = [copy EXCEPT ![t][i] = Processed(t, i)]
      BY <3>1, <3>3 DEF TypeOK
    <3>. QED
      BY <2>0, <3>2, <3>3
  <2>2. stage' \in [Ticks -> [Ids -> {"out", "queued", "exec", "save", "catch"}]]
    <3>1. ASSUME NEW s \in {"exec", "save"}, stage' = [stage EXCEPT ![t][i] = s]
          PROVE  stage' \in [Ticks -> [Ids -> {"out", "queued", "exec", "save", "catch"}]]
      BY <3>1 DEF TypeOK
    <3>. QED
      BY <2>0, <3>1
  <2>3. \A u \in Ticks : phase'[u] = "loop" <=> \E j \in Ids : stage'[u][j] # "out"
    BY <1>6, <2>0 DEF BeginAction, TypeOK
  <2>. QED
    BY <1>6, <2>1, <2>2, <2>3 DEF BeginAction, TypeOK, history
<1>7. ASSUME NEW t \in Ticks, NEW i \in Ids, ActionReturns(t, i) PROVE TypeOK'
  <2>1. copy' \in [Ticks -> [Ids -> Rows]]
    BY <1>7, CopyStaysRow DEF ActionReturns, TypeOK
  <2>2. stage' \in [Ticks -> [Ids -> {"out", "queued", "exec", "save", "catch"}]]
    BY <1>7 DEF ActionReturns, TypeOK
  <2>3. \A u \in Ticks : phase'[u] = "loop" <=> \E j \in Ids : stage'[u][j] # "out"
    BY <1>7 DEF ActionReturns, TypeOK
  <2>4. lastRun' \in [Ids -> Nat \cup {Never}] /\ delivered' \in [Ids -> 0..2]
    BY <1>7 DEF ActionReturns, Attempted, Delivers, TypeOK
  <2>. QED
    BY <1>7, <2>1, <2>2, <2>3, <2>4 DEF ActionReturns, TypeOK
<1>8. ASSUME NEW t \in Ticks, NEW i \in Ids, ActionThrows(t, i) PROVE TypeOK'
  <2>1. copy' \in [Ticks -> [Ids -> Rows]]
    BY <1>8, CopyStaysRow DEF ActionThrows, TypeOK
  <2>2. stage' \in [Ticks -> [Ids -> {"out", "queued", "exec", "save", "catch"}]]
    BY <1>8 DEF ActionThrows, TypeOK
  <2>3. \A u \in Ticks : phase'[u] = "loop" <=> \E j \in Ids : stage'[u][j] # "out"
    BY <1>8 DEF ActionThrows, TypeOK
  <2>4. lastRun' \in [Ids -> Nat \cup {Never}] /\ delivered' \in [Ids -> 0..2]
    BY <1>8 DEF ActionThrows, Attempted, Delivers, TypeOK
  <2>. QED
    BY <1>8, <2>1, <2>2, <2>3, <2>4 DEF ActionThrows, TypeOK
<1>9. ASSUME NEW t \in Ticks, NEW i \in Ids, SaveOutcome(t, i) PROVE TypeOK'
  <2>1. rows' \in [Ids -> Rows]
    BY <1>9, CopyStaysRow DEF SaveOutcome, TypeOK
  <2>2. stage[t][i] # "out"
    BY <1>9 DEF SaveOutcome
  <2>. QED
    BY <1>9, <2>1, <2>2, LeaveType DEF SaveOutcome, TypeOK, history
<1>10. ASSUME NEW t \in Ticks, NEW i \in Ids, SaveRejected(t, i) PROVE TypeOK'
  <2>1. rows' \in [Ids -> Rows] /\ copy' \in [Ticks -> [Ids -> Rows]]
    BY <1>10, CopyStaysRow DEF SaveRejected, TypeOK
  <2>2. stage' \in [Ticks -> [Ids -> {"out", "queued", "exec", "save", "catch"}]]
    BY <1>10 DEF SaveRejected, TypeOK
  <2>3. \A u \in Ticks : phase'[u] = "loop" <=> \E j \in Ids : stage'[u][j] # "out"
    BY <1>10 DEF SaveRejected, TypeOK
  <2>. QED
    BY <1>10, <2>1, <2>2, <2>3 DEF SaveRejected, TypeOK
<1>11. ASSUME NEW t \in Ticks, NEW i \in Ids, SaveFailedRejected(t, i) PROVE TypeOK'
  <2>1. rows' \in [Ids -> Rows]
    BY <1>11, CopyStaysRow DEF SaveFailedRejected, TypeOK
  <2>. QED
    BY <1>11, <2>1, EndTickType DEF SaveFailedRejected, TypeOK
<1>12. ASSUME NEW p \in Patchers, NEW i \in Ids, NEW s \in PatchStatuses,
              UpdateEventStatusRead(p, i, s)
       PROVE  TypeOK'
  <2>0. rows[i] \in Rows
    BY DEF TypeOK
  <2>1. [rows[i] EXCEPT !.status = s] \in Edited
    BY <2>0 DEF Rows, Edited
  <2>2. patch' \in [Patchers -> {Fresh, Answered} \cup [id : Ids, row : Edited]]
    BY <1>12, <2>1 DEF UpdateEventStatusRead, TypeOK
  <2>3. asked' \in [Ids -> SUBSET PatchStatuses]
    BY <1>12 DEF UpdateEventStatusRead, TypeOK
  <2>. QED
    BY <1>12, <2>2, <2>3 DEF UpdateEventStatusRead, TypeOK, tick
<1>13. ASSUME NEW p \in Patchers, UpdateEventStatusSave(p) PROVE TypeOK'
  <2>1. patch[p].id \in Ids /\ patch[p].row \in Rows
    BY <1>13, PatchAssumption DEF UpdateEventStatusSave, TypeOK, Edited, Rows, Statuses
  <2>2. rows' \in [Ids -> Rows] /\ raced' \subseteq Ids
    BY <1>13, <2>1 DEF UpdateEventStatusSave, TypeOK
  <2>3. patch' \in [Patchers -> {Fresh, Answered} \cup [id : Ids, row : Edited]]
    BY <1>13 DEF UpdateEventStatusSave, TypeOK
  <2>. QED
    BY <1>13, <2>2, <2>3 DEF UpdateEventStatusSave, TypeOK, tick
<1>14. ASSUME NEW p \in Patchers, UpdateEventStatusRejected(p) PROVE TypeOK'
  <2>1. patch' \in [Patchers -> {Fresh, Answered} \cup [id : Ids, row : Edited]]
    BY <1>14 DEF UpdateEventStatusRejected, TypeOK
  <2>. QED
    BY <1>14, <2>1 DEF UpdateEventStatusRejected, TypeOK, tick, history
<1>15. CASE Crash
  <2>1. copy' \in [Ticks -> [Ids -> Rows]]
    BY <1>15 DEF Crash, NoRow, Rows, Statuses
  <2>2. patch' \in [Patchers -> {Fresh, Answered} \cup [id : Ids, row : Edited]]
    BY <1>15 DEF Crash
  <2>3. crashes' \in Nat /\ timerDue' \in BOOLEAN
    <3>1. crashes \in Nat /\ crashes' = crashes + 1
      BY <1>15, Zenon DEF Crash, TypeOK
    <3>2. crashes' \in Nat
      BY <3>1
    <3>3. timerDue' \in BOOLEAN
      BY <1>15, Zenon DEF Crash
    <3>. QED
      BY <3>2, <3>3
  <2>5. raced' \subseteq Ids
    <3>1. raced \subseteq Ids
      BY DEF TypeOK
    <3>2. raced' = raced \cup
            {i \in Ids : \E t \in Ticks : stage[t][i] \in {"save", "catch"}}
      BY <1>15, Zenon DEF Crash
    <3>. QED
      BY <3>1, <3>2
  <2>4. /\ phase' \in [Ticks -> {"idle", "find", "loop"}]
        /\ start' \in [Ticks -> Nat]
        /\ stage' \in [Ticks -> [Ids -> {"out", "queued", "exec", "save", "catch"}]]
        /\ \A u \in Ticks : phase'[u] = "loop" <=> \E i \in Ids : stage'[u][i] # "out"
    BY <1>15 DEF Crash
  <2>. QED
    BY <1>15, <2>1, <2>2, <2>3, <2>4, <2>5 DEF Crash, TypeOK
<1>16. CASE UNCHANGED vars
  BY <1>16 DEF vars, tick, history, TypeOK
<1>. QED
  BY <1>1, <1>2, <1>3, <1>4, <1>5, <1>6, <1>7, <1>8, <1>9, <1>10, <1>11, <1>12,
     <1>13, <1>14, <1>15, <1>16
  DEF Next, Schedule, Run, TickStep, PatchStep

\* Type correctness for every set of rows, ticks and requests.
THEOREM TypeCorrect == Spec => []TypeOK
<1>1. Init => TypeOK
  BY InitIInv DEF IInv
<1>. QED
  BY <1>1, TypeStep, PTL DEF Spec

-----------------------------------------------------------------------------
(* The inductive invariant, one lemma per kind of step.                     *)

\* What a tick still holds after the step it held, unaltered, before it.
Shrinks ==
  \A u \in Ticks, j \in Ids : stage'[u][j] # "out" =>
    /\ stage'[u][j] = stage[u][j]
    /\ copy'[u][j] = copy[u][j]
    /\ start'[u] = start[u]

\* The facts about copies survive a step that only lets go of some of them.
LEMMA ShrinkStep ==
  ASSUME IInv, TypeOK', Shrinks, lastRun' = lastRun, raced \subseteq raced'
  PROVE  SingleHolder' /\ FreshCopy' /\ AdvancedCopy' /\ Sequential'
<1>1. SingleHolder'
  BY DEF IInv, SingleHolder, Shrinks
<1>2. \A i \in Ids : \A at : Rested(i, at) => Rested(i, at)'
  BY DEF Rested
<1>3. FreshCopy'
  BY <1>2 DEF IInv, FreshCopy, Shrinks
<1>4. AdvancedCopy'
  BY <1>2 DEF IInv, AdvancedCopy, Shrinks
<1>5. Sequential'
  BY DEF IInv, Sequential, Shrinks
<1>. QED
  BY <1>1, <1>3, <1>4, <1>5

\* Steps that touch neither rows nor held copies nor their history.
LEMMA FrameStep ==
  ASSUME IInv, TypeOK', Shrinks, rows' = rows, stage' = stage,
         lastRun' = lastRun, delivered' = delivered, raced' = raced
  PROVE  IInv'
<1>1. SingleHolder' /\ FreshCopy' /\ AdvancedCopy' /\ Sequential'
  BY ShrinkStep
<1>2. RowRested'
  BY DEF IInv, RowRested, Rested
<1>3. HeldIsDue'
  BY DEF IInv, HeldIsDue, Shrinks
<1>4. CountsRuns' /\ AtMostOnce'
  BY DEF IInv, CountsRuns, AtMostOnce
<1>. QED
  BY <1>1, <1>2, <1>3, <1>4 DEF IInv

\* A row appears: it was never run and no tick holds it.
LEMMA ScheduleActionStep ==
  ASSUME IInv, TypeOK', NEW i \in Ids, NEW at \in Times, ScheduleAction(i, at)
  PROVE  IInv'
<1>1. /\ stage' = stage /\ copy' = copy /\ start' = start /\ raced' = raced
      /\ lastRun' = lastRun /\ delivered' = delivered
      /\ rows' = [rows EXCEPT ![i] = [status |-> "pending", executeAt |-> at]]
      /\ rows[i].status = "none"
  BY DEF ScheduleAction, tick, history
<1>2. SingleHolder' /\ FreshCopy' /\ AdvancedCopy' /\ Sequential'
  <2>1. Shrinks
    BY <1>1 DEF Shrinks
  <2>. QED
    BY <1>1, <2>1, ShrinkStep
<1>3. i \notin raced => lastRun[i] = Never /\ \A t \in Ticks : stage[t][i] = "out"
  BY <1>1 DEF IInv, CountsRuns
<1>4. rows \in [Ids -> Rows]
  BY DEF IInv, TypeOK
<1>5. RowRested'
  BY <1>1, <1>3, <1>4 DEF IInv, RowRested, Rested
<1>6. HeldIsDue'
  BY <1>1, <1>3, <1>4 DEF IInv, HeldIsDue
<1>7. CountsRuns' /\ AtMostOnce'
  BY <1>1, <1>4 DEF IInv, CountsRuns, AtMostOnce
<1>. QED
  BY <1>2, <1>5, <1>6, <1>7 DEF IInv

\* The query: what it finds and nobody holds is pending, due and rested.
LEMMA FindPendingStep ==
  ASSUME IInv, TypeOK', NEW t \in Ticks, FindPending(t)
  PROVE  IInv'
<1>. DEFINE found == Due(start[t])
<1>1. /\ rows' = rows /\ lastRun' = lastRun /\ delivered' = delivered
      /\ raced' = raced \cup {i \in found : Held(i)}
      /\ phase[t] = "find"
  BY DEF FindPending
<1>2. \A i \in Ids : stage[t][i] = "out"
  BY <1>1 DEF IInv, TypeOK
<1>3. raced \subseteq raced'
  BY <1>1
<1>4. \A u \in Ticks \ {t} : stage'[u] = stage[u] /\ copy'[u] = copy[u] /\ start'[u] = start[u]
  BY DEF FindPending, EndTick, IInv, TypeOK
<1>5. \A i \in Ids : stage'[t][i] # "out" =>
        /\ stage'[t][i] = "queued"
        /\ copy'[t][i] = rows[i]
        /\ start'[t] = start[t]
        /\ i \in found
  BY DEF FindPending, EndTick, IInv, TypeOK
<1>6. \A i \in found : i \in Ids /\ rows[i].status = "pending" /\ rows[i].executeAt <= start[t]
  BY DEF Due
<1>7. \A i \in Ids \ raced' : stage'[t][i] # "out" => \A u \in Ticks : stage[u][i] = "out"
  BY <1>1, <1>5 DEF Held
<1>8. \A i \in Ids : \A at : Rested(i, at)' <=> Rested(i, at)
  BY <1>1 DEF Rested
<1>9. SingleHolder'
  BY <1>3, <1>4, <1>7 DEF IInv, SingleHolder
<1>10. FreshCopy'
  <2>1. ASSUME NEW i \in Ids \ raced', stage'[t][i] # "out"
        PROVE  Rested(i, rows[i].executeAt)
    BY <1>3, <1>5, <1>6, <1>7, <2>1 DEF IInv, RowRested
  <2>. QED
    BY <1>3, <1>4, <1>5, <1>6, <1>8, <2>1 DEF IInv, FreshCopy
<1>11. AdvancedCopy'
  BY <1>3, <1>4, <1>5, <1>8 DEF IInv, AdvancedCopy
<1>12. RowRested'
  BY <1>1, <1>2, <1>3, <1>4, <1>8 DEF IInv, RowRested
<1>13. HeldIsDue'
  BY <1>1, <1>3, <1>4, <1>5, <1>6 DEF IInv, HeldIsDue
<1>14. CountsRuns'
  BY <1>1, <1>3, <1>4, <1>5, <1>6 DEF IInv, CountsRuns
<1>15. Sequential'
  BY <1>4, <1>5 DEF IInv, Sequential
<1>16. AtMostOnce'
  BY <1>1, <1>3 DEF IInv, AtMostOnce
<1>. QED
  BY <1>9, <1>10, <1>11, <1>12, <1>13, <1>14, <1>15, <1>16 DEF IInv

\* What the try block leaves is a final row, or the row a full period later.
LEMMA ProcessedRested ==
  ASSUME TypeOK, NEW t \in Ticks, NEW i \in Ids, copy[t][i].status = "pending"
  PROVE  /\ Processed(t, i).status \in {"pending", "executed"}
         /\ Processed(t, i).status = "pending" =>
              /\ Recurrence[i] \in Int
              /\ Recurrence[i] # OneTime
              /\ Processed(t, i).executeAt = start[t] + Recurrence[i]
<1>1. copy[t][i] \in [status : Statuses, executeAt : Int]
  BY DEF TypeOK, Rows
<1>2. CASE Recurrence[i] = OneTime
  BY <1>1, <1>2 DEF Processed
<1>3. CASE Recurrence[i] # OneTime
  BY <1>1, <1>3, RecurrenceAssumption DEF Processed
<1>. QED
  BY <1>2, <1>3

\* The loop turns to a row; a deactivated one goes straight to its save.
LEMMA BeginActionStep ==
  ASSUME IInv, TypeOK', NEW t \in Ticks, NEW i \in Ids, BeginAction(t, i)
  PROVE  IInv'
<1>1. /\ rows' = rows /\ start' = start /\ raced' = raced
      /\ lastRun' = lastRun /\ delivered' = delivered
      /\ stage[t][i] = "queued" /\ ~Busy(t)
  BY DEF BeginAction, history
<1>2. \/ stage' = [stage EXCEPT ![t][i] = "exec"] /\ copy' = copy
      \/ /\ stage' = [stage EXCEPT ![t][i] = "save"]
         /\ copy' = [copy EXCEPT ![t][i] = Processed(t, i)]
  BY Zenon DEF BeginAction
<1>3. /\ \A u \in Ticks, j \in Ids : u # t \/ j # i =>
           stage'[u][j] = stage[u][j] /\ copy'[u][j] = copy[u][j]
      /\ stage'[t][i] \in {"exec", "save"}
      /\ stage'[t][i] = "exec" => copy'[t][i] = copy[t][i]
      /\ stage'[t][i] = "save" => copy'[t][i] = Processed(t, i)
  BY <1>2 DEF IInv, TypeOK
<1>4. \A j \in Ids : \A at : Rested(j, at)' <=> Rested(j, at)
  BY <1>1 DEF Rested
<1>5. SingleHolder'
  BY <1>1, <1>3 DEF IInv, SingleHolder
<1>6. FreshCopy'
  BY <1>1, <1>3, <1>4 DEF IInv, FreshCopy
<1>7. AdvancedCopy'
  <2>1. ASSUME i \notin raced, stage'[t][i] = "save", copy'[t][i].status = "pending"
        PROVE  (Forward(i) => start[t] <= copy'[t][i].executeAt) /\ Rested(i, copy'[t][i].executeAt)
    <3>1. /\ copy[t][i].status = "pending"
          /\ copy[t][i].executeAt <= start[t]
          /\ Rested(i, copy[t][i].executeAt)
      BY <1>1, <2>1 DEF IInv, FreshCopy
    <3>2. /\ Recurrence[i] \in Int
          /\ copy'[t][i].executeAt = start[t] + Recurrence[i]
      BY <1>3, <2>1, <3>1, ProcessedRested DEF IInv
    <3>3. /\ start[t] \in Nat /\ copy[t][i].executeAt \in Int
          /\ lastRun[i] \in Nat \cup {Never}
      BY DEF IInv, TypeOK, Rows
    <3>4. Recurrence[i] # OneTime
      BY <3>2, OneTimeAssumption
    <3>5. Forward(i) => start[t] <= start[t] + Recurrence[i]
      BY <3>2, <3>3, <3>4 DEF Forward
    <3>6. Forward(i) =>
            lastRun[i] = Never \/ lastRun[i] + Recurrence[i] <= start[t] + Recurrence[i]
      BY <3>1, <3>2, <3>3, <3>4 DEF Rested, Never, Forward
    <3>. QED
      BY <3>2, <3>4, <3>5, <3>6 DEF Rested
  <2>2. i \notin raced /\ stage'[t][i] = "save" => copy'[t][i].status \in {"pending", "executed"}
    BY <1>1, <1>3, ProcessedRested DEF IInv, FreshCopy
  <2>. QED
    BY <1>1, <1>3, <1>4, <2>1, <2>2 DEF IInv, AdvancedCopy
<1>8. RowRested'
  BY <1>1, <1>3, <1>4 DEF IInv, RowRested
<1>9. HeldIsDue'
  BY <1>1, <1>3 DEF IInv, HeldIsDue
<1>10. CountsRuns' /\ AtMostOnce'
  BY <1>1, <1>3 DEF IInv, CountsRuns, AtMostOnce
<1>11. Sequential'
  BY <1>1, <1>3 DEF IInv, Sequential, Busy
<1>. QED
  BY <1>5, <1>6, <1>7, <1>8, <1>9, <1>10, <1>11 DEF IInv

\* executeAction settles, either way: what the two steps have in common.
Settles(t, i) ==
  /\ stage[t][i] = "exec"
  /\ \/ /\ stage' = [stage EXCEPT ![t][i] = "save"]
        /\ copy' = [copy EXCEPT ![t][i] = Processed(t, i)]
     \/ /\ stage' = [stage EXCEPT ![t][i] = "catch"]
        /\ copy' = [copy EXCEPT ![t][i] = Failed(t, i)]
  /\ lastRun' = [lastRun EXCEPT ![i] = start[t]]
  /\ delivered' = delivered \/ Delivers(i)
  /\ rows' = rows /\ start' = start /\ raced' = raced

LEMMA SettlesStep ==
  ASSUME IInv, TypeOK', NEW t \in Ticks, NEW i \in Ids, Settles(t, i)
  PROVE  IInv'
<1>1. /\ rows' = rows /\ start' = start /\ raced' = raced
      /\ stage[t][i] = "exec"
      /\ start[t] \in Nat
      /\ lastRun'[i] = start[t]
      /\ \A j \in Ids \ {i} : lastRun'[j] = lastRun[j]
  BY DEF Settles, IInv, TypeOK
<1>2. /\ \A u \in Ticks, j \in Ids : u # t \/ j # i =>
           stage'[u][j] = stage[u][j] /\ copy'[u][j] = copy[u][j]
      /\ stage'[t][i] \in {"save", "catch"}
      /\ stage'[t][i] = "save" => copy'[t][i] = Processed(t, i)
      /\ stage'[t][i] = "catch" => copy'[t][i] = Failed(t, i)
  BY DEF Settles, IInv, TypeOK
<1>3. \A j \in Ids \ {i} : \A at : Rested(j, at)' <=> Rested(j, at)
  BY <1>1 DEF Rested
<1>4. \A u \in Ticks \ {t} : i \notin raced => stage[u][i] = "out"
  BY <1>1 DEF IInv, SingleHolder
<1>5. i \notin raced => copy[t][i].status = "pending" /\ copy[t][i].executeAt <= start[t]
                       /\ Rested(i, copy[t][i].executeAt)
  BY <1>1 DEF IInv, FreshCopy
<1>6. Failed(t, i).status = "failed"
  BY DEF Failed, IInv, TypeOK, Rows
<1>7. SingleHolder'
  BY <1>1, <1>2 DEF IInv, SingleHolder
<1>8. FreshCopy'
  BY <1>1, <1>2, <1>3, <1>4 DEF IInv, FreshCopy
<1>9. AdvancedCopy'
  <2>1. ASSUME i \notin raced, stage'[t][i] = "save", copy'[t][i].status = "pending"
        PROVE  ((Forward(i) => start[t] <= copy[t][i].executeAt) /\ Rested(i, copy[t][i].executeAt))'
    <3>1. /\ Recurrence[i] \in Int /\ Recurrence[i] # OneTime
          /\ copy'[t][i].executeAt = start[t] + Recurrence[i]
      BY <1>2, <1>5, <2>1, ProcessedRested DEF IInv
    <3>2. start[t] \in Nat /\ start' = start /\ lastRun'[i] = start[t]
      BY <1>1 DEF IInv, TypeOK
    <3>3. Forward(i) => start[t] <= start[t] + Recurrence[i]
      BY <3>1, <3>2, OneTimeAssumption DEF Forward
    <3>. QED
      BY <3>1, <3>2, <3>3 DEF Rested
  <2>2. i \notin raced /\ stage'[t][i] = "save" => copy'[t][i].status \in {"pending", "executed"}
    BY <1>2, <1>5, ProcessedRested DEF IInv
  <2>. QED
    BY <1>1, <1>2, <1>3, <1>4, <1>6, <2>1, <2>2 DEF IInv, AdvancedCopy
<1>10. RowRested'
  BY <1>1, <1>2, <1>3 DEF IInv, RowRested
<1>11. HeldIsDue'
  BY <1>1, <1>2 DEF IInv, HeldIsDue
<1>12. AtMostOnce' /\ CountsRuns'
  <2>1. i \notin raced /\ Recurrence[i] = OneTime => delivered[i] = 0
    BY <1>5 DEF Rested, IInv, CountsRuns
  <2>2. /\ delivered[i] = 0 => delivered'[i] <= 1
        /\ \A j \in Ids \ {i} : delivered'[j] = delivered[j]
    <3>1. delivered \in [Ids -> 0..2]
      BY DEF IInv, TypeOK
    <3>2. CASE delivered' = delivered
      BY <3>1, <3>2
    <3>3. CASE Delivers(i)
      BY <3>1, <3>3 DEF Delivers
    <3>. QED
      BY <3>2, <3>3 DEF Settles
  <2>3. AtMostOnce'
    BY <1>1, <2>1, <2>2 DEF IInv, AtMostOnce
  <2>4. CountsRuns'
    BY <1>1, <1>2, <2>2 DEF IInv, CountsRuns, Never
  <2>. QED
    BY <2>3, <2>4
<1>13. Sequential'
  BY <1>1, <1>2 DEF IInv, Sequential
<1>. QED
  BY <1>7, <1>8, <1>9, <1>10, <1>11, <1>12, <1>13 DEF IInv

\* Letting go of a row, or of all of them, leaves what is still held as it was.
LEMMA LeaveShrinks ==
  ASSUME TypeOK, TypeOK', NEW t \in Ticks, NEW i \in Ids, Leave(t, i)
  PROVE  /\ Shrinks
         /\ stage'[t][i] = "out"
         /\ \A u \in Ticks, j \in Ids : u # t \/ j # i => stage'[u][j] = stage[u][j]
<1>1. CASE \A j \in Ids \ {i} : stage[t][j] = "out"
  <2>1. EndTick(t)
    BY <1>1 DEF Leave
  <2>. QED
    BY <1>1, <2>1 DEF EndTick, Shrinks, TypeOK
<1>2. CASE ~ \A j \in Ids \ {i} : stage[t][j] = "out"
  <2>1. /\ stage' = [stage EXCEPT ![t][i] = "out"]
        /\ copy' = [copy EXCEPT ![t][i] = NoRow]
        /\ start' = start
    BY <1>2 DEF Leave
  <2>. QED
    BY <2>1 DEF Shrinks, TypeOK
<1>. QED
  BY <1>1, <1>2

LEMMA EndTickShrinks ==
  ASSUME TypeOK, NEW t \in Ticks, EndTick(t)
  PROVE  /\ Shrinks
         /\ \A j \in Ids : stage'[t][j] = "out"
         /\ \A u \in Ticks \ {t} : stage'[u] = stage[u]
BY DEF EndTick, Shrinks, TypeOK

\* The save of the try or of the catch block: the row becomes the copy.
LEMMA SaveOutcomeStep ==
  ASSUME IInv, TypeOK', NEW t \in Ticks, NEW i \in Ids, SaveOutcome(t, i)
  PROVE  IInv'
<1>1. /\ rows' = [rows EXCEPT ![i] = copy[t][i]]
      /\ stage[t][i] \in {"save", "catch"}
      /\ lastRun' = lastRun /\ delivered' = delivered /\ raced' = raced
      /\ Leave(t, i)
  BY DEF SaveOutcome, history
<1>2. /\ Shrinks
      /\ stage'[t][i] = "out"
      /\ \A u \in Ticks, j \in Ids : u # t \/ j # i => stage'[u][j] = stage[u][j]
  BY <1>1, LeaveShrinks DEF IInv
<1>3. rows'[i] = copy[t][i] /\ \A j \in Ids \ {i} : rows'[j] = rows[j]
  BY <1>1 DEF IInv, TypeOK
<1>4. \A u \in Ticks : i \notin raced => stage'[u][i] = "out"
  BY <1>1, <1>2 DEF IInv, SingleHolder
<1>5. SingleHolder' /\ FreshCopy' /\ AdvancedCopy' /\ Sequential'
  BY <1>1, <1>2, ShrinkStep
<1>6. \A j \in Ids : \A at : Rested(j, at)' <=> Rested(j, at)
  BY <1>1 DEF Rested
<1>7. RowRested'
  <2>1. i \notin raced => (rows'[i].status = "pending" => Rested(i, rows'[i].executeAt))
    BY <1>1, <1>3 DEF IInv, AdvancedCopy
  <2>. QED
    BY <1>1, <1>2, <1>3, <1>6, <2>1 DEF IInv, RowRested
<1>8. HeldIsDue'
  BY <1>1, <1>2, <1>3, <1>4 DEF IInv, HeldIsDue, Shrinks
<1>9. CountsRuns' /\ AtMostOnce'
  <2>1. i \notin raced => rows'[i].status # "none"
    BY <1>1, <1>3 DEF IInv, AdvancedCopy
  <2>. QED
    BY <1>1, <1>2, <1>3, <2>1 DEF IInv, CountsRuns, AtMostOnce
<1>. QED
  BY <1>5, <1>7, <1>8, <1>9 DEF IInv

\* The first save rejects, committed or not, and the catch block takes over.
LEMMA SaveRejectedStep ==
  ASSUME IInv, TypeOK', NEW t \in Ticks, NEW i \in Ids, SaveRejected(t, i)
  PROVE  IInv'
<1>1. /\ rows' = rows \/ rows' = [rows EXCEPT ![i] = copy[t][i]]
      /\ stage[t][i] = "save"
      /\ stage' = [stage EXCEPT ![t][i] = "catch"]
      /\ copy' = [copy EXCEPT ![t][i] = Failed(t, i)]
      /\ start' = start
      /\ lastRun' = lastRun /\ delivered' = delivered /\ raced' = raced
  BY DEF SaveRejected
<1>2. /\ \A u \in Ticks, j \in Ids : u # t \/ j # i =>
           stage'[u][j] = stage[u][j] /\ copy'[u][j] = copy[u][j]
      /\ stage'[t][i] = "catch"
      /\ copy'[t][i] = Failed(t, i)
  BY <1>1 DEF IInv, TypeOK
<1>3. /\ rows'[i] = rows[i] \/ rows'[i] = copy[t][i]
      /\ \A j \in Ids \ {i} : rows'[j] = rows[j]
  BY <1>1 DEF IInv, TypeOK
<1>4. \A u \in Ticks \ {t} : i \notin raced => stage[u][i] = "out"
  BY <1>1 DEF IInv, SingleHolder
<1>5. \A j \in Ids : \A at : Rested(j, at)' <=> Rested(j, at)
  BY <1>1 DEF Rested
<1>6. Failed(t, i).status = "failed"
  BY DEF Failed, IInv, TypeOK, Rows
<1>7. SingleHolder' /\ FreshCopy' /\ Sequential'
  BY <1>1, <1>2, <1>5 DEF IInv, SingleHolder, FreshCopy, Sequential
<1>8. AdvancedCopy'
  BY <1>1, <1>2, <1>5, <1>6 DEF IInv, AdvancedCopy
<1>9. RowRested'
  BY <1>1, <1>2, <1>3, <1>5 DEF IInv, RowRested
<1>10. HeldIsDue'
  BY <1>1, <1>2, <1>3, <1>4 DEF IInv, HeldIsDue
<1>11. CountsRuns' /\ AtMostOnce'
  <2>1. i \notin raced => rows'[i].status # "none"
    BY <1>1, <1>3 DEF IInv, AdvancedCopy, CountsRuns
  <2>. QED
    BY <1>1, <1>2, <1>3, <2>1 DEF IInv, CountsRuns, AtMostOnce
<1>. QED
  BY <1>7, <1>8, <1>9, <1>10, <1>11 DEF IInv

\* The second save rejects too: the tick ends, and either the row is failed
\* or it stays as it was and counts as raced.
LEMMA SaveFailedRejectedStep ==
  ASSUME IInv, TypeOK', NEW t \in Ticks, NEW i \in Ids, SaveFailedRejected(t, i)
  PROVE  IInv'
<1>1. /\ \/ rows' = [rows EXCEPT ![i] = copy[t][i]] /\ raced' = raced
         \/ rows' = rows /\ raced' = raced \cup {i}
      /\ stage[t][i] = "catch"
      /\ lastRun' = lastRun /\ delivered' = delivered
      /\ EndTick(t)
  BY DEF SaveFailedRejected
<1>2. /\ Shrinks
      /\ \A j \in Ids : stage'[t][j] = "out"
      /\ \A u \in Ticks \ {t} : stage'[u] = stage[u]
  BY <1>1, EndTickShrinks DEF IInv
<1>3. /\ i \in raced' \/ rows'[i] = copy[t][i]
      /\ \A j \in Ids \ {i} : rows'[j] = rows[j]
      /\ raced \subseteq raced'
  BY <1>1 DEF IInv, TypeOK
<1>4. i \notin raced' => rows'[i].status = "failed"
  BY <1>1, <1>3 DEF IInv, AdvancedCopy
<1>5. SingleHolder' /\ FreshCopy' /\ AdvancedCopy' /\ Sequential'
  BY <1>1, <1>2, <1>3, ShrinkStep
<1>6. \A j \in Ids : \A at : Rested(j, at)' <=> Rested(j, at)
  BY <1>1 DEF Rested
<1>7. \A j \in Ids \ {i} : stage[t][j] \notin {"save", "catch"}
  BY <1>1 DEF IInv, Sequential
<1>8. RowRested'
  BY <1>2, <1>3, <1>4, <1>6, <1>7 DEF IInv, RowRested
<1>9. HeldIsDue'
  BY <1>2, <1>3, <1>4 DEF IInv, HeldIsDue, Shrinks
<1>10. CountsRuns' /\ AtMostOnce'
  BY <1>1, <1>2, <1>3, <1>4 DEF IInv, CountsRuns, AtMostOnce, Shrinks
<1>. QED
  BY <1>5, <1>8, <1>9, <1>10 DEF IInv

\* A PATCH writes its row back: final, or as it is, or it counts as raced.
LEMMA UpdateEventStatusSaveStep ==
  ASSUME IInv, TypeOK', NEW p \in Patchers, UpdateEventStatusSave(p)
  PROVE  IInv'
<1>. DEFINE i == patch[p].id
            row == patch[p].row
<1>1. /\ rows' = [rows EXCEPT ![i] = row]
      /\ stage' = stage /\ copy' = copy /\ start' = start
      /\ lastRun' = lastRun /\ delivered' = delivered
      /\ raced \subseteq raced'
      /\ row.status = "pending" /\ row # rows[i] => i \in raced'
  BY DEF UpdateEventStatusSave, tick
<1>2. i \in Ids /\ row.status # "none"
  BY PatchAssumption DEF UpdateEventStatusSave, IInv, TypeOK, Edited
<1>3. rows'[i] = row /\ \A j \in Ids \ {i} : rows'[j] = rows[j]
  BY <1>1, <1>2 DEF IInv, TypeOK
<1>4. SingleHolder' /\ FreshCopy' /\ AdvancedCopy' /\ Sequential'
  <2>1. Shrinks
    BY <1>1 DEF Shrinks
  <2>. QED
    BY <1>1, <2>1, ShrinkStep
<1>5. \A j \in Ids : \A at : Rested(j, at)' <=> Rested(j, at)
  BY <1>1 DEF Rested
<1>6. RowRested'
  BY <1>1, <1>2, <1>3, <1>5 DEF IInv, RowRested
<1>7. HeldIsDue'
  BY <1>1, <1>2, <1>3 DEF IInv, HeldIsDue
<1>8. CountsRuns' /\ AtMostOnce'
  BY <1>1, <1>2, <1>3 DEF IInv, CountsRuns, AtMostOnce
<1>. QED
  BY <1>4, <1>6, <1>7, <1>8 DEF IInv

\* A restart drops every copy; what was executed and not saved is raced.
LEMMA CrashStep ==
  ASSUME IInv, TypeOK', Crash
  PROVE  IInv'
<1>1. /\ \A u \in Ticks, j \in Ids : stage'[u][j] = "out"
      /\ rows' = rows /\ lastRun' = lastRun /\ delivered' = delivered
  BY DEF Crash
<1>2. raced' = raced \cup
        {i \in Ids : \E t \in Ticks : stage[t][i] \in {"save", "catch"}}
  BY Zenon DEF Crash
<1>3. raced \subseteq raced'
  BY <1>2
<1>4. Shrinks
  BY <1>1 DEF Shrinks
<1>5. SingleHolder' /\ FreshCopy' /\ AdvancedCopy' /\ Sequential'
  BY <1>1, <1>3, <1>4, ShrinkStep
<1>6. \A j \in Ids : \A at : Rested(j, at)' <=> Rested(j, at)
  BY <1>1 DEF Rested
<1>7. RowRested'
  BY <1>1, <1>2, <1>6 DEF IInv, RowRested
<1>8. HeldIsDue' /\ CountsRuns' /\ AtMostOnce'
  BY <1>1, <1>3 DEF IInv, HeldIsDue, CountsRuns, AtMostOnce
<1>. QED
  BY <1>5, <1>7, <1>8 DEF IInv

\* The invariant is inductive.
LEMMA NextStep == IInv /\ [Next]_vars => IInv'
<1>. SUFFICES ASSUME IInv, [Next]_vars PROVE IInv'
  OBVIOUS
<1>0. TypeOK /\ TypeOK'
  BY TypeStep DEF IInv
<1>1. CASE Clock
  <2>1. Shrinks
    BY <1>1 DEF Clock, tick, Shrinks
  <2>. QED
    BY <1>0, <1>1, <2>1, FrameStep DEF Clock, tick, history
<1>2. ASSUME NEW i \in Ids, NEW at \in Times, ScheduleAction(i, at) PROVE IInv'
  BY <1>0, <1>2, ScheduleActionStep
<1>3. ASSUME NEW t \in Ticks, IntervalFires(t) PROVE IInv'
  <2>1. /\ stage' = stage /\ copy' = copy
        /\ start' = [start EXCEPT ![t] = now]
        /\ \A i \in Ids : stage[t][i] = "out"
    BY <1>0, <1>3 DEF IntervalFires, TypeOK
  <2>2. Shrinks
    BY <1>0, <2>1 DEF Shrinks, TypeOK
  <2>. QED
    BY <1>0, <1>3, <2>2, FrameStep DEF IntervalFires, history
<1>4. ASSUME NEW t \in Ticks, FindPending(t) PROVE IInv'
  BY <1>0, <1>4, FindPendingStep
<1>5. ASSUME NEW t \in Ticks, FindRejected(t) PROVE IInv'
  <2>1. /\ phase[t] = "find" /\ EndTick(t)
        /\ rows' = rows /\ lastRun' = lastRun /\ delivered' = delivered /\ raced' = raced
    BY <1>5 DEF FindRejected, history
  <2>2. Shrinks
    BY <1>0, <2>1, EndTickShrinks
  <2>3. stage' = stage
    BY <1>0, <2>1 DEF EndTick, TypeOK
  <2>. QED
    BY <1>0, <2>1, <2>2, <2>3, FrameStep
<1>6. ASSUME NEW t \in Ticks, NEW i \in Ids, BeginAction(t, i) PROVE IInv'
  BY <1>0, <1>6, BeginActionStep
<1>7. ASSUME NEW t \in Ticks, NEW i \in Ids, ActionReturns(t, i) PROVE IInv'
  <2>1. Settles(t, i)
    BY <1>7 DEF ActionReturns, Attempted, Settles
  <2>. QED
    BY <1>0, <2>1, SettlesStep
<1>8. ASSUME NEW t \in Ticks, NEW i \in Ids, ActionThrows(t, i) PROVE IInv'
  <2>1. Settles(t, i)
    BY <1>8 DEF ActionThrows, Attempted, Settles
  <2>. QED
    BY <1>0, <2>1, SettlesStep
<1>9. ASSUME NEW t \in Ticks, NEW i \in Ids, SaveOutcome(t, i) PROVE IInv'
  BY <1>0, <1>9, SaveOutcomeStep
<1>10. ASSUME NEW t \in Ticks, NEW i \in Ids, SaveRejected(t, i) PROVE IInv'
  BY <1>0, <1>10, SaveRejectedStep
<1>11. ASSUME NEW t \in Ticks, NEW i \in Ids, SaveFailedRejected(t, i) PROVE IInv'
  BY <1>0, <1>11, SaveFailedRejectedStep
<1>12. ASSUME NEW p \in Patchers, NEW i \in Ids, NEW s \in PatchStatuses,
              UpdateEventStatusRead(p, i, s)
       PROVE  IInv'
  <2>1. Shrinks
    BY <1>12 DEF UpdateEventStatusRead, tick, Shrinks
  <2>. QED
    BY <1>0, <1>12, <2>1, FrameStep DEF UpdateEventStatusRead, tick
<1>13. ASSUME NEW p \in Patchers, UpdateEventStatusSave(p) PROVE IInv'
  BY <1>0, <1>13, UpdateEventStatusSaveStep
<1>14. ASSUME NEW p \in Patchers, UpdateEventStatusRejected(p) PROVE IInv'
  <2>1. Shrinks
    BY <1>14 DEF UpdateEventStatusRejected, tick, Shrinks
  <2>. QED
    BY <1>0, <1>14, <2>1, FrameStep DEF UpdateEventStatusRejected, tick, history
<1>15. CASE Crash
  BY <1>0, <1>15, CrashStep
<1>16. CASE UNCHANGED vars
  <2>1. Shrinks
    BY <1>16 DEF vars, tick, Shrinks
  <2>. QED
    BY <1>0, <1>16, <2>1, FrameStep DEF vars, tick, history
<1>. QED
  BY <1>1, <1>2, <1>3, <1>4, <1>5, <1>6, <1>7, <1>8, <1>9, <1>10, <1>11, <1>12,
     <1>13, <1>14, <1>15, <1>16
  DEF Next, Schedule, Run, TickStep, PatchStep

-----------------------------------------------------------------------------
(* The theorems.                                                            *)

\* The inductive invariant holds of every behaviour.
THEOREM InvariantHolds == Spec => []IInv
BY InitIInv, NextStep, PTL DEF Spec

\* One-time actions: outside the four races, their effect leaves at most once,
\* whatever the number of ticks, rows, requests, faults and restarts.
THEOREM DeliveredAtMostOnce == Spec => []AtMostOnce
<1>1. IInv => AtMostOnce
  BY DEF IInv
<1>. QED
  BY <1>1, InvariantHolds, PTL

\* Recurrent actions: outside the four races, the ticks that run a row start a
\* period after the start of the one that ran it last.
THEOREM TicksAreSpaced == Spec => []TicksSpaced
<1>1. IInv => TicksSpaced
  <2>. SUFFICES ASSUME IInv, NEW t \in Ticks, NEW i \in Ids,
                       stage[t][i] = "exec", i \notin raced
                PROVE  Rested(i, start[t])
    BY DEF TicksSpaced
  <2>1. /\ Rested(i, copy[t][i].executeAt)
        /\ copy[t][i].executeAt <= start[t]
    BY DEF IInv, FreshCopy
  <2>2. /\ copy[t][i].executeAt \in Int /\ start[t] \in Nat
        /\ lastRun[i] \in Nat \cup {Never}
    BY DEF IInv, TypeOK, Rows
  <2>. QED
    BY <2>1, <2>2, RecurrenceAssumption, OneTimeAssumption DEF Rested, Forward
<1>. QED
  BY <1>1, InvariantHolds, PTL


-----------------------------------------------------------------------------
(***************************************************************************)
(* Statuses: where the status of a row comes from, that the schedule of a  *)
(* row never moves backwards, and that a final status is final.            *)
(*                                                                         *)
(* A status travels through the copies of ticks and the entities of PATCH  *)
(* requests before it is in the table; what explains it (an execution that *)
(* resolved or rejected, an operator's word) only ever grows.              *)
(***************************************************************************)

\* What StatusExplained says of the table, of any state of row i.
Explained(i, row) ==
  /\ row.status = "executed" =>
       \/ "executed" \in asked[i]
       \/ Recurrence[i] = OneTime /\ (i \in completed \/ ~Task[i].active)
  /\ row.status = "failed" => i \in rejected \/ "failed" \in asked[i]
  /\ row.status = "other" => "other" \in asked[i]

\* The table and the copies that ticks hold say nothing unexplained.
Accounted == \A i \in Ids : Explained(i, rows[i]) /\ \A t \in Ticks : Explained(i, copy[t][i])

\* What a PATCH is about to save is a status it carries.
Carried ==
  \A p \in Patchers : patch[p] \notin {Fresh, Answered} => patch[p].row.status \in asked[patch[p].id]

\* The row a tick holds is pending, unless the save of the try block was
\* committed and rejected; and only a rejection leads to the catch block.
HeldPending ==
  \A i \in Ids, t \in Ticks :
    /\ stage[t][i] = "catch" => i \in rejected
    /\ i \notin raced /\ asked[i] = {} =>
         /\ stage[t][i] \in {"queued", "exec", "save"} => rows[i].status = "pending"
         /\ stage[t][i] = "catch" => rows[i].status \in {"pending", "executed"}

SInv == Accounted /\ Carried /\ HeldPending

\* The histories grow.
Grows ==
  /\ \A i \in Ids : asked[i] \subseteq asked'[i]
  /\ completed \subseteq completed' /\ rejected \subseteq rejected' /\ raced \subseteq raced'

LEMMA ExplainedStays ==
  ASSUME Grows, NEW i \in Ids, NEW row, Explained(i, row)
  PROVE  Explained(i, row)'
  BY DEF Grows, Explained

\* A row or a copy stays, or is one of those that were explained before or
\* is explained by this step.
LEMMA AccountedStep ==
  ASSUME Accounted, Grows,
         \A i \in Ids : \/ rows'[i] = rows[i]
                        \/ \E t \in Ticks : rows'[i] = copy[t][i]
                        \/ Explained(i, rows[i])',
         \A i \in Ids, t \in Ticks : \/ copy'[t][i] \in {copy[t][i], rows[i], NoRow}
                                     \/ Explained(i, copy[t][i])'
  PROVE  Accounted'
<1>1. ASSUME NEW i \in Ids PROVE Explained(i, rows[i])'
  <2>1. PICK row : row = rows'[i]
    OBVIOUS
  <2>2. Explained(i, row) => Explained(i, row)'
    BY ExplainedStays
  <2>3. CASE rows'[i] = rows[i] \/ \E t \in Ticks : rows'[i] = copy[t][i]
    <3>1. Explained(i, row)
      BY <2>1, <2>3 DEF Accounted
    <3>. QED
      BY <2>1, <2>2, <3>1 DEF Explained
  <2>4. CASE Explained(i, rows[i])'
    BY <2>4
  <2>. QED
    BY <2>3, <2>4
<1>2. ASSUME NEW i \in Ids, NEW t \in Ticks PROVE Explained(i, copy[t][i])'
  <2>1. PICK row : row = copy'[t][i]
    OBVIOUS
  <2>2. Explained(i, row) => Explained(i, row)'
    BY ExplainedStays
  <2>3. CASE copy'[t][i] \in {copy[t][i], rows[i], NoRow}
    <3>1. Explained(i, NoRow)
      BY DEF Explained, NoRow
    <3>2. Explained(i, row)
      BY <2>1, <2>3, <3>1 DEF Accounted
    <3>. QED
      BY <2>1, <2>2, <3>2 DEF Explained
  <2>4. CASE Explained(i, copy[t][i])'
    BY <2>4
  <2>. QED
    BY <2>3, <2>4
<1>. QED
  BY <1>1, <1>2 DEF Accounted

\* A request keeps its entity, has none, or has read it with the status it carries.
LEMMA CarriedStep ==
  ASSUME Carried, TypeOK, Grows,
         \A p \in Patchers : \/ patch'[p] \in {patch[p], Fresh, Answered}
                             \/ patch'[p].row.status \in asked'[patch'[p].id]
  PROVE  Carried'
<1>1. \A p \in Patchers : patch[p] \notin {Fresh, Answered} => patch[p].id \in Ids
  BY DEF TypeOK
<1>. QED
  BY <1>1 DEF Carried, Grows

\* How a tick can come to hold a row, and a held row can change.
Moves(t, i) ==
  LET excused == i \in raced' \/ asked'[i] # {} IN
  \/ stage'[t][i] = "out"
  \/ stage'[t][i] = stage[t][i] /\ (rows'[i] = rows[i] \/ excused)
  \/ /\ stage[t][i] \in {"queued", "exec"} /\ stage'[t][i] \in {"exec", "save"}
     /\ rows'[i] = rows[i]
  \/ stage'[t][i] = "queued" /\ rows'[i].status = "pending"
  \/ /\ stage'[t][i] = "catch" /\ i \in rejected'
     /\ rows'[i].status \in {"pending", "executed"} \/ excused

LEMMA HeldStep ==
  ASSUME HeldPending, Grows, \A i \in Ids, t \in Ticks : Moves(t, i)
  PROVE  HeldPending'
  BY DEF HeldPending, Grows, Moves

-----------------------------------------------------------------------------
(* The steps.                                                               *)

\* Inserting a row, and what ends or leaves alone every copy.
LEMMA OutsideStatus ==
  ASSUME SInv, TypeOK, TypeOK',
         \/ Clock \/ Crash
         \/ \E i \in Ids, at \in Times : ScheduleAction(i, at)
         \/ \E t \in Ticks : IntervalFires(t) \/ FindRejected(t)
  PROVE  SInv'
<1>1. Grows
  BY DEF Clock, Crash, ScheduleAction, IntervalFires, FindRejected, history, Grows
<1>2. CASE Clock \/ Crash \/ \E t \in Ticks : IntervalFires(t) \/ FindRejected(t)
  <2>1. \A u \in Ticks, j \in Ids :
          /\ stage'[u][j] = "out" \/ (stage'[u][j] = stage[u][j] /\ copy'[u][j] = copy[u][j])
          /\ copy'[u][j] \in {copy[u][j], NoRow}
    <3>1. CASE Clock \/ Crash
      BY <3>1 DEF Clock, Crash, tick
    <3>2. ASSUME NEW t \in Ticks, IntervalFires(t) \/ FindRejected(t), NEW u \in Ticks, NEW j \in Ids
          PROVE  /\ stage'[u][j] = "out" \/ (stage'[u][j] = stage[u][j] /\ copy'[u][j] = copy[u][j])
                 /\ copy'[u][j] \in {copy[u][j], NoRow}
      BY <3>2 DEF IntervalFires, FindRejected, EndTick, TypeOK
    <3>. QED
      BY <1>2, <3>1, <3>2
  <2>2. rows' = rows /\ \A p \in Patchers : patch'[p] \in {patch[p], Fresh, Answered}
    BY <1>2 DEF Clock, Crash, IntervalFires, FindRejected
  <2>3. \A i \in Ids, t \in Ticks : Moves(t, i)
    BY <2>1, <2>2 DEF Moves
  <2>4. Accounted'
    BY <1>1, <2>1, <2>2, AccountedStep DEF SInv
  <2>. QED
    BY <1>1, <2>2, <2>3, <2>4, CarriedStep, HeldStep DEF SInv
<1>3. ASSUME NEW i \in Ids, NEW at \in Times, ScheduleAction(i, at) PROVE SInv'
  <2>1. /\ rows[i].status = "none" /\ rows'[i] = [status |-> "pending", executeAt |-> at]
        /\ \A j \in Ids \ {i} : rows'[j] = rows[j]
        /\ stage' = stage /\ copy' = copy /\ patch' = patch
    BY <1>3 DEF ScheduleAction, TypeOK, tick
  <2>2. Explained(i, rows[i])'
    BY <2>1 DEF Explained
  <2>3. Accounted'
    BY <1>1, <2>1, <2>2, AccountedStep DEF SInv
  <2>4. \A t \in Ticks : stage[t][i] \in {"out", "queued", "exec", "save", "catch"}
    BY DEF TypeOK
  <2>5. HeldPending'
    BY <1>1, <1>3, <2>1, <2>4 DEF SInv, HeldPending, Grows, ScheduleAction, history
  <2>. QED
    BY <1>1, <2>1, <2>3, <2>5, CarriedStep DEF SInv
<1>. QED
  BY <1>2, <1>3

LEMMA FindPendingStatus ==
  ASSUME SInv, TypeOK, TypeOK', NEW t \in Ticks, FindPending(t)
  PROVE  SInv'
<1>1. /\ rows' = rows /\ patch' = patch /\ Grows
  BY DEF FindPending, Grows
<1>2. \A u \in Ticks, j \in Ids :
        /\ copy'[u][j] \in {copy[u][j], rows[j], NoRow}
        /\ \/ stage'[u][j] \in {"out", stage[u][j]}
           \/ stage'[u][j] = "queued" /\ rows[j].status = "pending"
  <2>1. PICK found : found = Due(start[t])
    OBVIOUS
  <2>2. CASE EndTick(t)
    BY <2>2 DEF EndTick, TypeOK
  <2>3. CASE /\ stage' = [stage EXCEPT ![t] = [i \in Ids |-> IF i \in found THEN "queued" ELSE "out"]]
             /\ copy' = [copy EXCEPT ![t] = [i \in Ids |-> IF i \in found THEN rows[i] ELSE NoRow]]
    <3>1. \A j \in found : rows[j].status = "pending"
      BY <2>1 DEF Due
    <3>. QED
      BY <2>3, <3>1 DEF TypeOK
  <2>. QED
    BY <2>1, <2>2, <2>3 DEF FindPending
<1>3. \A i \in Ids, u \in Ticks : Moves(u, i)
  BY <1>1, <1>2 DEF Moves
<1>4. Accounted'
  BY <1>1, <1>2, AccountedStep DEF SInv
<1>. QED
  BY <1>1, <1>3, <1>4, CarriedStep, HeldStep DEF SInv

\* The entity after the try block, and after the catch block.
LEMMA OutcomeStatus ==
  ASSUME TypeOK, NEW t \in Ticks, NEW i \in Ids
  PROVE  /\ Processed(t, i).status =
              IF Recurrence[i] # OneTime THEN copy[t][i].status ELSE "executed"
         /\ Failed(t, i).status = "failed"
  BY DEF Processed, Failed, TypeOK, Rows

\* A tick works on its copy of i, and leaves the table alone.
LEMMA CopyStatus ==
  ASSUME SInv, TypeOK, TypeOK', NEW t \in Ticks, NEW i \in Ids,
         BeginAction(t, i) \/ ActionReturns(t, i) \/ ActionThrows(t, i)
  PROVE  SInv'
<1>1. Grows /\ rows' = rows /\ patch' = patch /\ raced' = raced /\ asked' = asked
  BY DEF BeginAction, ActionReturns, ActionThrows, Grows, history
<1>2. \A u \in Ticks, j \in Ids : u # t \/ j # i =>
        stage'[u][j] = stage[u][j] /\ copy'[u][j] = copy[u][j]
  BY DEF BeginAction, ActionReturns, ActionThrows, TypeOK
<1>3. \/ stage[t][i] = "queued" /\ stage'[t][i] = "exec" /\ copy'[t][i] = copy[t][i]
      \/ /\ stage[t][i] \in {"queued", "exec"} /\ stage'[t][i] = "save"
         /\ copy'[t][i] = Processed(t, i) /\ (i \in completed' \/ ~Task[i].active)
      \/ /\ stage[t][i] = "exec" /\ stage'[t][i] = "catch"
         /\ copy'[t][i] = Failed(t, i) /\ i \in rejected'
  BY DEF BeginAction, ActionReturns, ActionThrows, TypeOK
<1>4. Explained(i, copy[t][i])'
  <2>1. CASE copy'[t][i].status = copy[t][i].status
    BY <1>1, <2>1 DEF SInv, Accounted, Explained, Grows
  <2>2. CASE copy'[t][i].status = "executed" /\ Recurrence[i] = OneTime /\ (i \in completed' \/ ~Task[i].active)
    BY <2>2 DEF Explained
  <2>3. CASE copy'[t][i].status = "failed" /\ i \in rejected'
    BY <2>3 DEF Explained
  <2>. QED
    BY <1>3, <2>1, <2>2, <2>3, OutcomeStatus
<1>5. Accounted'
  BY <1>1, <1>2, <1>4, AccountedStep DEF SInv
<1>6. \A j \in Ids, u \in Ticks : u # t \/ j # i => Moves(u, j)
  BY <1>1, <1>2 DEF Moves
<1>7. Moves(t, i)
  BY <1>1, <1>3 DEF Moves, SInv, HeldPending
<1>. QED
  BY <1>1, <1>5, <1>6, <1>7, CarriedStep, HeldStep DEF SInv

\* A save puts the copy of t in place of the row.
LEMMA SaveStatus ==
  ASSUME SInv, IInv, TypeOK', NEW t \in Ticks, NEW i \in Ids,
         SaveOutcome(t, i) \/ SaveRejected(t, i) \/ SaveFailedRejected(t, i)
  PROVE  SInv'
<1>1. /\ Grows /\ patch' = patch /\ asked' = asked /\ stage[t][i] \in {"save", "catch"} /\ TypeOK
      /\ rows'[i] \in {rows[i], copy[t][i]} /\ \A j \in Ids \ {i} : rows'[j] = rows[j]
  BY DEF SaveOutcome, SaveRejected, SaveFailedRejected, Grows, history, IInv, TypeOK
<1>2. CASE SaveRejected(t, i)
  <2>1. /\ \A u \in Ticks, j \in Ids : u # t \/ j # i =>
             stage'[u][j] = stage[u][j] /\ copy'[u][j] = copy[u][j]
        /\ stage[t][i] = "save" /\ stage'[t][i] = "catch"
        /\ copy'[t][i] = Failed(t, i) /\ i \in rejected' /\ raced' = raced
    BY <1>1, <1>2 DEF SaveRejected, TypeOK
  <2>2. Explained(i, copy[t][i])'
    BY <1>1, <2>1, OutcomeStatus DEF Explained
  <2>3. Accounted'
    BY <1>1, <2>1, <2>2, AccountedStep DEF SInv
  <2>4. \A u \in Ticks \ {t} : i \notin raced => stage[u][i] = "out"
    BY <1>1 DEF IInv, SingleHolder
  <2>5. i \notin raced /\ asked[i] = {} => rows'[i].status \in {"pending", "executed"}
    BY <1>1, <2>1 DEF SInv, HeldPending, IInv, AdvancedCopy
  <2>6. \A j \in Ids, u \in Ticks : Moves(u, j)
    BY <1>1, <2>1, <2>4, <2>5 DEF Moves
  <2>. QED
    BY <1>1, <2>3, <2>6, CarriedStep, HeldStep DEF SInv
<1>3. CASE SaveOutcome(t, i) \/ SaveFailedRejected(t, i)
  <2>1. Leave(t, i) \/ EndTick(t)
    BY <1>3 DEF SaveOutcome, SaveFailedRejected
  <2>2. /\ Shrinks /\ stage'[t][i] = "out"
        /\ \A u \in Ticks, j \in Ids : copy'[u][j] \in {copy[u][j], NoRow}
    <3>1. CASE EndTick(t)
      <4>1. copy' = [copy EXCEPT ![t] = [j \in Ids |-> NoRow]]
        BY <3>1 DEF EndTick
      <4>2. \A u \in Ticks, j \in Ids : copy'[u][j] \in {copy[u][j], NoRow}
        BY <1>1, <4>1 DEF TypeOK
      <4>. QED
        BY <1>1, <3>1, <4>2, EndTickShrinks
    <3>2. CASE Leave(t, i) /\ ~EndTick(t)
      <4>1. copy' = [copy EXCEPT ![t][i] = NoRow]
        BY <3>2 DEF Leave
      <4>. QED
        BY <1>1, <3>2, <4>1, LeaveShrinks DEF TypeOK
    <3>. QED
      BY <2>1, <3>1, <3>2
  <2>3. \A u \in Ticks : stage'[u][i] = "out" \/ i \in raced
    BY <1>1, <2>2 DEF IInv, SingleHolder, Shrinks
  <2>4. \A j \in Ids, u \in Ticks : Moves(u, j)
    BY <1>1, <2>2, <2>3 DEF Moves, Shrinks, Grows
  <2>5. Accounted'
    BY <1>1, <2>2, AccountedStep DEF SInv
  <2>. QED
    BY <1>1, <2>4, <2>5, CarriedStep, HeldStep DEF SInv
<1>. QED
  BY <1>2, <1>3

\* The requests of the operator.
LEMMA PatchStatus ==
  ASSUME SInv, TypeOK, TypeOK', NEW p \in Patchers, PatchStep(p)
  PROVE  SInv'
<1>1. /\ stage' = stage /\ copy' = copy /\ Grows
  <2>1. stage' = stage /\ copy' = copy /\ completed' = completed /\ rejected' = rejected
    BY DEF PatchStep, UpdateEventStatusRead, UpdateEventStatusSave, UpdateEventStatusRejected, tick, history
  <2>2. raced \subseteq raced'
    BY DEF PatchStep, UpdateEventStatusRead, UpdateEventStatusSave, UpdateEventStatusRejected, history
  <2>3. \A i \in Ids : asked[i] \subseteq asked'[i]
    <3>1. ASSUME NEW i \in Ids, NEW s \in PatchStatuses, UpdateEventStatusRead(p, i, s)
          PROVE  \A j \in Ids : asked[j] \subseteq asked'[j]
      BY <3>1 DEF UpdateEventStatusRead, TypeOK
    <3>2. CASE asked' = asked
      BY <3>2
    <3>. QED
      BY <3>1, <3>2 DEF PatchStep, UpdateEventStatusSave, UpdateEventStatusRejected, history
  <2>. QED
    BY <2>1, <2>2, <2>3 DEF Grows
<1>2. ASSUME NEW i \in Ids, NEW s \in PatchStatuses, UpdateEventStatusRead(p, i, s) PROVE SInv'
  <2>1. /\ rows' = rows /\ raced' = raced
        /\ patch' = [patch EXCEPT ![p] = [id |-> i, row |-> [rows[i] EXCEPT !.status = s]]]
        /\ s \in asked'[i]
    BY <1>2 DEF UpdateEventStatusRead, TypeOK
  <2>2. [rows[i] EXCEPT !.status = s].status = s
    BY DEF TypeOK, Rows
  <2>3. \A r \in Patchers : patch'[r] = patch[r] \/ patch'[r].row.status \in asked'[patch'[r].id]
    BY <2>1, <2>2 DEF TypeOK
  <2>4. Accounted' /\ \A j \in Ids, u \in Ticks : Moves(u, j)
    BY <1>1, <2>1, AccountedStep DEF SInv, Moves
  <2>. QED
    BY <1>1, <2>3, <2>4, CarriedStep, HeldStep DEF SInv
<1>3. CASE UpdateEventStatusSave(p)
  <2>1. PICK i, row : i = patch[p].id /\ row = patch[p].row
    OBVIOUS
  <2>2. /\ i \in Ids /\ rows' = [rows EXCEPT ![i] = row] /\ row.status \in asked[i]
        /\ asked' = asked /\ \A r \in Patchers : patch'[r] \in {patch[r], Answered}
    BY <1>3, <2>1 DEF UpdateEventStatusSave, TypeOK, SInv, Carried
  <2>3. rows'[i] = row /\ \A j \in Ids \ {i} : rows'[j] = rows[j]
    BY <2>2 DEF TypeOK
  <2>4. Explained(i, rows[i])'
    BY <2>2, <2>3 DEF Explained
  <2>5. Accounted' /\ \A j \in Ids, u \in Ticks : Moves(u, j)
    BY <1>1, <2>2, <2>3, <2>4, AccountedStep DEF SInv, Moves
  <2>. QED
    BY <1>1, <2>2, <2>5, CarriedStep, HeldStep DEF SInv
<1>4. CASE UpdateEventStatusRejected(p)
  <2>1. rows' = rows /\ \A r \in Patchers : patch'[r] \in {patch[r], Answered}
    BY <1>4 DEF UpdateEventStatusRejected, TypeOK
  <2>2. Accounted' /\ \A j \in Ids, u \in Ticks : Moves(u, j)
    BY <1>1, <2>1, AccountedStep DEF SInv, Moves
  <2>. QED
    BY <1>1, <2>1, <2>2, CarriedStep, HeldStep DEF SInv
<1>. QED
  BY <1>2, <1>3, <1>4 DEF PatchStep

LEMMA StatusInvariant == Spec => []SInv
<1>1. Init => SInv
  BY DEF Init, SInv, Accounted, Carried, HeldPending, Explained, NoRow
<1>2. SInv /\ IInv /\ TypeOK /\ TypeOK' /\ [Next]_vars => SInv'
  <2>. SUFFICES ASSUME SInv, IInv, TypeOK, TypeOK', [Next]_vars PROVE SInv'
    OBVIOUS
  <2>1. CASE UNCHANGED vars
    BY <2>1 DEF vars, tick, history, SInv, Accounted, Carried, HeldPending, Explained
  <2>2. CASE Schedule \/ Clock \/ Crash \/ \E t \in Ticks : IntervalFires(t) \/ FindRejected(t)
    BY <2>2, OutsideStatus DEF Schedule
  <2>. QED
    BY <2>1, <2>2, FindPendingStatus, CopyStatus, SaveStatus, PatchStatus DEF Next, Run, TickStep
<1>. QED
  BY <1>1, <1>2, TypeCorrect, InvariantHolds, PTL DEF Spec

\* The status of a row is never invented: an execution that resolved, a
\* rejection or an operator accounts for it (lines 115-156).
THEOREM StatusesAreExplained == Spec => []StatusExplained
<1>1. SInv => StatusExplained
  BY DEF SInv, Accounted, Explained, StatusExplained
<1>. QED
  BY <1>1, StatusInvariant, PTL

\* The schedule of a pending row never moves backwards, unless it is raced or
\* its period is negative.
THEOREM SchedulesAdvance == Spec => ScheduleAdvances
<1>1. ASSUME IInv, [Next]_vars, NEW i \in Ids, Forward(i), i \notin raced',
             rows[i].status = "pending", rows'[i].status = "pending"
      PROVE  rows[i].executeAt <= rows'[i].executeAt
  <2>1. TypeOK /\ rows[i].executeAt \in Int
    BY <1>1 DEF IInv, TypeOK, Rows
  <2>2. CASE rows'[i] = rows[i]
    BY <2>1, <2>2
  <2>3. ASSUME NEW t \in Ticks, SaveOutcome(t, i) \/ SaveRejected(t, i) \/ SaveFailedRejected(t, i)
        PROVE  rows[i].executeAt <= rows'[i].executeAt
    <3>1. /\ rows'[i] \in {rows[i], copy[t][i]} /\ stage[t][i] \in {"save", "catch"} /\ raced \subseteq raced'
          /\ copy[t][i].executeAt \in Int /\ start[t] \in Nat
      BY <2>1, <2>3 DEF SaveOutcome, SaveRejected, SaveFailedRejected, TypeOK, Rows, history
    <3>2. CASE rows'[i] = copy[t][i]
      <4>1. start[t] <= copy[t][i].executeAt /\ stage[t][i] = "save"
        BY <1>1, <3>1, <3>2 DEF IInv, AdvancedCopy
      <4>2. rows[i].executeAt <= start[t]
        BY <1>1, <3>1, <4>1 DEF IInv, HeldIsDue
      <4>. QED
        BY <2>1, <3>1, <3>2, <4>1, <4>2
    <3>. QED
      BY <2>2, <3>1, <3>2
  <2>4. ASSUME NEW p \in Patchers, UpdateEventStatusSave(p) PROVE rows'[i] = rows[i]
    BY <1>1, <2>1, <2>4 DEF UpdateEventStatusSave, TypeOK
  <2>5. ASSUME NEW j \in Ids, NEW t \in Ticks, j # i,
               SaveOutcome(t, j) \/ SaveRejected(t, j) \/ SaveFailedRejected(t, j)
        PROVE  rows'[i] = rows[i]
    BY <2>1, <2>5 DEF SaveOutcome, SaveRejected, SaveFailedRejected, TypeOK
  <2>6. ASSUME NEW j \in Ids, NEW at \in Times, ScheduleAction(j, at) PROVE rows'[i] = rows[i]
    BY <1>1, <2>1, <2>6 DEF ScheduleAction, TypeOK
  <2>7. CASE rows' = rows
    BY <2>2, <2>7
  <2>. QED
    BY <1>1, <2>2, <2>3, <2>4, <2>5, <2>6, <2>7
    DEF Next, Schedule, Run, TickStep, PatchStep, Clock, Crash, IntervalFires, FindPending, FindRejected,
        BeginAction, ActionReturns, ActionThrows, UpdateEventStatusRead, UpdateEventStatusRejected, vars
<1>2. IInv /\ [Next]_vars =>
        [\A i \in Ids :
           rows[i].status = "pending" /\ rows'[i].status = "pending" /\ Forward(i) /\ i \notin raced'
             => rows[i].executeAt <= rows'[i].executeAt]_vars
  BY <1>1
<1>. QED
  BY <1>2, InvariantHolds, PTL DEF Spec, ScheduleAdvances

\* A final status is final, unless an operator or one of the four races changes
\* it; only the catch of its own save turns an executed row into a failed one.
THEOREM FinalStatusesStay == Spec => FinalStays
<1>1. ASSUME IInv, SInv, [Next]_vars, NEW i \in Ids, i \notin raced', asked[i] = {},
             rows[i].status \in {"failed", "executed"}
      PROVE  \/ rows'[i].status = rows[i].status
             \/ rows[i].status = "executed" /\ rows'[i].status = "failed" /\ i \in rejected
  <2>1. TypeOK
    BY <1>1 DEF IInv
  <2>2. ASSUME NEW t \in Ticks, SaveOutcome(t, i) \/ SaveRejected(t, i) \/ SaveFailedRejected(t, i)
        PROVE  \/ rows'[i] = rows[i]
               \/ rows[i].status = "executed" /\ rows'[i].status = "failed" /\ i \in rejected
    <3>1. rows'[i] \in {rows[i], copy[t][i]} /\ stage[t][i] \in {"save", "catch"} /\ raced \subseteq raced'
      BY <2>1, <2>2 DEF SaveOutcome, SaveRejected, SaveFailedRejected, TypeOK, history
    <3>2. stage[t][i] = "catch" /\ rows[i].status = "executed" /\ i \in rejected
      BY <1>1, <3>1 DEF SInv, HeldPending
    <3>3. copy[t][i].status = "failed"
      BY <1>1, <3>1, <3>2 DEF IInv, AdvancedCopy
    <3>. QED
      BY <3>1, <3>2, <3>3
  <2>3. ASSUME NEW p \in Patchers, UpdateEventStatusSave(p) PROVE rows'[i] = rows[i]
    BY <1>1, <2>1, <2>3 DEF UpdateEventStatusSave, TypeOK, SInv, Carried
  <2>4. ASSUME NEW j \in Ids, NEW t \in Ticks, j # i,
               SaveOutcome(t, j) \/ SaveRejected(t, j) \/ SaveFailedRejected(t, j)
        PROVE  rows'[i] = rows[i]
    BY <2>1, <2>4 DEF SaveOutcome, SaveRejected, SaveFailedRejected, TypeOK
  <2>5. ASSUME NEW j \in Ids, NEW at \in Times, ScheduleAction(j, at) PROVE rows'[i] = rows[i]
    BY <1>1, <2>1, <2>5 DEF ScheduleAction, TypeOK
  <2>. QED
    BY <1>1, <2>2, <2>3, <2>4, <2>5
    DEF Next, Schedule, Run, TickStep, PatchStep, Clock, Crash, IntervalFires, FindPending, FindRejected,
        BeginAction, ActionReturns, ActionThrows, UpdateEventStatusRead, UpdateEventStatusRejected, vars
<1>2. IInv /\ SInv /\ [Next]_vars =>
        [\A i \in Ids : asked[i] = {} /\ i \notin raced' =>
           /\ rows[i].status = "failed" => rows'[i].status = "failed"
           /\ rows[i].status = "executed" =>
                \/ rows'[i].status = "executed"
                \/ rows'[i].status = "failed" /\ i \in rejected]_vars
  BY <1>1
<1>. QED
  BY <1>2, InvariantHolds, StatusInvariant, PTL DEF Spec, FinalStays
=============================================================================
