-------------------------- MODULE ScheduledActions --------------------------
(***************************************************************************)
(* The scheduler of workspace actions: scheduled-actions.service.ts and    *)
(* the route that edits its rows, WorkspacesService.updateEventStatus.     *)
(*                                                                         *)
(* A timer starts a tick (processScheduledActions) every 30 seconds,       *)
(* whether or not the previous tick has finished.  A tick reads the due    *)
(* rows once, then works on its in-memory copies one after the other:      *)
(* execute, compute the next state, save the copy over the row.  Between   *)
(* two awaits of a tick any other tick, a PATCH of the same row or a crash *)
(* of the process can happen.  One unit of time is one timer interval.     *)
(*                                                                         *)
(* Repository.save is modelled as "the row becomes the entity": TypeORM    *)
(* updates every column that differs from the row it finds.  executedAt is *)
(* left out: it is written beside status and only ever displayed.          *)
(*                                                                         *)
(* calculateNextExecution adds an interval to the day, month... of the     *)
(* tick's "now"; here that adds a fixed number of units, which ignores     *)
(* that months and days with a change of the clocks differ in length.  The *)
(* interval is not validated: a period may be zero or negative.            *)
(***************************************************************************)
EXTENDS Integers, ActionExecutor

CONSTANTS
  Ids,          \* primary keys of scheduled_actions rows
  Ticks,        \* slots for activations of processScheduledActions
  Patchers,     \* the requests PATCH workspaces/events/:id/status
  PatchStatuses,\* the strings such requests carry
  Task,         \* Task[i]: the actionSnapshot and recordData of row i
  Recurrence,   \* Recurrence[i]: the period of row i, or OneTime
  OneTime,      \* isRecurrent = false
  Times,        \* the times for which rows are scheduled
  MaxNow,       \* bound: the clock stops advancing here
  MaxFaults,    \* bound: database calls that reject
  MaxCrashes    \* bound: restarts of the process

Never == -1   \* no run yet

ASSUME IdsAssumption        == Task \in [Ids -> Tasks]
ASSUME RecurrenceAssumption == Recurrence \in [Ids -> Int \cup {OneTime}]
ASSUME OneTimeAssumption    == OneTime \notin Int
ASSUME TimesAssumption      == Times \subseteq Int
ASSUME BoundsAssumption     == MaxNow \in Nat /\ MaxFaults \in Nat /\ MaxCrashes \in Nat
ASSUME PatchAssumption      == PatchStatuses \subseteq {"pending", "executed", "failed", "other"}

\* "none": the row has not been inserted; "other": a status the scheduler
\* does not know (the column is a varchar and the route takes any string).
Statuses == {"none", "pending", "executed", "failed", "other"}
Rows     == [status : Statuses, executeAt : Int]
NoRow    == [status |-> "none", executeAt |-> 0]
Edited   == [status : PatchStatuses, executeAt : Int]

VARIABLES
  now,        \* the clock, in timer intervals
  timerDue,   \* the interval has elapsed and the tick has not started yet
  rows,       \* the table scheduled_actions
  phase,      \* phase[t]: where activation t is
  start,      \* start[t]: the "now" that activation t read when it began
  stage,      \* stage[t][i]: what activation t is doing with its copy of i
  copy,       \* copy[t][i]: that in-memory entity
  patch,      \* patch[p]: the entity that request p has read and will save
  faults,     \* database calls rejected so far
  crashes     \* restarts so far

VARIABLES     \* history, read by no action
  lastRun,    \* lastRun[i]: start of the last tick that called executeAction
  delivered,  \* delivered[i]: effects that left for i, counted up to 2
  completed,  \* rows whose executeAction has resolved
  rejected,   \* rows whose execution or save has rejected
  asked,      \* asked[i]: statuses that PATCH requests have carried for i
  raced       \* rows hit by an overlap, a lost update, or a lost save

tick    == <<phase, start, stage, copy>>
history == <<lastRun, delivered, completed, rejected, asked, raced>>
vars    == <<now, timerDue, rows, tick, patch, faults, crashes, history>>

\* A request that has not read its row yet, and one that is over.
Fresh    == [id |-> "fresh"]
Answered == [id |-> "answered"]

Init ==
  /\ now = 0
  /\ timerDue = FALSE
  /\ rows = [i \in Ids |-> NoRow]
  /\ phase = [t \in Ticks |-> "idle"]
  /\ start = [t \in Ticks |-> 0]
  /\ stage = [t \in Ticks |-> [i \in Ids |-> "out"]]
  /\ copy = [t \in Ticks |-> [i \in Ids |-> NoRow]]
  /\ patch = [p \in Patchers |-> Fresh]
  /\ faults = 0
  /\ crashes = 0
  /\ lastRun = [i \in Ids |-> Never]
  /\ delivered = [i \in Ids |-> 0]
  /\ completed = {}
  /\ rejected = {}
  /\ asked = [i \in Ids |-> {}]
  /\ raced = {}

-----------------------------------------------------------------------------
(* The clock and the listener's side.                                      *)

\* Saturates at MaxNow, so that time never stops a liveness property.
Clock ==
  /\ now < MaxNow \/ ~timerDue
  /\ now' = IF now < MaxNow THEN now + 1 ELSE now
  /\ timerDue' = TRUE
  /\ UNCHANGED <<rows, tick, patch, faults, crashes, history>>

\* The caller, the records listener, chooses the time (module Automation): it
\* may be over when the insert commits, and often is for a recurrent action.
ScheduleAction(i, at) ==
  /\ rows[i].status = "none"
  /\ rows' = [rows EXCEPT ![i] = [status |-> "pending", executeAt |-> at]]
  /\ UNCHANGED <<now, timerDue, tick, patch, faults, crashes, history>>

-----------------------------------------------------------------------------
(* processScheduledActions.                                                *)

IntervalFires(t) ==
  /\ timerDue
  /\ phase[t] = "idle"
  /\ timerDue' = FALSE
  /\ phase' = [phase EXCEPT ![t] = "find"]
  /\ start' = [start EXCEPT ![t] = now]
  /\ UNCHANGED <<now, rows, stage, copy, patch, faults, crashes, history>>

\* Back to idle, whatever the activation still held.
EndTick(t) ==
  /\ phase' = [phase EXCEPT ![t] = "idle"]
  /\ start' = [start EXCEPT ![t] = 0]
  /\ stage' = [stage EXCEPT ![t] = [i \in Ids |-> "out"]]
  /\ copy' = [copy EXCEPT ![t] = [i \in Ids |-> NoRow]]

\* Two mutants of Due: a query without the time, and one that retries failures.
DueIgnoringTime(at) == {i \in Ids : rows[i].status = "pending"}
DueFailedToo(at) ==
  {i \in Ids : rows[i].status \in {"pending", "failed"} /\ rows[i].executeAt <= at}

Due(at) == {i \in Ids : rows[i].status = "pending" /\ rows[i].executeAt <= at}

Held(i) == \E t \in Ticks : stage[t][i] # "out"

FindPending(t) ==
  /\ phase[t] = "find"
  /\ LET found == Due(start[t])
     IN  /\ IF found = {}
            THEN EndTick(t)
            ELSE /\ phase' = [phase EXCEPT ![t] = "loop"]
                 /\ stage' = [stage EXCEPT ![t] =
                      [i \in Ids |-> IF i \in found THEN "queued" ELSE "out"]]
                 /\ copy' = [copy EXCEPT ![t] =
                      [i \in Ids |-> IF i \in found THEN rows[i] ELSE NoRow]]
                 /\ UNCHANGED start
         /\ raced' = raced \cup {i \in found : Held(i)}
  /\ UNCHANGED <<now, timerDue, rows, patch, faults, crashes,
                 lastRun, delivered, completed, rejected, asked>>

\* The query rejects outside the try: the tick ends, nothing was touched.
FindRejected(t) ==
  /\ phase[t] = "find"
  /\ faults < MaxFaults
  /\ faults' = faults + 1
  /\ EndTick(t)
  /\ UNCHANGED <<now, timerDue, rows, patch, crashes, history>>

Busy(t) == \E i \in Ids : stage[t][i] \in {"exec", "save", "catch"}

\* Two mutants of Processed: the status is not set; the next time is counted
\* from the time the row asked for instead of from the tick's "now".
ProcessedStaysPending(t, i) ==
  [copy[t][i] EXCEPT !.executeAt =
     IF Recurrence[i] # OneTime THEN start[t] + Recurrence[i] ELSE @]
ProcessedFromExecuteAt(t, i) ==
  IF Recurrence[i] # OneTime
  THEN [copy[t][i] EXCEPT !.executeAt = @ + Recurrence[i]]
  ELSE [copy[t][i] EXCEPT !.status = "executed"]

\* The entity as the try block leaves it before its save.
Processed(t, i) ==
  IF Recurrence[i] # OneTime
  THEN [copy[t][i] EXCEPT !.executeAt = start[t] + Recurrence[i]]
  ELSE [copy[t][i] EXCEPT !.status = "executed"]

\* Two mutants of Failed: a failure recorded as a success, or not at all.
FailedMarkedExecuted(t, i) == [copy[t][i] EXCEPT !.status = "executed"]
FailedKeepsPending(t, i)   == copy[t][i]

\* The entity as the catch block leaves it before its save.
Failed(t, i) == [copy[t][i] EXCEPT !.status = "failed"]

\* The next iteration of the for loop, in the order of executeAt.
BeginAction(t, i) ==
  /\ stage[t][i] = "queued"
  /\ ~Busy(t)
  /\ \A j \in Ids : stage[t][j] = "queued" => copy[t][i].executeAt <= copy[t][j].executeAt
  /\ IF Task[i].active
     THEN /\ stage' = [stage EXCEPT ![t][i] = "exec"]
          /\ UNCHANGED copy
     ELSE /\ stage' = [stage EXCEPT ![t][i] = "save"]
          /\ copy' = [copy EXCEPT ![t][i] = Processed(t, i)]
  /\ UNCHANGED <<now, timerDue, rows, phase, start, patch, faults, crashes, history>>

Attempted(t, i) == lastRun' = [lastRun EXCEPT ![i] = start[t]]

Delivers(i) ==
  delivered' = [delivered EXCEPT ![i] = IF @ = 0 THEN 1 ELSE 2]

\* executeAction resolves; the copy is brought up to date and its save begins.
ActionReturns(t, i) ==
  /\ stage[t][i] = "exec"
  /\ \/ "sent" \in ExecuteAction(Task[i]) /\ Delivers(i)
     \/ "skipped" \in ExecuteAction(Task[i]) /\ UNCHANGED delivered
  /\ stage' = [stage EXCEPT ![t][i] = "save"]
  /\ copy' = [copy EXCEPT ![t][i] = Processed(t, i)]
  /\ Attempted(t, i)
  /\ completed' = completed \cup {i}
  /\ UNCHANGED <<now, timerDue, rows, phase, start, patch, faults, crashes,
                 rejected, asked, raced>>

\* executeAction rejects, perhaps after the effect has left.
ActionThrows(t, i) ==
  /\ stage[t][i] = "exec"
  /\ \/ "rejected" \in ExecuteAction(Task[i]) /\ UNCHANGED delivered
     \/ "unconfirmed" \in ExecuteAction(Task[i]) /\ Delivers(i)
  /\ stage' = [stage EXCEPT ![t][i] = "catch"]
  /\ copy' = [copy EXCEPT ![t][i] = Failed(t, i)]
  /\ Attempted(t, i)
  /\ rejected' = rejected \cup {i}
  /\ UNCHANGED <<now, timerDue, rows, phase, start, patch, faults, crashes,
                 completed, asked, raced>>

\* The tick is done with i; it ends when i was the last of its copies.
Leave(t, i) ==
  IF \A j \in Ids \ {i} : stage[t][j] = "out"
  THEN EndTick(t)
  ELSE /\ stage' = [stage EXCEPT ![t][i] = "out"]
       /\ copy' = [copy EXCEPT ![t][i] = NoRow]
       /\ UNCHANGED <<phase, start>>

\* Either save of the loop: the one of the try or the one of the catch block.
SaveOutcome(t, i) ==
  /\ stage[t][i] \in {"save", "catch"}
  /\ rows' = [rows EXCEPT ![i] = copy[t][i]]
  /\ Leave(t, i)
  /\ UNCHANGED <<now, timerDue, patch, faults, crashes, history>>

\* The save of the try block rejects, committed or not: the catch block runs.
SaveRejected(t, i) ==
  /\ stage[t][i] = "save"
  /\ faults < MaxFaults
  /\ faults' = faults + 1
  /\ rows' \in {rows, [rows EXCEPT ![i] = copy[t][i]]}
  /\ stage' = [stage EXCEPT ![t][i] = "catch"]
  /\ copy' = [copy EXCEPT ![t][i] = Failed(t, i)]
  /\ rejected' = rejected \cup {i}
  /\ UNCHANGED <<now, timerDue, phase, start, patch, crashes,
                 lastRun, delivered, completed, asked, raced>>

\* The save of the catch block rejects: the error leaves the loop, the rest
\* of the queue waits for the next tick and row i may still be pending.
SaveFailedRejected(t, i) ==
  /\ stage[t][i] = "catch"
  /\ faults < MaxFaults
  /\ faults' = faults + 1
  /\ \/ /\ rows' = [rows EXCEPT ![i] = copy[t][i]]
        /\ UNCHANGED raced
     \/ /\ UNCHANGED rows
        /\ raced' = raced \cup {i}
  /\ EndTick(t)
  /\ UNCHANGED <<now, timerDue, patch, crashes,
                 lastRun, delivered, completed, rejected, asked>>

-----------------------------------------------------------------------------
(* WorkspacesService.updateEventStatus: findOne, assign, save.             *)

UpdateEventStatusRead(p, i, s) ==
  /\ patch[p] = Fresh
  /\ rows[i].status # "none"
  /\ patch' = [patch EXCEPT ![p] = [id |-> i, row |-> [rows[i] EXCEPT !.status = s]]]
  /\ asked' = [asked EXCEPT ![i] = @ \cup {s}]
  /\ UNCHANGED <<now, timerDue, rows, tick, faults, crashes,
                 lastRun, delivered, completed, rejected, raced>>

\* Every column goes back as it was read: a row that a tick has moved on since
\* becomes pending again with its old executeAt.
UpdateEventStatusSave(p) ==
  /\ patch[p] \notin {Fresh, Answered}
  /\ LET i == patch[p].id IN
       /\ rows' = [rows EXCEPT ![i] = patch[p].row]
       /\ raced' = IF patch[p].row.status = "pending" /\ patch[p].row # rows[i]
                   THEN raced \cup {i} ELSE raced
  /\ patch' = [patch EXCEPT ![p] = Answered]
  /\ UNCHANGED <<now, timerDue, tick, faults, crashes,
                 lastRun, delivered, completed, rejected, asked>>

UpdateEventStatusRejected(p) ==
  /\ patch[p] \notin {Fresh, Answered}
  /\ faults < MaxFaults
  /\ faults' = faults + 1
  /\ patch' = [patch EXCEPT ![p] = Answered]
  /\ UNCHANGED <<now, timerDue, rows, tick, crashes, history>>

-----------------------------------------------------------------------------
\* The process dies and restarts: rows survive, copies and the timer do not.
Crash ==
  /\ crashes < MaxCrashes
  /\ crashes' = crashes + 1
  /\ timerDue' = FALSE
  /\ phase' = [t \in Ticks |-> "idle"]
  /\ start' = [t \in Ticks |-> 0]
  /\ stage' = [t \in Ticks |-> [i \in Ids |-> "out"]]
  /\ copy' = [t \in Ticks |-> [i \in Ids |-> NoRow]]
  /\ patch' = [p \in Patchers |-> IF patch[p] = Fresh THEN Fresh ELSE Answered]
  /\ raced' = raced \cup
       {i \in Ids : \E t \in Ticks : stage[t][i] \in {"save", "catch"}}
  /\ UNCHANGED <<now, rows, faults, lastRun, delivered, completed, rejected, asked>>

-----------------------------------------------------------------------------
Schedule == \E i \in Ids, at \in Times : ScheduleAction(i, at)

TickStep(t) ==
  \/ FindPending(t)
  \/ FindRejected(t)
  \/ \E i \in Ids :
       \/ BeginAction(t, i)
       \/ ActionReturns(t, i)
       \/ ActionThrows(t, i)
       \/ SaveOutcome(t, i)
       \/ SaveRejected(t, i)
       \/ SaveFailedRejected(t, i)

PatchStep(p) ==
  \/ \E i \in Ids, s \in PatchStatuses : UpdateEventStatusRead(p, i, s)
  \/ UpdateEventStatusSave(p)
  \/ UpdateEventStatusRejected(p)

\* Everything that goes on whoever inserts the rows.
Run ==
  \/ Clock
  \/ \E t \in Ticks : IntervalFires(t) \/ TickStep(t)
  \/ \E p \in Patchers : PatchStep(p)
  \/ Crash

Next == Schedule \/ Run

\* Time passes, Node runs its timers, and every await of a tick settles.
Fairness ==
  /\ WF_vars(Clock)
  /\ WF_vars(\E t \in Ticks : IntervalFires(t))
  /\ \A t \in Ticks : WF_vars(TickStep(t))

Spec     == Init /\ [][Next]_vars
FairSpec == Spec /\ Fairness

-----------------------------------------------------------------------------
(* Properties.  A row is raced when a second tick found it while a first    *)
(* held it, a PATCH put it back to pending over a newer state, the process  *)
(* died between the effect and the save, or the last save was rejected.     *)

\* Every variable keeps its type, a tick outside its loop holds no row, and
\* a tick in its loop holds one at least.
TypeOK ==
  /\ now \in Nat /\ timerDue \in BOOLEAN
  /\ rows \in [Ids -> Rows]
  /\ phase \in [Ticks -> {"idle", "find", "loop"}]
  /\ start \in [Ticks -> Nat]
  /\ stage \in [Ticks -> [Ids -> {"out", "queued", "exec", "save", "catch"}]]
  /\ copy \in [Ticks -> [Ids -> Rows]]
  /\ patch \in [Patchers -> {Fresh, Answered} \cup [id : Ids, row : Edited]]
  /\ faults \in Nat /\ crashes \in Nat
  /\ lastRun \in [Ids -> Nat \cup {Never}]
  /\ delivered \in [Ids -> 0..2]
  /\ completed \subseteq Ids /\ rejected \subseteq Ids /\ raced \subseteq Ids
  /\ asked \in [Ids -> SUBSET PatchStatuses]
  /\ \A t \in Ticks : phase[t] = "loop" <=> \E i \in Ids : stage[t][i] # "out"

\* A status is never invented.  A row reads "executed" only after its action
\* has resolved (and then it is not recurrent) or an operator said so, and
\* "failed" only after a rejection or an operator's word, through overlapping
\* ticks, stale copies, rejected saves and restarts (lines 115-156).
StatusExplained ==
  \A i \in Ids :
    /\ rows[i].status = "executed" =>
         \/ "executed" \in asked[i]
         \/ Recurrence[i] = OneTime /\ (i \in completed \/ ~Task[i].active)
    /\ rows[i].status = "failed" => i \in rejected \/ "failed" \in asked[i]
    /\ rows[i].status = "other" => "other" \in asked[i]

\* The effect of a one-time action leaves at most once, unless its row was
\* raced: those four windows are the only sources of duplicates.
AtMostOnce ==
  \A i \in Ids : Recurrence[i] = OneTime /\ i \notin raced => delivered[i] <= 1

\* A period that is not negative, if the row has one.
Forward(i) == Recurrence[i] \in Nat \cup {OneTime}

\* A tick that starts at time at may run i: it never ran, or it is recurrent and
\* a full period lies between the start of the tick that ran it last and at.
Rested(i, at) ==
  \/ lastRun[i] = Never
  \/ Recurrence[i] # OneTime /\ (Forward(i) => lastRun[i] + Recurrence[i] <= at)

\* A tick that calls executeAction for a row that was not raced has started a
\* full period after the start of the tick that called it last, or the row was
\* never run.  The effects themselves may be closer: each leaves some time
\* after the start of its tick, and nothing bounds how long a queue takes.
TicksSpaced ==
  \A t \in Ticks, i \in Ids :
    stage[t][i] = "exec" /\ i \notin raced => Rested(i, start[t])

\* The schedule of a pending row never moves backwards, unless its period is
\* negative: a slow tick does not overwrite a later executeAt with the one it
\* computed from an older "now".
ScheduleAdvances ==
  [][\A i \in Ids :
       rows[i].status = "pending" /\ rows'[i].status = "pending" /\ Forward(i) /\ i \notin raced'
         => rows[i].executeAt <= rows'[i].executeAt]_vars

\* A failed row that nobody patched and that was not raced stays failed, and an
\* executed one can only become failed, by the catch of its own save.
FinalStays ==
  [][\A i \in Ids : asked[i] = {} /\ i \notin raced' =>
       /\ rows[i].status = "failed" => rows'[i].status = "failed"
       /\ rows[i].status = "executed" =>
            \/ rows'[i].status = "executed"
            \/ rows'[i].status = "failed" /\ i \in rejected]_vars

\* A due row is processed: some tick gives it a final status or a later time,
\* although ticks abort, the process restarts and PATCHes interfere.
DueIsProcessed ==
  \A i \in Ids :
    rows[i].status = "pending" /\ rows[i].executeAt <= now
      ~> rows[i].status # "pending" \/ rows[i].executeAt > now

-----------------------------------------------------------------------------
(* The inductive invariant behind them.                                     *)

\* A row not raced is held by one tick at most.
SingleHolder ==
  \A i \in Ids \ raced : \A t, u \in Ticks :
    stage[t][i] # "out" /\ stage[u][i] # "out" => t = u

\* Before the effect, the holder's copy is pending, due and rested.
FreshCopy ==
  \A i \in Ids \ raced, t \in Ticks :
    stage[t][i] \in {"queued", "exec"} =>
      /\ copy[t][i].status = "pending"
      /\ copy[t][i].executeAt <= start[t]
      /\ Rested(i, copy[t][i].executeAt)

\* After the effect, what the holder will save is not pending, or is the
\* recurrent row moved one period from this tick's start and rested then.
AdvancedCopy ==
  \A i \in Ids \ raced, t \in Ticks :
    /\ stage[t][i] = "save" => copy[t][i].status \in {"pending", "executed"}
    /\ stage[t][i] = "save" /\ copy[t][i].status = "pending" =>
         /\ Forward(i) => start[t] <= copy[t][i].executeAt
         /\ Rested(i, copy[t][i].executeAt)
    /\ stage[t][i] = "catch" => copy[t][i].status = "failed"

\* A pending row may run at its executeAt, unless its holder is about to save.
RowRested ==
  \A i \in Ids \ raced :
    \/ rows[i].status # "pending"
    \/ \E t \in Ticks : stage[t][i] \in {"save", "catch"}
    \/ Rested(i, rows[i].executeAt)

\* A pending row is not ahead of the tick that holds it.
HeldIsDue ==
  \A i \in Ids \ raced, t \in Ticks :
    stage[t][i] \in {"queued", "exec", "save"} /\ rows[i].status = "pending"
      => rows[i].executeAt <= start[t]

\* Nothing left before the first run, nor does a row run before its insertion.
CountsRuns ==
  /\ \A i \in Ids : lastRun[i] = Never => delivered[i] = 0
  /\ \A i \in Ids \ raced : rows[i].status = "none" =>
       lastRun[i] = Never /\ \A t \in Ticks : stage[t][i] = "out"

\* A tick works on one row at a time.
Sequential ==
  \A t \in Ticks, i, j \in Ids :
    /\ stage[t][i] \in {"exec", "save", "catch"}
    /\ stage[t][j] \in {"exec", "save", "catch"}
    => i = j

IInv ==
  /\ TypeOK
  /\ SingleHolder
  /\ FreshCopy
  /\ AdvancedCopy
  /\ RowRested
  /\ HeldIsDue
  /\ CountsRuns
  /\ Sequential
  /\ AtMostOnce
=============================================================================
