----------------------------- MODULE Automation -----------------------------
(***************************************************************************)
(* From a record event to the effect of a workspace action:                *)
(* listeners/workspace-records.listener.ts on top of ScheduledActions, the *)
(* emission of the event by workspace-records.service.ts, and the edits of *)
(* the workspace (workspaces.service.ts) that change its actions.          *)
(*                                                                         *)
(* The row of scheduled_actions that event e inserts for action a has the  *)
(* key <<e, a>>.  The record is saved first, the event is emitted in the   *)
(* same process afterwards, and nothing of a handler is persisted until    *)
(* scheduleAction's insert: a restart loses the event.                     *)
(***************************************************************************)
EXTENDS ScheduledActions, FiniteSets, FiniteSetsExt

CONSTANTS
  Events,       \* record.created/updated/deleted events to come
  Actions,      \* numbers of the workspace's actions, in array order
  Editors,      \* requests PATCH workspaces/:id
  Kind,         \* Kind[e] in {"create", "update", "delete"}
  TriggerEvent, \* TriggerEvent[a], likewise
  ScheduleType, \* ScheduleType[a] in {"normal", "scheduled", "recurrent"}
  Time,         \* Time[<<e, a>>]: executionTime or referenceDate, resolved
  MaxRejections \* bound: database calls of handlers that reject

Invalid == -1   \* no executionTime or recurrentConfig, or not a date
Now     == -2   \* no referenceDate: the time of the event

ASSUME ActionsAssumption == Actions \subseteq Nat /\ IsFiniteSet(Actions)
ASSUME KeysAssumption    == Ids = Events \X Actions
ASSUME TimeAssumption    == Time \in [Ids -> Nat \cup {Invalid, Now}]
ASSUME FirstAssumption   ==
  \A i \in Ids : \A n \in 0..MaxNow :
    /\ Time[i] \in Nat => Time[i] \in Times
    /\ Recurrence[i] # OneTime /\ Time[i] = Now => n + Recurrence[i] \in Times
    /\ Recurrence[i] # OneTime /\ Time[i] \in Nat => Time[i] + Recurrence[i] \in Times
ASSUME RejectionsAssumption == MaxRejections \in Nat
ASSUME TypesAssumption   ==
  \A e \in Events, a \in Actions :
    /\ ScheduleType[a] = "recurrent" <=> Recurrence[<<e, a>>] # OneTime
    /\ ScheduleType[a] # "recurrent" => Time[<<e, a>>] # Now

VARIABLES
  workspace,  \* the row: whether it exists, and which actions are active
  edit,       \* edit[w]: the entity that request w has read and will save
  pc,         \* pc[e]: where the event and its handler are
  todo,       \* todo[e]: matched actions still to be processed
  current,    \* current[e]: the action being processed, with its time
  rejections, \* database calls of handlers rejected so far

  \* history
  matched,    \* matched[e]: the actions the handler selected
  settled,    \* pairs whose turn in the handler is over
  immediate   \* immediate[i]: effects sent by the handler itself, up to 2

listener == <<pc, todo, current, rejections, matched, settled, immediate>>
avars    == <<vars, workspace, edit, listener>>

NoAction == [action |-> 0, at |-> 0]

AInit ==
  /\ Init
  /\ workspace = [exists |-> TRUE, active |-> Actions]
  /\ edit = [w \in Editors |-> Fresh]
  /\ pc = [e \in Events |-> "none"]
  /\ todo = [e \in Events |-> {}]
  /\ current = [e \in Events |-> NoAction]
  /\ rejections = 0
  /\ matched = [e \in Events |-> {}]
  /\ settled = {}
  /\ immediate = [i \in Ids |-> 0]

-----------------------------------------------------------------------------
(* The workspace row.                                                       *)

\* update: findOne, Object.assign(workspace, dto).  A dto without actions
\* keeps the ones just read; dto.actions replaces the whole array.
UpdateWorkspaceRead(w) ==
  /\ edit[w] = Fresh
  /\ workspace.exists
  /\ \E active \in {workspace.active} \cup SUBSET Actions :
       edit' = [edit EXCEPT ![w] = [id |-> "workspace", active |-> active]]
  /\ UNCHANGED <<vars, workspace, listener>>

\* ... and save, which writes every differing column and inserts a missing row.
UpdateWorkspaceSave(w) ==
  /\ edit[w] \notin {Fresh, Answered}
  /\ workspace' = [exists |-> TRUE, active |-> edit[w].active]
  /\ edit' = [edit EXCEPT ![w] = Answered]
  /\ UNCHANGED <<vars, listener>>

RemoveWorkspace ==
  /\ workspace.exists
  /\ workspace' = [workspace EXCEPT !.exists = FALSE]
  /\ UNCHANGED <<vars, edit, listener>>

-----------------------------------------------------------------------------
(* The event.                                                               *)

\* The statement that creates, merges or deletes the record commits ...
CommitRecord(e) ==
  /\ pc[e] = "none"
  /\ pc' = [pc EXCEPT ![e] = "committed"]
  /\ UNCHANGED <<vars, workspace, edit, todo, current, matched, settled, immediate, rejections>>

\* ... and, awaits later, emit starts the handler up to its first await.
EmitRecordEvent(e) ==
  /\ pc[e] = "committed"
  /\ pc' = [pc EXCEPT ![e] = "find"]
  /\ UNCHANGED <<vars, workspace, edit, todo, current, matched, settled, immediate, rejections>>

-----------------------------------------------------------------------------
(* processActions.                                                          *)

Matching(e) ==
  {a \in workspace.active : workspace.exists /\ TriggerEvent[a] = Kind[e]}

\* The next action of the loop, or the end of it.
Advance(e, rest) ==
  /\ todo' = [todo EXCEPT ![e] = rest]
  /\ pc' = [pc EXCEPT ![e] = IF rest = {} THEN "done" ELSE "loop"]
  /\ current' = [current EXCEPT ![e] = NoAction]

FindWorkspace(e) ==
  /\ pc[e] = "find"
  /\ Advance(e, Matching(e))
  /\ matched' = [matched EXCEPT ![e] = Matching(e)]
  /\ UNCHANGED <<vars, workspace, edit, settled, immediate, rejections>>

\* The query is outside the try: the event-emitter module logs the rejection.
FindWorkspaceRejected(e) ==
  /\ pc[e] = "find"
  /\ rejections < MaxRejections
  /\ rejections' = rejections + 1
  /\ pc' = [pc EXCEPT ![e] = "lost"]
  /\ UNCHANGED <<vars, workspace, edit,
                 todo, current, matched, settled, immediate>>

\* handleRecurrentAction: the reference plus one period.
FirstExecution(i) ==
  (IF Time[i] = Now THEN now ELSE Time[i]) + Recurrence[i]

\* Mutant of Decision: dates that cannot be parsed are not rejected.
DecisionUnchecked(e, a) ==
  CASE ScheduleType[a] = "normal" -> "exec"
    [] ScheduleType[a] \in {"scheduled", "recurrent"} -> "schedule"
    [] OTHER -> "skip"

\* Where the switch on scheduleType sends action a of event e.
Decision(e, a) ==
  LET i == <<e, a>> IN
  CASE ScheduleType[a] = "normal" -> "exec"
    [] ScheduleType[a] = "scheduled" /\ Time[i] # Invalid ->
         IF Time[i] <= now THEN "exec" ELSE "schedule"
    [] ScheduleType[a] = "recurrent" /\ Time[i] # Invalid -> "schedule"
    [] OTHER -> "skip"

\* The time that goes with it: at once, the date, or after the first period.
TimeOf(e, a) ==
  IF Decision(e, a) = "exec" THEN now
  ELSE IF ScheduleType[a] = "scheduled" THEN Time[<<e, a>>]
  ELSE FirstExecution(<<e, a>>)

Turn(e) == Min(todo[e])

\* Two kinds of action need an await; the others are over with a warning.
StartAction(e) ==
  /\ pc[e] = "loop"
  /\ LET a == Turn(e) IN
       IF Decision(e, a) = "skip"
       THEN /\ Advance(e, todo[e] \ {a})
            /\ settled' = settled \cup {<<e, a>>}
       ELSE /\ pc' = [pc EXCEPT ![e] = Decision(e, a)]
            /\ current' = [current EXCEPT ![e] = [action |-> a, at |-> TimeOf(e, a)]]
            /\ UNCHANGED <<todo, settled>>
  /\ UNCHANGED <<vars, workspace, edit, matched, immediate, rejections>>

\* Mutant of EndTurn: one try around the loop, an error ends the handler.
EndTurnOfAll(e) ==
  /\ Advance(e, {})
  /\ settled' = settled \cup {<<e, current[e].action>>}

\* The try of the loop's body has ended, the catch swallowed any error.
EndTurn(e) ==
  /\ Advance(e, todo[e] \ {current[e].action})
  /\ settled' = settled \cup {<<e, current[e].action>>}

\* The effect of the handler's own call of executeAction.
DeliversNow(i) ==
  \E outcome \in ExecuteAction(Task[i]) :
    immediate' = [immediate EXCEPT ![i] =
      IF outcome \in {"skipped", "rejected"} THEN @ ELSE IF @ = 0 THEN 1 ELSE 2]

\* Mutant of ExecuteNow: without the return, the action is scheduled as well.
ExecuteNowNoReturn(e) ==
  /\ pc[e] = "exec"
  /\ DeliversNow(<<e, current[e].action>>)
  /\ IF ScheduleType[current[e].action] = "scheduled"
     THEN pc' = [pc EXCEPT ![e] = "schedule"] /\ UNCHANGED <<todo, current, settled>>
     ELSE EndTurn(e)
  /\ UNCHANGED <<vars, workspace, edit, matched, rejections>>

\* executeAction called by the handler settles; nothing is recorded of it.
ExecuteNow(e) ==
  /\ pc[e] = "exec"
  /\ DeliversNow(<<e, current[e].action>>)
  /\ EndTurn(e)
  /\ UNCHANGED <<vars, workspace, edit, matched, rejections>>

\* scheduleAction inserts the pending row of the pair.
ScheduleNow(e) ==
  /\ pc[e] = "schedule"
  /\ ScheduleAction(<<e, current[e].action>>, current[e].at)
  /\ EndTurn(e)
  /\ UNCHANGED <<workspace, edit, matched, immediate, rejections>>

\* The insert rejects: the error is logged and the action never happens.
ScheduleRejected(e) ==
  /\ pc[e] = "schedule"
  /\ rejections < MaxRejections
  /\ rejections' = rejections + 1
  /\ EndTurn(e)
  /\ UNCHANGED <<vars, workspace, edit, matched, immediate>>

-----------------------------------------------------------------------------
\* The process that dies takes its handlers, events and requests with it.
CrashAll ==
  /\ Crash
  /\ pc' = [e \in Events |-> IF pc[e] \in {"none", "done"} THEN pc[e] ELSE "lost"]
  /\ todo' = [e \in Events |-> {}]
  /\ current' = [e \in Events |-> NoAction]
  /\ edit' = [w \in Editors |-> IF edit[w] = Fresh THEN Fresh ELSE Answered]
  /\ UNCHANGED <<workspace, matched, settled, immediate, rejections>>

SchedulerStep ==
  /\ \/ Clock
     \/ \E t \in Ticks : IntervalFires(t) \/ TickStep(t)
     \/ \E p \in Patchers : PatchStep(p)
  /\ UNCHANGED <<workspace, edit, listener>>

Handle(e) ==
  \/ EmitRecordEvent(e)
  \/ FindWorkspace(e)
  \/ FindWorkspaceRejected(e)
  \/ StartAction(e)
  \/ ExecuteNow(e)
  \/ ScheduleNow(e)
  \/ ScheduleRejected(e)

ANext ==
  \/ SchedulerStep
  \/ CrashAll
  \/ \E e \in Events : CommitRecord(e) \/ Handle(e)
  \/ \E w \in Editors : UpdateWorkspaceRead(w) \/ UpdateWorkspaceSave(w)
  \/ RemoveWorkspace

\* As in ScheduledActions, and every await of a handler settles.
AFairness ==
  /\ WF_avars(Clock /\ UNCHANGED <<workspace, edit, listener>>)
  /\ WF_avars(\E t \in Ticks : IntervalFires(t) /\ UNCHANGED <<workspace, edit, listener>>)
  /\ \A t \in Ticks : WF_avars(TickStep(t) /\ UNCHANGED <<workspace, edit, listener>>)
  /\ \A e \in Events : WF_avars(Handle(e))

ASpec     == AInit /\ [][ANext]_avars
AFairSpec == ASpec /\ AFairness

-----------------------------------------------------------------------------
(* Properties.                                                              *)

\* One event and one action that is not recurrent give one effect at most,
\* counting the handler's own call and every tick, unless the row was raced:
\* what the handler ran at once is not scheduled too, nor inserted twice.
OneEffectPerEvent ==
  \A i \in Ids : Recurrence[i] = OneTime /\ i \notin raced => immediate[i] + delivered[i] <= 1

\* The catch is per action: each action the handler selected has its turn, in
\* spite of rejections before it, unless the process dies.
EveryActionHasItsTurn ==
  \A e \in Events, a \in Actions :
    a \in matched[e] ~> <<e, a>> \in settled \/ pc[e] = "lost"

\* scheduled-actions.service.ts:114 says that an action that is not active is
\* not executed.  The tick reads the flag of its snapshot, which the listener
\* only stores when it is set: deactivating an action stops no pending row.
InactiveIsSkipped ==
  [][\A t \in Ticks, e \in Events, a \in Actions :
       stage[t][<<e, a>>] = "queued" /\ stage'[t][<<e, a>>] = "exec"
         => a \in workspace.active]_avars
=============================================================================
