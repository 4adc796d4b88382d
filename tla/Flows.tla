--------------------------------- MODULE Flows ---------------------------------
(***************************************************************************)
(* flow.service.ts: the flows of a user and their histories.               *)
(*                                                                         *)
(* The workspaces and histories of workspaces.service.ts are kept by the   *)
(* same code.  A history names its flow, and no foreign key watches over   *)
(* it: removing a flow leaves its histories where they are.                *)
(***************************************************************************)
EXTENDS OwnedRows

VARIABLE histories \* histories[q]: the row that request q has inserted

hvars == <<histories>>

HInit == histories = [q \in Requests |-> NoRow]

History(i) == [state |-> "exists", flow |-> i]
Kept(h) == histories[h].state = "exists"

ReceiveFlow(q) ==
  /\ \/ \E i \in Ids :
          Fresh(i) /\ Receive(q, Ask("create", "flows", Owner[i], i, Columns), "insert")
     \/ \E i \in Ids, u \in Users, columns \in {{"text"}, {"mark"}} :
          IsIn(i, "flows") /\ Receive(q, Ask("update", "flows", u, i, columns), "find")
     \/ \E i \in Ids, u \in Users, kind \in {"remove", "create history"} :
          IsIn(i, "flows") /\ Receive(q, Ask(kind, "flows", u, i, {}), "find")
     \/ \E h \in Requests, u \in Users :
          Kept(h) /\ Receive(q, Ask("remove history", "flows", u, h, {}), "history")
  /\ UNCHANGED <<copy, histories>>

CreateFlow(q) ==
  Asks(q, "create", "flows") /\ InsertRow(q, Row("flows", q), "done") /\ UNCHANGED histories

\* findOne, with which update, remove and createHistory begin.
FindFlow(q) ==
  /\ \/ Asks(q, "update", "flows") /\ FindOwn(q, Target(q), "save")
     \/ Asks(q, "remove", "flows") /\ FindOwn(q, Target(q), "remove")
     \/ Asks(q, "create history", "flows") /\ FindOwn(q, Target(q), "insert history")
  /\ UNCHANGED histories

UpdateFlow(q) == Asks(q, "update", "flows") /\ SaveRow(q) /\ UNCHANGED histories

\* remove(flow), which does not mind that the row is gone.
RemoveFlow(q) == at[q] = "remove" /\ DeleteRow(q) /\ UNCHANGED histories

-----------------------------------------------------------------------------
(* Histories.                                                               *)

CreateHistory(q) ==
  /\ at[q] = "insert history"
  /\ histories' = [histories EXCEPT ![q] = History(Target(q))]
  /\ Answer(q, "done")
  /\ Stays

FindHistory(q) ==
  /\ at[q] = "history"
  /\ IF Kept(Target(q))
     THEN Goto(q, "find") /\ UNCHANGED <<asks, copy>>
     ELSE Answer(q, "rejected")
  /\ Stays /\ UNCHANGED histories

\* Mutant of FindFlowOfHistory: only a flow that is there is compared.
FindFlowOfHistoryIfThere(q) ==
  /\ Asks(q, "remove history", "flows")
  /\ LET i == histories[Target(q)].flow IN
       IF Exists(i) THEN FindOwn(q, i, "remove history")
       ELSE at[q] = "find" /\ Goto(q, "remove history") /\ Stays /\ UNCHANGED <<asks, copy>>
  /\ UNCHANGED histories

\* The owner of the flow that the history was found to name.
FindFlowOfHistory(q) ==
  /\ Asks(q, "remove history", "flows")
  /\ FindOwn(q, histories[Target(q)].flow, "remove history")
  /\ UNCHANGED histories

RemoveHistory(q) ==
  /\ at[q] = "remove history"
  /\ histories' = [histories EXCEPT ![Target(q)].state = "removed"]
  /\ Answer(q, "done")
  /\ Stays

FlowStep(q) ==
  \/ ReceiveFlow(q) \/ CreateFlow(q) \/ FindFlow(q) \/ UpdateFlow(q) \/ RemoveFlow(q)
  \/ CreateHistory(q) \/ FindHistory(q) \/ FindFlowOfHistory(q) \/ RemoveHistory(q)

-----------------------------------------------------------------------------
Orphan(h) == Kept(h) /\ ~Exists(histories[h].flow)

\* A history whose flow is gone is there for good: only a removal that had seen
\* the flow takes it away, and only an old copy of the flow brings it back.
OrphansStay ==
  [][\A h \in Requests : Orphan(h) =>
       \/ Orphan(h)'
       \/ histories[h].flow \in raced'
       \/ \E p \in Requests :
            at[p] = "remove history" /\ Target(p) = h /\ copy[p] # NoRow]_<<ovars, histories>>
=============================================================================
