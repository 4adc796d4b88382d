--------------------------- MODULE FlowExecution ---------------------------
(***************************************************************************)
(* One POST flow/webhook/:flowId: flow-execution.service.ts.               *)
(*                                                                         *)
(* The service loads the flow once and walks its graph from the trigger,   *)
(* edge by edge and depth first, without remembering which nodes it has    *)
(* visited.  Its recursion is the stack of the model: a frame is a call of *)
(* traverseFromNode below an entry of the log, with the places, in the     *)
(* list of the node's edges, of those it has yet to follow.  A request     *)
(* shares nothing with another but the row it reads: one request is        *)
(* enough.                                                                 *)
(*                                                                         *)
(* A value is a class of strings with the node it came from.  Of a node    *)
(* only what the walk reads is kept: its kind, how much of its data there  *)
(* is (the DTO lets data be absent), the receiver of a mail, the tests of  *)
(* a conditional, the outputs of a webhook.                                *)
(***************************************************************************)
EXTENDS SequencesExt

CONSTANTS
  Nodes,      \* ids that edges name
  Flows,      \* the rows a request may find
  Variables,  \* ids of variables
  Texts,      \* classes of strings, "" among them
  Undefined,  \* no value
  Payload,    \* in place of a node: the value came with the request
  MaxLog      \* bound: entries of the log

Handles     == {"bottom", "right"}
ActionKinds == {"SEND_EMAIL", "SEND_NOTIFICATION", "WEBHOOK", "PROCESS_DATA", "unknown"}
Kinds       == ActionKinds \cup {"trigger", "conditional", "missing"}

Values == {Undefined} \cup [from : Nodes \cup {Payload}, text : Texts]

\* A condition is its variable and the strings that satisfy it.
Condition == [variable : Variables, passes : SUBSET Texts]

\* The data may be absent ("none") or lack the configuration of its action
\* ("bare").  Of the outputs the order of the list is left open.
NodeData ==
  [kind : Kinds, data : {"none", "bare", "configured"}, receiver : Variables,
   conditions : SUBSET Condition, outputs : SUBSET Variables]

Edge == [handle : Handles, target : Nodes]

ASSUME FlowsAssumption ==
  \A row \in Flows :
    /\ row.isActive \in BOOLEAN
    /\ row.node \in [Nodes -> NodeData]
    /\ \A n \in Nodes : IsFiniteSet(row.node[n].outputs)
    /\ \A n \in Nodes : row.out[n] \in Seq(Edge)
    /\ row.variables \in Seq(Variables)
    /\ \A i, j \in DOMAIN row.variables : row.variables[i] = row.variables[j] => i = j
ASSUME MarksAssumption ==
  /\ "" \in Texts /\ Payload \notin Nodes
  /\ Undefined \notin [from : Nodes \cup {Payload}, text : Texts]
ASSUME LogAssumption == MaxLog \in Nat

VARIABLES
  flow,        \* the row that findFlowById returned
  phase,       \* where the request is
  stack,       \* the calls of traverseFromNode, the innermost first
  variableMap, \* the Map of variables, in insertion order
  logs,        \* the entries pushed so far, with the branch walked next and
               \* the edge that led there: its place below an entry (history)
  sent         \* sent[n]: calls of node n that left the process (history)

fvars == <<flow, phase, stack, variableMap, logs, sent>>

-----------------------------------------------------------------------------
(* The Map of variables.                                                    *)

HasKey(map, key) == \E i \in DOMAIN map : map[i].key = key

\* The entries of the keys in an order, with the values that new gives them.
Entries(order, new) == [i \in DOMAIN order |-> [key |-> order[i], value |-> new[order[i]]]]

\* Mutant of MapSet: a key that is there already gets a second entry.
MapSetAppending(map, new) == {map \o Entries(order, new) : order \in SetToSeqs(DOMAIN new)}

\* The Map when the keys of new were set, in some order: a key that is there
\* keeps its place, the others come after it.
MapSet(map, new) ==
  LET kept  == [i \in DOMAIN map |->
                  IF map[i].key \in DOMAIN new
                  THEN [key |-> map[i].key, value |-> new[map[i].key]] ELSE map[i]]
      added == {key \in DOMAIN new : ~HasKey(map, key)}
  IN  {kept \o Entries(order, new) : order \in SetToSeqs(added)}

ResolveVariable(key) ==
  IF HasKey(variableMap, key)
  THEN variableMap[CHOOSE i \in DOMAIN variableMap : variableMap[i].key = key].value
  ELSE Undefined

UnknownToString(value) == IF value = Undefined THEN "" ELSE value.text

\* Every declared variable has a key, those named in the payload a value.
BuildVariableMap(variables, payload) ==
  [i \in DOMAIN variables |-> [key |-> variables[i], value |-> payload[variables[i]]]]

-----------------------------------------------------------------------------
(* The graph.                                                               *)

\* Mutant of NextEdges: the handle of the edge is not looked at.
NextEdgesOfAnyHandle(n, handle) == DOMAIN flow.out[n]

\* The places of the edges; they are followed in ascending order.
NextEdges(n, handle) == {p \in DOMAIN flow.out[n] : flow.out[n][p].handle = handle}

Triggers == {n \in Nodes : flow.node[n].kind = "trigger"}

FInit ==
  /\ flow \in Flows
  /\ phase = "received"
  /\ stack = <<>>
  /\ variableMap = <<>>
  /\ logs = <<>>
  /\ sent = [n \in Nodes |-> 0]

\* The request is rejected when findFlowById rejects or finds no row, when it
\* came without a body, and when the flow is not active or its trigger has no
\* data.  Nodes are a set here: any trigger may be the first of the array.
ExecuteWebhook ==
  /\ phase = "received"
  /\ \/ phase' = "rejected" /\ UNCHANGED <<stack, variableMap, logs>>
     \/ /\ flow.isActive /\ Triggers = {}
        /\ phase' = "failed"
        /\ UNCHANGED <<stack, variableMap, logs>>
     \/ \E n \in Triggers, payload \in [Variables -> {Undefined} \cup [from : {Payload}, text : Texts]] :
          /\ flow.isActive /\ flow.node[n].data # "none"
          /\ phase' = "walking"
          /\ variableMap' = BuildVariableMap(flow.variables, payload)
          /\ logs' = <<[node |-> n, status |-> "success", branch |-> "bottom",
                        below |-> 0, place |-> 0]>>
          /\ stack' = <<[below |-> 1, left |-> NextEdges(n, "bottom")]>>
  /\ UNCHANGED <<flow, sent>>

-----------------------------------------------------------------------------
(* traverseFromNode.                                                        *)

\* The call that runs, and the edge it is at.
Call   == Head(stack)
Place  == Min(Call.left)
Target == flow.out[logs[Call.below].node][Place].target

AtEdge(kinds) ==
  /\ phase = "walking" /\ stack # <<>> /\ Call.left # {}
  /\ flow.node[Target].kind \in kinds

\* The calls when the edge has been taken.
EdgeTaken == <<[below |-> Call.below, left |-> Call.left \ {Place}]>> \o Tail(stack)

LogEntry(status, branch) ==
  [node |-> Target, status |-> status, branch |-> branch, below |-> Call.below, place |-> Place]

\* The call for the branch of the entry that is logged now.
NextCall(branch) == [below |-> Len(logs) + 1, left |-> NextEdges(Target, branch)]

\* The edge is taken, then the walk goes on below its target.
Descend(status, branch) ==
  /\ Len(logs) < MaxLog
  /\ logs' = Append(logs, LogEntry(status, branch))
  /\ stack' = <<NextCall(branch)>> \o EdgeTaken
  /\ UNCHANGED <<flow, phase>>

\* Mutant of SkipEdge: the edge stays on its list.
SkipEdgeAgain ==
  /\ AtEdge({"missing", "trigger"})
  /\ UNCHANGED fvars

\* An edge to no node, or back to the trigger, is not followed.
SkipEdge ==
  /\ AtEdge({"missing", "trigger"})
  /\ stack' = EdgeTaken
  /\ UNCHANGED <<flow, phase, variableMap, logs, sent>>

\* An action or a conditional without data throws before anything catches it:
\* every call is left and the request is rejected, whatever it has done.
ReadAbsentData ==
  /\ AtEdge(ActionKinds \cup {"conditional"})
  /\ flow.node[Target].data = "none"
  /\ phase' = "rejected"
  /\ stack' = <<>>
  /\ UNCHANGED <<flow, variableMap, logs, sent>>

ReturnFromCall ==
  /\ phase = "walking" /\ stack # <<>> /\ Call.left = {}
  /\ stack' = Tail(stack)
  /\ phase' = IF Tail(stack) = <<>> THEN "done" ELSE phase
  /\ UNCHANGED <<flow, variableMap, logs, sent>>

-----------------------------------------------------------------------------
(* executeActionNode: its catch turns a rejection of the action into a log  *)
(* entry.                                                                   *)

Leaves == sent' = [sent EXCEPT ![Target] = @ + 1]

\* An action that is not configured, or of no known type.
LogMisconfigured ==
  /\ AtEdge(ActionKinds)
  /\ \/ flow.node[Target].data = "bare"
     \/ flow.node[Target].data = "configured" /\ flow.node[Target].kind = "unknown"
  /\ Descend("error", "bottom")
  /\ UNCHANGED <<variableMap, sent>>

\* Mutant of ExecuteSendEmail: the promise of sendEmail is not awaited.
ExecuteSendEmailNotAwaited ==
  /\ AtEdge({"SEND_EMAIL"}) /\ flow.node[Target].data = "configured"
  /\ IF UnknownToString(ResolveVariable(flow.node[Target].receiver)) = ""
     THEN UNCHANGED sent /\ Descend("error", "bottom")
     ELSE (Leaves \/ UNCHANGED sent) /\ Descend("success", "bottom")
  /\ UNCHANGED variableMap

\* Without a receiver nothing is sent; a call that rejects may have been sent.
ExecuteSendEmail ==
  /\ AtEdge({"SEND_EMAIL"}) /\ flow.node[Target].data = "configured"
  /\ LET receiver == UnknownToString(ResolveVariable(flow.node[Target].receiver)) IN
       \/ receiver # "" /\ Leaves /\ Descend("success", "bottom")
       \/ receiver # "" /\ Leaves /\ Descend("error", "bottom")
       \/ UNCHANGED sent /\ Descend("error", "bottom")
  /\ UNCHANGED variableMap

ExecuteSendNotification ==
  /\ AtEdge({"SEND_NOTIFICATION"}) /\ flow.node[Target].data = "configured"
  /\ \/ Leaves /\ Descend("success", "bottom")
     \/ Leaves /\ Descend("error", "bottom")
     \/ UNCHANGED sent /\ Descend("error", "bottom")
  /\ UNCHANGED variableMap

\* Of the outputs those are stored which the answer has; a JSON null for an
\* answer throws there, when the request has long been served.
ExecuteOutgoingWebhook ==
  /\ AtEdge({"WEBHOOK"}) /\ flow.node[Target].data = "configured"
  /\ \/ /\ Leaves /\ Descend("success", "bottom")
        /\ \E stored \in SUBSET flow.node[Target].outputs :
             \E answer \in [stored -> [from : {Target}, text : Texts]] :
               variableMap' \in MapSet(variableMap, answer)
     \/ Leaves /\ Descend("error", "bottom") /\ UNCHANGED variableMap
     \/ UNCHANGED <<sent, variableMap>> /\ Descend("error", "bottom")

\* Mutant of SetVariable: the last variable is written.
SetVariableLast(value) ==
  IF variableMap = <<>> THEN UNCHANGED variableMap
  ELSE variableMap' \in MapSet(variableMap, [key \in {variableMap[Len(variableMap)].key} |-> value])

\* acciones.setVariable writes the first key of the Map, whatever its name.
SetVariable(value) ==
  IF variableMap = <<>> THEN UNCHANGED variableMap
  ELSE variableMap' \in MapSet(variableMap, [key \in {variableMap[1].key} |-> value])

\* The node's code may set variables (the last write counts), then throw.
ExecuteProcessData ==
  /\ AtEdge({"PROCESS_DATA"}) /\ flow.node[Target].data = "configured"
  /\ \/ UNCHANGED variableMap
     \/ \E text \in Texts : SetVariable([from |-> Target, text |-> text])
  /\ \E status \in {"success", "error"} : Descend(status, "bottom")
  /\ UNCHANGED sent

-----------------------------------------------------------------------------
(* executeConditionalNode.                                                  *)

EvaluateCondition(c) == UnknownToString(ResolveVariable(c.variable)) \in c.passes

ExecuteConditionalNode ==
  /\ AtEdge({"conditional"}) /\ flow.node[Target].data # "none"
  /\ LET allPass == \A c \in flow.node[Target].conditions : EvaluateCondition(c)
     IN  Descend("success", IF allPass THEN "bottom" ELSE "right")
  /\ UNCHANGED <<variableMap, sent>>

-----------------------------------------------------------------------------
ExecuteActionNode ==
  \/ LogMisconfigured
  \/ ExecuteSendEmail
  \/ ExecuteSendNotification
  \/ ExecuteOutgoingWebhook
  \/ ExecuteProcessData

FNext ==
  \/ ExecuteWebhook
  \/ SkipEdge
  \/ ReadAbsentData
  \/ ExecuteActionNode
  \/ ExecuteConditionalNode
  \/ ReturnFromCall

FSpec == FInit /\ [][FNext]_fvars

\* Every await of the request settles.
FFairSpec == FSpec /\ WF_fvars(FNext)

-----------------------------------------------------------------------------
(* Properties.                                                              *)

Entry ==
  [node : Nodes, status : {"success", "error"}, branch : Handles, below : Nat, place : Nat]

\* The types of the state, and a Map that has one entry per key.
FTypeOK ==
  /\ phase \in {"received", "walking", "done", "failed", "rejected"}
  /\ stack \in Seq([below : Nat, left : SUBSET Nat])
  /\ variableMap \in Seq([key : Variables, value : Values])
  /\ \A i, j \in DOMAIN variableMap : variableMap[i].key = variableMap[j].key => i = j
  /\ logs \in Seq(Entry)
  /\ sent \in [Nodes -> Nat]

\* A variable holds what the request sent for it or what a webhook assigned to
\* it returned, whatever was executed in between and however it failed.  Only
\* the first key of the Map can also hold what process data wrote (l. 437-444).
VariableProvenance ==
  \A i \in DOMAIN variableMap :
    LET value == variableMap[i].value IN
      value # Undefined =>
        \/ /\ value.from = Payload
           /\ \E j \in DOMAIN flow.variables : flow.variables[j] = variableMap[i].key
        \/ /\ flow.node[value.from].kind = "WEBHOOK"
           /\ variableMap[i].key \in flow.node[value.from].outputs
        \/ flow.node[value.from].kind = "PROCESS_DATA" /\ i = 1

\* The log tells the truth about what left the process: one call at most per
\* entry of a node, and one for each entry of success.  (An entry of error may
\* stand for a call that left, and a rejected request does not get its log.)
LogsTellWhatLeft ==
  \A n \in Nodes : flow.node[n].kind \in {"SEND_EMAIL", "SEND_NOTIFICATION", "WEBHOOK"} =>
    LET entries == {i \in DOMAIN logs : logs[i].node = n}
    IN  /\ sent[n] <= Cardinality(entries)
        /\ sent[n] >= Cardinality({i \in entries : logs[i].status = "success"})

\* The places of the edges to follow below an entry.
Branch(i) ==
  {p \in DOMAIN flow.out[logs[i].node] :
     LET e == flow.out[logs[i].node][p]
     IN  e.handle = logs[i].branch /\ flow.node[e.target].kind \notin {"missing", "trigger"}}

\* Every entry after the trigger's stands for an edge of the branch taken at
\* an entry before it; those of one branch come in the order of its edges, and
\* between an entry and the one it is below there is nothing that is not below
\* the latter too.
WalkSoFar ==
  \A i \in 2..Len(logs) :
    LET parent == logs[i].below
    IN  /\ parent \in 1..(i - 1) /\ logs[i].place \in Branch(parent)
        /\ logs[i].node = flow.out[logs[parent].node][logs[i].place].target
        /\ \A j \in (parent + 1)..(i - 1) :
             /\ logs[j].below >= parent
             /\ logs[j].below = parent => logs[j].place < logs[i].place

\* The log is the depth-first walk: every node behind a taken branch is executed
\* once per way that leads to it, in the order of the edges, with all that is
\* below it before the next edge; no failure of an action cuts a branch short
\* (a node without data cuts the walk) and nothing else is executed.
LogsAreAWalk ==
  /\ WalkSoFar
  /\ phase = "done" =>
       \A i \in DOMAIN logs : \A p \in Branch(i) :
         \E j \in DOMAIN logs : logs[j].below = i /\ logs[j].place = p

\* The nodes can be numbered so that every edge leads upwards.
Acyclic ==
  \E rank \in [Nodes -> 1..Cardinality(Nodes)] :
    \A n \in Nodes : \A i \in DOMAIN flow.out[n] : rank[n] < rank[flow.out[n][i].target]

\* The walk of a flow without cycles comes to an end, and the request is
\* answered or rejected, whichever actions fail on the way.
WalkEnds == phase = "received" /\ Acyclic ~> phase \in {"done", "failed", "rejected"}
=============================================================================
