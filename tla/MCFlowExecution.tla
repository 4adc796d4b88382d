-------------------------- MODULE MCFlowExecution --------------------------
(* Flows of four nodes: a trigger, a conditional, an action that changes     *)
(* variables, and a node that reads one.                                     *)
EXTENDS FlowExecution

Node(kind) ==
  [kind |-> kind, data |-> "configured", receiver |-> "b", conditions |-> {}, outputs |-> {}]

If(conditions) == [Node("conditional") EXCEPT !.conditions = conditions]
Is(variable, text) == [variable |-> variable, passes |-> {text}]

Trigger == Node("trigger")
Second  == If({Is("a", "yes"), Is("b", "")})
Third   == {[Node("WEBHOOK") EXCEPT !.outputs = {"a", "b"}], Node("PROCESS_DATA"),
            Node("SEND_NOTIFICATION"), [Node("SEND_EMAIL") EXCEPT !.data = "bare"]}
Fourth  == {If({Is("b", "")}), [If({}) EXCEPT !.data = "none"], Node("SEND_EMAIL"),
            Node("PROCESS_DATA"), Node("missing")}

Edges(pairs) == [i \in DOMAIN pairs |-> [handle |-> pairs[i][1], target |-> pairs[i][2]]]

\* The conditional alone, before and after a direct edge to the action.
FromTrigger ==
  {Edges(<<<<"bottom", 2>>>>), Edges(<<<<"bottom", 2>>, <<"bottom", 3>>>>),
   Edges(<<<<"bottom", 3>>, <<"bottom", 2>>>>)}

\* A branch each, a fork, and both branches to the same node.
FromSecond ==
  {Edges(<<<<"bottom", 3>>, <<"right", 4>>>>), Edges(<<<<"right", 3>>, <<"bottom", 4>>>>),
   Edges(<<<<"bottom", 4>>, <<"bottom", 3>>>>), Edges(<<<<"right", 3>>, <<"bottom", 3>>>>)}

\* The action's way on: none or the last node; back to the conditional too.
FromThird     == {<<>>, Edges(<<<<"bottom", 4>>>>)}
BackFromThird == {Edges(<<<<"bottom", 2>>>>), Edges(<<<<"bottom", 4>>, <<"bottom", 2>>>>)}

Drawn(third, fourth) ==
  {[isActive |-> TRUE, variables |-> variables,
    node |-> <<Trigger, Second, n3, n4>>, out |-> <<w1, w2, w3, w4>>] :
     variables \in {<<"a", "b">>, <<>>}, n3 \in Third, n4 \in Fourth,
     w1 \in FromTrigger, w2 \in FromSecond, w3 \in third, w4 \in fourth}

Idle ==
  [isActive |-> FALSE, variables |-> <<>>, node |-> [n \in 1..4 |-> Trigger],
   out |-> [n \in 1..4 |-> <<>>]]
NoTrigger == [Idle EXCEPT !.isActive = TRUE, !.node = [n \in 1..4 |-> Second]]
NoData    == [Idle EXCEPT !.isActive = TRUE, !.node = [n \in 1..4 |-> [Trigger EXCEPT !.data = "none"]]]

\* No edge leads back.
MCAcyclic == {Idle, NoTrigger, NoData} \cup Drawn(FromThird, {<<>>})

\* The action leads back to the conditional, the last node to the trigger.
MCFlows == MCAcyclic \cup Drawn(BackFromThird, {Edges(<<<<"bottom", 1>>>>)})
=============================================================================
