------------------------ MODULE FlowExecution_proofs ------------------------
(***************************************************************************)
(* Proofs about the walk of a flow, for any flows, variables and texts:    *)
(* the types, the stack and that the log is the walk of the flow; then     *)
(* where the value of a variable comes from, and what the log says of the  *)
(* calls that left, which rest on the data of the node at which the walk   *)
(* is, whatever led to it.                                                 *)
(***************************************************************************)
EXTENDS FlowExecution, FiniteSetTheorems, SequenceTheorems, WellFoundedInduction, TLAPS

IsSequence(s) == \E S : s \in Seq(S)

\* A sequence with one more element.
LEMMA AppendToSequence ==
  ASSUME NEW s, IsSequence(s), NEW e
  PROVE  /\ IsSequence(Append(s, e))
         /\ Len(s) \in Nat /\ DOMAIN s = 1..Len(s)
         /\ DOMAIN Append(s, e) = DOMAIN s \cup {Len(s) + 1}
         /\ Len(s) + 1 \notin DOMAIN s
         /\ Append(s, e)[Len(s) + 1] = e
         /\ \A i \in DOMAIN s : Append(s, e)[i] = s[i]
<1>1. PICK S : s \in Seq(S)
  BY DEF IsSequence
<1>2. s \in Seq(S \cup {e}) /\ e \in S \cup {e}
  BY <1>1, SeqMonotonic
<1>3. Append(s, e) \in Seq(S \cup {e})
  BY <1>2
<1>. QED
  BY <1>2, <1>3 DEF IsSequence

\* No key of the Map has two entries.
UniqueKeys ==
  \A i, j \in DOMAIN variableMap : variableMap[i].key = variableMap[j].key => i = j

\* Before the walk nothing is written and nothing has left.
Untouched ==
  phase = "received" => variableMap = <<>> /\ logs = <<>> /\ sent = [n \in Nodes |-> 0]

\* The sequences are sequences, of whatever elements, and the Map is a Map.
Walked ==
  /\ flow \in Flows
  /\ IsSequence(variableMap) /\ IsSequence(logs)
  /\ sent \in [Nodes -> Nat]
  /\ UniqueKeys /\ Untouched

\* The inductive invariant.
FInv == Walked /\ VariableProvenance /\ LogsTellWhatLeft

-----------------------------------------------------------------------------
(* The Map.                                                                 *)

\* Two sequences, one after the other.
LEMMA Concatenated ==
  ASSUME NEW S, NEW s \in Seq(S), NEW t \in Seq(S)
  PROVE  /\ s \o t \in Seq(S) /\ Len(s \o t) = Len(s) + Len(t)
         /\ \A i \in 1..Len(s) : (s \o t)[i] = s[i]
         /\ \A i \in (Len(s) + 1)..(Len(s) + Len(t)) : (s \o t)[i] = t[i - Len(s)]
  OBVIOUS

\* What is there keeps its place and, unless it is set, its value; the other
\* keys come after it, each once.
HasSet(map, new, after) ==
  /\ Len(map) \in Nat /\ Len(after) \in Nat /\ Len(map) <= Len(after)
  /\ \A i \in 1..Len(map) :
       /\ after[i].key = map[i].key
       /\ \/ after[i] = map[i]
          \/ map[i].key \in DOMAIN new /\ after[i].value = new[map[i].key]
  /\ \A i \in (Len(map) + 1)..Len(after) :
       /\ after[i].key \in DOMAIN new /\ after[i].value = new[after[i].key]
       /\ \A j \in 1..Len(map) : map[j].key # after[i].key
       /\ \A j \in (Len(map) + 1)..Len(after) : after[i].key = after[j].key => i = j

\* That is what the results of MapSet are.
LEMMA MapSetElements ==
  ASSUME NEW S, NEW map \in Seq(S), NEW T, NEW new, IsFiniteSet(DOMAIN new),
         \A key \in DOMAIN new : [key |-> key, value |-> new[key]] \in T,
         NEW after \in MapSet(map, new)
  PROVE  after \in Seq(S \cup T) /\ HasSet(map, new, after)
<1>. DEFINE kept  == [i \in DOMAIN map |->
                        IF map[i].key \in DOMAIN new
                        THEN [key |-> map[i].key, value |-> new[map[i].key]] ELSE map[i]]
            added == {key \in DOMAIN new : ~HasKey(map, key)}
            n     == Cardinality(added)
            l     == Len(map)
<1>1. PICK order \in SetToSeqs(added) : after = kept \o Entries(order, new)
  BY DEF MapSet
<1>2. n \in Nat
  <2>1. IsFiniteSet(added)
    BY FS_Subset
  <2>. QED
    BY <2>1, FS_CardinalityType
<1>3. order \in [1..n -> added] /\ \A i, j \in 1..n : i # j => order[i] # order[j]
  BY <1>1 DEF SetToSeqs
<1>4. \A key \in added : key \in DOMAIN new /\ \A j \in DOMAIN map : map[j].key # key
  BY DEF HasKey
<1>5. l \in Nat /\ DOMAIN map = 1..l /\ \A i \in 1..l : map[i] \in S
  OBVIOUS
<1>. HIDE DEF added, n, l
<1>6. \A i \in 1..l : /\ kept[i] \in S \cup T /\ kept[i].key = map[i].key
                      /\ \/ kept[i] = map[i]
                         \/ map[i].key \in DOMAIN new /\ kept[i].value = new[map[i].key]
  BY <1>5
<1>7. kept \in Seq(S \cup T) /\ Len(kept) = l
  <2>1. kept = [i \in 1..l |-> kept[i]]
    BY <1>5
  <2>. HIDE DEF kept
  <2>2. kept \in Seq(S \cup T)
    BY <1>5, <1>6, <2>1, IsASeq
  <2>3. DOMAIN kept = 1..l
    BY <2>1
  <2>. QED
    BY <1>5, <2>2, <2>3
<1>. HIDE DEF kept
<1>8. PICK e : e = Entries(order, new)
  OBVIOUS
<1>9. /\ DOMAIN e = 1..n
      /\ \A i \in 1..n : /\ e[i] \in T /\ e[i].key = order[i] /\ e[i].value = new[order[i]]
                         /\ order[i] \in added
  BY <1>3, <1>4, <1>8 DEF Entries
<1>10. e \in Seq(S \cup T) /\ Len(e) = n
  <2>1. e = [i \in 1..n |-> e[i]]
    BY <1>3, <1>8 DEF Entries
  <2>2. \A i \in 1..n : e[i] \in S \cup T
    BY <1>9
  <2>3. e \in Seq(S \cup T)
    BY <1>2, <2>1, <2>2, IsASeq
  <2>. QED
    BY <1>2, <1>9, <2>3
<1>11. /\ after \in Seq(S \cup T) /\ Len(after) = l + n
       /\ \A i \in 1..l : after[i] = kept[i]
       /\ \A i \in (l + 1)..(l + n) : after[i] = e[i - l]
  <2>1. after = kept \o e
    BY <1>1, <1>8
  <2>2. /\ after \in Seq(S \cup T) /\ Len(after) = Len(kept) + Len(e)
        /\ \A i \in 1..Len(kept) : after[i] = kept[i]
        /\ \A i \in (Len(kept) + 1)..(Len(kept) + Len(e)) : after[i] = e[i - Len(kept)]
    BY <1>7, <1>10, <2>1, Concatenated
  <2>. QED
    BY <1>7, <1>10, <2>2
<1>12. \A i \in (l + 1)..(l + n) : i - l \in 1..n /\ after[i].key = order[i - l]
  BY <1>2, <1>5, <1>9, <1>11
<1>13. ASSUME NEW i \in (l + 1)..(l + n)
       PROVE  /\ after[i].key \in DOMAIN new /\ after[i].value = new[after[i].key]
              /\ \A j \in 1..l : map[j].key # after[i].key
              /\ \A j \in (l + 1)..(l + n) : after[i].key = after[j].key => i = j
  <2>1. i - l \in 1..n /\ after[i] = e[i - l]
    BY <1>11, <1>12
  <2>2. after[i].key \in added /\ after[i].value = new[after[i].key]
    BY <1>9, <2>1
  <2>3. ASSUME NEW j \in (l + 1)..(l + n), after[i].key = after[j].key PROVE i = j
    <3>1. j - l \in 1..n /\ order[i - l] = order[j - l]
      BY <1>12, <2>3
    <3>2. i - l = j - l
      BY <1>3, <2>1, <3>1
    <3>. QED
      BY <1>2, <1>5, <3>2
  <2>. QED
    BY <1>4, <1>5, <2>2, <2>3
<1>. QED
  BY <1>2, <1>5, <1>6, <1>11, <1>13 DEF l, HasSet

\* A key keeps its place; the others keep their values.
LEMMA MapSetEffect ==
  ASSUME IsSequence(variableMap), UniqueKeys, NEW new, IsFiniteSet(DOMAIN new),
         variableMap' \in MapSet(variableMap, new)
  PROVE  /\ IsSequence(variableMap') /\ UniqueKeys'
         /\ DOMAIN variableMap \subseteq DOMAIN variableMap'
         /\ \A i \in DOMAIN variableMap' :
              \/ variableMap'[i].key \in DOMAIN new /\ variableMap'[i].value = new[variableMap'[i].key]
              \/ i \in DOMAIN variableMap /\ variableMap'[i] = variableMap[i]
         /\ \A i \in DOMAIN variableMap : variableMap'[i].key = variableMap[i].key
<1>1. PICK S : variableMap \in Seq(S)
  BY DEF IsSequence
<1>2. PICK map, after : map = variableMap /\ after = variableMap'
  OBVIOUS
<1>3. PICK T : \A key \in DOMAIN new : [key |-> key, value |-> new[key]] \in T
  <2>1. \A key \in DOMAIN new :
          [key |-> key, value |-> new[key]] \in {[key |-> k, value |-> new[k]] : k \in DOMAIN new}
    OBVIOUS
  <2>. QED
    BY <2>1
<1>4. after \in Seq(S \cup T) /\ HasSet(map, new, after)
  <2>1. map \in Seq(S) /\ after \in MapSet(map, new)
    BY <1>1, <1>2
  <2>. QED
    BY <1>3, <2>1, MapSetElements
<1>. USE DEF HasSet
<1>5. DOMAIN map = 1..Len(map) /\ DOMAIN after = 1..Len(after)
  BY <1>1, <1>2, <1>4
<1>6. \A i \in DOMAIN after : i \in 1..Len(map) \/ i \in (Len(map) + 1)..Len(after)
  BY <1>4, <1>5
<1>7. \A i, j \in 1..Len(map) : map[i].key = map[j].key => i = j
  BY <1>2, <1>5 DEF UniqueKeys
<1>8. \A i, j \in DOMAIN after : after[i].key = after[j].key => i = j
  <2>. SUFFICES ASSUME NEW i \in DOMAIN after, NEW j \in DOMAIN after, after[i].key = after[j].key
       PROVE  i = j
    OBVIOUS
  <2>1. CASE i \in 1..Len(map) /\ j \in 1..Len(map)
    BY <1>4, <1>7, <2>1
  <2>2. CASE i \in 1..Len(map) /\ j \in (Len(map) + 1)..Len(after)
    BY <1>4, <2>2
  <2>3. CASE i \in (Len(map) + 1)..Len(after) /\ j \in 1..Len(map)
    BY <1>4, <2>3
  <2>4. CASE i \in (Len(map) + 1)..Len(after) /\ j \in (Len(map) + 1)..Len(after)
    BY <1>4, <2>4
  <2>. QED
    BY <1>6, <2>1, <2>2, <2>3, <2>4
<1>9. DOMAIN map \subseteq DOMAIN after
  BY <1>4, <1>5
<1>10. \A i \in DOMAIN after :
         \/ after[i].key \in DOMAIN new /\ after[i].value = new[after[i].key]
         \/ i \in DOMAIN map /\ after[i] = map[i]
  BY <1>4, <1>5, <1>6
<1>. QED
  BY <1>2, <1>4, <1>5, <1>8, <1>9, <1>10 DEF IsSequence, UniqueKeys

\* A write that a webhook or process data is entitled to.
LEMMA MapSetProvenance ==
  ASSUME Walked, VariableProvenance, flow' = flow, NEW from, NEW new, IsFiniteSet(DOMAIN new),
         \A key \in DOMAIN new : new[key].from = from,
         \/ flow.node[from].kind = "WEBHOOK" /\ DOMAIN new \subseteq flow.node[from].outputs
         \/ /\ flow.node[from].kind = "PROCESS_DATA"
            /\ 1 \in DOMAIN variableMap /\ DOMAIN new = {variableMap[1].key},
         variableMap' \in MapSet(variableMap, new)
  PROVE  IsSequence(variableMap') /\ UniqueKeys' /\ VariableProvenance'
<1>1. /\ IsSequence(variableMap') /\ UniqueKeys'
      /\ DOMAIN variableMap \subseteq DOMAIN variableMap'
      /\ \A i \in DOMAIN variableMap' :
           \/ variableMap'[i].key \in DOMAIN new /\ variableMap'[i].value = new[variableMap'[i].key]
           \/ i \in DOMAIN variableMap /\ variableMap'[i] = variableMap[i]
      /\ \A i \in DOMAIN variableMap : variableMap'[i].key = variableMap[i].key
  BY MapSetEffect DEF Walked
<1>2. ASSUME NEW i \in DOMAIN variableMap', variableMap'[i].value # Undefined
      PROVE  \/ /\ variableMap'[i].value.from = Payload
                /\ \E j \in DOMAIN flow.variables : flow.variables[j] = variableMap'[i].key
             \/ /\ flow.node[variableMap'[i].value.from].kind = "WEBHOOK"
                /\ variableMap'[i].key \in flow.node[variableMap'[i].value.from].outputs
             \/ flow.node[variableMap'[i].value.from].kind = "PROCESS_DATA" /\ i = 1
  <2>1. CASE i \in DOMAIN variableMap /\ variableMap'[i] = variableMap[i]
    BY <1>2, <2>1 DEF VariableProvenance
  <2>2. CASE variableMap'[i].key \in DOMAIN new /\ variableMap'[i].value = new[variableMap'[i].key]
    <3>1. variableMap'[i].value.from = from
      BY <2>2
    <3>2. CASE flow.node[from].kind = "WEBHOOK" /\ DOMAIN new \subseteq flow.node[from].outputs
      BY <2>2, <3>1, <3>2
    <3>3. CASE /\ flow.node[from].kind = "PROCESS_DATA"
               /\ 1 \in DOMAIN variableMap /\ DOMAIN new = {variableMap[1].key}
      <4>1. variableMap'[i].key = variableMap'[1].key /\ 1 \in DOMAIN variableMap'
        BY <1>1, <2>2, <3>3
      <4>2. i = 1
        BY <1>1, <4>1 DEF UniqueKeys
      <4>. QED
        BY <3>1, <3>3, <4>2
    <3>. QED
      BY <3>2, <3>3
  <2>. QED
    BY <1>1, <2>1, <2>2
<1>. QED
  BY <1>1, <1>2 DEF VariableProvenance

\* What a webhook stores.
LEMMA StoredOutputs ==
  ASSUME flow \in Flows, NEW n \in Nodes, NEW stored \in SUBSET flow.node[n].outputs
  PROVE  IsFiniteSet(stored) /\ stored \subseteq Variables
<1>1. IsFiniteSet(flow.node[n].outputs) /\ flow.node[n] \in NodeData
  BY FlowsAssumption
<1>2. flow.node[n].outputs \subseteq Variables
  BY <1>1 DEF NodeData
<1>. QED
  BY <1>1, <1>2, FS_Subset

\* The one key that process data sets.
LEMMA OneKey ==
  ASSUME NEW key, NEW value
  PROVE  LET new == [k \in {key} |-> value]
         IN  DOMAIN new = {key} /\ IsFiniteSet(DOMAIN new) /\ new[key] = value
<1>1. DOMAIN [k \in {key} |-> value] = {key} /\ [k \in {key} |-> value][key] = value
  OBVIOUS
<1>. QED
  BY <1>1, FS_Singleton

-----------------------------------------------------------------------------
(* The log.                                                                 *)

Calls == {"SEND_EMAIL", "SEND_NOTIFICATION", "WEBHOOK"}

EntriesOf(n)   == {i \in DOMAIN logs : logs[i].node = n}
SuccessesOf(n) == {i \in EntriesOf(n) : logs[i].status = "success"}

\* One more entry is one more of its node, and of success if it is one.
LEMMA OneMoreEntry ==
  ASSUME IsSequence(logs), NEW e, NEW n, logs' = Append(logs, e)
  PROVE  /\ Cardinality(EntriesOf(n)) \in Nat /\ Cardinality(SuccessesOf(n)) \in Nat
         /\ Cardinality(EntriesOf(n)') =
              IF e.node = n THEN Cardinality(EntriesOf(n)) + 1 ELSE Cardinality(EntriesOf(n))
         /\ Cardinality(SuccessesOf(n)') =
              IF e.node = n /\ e.status = "success"
              THEN Cardinality(SuccessesOf(n)) + 1 ELSE Cardinality(SuccessesOf(n))
<1>. DEFINE last == Len(logs) + 1
<1>1. /\ Len(logs) \in Nat /\ DOMAIN logs = 1..Len(logs)
      /\ DOMAIN logs' = DOMAIN logs \cup {last} /\ last \notin DOMAIN logs
      /\ logs'[last] = e
      /\ \A i \in DOMAIN logs : logs'[i] = logs[i]
  BY AppendToSequence
<1>2. IsFiniteSet(EntriesOf(n)) /\ IsFiniteSet(SuccessesOf(n))
  <2>1. IsFiniteSet(1..Len(logs))
    BY <1>1, FS_Interval
  <2>. QED
    BY <1>1, <2>1, FS_Subset DEF EntriesOf, SuccessesOf
<1>3. EntriesOf(n)' = IF e.node = n THEN EntriesOf(n) \cup {last} ELSE EntriesOf(n)
  BY <1>1 DEF EntriesOf
<1>4. SuccessesOf(n)' = IF e.node = n /\ e.status = "success"
                        THEN SuccessesOf(n) \cup {last} ELSE SuccessesOf(n)
  BY <1>1 DEF EntriesOf, SuccessesOf
<1>5. last \notin EntriesOf(n) /\ last \notin SuccessesOf(n)
  BY <1>1 DEF EntriesOf, SuccessesOf
<1>6. Cardinality(EntriesOf(n)) \in Nat /\ Cardinality(SuccessesOf(n)) \in Nat
  BY <1>2, FS_CardinalityType
<1>. HIDE DEF last
<1>7. /\ Cardinality(EntriesOf(n) \cup {last}) = Cardinality(EntriesOf(n)) + 1
      /\ Cardinality(SuccessesOf(n) \cup {last}) = Cardinality(SuccessesOf(n)) + 1
  BY <1>2, <1>5, FS_AddElement
<1>. QED
  BY <1>3, <1>4, <1>6, <1>7

\* What LogsTellWhatLeft says of one node.
Told(n) == sent[n] <= Cardinality(EntriesOf(n)) /\ sent[n] >= Cardinality(SuccessesOf(n))

\* LogsTellWhatLeft, node by node.
LEMMA ToldOfCalls == LogsTellWhatLeft <=> \A n \in Nodes : flow.node[n].kind \in Calls => Told(n)
  BY DEF LogsTellWhatLeft, Told, EntriesOf, SuccessesOf, Calls

\* Every entry of the walk: success stands for a call that left, error may.
LEMMA LogStep ==
  ASSUME Walked, LogsTellWhatLeft, flow' = flow, NEW status, NEW branch,
         logs' = Append(logs, LogEntry(status, branch)),
         \/ Leaves
         \/ sent' = sent /\ (status = "error" \/ flow.node[Target].kind \notin Calls)
  PROVE  IsSequence(logs') /\ sent' \in [Nodes -> Nat] /\ LogsTellWhatLeft'
<1>1. PICK e : logs' = Append(logs, e) /\ e.node = Target /\ e.status = status
  BY DEF LogEntry
<1>2. IsSequence(logs')
  BY <1>1, AppendToSequence DEF Walked
<1>3. sent' \in [Nodes -> Nat]
  BY DEF Walked, Leaves
<1>4. ASSUME NEW n \in Nodes, flow.node[n].kind \in Calls PROVE Told(n)'
  <2>1. sent[n] \in Nat /\ Told(n)
    BY <1>4, ToldOfCalls DEF Walked
  <2>2. /\ Cardinality(EntriesOf(n)) \in Nat /\ Cardinality(SuccessesOf(n)) \in Nat
        /\ Cardinality(EntriesOf(n)') =
             IF e.node = n THEN Cardinality(EntriesOf(n)) + 1 ELSE Cardinality(EntriesOf(n))
        /\ Cardinality(SuccessesOf(n)') =
             IF e.node = n /\ e.status = "success"
             THEN Cardinality(SuccessesOf(n)) + 1 ELSE Cardinality(SuccessesOf(n))
    BY <1>1, OneMoreEntry DEF Walked
  <2>3. \/ sent'[n] = sent[n] + 1 /\ n = Target
        \/ sent'[n] = sent[n] /\ n # Target
        \/ sent'[n] = sent[n] /\ status = "error"
    BY <1>4 DEF Walked, Leaves
  <2>. QED
    BY <1>1, <2>1, <2>2, <2>3 DEF Told
<1>5. (LogsTellWhatLeft <=> \A n \in Nodes : flow.node[n].kind \in Calls => Told(n))'
  BY ToldOfCalls, PTL
<1>. QED
  BY <1>2, <1>3, <1>4, <1>5

-----------------------------------------------------------------------------
(* The steps.                                                               *)

\* Mail, notification and webhook, process data and the conditional write no
\* variable, or the one they are entitled to.
LEMMA DescendStep ==
  ASSUME FInv, NEW status, NEW branch, Descend(status, branch), phase = "walking",
         \/ Leaves
         \/ sent' = sent /\ (status = "error" \/ flow.node[Target].kind \notin Calls),
         IsSequence(variableMap') /\ UniqueKeys' /\ VariableProvenance'
  PROVE  FInv'
  BY LogStep DEF FInv, Walked, Untouched, Descend

\* Steps that leave the Map alone.
LEMMA VariablesStay ==
  ASSUME FInv, flow' = flow, variableMap' = variableMap
  PROVE  IsSequence(variableMap') /\ UniqueKeys' /\ VariableProvenance'
  BY DEF FInv, Walked, UniqueKeys, VariableProvenance

\* The Map is built from the declared variables; the trigger's entry is no call.
LEMMA ExecuteWebhookStep ==
  ASSUME FInv, ExecuteWebhook
  PROVE  FInv'
<1>1. flow \in Flows /\ flow' = flow /\ sent' = sent /\ phase' # "received"
  BY DEF FInv, Walked, ExecuteWebhook
<1>2. (LogsTellWhatLeft <=> \A n \in Nodes : flow.node[n].kind \in Calls => Told(n))'
  BY ToldOfCalls, PTL
<1>3. CASE UNCHANGED <<variableMap, logs>>
  BY <1>1, <1>3 DEF FInv, Walked, UniqueKeys, Untouched, VariableProvenance, LogsTellWhatLeft
<1>4. ASSUME NEW trigger \in Triggers,
             NEW payload \in [Variables -> {Undefined} \cup [from : {Payload}, text : Texts]],
             variableMap' = BuildVariableMap(flow.variables, payload),
             logs' = <<[node |-> trigger, status |-> "success", branch |-> "bottom",
                        below |-> 0, place |-> 0]>>
      PROVE  FInv'
  <2>1. /\ flow.variables \in Seq(Variables)
        /\ \A i, j \in DOMAIN flow.variables : flow.variables[i] = flow.variables[j] => i = j
    BY <1>1, FlowsAssumption
  <2>2. /\ DOMAIN variableMap' = DOMAIN flow.variables
        /\ \A i \in DOMAIN flow.variables : /\ variableMap'[i].key = flow.variables[i]
                                            /\ variableMap'[i].value = payload[flow.variables[i]]
    BY <1>4 DEF BuildVariableMap
  <2>3. IsSequence(variableMap')
    <3>. DEFINE S == {variableMap'[i] : i \in DOMAIN flow.variables}
    <3>1. Len(flow.variables) \in Nat /\ DOMAIN flow.variables = 1..Len(flow.variables)
      BY <2>1
    <3>2. variableMap' = [i \in 1..Len(flow.variables) |-> variableMap'[i]]
      BY <1>4, <3>1 DEF BuildVariableMap
    <3>3. variableMap' \in Seq(S)
      BY <3>1, <3>2, IsASeq
    <3>. QED
      BY <3>3 DEF IsSequence
  <2>4. UniqueKeys'
    BY <2>1, <2>2 DEF UniqueKeys
  <2>5. VariableProvenance'
    <3>1. \A i \in DOMAIN flow.variables :
            variableMap'[i].value # Undefined => variableMap'[i].value.from = Payload
      BY <1>4, <2>1, <2>2
    <3>. QED
      BY <1>1, <2>2, <3>1 DEF VariableProvenance
  <2>6. IsSequence(logs') /\ DOMAIN logs' = {1} /\ logs'[1].node = trigger
    <3>1. PICK e : logs' = <<e>> /\ e.node = trigger
      BY <1>4
    <3>2. <<e>> \in Seq({e}) /\ DOMAIN <<e>> = {1} /\ <<e>>[1] = e
      OBVIOUS
    <3>. QED
      BY <3>1, <3>2 DEF IsSequence
  <2>7. sent = [m \in Nodes |-> 0]
    BY DEF FInv, Walked, Untouched, ExecuteWebhook
  <2>8. LogsTellWhatLeft'
    <3>1. ASSUME NEW n \in Nodes, flow.node[n].kind \in Calls PROVE Told(n)'
      <4>1. EntriesOf(n)' = {} /\ SuccessesOf(n)' = {}
        BY <1>4, <2>6, <3>1 DEF EntriesOf, SuccessesOf, Triggers, Calls
      <4>. QED
        BY <1>1, <2>7, <4>1, FS_EmptySet DEF Told
    <3>. QED
      BY <1>1, <1>2, <3>1
  <2>. QED
    BY <1>1, <2>3, <2>4, <2>5, <2>6, <2>7, <2>8 DEF FInv, Walked, Untouched
<1>. QED
  BY <1>3, <1>4 DEF ExecuteWebhook

-----------------------------------------------------------------------------
(* The stack.                                                               *)

Calling == [below : Nat, left : SUBSET Nat]

\* The calls are below ever earlier entries, of the edges of the branch taken
\* there they have left those after the ones that were logged, and what was
\* logged since is below them.
Ordered(k, b) ==
  /\ stack[k].below = b /\ b \in DOMAIN logs
  /\ stack[k].left \subseteq NextEdges(logs[b].node, logs[b].branch)
  /\ \A l \in DOMAIN stack : k < l => stack[l].below < b
  /\ \A j \in DOMAIN logs :
       /\ b < j => b <= logs[j].below
       /\ logs[j].below = b => \A p \in stack[k].left : logs[j].place < p

Stacked == \A k \in DOMAIN stack : \E b \in Nat : Ordered(k, b)

\* An edge to follow has been followed or is on the stack.
Covered ==
  \A i \in DOMAIN logs : \A p \in Branch(i) :
    \/ \E j \in DOMAIN logs : logs[j].below = i /\ logs[j].place = p
    \/ \E k \in DOMAIN stack : stack[k].below = i /\ p \in stack[k].left

\* Nothing is logged before the walk, and when it ends no call is left.
Phased ==
  /\ phase = "received" => variableMap = <<>> /\ logs = <<>> /\ stack = <<>>
  /\ phase \in {"done", "rejected"} => stack = <<>>
  /\ logs # <<>> => logs[1].below = 0

\* The inductive invariant of the walk.
WInv ==
  /\ flow \in Flows /\ FTypeOK /\ Phased /\ Stacked /\ WalkSoFar
  /\ phase # "rejected" => Covered

\* A sequence with an element before it, and without its first.
LEMMA PushedOn ==
  ASSUME NEW S, NEW s \in Seq(S), NEW e \in S, NEW t, t = <<e>> \o s
  PROVE  /\ t \in Seq(S) /\ DOMAIN t = 1..(Len(s) + 1)
         /\ t[1] = e
         /\ \A k \in 1..Len(s) : t[k + 1] = s[k]
  OBVIOUS

LEMMA PoppedOff ==
  ASSUME NEW S, NEW s \in Seq(S), s # <<>>
  PROVE  /\ Tail(s) \in Seq(S) /\ Head(s) = s[1] /\ Head(s) \in S
         /\ Len(s) \in Nat \ {0} /\ DOMAIN s = 1..Len(s) /\ Len(Tail(s)) = Len(s) - 1
         /\ DOMAIN Tail(s) = 1..(Len(s) - 1)
         /\ \A k \in 1..(Len(s) - 1) : Tail(s)[k] = s[k + 1]
  OBVIOUS

LEMMA TopReplaced ==
  ASSUME NEW S, NEW s \in Seq(S), s # <<>>, NEW e \in S, NEW t, t = <<e>> \o Tail(s)
  PROVE  /\ t \in Seq(S) /\ DOMAIN t = DOMAIN s /\ t[1] = e
         /\ \A k \in DOMAIN s : k # 1 => t[k] = s[k]
  OBVIOUS

\* A set of places that is not empty has its minimum for a member.
LEMMA LeastPlace ==
  ASSUME NEW S \in SUBSET Nat, S # {}
  PROVE  Min(S) \in S /\ \A p \in S : Min(S) <= p
<1>1. \E x \in S : \A y \in S : ~(<<y, x>> \in OpToRel(<, Nat))
  BY NatLessThanWellFounded, WFMin
<1>2. \A x, y \in Nat : <<y, x>> \in OpToRel(<, Nat) <=> y < x
  BY DEF OpToRel
<1>3. PICK x \in S : \A y \in S : ~(<<y, x>> \in OpToRel(<, Nat))
  BY <1>1
<1>4. \A y \in S : ~(y < x)
  BY <1>2, <1>3, Zenon
<1>5. \E z \in S : \A y \in S : z <= y
  BY <1>4, SMT
<1>. QED
  BY <1>5, Zenon DEF Min

\* The edge at which the walk is leads from a node to a node.
LEMMA AtAnEdge ==
  ASSUME WInv, stack # <<>>, Call.left # {}
  PROVE  /\ Call.below \in DOMAIN logs /\ Call \in Calling
         /\ Place \in Call.left /\ Place \in Nat /\ (\A p \in Call.left : Place <= p)
         /\ logs[Call.below].node \in Nodes
         /\ Place \in NextEdges(logs[Call.below].node, logs[Call.below].branch)
         /\ Target \in Nodes
<1>1. stack \in Seq(Calling) /\ logs \in Seq(Entry)
  BY DEF WInv, FTypeOK, Calling
<1>2. Call = stack[1] /\ Call \in Calling /\ 1 \in DOMAIN stack
  BY <1>1, PoppedOff DEF Call
<1>3. /\ Call.below \in DOMAIN logs
      /\ Call.left \subseteq NextEdges(logs[Call.below].node, logs[Call.below].branch)
  BY <1>2 DEF WInv, Stacked, Ordered
<1>4. Place \in Call.left /\ Place \in Nat /\ \A p \in Call.left : Place <= p
  BY <1>2, LeastPlace DEF Place, Calling
<1>5. logs[Call.below] \in Entry
  BY <1>1, <1>3
<1>6. logs[Call.below].node \in Nodes
  BY <1>5 DEF Entry
<1>7. flow.out[logs[Call.below].node] \in Seq(Edge)
  BY <1>6, FlowsAssumption DEF WInv
<1>8. Place \in NextEdges(logs[Call.below].node, logs[Call.below].branch)
  BY <1>3, <1>4
<1>9. flow.out[logs[Call.below].node][Place] \in Edge
  BY <1>7, <1>8 DEF NextEdges
<1>10. Target \in Nodes
  BY <1>9 DEF Target, Edge
<1>. QED
  BY <1>2, <1>3, <1>4, <1>6, <1>8, <1>10

\* The calls when the edge has been taken: the first has one place less.
LEMMA EdgeTakenEffect ==
  ASSUME WInv, stack # <<>>, Call.left # {}
  PROVE  /\ stack \in Seq(Calling) /\ Call = stack[1] /\ 1 \in DOMAIN stack
         /\ EdgeTaken \in Seq(Calling) /\ DOMAIN EdgeTaken = DOMAIN stack
         /\ EdgeTaken[1].below = Call.below /\ EdgeTaken[1].left = Call.left \ {Place}
         /\ \A k \in DOMAIN stack : k # 1 => EdgeTaken[k] = stack[k]
<1>1. stack \in Seq(Calling) /\ Call = stack[1] /\ Call \in Calling /\ 1 \in DOMAIN stack
  <2>1. stack \in Seq(Calling)
    BY DEF WInv, FTypeOK, Calling
  <2>. QED
    BY <2>1, PoppedOff DEF Call
<1>2. PICK top \in Calling : /\ EdgeTaken = <<top>> \o Tail(stack)
                            /\ top.below = Call.below /\ top.left = Call.left \ {Place}
  <2>. DEFINE one == [below |-> Call.below, left |-> Call.left \ {Place}]
  <2>1. one \in Calling /\ one.below = Call.below /\ one.left = Call.left \ {Place}
    BY <1>1 DEF Calling
  <2>2. EdgeTaken = <<one>> \o Tail(stack)
    BY DEF EdgeTaken
  <2>. HIDE DEF one
  <2>. QED
    BY <2>1, <2>2
<1>3. /\ EdgeTaken \in Seq(Calling) /\ DOMAIN EdgeTaken = DOMAIN stack /\ EdgeTaken[1] = top
      /\ \A k \in DOMAIN stack : k # 1 => EdgeTaken[k] = stack[k]
  BY <1>1, <1>2, TopReplaced
<1>. QED
  BY <1>1, <1>2, <1>3

\* The calls when the walk goes on below a new entry.
LEMMA NextCallEffect ==
  ASSUME WInv, stack # <<>>, Call.left # {}, NEW branch
  PROVE  LET s == <<NextCall(branch)>> \o EdgeTaken
         IN  /\ s \in Seq(Calling) /\ DOMAIN s = 1..(Len(stack) + 1) /\ DOMAIN stack = 1..Len(stack)
             /\ Len(stack) \in Nat \ {0}
             /\ s[1].below = Len(logs) + 1 /\ s[1].left = NextEdges(Target, branch)
             /\ s[2].below = Call.below /\ s[2].left = Call.left \ {Place}
             /\ \A k \in 2..Len(stack) : s[k + 1] = stack[k]
<1>1. /\ stack \in Seq(Calling) /\ Call = stack[1] /\ 1 \in DOMAIN stack
      /\ EdgeTaken \in Seq(Calling) /\ DOMAIN EdgeTaken = DOMAIN stack
      /\ EdgeTaken[1].below = Call.below /\ EdgeTaken[1].left = Call.left \ {Place}
      /\ \A k \in DOMAIN stack : k # 1 => EdgeTaken[k] = stack[k]
  BY EdgeTakenEffect
<1>2. Len(stack) \in Nat \ {0} /\ DOMAIN stack = 1..Len(stack) /\ Len(EdgeTaken) = Len(stack)
  BY <1>1
<1>3. Target \in Nodes /\ flow.out[Target] \in Seq(Edge) /\ Len(logs) \in Nat
  BY AtAnEdge, FlowsAssumption DEF WInv, FTypeOK
<1>4. NextEdges(Target, branch) \in SUBSET Nat
  BY <1>3 DEF NextEdges
<1>5. /\ NextCall(branch) \in Calling
      /\ NextCall(branch).below = Len(logs) + 1 /\ NextCall(branch).left = NextEdges(Target, branch)
  BY <1>3, <1>4 DEF NextCall, Calling
<1>. DEFINE s == <<NextCall(branch)>> \o EdgeTaken
<1>6. /\ s \in Seq(Calling) /\ DOMAIN s = 1..(Len(EdgeTaken) + 1) /\ s[1] = NextCall(branch)
      /\ \A k \in 1..Len(EdgeTaken) : s[k + 1] = EdgeTaken[k]
  BY <1>1, <1>5, PushedOn
<1>. HIDE DEF s
<1>7. s[2] = EdgeTaken[1]
  <2>1. 1 \in 1..Len(EdgeTaken) /\ 1 + 1 = 2
    BY <1>2
  <2>. QED
    BY <1>6, <2>1
<1>8. \A k \in 2..Len(stack) : s[k + 1] = stack[k]
  BY <1>1, <1>2, <1>6
<1>. QED
  BY <1>1, <1>2, <1>5, <1>6, <1>7, <1>8 DEF s

\* What the log is when an edge has been followed.
LEMMA EntryEffect ==
  ASSUME WInv, stack # <<>>, Call.left # {}, NEW branch \in Handles, NEW status \in {"success", "error"},
         logs' = Append(logs, LogEntry(status, branch)), flow' = flow
  PROVE  LET last == Len(logs) + 1
         IN  /\ logs' \in Seq(Entry) /\ Len(logs) \in Nat /\ Len(logs') = last
             /\ DOMAIN logs = 1..Len(logs) /\ DOMAIN logs' = 1..last
             /\ \A i \in DOMAIN logs : logs'[i] = logs[i] /\ Branch(i)' = Branch(i)
             /\ logs'[last].below = Call.below /\ logs'[last].place = Place
             /\ logs'[last].node = Target /\ logs'[last].branch = branch
<1>1. logs \in Seq(Entry)
  BY DEF WInv, FTypeOK
<1>2. Call.below \in Nat /\ Place \in Nat /\ Target \in Nodes
  BY AtAnEdge DEF Calling
<1>. DEFINE e == LogEntry(status, branch)
<1>3. /\ e \in Entry /\ e.below = Call.below /\ e.place = Place
      /\ e.node = Target /\ e.branch = branch
  BY <1>2 DEF LogEntry, Entry
<1>. HIDE DEF e
<1>4. logs' = Append(logs, e)
  BY DEF e
<1>5. /\ logs' \in Seq(Entry) /\ Len(logs) \in Nat /\ Len(logs') = Len(logs) + 1
      /\ DOMAIN logs = 1..Len(logs) /\ DOMAIN logs' = 1..(Len(logs) + 1)
      /\ logs'[Len(logs) + 1] = e
      /\ \A i \in DOMAIN logs : logs'[i] = logs[i]
  BY <1>1, <1>3, <1>4
<1>6. \A i \in DOMAIN logs : Branch(i)' = Branch(i)
  BY <1>5 DEF Branch
<1>. QED
  BY <1>3, <1>5, <1>6

-----------------------------------------------------------------------------
(* The steps of the walk.                                                   *)

\* The places of one branch, and those of them that are followed.
LEMMA BranchOfPlaces ==
  ASSUME NEW i, NEW p \in NextEdges(logs[i].node, logs[i].branch)
  PROVE  p \in Branch(i) <=>
           flow.node[flow.out[logs[i].node][p].target].kind \notin {"missing", "trigger"}
  BY DEF NextEdges, Branch

\* An edge is followed: its entry comes after all that is logged below the
\* same branch, and its own branch is left to follow.
LEMMA WalkDescends ==
  ASSUME WInv, stack # <<>>, Call.left # {}, flow.node[Target].kind \notin {"missing", "trigger"},
         NEW branch \in Handles, NEW status \in {"success", "error"}, Descend(status, branch)
  PROVE  /\ logs' \in Seq(Entry) /\ logs'[1].below = 0
         /\ stack' \in Seq(Calling) /\ Stacked' /\ Covered' /\ WalkSoFar'
<1>0. Covered
  BY DEF WInv, Phased
<1>1. /\ flow' = flow /\ logs' = Append(logs, LogEntry(status, branch))
      /\ stack' = <<NextCall(branch)>> \o EdgeTaken
  BY DEF Descend
<1>2. PICK last, b, place \in Nat : last = Len(logs) + 1 /\ b = Call.below /\ place = Place
  BY AtAnEdge DEF WInv, FTypeOK, Calling
<1>3. /\ logs' \in Seq(Entry) /\ Len(logs) \in Nat /\ Len(logs') = last
      /\ DOMAIN logs = 1..Len(logs) /\ DOMAIN logs' = 1..last
      /\ \A i \in DOMAIN logs : logs'[i] = logs[i] /\ Branch(i)' = Branch(i)
      /\ logs'[last].below = b /\ logs'[last].place = place
      /\ logs'[last].node = Target /\ logs'[last].branch = branch
  BY <1>1, <1>2, EntryEffect
<1>4. /\ stack' \in Seq(Calling) /\ DOMAIN stack' = 1..(Len(stack) + 1) /\ DOMAIN stack = 1..Len(stack)
      /\ Len(stack) \in Nat \ {0}
      /\ stack'[1].below = last /\ stack'[1].left = NextEdges(Target, branch)
      /\ stack'[2].below = b /\ stack'[2].left = Call.left \ {place}
      /\ \A k \in 2..Len(stack) : stack'[k + 1] = stack[k]
  BY <1>1, <1>2, NextCallEffect
<1>5. /\ b \in DOMAIN logs /\ place \in Call.left /\ (\A p \in Call.left : place <= p)
      /\ place \in NextEdges(logs[b].node, logs[b].branch) /\ Call.left \in SUBSET Nat
  BY <1>2, AtAnEdge DEF Calling
<1>6. Call = stack[1] /\ stack \in Seq(Calling) /\ 1 \in DOMAIN stack
  BY EdgeTakenEffect
<1>7. place \in Branch(b) /\ Target = flow.out[logs[b].node][place].target
  BY <1>2, <1>5, BranchOfPlaces DEF Target
<1>8. \A i \in DOMAIN logs : logs[i].below \in Nat /\ logs[i].place \in Nat /\ logs[i].below < i
  <2>. SUFFICES ASSUME NEW i \in DOMAIN logs
       PROVE  logs[i].below \in Nat /\ logs[i].place \in Nat /\ logs[i].below < i
    OBVIOUS
  <2>1. logs \in Seq(Entry)
    BY DEF WInv, FTypeOK
  <2>2. logs[i].below \in Nat /\ logs[i].place \in Nat
    <3>1. logs[i] \in Entry
      BY <2>1
    <3>. QED
      BY <3>1 DEF Entry
  <2>3. CASE i = 1
    <3>1. logs # <<>>
      BY <1>3, <2>3
    <3>. QED
      BY <2>2, <2>3, <3>1 DEF WInv, Phased
  <2>4. CASE i \in 2..Len(logs)
    <3>1. logs[i].below \in 1..(i - 1)
      BY <2>4 DEF WInv, WalkSoFar
    <3>. QED
      BY <2>2, <2>4, <3>1
  <2>5. i = 1 \/ i \in 2..Len(logs)
    BY <1>3
  <2>. QED
    BY <2>2, <2>3, <2>4, <2>5
<1>9. \A k \in DOMAIN stack :
        stack[k].below \in Nat /\ stack[k].left \in SUBSET Nat /\ Ordered(k, stack[k].below)
  <2>. SUFFICES ASSUME NEW k \in DOMAIN stack
       PROVE  stack[k].below \in Nat /\ stack[k].left \in SUBSET Nat /\ Ordered(k, stack[k].below)
    OBVIOUS
  <2>1. stack[k] \in Calling
    BY <1>6
  <2>2. PICK c \in Nat : Ordered(k, c)
    BY DEF WInv, Stacked
  <2>3. c = stack[k].below
    BY <2>2 DEF Ordered
  <2>. QED
    BY <2>1, <2>2, <2>3 DEF Calling
<1>10. Ordered(1, b)
  BY <1>2, <1>6, <1>9
<1>11. last = Len(logs) + 1 /\ b \in 1..Len(logs) /\ 1 \in DOMAIN logs /\ b < last
  BY <1>2, <1>3, <1>5
<1>12. ASSUME NEW j \in DOMAIN logs'
       PROVE  \/ j \in DOMAIN logs /\ logs'[j] = logs[j] /\ j < last
              \/ j = last /\ logs'[j].below = b /\ logs'[j].place = place
  BY <1>3, <1>11
<1>13. logs'[1].below = 0
  BY <1>3, <1>11 DEF WInv, Phased
<1>14. WalkSoFar'
  <2>. SUFFICES ASSUME NEW i \in 2..last, NEW parent, parent = logs'[i].below
       PROVE  /\ parent \in 1..(i - 1) /\ logs'[i].place \in Branch(parent)'
              /\ logs'[i].node = flow'.out[logs'[parent].node][logs'[i].place].target
              /\ \A j \in (parent + 1)..(i - 1) :
                   /\ logs'[j].below >= parent
                   /\ logs'[j].below = parent => logs'[j].place < logs'[i].place
    BY <1>3 DEF WalkSoFar
  <2>1. CASE i \in 2..Len(logs)
    <3>1. logs'[i] = logs[i] /\ i \in DOMAIN logs
      BY <1>3, <2>1
    <3>2. /\ parent \in 1..(i - 1) /\ logs[i].place \in Branch(parent)
          /\ logs[i].node = flow.out[logs[parent].node][logs[i].place].target
          /\ \A j \in (parent + 1)..(i - 1) :
               /\ logs[j].below >= parent
               /\ logs[j].below = parent => logs[j].place < logs[i].place
      BY <2>1, <3>1 DEF WInv, WalkSoFar
    <3>3. parent \in DOMAIN logs /\ \A j \in (parent + 1)..(i - 1) : j \in DOMAIN logs
      <4>1. DOMAIN logs = 1..Len(logs) /\ Len(logs) \in Nat /\ parent \in 1..(i - 1)
        BY <1>3, <3>2
      <4>. QED
        BY <2>1, <4>1
    <3>4. logs'[parent] = logs[parent] /\ Branch(parent)' = Branch(parent)
          /\ \A j \in (parent + 1)..(i - 1) : logs'[j] = logs[j]
      BY <1>3, <3>3
    <3>. QED
      BY <1>1, <3>1, <3>2, <3>4
  <2>2. CASE i = last
    <3>1. parent = b
      BY <1>3, <2>2
    <3>2. \A j \in (b + 1)..(last - 1) : j \in DOMAIN logs /\ logs'[j] = logs[j] /\ b < j
      BY <1>3, <1>11
    <3>3. \A j \in (b + 1)..(last - 1) :
            /\ logs'[j].below >= b
            /\ logs'[j].below = b => logs'[j].place < place
      BY <1>5, <1>6, <1>8, <1>10, <3>2 DEF Ordered
    <3>4. logs'[b] = logs[b] /\ Branch(b)' = Branch(b)
      BY <1>3, <1>5
    <3>5. b \in 1..(last - 1)
      BY <1>2, <1>11
    <3>6. logs'[i].place = place /\ logs'[i].node = Target
      BY <1>3, <2>2
    <3>7. place \in Branch(parent)' /\ parent \in 1..(i - 1)
      BY <1>7, <2>2, <3>1, <3>4, <3>5
    <3>8. Target = flow'.out[logs'[parent].node][place].target
      BY <1>1, <1>7, <3>1, <3>4
    <3>. QED
      BY <2>2, <3>1, <3>3, <3>6, <3>7, <3>8
  <2>3. i \in 2..Len(logs) \/ i = last
    BY <1>2, <1>3, <1>11
  <2>. QED
    BY <2>1, <2>2, <2>3
<1>15. Covered'
  <2>. SUFFICES ASSUME NEW i \in DOMAIN logs', NEW p \in Branch(i)'
       PROVE  \/ \E j \in DOMAIN logs' : logs'[j].below = i /\ logs'[j].place = p
              \/ \E k \in DOMAIN stack' : stack'[k].below = i /\ p \in stack'[k].left
    BY DEF Covered
  <2>0. 1 \in DOMAIN stack' /\ 2 \in DOMAIN stack' /\ last \in DOMAIN logs'
    BY <1>3, <1>4, <1>11
  <2>1. CASE i = last
    <3>1. p \in stack'[1].left
      BY <1>1, <1>3, <1>4, <2>1 DEF Branch, NextEdges
    <3>. QED
      BY <1>4, <2>0, <2>1, <3>1
  <2>2. CASE i \in DOMAIN logs
    <3>1. p \in Branch(i)
      BY <1>3, <2>2
    <3>2. CASE \E j \in DOMAIN logs : logs[j].below = i /\ logs[j].place = p
      BY <1>3, <1>11, <3>2
    <3>3. ASSUME NEW k \in DOMAIN stack, stack[k].below = i, p \in stack[k].left
          PROVE  \/ \E j \in DOMAIN logs' : logs'[j].below = i /\ logs'[j].place = p
                 \/ \E l \in DOMAIN stack' : stack'[l].below = i /\ p \in stack'[l].left
      <4>1. CASE k = 1 /\ p = place
        BY <1>2, <1>3, <1>6, <2>0, <3>3, <4>1
      <4>2. CASE k = 1 /\ p # place
        BY <1>2, <1>4, <1>6, <2>0, <3>3, <4>2
      <4>3. CASE k # 1
        <5>1. k \in 2..Len(stack) /\ k + 1 \in DOMAIN stack'
          BY <1>4, <4>3
        <5>. QED
          BY <1>4, <3>3, <5>1
      <4>. QED
        BY <4>1, <4>2, <4>3
    <3>. QED
      BY <1>0, <2>2, <3>1, <3>2, <3>3 DEF Covered
  <2>. QED
    BY <1>3, <1>11, <2>1, <2>2
<1>16. Stacked'
  <2>. SUFFICES ASSUME NEW k \in DOMAIN stack', NEW c, c = stack'[k].below
       PROVE  c \in Nat /\ Ordered(k, c)'
    BY DEF Stacked
  <2>1. ASSUME NEW l \in DOMAIN stack', l >= 3
        PROVE  l - 1 \in DOMAIN stack /\ l - 1 \in 2..Len(stack) /\ stack'[l] = stack[l - 1]
    <3>1. l - 1 \in 2..Len(stack) /\ (l - 1) + 1 = l
      BY <1>4, <2>1
    <3>. QED
      BY <1>4, <3>1
  <2>2. ASSUME NEW l \in DOMAIN stack
        PROVE  /\ stack[l].below \in Nat /\ stack[l].below \in DOMAIN logs /\ stack[l].left \in SUBSET Nat
               /\ stack[l].left \subseteq NextEdges(logs[stack[l].below].node, logs[stack[l].below].branch)
               /\ \A m \in DOMAIN stack : l < m => stack[m].below < stack[l].below
               /\ \A j \in DOMAIN logs :
                    /\ stack[l].below < j => stack[l].below <= logs[j].below
                    /\ logs[j].below = stack[l].below => \A p \in stack[l].left : logs[j].place < p
    BY <1>9 DEF Ordered
  <2>3. CASE k = 1
    <3>1. c = last
      BY <1>4, <2>3
    <3>2. ASSUME NEW l \in DOMAIN stack', 1 < l PROVE stack'[l].below < last
      <4>1. CASE l = 2
        BY <1>4, <1>11, <4>1
      <4>2. CASE l >= 3
        BY <1>3, <1>11, <2>1, <2>2, <4>2
      <4>. QED
        BY <1>4, <3>2, <4>1, <4>2
    <3>3. ASSUME NEW j \in DOMAIN logs' PROVE ~(last < j) /\ logs'[j].below # last
      BY <1>3, <1>8, <1>11, <1>12
    <3>4. last \in DOMAIN logs'
      BY <1>3, <1>11
    <3>5. (stack[1].left \subseteq NextEdges(logs[last].node, logs[last].branch))'
      BY <1>1, <1>3, <1>4 DEF NextEdges
    <3>. QED
      BY <1>4, <2>3, <3>1, <3>2, <3>3, <3>4, <3>5 DEF Ordered
  <2>4. CASE k = 2
    <3>1. c = b
      BY <1>4, <2>4
    <3>2. ASSUME NEW l \in DOMAIN stack', 2 < l PROVE stack'[l].below < b
      <4>1. l - 1 \in DOMAIN stack /\ stack'[l] = stack[l - 1] /\ 1 < l - 1
        BY <1>4, <2>1, <3>2
      <4>. QED
        BY <1>2, <1>6, <2>2, <4>1
    <3>3. b \in DOMAIN logs' /\ logs'[b] = logs[b]
      BY <1>3, <1>5, <1>11
    <3>4. (stack[2].left \subseteq NextEdges(logs[b].node, logs[b].branch))'
      <4>1. Call.left \subseteq NextEdges(logs[b].node, logs[b].branch)
        BY <1>6, <1>10 DEF Ordered
      <4>. QED
        BY <1>1, <1>4, <3>3, <4>1 DEF NextEdges
    <3>5. ASSUME NEW j \in DOMAIN logs'
          PROVE  /\ b < j => b <= logs'[j].below
                 /\ logs'[j].below = b => \A p \in stack'[2].left : logs'[j].place < p
      <4>1. CASE j \in DOMAIN logs /\ logs'[j] = logs[j]
        BY <1>4, <1>6, <1>10, <4>1 DEF Ordered
      <4>2. CASE j = last /\ logs'[j].below = b /\ logs'[j].place = place
        <5>1. ASSUME NEW p \in Call.left, p # place PROVE place < p
          BY <1>2, <1>5, <5>1
        <5>. QED
          BY <1>4, <1>11, <4>2, <5>1
      <4>. QED
        BY <1>12, <4>1, <4>2
    <3>. QED
      BY <1>4, <2>4, <3>1, <3>2, <3>3, <3>4, <3>5 DEF Ordered
  <2>5. CASE k >= 3
    <3>1. k - 1 \in DOMAIN stack /\ stack'[k] = stack[k - 1] /\ 1 < k - 1 /\ c = stack[k - 1].below
      BY <1>4, <2>1, <2>5
    <3>2. c \in DOMAIN logs /\ c \in Nat /\ c < b
      BY <1>2, <1>6, <2>2, <3>1
    <3>3. c \in DOMAIN logs' /\ logs'[c] = logs[c]
      BY <1>3, <1>11, <3>2
    <3>4. ASSUME NEW l \in DOMAIN stack', k < l PROVE stack'[l].below < c
      <4>1. l - 1 \in DOMAIN stack /\ stack'[l] = stack[l - 1] /\ k - 1 < l - 1
        BY <1>4, <2>1, <2>5, <3>4
      <4>. QED
        BY <2>2, <3>1, <4>1
    <3>5. (stack[k].left \subseteq NextEdges(logs[c].node, logs[c].branch))'
      <4>1. stack[k - 1].left \subseteq NextEdges(logs[c].node, logs[c].branch)
        BY <2>2, <3>1
      <4>. QED
        BY <1>1, <3>1, <3>3, <4>1 DEF NextEdges
    <3>6. ASSUME NEW j \in DOMAIN logs'
          PROVE  /\ c < j => c <= logs'[j].below
                 /\ logs'[j].below = c => \A p \in stack'[k].left : logs'[j].place < p
      <4>1. CASE j \in DOMAIN logs /\ logs'[j] = logs[j]
        BY <2>2, <3>1, <4>1
      <4>2. CASE j = last /\ logs'[j].below = b
        BY <1>2, <1>11, <3>2, <4>2
      <4>. QED
        BY <1>12, <4>1, <4>2
    <3>. QED
      BY <3>2, <3>3, <3>4, <3>5, <3>6 DEF Ordered
  <2>. QED
    BY <1>4, <2>3, <2>4, <2>5
<1>. QED
  BY <1>3, <1>4, <1>13, <1>14, <1>15, <1>16

\* An edge that leads nowhere is no edge to follow.
LEMMA WalkSkips ==
  ASSUME WInv, SkipEdge
  PROVE  WInv'
<1>1. /\ phase = "walking" /\ stack # <<>> /\ Call.left # {}
      /\ flow.node[Target].kind \in {"missing", "trigger"}
      /\ stack' = EdgeTaken /\ UNCHANGED <<flow, phase, variableMap, logs, sent>>
  BY DEF SkipEdge, AtEdge
<1>2. /\ stack \in Seq(Calling) /\ Call = stack[1] /\ 1 \in DOMAIN stack
      /\ stack' \in Seq(Calling) /\ DOMAIN stack' = DOMAIN stack
      /\ stack'[1].below = Call.below /\ stack'[1].left = Call.left \ {Place}
      /\ \A k \in DOMAIN stack : k # 1 => stack'[k] = stack[k]
  BY <1>1, EdgeTakenEffect
<1>3. PICK b, place \in Nat : b = Call.below /\ place = Place
  BY <1>1, AtAnEdge DEF Calling
<1>4. place \notin Branch(b)
  BY <1>1, <1>3, AtAnEdge, BranchOfPlaces DEF Target
<1>5. \A k \in DOMAIN stack : stack'[k].below = stack[k].below /\ stack'[k].left \subseteq stack[k].left
  BY <1>2
<1>6. Stacked'
  <2>. SUFFICES ASSUME NEW k \in DOMAIN stack' PROVE \E c \in Nat : Ordered(k, c)'
    BY DEF Stacked
  <2>1. PICK c \in Nat : Ordered(k, c)
    BY <1>2 DEF WInv, Stacked
  <2>2. stack'[k].below = c /\ stack'[k].left \subseteq stack[k].left
    BY <1>2, <1>5, <2>1 DEF Ordered
  <2>3. \A l \in DOMAIN stack' : k < l => stack'[l].below < c
    BY <1>2, <1>5, <2>1 DEF Ordered
  <2>4. (stack[k].left \subseteq NextEdges(logs[c].node, logs[c].branch))'
    BY <1>1, <2>1, <2>2 DEF Ordered, NextEdges
  <2>. QED
    BY <1>1, <2>1, <2>2, <2>3, <2>4 DEF Ordered
<1>7. Covered'
  <2>1. ASSUME NEW i \in DOMAIN logs, NEW p \in Branch(i), NEW k \in DOMAIN stack,
               stack[k].below = i, p \in stack[k].left
        PROVE  stack'[k].below = i /\ p \in stack'[k].left
    BY <1>2, <1>3, <1>4, <2>1
  <2>2. logs' = logs /\ \A i : Branch(i)' = Branch(i)
    BY <1>1 DEF Branch
  <2>. QED
    BY <1>1, <1>2, <2>1, <2>2 DEF WInv, Covered
<1>8. WalkSoFar' /\ flow' \in Flows
  BY <1>1 DEF WInv, WalkSoFar, Branch
<1>9. FTypeOK' /\ Phased'
  BY <1>1, <1>2 DEF WInv, FTypeOK, Phased, Calling
<1>. QED
  BY <1>6, <1>7, <1>8, <1>9 DEF WInv

\* A call that returns leaves nothing to follow.
LEMMA WalkReturns ==
  ASSUME WInv, ReturnFromCall
  PROVE  WInv'
<1>1. /\ phase = "walking" /\ stack # <<>> /\ Call.left = {} /\ stack' = Tail(stack)
      /\ phase' = IF stack' = <<>> THEN "done" ELSE "walking"
      /\ UNCHANGED <<flow, variableMap, logs, sent>>
  BY DEF ReturnFromCall
<1>2. stack \in Seq(Calling)
  BY DEF WInv, FTypeOK, Calling
<1>3. /\ stack' \in Seq(Calling) /\ stack[1].left = {}
      /\ Len(stack) \in Nat \ {0} /\ DOMAIN stack = 1..Len(stack)
      /\ DOMAIN stack' = 1..(Len(stack) - 1)
      /\ \A k \in 1..(Len(stack) - 1) : stack'[k] = stack[k + 1]
  BY <1>1, <1>2, PoppedOff DEF Call
<1>4. \A k \in DOMAIN stack' : k + 1 \in DOMAIN stack /\ stack'[k] = stack[k + 1]
  BY <1>3
<1>5. Stacked'
  <2>. SUFFICES ASSUME NEW k \in DOMAIN stack' PROVE \E b \in Nat : Ordered(k, b)'
    BY DEF Stacked
  <2>1. PICK b \in Nat : Ordered(k + 1, b)
    BY <1>4 DEF WInv, Stacked
  <2>2. \A l \in DOMAIN stack' : k < l => k + 1 < l + 1
    BY <1>3
  <2>. QED
    BY <1>1, <1>4, <2>1, <2>2 DEF Ordered, NextEdges
<1>6. Covered'
  <2>1. ASSUME NEW i \in DOMAIN logs, NEW p \in Branch(i), NEW k \in DOMAIN stack,
               stack[k].below = i, p \in stack[k].left
        PROVE  \E l \in DOMAIN stack' : stack'[l].below = i /\ p \in stack'[l].left
    <3>1. k # 1
      BY <1>3, <2>1
    <3>2. k - 1 \in DOMAIN stack' /\ (k - 1) + 1 = k
      BY <1>3, <3>1
    <3>. QED
      BY <1>4, <2>1, <3>2
  <2>2. logs' = logs /\ \A i : Branch(i)' = Branch(i)
    BY <1>1 DEF Branch
  <2>. QED
    BY <1>1, <2>1, <2>2 DEF WInv, Covered
<1>7. WalkSoFar' /\ flow' \in Flows
  BY <1>1 DEF WInv, WalkSoFar, Branch
<1>8. FTypeOK' /\ Phased'
  BY <1>1, <1>3 DEF WInv, FTypeOK, Phased, Calling
<1>. QED
  BY <1>5, <1>6, <1>7, <1>8 DEF WInv

\* Without data every call is left; the log stays a walk that was cut.
LEMMA WalkIsCut ==
  ASSUME WInv, ReadAbsentData
  PROVE  WInv'
<1>1. phase = "walking" /\ phase' = "rejected" /\ stack' = <<>> /\ UNCHANGED <<flow, variableMap, logs, sent>>
  BY DEF ReadAbsentData, AtEdge
<1>2. FTypeOK' /\ Phased'
  BY <1>1 DEF WInv, FTypeOK, Phased
<1>3. WalkSoFar' /\ flow' \in Flows
  BY <1>1 DEF WInv, WalkSoFar, Branch
<1>4. Stacked'
  BY <1>1 DEF Stacked
<1>. QED
  BY <1>1, <1>2, <1>3, <1>4 DEF WInv

\* The trigger is the first entry, and its branch is left to follow.
LEMMA WalkStarts ==
  ASSUME WInv, ExecuteWebhook
  PROVE  WInv'
<1>1. /\ phase = "received" /\ variableMap = <<>> /\ logs = <<>> /\ stack = <<>>
      /\ UNCHANGED <<flow, sent>> /\ flow \in Flows /\ FTypeOK
  BY DEF WInv, Phased, ExecuteWebhook
<1>2. CASE phase' \in {"rejected", "failed"} /\ UNCHANGED <<stack, variableMap, logs>>
  BY <1>1, <1>2 DEF WInv, FTypeOK, Phased, Stacked, Covered, WalkSoFar
<1>3. ASSUME NEW n \in Triggers,
             NEW payload \in [Variables -> {Undefined} \cup [from : {Payload}, text : Texts]],
             phase' = "walking", variableMap' = BuildVariableMap(flow.variables, payload),
             logs' = <<[node |-> n, status |-> "success", branch |-> "bottom",
                        below |-> 0, place |-> 0]>>,
             stack' = <<[below |-> 1, left |-> NextEdges(n, "bottom")]>>
      PROVE  WInv'
  <2>1. n \in Nodes /\ flow.out[n] \in Seq(Edge) /\ flow.variables \in Seq(Variables)
        /\ \A i, j \in DOMAIN flow.variables : flow.variables[i] = flow.variables[j] => i = j
    BY <1>1, FlowsAssumption DEF Triggers
  <2>2. NextEdges(n, "bottom") \in SUBSET Nat
    BY <2>1 DEF NextEdges
  <2>3. PICK e \in Entry : logs' = <<e>> /\ e.node = n /\ e.branch = "bottom" /\ e.below = 0
    <3>. DEFINE one == [node |-> n, status |-> "success", branch |-> "bottom", below |-> 0, place |-> 0]
    <3>1. one \in Entry /\ one.node = n /\ one.branch = "bottom" /\ one.below = 0
      BY <2>1 DEF Entry, Handles
    <3>2. logs' = <<one>>
      BY <1>3
    <3>. HIDE DEF one
    <3>. QED
      BY <3>1, <3>2
  <2>4. PICK c \in Calling : stack' = <<c>> /\ c.below = 1 /\ c.left = NextEdges(n, "bottom")
    <3>. DEFINE one == [below |-> 1, left |-> NextEdges(n, "bottom")]
    <3>1. one \in Calling /\ one.below = 1 /\ one.left = NextEdges(n, "bottom")
      BY <2>2 DEF Calling
    <3>2. stack' = <<one>>
      BY <1>3
    <3>. HIDE DEF one
    <3>. QED
      BY <3>1, <3>2
  <2>5. logs' \in Seq(Entry) /\ Len(logs') = 1 /\ DOMAIN logs' = {1} /\ logs'[1] = e
    BY <2>3
  <2>6. stack' \in Seq(Calling) /\ DOMAIN stack' = {1} /\ stack'[1] = c
    BY <2>4
  <2>7. variableMap' \in Seq([key : Variables, value : Values])
    <3>1. \A i \in DOMAIN flow.variables :
            [key |-> flow.variables[i], value |-> payload[flow.variables[i]]] \in [key : Variables, value : Values]
      BY <1>3, <2>1 DEF Values
    <3>2. Len(flow.variables) \in Nat /\ DOMAIN flow.variables = 1..Len(flow.variables)
      BY <2>1
    <3>. QED
      BY <1>3, <3>1, <3>2, IsASeq DEF BuildVariableMap
  <2>8. \A i, j \in DOMAIN variableMap' : variableMap'[i].key = variableMap'[j].key => i = j
    <3>1. DOMAIN variableMap' = DOMAIN flow.variables
          /\ \A i \in DOMAIN flow.variables : variableMap'[i].key = flow.variables[i]
      BY <1>3 DEF BuildVariableMap
    <3>. QED
      BY <2>1, <3>1
  <2>9. FTypeOK' /\ Phased'
    BY <1>1, <1>3, <2>3, <2>5, <2>6, <2>7, <2>8 DEF FTypeOK, Phased, Calling
  <2>10. Stacked'
    <3>1. Ordered(1, 1)'
      BY <1>1, <2>3, <2>4, <2>5, <2>6 DEF Ordered, NextEdges
    <3>. QED
      BY <2>6, <3>1 DEF Stacked
  <2>11. Covered'
    <3>1. ASSUME NEW p \in Branch(1)' PROVE p \in stack'[1].left
      BY <1>1, <2>3, <2>4, <2>5, <2>6, <3>1 DEF Branch, NextEdges
    <3>2. 1 \in DOMAIN stack' /\ stack'[1].below = 1
      BY <2>4, <2>6
    <3>3. \A p \in Branch(1)' : \E k \in DOMAIN stack' : stack'[k].below = 1 /\ p \in stack'[k].left
      BY <3>1, <3>2
    <3>. QED
      BY <2>5, <3>3 DEF Covered
  <2>12. WalkSoFar' /\ flow' \in Flows
    BY <1>1, <2>5 DEF WalkSoFar
  <2>. QED
    BY <2>9, <2>10, <2>11, <2>12 DEF WInv
<1>. QED
  BY <1>2, <1>3 DEF ExecuteWebhook

-----------------------------------------------------------------------------
(* The Map and the steps of the nodes.                                      *)

MapEntry == [key : Variables, value : Values]

\* The Map stays a Map of variables.
LEMMA MapSetType ==
  ASSUME FTypeOK, NEW new, IsFiniteSet(DOMAIN new), DOMAIN new \subseteq Variables,
         \A key \in DOMAIN new : new[key] \in Values,
         variableMap' \in MapSet(variableMap, new)
  PROVE  /\ variableMap' \in Seq(MapEntry)
         /\ \A i, j \in DOMAIN variableMap' : variableMap'[i].key = variableMap'[j].key => i = j
<1>1. variableMap \in Seq(MapEntry) /\ IsSequence(variableMap) /\ UniqueKeys
  BY DEF FTypeOK, MapEntry, IsSequence, UniqueKeys
<1>2. UniqueKeys'
  BY <1>1, MapSetEffect
<1>3. \A key \in DOMAIN new : [key |-> key, value |-> new[key]] \in MapEntry
  BY DEF MapEntry
<1>4. PICK map, after : map = variableMap /\ after = variableMap'
  OBVIOUS
<1>5. map \in Seq(MapEntry) /\ after \in MapSet(map, new)
  BY <1>1, <1>4
<1>6. after \in Seq(MapEntry \cup MapEntry)
  BY <1>3, <1>5, MapSetElements
<1>. QED
  BY <1>2, <1>4, <1>6 DEF UniqueKeys

\* What a node does besides: its call may leave, and the Map stays a Map.
LEMMA NodeStep ==
  ASSUME WInv, NEW kinds \in SUBSET (Kinds \ {"missing", "trigger"}), AtEdge(kinds),
         NEW status \in {"success", "error"}, NEW branch \in Handles, Descend(status, branch),
         Leaves \/ sent' = sent,
         variableMap' \in Seq(MapEntry),
         \A i, j \in DOMAIN variableMap' : variableMap'[i].key = variableMap'[j].key => i = j
  PROVE  WInv'
<1>1. /\ phase = "walking" /\ stack # <<>> /\ Call.left # {}
      /\ flow.node[Target].kind \notin {"missing", "trigger"} /\ Target \in Nodes
  BY AtAnEdge DEF AtEdge
<1>2. /\ logs' \in Seq(Entry) /\ logs'[1].below = 0
      /\ stack' \in Seq(Calling) /\ Stacked' /\ Covered' /\ WalkSoFar'
  BY <1>1, WalkDescends
<1>3. sent' \in [Nodes -> Nat]
  <2>1. sent \in [Nodes -> Nat]
    BY DEF WInv, FTypeOK
  <2>2. CASE Leaves
    BY <1>1, <2>1, <2>2 DEF Leaves
  <2>3. CASE sent' = sent
    BY <2>1, <2>3
  <2>. QED
    BY <2>2, <2>3
<1>4. phase' = "walking" /\ flow' \in Flows
  BY <1>1 DEF Descend, WInv
<1>. QED
  BY <1>2, <1>3, <1>4 DEF WInv, FTypeOK, Phased, Calling, MapEntry

\* Nodes that leave the Map alone.
LEMMA QuietNodeStep ==
  ASSUME WInv, NEW kinds \in SUBSET (Kinds \ {"missing", "trigger"}), AtEdge(kinds),
         NEW status \in {"success", "error"}, NEW branch \in Handles, Descend(status, branch),
         Leaves \/ sent' = sent, variableMap' = variableMap
  PROVE  WInv'
<1>1. /\ variableMap' \in Seq(MapEntry)
      /\ \A i, j \in DOMAIN variableMap' : variableMap'[i].key = variableMap'[j].key => i = j
  BY DEF WInv, FTypeOK, MapEntry
<1>. QED
  BY <1>1, NodeStep

\* One case per kind of node.
LEMMA WalkActs ==
  ASSUME WInv, ExecuteActionNode \/ ExecuteConditionalNode
  PROVE  WInv'
<1>. USE DEF Handles
<1>1. CASE LogMisconfigured
  <2>1. ActionKinds \in SUBSET (Kinds \ {"missing", "trigger"})
    BY DEF Kinds, ActionKinds
  <2>. QED
    BY <1>1, <2>1, QuietNodeStep DEF LogMisconfigured
<1>2. CASE ExecuteSendEmail
  <2>1. {"SEND_EMAIL"} \in SUBSET (Kinds \ {"missing", "trigger"})
    BY DEF Kinds, ActionKinds
  <2>2. AtEdge({"SEND_EMAIL"}) /\ variableMap' = variableMap
        /\ \E status \in {"success", "error"} : Descend(status, "bottom") /\ (Leaves \/ sent' = sent)
    BY <1>2 DEF ExecuteSendEmail
  <2>. QED
    BY <2>1, <2>2, QuietNodeStep
<1>3. CASE ExecuteSendNotification
  <2>1. {"SEND_NOTIFICATION"} \in SUBSET (Kinds \ {"missing", "trigger"})
    BY DEF Kinds, ActionKinds
  <2>2. AtEdge({"SEND_NOTIFICATION"}) /\ variableMap' = variableMap
        /\ \E status \in {"success", "error"} : Descend(status, "bottom") /\ (Leaves \/ sent' = sent)
    BY <1>3 DEF ExecuteSendNotification
  <2>. QED
    BY <2>1, <2>2, QuietNodeStep
<1>4. CASE ExecuteOutgoingWebhook
  <2>1. {"WEBHOOK"} \in SUBSET (Kinds \ {"missing", "trigger"})
    BY DEF Kinds, ActionKinds
  <2>2. /\ AtEdge({"WEBHOOK"})
        /\ \E status \in {"success", "error"} : Descend(status, "bottom") /\ (Leaves \/ sent' = sent)
        /\ \/ variableMap' = variableMap
           \/ \E stored \in SUBSET flow.node[Target].outputs :
                \E answer \in [stored -> [from : {Target}, text : Texts]] :
                  variableMap' \in MapSet(variableMap, answer)
    BY <1>4 DEF ExecuteOutgoingWebhook
  <2>3. CASE variableMap' = variableMap
    BY <2>1, <2>2, <2>3, QuietNodeStep
  <2>4. ASSUME NEW stored \in SUBSET flow.node[Target].outputs,
               NEW answer \in [stored -> [from : {Target}, text : Texts]],
               variableMap' \in MapSet(variableMap, answer)
        PROVE  WInv'
    <3>1. Target \in Nodes
      BY <2>2, AtAnEdge DEF AtEdge
    <3>2. IsFiniteSet(stored) /\ stored \subseteq Variables
      BY <3>1, StoredOutputs DEF WInv
    <3>3. DOMAIN answer = stored /\ \A key \in stored : answer[key] \in Values
      BY <2>4, <3>1 DEF Values
    <3>4. /\ variableMap' \in Seq(MapEntry)
          /\ \A i, j \in DOMAIN variableMap' : variableMap'[i].key = variableMap'[j].key => i = j
      BY <2>4, <3>2, <3>3, MapSetType DEF WInv
    <3>. QED
      BY <2>1, <2>2, <3>4, NodeStep
  <2>. QED
    BY <2>2, <2>3, <2>4
<1>5. CASE ExecuteProcessData
  <2>1. {"PROCESS_DATA"} \in SUBSET (Kinds \ {"missing", "trigger"})
    BY DEF Kinds, ActionKinds
  <2>2. /\ AtEdge({"PROCESS_DATA"}) /\ sent' = sent
        /\ \E status \in {"success", "error"} : Descend(status, "bottom")
        /\ variableMap' = variableMap \/ \E text \in Texts : SetVariable([from |-> Target, text |-> text])
    BY <1>5 DEF ExecuteProcessData
  <2>3. CASE variableMap' = variableMap
    BY <2>1, <2>2, <2>3, QuietNodeStep
  <2>4. ASSUME NEW text \in Texts, SetVariable([from |-> Target, text |-> text]) PROVE WInv'
    <3>1. CASE variableMap = <<>>
      BY <2>1, <2>2, <2>4, <3>1, QuietNodeStep DEF SetVariable
    <3>2. CASE variableMap # <<>>
      <4>1. Target \in Nodes
        BY <2>2, AtAnEdge DEF AtEdge
      <4>2. variableMap \in Seq(MapEntry)
        BY DEF WInv, FTypeOK, MapEntry
      <4>3. variableMap[1] \in MapEntry
        BY <3>2, <4>2
      <4>4. variableMap[1].key \in Variables
        BY <4>3 DEF MapEntry
      <4>5. /\ variableMap' \in Seq(MapEntry)
            /\ \A i, j \in DOMAIN variableMap' : variableMap'[i].key = variableMap'[j].key => i = j
        <5>1. PICK new : new = [k \in {variableMap[1].key} |-> [from |-> Target, text |-> text]]
          OBVIOUS
        <5>2. /\ DOMAIN new = {variableMap[1].key} /\ IsFiniteSet(DOMAIN new)
              /\ new[variableMap[1].key] = [from |-> Target, text |-> text]
          BY <5>1, OneKey
        <5>3. [from |-> Target, text |-> text] \in Values
          BY <4>1 DEF Values
        <5>4. variableMap' \in MapSet(variableMap, new)
          BY <2>4, <3>2, <5>1 DEF SetVariable
        <5>. QED
          BY <4>4, <5>2, <5>3, <5>4, MapSetType DEF WInv
      <4>. QED
        BY <2>1, <2>2, <4>5, NodeStep
    <3>. QED
      BY <3>1, <3>2
  <2>. QED
    BY <2>2, <2>3, <2>4
<1>6. CASE ExecuteConditionalNode
  <2>1. {"conditional"} \in SUBSET (Kinds \ {"missing", "trigger"})
    BY DEF Kinds, ActionKinds
  <2>2. AtEdge({"conditional"}) /\ variableMap' = variableMap /\ sent' = sent
        /\ \E branch \in Handles : Descend("success", branch)
    BY <1>6 DEF ExecuteConditionalNode
  <2>. QED
    BY <2>1, <2>2, QuietNodeStep
<1>. QED
  BY <1>1, <1>2, <1>3, <1>4, <1>5, <1>6 DEF ExecuteActionNode

\* Each step keeps the invariant of the walk.
LEMMA WalkInvariant == FSpec => []WInv
<1>1. FInit => WInv
  <2>. SUFFICES ASSUME FInit PROVE WInv
    OBVIOUS
  <2>1. FTypeOK /\ Phased /\ flow \in Flows
    BY DEF FInit, FTypeOK, Phased
  <2>2. Stacked /\ Covered /\ WalkSoFar
    BY DEF FInit, Stacked, Covered, WalkSoFar
  <2>. QED
    BY <2>1, <2>2 DEF WInv
<1>2. WInv /\ [FNext]_fvars => WInv'
  <2>. SUFFICES ASSUME WInv, [FNext]_fvars PROVE WInv'
    OBVIOUS
  <2>1. CASE UNCHANGED fvars
    <3>1. \A i : Branch(i)' = Branch(i)
      BY <2>1 DEF fvars, Branch
    <3>0. UNCHANGED <<flow, phase, stack, variableMap, logs, sent>>
      BY <2>1 DEF fvars
    <3>2. phase' # "rejected" => Covered'
      BY <3>0, <3>1 DEF WInv, Covered
    <3>5. WalkSoFar'
      BY <3>0, <3>1 DEF WInv, WalkSoFar
    <3>6. Phased' /\ FTypeOK' /\ flow' \in Flows
      BY <3>0 DEF WInv, Phased, FTypeOK
    <3>3. \A k, b : Ordered(k, b)' <=> Ordered(k, b)
      BY <2>1 DEF fvars, Ordered, NextEdges
    <3>4. Stacked'
      BY <2>1, <3>3 DEF fvars, WInv, Stacked
    <3>. QED
      BY <3>2, <3>4, <3>5, <3>6 DEF WInv
  <2>. QED
    BY <2>1, WalkStarts, WalkSkips, WalkIsCut, WalkActs, WalkReturns DEF FNext
<1>. QED
  BY <1>1, <1>2, PTL DEF FSpec

\* The state has its types, the targets of the edges on the stack are nodes, and
\* the Map has one entry per variable.
THEOREM FlowsAreTyped == FSpec => []FTypeOK
<1>1. WInv => FTypeOK
  BY DEF WInv
<1>. QED
  BY <1>1, WalkInvariant, PTL

\* The log is the depth-first walk of the branches taken, as far as the walk has
\* come, and all of it when the request is answered.
THEOREM LogsAreTheWalk == FSpec => []LogsAreAWalk
<1>1. WInv => LogsAreAWalk
  BY DEF WInv, Phased, Covered, LogsAreAWalk
<1>. QED
  BY <1>1, WalkInvariant, PTL

-----------------------------------------------------------------------------
(* Variables and the log again: the data of a target are those of a node.   *)

\* One case per kind of action.
LEMMA ExecuteActionNodeStep ==
  ASSUME FInv, WInv, ExecuteActionNode
  PROVE  FInv'
<1>1. CASE LogMisconfigured
  BY <1>1, DescendStep, VariablesStay DEF LogMisconfigured, AtEdge, Descend
<1>2. CASE ExecuteSendEmail
  BY <1>2, DescendStep, VariablesStay DEF ExecuteSendEmail, AtEdge, Descend
<1>3. CASE ExecuteSendNotification
  BY <1>3, DescendStep, VariablesStay DEF ExecuteSendNotification, AtEdge, Descend
<1>4. CASE ExecuteOutgoingWebhook
  <2>1. /\ phase = "walking" /\ flow.node[Target].kind = "WEBHOOK"
        /\ \/ Leaves /\ Descend("success", "bottom")
           \/ Leaves /\ Descend("error", "bottom")
           \/ sent' = sent /\ Descend("error", "bottom")
        /\ \/ variableMap' = variableMap
           \/ \E stored \in SUBSET flow.node[Target].outputs :
                \E answer \in [stored -> [from : {Target}, text : Texts]] :
                  variableMap' \in MapSet(variableMap, answer)
    BY <1>4 DEF ExecuteOutgoingWebhook, AtEdge
  <2>2. flow' = flow
    BY <2>1 DEF Descend
  <2>3. CASE variableMap' = variableMap
    BY <2>1, <2>2, <2>3, VariablesStay, DescendStep
  <2>4. ASSUME NEW stored \in SUBSET flow.node[Target].outputs,
               NEW answer \in [stored -> [from : {Target}, text : Texts]],
               variableMap' \in MapSet(variableMap, answer)
        PROVE  FInv'
    <3>1. DOMAIN answer = stored /\ \A key \in stored : answer[key].from = Target
      BY <2>4
    <3>2. IsFiniteSet(stored)
      BY <1>4, StoredOutputs, AtAnEdge DEF WInv, ExecuteOutgoingWebhook, AtEdge
    <3>3. IsSequence(variableMap') /\ UniqueKeys' /\ VariableProvenance'
      BY <2>1, <2>2, <2>4, <3>1, <3>2, MapSetProvenance DEF FInv
    <3>. QED
      BY <2>1, <3>3, DescendStep
  <2>. QED
    BY <2>1, <2>3, <2>4
<1>5. CASE ExecuteProcessData
  <2>1. PICK status \in {"success", "error"} : Descend(status, "bottom")
    BY <1>5 DEF ExecuteProcessData
  <2>2. /\ phase = "walking" /\ flow.node[Target].kind = "PROCESS_DATA" /\ sent' = sent
        /\ \/ variableMap' = variableMap
           \/ \E text \in Texts : SetVariable([from |-> Target, text |-> text])
    BY <1>5 DEF ExecuteProcessData, AtEdge
  <2>3. flow' = flow
    BY <2>1 DEF Descend
  <2>4. variableMap # <<>> => 1 \in DOMAIN variableMap
    BY DEF FInv, Walked, IsSequence
  <2>5. IsSequence(variableMap') /\ UniqueKeys' /\ VariableProvenance'
    <3>1. CASE variableMap' = variableMap
      BY <2>3, <3>1, VariablesStay
    <3>2. ASSUME NEW text \in Texts, SetVariable([from |-> Target, text |-> text])
          PROVE  IsSequence(variableMap') /\ UniqueKeys' /\ VariableProvenance'
      <4>1. CASE variableMap = <<>>
        BY <2>3, <3>2, <4>1, VariablesStay DEF SetVariable
      <4>2. CASE variableMap # <<>>
        <5>. DEFINE key == variableMap[1].key
        <5>1. PICK new : new = [k \in {key} |-> [from |-> Target, text |-> text]]
          OBVIOUS
        <5>2. DOMAIN new = {key} /\ IsFiniteSet(DOMAIN new) /\ \A k \in DOMAIN new : new[k].from = Target
          BY <5>1, OneKey
        <5>3. variableMap' \in MapSet(variableMap, new)
          BY <3>2, <4>2, <5>1 DEF SetVariable
        <5>. QED
          BY <2>2, <2>3, <2>4, <4>2, <5>2, <5>3, MapSetProvenance DEF FInv
      <4>. QED
        BY <4>1, <4>2
    <3>. QED
      BY <2>2, <3>1, <3>2
  <2>. QED
    BY <2>1, <2>2, <2>5, DescendStep DEF Calls
<1>. QED
  BY <1>1, <1>2, <1>3, <1>4, <1>5 DEF ExecuteActionNode

\* A conditional logs success and calls nothing.
LEMMA ExecuteConditionalNodeStep ==
  ASSUME FInv, ExecuteConditionalNode
  PROVE  FInv'
<1>1. PICK branch : Descend("success", branch)
  BY DEF ExecuteConditionalNode
<1>2. /\ phase = "walking" /\ flow.node[Target].kind = "conditional"
      /\ UNCHANGED <<variableMap, sent>> /\ flow' = flow
  BY <1>1 DEF ExecuteConditionalNode, AtEdge, Descend
<1>. QED
  BY <1>1, <1>2, VariablesStay, DescendStep DEF Calls

\* Each step keeps the invariant.
LEMMA FlowInvariant == FSpec => []FInv
<1>1. FInit => FInv
  <2>. SUFFICES ASSUME FInit PROVE FInv
    OBVIOUS
  <2>1. IsSequence(<<>>)
    BY DEF IsSequence
  <2>2. Walked /\ VariableProvenance
    BY <2>1 DEF FInit, Walked, UniqueKeys, Untouched, VariableProvenance
  <2>3. \A n \in Nodes : EntriesOf(n) = {} /\ SuccessesOf(n) = {} /\ sent[n] = 0
    BY DEF FInit, EntriesOf, SuccessesOf
  <2>4. LogsTellWhatLeft
    BY <2>3, ToldOfCalls, FS_EmptySet DEF Told
  <2>. QED
    BY <2>2, <2>4 DEF FInv
<1>2. FInv /\ WInv /\ [FNext]_fvars => FInv'
  <2>. SUFFICES ASSUME FInv, WInv, [FNext]_fvars PROVE FInv'
    OBVIOUS
  <2>1. CASE SkipEdge \/ ReadAbsentData \/ ReturnFromCall \/ UNCHANGED fvars
    <3>1. UNCHANGED <<flow, variableMap, logs, sent>> /\ (phase' = "received" => phase = "received")
      BY <2>1 DEF SkipEdge, ReadAbsentData, ReturnFromCall, fvars
    <3>. QED
      BY <3>1 DEF FInv, Walked, UniqueKeys, Untouched, VariableProvenance, LogsTellWhatLeft
  <2>. QED
    BY <2>1, ExecuteWebhookStep, ExecuteActionNodeStep, ExecuteConditionalNodeStep DEF FNext
<1>. QED
  BY <1>1, <1>2, WalkInvariant, PTL DEF FSpec

\* A variable holds what the request sent for it or what the webhook assigned
\* to it returned; only the first of the Map what process data wrote.
THEOREM VariablesHaveSources == FSpec => []VariableProvenance
<1>1. FInv => VariableProvenance
  BY DEF FInv
<1>. QED
  BY <1>1, FlowInvariant, PTL

\* The log a request gets has an entry for every call that left, and an entry
\* of success of a mail, notification or webhook stands for one that did.
THEOREM LogsTellTheTruth == FSpec => []LogsTellWhatLeft
<1>1. FInv => LogsTellWhatLeft
  BY DEF FInv
<1>. QED
  BY <1>1, FlowInvariant, PTL
=============================================================================
