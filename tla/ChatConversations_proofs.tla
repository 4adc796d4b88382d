----------------------- MODULE ChatConversations_proofs -----------------------
(***************************************************************************)
(* Proofs about conversations and messages, for any users, conversations,  *)
(* requests and faults.                                                    *)
(*                                                                         *)
(* SenderParticipates alone is not inductive: a message is inserted two    *)
(* awaits after the check of its sender, and the row may have been saved   *)
(* again meanwhile from the entity of another request.  CInv relates the   *)
(* entities that requests hold to the row and to each other: of the users  *)
(* that still exist, they all name the same participants.                  *)
(***************************************************************************)
EXTENDS ChatConversations, TLAPS

-----------------------------------------------------------------------------
ConversationRows == [state : {"exists"}, participants : SUBSET Users, updatedAt : Nat]

ChatRequests ==
  {[kind |-> "none"]}
    \cup [kind : {"create"}, id : Conversations, user : Users, recipient : Users \cup {Nobody}]
    \cup [kind : {"send", "delete"}, id : Conversations, user : Users]

\* The types, those of requests and entities included.
CTyped ==
  /\ CTypeOK
  /\ creq \in [Requests -> ChatRequests]
  /\ entity \in [Requests -> {NoRow} \cup ConversationRows]

\* A request that creates a conversation, and one that has read an entity.
Founds(q) == cpc[q] \in {"admin", "participants", "create"}
Holds(q) == cpc[q] \in {"sender", "insert", "touch", "remove"}

\* What a request asks for at each await.
Asked ==
  \A q \in Requests :
    /\ Founds(q) => creq[q].kind = "create"
    /\ cpc[q] \in {"participants", "create"} => creq[q].recipient \in Users
    /\ cpc[q] = "conversation" => creq[q].kind \in {"send", "delete"}
    /\ cpc[q] \in {"sender", "insert", "touch"} => creq[q].kind = "send"
    /\ cpc[q] = "remove" => creq[q].kind = "delete"

\* A uuid belongs to one request, and has no row before that request saves it.
Unborn ==
  \A q \in Requests :
    /\ Founds(q) => conversations[creq[q].id] = NoRow
    /\ \A p \in Requests :
         p # q /\ creq[p].kind = "create" /\ creq[q].kind = "create" => creq[p].id # creq[q].id

\* A participation goes with its user.
Live == \A c \in Conversations : Exists(c) => conversations[c].participants \subseteq users

\* The entity a request has read names its user, and the participants of the
\* row as long as they exist.
Members ==
  \A q \in Requests : Holds(q) =>
    /\ entity[q] \in ConversationRows
    /\ conversations[creq[q].id] # NoRow
    /\ creq[q].user \in entity[q].participants
    /\ Exists(creq[q].id) =>
         \A u \in users : u \in entity[q].participants <=> u \in conversations[creq[q].id].participants

\* Two entities of one conversation name the same users of those that exist:
\* either can be inserted again.
Agree ==
  \A p, q \in Requests : Holds(p) /\ Holds(q) /\ creq[p].id = creq[q].id =>
    \A u \in users : u \in entity[p].participants <=> u \in entity[q].participants

\* A message is the one its request asked for.
Sources ==
  \A m \in messages :
    /\ cpc[m.by] \in {"touch", "done", "rejected"}
    /\ creq[m.by].kind = "send"
    /\ creq[m.by].id = m.conversation /\ creq[m.by].user = m.sender

\* Between the two saves and after them the message is there, or a reason.
Kept ==
  \A q \in Requests : cpc[q] \in {"touch", "done"} /\ creq[q].kind = "send" =>
    \/ \E m \in messages : m.by = q
    \/ creq[q].user \notin users
    \/ creq[q].id \in deleted

\* No deletion is forgotten; one that met a request between its saves is
\* overtaken.
Between ==
  /\ \A c \in deleted : conversations[c] # NoRow
  /\ \A q \in Requests : cpc[q] = "touch" => Exists(creq[q].id) \/ creq[q].id \in overtaken

CInv ==
  /\ CTyped /\ Asked /\ Unborn /\ Live /\ Members /\ Agree
  /\ SenderParticipates /\ Sources /\ Kept /\ Between

-----------------------------------------------------------------------------
\* A request moves on without a write.
LEMMA QuietStep ==
  ASSUME CInv, NEW q \in Requests, CTyped',
         UNCHANGED <<users, conversations, messages, deleted, overtaken>>,
         cpc[q] \notin {"done", "rejected"}, cpc'[q] \notin {"new", "touch", "done"},
         cpc[q] = "touch" => cpc'[q] = "rejected" /\ creq'[q] = creq[q],
         \A p \in Requests \ {q} : cpc'[p] = cpc[p] /\ creq'[p] = creq[p] /\ entity'[p] = entity[p]
  PROVE  (Live /\ SenderParticipates /\ Sources /\ Kept /\ Between)'
<1>. USE DEF CInv, Exists
<1>1. Live' /\ SenderParticipates'
  BY DEF Live, SenderParticipates
<1>2. Sources'
  BY DEF Sources, CTyped, CTypeOK
<1>3. Kept'
  BY DEF Kept
<1>4. Between'
  BY DEF Between
<1>. QED
  BY <1>1, <1>2, <1>3, <1>4

\* Receiving a request, and the awaits of createConversation.
LEMMA ReceiveCreateStep ==
  ASSUME CInv, NEW q \in Requests, NEW user \in Users, NEW recipient \in Users \cup {Nobody},
         NEW c \in Conversations,
         ReceiveCreate(q, user, recipient, c)
  PROVE  CInv'
<1>. USE DEF CInv, CTyped, ReceiveCreate, Goto, Reject
<1>1. CTyped'
  BY DEF ChatRequests, Stages, CTypeOK
<1>2. Asked'
  BY <1>1 DEF Asked, Founds, CTypeOK, ChatRequests
<1>3. Unborn'
  BY <1>1 DEF Unborn, Founds, CTypeOK, ChatRequests, Asked
<1>4. Members'
  BY <1>1 DEF Members, Holds, CTypeOK, Exists
<1>5. Agree'
  BY <1>1 DEF Agree, Holds, CTypeOK
<1>6. (Live /\ SenderParticipates /\ Sources /\ Kept /\ Between)'
  BY <1>1, QuietStep DEF CTypeOK, Asked, Founds
<1>. QED
  BY <1>1, <1>2, <1>3, <1>4, <1>5, <1>6

LEMMA FindAdminStep ==
  ASSUME CInv, NEW q \in Requests, FindAdmin(q)
  PROVE  CInv'
<1>. USE DEF CInv, CTyped, FindAdmin, Goto, Reject
<1>1. CTyped'
  BY DEF ChatRequests, Stages, CTypeOK
<1>2. Asked'
  BY <1>1 DEF Asked, Founds, CTypeOK, ChatRequests
<1>3. Unborn'
  BY <1>1 DEF Unborn, Founds, CTypeOK, ChatRequests, Asked
<1>4. Members'
  BY <1>1 DEF Members, Holds, CTypeOK, Exists
<1>5. Agree'
  BY <1>1 DEF Agree, Holds, CTypeOK
<1>6. (Live /\ SenderParticipates /\ Sources /\ Kept /\ Between)'
  BY <1>1, QuietStep DEF CTypeOK, Asked, Founds
<1>. QED
  BY <1>1, <1>2, <1>3, <1>4, <1>5, <1>6

LEMMA FindParticipantsStep ==
  ASSUME CInv, NEW q \in Requests, FindParticipants(q)
  PROVE  CInv'
<1>. USE DEF CInv, CTyped, FindParticipants, Goto, Reject
<1>1. CTyped'
  BY DEF ChatRequests, Stages, CTypeOK
<1>2. Asked'
  BY <1>1 DEF Asked, Founds, CTypeOK, ChatRequests, Pair
<1>3. Unborn'
  BY <1>1 DEF Unborn, Founds, CTypeOK, ChatRequests, Asked
<1>4. Members'
  BY <1>1 DEF Members, Holds, CTypeOK, Exists
<1>5. Agree'
  BY <1>1 DEF Agree, Holds, CTypeOK
<1>6. (Live /\ SenderParticipates /\ Sources /\ Kept /\ Between)'
  BY <1>1, QuietStep DEF CTypeOK, Asked, Founds
<1>. QED
  BY <1>1, <1>2, <1>3, <1>4, <1>5, <1>6

\* The awaits before the first write of saveMessage and deleteConversation.
LEMMA ReceiveForStep ==
  ASSUME CInv, NEW q \in Requests, NEW kind \in {"send", "delete"}, NEW user \in Users,
         NEW c \in Conversations,
         ReceiveFor(q, kind, user, c)
  PROVE  CInv'
<1>. USE DEF CInv, CTyped, ReceiveFor, Goto, Reject
<1>1. CTyped'
  BY DEF ChatRequests, Stages, CTypeOK
<1>2. Asked'
  BY <1>1 DEF Asked, Founds, CTypeOK, ChatRequests
<1>3. Unborn'
  BY <1>1 DEF Unborn, Founds, CTypeOK, ChatRequests, Asked
<1>4. Members'
  BY <1>1 DEF Members, Holds, CTypeOK, Exists
<1>5. Agree'
  BY <1>1 DEF Agree, Holds, CTypeOK
<1>6. (Live /\ SenderParticipates /\ Sources /\ Kept /\ Between)'
  BY <1>1, QuietStep DEF CTypeOK, Asked, Founds
<1>. QED
  BY <1>1, <1>2, <1>3, <1>4, <1>5, <1>6

LEMMA GetConversationByIdStep ==
  ASSUME CInv, NEW q \in Requests, GetConversationById(q)
  PROVE  CInv'
<1>. USE DEF CInv, CTyped, GetConversationById, Goto, Reject
<1>1. CTyped'
  <2>1. Exists(creq[q].id) => conversations[creq[q].id] \in ConversationRows
    BY DEF Exists, NoRow, Gone, CTypeOK, ConversationRows, Asked, ChatRequests
  <2>. QED
    BY <2>1 DEF CTypeOK, Stages
<1>2. Asked'
  BY <1>1 DEF Asked, Founds, CTypeOK, ChatRequests
<1>3. Unborn'
  BY <1>1 DEF Unborn, Founds, CTypeOK, ChatRequests, Asked
<1>4. Members'
  BY <1>1 DEF Members, Holds, CTypeOK, Exists, NoRow, ConversationRows, Asked, ChatRequests, Gone
<1>5. Agree'
  BY <1>1 DEF Agree, Members, Holds, CTypeOK, Exists, Asked, ChatRequests, NoRow, Gone, ConversationRows
<1>6. (Live /\ SenderParticipates /\ Sources /\ Kept /\ Between)'
  BY <1>1, QuietStep DEF CTypeOK, Asked, Founds
<1>. QED
  BY <1>1, <1>2, <1>3, <1>4, <1>5, <1>6

LEMMA FindSenderStep ==
  ASSUME CInv, NEW q \in Requests, FindSender(q)
  PROVE  CInv'
<1>. USE DEF CInv, CTyped, FindSender, Goto, Reject
<1>1. CTyped'
  BY DEF ChatRequests, Stages, CTypeOK
<1>2. Asked'
  BY <1>1 DEF Asked, Founds, CTypeOK, ChatRequests
<1>3. Unborn'
  BY <1>1 DEF Unborn, Founds, CTypeOK, ChatRequests, Asked
<1>4. Members'
  BY <1>1 DEF Members, Holds, CTypeOK, Exists
<1>5. Agree'
  BY <1>1 DEF Agree, Holds, CTypeOK
<1>6. (Live /\ SenderParticipates /\ Sources /\ Kept /\ Between)'
  BY <1>1, QuietStep DEF CTypeOK, Asked, Founds
<1>. QED
  BY <1>1, <1>2, <1>3, <1>4, <1>5, <1>6

\* Wherever the call rejects, what was written before stays.
LEMMA CallRejectedStep ==
  ASSUME CInv, NEW q \in Requests, CallRejected(q)
  PROVE  CInv'
<1>. USE DEF CInv, CTyped, CallRejected, Goto, Reject
<1>1. CTyped'
  BY DEF ChatRequests, Stages, CTypeOK
<1>2. Asked'
  BY <1>1 DEF Asked, Founds, CTypeOK, ChatRequests
<1>3. Unborn'
  BY <1>1 DEF Unborn, Founds, CTypeOK, ChatRequests, Asked
<1>4. Members'
  BY <1>1 DEF Members, Holds, CTypeOK, Exists
<1>5. Agree'
  BY <1>1 DEF Agree, Holds, CTypeOK
<1>6. (Live /\ SenderParticipates /\ Sources /\ Kept /\ Between)'
  BY <1>1, QuietStep DEF CTypeOK, Asked, Founds
<1>. QED
  BY <1>1, <1>2, <1>3, <1>4, <1>5, <1>6

-----------------------------------------------------------------------------
\* The writes.  The new row is the only one with its id.
LEMMA SaveConversationStep ==
  ASSUME CInv, NEW q \in Requests, SaveConversation(q)
  PROVE  CInv'
<1>. USE DEF CInv, CTyped, SaveConversation, Goto, Reject
<1>1. CASE ~(Pair(q) \subseteq users)
  <2>1. CTyped'
    BY <1>1 DEF CTypeOK, Stages
  <2>2. (Asked /\ Unborn /\ Members /\ Agree)'
    BY <1>1 DEF Asked, Unborn, Members, Agree, Founds, Holds, Exists, CTypeOK
  <2>. QED
    BY <1>1, <2>1, <2>2, QuietStep DEF CTypeOK
<1>2. CASE Pair(q) \subseteq users
  <2>1. PICK r \in ConversationRows :
          /\ r.participants = Pair(q)
          /\ conversations' = [conversations EXCEPT ![creq[q].id] = r]
    BY <1>2 DEF Row, ConversationRows, CTypeOK
  <2>2. /\ creq[q].id \in Conversations /\ conversations[creq[q].id] = NoRow
        /\ creq[q].kind = "create" /\ creq[q].id \notin deleted
        /\ r.state = "exists"
    BY DEF Asked, Unborn, Between, Founds, ChatRequests, ConversationRows
  <2>. HIDE DEF SaveConversation
  <2>3. /\ cpc' = [cpc EXCEPT ![q] = "done"] /\ now' = now + 1 /\ cpc[q] = "create"
        /\ UNCHANGED <<creq, entity, users, messages, cfaults, deleted, overtaken>>
    BY <1>2 DEF SaveConversation
  <2>4. CTyped'
    BY <2>1, <2>2, <2>3 DEF CTypeOK, ConversationRows, Stages
  <2>5. Asked' /\ Unborn'
    BY <2>1, <2>2, <2>3 DEF Asked, Unborn, Founds, CTypeOK
  <2>6. Live'
    BY <1>2, <2>1, <2>2, <2>3 DEF Live, Exists, CTypeOK
  <2>7. Members' /\ Agree'
    BY <2>1, <2>2, <2>3 DEF Members, Agree, Holds, Exists, CTypeOK, NoRow, ConversationRows
  <2>8. SenderParticipates'
    BY <2>1, <2>2, <2>3 DEF SenderParticipates, Exists, CTypeOK, NoRow
  <2>9. Sources' /\ Kept'
    BY <2>2, <2>3 DEF Sources, Kept, CTypeOK
  <2>10. Between'
    BY <2>1, <2>2, <2>3 DEF Between, Exists, CTypeOK, NoRow
  <2>. QED
    BY <2>4, <2>5, <2>6, <2>7, <2>8, <2>9, <2>10
<1>. QED
  BY <1>1, <1>2

\* The sender still exists, so the row names him as the entity did.
LEMMA InsertMessageStep ==
  ASSUME CInv, NEW q \in Requests, InsertMessage(q)
  PROVE  CInv'
<1>. USE DEF CInv, CTyped, InsertMessage, Goto, Reject
<1>1. CASE ~(Exists(creq[q].id) /\ creq[q].user \in users)
  <2>1. CTyped'
    BY <1>1 DEF CTypeOK, Stages
  <2>2. (Asked /\ Unborn /\ Members /\ Agree)'
    BY <1>1 DEF Asked, Unborn, Members, Agree, Founds, Holds, Exists, CTypeOK
  <2>. QED
    BY <1>1, <2>1, <2>2, QuietStep DEF CTypeOK
<1>2. CASE Exists(creq[q].id) /\ creq[q].user \in users
  <2>1. creq[q].kind = "send" /\ creq[q].id \in Conversations /\ creq[q].user \in Users
    BY DEF Asked, ChatRequests
  <2>2. Message(q) \in messages' /\ Message(q).by = q
    BY <1>2 DEF Message
  <2>3. CTyped'
    BY <1>2, <2>1 DEF CTypeOK, Stages, Message
  <2>4. Asked' /\ Unborn' /\ Live'
    BY <1>2, <2>1 DEF Asked, Unborn, Live, Founds, Exists, CTypeOK
  <2>5. Members' /\ Agree'
    BY <1>2 DEF Members, Agree, Holds, Exists, CTypeOK
  <2>6. SenderParticipates'
    BY <1>2, <2>1 DEF SenderParticipates, Members, Holds, Exists, Message
  <2>7. Sources'
    BY <1>2, <2>1 DEF Sources, Message, CTypeOK
  <2>8. Kept'
    BY <1>2, <2>2 DEF Kept, CTypeOK
  <2>9. Between'
    BY <1>2 DEF Between, Exists, CTypeOK
  <2>. QED
    BY <2>3, <2>4, <2>5, <2>6, <2>7, <2>8, <2>9
<1>. QED
  BY <1>1, <1>2

\* A row that is gone comes back with the participants every entity names.
LEMMA SaveTouchedStep ==
  ASSUME CInv, NEW q \in Requests, SaveTouched(q)
  PROVE  CInv'
<1>. USE DEF CInv, CTyped, SaveTouched, Goto, Reject
<1>1. CASE ~(entity[q].participants \subseteq users)
  <2>1. CTyped'
    BY <1>1 DEF CTypeOK, Stages
  <2>2. (Asked /\ Unborn /\ Members /\ Agree)'
    BY <1>1 DEF Asked, Unborn, Members, Agree, Founds, Holds, Exists, CTypeOK
  <2>. QED
    BY <1>1, <2>1, <2>2, QuietStep DEF CTypeOK
<1>2. CASE entity[q].participants \subseteq users
  <2>1. PICK r : /\ r = IF Exists(creq[q].id) THEN conversations[creq[q].id] ELSE entity[q]
                 /\ conversations' = [conversations EXCEPT ![creq[q].id] = r]
    BY <1>2
  <2>2. /\ creq[q].id \in Conversations /\ creq[q].kind = "send"
        /\ entity[q] \in ConversationRows /\ conversations[creq[q].id] # NoRow
    BY DEF Asked, ChatRequests, Members, Holds
  <2>3. r \in ConversationRows
    BY <2>1, <2>2 DEF CTypeOK, Exists, NoRow, Gone, ConversationRows
  <2>4. r.state = "exists"
    BY <2>3 DEF ConversationRows
  <2>5. CTyped'
    BY <1>2, <2>1, <2>2, <2>3 DEF CTypeOK, ConversationRows, Stages
  <2>6. Asked' /\ Unborn'
    BY <1>2, <2>1, <2>2 DEF Asked, Unborn, Founds, CTypeOK
  <2>7. Live'
    BY <1>2, <2>1, <2>2 DEF Live, Exists, CTypeOK
  <2>8. Members'
    BY <1>2, <2>1, <2>2, <2>4 DEF Members, Agree, Holds, Exists, CTypeOK, NoRow
  <2>9. Agree'
    BY <1>2 DEF Agree, Holds, CTypeOK
  <2>10. SenderParticipates'
    BY <1>2, <2>1, <2>2, <2>4 DEF SenderParticipates, Exists, CTypeOK
  <2>11. Sources' /\ Kept'
    BY <1>2, <2>2 DEF Sources, Kept, CTypeOK
  <2>12. Between'
    BY <1>2, <2>1, <2>2, <2>4 DEF Between, Exists, CTypeOK, NoRow
  <2>. QED
    BY <2>5, <2>6, <2>7, <2>8, <2>9, <2>10, <2>11, <2>12
<1>. QED
  BY <1>1, <1>2

\* The row goes with its messages; who is between two saves is overtaken.
LEMMA RemoveConversationStep ==
  ASSUME CInv, NEW q \in Requests, RemoveConversation(q)
  PROVE  CInv'
<1>. USE DEF CInv, CTyped, RemoveConversation, Goto
<1>1. creq[q].id \in Conversations /\ creq[q].kind = "delete" /\ conversations[creq[q].id] # NoRow
  BY DEF Asked, ChatRequests, Members, Holds
<1>2. CTyped'
  BY <1>1 DEF CTypeOK, Stages
<1>3. Asked' /\ Unborn'
  BY <1>1 DEF Asked, Unborn, Founds, CTypeOK
<1>4. Live' /\ SenderParticipates'
  BY <1>1 DEF Live, SenderParticipates, Exists, Gone, CTypeOK
<1>5. Members' /\ Agree'
  BY <1>1 DEF Members, Agree, Holds, Exists, CTypeOK, NoRow, Gone
<1>6. Sources'
  BY <1>1 DEF Sources, CTypeOK
<1>7. Kept'
  BY <1>1 DEF Kept, Sources, CTypeOK
<1>8. Between'
  BY <1>1 DEF Between, Exists, NoRow, Gone, CTypeOK
<1>. QED
  BY <1>2, <1>3, <1>4, <1>5, <1>6, <1>7, <1>8

\* A user goes from every row, with the messages sent.
LEMMA RemoveUserStep ==
  ASSUME CInv, NEW x \in Users, RemoveUser(x)
  PROVE  CInv'
<1>. USE DEF CInv, CTyped, RemoveUser
<1>1. \A c \in Conversations :
        /\ Exists(c) => /\ conversations[c] \in ConversationRows /\ conversations'[c] \in ConversationRows
                        /\ conversations'[c].participants = conversations[c].participants \ {x}
        /\ ~Exists(c) => conversations'[c] = conversations[c]
  BY DEF Exists, CTypeOK, ConversationRows, NoRow, Gone
<1>2. \A c \in Conversations :
        /\ Exists(c)' <=> Exists(c)
        /\ conversations'[c] = NoRow <=> conversations[c] = NoRow
  BY <1>1 DEF Exists, ConversationRows, NoRow
<1>3. CTyped'
  BY <1>1 DEF CTypeOK, ConversationRows
<1>4. Asked' /\ Unborn'
  BY <1>2 DEF Asked, Unborn, Founds, ChatRequests
<1>5. Live' /\ SenderParticipates'
  BY <1>1, <1>2 DEF Live, SenderParticipates, CTypeOK
<1>6. Members' /\ Agree'
  BY <1>1, <1>2 DEF Members, Agree, Holds, Asked, ChatRequests
<1>7. Sources' /\ Kept'
  BY DEF Sources, Kept
<1>8. Between'
  BY <1>2 DEF Between, Asked, ChatRequests, CTypeOK
<1>. QED
  BY <1>3, <1>4, <1>5, <1>6, <1>7, <1>8

-----------------------------------------------------------------------------
\* Each step keeps the invariant.
LEMMA ChatInvariant == CSpec => []CInv
<1>1. CInit => CInv
  BY UsersAssumption, FaultsAssumption
  DEF CInit, CInv, CTyped, CTypeOK, ChatRequests, Stages, Asked, Unborn, Live, Members, Agree,
      SenderParticipates, Sources, Kept, Between, Founds, Holds, Exists, NoRow
<1>2. CInv /\ [CNext]_cvars => CInv'
  <2>. SUFFICES ASSUME CInv, [CNext]_cvars PROVE CInv'
    OBVIOUS
  <2>1. CASE UNCHANGED cvars
    BY <2>1
    DEF cvars, CInv, CTyped, CTypeOK, Asked, Unborn, Live, Members, Agree,
        SenderParticipates, Sources, Kept, Between, Founds, Holds, Exists
  <2>2. ASSUME NEW q \in Requests, Receives(q) PROVE CInv'
    BY <2>2, ReceiveCreateStep, ReceiveForStep DEF Receives
  <2>3. ASSUME NEW q \in Requests, Serve(q) PROVE CInv'
    BY <2>3, FindAdminStep, FindParticipantsStep, SaveConversationStep, GetConversationByIdStep,
       FindSenderStep, InsertMessageStep, SaveTouchedStep, RemoveConversationStep, CallRejectedStep
    DEF Serve
  <2>4. ASSUME NEW u \in Users, RemoveUser(u) PROVE CInv'
    BY <2>4, RemoveUserStep
  <2>. QED
    BY <2>1, <2>2, <2>3, <2>4 DEF CNext
<1>. QED
  BY <1>1, <1>2, PTL DEF CSpec

\* Type correctness of the conversations, for any users, requests and faults.
THEOREM ConversationsTypeCorrect == CSpec => []CTypeOK
<1>1. CInv => CTypeOK
  BY DEF CInv, CTyped
<1>. QED
  BY <1>1, ChatInvariant, PTL

\* The sender of every message participates in its conversation, whatever was
\* removed between the check and the insert.
THEOREM SendersParticipate == CSpec => []SenderParticipates
<1>1. CInv => SenderParticipates
  BY DEF CInv
<1>. QED
  BY <1>1, ChatInvariant, PTL

\* The message of a request answered with success is kept until its sender or
\* its conversation is removed.
THEOREM AnswersAreKept == CSpec => []AnsweredIsKept
<1>1. CInv => AnsweredIsKept
  BY DEF CInv, Kept, AnsweredIsKept
<1>. QED
  BY <1>1, ChatInvariant, PTL

\* Only the second save of a saveMessage that a removal has overtaken brings a
\* conversation back.
THEOREM DeletedStayDeleted == CSpec => DeletedStaysDeleted
<1>1. ASSUME CInv, [CNext]_cvars, NEW c \in Conversations, c \in deleted, Exists(c)', ~Exists(c)
      PROVE  c \in overtaken
  <2>. USE DEF CInv, CTyped
  <2>1. CASE conversations' = conversations
    BY <1>1, <2>1 DEF Exists
  <2>2. ASSUME NEW q \in Requests, SaveConversation(q) PROVE conversations'[c] = conversations[c]
    BY <1>1, <2>2 DEF SaveConversation, CTypeOK, Asked, Unborn, Between, Founds
  <2>3. ASSUME NEW q \in Requests, SaveTouched(q) PROVE c \in overtaken
    BY <1>1, <2>3 DEF SaveTouched, CTypeOK, Exists, Between
  <2>4. ASSUME NEW q \in Requests, RemoveConversation(q) PROVE ~Exists(c)'
    BY <1>1, <2>4 DEF RemoveConversation, CTypeOK, Exists, Gone
  <2>5. ASSUME NEW u \in Users, RemoveUser(u) PROVE ~Exists(c)'
    BY <1>1, <2>5 DEF RemoveUser, Exists
  <2>. QED
    BY <1>1, <2>1, <2>2, <2>3, <2>4, <2>5
    DEF Exists, CNext, Receives, Serve, ReceiveCreate, FindAdmin, FindParticipants, ReceiveFor,
        GetConversationById, FindSender, InsertMessage, CallRejected, cvars
<1>2. CInv /\ [CNext]_cvars =>
        [\A c \in Conversations : c \in deleted /\ Exists(c)' => Exists(c) \/ c \in overtaken]_cvars
  BY <1>1
<1>. QED
  BY <1>2, ChatInvariant, PTL DEF CSpec, DeletedStaysDeleted
=============================================================================
