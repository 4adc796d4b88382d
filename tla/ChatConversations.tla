------------------------- MODULE ChatConversations -------------------------
(***************************************************************************)
(* One-to-one conversations and their messages: chat.service.ts.           *)
(*                                                                         *)
(* The routes of chat.controller.ts and the socket event message:send end  *)
(* in the same methods; the gateway does not wait for saveMessage.  Every  *)
(* await is a step, no transaction spans two of them, and a user can be    *)
(* removed at any time.  Repository.save compares the entity with the row  *)
(* it finds: it inserts an entity whose row is gone, and writes nothing,   *)
(* updatedAt included, when no column differs.                             *)
(***************************************************************************)
EXTENDS Naturals, FiniteSets

CONSTANTS
  Users,         \* ids of users
  Admins,        \* those with the role admin
  Conversations, \* uuids of conversations
  Requests,      \* requests and socket events
  Nobody,        \* in place of a recipient: none was given
  MaxFaults      \* bound: database calls that reject

ASSUME UsersAssumption  == Admins \subseteq Users /\ Nobody \notin Users /\ IsFiniteSet(Users)
ASSUME FaultsAssumption == MaxFaults \in Nat

VARIABLES
  users,         \* the users that exist
  conversations, \* conversations[c]: its row and participants
  messages,      \* the table messages
  now,           \* the time of the last commit
  creq,          \* creq[q]: what request q asks for
  cpc,           \* cpc[q]: the await it is in
  entity,        \* entity[q]: the conversation it has read
  cfaults,
  deleted,       \* conversations that were deleted (history)
  overtaken      \* those deleted between two writes of a saveMessage (history)

cvars == <<users, conversations, messages, now, creq, cpc, entity, cfaults, deleted, overtaken>>

NoRow  == [state |-> "none"]
Gone   == [state |-> "deleted"]
Row(participants, time) == [state |-> "exists", participants |-> participants, updatedAt |-> time]
Exists(c) == conversations[c].state = "exists"

CInit ==
  /\ users = Users
  /\ conversations = [c \in Conversations |-> NoRow]
  /\ messages = {}
  /\ now = 0
  /\ creq = [q \in Requests |-> [kind |-> "none"]]
  /\ cpc = [q \in Requests |-> "new"]
  /\ entity = [q \in Requests |-> NoRow]
  /\ cfaults = 0
  /\ deleted = {}
  /\ overtaken = {}

Goto(q, stage) == cpc' = [cpc EXCEPT ![q] = stage]
Reject(q) == Goto(q, "rejected") /\ UNCHANGED <<creq, entity>>

-----------------------------------------------------------------------------
(* createConversation.                                                      *)

\* The uuid is the database's; it is drawn here, as no other row can have it.
ReceiveCreate(q, user, recipient, c) ==
  /\ cpc[q] = "new"
  /\ conversations[c] = NoRow /\ ~\E p \in Requests : creq[p].kind = "create" /\ creq[p].id = c
  /\ creq' = [creq EXCEPT ![q] = [kind |-> "create", id |-> c, user |-> user, recipient |-> recipient]]
  /\ Goto(q, IF recipient = Nobody THEN "admin"
             ELSE IF recipient = user THEN "rejected" ELSE "participants")
  /\ UNCHANGED <<users, conversations, messages, now, entity, cfaults, deleted, overtaken>>

\* Without a recipient the conversation is one with some administrator.
FindAdmin(q) ==
  /\ cpc[q] = "admin"
  /\ \/ \E admin \in Admins \cap users :
          /\ creq' = [creq EXCEPT ![q].recipient = admin]
          /\ Goto(q, IF admin = creq[q].user THEN "rejected" ELSE "participants")
          /\ UNCHANGED entity
     \/ Admins \cap users = {} /\ Reject(q)
  /\ UNCHANGED <<users, conversations, messages, now, cfaults, deleted, overtaken>>

Pair(q) == {creq[q].user, creq[q].recipient}

FindParticipants(q) ==
  /\ cpc[q] = "participants"
  /\ IF Pair(q) \subseteq users
     THEN Goto(q, "create") /\ UNCHANGED <<creq, entity>>
     ELSE Reject(q)
  /\ UNCHANGED <<users, conversations, messages, now, cfaults, deleted, overtaken>>

\* Row and participants in one transaction, which fails on its foreign keys.
SaveConversation(q) ==
  /\ cpc[q] = "create"
  /\ IF Pair(q) \subseteq users
     THEN /\ now' = now + 1
          /\ conversations' = [conversations EXCEPT ![creq[q].id] = Row(Pair(q), now')]
          /\ Goto(q, "done")
          /\ UNCHANGED <<creq, entity>>
     ELSE Reject(q) /\ UNCHANGED <<conversations, now>>
  /\ UNCHANGED <<users, messages, cfaults, deleted, overtaken>>

-----------------------------------------------------------------------------
(* getConversationById, then saveMessage or deleteConversation.             *)

ReceiveFor(q, kind, user, c) ==
  /\ cpc[q] = "new"
  /\ conversations[c] # NoRow
  /\ creq' = [creq EXCEPT ![q] = [kind |-> kind, id |-> c, user |-> user]]
  /\ Goto(q, "conversation")
  /\ UNCHANGED <<users, conversations, messages, now, entity, cfaults, deleted, overtaken>>

\* Mutant of GetConversationById: whoever asks is taken for a participant.
GetConversationByIdUnchecked(q) ==
  /\ cpc[q] = "conversation"
  /\ IF Exists(creq[q].id)
     THEN /\ entity' = [entity EXCEPT ![q] = conversations[creq[q].id]]
          /\ Goto(q, IF creq[q].kind = "send" THEN "sender" ELSE "remove")
          /\ UNCHANGED creq
     ELSE Reject(q)
  /\ UNCHANGED <<users, conversations, messages, now, cfaults, deleted, overtaken>>

GetConversationById(q) ==
  /\ cpc[q] = "conversation"
  /\ IF Exists(creq[q].id) /\ creq[q].user \in conversations[creq[q].id].participants
     THEN /\ entity' = [entity EXCEPT ![q] = conversations[creq[q].id]]
          /\ Goto(q, IF creq[q].kind = "send" THEN "sender" ELSE "remove")
          /\ UNCHANGED creq
     ELSE Reject(q)
  /\ UNCHANGED <<users, conversations, messages, now, cfaults, deleted, overtaken>>

FindSender(q) ==
  /\ cpc[q] = "sender"
  /\ IF creq[q].user \in users THEN Goto(q, "insert") /\ UNCHANGED <<creq, entity>> ELSE Reject(q)
  /\ UNCHANGED <<users, conversations, messages, now, cfaults, deleted, overtaken>>

\* Mutant of Message: create() is not given the sender.
MessageOfNobody(q) ==
  [by |-> q, conversation |-> creq[q].id, sender |-> Nobody, createdAt |-> now + 1]

Message(q) ==
  [by |-> q, conversation |-> creq[q].id, sender |-> creq[q].user, createdAt |-> now + 1]

\* Mutant of InsertMessage: the save is not awaited, its rejection not seen.
InsertMessageNotAwaited(q) ==
  /\ cpc[q] = "insert"
  /\ \/ /\ Exists(creq[q].id) /\ creq[q].user \in users
        /\ messages' = messages \cup {Message(q)}
        /\ now' = now + 1
     \/ UNCHANGED <<messages, now>>
  /\ Goto(q, "touch")
  /\ UNCHANGED <<users, conversations, creq, entity, cfaults, deleted, overtaken>>

\* Mutant of InsertMessage: the save cascades to a conversation that is gone.
InsertMessageCascading(q) ==
  /\ cpc[q] = "insert"
  /\ IF entity[q].participants \subseteq users
     THEN /\ conversations' =
               [conversations EXCEPT ![creq[q].id] = IF Exists(creq[q].id) THEN @ ELSE entity[q]]
          /\ messages' = messages \cup {Message(q)}
          /\ now' = now + 1
          /\ Goto(q, "touch")
          /\ UNCHANGED <<creq, entity>>
     ELSE Reject(q) /\ UNCHANGED <<conversations, messages, now>>
  /\ UNCHANGED <<users, cfaults, deleted, overtaken>>

\* Its foreign keys fail when the conversation or the sender is gone.
InsertMessage(q) ==
  /\ cpc[q] = "insert"
  /\ IF Exists(creq[q].id) /\ creq[q].user \in users
     THEN /\ messages' = messages \cup {Message(q)}
          /\ now' = now + 1
          /\ Goto(q, "touch")
          /\ UNCHANGED <<creq, entity>>
     ELSE Reject(q) /\ UNCHANGED <<messages, now>>
  /\ UNCHANGED <<users, conversations, cfaults, deleted, overtaken>>

\* save(conversation) with the entity as it was read: nothing differs, unless
\* the row is gone, which is inserted again, or a participant is, which fails.
SaveTouched(q) ==
  /\ cpc[q] = "touch"
  /\ IF entity[q].participants \subseteq users
     THEN /\ conversations' =
               [conversations EXCEPT ![creq[q].id] = IF Exists(creq[q].id) THEN @ ELSE entity[q]]
          /\ Goto(q, "done")
          /\ UNCHANGED <<creq, entity>>
     ELSE Reject(q) /\ UNCHANGED conversations
  /\ UNCHANGED <<users, messages, now, cfaults, deleted, overtaken>>

\* ON DELETE CASCADE takes the messages.
RemoveConversation(q) ==
  /\ cpc[q] = "remove"
  /\ conversations' = [conversations EXCEPT ![creq[q].id] = Gone]
  /\ messages' = {m \in messages : m.conversation # creq[q].id}
  /\ deleted' = deleted \cup {creq[q].id}
  /\ overtaken' = overtaken \cup
       {c \in {creq[q].id} : \E p \in Requests : cpc[p] = "touch" /\ creq[p].id = c}
  /\ Goto(q, "done")
  /\ UNCHANGED <<users, now, creq, entity, cfaults>>

\* An await of any request rejects.
CallRejected(q) ==
  /\ cpc[q] \notin {"new", "done", "rejected"}
  /\ cfaults < MaxFaults
  /\ cfaults' = cfaults + 1
  /\ Reject(q)
  /\ UNCHANGED <<users, conversations, messages, now, deleted, overtaken>>

\* UsersService.remove: messages and participations go with the user.
RemoveUser(u) ==
  /\ u \in users
  /\ users' = users \ {u}
  /\ messages' = {m \in messages : m.sender # u}
  /\ conversations' = [c \in Conversations |->
       IF Exists(c) THEN [conversations[c] EXCEPT !.participants = @ \ {u}] ELSE conversations[c]]
  /\ UNCHANGED <<now, creq, cpc, entity, cfaults, deleted, overtaken>>

-----------------------------------------------------------------------------
Receives(q) ==
  \/ \E user \in Users, recipient \in Users \cup {Nobody}, c \in Conversations :
       ReceiveCreate(q, user, recipient, c)
  \/ \E kind \in {"send", "delete"}, user \in Users, c \in Conversations : ReceiveFor(q, kind, user, c)

Serve(q) ==
  \/ FindAdmin(q) \/ FindParticipants(q) \/ SaveConversation(q)
  \/ GetConversationById(q) \/ FindSender(q) \/ InsertMessage(q) \/ SaveTouched(q)
  \/ RemoveConversation(q)
  \/ CallRejected(q)

CNext ==
  \/ \E q \in Requests : Receives(q) \/ Serve(q)
  \/ \E u \in Users : RemoveUser(u)

CSpec == CInit /\ [][CNext]_cvars

-----------------------------------------------------------------------------
(* Properties.                                                              *)

Stages == {"new", "admin", "participants", "create", "conversation", "sender", "insert",
           "touch", "remove", "done", "rejected"}

CTypeOK ==
  /\ users \subseteq Users
  /\ conversations \in [Conversations -> {NoRow, Gone} \cup
       [state : {"exists"}, participants : SUBSET Users, updatedAt : Nat]]
  /\ messages \subseteq
       [by : Requests, conversation : Conversations, sender : Users, createdAt : Nat]
  /\ now \in Nat /\ cfaults \in Nat
  /\ cpc \in [Requests -> Stages]
  /\ deleted \subseteq Conversations /\ overtaken \subseteq deleted

\* A message belongs to a conversation of which its sender is a participant,
\* although the check of getConversationById is two awaits old when it is
\* inserted and users and conversations come and go meanwhile.
SenderParticipates ==
  \A m \in messages :
    Exists(m.conversation) /\ m.sender \in conversations[m.conversation].participants

\* A message whose request was answered with success is kept until its sender
\* or its conversation is removed.
AnsweredIsKept ==
  \A q \in Requests : cpc[q] = "done" /\ creq[q].kind = "send" =>
    \/ \E m \in messages : m.by = q
    \/ creq[q].user \notin users
    \/ creq[q].id \in deleted

\* A deleted conversation does not come back, unless it was deleted between
\* the two writes of a saveMessage (lines 115 and 118).
DeletedStaysDeleted ==
  [][\A c \in Conversations : c \in deleted /\ Exists(c)' => Exists(c) \/ c \in overtaken]_cvars

\* The conversation list is ordered by updatedAt: a conversation is at least as
\* recent as the messages in it (line 117).
TouchedByMessage ==
  \A m \in messages : (cpc[m.by] = "done") =>
    conversations[m.conversation].updatedAt >= m.createdAt

\* createConversation returns the conversation two users already have (line 26).
OnePerPair ==
  \A c, d \in Conversations :
    Exists(c) /\ Exists(d) /\ conversations[c].participants = conversations[d].participants => c = d
=============================================================================
