----------------------------- MODULE ChatSessions -----------------------------
(***************************************************************************)
(* The sockets of chat.gateway.ts and the registry of chat.wss.service.ts. *)
(*                                                                         *)
(* A socket is accepted first and authenticated afterwards: its token is   *)
(* verified, its user read twice, an older connection of the user is       *)
(* disconnected, and the socket registered.  It may disconnect before that *)
(* is over.  Disconnecting a socket runs handleDisconnect at once, and     *)
(* does nothing on a socket that is not connected.                         *)
(***************************************************************************)
EXTENDS OwnedRows, Sequences, SequencesExt

VARIABLES
  open,     \* sockets that are connected
  registry, \* connectedClients, in the order of insertion
  ghosts    \* history: sockets disconnected while they were authenticated

svars == <<open, registry, ghosts>>

SInit == open = {} /\ registry = <<>> /\ ghosts = {}

\* The places of user u's entries in connectedClients.
Entries(u) == {k \in DOMAIN registry : asks[registry[k]].user = u}

\* connectedClients without the socket in S, which holds one or none.
Without(S) ==
  IF \E k \in DOMAIN registry : registry[k] \in S
  THEN RemoveAt(registry, CHOOSE k \in DOMAIN registry : registry[k] \in S)
  ELSE registry

\* handleConnection with a token; a socket without one is gone at once.
HandleConnection(q) ==
  /\ \E u \in Users : Receive(q, Ask("connect", "chat", u, None, {}), "verify")
  /\ open' = open \cup {q}
  /\ UNCHANGED <<copy, registry, ghosts>>

\* Authentication fails, and client.disconnect() is called.
TurnAway(q) ==
  /\ Answer(q, "rejected")
  /\ open' = open \ {q}
  /\ registry' = Without({q})
  /\ UNCHANGED ghosts

\* verifyToken: the token is good or is not, and its user is there or is not.
VerifyToken(q) ==
  /\ at[q] = "verify"
  /\ \/ asks[q].user \in users
          /\ Goto(q, "register") /\ UNCHANGED <<asks, copy, open, registry, ghosts>>
     \/ TurnAway(q)
  /\ Stays

\* Mutant of CheckConnection: nobody is disconnected.
CheckNothing(u) == {}

\* checkConnection: the socket of the first entry of the user, if it is
\* connected, and its entry, which goes in handleDisconnect.
CheckConnection(u) ==
  IF Entries(u) = {} THEN {} ELSE {registry[Min(Entries(u))]} \cap open

\* registerClient, once the user is found for the second time.
RegisterClient(q) ==
  /\ at[q] = "register"
  /\ IF asks[q].user \in users
     THEN LET old == CheckConnection(asks[q].user) IN
            /\ open' = open \ old
            /\ registry' = Append(Without(old), q)
            /\ Goto(q, "connected")
            /\ UNCHANGED <<asks, copy, ghosts>>
     ELSE TurnAway(q)
  /\ Stays

\* A query of the two fails.
AuthenticationRejected(q) ==
  /\ at[q] \in {"verify", "register"}
  /\ faults < MaxFaults /\ faults' = faults + 1
  /\ TurnAway(q)
  /\ UNCHANGED <<users, rows, landed, stale, raced>>

\* Mutant of HandleDisconnect: the client is not removed.
HandleDisconnectKeeping(q) ==
  /\ q \in open
  /\ open' = open \ {q}
  /\ ghosts' = IF at[q] \in {"verify", "register"} THEN ghosts \cup {q} ELSE ghosts
  /\ Stays /\ UNCHANGED <<asks, at, copy, registry>>

\* The client goes, and whatever authenticates it goes on.
HandleDisconnect(q) ==
  /\ q \in open
  /\ open' = open \ {q}
  /\ registry' = Without({q})
  /\ IF at[q] = "connected"
     THEN Answer(q, "done") /\ UNCHANGED ghosts
     ELSE ghosts' = ghosts \cup {q} /\ UNCHANGED <<asks, at, copy>>
  /\ Stays

SocketStep(q) ==
  \/ HandleConnection(q) \/ VerifyToken(q) \/ RegisterClient(q)
  \/ AuthenticationRejected(q) \/ HandleDisconnect(q)

-----------------------------------------------------------------------------
Registered == {registry[k] : k \in DOMAIN registry}

\* The registry holds connected sockets; but one that was disconnected while
\* it was authenticated is registered all the same, and stays so for good.
RegistryIsLive == Registered \ open \subseteq ghosts

\* A user has one registered connection: the newest takes over.  Where a ghost
\* is registered it is the one that is found and disconnected, to no effect,
\* and the others stay.
OneConnection ==
  \A s, r \in Registered \cap open :
    asks[s].user = asks[r].user /\ s # r =>
      \E g \in Registered \ open : asks[g].user = asks[s].user
=============================================================================
