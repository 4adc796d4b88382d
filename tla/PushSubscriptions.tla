-------------------------- MODULE PushSubscriptions --------------------------
(***************************************************************************)
(* push-notifications.service.ts.                                          *)
(*                                                                         *)
(* A browser subscribes with its endpoint, for the user logged in there.   *)
(* The row of the endpoint is looked for, and then given to the user or    *)
(* inserted; nothing makes endpoints unique.  A push to an endpoint the    *)
(* push service has dropped (410) deletes its rows.                        *)
(***************************************************************************)
EXTENDS OwnedRows

CONSTANT Endpoints

VARIABLES
  subscriptions, \* subscriptions[q]: the row that request q has inserted
  lapsed,        \* endpoints the push service does not know any more

  \* history
  holder,        \* holder[e]: the user last subscribed with success
  overlapped     \* endpoints with two subscriptions under way at some time

pvars == <<subscriptions, lapsed, holder, overlapped>>
phistory == <<holder, overlapped>>

PInit ==
  /\ subscriptions = [q \in Requests |-> NoRow]
  /\ lapsed = {}
  /\ holder = [e \in Endpoints |-> None]
  /\ overlapped = {}

Subscription(endpoint, user) == [state |-> "exists", endpoint |-> endpoint, user |-> user]
Subscribed(e) ==
  {s \in Requests : subscriptions[s].state = "exists" /\ subscriptions[s].endpoint = e}

Subscribes(q, e) == Asks(q, "create", "push") /\ Target(q) = e
Subscribing(e) == {q \in Requests : Subscribes(q, e)}

-----------------------------------------------------------------------------
(* addSubscription                                                          *)

\* A browser may send its endpoint at any time, the lapsed one it still has, too.
ReceiveSubscribe(q) ==
  \E e \in Endpoints, u \in Users :
    /\ Receive(q, Ask("create", "push", u, e, {}), "endpoint")
    /\ overlapped' = IF Subscribing(e) = {} THEN overlapped ELSE overlapped \cup {e}
    /\ UNCHANGED <<copy, subscriptions, lapsed, holder>>

\* Mutant of FindEndpoint: the user's own subscriptions are looked through.
FindEndpointOfUser(q) ==
  /\ at[q] = "endpoint"
  /\ \/ \E s \in Subscribed(Target(q)) :
          /\ subscriptions[s].user = asks[q].user
          /\ Answer(q, "done")
          /\ holder' = [holder EXCEPT ![Target(q)] = asks[q].user]
     \/ /\ \A s \in Subscribed(Target(q)) : subscriptions[s].user # asks[q].user
        /\ Goto(q, "subscribe")
        /\ UNCHANGED <<asks, copy, holder>>
  /\ Stays /\ UNCHANGED <<subscriptions, lapsed, overlapped>>

\* Any row of the endpoint, whoever's it is.
FindEndpoint(q) ==
  /\ at[q] = "endpoint"
  /\ \/ \E s \in Subscribed(Target(q)) :
          IF subscriptions[s].user = asks[q].user
          THEN Answer(q, "done") /\ holder' = [holder EXCEPT ![Target(q)] = asks[q].user]
          ELSE /\ Goto(q, "reassign")
               /\ copy' = [copy EXCEPT ![q] = [row |-> s]]
               /\ UNCHANGED <<asks, holder>>
     \/ /\ Subscribed(Target(q)) = {}
        /\ Goto(q, "subscribe")
        /\ UNCHANGED <<asks, copy, holder>>
  /\ Stays /\ UNCHANGED <<subscriptions, lapsed, overlapped>>

\* The found row, with the new user, or a row of its own: save.
SaveSubscription(q) ==
  /\ at[q] \in {"reassign", "subscribe"}
  /\ LET s == IF at[q] = "reassign" THEN copy[q].row ELSE q
         u == asks[q].user
     IN  IF u \in users
         THEN /\ subscriptions' = [subscriptions EXCEPT ![s] = Subscription(Target(q), u)]
              /\ holder' = [holder EXCEPT ![Target(q)] = u]
              /\ Answer(q, "done")
         ELSE Answer(q, "rejected") /\ UNCHANGED <<subscriptions, holder>>
  /\ Stays /\ UNCHANGED <<lapsed, overlapped>>

-----------------------------------------------------------------------------
(* sendNotificationToUser                                                   *)

\* The push service gives up an endpoint, for good: the browser has unsubscribed.
Lapse(e) ==
  /\ e \notin lapsed
  /\ lapsed' = lapsed \cup {e}
  /\ UNCHANGED <<ovars, subscriptions, phistory>>

SendToUser(q) ==
  /\ \E u \in Users : Receive(q, Ask("send", "push", u, None, {}), "subscriptions")
  /\ UNCHANGED <<copy, pvars>>

FindSubscriptions(q) ==
  /\ at[q] = "subscriptions"
  /\ copy' = [copy EXCEPT ![q] = [sends |->
       [s \in {r \in Requests : subscriptions[r].state = "exists"
                                 /\ subscriptions[r].user = asks[q].user}
          |-> [endpoint |-> subscriptions[s].endpoint, gone |-> FALSE]]]]
  /\ Goto(q, "push")
  /\ Stays /\ UNCHANGED <<asks, pvars>>

\* The push to subscription s is under way, or has come back with 410.
Sending(q, s) == at[q] = "push" /\ s \in DOMAIN copy[q].sends

FoundGone(q, s) == Sending(q, s) /\ copy[q].sends[s].gone

HasSent(q, s) == copy' = [copy EXCEPT ![q].sends = [r \in DOMAIN @ \ {s} |-> @[r]]]

\* Mutant of SendPush: whatever the error, the subscription is removed, as the
\* warning of sendNotificationToUser has it.
SendPushAnyError(q, s) ==
  /\ Sending(q, s) /\ ~FoundGone(q, s)
  /\ HasSent(q, s) \/ copy' = [copy EXCEPT ![q].sends[s].gone = TRUE]
  /\ Stays /\ UNCHANGED <<asks, at, pvars>>

\* One of the concurrent sendPush: accepted or failed, or gone with a 410.
SendPush(q, s) ==
  /\ Sending(q, s) /\ ~FoundGone(q, s)
  /\ \/ HasSent(q, s)
     \/ /\ copy[q].sends[s].endpoint \in lapsed
        /\ copy' = [copy EXCEPT ![q].sends[s].gone = TRUE]
  /\ Stays /\ UNCHANGED <<asks, at, pvars>>

\* 410: delete({ endpoint })
DeleteEndpoint(q, s) ==
  /\ FoundGone(q, s)
  /\ subscriptions' = [r \in Requests |->
       IF r \in Subscribed(copy[q].sends[s].endpoint) THEN Gone ELSE subscriptions[r]]
  /\ HasSent(q, s)
  /\ Stays /\ UNCHANGED <<asks, at, lapsed, holder, overlapped>>

\* The delete rejects: Promise.all answers now, the other sends go on.
DeleteRejected(q, s) ==
  /\ FoundGone(q, s)
  /\ faults < MaxFaults /\ faults' = faults + 1
  /\ HasSent(q, s)
  /\ UNCHANGED <<users, rows, asks, at, landed, stale, raced, pvars>>

AllSent(q) ==
  /\ at[q] = "push" /\ DOMAIN copy[q].sends = {}
  /\ Answer(q, "done")
  /\ Stays /\ UNCHANGED pvars

SubscriptionStep(q) ==
  \/ ReceiveSubscribe(q) \/ FindEndpoint(q) \/ SaveSubscription(q)
  \/ SendToUser(q) \/ FindSubscriptions(q) \/ AllSent(q)
  \/ \E s \in Requests : SendPush(q, s) \/ DeleteEndpoint(q, s) \/ DeleteRejected(q, s)

\* ON DELETE CASCADE
DropSubscriptionsOf(gone) ==
  /\ subscriptions' = [r \in Requests |->
       IF subscriptions[r].state = "exists" /\ subscriptions[r].user \in gone
       THEN Gone ELSE subscriptions[r]]
  /\ UNCHANGED <<lapsed, phistory>>

-----------------------------------------------------------------------------
\* An endpoint has one row at most, and it is of the user who subscribed it
\* last, so that nobody gets the notifications of the user before; unless two
\* subscriptions of the endpoint were under way at the same time.
EndpointHasHolder ==
  \A e \in Endpoints \ overlapped : \A s, r \in Subscribed(e) :
    s = r /\ subscriptions[s].user = holder[e]

\* As long as the push service knows an endpoint, the user who subscribed it last
\* is reached there, if the user still exists: no removal of another user, no
\* hand-over between users, no push that failed and no push sent from a list of
\* subscriptions read long before takes that row away (lines 30-65).
SubscribersAreReached ==
  \A e \in Endpoints \ lapsed :
    holder[e] \in users => \E s \in Subscribed(e) : subscriptions[s].user = holder[e]
=============================================================================
