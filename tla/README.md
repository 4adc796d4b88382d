# flow_backend: TLA+ models

Specifications of the parts of this NestJS server whose correctness depends on
the order in which things happen: the scheduler of workspace actions and the
listener that feeds it, the records service and its queries, the execution of flows,
chat conversations, user accounts, and the services whose rows hang on a user
(flows, notifications, uploads, push subscriptions, the sockets of the chat). TLC checks
each on small instances; TLAPS proves the invariants of the scheduler, the listener, the
records service and its queries, chat, flows and the accounts for all instances, that
the listener uses the scheduler as its specification allows, and that the accounts
implement an abstract specification.

Paths below are relative to `src/src/`. Prefixes: SA
`workspaces/scheduled-actions.service.ts`, AE `workspaces/action-executor.service.ts`,
WL `workspaces/listeners/workspace-records.listener.ts`, WR
`workspaces/workspace-records.service.ts`, WS `workspaces/workspaces.service.ts`,
FX `flow/flow-execution.service.ts`, FS `flow/flow.service.ts`, CS `chat/chat.service.ts`,
CW `chat/chat.wss.service.ts`, CG `chat/gateways/chat.gateway.ts`, NS
`notifications/notifications.service.ts`, PS `push-notifications/push-notifications.service.ts`,
US `users/users.service.ts`, AU `auth/auth.service.ts`.

## 1. The system

One Node process, one PostgreSQL database through TypeORM, one mail provider
(Resend), one object store (S3), OpenAI. JavaScript runs one callback at a
time, so a step of the system is the code between two awaits, and anything else
can run at an await. There is no transaction wider than one repository call and
no lock. What outlives the process is in the tables only.

| component | state it keeps | operations | talks to |
|---|---|---|---|
| scheduled actions (SA) | table `scheduled_actions`; in-memory copies of a running tick | `scheduleAction`, `processScheduledActions` (every 30 s), `updateEventStatus` (WS) | called by the listener; calls the action executor |
| action executor (AE) | none | `executeAction`: mail or notification | users, mail provider, notifications |
| records listener (WL) | the event being handled | one handler for created, updated, deleted | reads workspaces, calls AE, inserts into SA |
| workspaces (WS) | table `workspaces` with the `actions` array, histories | create, update, remove, history, generation by OpenAI | read by WL and WR |
| workspace records (WR) | `workspace_records` (JSONB data), `workspace_record_relations` | create, update, delete, bulkInsert, get, getAll | emits record events to WL through the in-process event emitter |
| flows (FX, `flow/flow.service.ts`) | table `flows`, histories; the variables and log of a running request | webhook execution, CRUD | mail, notifications, outgoing HTTP |
| chat (CS, `chat/gateways`, `chat/chat.wss.service.ts`) | conversations, participants, messages; sockets and rooms in memory | conversations, messages, connect, join, leave, send | users, auth |
| users and auth | table `users` | CRUD, login, password reset | mail |
| notifications | table `notifications`, an in-memory subject streamed over SSE | create, pages, update, mark as read, remove, event stream | called by AE and FX |
| push notifications | table of subscriptions | subscribe, send to the endpoints of a user (no other service calls it), drop an endpoint on 410 | web-push |
| files, audio, S3 | rows beside stored objects | upload a file or an audio, transcribe, deactivate an audio, signed URLs | S3, openai |
| openai | none | prompts | HTTP |
| seed, database, app | none | wiring, seed data | |

The chain that matters most: a request writes a record (WR), then emits an event,
the listener (WL) reads the workspace, selects its active actions for that event,
executes some at once and inserts a row of `scheduled_actions` for the others; a
tick of the scheduler (SA) executes the rows that are due.

### What is hard, and what must hold

*Scheduler.* A tick awaits mails, so the next tick begins while it runs and
finds the same pending rows; the process can die between the effect and the
save that records it; the save can be rejected, and the save of the catch block
too; an operator's PATCH saves the whole row as it read it. Must hold: the
effect of a one-time row leaves at most once apart from the windows the code
cannot close; the ticks that run a recurrent row start a period apart; statuses are not
invented; a due row is processed.

*Listener.* Events live in memory; the workspace is read after the event and may
be edited or gone; one action can fail before the next. Must hold: an event and
an action give one effect, by one of the two routes; each selected action has its
turn; the listener uses the scheduler only as the scheduler allows.

*Records.* Each relation is stored twice, in the data of the record and in the
relations table, without a transaction, and the two are read by different
operations; errors of the second write are swallowed. Must hold: both ways of
reading agree once the request is over; a field has one relation row; events come
in the order of the record's life and tell what the row holds.

*Flows.* A recursive walk without a set of visited nodes, in which action failures
are logged and conditions choose branches. Must hold: the log is the walk
the drawing prescribes; it tells what left the process; variables have the
origin the flow gives them; flows without cycles end.

*Chat.* The participant check is two awaits older than the message it admits;
conversations and users are removed meanwhile; an entity read early is saved late.

*Users.* An update and a password reset read the row, hash, and save all of it;
a reset code is stored, mailed, and looked up by another request. Must hold: a
request changes the columns it brings and no other; a reset changes its own user;
a removed user stays removed.

*Queries.* An answer of getAll is put together from a page, a total, joined rows and the
records that link each of them, while others write. Must hold: with nobody writing
the parts make one answer; whatever is written, a record of the answer has met the
condition at some moment, and the total was true at some moment.

*Rows of a user (notifications, flows, files, audios).* Entities read before an await and
saved after it, removals beside them, of rows and of their user. Must hold: a
request takes effect in one step and changes the columns it brings; a
removed row stays removed; a history whose flow is gone is not removed by accident.

*Notifications.* A page is two queries and moves with each insert; an event is
emitted after its insert, to whoever is listening then. Must hold: a client that
listens first and pages then misses nothing.

*Uploads.* Objects are stored before their rows. Must hold: a row has its object.

*Push.* A look-up, then an insert or a save, without a unique constraint; a 410
deletes by endpoint. Must hold: an endpoint has one row, of the user subscribed last,
and keeps it as long as the push service knows the endpoint.

*Sockets.* Accepted first and authenticated afterwards. Must hold: the registry holds
live sockets, and one per user.

`PROJECT.json` lists each hazard at its line with the properties that cover it. In some
the code does go wrong and no document says otherwise: a stale save, two writers of one
record, a restart between two writes, a socket that left too early. There
the properties name the case as their exception (`raced`, `broken`, `ghosts`, `overlapped`,
`Uncertain`), show that nothing else goes wrong, and the hazard has a note that says so.

## 2. Modules

    ActionExecutor        operators: outcomes of executeAction
      ScheduledActions    the scheduler (extends ActionExecutor)
        ScheduledActions_proofs
        Automation        records listener + workspace edits (extends ScheduledActions)
          Automation_proofs
    WorkspaceRecords      records and relations
      WorkspaceRecords_proofs
      RecordQueries       get, getAll and count (extends WorkspaceRecords)
        RecordReads_proofs  events, both ways of reading a relation, answers
    FlowExecution         the walk of one flow
      FlowExecution_proofs
    ChatConversations     conversations and messages
      ChatConversations_proofs
    AtomicEdits           abstract: each request edits columns of one row in one step
    Accounts              users and the password reset, implements AtomicEdits
      Accounts_proofs
    OwnedRows             tables of rows that hang on a user, and the steps on them
      Flows  Notifications  Uploads  PushSubscriptions  ChatSessions
        UserServices      the five in one process, implements AtomicEdits
          UserServices_proofs

`MC*.tla` give the constants for TLC, one per module that is run.

### Conventions

- One action per stretch of code between two awaits, named after the method.
  A database statement takes effect in the step that follows its await; a call
  of `MaxFaults` (a bound) rejects. In the scheduler and the records service a
  rejected write may or may not have been committed; in chat, accounts and the user
  services a call that rejects wrote nothing.
- `Repository.save(entity)` is "the row becomes the entity": TypeORM
  reads the row, writes the columns that differ, inserts a row that is missing,
  and writes nothing when nothing differs. The read and the write inside save are
  one step.
- A crash empties everything in memory and leaves the tables.
- Names of the code are kept. Strings are classes (empty, with an @, an
  identifier, ...), times are small numbers, ids are model values.
- Definitions commented as "Mutant of X" are X with a mistake. No
  specification uses them: they are what each property is tested against.

### ScheduledActions

State: `rows` is the table (status and executeAt); `phase`, `start`, `stage`,
`copy` are the activations of `processScheduledActions`, their `now`, where each
found row is in the loop, and the in-memory entity; `patch` the entity that a
`updateEventStatus` request holds; `now`, `timerDue` the clock in units of the timer
interval. Actions: `ScheduleAction` (SA 54-85), `IntervalFires`, `FindPending`,
`FindRejected` (SA 90-108), `BeginAction`, `ActionReturns`, `ActionThrows`
(SA 108-155), `SaveOutcome`, `SaveRejected`, `SaveFailedRejected` (the saves
of the try and catch blocks), `UpdateEventStatusRead/Save/Rejected` (WS 327-338), `Crash`.
History variables (read by no action) count effects and name the rows that were
`raced`, which happens in four ways: (1) a tick finds a row another tick holds; (2) a
PATCH writes an older pending state over a newer one; (3) the process dies with the
effect gone and the save not made; (4) the save of the catch block is rejected and
not committed. `AtMostOnce` and `TicksSpaced` say that duplicates have no other
source. What the code does in these four windows is duplicate the effect: no document
of the repository promises otherwise, so it is a recorded hazard and not a finding.

`TicksSpaced` measures the starts of the ticks that run a row, because both `executeAt`
and `lastRun` come from the tick's own `now` (SA 92, 125). The effects may be closer: a
slow tick can execute a row late, just before the next tick that runs it.

Left out: `executedAt`, a display column written with the status, the
paginated listing of events, and the calendar of `calculateNextExecution` (SA 164-173): the
next time is the start of the tick plus an integer, which may be zero or negative
because nothing validates the configuration. `TicksSpaced` and `ScheduleAdvances` are
claims about periods that are not negative.

### Automation

Extends the scheduler: row `<<e, a>>` is what event `e` inserts for action `a`.
`CommitRecord`, `EmitRecordEvent` are the two ends of a record request;
`FindWorkspace`, `StartAction`, `ExecuteNow`, `ScheduleNow`, `ScheduleRejected`
are WL 66-241; `UpdateWorkspaceRead/Save` and `RemoveWorkspace` are the edits of
the workspace row (WS 60-91). `Decision` is the switch on scheduleType,
`FirstExecution` the first time of a recurrent action. The scheduler is the
abstract specification of what the listener may do to the table: `Spec` of
ScheduledActions is checked as a property of `ASpec`, with `Schedule` (any
row not inserted yet, any time of `Times`) implemented by `ScheduleNow`.

### WorkspaceRecords

State: `rows`, `users`, `relations` are tables, `req`, `pc`, `todo`, `seen` the
requests: what they ask, the await they are in, the fields the relation loop
has left, the record as last read. The fields of the collection are numbered in
schema order. `ReceiveCreate`, `ReceiveUpdate`, `ReceiveDelete`
(`handleAction`), `ValidateRecordData`, `InsertRecord`, `BulkInsert`,
`MergeRecord`, `RereadRecord`, then the loop `ReadRelationFields`, `ClearRelations`,
`LookUpTarget`, `LinkTarget` shared by `createRelations` and `updateRelations`,
`FindToDelete`, `DeleteRecord`. `RequestRejected` is an error outside the loop,
`RelationsRejected` one inside it, which the code swallows. Foreign keys and their
ON DELETE rules are part of the actions that meet them. `Included` and `Listed`
are the two ways `getAllRecords` reads a relation.

`raced` holds records that two requests wrote at the same time, `broken` those
whose request ended before its work was done (error in the loop, restart).
The properties except them because there the code does leave the two tables
apart, for good; that is what the hazards at WR 237, 227 and 1020 say.

### FlowExecution

The recursion of `traverseFromNode` is an explicit stack. A frame is one call: the
entry of the log below which it runs, and the places, in the list of the node's
edges, of those it has yet to follow, smallest first (the code filters the list
and keeps its order). `ExecuteWebhook` loads the flow and finds the
trigger; `SkipEdge` is an edge to no executable node; `ExecuteSendEmail`,
`ExecuteSendNotification`, `ExecuteOutgoingWebhook`, `ExecuteProcessData`,
`LogMisconfigured`, `ExecuteConditionalNode` are the nodes; `ReturnFromCall` ends
a frame. `variableMap` is the JavaScript Map, an ordered sequence of entries,
because `setVariable` (FX 437) writes the first key of the Map. `sent` counts
what left the process, and an entry of the log carries, as history, the entry and
the edge it was reached by (`below`, `place`). Of a node's data the model keeps whether it is
there at all, since the DTO lets it be absent: `ReadAbsentData` is the TypeError at FX
201 outside every try, which rejects the request in the middle of its walk, as a missing or
inactive flow, a missing body and a failed look-up reject it at the start
(`ExecuteWebhook`). A condition is its variable and the strings that satisfy it;
a node has a set of conditions and a set of outputs, the order of the latter being left
open. An answer whose body is a JSON null makes the reading of outputs throw after the call
has left (FX 395). `LogsAreAWalk` says with `below`
and `place`, and without a stack, which log a walk must produce: each entry stands for an edge of
the branch taken at an earlier entry, those of one branch in the order of its edges,
nothing between an entry and the one above it but what is below the latter,
and, when the request is answered, no edge of a taken branch left out.

### ChatConversations

`createConversation` (`ReceiveCreate`, `FindAdmin`, `FindParticipants`,
`SaveConversation`), `saveMessage` (`ReceiveFor`, `GetConversationById`,
`FindSender`, `InsertMessage`, `SaveTouched`), `deleteConversation`
(`ReceiveFor`, `GetConversationById`, `RemoveConversation`), and the removal of users.
The HTTP routes and the socket event end in the same methods.

### Accounts

`create` (`ReceiveCreate`, `InsertUser`), `update` (`FindOne`, `SaveUser`),
`remove`, `forgotPassword` (`FindByEmail`, `SetResetToken`, `SendEmail`) and
`resetPassword` (`FindByResetToken`, then `FindOne` and `SaveUser` of update, then
`ClearResetToken`). Of a row the email, the password and the reset code are kept; a
password or a code is known by the request that brought it, so codes are
distinct. In the code they are six random digits (AU 71) in a column that is not unique and
is never cleared, and what happens when two users draw the same ones is left out. `raced`
holds users whose row changed while a request held a copy of it to save: the save then
puts old values back, or inserts a removed user again. `ClearResetToken` changes nothing, because the ORM leaves
undefined properties out of the statement.

### AtomicEdits and the refinements

`AtomicEdits` says what a service that keeps rows is expected to do. A request waits
(`Idle`), comes to an order (insert this row, change these columns of that row, remove
these rows), and either takes effect in one step or is `Refused`; a removed row
stays removed. A change may also make its row `Uncertain`, of which nothing is said
from then on: the code does that when it saves a copy older than the row.

`Accounts!EditsAreAtomic` and `UserServices!RowsEditedAtomically` instantiate it with a
refinement mapping: the table is the rows, `Uncertain` where `raced` holds the
row; the order of a request is what its await and its body say (`OrderOf`), `Applied` once its
write has been carried out (`landed`). `raced` is a history variable that grows only
when the step that saves has a copy that some other write has made `stale`.

### RecordQueries

`ReceiveQuery` takes one of the queries of `Queries` (`handleAction`), `FindRecord` is
`getRecord`, `FindRows`, `CountRows` and `JoinRows` the three queries of `getAllRecords`,
`CountRows` also `getRecordsCount`, `CountIncoming` and `ListIncoming` the turns of
`enrichWithAdditionalFields`; the requests of WorkspaceRecords write in between.
`QueryRejected` is a query that fails (`handleRecordError`), and a numeric or date
operator fails by itself on a value that does not convert (`CastFails`).
TypeORM leaves the count out when the page tells the total; the model always asks.
`enrichWithAdditionalFields` has no turn when there is no record or no incoming field.
Ties of an order, and a search, decide which rows make a page, which
is any choice of the right number. Filters compare the relation fields: `equals`,
`not_equals` and one that converts stand for the twelve operators.

### OwnedRows and the user services

The services of notifications, flows, files and audios (and of workspaces) are written
alike; `OwnedRows` holds their four tables and the steps they share (`InsertRow`,
`FindOwn`, `SaveRow`, `DeleteRow`, `RemoveUser`), each module below its own variables
and operations, and `UserServices` puts them in one process with the removal of
users, which the database cascades to every table, rejected calls and restarts.

- `Flows`: `ReceiveFlow` (the controller), `CreateFlow`, `FindFlow`, `UpdateFlow`,
  `RemoveFlow`; `CreateHistory`, `FindHistory`, `FindFlowOfHistory`, `RemoveHistory`
  (FS 72-114). A history names its flow without a foreign key.
- `Notifications`: `posted` is the order by createdAt, which is the time an insert's
  transaction began, so that a row may be committed behind later ones (rows of the same
  microsecond are left out); a page is the places of it with so many
  `Newer` ones of the same user before them; a client opens its stream
  (`OpenStream`), reads page after page (`FindPage`, `CountRows`) and then listens;
  `CreateNotification` and `Emit` are the two sides of the await of NS 27. `shrunk` names
  clients for whom a row went or came back while they paged.
- `Uploads`: `PutObject` (S3), `TranscribeAudio`, `InsertUpload`, `DeactivateAudio`.
- `PushSubscriptions`: `FindEndpoint`, `SaveSubscription` (PS 29-50), `FindSubscriptions`,
  and the concurrent `SendPush`, `DeleteEndpoint` of one `Promise.all` (PS 52-96); `Lapse` is
  the push service giving an endpoint up. A browser may send any endpoint at any
  time, one that was given up included: that brings its row back, and the next push
  deletes it again. `holder` is the user who subscribed an endpoint last, `overlapped`
  names the endpoints with two subscriptions under way at once, which may get two rows.
- `ChatSessions`: `HandleConnection`, `VerifyToken`, `RegisterClient` with
  `CheckConnection`, `HandleDisconnect`, which may come at any moment and runs
  inside `socket.disconnect()` too. `ghosts` are the sockets that had gone before they
  were registered.

## 3. Runs

| run | instance | what it shows |
|---|---|---|
| scheduler_safety | two rows (a one-time mail; an early-returning row of period 0), 2 ticks, 1 PATCH, 1 rejected call, 1 restart, clock 0..1 | `IInv` (with the types), `AtMostOnce`, `StatusExplained`, `FinalStays` |
| scheduler_recurrent | a recurrent row of period 2, 2 ticks, clock 0..3, 1 PATCH, fault, restart; fair | `TicksSpaced`, `ScheduleAdvances`, `DueIsProcessed` |
| automation | 1 event; a scheduled action, a recurrent one, one with a date that cannot be parsed; a workspace edit, a tick, a restart, a rejected call; fair | `OneEffectPerEvent`, `EveryActionHasItsTurn`, refinement of `Spec` |
| automation_inactive | a recurrent action and one edit | violated: see findings |
| records_safety | 2 records, 1 user, 2 fields, 3 requests, 3 bodies (both links; one removed; a value that is no uuid), 1 fault, 1 restart | `RInv`, `ReadsAgree`, `OneRelationPerField`, `LastEventIsRow`, `EventOrder` |
| record_queries | six queries (all with both includes; equals with incoming fields; page 2 of not equals; a failing operator; count; get) beside 2 writing requests on 2 records, 1 rejected call | `QuietAnswerIsExact`, `AnswersHappened` |
| flow | 1923 flows of 4 nodes, with and without cycles, with absent or incomplete data, log up to 7 entries | `FTypeOK`, `VariableProvenance`, `LogsTellWhatLeft`, `LogsAreAWalk`, `WalkEnds` |
| chat | 4 requests, 3 users (one administrator), 1 conversation, 1 fault | `CTypeOK`, `SenderParticipates`, `AnsweredIsKept`, `DeletedStaysDeleted` |
| chat_pairs | 2 conversations, 3 requests | violated: see findings |
| chat_timestamp | the same | violated: see findings |
| accounts | 4 requests of any kind, 2 users, 2 addresses, 1 rejected call | `UInv` (with the types), `NoLostUpdate`, `ResetHitsOwner`, `RemovedStaysRemoved`, refinement `EditsAreAtomic` |
| user_services | 3 clients of any kind, 2 users, 2 rows, 1 endpoint, pages of one, 1 rejected call or restart | `SvTypeOK`, `NothingMissed`, `RowsHaveObjects`, `EndpointHasHolder`, `SubscribersAreReached`, `RegistryIsLive`, `OneConnection`, `OrphansStay`, refinement `RowsEditedAtomically` |

Bounds, and why they are enough. Two ticks are the smallest overlap, and the
proofs cover any number. The clock needs to pass a period and the time of a
second run: period 2 and times to 3 let a row run twice and a late tick compete
with a later one; with period 0 or one-time rows the time to 1 gives "not yet due" and "due". One fault
and one restart each, because each of the four windows needs one event; one PATCH,
because a PATCH interferes with ticks and not with another PATCH except through the row.
Three requests on two records give two that overlap and one that comes after, and two
fields a loop with a turn behind it. A query runs beside two such requests, one of which
can be between any two of its parts. Three clients are two that race and one that
watches (a stream, a removal, an older socket); with pages of one, two rows make two pages. Seven log entries are the longest walk of
an acyclic flow in the family, and more than one round of its cycles. Four chat requests are
a creation, two messages and a deletion; four account requests are a forgotten
password, its reset, and an update and a removal beside them. Symmetry is used on ticks, requests
and conversations, which no action orders, and never with liveness. Deadlock
is not checked: with all requests answered and all bounds reached the models stop.
Each property has been seen to fail on a mutant of the code it is about.

### Fairness

- `Clock`, `IntervalFires`: time passes and Node runs `setInterval` callbacks. The
  clock saturates at `MaxNow` without stopping the timer.
- a step of each tick, of each handler, of the flow request (`WF`): awaits settle. For
  mail and HTTP this is an assumption: the code sets no timeout of its own, and a call
  that never settles would stop that tick or request for ever (for the scheduler the
  next tick would then take the row again).
- no fairness for the start of requests, PATCHes, edits, faults and crashes.

`DueIsProcessed` needs no fairness for success: an action that fails makes its
row final too. It relies on faults and restarts being finitely many.

### Findings

1. `automation_inactive` (SA 114). The comment says "Si la acción no está activa,
   saltamos la ejecución". The flag is the snapshot's, copied when the row was
   inserted from an action that was active; deactivating the action in the
   workspace stops nothing.
2. `chat_pairs` (CS 56). "Crea una nueva conversación uno-a-uno o devuelve una
   existente" (CS 26): the code always creates one.
3. `chat_timestamp` (CS 118). "Actualizar el timestamp de la conversación": the entity
   saved is the one read, nothing differs, and the ORM writes nothing, so
   `updatedAt`, by which conversations are listed, stays.

Met while modelling, with no document that says otherwise: `getRecord` joins
`targetRecord`, the record itself, where `getAllRecords` joins `linkedRecord`;
`bulkInsert` writes relation values and links nothing; `setVariable` of flows
ignores which variable it was given; a cycle of a flow is walked until a condition
leaves it; a conversation deleted between the two saves of a message comes back empty
(the exception in `DeletedStaysDeleted`).

## 4. Proofs

`ScheduledActions_proofs`, for any set of rows, ticks, requests and bounds, from the
named assumptions of the modules (periods are integers or `OneTime`,
tasks are tasks, PATCH statuses are strings of the model):

- `TypeCorrect`: `Spec => []TypeOK`.
- `InvariantHolds`: `Spec => []IInv`. `AtMostOnce` is not inductive: that the count is
  below two says nothing of a row about to be executed. `IInv` adds that a row
  outside `raced` is held by one tick (`SingleHolder`); before the effect its
  copy is pending, due, and a period after the last run (`FreshCopy`); after it the copy
  to be saved is final or moved past this tick (`AdvancedCopy`); the pending row
  in the table is rested unless its holder is about to save (`RowRested`); it is not
  ahead of its holder (`HeldIsDue`); nothing was delivered before a first run
  (`CountsRuns`); a tick works on one row at a time (`Sequential`). Each action is a
  lemma, and `ShrinkStep`, `FrameStep` cover the actions that only let go of rows.
- `DeliveredAtMostOnce`, `TicksAreSpaced`: the two properties, from `IInv`.
- `StatusesAreExplained`: `Spec => []StatusExplained`. A status reaches the table through
  the copies of ticks and the entities of PATCH requests; what explains it (`completed`,
  `rejected`, `asked`) only grows. `SInv` says that the table and every copy are
  explained (`Accounted`), that a PATCH saves a status it carries (`Carried`), and that
  the row a tick holds is pending until its save (`HeldPending`).
- `SchedulesAdvance`: from `IInv`, the copy to be saved is past the tick, the row is not.
- `FinalStatusesStay`: from `IInv` and `SInv`; the one exception is the catch block of
  a save that was committed and rejected.

`Automation_proofs`, for any events, actions, edits of the workspace, ticks and bounds:

- `ListenerUsesScheduler`: `ASpec => Spec`, the refinement: every step of the composition is a
  step of the scheduler or a stutter. The insert needs that its row and its time are ones
  the scheduler knows; `LInv` says so of the action whose turn it is.
- `EventHasOneEffect`: `ASpec => []OneEffectPerEvent`. Neither half can say it alone: `EInv`
  joins `IInv` and `LInv` and adds that until the turn of an action is over the handler has had
  no effect for it and its row does not exist (`Effects`), and that a PATCH knows only of rows
  that exist (`PatchesKnow`), so that nothing but the insert brings a row about.

`WorkspaceRecords_proofs`, for any records, users, fields, bodies, requests, faults and
restarts (fields a finite set of naturals):

- `RecordsInvariant`: `RSpec => []RInv`. The argument: between a request's write
  of a record and the end of its loop no other request is there, unless the
  record is raced (`OneWriter`, which needs `BirthIsUnique`: a new uuid belongs to one
  request); in that stretch the field about to be linked has no row, because an
  update has cleared it in the same turn and a create starts with none
  (`NothingToReplace`).
- `OneRelation`: a field of a record has one relation row.

`RecordReads_proofs`, under the same assumptions and a finite set of records (counts are
counts), builds on `RInv`:

- `LastEventsAreRows`, `EventsInOrder`: the invariant and the action property about events. Neither
  follows from `RInv`: `EventInv` adds that the one writer of a record that is not raced holds
  the row as it is from its write, or the read after it, to the event (`WriterSaw`), that the record it works on exists
  (`WorkedOnExists`), and that no event precedes the row or outlives its removal
  (`EventsFollowRows`).
- `ReadsOfBothTablesAgree`: `RSpec => []ReadsAgree`. `ReadInv` says it field by field
  while a request is under way: the fields its loop has left are the only ones in which
  the two tables may differ (`FieldsAgree`), because what its body sent stands in the row
  meanwhile (`WritesStand`) and a relation row names a target that is there (`TargetsFound`).
- `WhatAnswersSayHappened`, `QuietAnswersAreExact`: the two properties of the run
  `record_queries`, from `QInv`, which says of each part of an answer once it has been read
  that it was so at some moment (`Happened`), and that it is so as long as nobody writes
  (`Exact`): the records of the page, the total, the joined rows, and the incoming fields but
  for those that `left` still lists.

`Accounts_proofs`, for any users, addresses, requests and faults (only the addresses of
the users at the start must differ, as the column is unique):

- `AccountsInvariant`: `USpec => []UInv`. `NoLostUpdate` alone is not inductive: it says
  nothing of what a request has read and will save. `UInv` adds that a copy no write has
  overtaken is the row (`FreshCopy`), what a request asks and whose row it is about at
  each await (`Stage`), and where a code and a password come from (`Provenance`): a code
  belongs to one user, in the row and in every copy, and a password points to the request
  that saved it. `QuietStep` covers the steps that touch no row, `WriteStep` those that
  write one, and each action is reduced to one of the two.
- `UpdatesAreKept`, `ResetsHitTheirOwner`, `RemovedUsersStayRemoved`: three properties, from `UInv`.
- `AccountsImplementEdits`: `USpec => EditsAreAtomic`, the refinement. Every step of a request is a
  stutter, the arrival of its order, its refusal (`QuietEdits`) or the one step in which
  it takes effect (`InsertEdit`, `SaveEdit`, `StoreEdit`, `RemoveEdit`). Two more
  invariants are needed: a raced row is there or was (`RacedRows`), and only a copy that
  is going to be saved is stale (`StaleCopies`).

`ChatConversations_proofs`, for any users, conversations, requests and faults:

- `ConversationsTypeCorrect`, `SendersParticipate`, `AnswersAreKept`, `DeletedStayDeleted`:
  the four properties of the run `chat`. `SenderParticipates` is not inductive: the
  message is inserted two awaits after its sender was checked, into a row that
  another request may have saved again. `CInv` adds that the entities requests hold
  of a conversation, and its row, name the same users of those that still exist (`Members`,
  `Agree`), that a uuid has one request and no row before its save (`Unborn`), that
  a message is its request's (`Sources`) and kept from the first save on (`Kept`), and
  that a removal between two saves is recorded (`Between`).

`FlowExecution_proofs`, for any flows (cyclic ones and any length of log included),
variables and texts (the outputs of a node are finitely many):

- `VariablesHaveSources`, `LogsTellTheTruth`: the two invariants of the run, from `FInv`,
  which adds that the Map has one entry per key and that nothing was sent
  before the walk. That the node of an entry is a node of the flow comes from `WInv` below.
- `FlowsAreTyped`, `LogsAreTheWalk`: the types, and that the log is the depth-first walk.
  The inductive invariant `WInv` says what the stack is to the log: the calls
  are below ever earlier entries, have left the edges after those that are logged,
  and all that was logged since is below them (`Stacked`), and an edge
  to follow is in the log or on the stack (`Covered`). With the stack empty
  the latter is the last conjunct of `LogsAreAWalk`.

`UserServices_proofs`, for any users, rows, endpoints, clients, page sizes, faults and restarts
(finitely many notifications at the start):

- `ServicesAreInductive`: `SvSpec => []SvInv`. `RowInv` is what all five services
  need: what is asked at each await (`Stages`), that the uuid of a new row is its alone
  (`Creates`), that a copy no write has overtaken is the row (`Holds`). Each service has an
  invariant of its own beside it, and a step of one service (`StepIn`) tells
  the others only that it touches no request but its own and no row but of its table
  (`Tidy`): each service is proved once, and once against all the others.
- `FollowersMissNothing`: `NothingMissed` says nothing of a client that still pages.
  `InboxInv` adds that of an inbox that has not shrunk the newest `(page - 1) * PageSize`
  are known before a page is read, and `page * PageSize` after it (`KnownTo`): creations,
  wherever in the order they come, push what is known further back or leave it
  (`InsertedAt`), never forward, and what is new is about to be emitted.
  The order by createdAt has every notification once (`InOrder`).
- `EndpointsHaveHolders`, `SubscribersStayReached`: `PushInv` adds what a subscription
  under way knows of the rows of its endpoint (`Subscriber`), that it is alone unless
  `overlapped` (`Alone`), and that a push found gone was sent to a lapsed endpoint
  (`Sender`), so that what it deletes is no endpoint that is known. `NoneIsNoUser` is
  assumed: the holder of an endpoint nobody subscribed is no user.
- `RegisteredSocketsAreLive`, `UsersHaveOneConnection`: `SocketInv` adds that a socket is in
  the registry once and has been authenticated, and that one which is being authenticated
  is open or a ghost.
- `UploadsHaveObjects`, `OrphanedHistoriesStay`, `ServicesAreTyped`: from `ObjectInv`,
  `HistoryInv` and `RowInv`. That a removed row does not come back but through a stale copy
  is a clause of `Tidy`.
- `RowsAreEditedAtomically`: `SvSpec => RowsEditedAtomically`, the refinement, for all
  services at once. `RowInv` suffices: it says what a request placed in an await asks
  for (`PlacedAsks`), so what its order is (`PlacedOrder`), and that its uuid has no row yet
  or its copy is the row. A step of a request places or refuses its order
  (`QuietEdits`), or executes it (`InsertEdit`, `SaveEdit`, `DeleteEdit`,
  `RemoveUserEdit`); a restart refuses all that is under way and not written
  (`RestartEdits`).

Only model-checked: the liveness properties, which are beyond the prover.

## 5. Not modelled, and the plan

Order of what is left, most important first:

1. Composition of WorkspaceRecords and Automation: the events of the first are the
   events of the second.
2. Accounts as the users table of ChatConversations and WorkspaceRecords, whose models
   remove users in one step of their own.
3. WorkspaceRecords: edits of the collection's schema between validation and loop,
   removal of the workspace, a `_id` that a body sends.

Not modelled, because nothing more can be said of it here:

- the CRUD of workspaces and their histories (WS 39-137): written like that of
  flows, look-up by owner and then save or remove, so `Flows` says what there is to
  say; the edits of the actions array are in `Automation`;
- the generation of workspaces and flows by OpenAI: one HTTP call and one insert;
- the map of rooms in CW: it is written and nothing reads it; the delivery of a
  broadcast is socket.io's. The gateway broadcasts a message without awaiting
  `saveMessage` (CG 95), and no document says that what is broadcast is kept;
- full-text search and the ties of an order: any page of the right length (RecordQueries);
- S3 presigning, seeding, Nest wiring, DTO validation decorators, Swagger, wording of mails
  and log entries.
