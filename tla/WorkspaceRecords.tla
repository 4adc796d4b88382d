-------------------------- MODULE WorkspaceRecords --------------------------
(***************************************************************************)
(* The records of one collection: workspace-records.service.ts.            *)
(*                                                                         *)
(* A record keeps its data in one JSONB column.  The ids it holds in its   *)
(* relation fields are written a second time, one row per field, in        *)
(* workspace_record_relations: getAll resolves includes through those      *)
(* rows, counts and lists go through the data.  No transaction spans the   *)
(* two tables: a request writes the record first, then works through the   *)
(* fields one await after the other, swallows any error of that loop, and  *)
(* emits its event at the end.                                             *)
(*                                                                         *)
(* Of a record's data only the relation fields are kept, and the fields of *)
(* the collection do not change: validation accepts a body or it does not. *)
(***************************************************************************)
EXTENDS Naturals, FiniteSets, FiniteSetsExt

CONSTANTS
  Records,     \* uuids of records
  Existing,    \* records that are there at the start, without links
  Users,       \* ids of users
  Fields,      \* numbers of the relation fields, in schema order
  UserFields,  \* those with isUser
  Requests,    \* POST workspaces/:id/records/action
  Bodies,      \* the data such requests carry
  None,        \* a value that is null or empty
  Unsent,      \* the field is not in the body
  Bad,         \* a string that is no uuid: queries with it reject
  Unborn,      \* in place of a row: no row has had this uuid
  Absent,      \* in place of a row: it was deleted
  MaxFaults,   \* bound: database calls that reject
  MaxCrashes   \* bound: restarts of the process

Links == Records \cup Users
Values == Links \cup {None, Bad}
Data   == [Fields -> Values]

ASSUME RecordsAssumption == Existing \subseteq Records /\ Records \cap Users = {}
ASSUME FieldsAssumption  == Fields \subseteq Nat /\ IsFiniteSet(Fields) /\ UserFields \subseteq Fields
ASSUME BodiesAssumption  == Bodies \subseteq [Fields -> Values \cup {Unsent}]
ASSUME MarksAssumption   ==
  /\ None \notin Links \cup {Bad, Unsent}
  /\ Bad \notin Links \cup {Unsent}
  /\ Unsent \notin Links
  /\ Unborn \notin Data \cup {Absent} /\ Absent \notin Data
ASSUME LimitsAssumption  == MaxFaults \in Nat /\ MaxCrashes \in Nat

Kinds == {"create", "update", "delete", "bulkInsert"}

VARIABLES
  rows,      \* workspace_records: the data of each record, or Unborn, or Absent
  users,     \* the users that exist
  relations, \* workspace_record_relations: who wrote the row, owner, field, link
  req,       \* req[q]: what request q asks for
  pc,        \* pc[q]: the await it is in
  todo,      \* todo[q]: fields its relation loop has yet to finish
  seen,      \* seen[q]: the record as the request last read it
  faults,
  crashes,

  \* history
  lastEvent, \* lastEvent[r]: the last event emitted for r, and by whom
  raced,     \* records written by one request while another worked on them
  broken     \* records whose request ended before its work was done

request == <<req, pc, todo, seen>>
history == <<lastEvent, raced, broken>>
rvars   == <<rows, users, relations, request, faults, crashes, history>>

NoRequest == [kind |-> "none"]
NoEvent   == [kind |-> "none"]

RInit ==
  /\ rows = [r \in Records |-> IF r \in Existing THEN [f \in Fields |-> None] ELSE Unborn]
  /\ users = Users
  /\ relations = {}
  /\ req = [q \in Requests |-> NoRequest]
  /\ pc = [q \in Requests |-> "new"]
  /\ todo = [q \in Requests |-> {}]
  /\ seen = [q \in Requests |-> Absent]
  /\ faults = 0
  /\ crashes = 0
  /\ lastEvent = [r \in Records |-> NoEvent]
  /\ raced = {}
  /\ broken = {}

Exists(r) == rows[r] \notin {Unborn, Absent}

\* What findOne finds for a value: users by id, records of any collection by id.
Found(f, v) == IF f \in UserFields THEN v \in users ELSE v \in Records /\ Exists(v)

\* The body as the data of a new record.
AsData(body) == [f \in Fields |-> IF body[f] = Unsent THEN None ELSE body[f]]

\* "data" || :newData, in one statement.
Merged(data, body) == [f \in Fields |-> IF body[f] = Unsent THEN data[f] ELSE body[f]]

-----------------------------------------------------------------------------
(* Reads.                                                                   *)

\* What getAllRecords shows under an included field: the linked rows.
Included(r, f) ==
  {x.link : x \in {y \in relations : y.owner = r /\ y.field = f /\ y.link # None}}

\* What enrichWithAdditionalFields lists (and counts) for a target.
Listed(v, f) == {r \in Records : Exists(r) /\ rows[r][f] = v}

-----------------------------------------------------------------------------
(* The end of a request, and its event.                                     *)

Working(q, r) ==
  /\ pc[q] \in {"delete", "reread", "workspace", "clear", "lookup", "link"}
  /\ req[q].id = r

Overlapped(q) == {r \in {req[q].id} : \E p \in Requests \ {q} : Working(p, r)}

Answer(q, how) ==
  /\ pc' = [pc EXCEPT ![q] = how]
  /\ todo' = [todo EXCEPT ![q] = {}]
  /\ seen' = [seen EXCEPT ![q] = Absent]
  /\ UNCHANGED req

Emit(q, kind, data) ==
  lastEvent' = [lastEvent EXCEPT ![req[q].id] = [kind |-> kind, by |-> q, data |-> data]]

\* Mutant of Complete: the event of an update carries the body alone.
CompleteWithBody(q, data) ==
  /\ Answer(q, "done")
  /\ IF data = Absent
     THEN UNCHANGED lastEvent
     ELSE Emit(q, IF req[q].kind = "create" THEN "created" ELSE "updated", AsData(req[q].body))

\* What follows the relation loop in createRecord and updateRecord, up to the
\* return; an update whose second read found nothing emits nothing.
Complete(q, data) ==
  /\ Answer(q, "done")
  /\ IF data = Absent
     THEN UNCHANGED lastEvent
     ELSE Emit(q, IF req[q].kind = "create" THEN "created" ELSE "updated", data)

\* The next turn of the relation loop, or its end.
Continue(q, rest, data) ==
  IF rest = {}
  THEN Complete(q, data)
  ELSE /\ todo' = [todo EXCEPT ![q] = rest]
       /\ pc' = [pc EXCEPT ![q] = IF req[q].kind = "update" THEN "clear" ELSE "lookup"]
       /\ seen' = [seen EXCEPT ![q] = data]
       /\ UNCHANGED <<req, lastEvent>>

\* An error leaves the loop and is swallowed: the other fields are not done.
AbandonLoop(q, unfinished) ==
  /\ Complete(q, seen[q])
  /\ broken' = IF unfinished = {} THEN broken ELSE broken \cup {req[q].id}

Turn(q)   == Min(todo[q])
Others(q) == todo[q] \ {Turn(q)}
Value(q)  == req[q].body[Turn(q)]

-----------------------------------------------------------------------------
(* A request begins: handleAction up to the first await.                    *)

\* Ids in a body are ids that were once given out.
Sendable(body) == \A f \in Fields : body[f] \in Records => rows[body[f]] # Unborn

Receive(q, r, kind, body, first) ==
  /\ pc[q] = "new"
  /\ req' = [req EXCEPT ![q] = [kind |-> kind, id |-> r, body |-> body]]
  /\ pc' = [pc EXCEPT ![q] = first]
  /\ UNCHANGED <<rows, users, relations, todo, seen, faults, crashes, history>>

\* randomUUID, although the code calls it after the validation: an uuid that no
\* row has had and no other request has drawn.
Generated(r) ==
  rows[r] = Unborn /\ ~\E p \in Requests : pc[p] # "new" /\ req[p].id = r

ReceiveCreate(q) ==
  \E r \in Records, kind \in {"create", "bulkInsert"}, body \in Bodies :
    Generated(r) /\ Sendable(body) /\ Receive(q, r, kind, body, "validate")

ReceiveUpdate(q) ==
  \E r \in Records, body \in Bodies :
    rows[r] # Unborn /\ Sendable(body) /\ Receive(q, r, "update", body, "validate")

ReceiveDelete(q) ==
  \E r \in Records :
    rows[r] # Unborn /\ Receive(q, r, "delete", [f \in Fields |-> Unsent], "find")

\* validateRecordData: the body passes or the request ends.
ValidateRecordData(q) ==
  /\ pc[q] = "validate"
  /\ \/ pc' = [pc EXCEPT ![q] = "write"] /\ UNCHANGED <<req, todo, seen>>
     \/ Answer(q, "rejected")
  /\ UNCHANGED <<rows, users, relations, faults, crashes, history>>

-----------------------------------------------------------------------------
(* createRecord and bulkInsert.                                             *)

InsertRecord(q) ==
  /\ pc[q] = "write" /\ req[q].kind = "create"
  /\ LET data == AsData(req[q].body) IN
       /\ rows' = [rows EXCEPT ![req[q].id] = data]
       /\ seen' = [seen EXCEPT ![q] = data]
  /\ pc' = [pc EXCEPT ![q] = "workspace"]
  /\ UNCHANGED <<users, relations, req, todo, faults, crashes, history>>

\* One INSERT for all items (here one), without relations and without events.
BulkInsert(q) ==
  /\ pc[q] = "write" /\ req[q].kind = "bulkInsert"
  /\ rows' = [rows EXCEPT ![req[q].id] = AsData(req[q].body)]
  /\ Answer(q, "done")
  /\ UNCHANGED <<users, relations, faults, crashes, history>>

-----------------------------------------------------------------------------
(* updateRecord.                                                            *)

MergeRecord(q) ==
  /\ pc[q] = "write" /\ req[q].kind = "update"
  /\ IF Exists(req[q].id)
     THEN /\ rows' = [rows EXCEPT ![req[q].id] = Merged(@, req[q].body)]
          /\ raced' = raced \cup Overlapped(q)
          /\ pc' = [pc EXCEPT ![q] = "reread"]
          /\ UNCHANGED <<req, todo, seen>>
     ELSE Answer(q, "rejected") /\ UNCHANGED <<rows, raced>>
  /\ UNCHANGED <<users, relations, faults, crashes, lastEvent, broken>>

RereadRecord(q) ==
  /\ pc[q] = "reread"
  /\ seen' = [seen EXCEPT ![q] = rows[req[q].id]]
  /\ pc' = [pc EXCEPT ![q] = "workspace"]
  /\ UNCHANGED <<rows, users, relations, req, todo, faults, crashes, history>>

-----------------------------------------------------------------------------
(* createRelations and updateRelations: one field at a time.                *)

\* Mutant of LoopFields: a field sent as null is skipped like one not sent.
LoopFieldsNotNull(kind, body) == {f \in Fields : body[f] \notin {Unsent, None}}

\* createRelations skips null values; updateRelations takes a field that was
\* sent, null or not.
LoopFields(kind, body) ==
  {f \in Fields : body[f] # Unsent /\ (kind = "create" => body[f] # None)}

ReadRelationFields(q) ==
  /\ pc[q] = "workspace"
  /\ Continue(q, LoopFields(req[q].kind, req[q].body), seen[q])
  /\ UNCHANGED <<rows, users, relations, faults, crashes, raced, broken>>

\* Mutant of OfField: the rows are taken for those the record is the target of.
OfFieldReversed(r, f) == {x \in relations : x.link = r /\ x.field = f}

OfField(r, f) == {x \in relations : x.owner = r /\ x.field = f}

ClearRelations(q) ==
  /\ pc[q] = "clear"
  /\ relations' = relations \ OfField(req[q].id, Turn(q))
  /\ IF Value(q) = None
     THEN Continue(q, Others(q), seen[q])
     ELSE /\ pc' = [pc EXCEPT ![q] = "lookup"]
          /\ UNCHANGED <<req, todo, seen, lastEvent>>
  /\ UNCHANGED <<rows, users, faults, crashes, raced, broken>>

\* A value that is no uuid makes the query itself reject.
LookUpTarget(q) ==
  /\ pc[q] = "lookup"
  /\ IF Value(q) = Bad
     THEN AbandonLoop(q, Others(q))
     ELSE /\ IF Found(Turn(q), Value(q))
             THEN /\ pc' = [pc EXCEPT ![q] = "link"]
                  /\ UNCHANGED <<req, todo, seen, lastEvent>>
             ELSE Continue(q, Others(q), seen[q])
          /\ UNCHANGED broken
  /\ UNCHANGED <<rows, users, relations, faults, crashes, raced>>

\* The insert, which fails on its foreign keys when the record or the target
\* has been deleted since the lookup.
LinkTarget(q) ==
  /\ pc[q] = "link"
  /\ IF Exists(req[q].id) /\ Found(Turn(q), Value(q))
     THEN /\ relations' = relations \cup
               {[by |-> q, owner |-> req[q].id, field |-> Turn(q), link |-> Value(q)]}
          /\ Continue(q, Others(q), seen[q])
          /\ UNCHANGED broken
     ELSE AbandonLoop(q, Others(q)) /\ UNCHANGED relations
  /\ UNCHANGED <<rows, users, faults, crashes, raced>>

-----------------------------------------------------------------------------
(* deleteRecord.                                                            *)

\* Mutant of FindToDelete: the result of findOne is not looked at.
FindToDeleteUnchecked(q) ==
  /\ pc[q] = "find"
  /\ seen' = [seen EXCEPT ![q] = rows[req[q].id]]
  /\ pc' = [pc EXCEPT ![q] = "delete"]
  /\ UNCHANGED <<rows, users, relations, req, todo, faults, crashes, history>>

FindToDelete(q) ==
  /\ pc[q] = "find"
  /\ IF Exists(req[q].id)
     THEN /\ seen' = [seen EXCEPT ![q] = rows[req[q].id]]
          /\ pc' = [pc EXCEPT ![q] = "delete"]
          /\ UNCHANGED <<req, todo>>
     ELSE Answer(q, "rejected")
  /\ UNCHANGED <<rows, users, relations, faults, crashes, history>>

\* ON DELETE CASCADE takes the rows that belong or point to the record.
Cascade(r) == {x \in relations : x.owner # r /\ x.link # r}

\* delete() does not tell whether it found the row, and the event follows.
DeleteRecord(q) ==
  /\ pc[q] = "delete"
  /\ rows' = [rows EXCEPT ![req[q].id] = Absent]
  /\ relations' = Cascade(req[q].id)
  /\ Emit(q, "deleted", seen[q])
  /\ raced' = raced \cup Overlapped(q)
  /\ Answer(q, "done")
  /\ UNCHANGED <<users, faults, crashes, broken>>

-----------------------------------------------------------------------------
(* Failures and the other tables.                                           *)

\* What the statement q is in writes, should it commit before it rejects.
Written(q) ==
  CASE pc[q] = "write" /\ req[q].kind # "update" ->
         [rows EXCEPT ![req[q].id] = AsData(req[q].body)]
    [] pc[q] = "write" /\ req[q].kind = "update" /\ Exists(req[q].id) ->
         [rows EXCEPT ![req[q].id] = Merged(@, req[q].body)]
    [] pc[q] = "delete" -> [rows EXCEPT ![req[q].id] = Absent]
    [] OTHER -> rows

\* A query or a statement outside the relation loop rejects, committed or not:
\* handleRecordError answers with a 400, nothing is linked and nothing emitted.
RequestRejected(q) ==
  /\ pc[q] \in {"find", "write", "reread", "delete"}
  /\ faults < MaxFaults
  /\ faults' = faults + 1
  /\ \/ /\ broken' = IF pc[q] = "reread" THEN broken \cup {req[q].id} ELSE broken
        /\ UNCHANGED <<rows, relations, raced>>
     \/ /\ rows' = Written(q)
        /\ rows' # rows
        /\ relations' = IF pc[q] = "delete" THEN Cascade(req[q].id) ELSE relations
        /\ raced' = raced \cup Overlapped(q)
        /\ broken' = broken \cup {req[q].id}
  /\ Answer(q, "rejected")
  /\ UNCHANGED <<users, crashes, lastEvent>>

\* A call of the relation loop rejects, committed or not: the error is logged.
RelationsRejected(q) ==
  /\ pc[q] \in {"workspace", "clear", "lookup", "link"}
  /\ faults < MaxFaults
  /\ faults' = faults + 1
  /\ \/ UNCHANGED relations
     \/ /\ pc[q] = "clear"
        /\ relations' = relations \ OfField(req[q].id, Turn(q))
     \/ /\ pc[q] = "link" /\ Exists(req[q].id) /\ Found(Turn(q), Value(q))
        /\ relations' = relations \cup
             {[by |-> q, owner |-> req[q].id, field |-> Turn(q), link |-> Value(q)]}
  /\ AbandonLoop(q, LoopFields(req[q].kind, req[q].body))
  /\ UNCHANGED <<rows, users, crashes, raced>>

\* UsersService.remove; ON DELETE SET NULL keeps the relation row.
RemoveUser(u) ==
  /\ u \in users
  /\ users' = users \ {u}
  /\ relations' = {IF x.link = u THEN [x EXCEPT !.link = None] ELSE x : x \in relations}
  /\ UNCHANGED <<rows, request, faults, crashes, history>>

\* The process restarts: requests in flight die without an event.
RCrash ==
  /\ crashes < MaxCrashes
  /\ crashes' = crashes + 1
  /\ broken' = broken \cup {r \in Records : \E q \in Requests : Working(q, r)}
  /\ pc' = [q \in Requests |-> IF pc[q] \in {"new", "done", "rejected"} THEN pc[q] ELSE "lost"]
  /\ todo' = [q \in Requests |-> {}]
  /\ seen' = [q \in Requests |-> Absent]
  /\ UNCHANGED <<rows, users, relations, req, faults, lastEvent, raced>>

-----------------------------------------------------------------------------
Receives(q) == ReceiveCreate(q) \/ ReceiveUpdate(q) \/ ReceiveDelete(q)

Serve(q) ==
  \/ ValidateRecordData(q)
  \/ InsertRecord(q)
  \/ BulkInsert(q)
  \/ MergeRecord(q)
  \/ RereadRecord(q)
  \/ ReadRelationFields(q)
  \/ ClearRelations(q)
  \/ LookUpTarget(q)
  \/ LinkTarget(q)
  \/ FindToDelete(q)
  \/ DeleteRecord(q)
  \/ RequestRejected(q)
  \/ RelationsRejected(q)

RNext ==
  \/ \E q \in Requests : Receives(q) \/ Serve(q)
  \/ \E u \in Users : RemoveUser(u)
  \/ RCrash

RSpec == RInit /\ [][RNext]_rvars

-----------------------------------------------------------------------------
(* Properties.                                                              *)

RTypeOK ==
  /\ rows \in [Records -> Data \cup {Unborn, Absent}]
  /\ users \subseteq Users
  /\ relations \subseteq
       [by : Requests, owner : Records, field : Fields, link : Links \cup {None}]
  /\ req \in [Requests -> {NoRequest} \cup
       [kind : Kinds, id : Records, body : [Fields -> Values \cup {Unsent}]]]
  /\ pc \in [Requests -> {"new", "validate", "find", "write", "delete", "reread",
                          "workspace", "clear", "lookup", "link", "done", "rejected", "lost"}]
  /\ todo \in [Requests -> SUBSET Fields]
  /\ seen \in [Requests -> Data \cup {Absent}]
  /\ faults \in Nat /\ crashes \in Nat
  /\ lastEvent \in [Records -> {NoEvent} \cup
       [kind : {"created", "updated", "deleted"}, by : Requests, data : Data]]
  /\ raced \subseteq Records /\ broken \subseteq Records

AtRest(r) == \A q \in Requests : ~Working(q, r)

BulkInserted(r) == \E q \in Requests : req[q].kind = "bulkInsert" /\ req[q].id = r

\* The two ways of reading a relation agree: once no request works on r, an
\* include of r shows v exactly when v exists and its list of the field has r.
\* Excepted are records that two requests wrote at the same time, whose loop
\* ended early, or that came by bulkInsert, which links nothing.
ReadsAgree ==
  \A r \in Records \ (raced \cup broken) :
    Exists(r) /\ AtRest(r) /\ ~BulkInserted(r) =>
      \A f \in Fields, v \in Links :
        v \in Included(r, f) <=> Found(f, v) /\ r \in Listed(v, f)

\* A field of a record has one relation row at most, at every moment and after
\* every failure, unless two requests wrote the record at the same time: the
\* table has no constraint that says so, only lines 1020-1046 in their order.
OneRelationPerField ==
  \A x, y \in relations :
    x.owner \notin raced /\ x.owner = y.owner /\ x.field = y.field => x = y

\* Unless requests overlap, nothing is emitted for a record after "deleted",
\* and "created" comes first: actions run in the order of the record's life.
EventOrder ==
  [][\A r \in Records : r \notin raced' /\ lastEvent'[r] # lastEvent[r] =>
       /\ lastEvent[r].kind # "deleted"
       /\ lastEvent'[r].kind = "created" => lastEvent[r].kind = "none"]_rvars

\* Once no request works on r, its last event tells what the row holds.
LastEventIsRow ==
  \A r \in Records \ (raced \cup broken) :
    AtRest(r) =>
      /\ lastEvent[r].kind \in {"created", "updated"} => rows[r] = lastEvent[r].data
      /\ lastEvent[r].kind = "deleted" <=> rows[r] = Absent
      /\ lastEvent[r].kind = "none" => r \in Existing \/ BulkInserted(r) \/ rows[r] = Unborn

-----------------------------------------------------------------------------
(* The inductive invariant behind OneRelationPerField.                      *)

\* A request past its first step has a body, and one in the loop has a field.
Stages ==
  \A q \in Requests :
    /\ pc[q] = "new" <=> req[q] = NoRequest
    /\ pc[q] \in {"validate", "write"} => req[q].kind # "delete"
    /\ pc[q] \in {"clear", "lookup", "link"} => todo[q] # {}
    /\ pc[q] \in {"clear", "reread"} => req[q].kind = "update"
    /\ pc[q] \in {"workspace", "lookup", "link"} => req[q].kind \in {"create", "update"}
    /\ pc[q] \in {"find", "delete"} => req[q].kind = "delete"
    /\ pc[q] = "delete" => seen[q] \in Data

InLoop(q, r) ==
  pc[q] \in {"reread", "workspace", "clear", "lookup", "link"} /\ req[q].id = r

ToBeBorn(q) == pc[q] \in {"validate", "write"} /\ req[q].kind \in {"create", "bulkInsert"}

\* Rows not inserted yet have no relations, no requests that work on them, and
\* one request at most that will insert them.
BirthIsUnique ==
  /\ \A x \in relations : rows[x.owner] # Unborn
  /\ \A q \in Requests : pc[q] # "new" /\ req[q].kind \in {"update", "delete"}
       => rows[req[q].id] # Unborn
  /\ \A q \in Requests, r \in Records : InLoop(q, r) => rows[r] # Unborn
  /\ \A q \in Requests : ToBeBorn(q) => rows[req[q].id] = Unborn
  /\ \A p, q \in Requests : ToBeBorn(p) /\ ToBeBorn(q) /\ req[p].id = req[q].id => p = q

\* One request at most is between its write of r and the end of its loop.
OneWriter ==
  \A r \in Records \ raced : \A p, q \in Requests : InLoop(p, r) /\ InLoop(q, r) => p = q

\* What that request is about to insert has no row yet.
NothingToReplace ==
  \A r \in Records \ raced, q \in Requests : InLoop(q, r) =>
    /\ pc[q] \in {"lookup", "link"} => OfField(r, Turn(q)) = {}
    /\ req[q].kind = "create" =>
         \A f \in Fields : f \in todo[q] \/ pc[q] = "workspace" => OfField(r, f) = {}

RInv ==
  /\ RTypeOK
  /\ Stages
  /\ BirthIsUnique
  /\ OneWriter
  /\ NothingToReplace
  /\ OneRelationPerField
=============================================================================
