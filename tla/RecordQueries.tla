----------------------------- MODULE RecordQueries -----------------------------
(***************************************************************************)
(* The reads of workspace-records.service.ts beside its writes: get, with  *)
(* getRecord, getAll with getAllRecords, and count with getRecordsCount.   *)
(*                                                                         *)
(* getAll puts its answer together from several queries: the rows of a     *)
(* page, their total, the same rows joined with what they link, and for    *)
(* each of them the records that link it.  Requests write in between.      *)
(*                                                                         *)
(* The columns that filters, orders and searches look at are the relation  *)
(* fields.  One condition is asked for, and an order that leaves ties open *)
(* or none: which rows make up a page is left to the database.             *)
(***************************************************************************)
EXTENDS WorkspaceRecords, SequencesExt

CONSTANT Queries \* what may be asked of the service

ASSUME RecordsAreFinite == IsFiniteSet(Records)

Operators == {"any", "equals", "not_equals", "greater_than"}

ASSUME QueriesAssumption ==
  \A k \in Queries :
    /\ k.action \in {"get", "getAll", "count"} /\ k.record \in Records
    /\ k.operator \in Operators /\ k.field \in Fields /\ k.value \in Links
    /\ k.page \in Nat \ {0} /\ k.limit \in Nat \ {0}
    /\ k.include \subseteq Fields /\ k.additional \in BOOLEAN

VARIABLES
  ask,    \* the query that is being answered
  stage,  \* the await it is in
  answer, \* answer[r]: what it will say of record r
  total,
  left,   \* the turns of enrichWithAdditionalFields to come: a record and a field

  \* history
  quiet,  \* nothing has been written since the query came
  met,    \* records that met the condition at some moment since
  sizes   \* how many did, at each moment

answering == <<ask, stage, answer, total, left>>
qvars     == <<rvars, answering, quiet, met, sizes>>

NoQuery == [action |-> "none"]
NoAnswer == [r \in {} |-> NoQuery]

QInit ==
  /\ RInit
  /\ ask = NoQuery /\ stage = "idle" /\ answer = NoAnswer /\ total = 0 /\ left = <<>>
  /\ quiet = TRUE /\ met = {} /\ sizes = {}

-----------------------------------------------------------------------------
(* The queries.                                                             *)

\* applyFilters: a value that is null equals nothing, and is not equal.
Meets(k, data) ==
  CASE k.operator = "any"          -> TRUE
    [] k.operator = "equals"       -> data[k.field] = k.value
    [] k.operator = "not_equals"   -> data[k.field] # k.value
    [] k.operator = "greater_than" -> FALSE

Matching(k) == {r \in Records : Exists(r) /\ (k.action = "get" \/ Meets(k, rows[r]))}

\* One value that is no number makes the whole statement fail.
CastFails(k) ==
  k.operator = "greater_than" /\ \E r \in Records : Exists(r) /\ rows[r][k.field] # None

\* skip(offset).take(limit) of n rows
PageLength(k, n) == Min({k.limit, Max({0, n - (k.page - 1) * k.limit})})

\* The fields that point to this collection.
IncomingFields == Fields \ UserFields

Entry(data) ==
  [data |-> data, include |-> NoAnswer,
   count |-> [f \in IncomingFields |-> 0], list |-> [f \in IncomingFields |-> {}]]

-----------------------------------------------------------------------------
ReceiveQuery ==
  /\ stage = "idle"
  /\ ask' \in Queries
  /\ stage' = CASE ask'.action = "get"    -> "record"
                [] ask'.action = "getAll" -> "rows"
                [] ask'.action = "count"  -> "total"
  /\ quiet' = TRUE /\ met' = Matching(ask') /\ sizes' = {Cardinality(met')}
  /\ UNCHANGED <<rvars, answer, total, left>>

\* The queries are done, or the records found are enriched one by one.
AnswerOr(found) ==
  IF ask.additional /\ found \X IncomingFields # {}
  THEN stage' = "incoming" /\ left' \in SetToSeqs(found \X IncomingFields)
  ELSE stage' = "answered" /\ UNCHANGED left

\* getRecord joins targetRecord, which is the record itself.
FindRecord ==
  /\ stage = "record"
  /\ LET r == ask.record IN
       IF Exists(r)
       THEN /\ answer' = [x \in {r} |-> [Entry(rows[r]) EXCEPT !.include =
                 [f \in {g \in ask.include : OfField(r, g) # {}} |-> r]]]
            /\ AnswerOr({r})
       ELSE stage' = "rejected" /\ UNCHANGED <<answer, left>>
  /\ UNCHANGED <<ask, total>>

\* getManyAndCount: the page, and then the total.
FindRows ==
  /\ stage = "rows"
  /\ \/ CastFails(ask) /\ stage' = "rejected" /\ UNCHANGED answer
     \/ /\ ~CastFails(ask)
        /\ \E page \in kSubset(PageLength(ask, Cardinality(Matching(ask))), Matching(ask)) :
             answer' = [r \in page |-> Entry(rows[r])]
        /\ stage' = "total"
  /\ UNCHANGED <<ask, total, left>>

CountRows ==
  /\ stage = "total"
  /\ IF CastFails(ask)
     THEN stage' = "rejected" /\ UNCHANGED <<total, left>>
     ELSE /\ total' = Cardinality(Matching(ask))
          /\ IF ask.include # {} /\ DOMAIN answer # {}
             THEN stage' = "joins" /\ UNCHANGED left
             ELSE AnswerOr(DOMAIN answer)
  /\ UNCHANGED <<ask, answer>>

\* Mutant of Shown: the records that link r, as targetRelations sounds.
ShownReversed(r) ==
  {[f \in {g \in ask.include : \E x \in relations : x.field = g /\ x.link = r} |->
     CHOOSE v \in Records : \E x \in relations : x.field = f /\ x.link = r /\ x.owner = v]}

\* What a record may show under its included fields: of several relation rows
\* of a field the last one wins, and a row whose user is gone shows nothing.
Shown(r) ==
  LET filled == {f \in ask.include : Included(r, f) # {}} IN
  {g \in [filled -> Links] : \A f \in filled : g[f] \in Included(r, f)}

\* Mutant of StillThere: the second query forgets whereInIds.
StillThereOfAny == {r \in Records : Exists(r)}

\* whereInIds: those of the page that are still there.
StillThere == {r \in DOMAIN answer : Exists(r)}

JoinRows ==
  /\ stage = "joins"
  /\ \E shown \in [StillThere -> UNION {Shown(r) : r \in StillThere}] :
       /\ \A r \in StillThere : shown[r] \in Shown(r)
       /\ answer' = [r \in StillThere |-> [Entry(rows[r]) EXCEPT !.include = shown[r]]]
  /\ AnswerOr(StillThere)
  /\ UNCHANGED <<ask, total>>

\* enrichWithAdditionalFields: the records that link r in f are counted ...
CountIncoming ==
  /\ stage = "incoming"
  /\ LET r == Head(left)[1]
         f == Head(left)[2]
     IN  answer' = [answer EXCEPT ![r].count[f] = Cardinality(Listed(r, f))]
  /\ stage' = "list"
  /\ UNCHANGED <<ask, total, left>>

\* ... and listed.
ListIncoming ==
  /\ stage = "list"
  /\ LET r == Head(left)[1]
         f == Head(left)[2]
     IN  answer' = [answer EXCEPT ![r].list[f] = Listed(r, f)]
  /\ left' = Tail(left)
  /\ stage' = IF left' = <<>> THEN "answered" ELSE "incoming"
  /\ UNCHANGED <<ask, total>>

\* handleRecordError: one of the queries rejects.
QueryRejected ==
  /\ stage \notin {"idle", "answered", "rejected"}
  /\ faults < MaxFaults /\ faults' = faults + 1
  /\ stage' = "rejected"
  /\ UNCHANGED <<rows, users, relations, request, crashes, history, ask, answer, total, left>>

-----------------------------------------------------------------------------
\* What the history keeps while a query is answered.
Observe ==
  /\ quiet' = (quiet /\ UNCHANGED <<rows, users, relations>>)
  /\ IF stage \in {"idle", "answered", "rejected"}
     THEN UNCHANGED <<met, sizes>>
     ELSE met' = met \cup Matching(ask)' /\ sizes' = sizes \cup {Cardinality(Matching(ask)')}

QNext ==
  \/ ReceiveQuery
  \/ FindRecord /\ UNCHANGED rvars /\ Observe
  \/ FindRows /\ UNCHANGED rvars /\ Observe
  \/ CountRows /\ UNCHANGED rvars /\ Observe
  \/ JoinRows /\ UNCHANGED rvars /\ Observe
  \/ CountIncoming /\ UNCHANGED rvars /\ Observe
  \/ ListIncoming /\ UNCHANGED rvars /\ Observe
  \/ QueryRejected /\ Observe
  \/ \E q \in Requests : (Receives(q) \/ Serve(q)) /\ UNCHANGED answering /\ Observe
  \/ \E u \in Users : RemoveUser(u) /\ UNCHANGED answering /\ Observe

QSpec == QInit /\ [][QNext]_qvars

-----------------------------------------------------------------------------
(* Properties.                                                              *)

\* The relation rows of r tell what its data does.
Settled(r) == r \notin raced \cup broken /\ AtRest(r) /\ ~BulkInserted(r)

\* As long as nobody writes, the several queries of an answer make one: a page
\* of the records that meet the condition, their number, what each links by
\* its data, and how many and which records link it.
QuietAnswerIsExact ==
  stage = "answered" /\ quiet =>
    /\ DOMAIN answer \subseteq Matching(ask)
    /\ ask.action # "get" => total = Cardinality(Matching(ask))
    /\ ask.action = "getAll" => Cardinality(DOMAIN answer) = PageLength(ask, total)
    /\ \A r \in DOMAIN answer :
         /\ answer[r].data = rows[r]
         /\ ask.action = "getAll" /\ Settled(r) =>
              answer[r].include = [f \in {g \in ask.include : Found(g, rows[r][g])} |-> rows[r][f]]
         /\ ask.additional =>
              \A f \in IncomingFields :
                /\ answer[r].list[f] = {x \in Records : Exists(x) /\ rows[x][f] = r}
                /\ answer[r].count[f] = Cardinality(answer[r].list[f])

\* Whatever is written meanwhile, a record of an answer has met the condition at
\* some moment of the request, as many records did at some moment as the total
\* says, and no page is longer than its limit.
AnswersHappened ==
  stage = "answered" =>
    /\ DOMAIN answer \subseteq met
    /\ ask.action # "get" => total \in sizes
    /\ Cardinality(DOMAIN answer) <= ask.limit
=============================================================================
