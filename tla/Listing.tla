------------------------------- MODULE Listing -------------------------------
(***************************************************************************)
(* The list endpoints: the parameters they accept, the clauses a filter    *)
(* becomes, the joins of the statement that counts and of the one that     *)
(* lists, the order and the pages.  Pure operators over one database.      *)
(***************************************************************************)
EXTENDS Naturals, FiniteSets, Sequences, SequencesExt

CONSTANTS
  Null,          \* SQL NULL, and a parameter that is not given
  DefaultLimit,  \* API_PAGINATION_DEFAULT_LIMIT
  MaxLimit       \* API_PAGINATION_MAX_LIMIT

ASSUME ListingAssumption == /\ DefaultLimit \in Nat \ {0} /\ MaxLimit \in Nat
                            /\ DefaultLimit <= MaxLimit

\* A database maps a table to its set of rows; every row has an id.
Tables == {"intake", "batch", "task", "result", "assomi", "message", "sender", "error"}
\* <<child, parent>>: the child's column of the parent's name holds its id
ForeignKeys == {<<"batch", "intake">>, <<"task", "batch">>, <<"result", "batch">>,
                <<"assomi", "batch">>, <<"message", "intake">>, <<"error", "intake">>}
\* of which a parent has one child at most
OnlyChildren == {<<"batch", "intake">>, <<"result", "batch">>, <<"assomi", "batch">>, <<"message", "intake">>}

Lists == {"intakes", "monitoring", "batches", "tasks", "results", "assomi", "senders", "messages", "errors"}

IntakeStatus  == {"accepted", "partially_accepted", "rejected"}
ResultStatus  == {"pending", "downloading", "aggregating", "matching_spin", "completed", "failed"}
AssomiStatus  == {"pending", "completed", "failed"}
NullSentinel  == "null"    \* TASK_FILTER_NULL_SENTINEL

-----------------------------------------------------------------------------
(* Parameters: what a parameter with a vocabulary may say.                 *)

IntakeWords == [status |-> IntakeStatus, source |-> {"nat", "spin", "assomi"},
                channel |-> {"email", "web"}]
MonitoringWords == [status |-> IntakeStatus, source |-> {"nat", "spin", "assomi"},
                    channel |-> {"email", "web"},
                    result |-> ResultStatus \cup {NullSentinel},
                    assomi |-> AssomiStatus \cup {NullSentinel}]
\* Integers are written as text.
TaskWords   == [status |-> {"1", "3", NullSentinel}, request |-> {"1", "3", NullSentinel}]
\* no sentinel here
ResultWords == [status |-> ResultStatus]
AssomiWords == [status |-> AssomiStatus]
MessageWords == [processing |-> {"accepted", "rejected", "skipped"}, reply |-> {"sent", "failed", NullSentinel}]

\* NULL is none of the words, and no truth value.
ASSUME NullAssumption ==
  /\ Null \notin BOOLEAN
  /\ \A words \in {IntakeWords, MonitoringWords, TaskWords, ResultWords, AssomiWords, MessageWords} :
       \A p \in DOMAIN words : Null \notin words[p]

Words(list) ==
  CASE list = "intakes"    -> IntakeWords
    [] list = "monitoring" -> MonitoringWords
    [] list = "tasks"      -> TaskWords
    [] list = "results"    -> ResultWords
    [] list = "assomi"     -> AssomiWords
    [] list = "messages"   -> MessageWords
    [] OTHER               -> <<>>

\* 422 INVALID_FILTER_..: f gives a parameter a word it does not know
UnknownWord(list, f) ==
  \E p \in DOMAIN f \cap DOMAIN Words(list) : f[p] # Null /\ f[p] \notin Words(list)[p]

\* NatIntakeFilters and its like
Parameters(list) ==
  LET intake == {"id", "number", "sender", "file", "from", "to", "status", "source", "paused", "channel", "single"}
  IN CASE list = "intakes"    -> intake
       [] list = "monitoring" -> intake \cup {"result", "assomi"}
       [] list = "batches"    -> {"id", "number", "sender", "file", "from", "to", "min", "max"}
       [] list = "tasks"      -> {"batch", "number", "status", "request", "region", "from", "to"}
       [] list = "results"    -> {"id", "batch", "number", "status", "from", "to", "doneFrom", "doneTo"}
       [] list = "assomi"     -> {"id", "aggregation", "batch", "number", "status", "from", "to", "doneFrom", "doneTo"}
       [] list = "senders"    -> {"email", "active"}
       [] list = "messages"   -> {"sender", "processing", "reply", "from", "to"}
       [] list = "errors"     -> {"intake"}

\* SortColumns of each list, with the column of the statement
IntakeSort == [created_at |-> <<"intake", "at">>, file_name |-> <<"intake", "file">>,
               sender_email |-> <<"intake", "sender">>]
BatchSort  == [created_at |-> <<"batch", "at">>, row_count |-> <<"batch", "rows">>,
               file_name |-> <<"intake", "file">>, sender_email |-> <<"intake", "sender">>]
TaskSort   == [created_at |-> <<"task", "at">>, status |-> <<"task", "status">>,
               batch_id |-> <<"task", "batch">>]
ResultSort == [created_at |-> <<"result", "at">>, status |-> <<"result", "status">>,
               batch_id |-> <<"result", "batch">>, completed_at |-> <<"result", "done">>]
AssomiSort == [created_at |-> <<"assomi", "at">>, status |-> <<"assomi", "status">>,
               batch_id |-> <<"assomi", "batch">>, completed_at |-> <<"assomi", "done">>]
SenderSort == [email |-> <<"sender", "email">>, name |-> <<"sender", "name">>,
               created_at |-> <<"sender", "at">>, updated_at |-> <<"sender", "updated">>]
MessageSort == [received_at |-> <<"message", "at">>, sender_email |-> <<"message", "sender">>]
ErrorSort  == [row_number |-> <<"error", "row">>]

SortOf(list) ==
  CASE list \in {"intakes", "monitoring"} -> IntakeSort
    [] list = "batches"  -> BatchSort
    [] list = "tasks"    -> TaskSort
    [] list = "results"  -> ResultSort
    [] list = "assomi"   -> AssomiSort
    [] list = "senders"  -> SenderSort
    [] list = "messages" -> MessageSort
    [] list = "errors"   -> ErrorSort

DefaultSort(list) ==
  CASE list = "senders"  -> [by |-> "email", order |-> "asc"]
    [] list = "messages" -> [by |-> "received_at", order |-> "desc"]
    [] list = "errors"   -> [by |-> "row_number", order |-> "asc"]
    [] OTHER             -> [by |-> "created_at", order |-> "desc"]

\* resolve_sort_params
ResolvedSort(list, sort) == [p \in {"by", "order"} |-> IF sort[p] = Null THEN DefaultSort(list)[p] ELSE sort[p]]

\* 422 INVALID_SORT_BY, INVALID_SORT_ORDER
UnknownSort(list, sort) == \/ ResolvedSort(list, sort).by \notin DOMAIN SortOf(list)
                           \/ ResolvedSort(list, sort).order \notin {"asc", "desc"}

-----------------------------------------------------------------------------
(* Text filters: column ILIKE '%' || escape_ilike_pattern(text) || '%'.    *)
(* A text is a sequence of characters.                                     *)

Before(c, s) == FlattenSeq([i \in DOMAIN s |-> IF s[i] = c THEN <<"\\", c>> ELSE <<s[i]>>])

\* Mutant: the backslash comes last and doubles those put in before.
Escaped_BackslashLast(text) == Before("\\", Before("_", Before("%", text)))
Escaped(text) == Before("_", Before("%", Before("\\", text)))
Pattern(text) == <<"%">> \o Escaped(text) \o <<"%">>

\* LIKE: % stands for any text, _ for one character, \ takes the next as it is.
\* rest[p] are the places of value from which it matches the pattern from p on.
Matches(value, pattern) ==
  LET n == Len(pattern)
      rest[p \in 1 .. n + 1] ==
        LET after(c, next) == {v \in 1 .. Len(value) : value[v] = c /\ v + 1 \in rest[next]} IN
        CASE p = n + 1 -> {Len(value) + 1}
          [] p <= n /\ pattern[p] = "%" -> {v \in 1 .. Len(value) + 1 : \E w \in rest[p + 1] : v <= w}
          [] p <= n /\ pattern[p] = "_" -> {v \in 1 .. Len(value) : v + 1 \in rest[p + 1]}
          [] p < n /\ pattern[p] = "\\" -> after(pattern[p + 1], p + 2)
          [] OTHER -> after(pattern[p], p + 1)
  IN 1 \in rest[1]

-----------------------------------------------------------------------------
(* Clauses.  A clause is <<operator, table, column, operand>>.  Filters f  *)
(* are records of parameters, Null where a parameter is not given.         *)

\* those of the <<parameter, operator, table, column>> that f gives
Given(f, forms) == {<<form[2], form[3], form[4], f[form[1]]>> : form \in {g \in forms : f[g[1]] # Null}}

\* a parameter that may say "null": the column is NULL, or equal
Nullable(f, p, t, nullColumn, column) ==
  IF f[p] = Null THEN {}
  ELSE IF f[p] = NullSentinel THEN {<<"is", t, nullColumn, Null>>}
  ELSE {<<"is", t, column, f[p]>>}

\* Mutant: an intake without a batch is not asked for.
PausedClauses_WithBatch(f) == Given(f, {<<"paused", "is", "batch", "paused">>})
\* an intake without a batch is not paused
PausedClauses(f) ==
  CASE f.paused = Null -> {}
    [] f.paused = TRUE -> {<<"not", "batch", "id", Null>>, <<"is", "batch", "paused", TRUE>>}
    [] f.paused = FALSE -> {<<"nullOr", "batch", "paused", FALSE>>}

\* .. and neither single-stage nor full
SingleClauses(f) ==
  IF f.single = Null THEN {}
  ELSE {<<"not", "batch", "id", Null>>, <<"is", "batch", "single", f.single>>}

IntakeClauses(f) ==
  Given(f, {<<"sender", "like", "intake", "sender">>, <<"file", "like", "intake", "file">>,
            <<"from", ">=", "intake", "at">>, <<"to", "<=", "intake", "at">>,
            <<"status", "is", "intake", "status">>, <<"source", "is", "intake", "source">>,
            <<"id", "is", "intake", "id">>, <<"number", "is", "intake", "number">>})
  \cup PausedClauses(f)
  \cup Given(f, {<<"channel", "channel", "intake", "id">>})
  \cup SingleClauses(f)

MonitoringClauses(f) ==
  IntakeClauses(f) \cup Nullable(f, "result", "result", "id", "status")
                   \cup Nullable(f, "assomi", "assomi", "id", "status")

BatchClauses(f) ==
  Given(f, {<<"sender", "like", "intake", "sender">>, <<"file", "like", "intake", "file">>,
            <<"from", ">=", "batch", "at">>, <<"to", "<=", "batch", "at">>,
            <<"min", ">=", "batch", "rows">>, <<"max", "<=", "batch", "rows">>,
            <<"id", "is", "batch", "id">>, <<"number", "is", "intake", "number">>})

TaskClauses(f) ==
  Given(f, {<<"batch", "is", "task", "batch">>, <<"number", "is", "intake", "number">>,
            <<"region", "is", "task", "region">>,
            <<"from", ">=", "task", "at">>, <<"to", "<=", "task", "at">>})
  \cup Nullable(f, "status", "task", "status", "status")
  \cup Nullable(f, "request", "task", "request", "request")

ResultClauses(f) ==
  Given(f, {<<"id", "is", "result", "id">>, <<"batch", "is", "result", "batch">>,
            <<"number", "is", "intake", "number">>, <<"status", "is", "result", "status">>,
            <<"from", ">=", "result", "at">>, <<"to", "<=", "result", "at">>,
            <<"doneFrom", ">=", "result", "done">>, <<"doneTo", "<=", "result", "done">>})

AssomiClauses(f) ==
  Given(f, {<<"id", "is", "assomi", "id">>, <<"aggregation", "is", "assomi", "aggregation">>,
            <<"batch", "is", "assomi", "batch">>,
            <<"number", "is", "intake", "number">>, <<"status", "is", "assomi", "status">>,
            <<"from", ">=", "assomi", "at">>, <<"to", "<=", "assomi", "at">>,
            <<"doneFrom", ">=", "assomi", "done">>, <<"doneTo", "<=", "assomi", "done">>})

SenderClauses(f) ==
  Given(f, {<<"email", "like", "sender", "email">>, <<"active", "is", "sender", "active">>})

MessageClauses(f) ==
  Given(f, {<<"sender", "like", "message", "sender">>,
            <<"processing", "is", "message", "processing">>,
            <<"from", ">=", "message", "at">>, <<"to", "<=", "message", "at">>})
  \cup Nullable(f, "reply", "message", "reply", "reply")

ErrorClauses(f) == {<<"is", "error", "intake", f.intake>>}

Clauses(list, f) ==
  CASE list = "intakes"    -> IntakeClauses(f)
    [] list = "monitoring" -> MonitoringClauses(f)
    [] list = "batches"    -> BatchClauses(f)
    [] list = "tasks"      -> TaskClauses(f)
    [] list = "results"    -> ResultClauses(f)
    [] list = "assomi"     -> AssomiClauses(f)
    [] list = "senders"    -> SenderClauses(f)
    [] list = "messages"   -> MessageClauses(f)
    [] list = "errors"     -> ErrorClauses(f)

-----------------------------------------------------------------------------
(* FROM of the statement that counts and of the one that lists: the root   *)
(* table and its joins.                                                    *)

Joins(kind, condition, tables) ==
  IF condition THEN [i \in DOMAIN tables |-> <<kind, tables[i]>>] ELSE <<>>
Root(t) == <<<<"root", t>>>>

\* Mutant: intake_list_requires_batch_join knows one of the two filters.
IntakeFrom_PausedOnly(statement, f) ==
  Root("intake") \o Joins("outer", statement = "list" \/ f.paused # Null, <<"batch">>)
IntakeFrom(statement, f) ==
  Root("intake") \o Joins("outer", statement = "list" \/ f.paused # Null \/ f.single # Null, <<"batch">>)

MonitoringFrom(statement, f) ==
  Root("intake") \o Joins("outer", TRUE, <<"batch">>)
  \o Joins("outer", statement = "list" \/ f.result # Null, <<"result">>)
  \o Joins("outer", statement = "list" \/ f.assomi # Null, <<"assomi">>)
  \o Joins("outer", statement = "list", <<"message">>)

BatchFrom == Root("batch") \o Joins("inner", TRUE, <<"intake">>)
TaskFrom(statement, f) ==
  Root("task") \o Joins("inner", statement = "list" \/ f.number # Null, <<"batch", "intake">>)
ResultFrom(statement, f) ==
  Root("result") \o Joins("inner", statement = "list" \/ f.number # Null, <<"batch", "intake">>)
AssomiFrom(statement, f) ==
  Root("assomi") \o Joins("inner", statement = "list" \/ f.number # Null, <<"batch", "intake">>)

From(list, statement, f) ==
  CASE list = "intakes"    -> IntakeFrom(statement, f)
    [] list = "monitoring" -> MonitoringFrom(statement, f)
    [] list = "batches"    -> BatchFrom
    [] list = "tasks"      -> TaskFrom(statement, f)
    [] list = "results"    -> ResultFrom(statement, f)
    [] list = "assomi"     -> AssomiFrom(statement, f)
    [] list = "senders"    -> Root("sender")
    [] list = "messages"   -> Root("message")
    [] list = "errors"     -> Root("error")

-----------------------------------------------------------------------------
(* What PostgreSQL makes of a statement.  A tuple maps the tables of FROM  *)
(* to a row, or to Null where an outer join found none.                    *)

Value(tuple, t, c) == IF tuple[t] = Null THEN Null ELSE tuple[t][c]
With(tuple, t, row) == [u \in DOMAIN tuple \cup {t} |-> IF u = t THEN row ELSE tuple[u]]

\* ON: equality along the foreign keys between t and the tuple's tables
On(tuple, t, row) ==
  \A key \in ForeignKeys :
    /\ key[1] = t /\ key[2] \in DOMAIN tuple => row[key[2]] = Value(tuple, key[2], "id")
    /\ key[2] = t /\ key[1] \in DOMAIN tuple => row.id = Value(tuple, key[1], t)

Joined(db, tuples, kind, t) ==
  LET matching(tuple) == {row \in db[t] : On(tuple, t, row)}
  IN UNION {IF kind = "outer" /\ matching(tuple) = {} THEN {With(tuple, t, Null)}
            ELSE {With(tuple, t, row) : row \in matching(tuple)} : tuple \in tuples}

\* FROM joins its tables one after the other.
JoinedAll(db, from) ==
  LET tuples[i \in 1 .. Len(from)] ==
        IF i = 1 THEN {[t \in {from[1][2]} |-> row] : row \in db[from[1][2]]}
        ELSE Joined(db, tuples[i - 1], from[i][1], from[i][2])
  IN tuples[Len(from)]

\* A clause about tables that FROM does not name adds them, joined with nothing.
Crossed(db, tuples, tables) ==
  {[t \in DOMAIN tuple \cup tables |-> IF t \in tables THEN rows[t] ELSE tuple[t]] :
     tuple \in tuples,
     rows \in {r \in [tables -> UNION {db[t] : t \in tables}] : \A t \in tables : r[t] \in db[t]}}

Holds(db, clause, tuple) ==
  LET value == Value(tuple, clause[2], clause[3])
      operand == clause[4]
      linked == \E m \in db["message"] : m.intake = value
  IN CASE clause[1] = "is"     -> value = operand
       [] clause[1] = "not"    -> value # operand
       [] clause[1] = "nullOr" -> value \in {Null, operand}
       [] clause[1] = ">="     -> value # Null /\ value >= operand
       [] clause[1] = "<="     -> value # Null /\ value <= operand
       [] clause[1] = "like"   -> Matches(value, Pattern(operand))
       [] clause[1] = "channel" -> linked = (operand = "email")

FromTables(list, statement, f) ==
  LET from == From(list, statement, f) IN {from[i][2] : i \in DOMAIN from}

Selected(db, list, statement, f) ==
  LET missing == {c[2] : c \in Clauses(list, f)} \ FromTables(list, statement, f)
  IN {tuple \in Crossed(db, JoinedAll(db, From(list, statement, f)), missing) :
        \A c \in Clauses(list, f) : Holds(db, c, tuple)}

-----------------------------------------------------------------------------
(* Order and pages.                                                        *)

\* senders and messages say what breaks a tie
TieBreak(list) == CASE list = "senders"  -> <<<<"sender", "email", "asc">>>>
                    [] list = "messages" -> <<<<"message", "id", "desc">>>>
                    [] OTHER -> <<>>
OrderBy(list, sort) ==
  LET given == ResolvedSort(list, sort)
  IN <<Append(SortOf(list)[given.by], given.order)>> \o TieBreak(list)

\* a comes before b; NULL counts as the largest value
Precedes(a, b, order) ==
  LET key(x, i) == Value(x, order[i][1], order[i][2])
      less(u, v) == u # Null /\ (v = Null \/ u < v)
  IN \E i \in DOMAIN order :
       /\ \A j \in 1 .. i - 1 : key(a, j) = key(b, j)
       /\ IF order[i][3] = "asc" THEN less(key(a, i), key(b, i)) ELSE less(key(b, i), key(a, i))

\* The rows in that order.  Those that tie come in any order, and in another one
\* when they are asked for again.
Orders(rows, order) ==
  {s \in [1 .. Cardinality(rows) -> rows] :
     /\ \A i, j \in DOMAIN s : s[i] = s[j] => i = j
     /\ \A i, j \in DOMAIN s : i < j => ~Precedes(s[j], s[i], order)}

Limit(requested) == IF requested = Null THEN DefaultLimit
                    ELSE IF requested < MaxLimit THEN requested ELSE MaxLimit

\* Mutant: by the size that was asked for.
Offset_Requested(page, requested) == (page - 1) * (IF requested = Null THEN DefaultLimit ELSE requested)
Offset(page, requested) == (page - 1) * Limit(requested)

\* build_pagination_meta
Meta(total, page, limit) ==
  LET pages == (total + limit - 1) \div limit
  IN [total |-> total, pages |-> pages, page |-> page, limit |-> limit, more |-> page < pages]

\* list_intakes and its like: one statement counts, another one lists in order
Page(sorted, total, page, requested) ==
  LET first == Offset(page, requested)
      last == first + Limit(requested)
  IN [data |-> SubSeq(sorted, first + 1, IF last < Len(sorted) THEN last ELSE Len(sorted)),
      meta |-> Meta(total, page, Limit(requested))]
=============================================================================
