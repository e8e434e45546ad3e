------------------------------ MODULE Requests ------------------------------
(***************************************************************************)
(* What one request gets for an answer: an uploaded file, the workbook and *)
(* the mail of an intake, a list, a text filter.  A behaviour asks one     *)
(* thing and answers it; a behaviour about "token" runs the calls of       *)
(* ServiceToken instead.                                                   *)
(***************************************************************************)
EXTENDS ServiceToken, RowRules, Workbook, Listing

CONSTANTS
  FileRequests,   \* <<file, enforced rules>>
  Reports,        \* records w of Workbook
  Databases,      \* databases of Listing
  Filters,        \* Filters[list]: filter records of that list
  Walks,          \* <<list, filter, sort, requested limit>>
  Texts           \* <<text of a filter, value of the column>>

\* What the schema and the writers of its rows make of a database.  Not all of
\* it is a constraint: that no two messages are about one intake, and that an
\* intake and a batch have one row of each later stage, is also due to how the
\* code writes them.
Consistent(db) ==
  /\ \A t \in Tables : /\ IsFiniteSet(db[t]) /\ Null \notin db[t]
                       /\ \A x, y \in db[t] : x.id # Null /\ (x.id = y.id => x = y)
  /\ \A key \in ForeignKeys : \A x \in db[key[1]] :
       \/ \E y \in db[key[2]] : x[key[2]] = y.id
       \/ key[1] = "message" /\ x[key[2]] = Null
  /\ \A key \in OnlyChildren : \A x, y \in db[key[1]] : x[key[2]] = y[key[2]] /\ x[key[2]] # Null => x = y
  /\ \A x \in db["batch"] : x.paused \in BOOLEAN
  /\ \A x \in db["task"] : x.status \in {"1", "3", Null}
  /\ \A x \in db["result"] : x.status \in ResultStatus
  /\ \A x \in db["assomi"] : x.status \in AssomiStatus
  /\ \A x \in db["message"] : x.reply \in {"sent", "failed", Null}

\* the parameters of a list as they are parsed
FilterOf(list, f) == /\ DOMAIN f = Parameters(list)
                     /\ "paused" \in DOMAIN f => f.paused = Null \/ f.paused \in BOOLEAN
\* A column that orders a list has numbers; a text is its place in the collation.
Numeric(db, order) ==
  \A i \in DOMAIN order : \A x \in db[order[i][1]] : x[order[i][2]] \in Nat \cup {Null}

\* A file is a table of cells, each of them what its parser can return.  The
\* output_files of an intake are a sequence and name no file twice, a file has a
\* number of lines, and one that ASSOMI left has its header.  ToString tells
\* numbers apart.
ASSUME RequestAssumption ==
  /\ \A r \in FileRequests :
       /\ r[1].headers \in Seq(ToSet(r[1].headers))
       /\ r[1].rows \in Seq(ToSet(r[1].rows))
       /\ \A cells \in ToSet(r[1].rows) :
            /\ cells \in Seq(ToSet(cells))
            /\ \A cell \in ToSet(cells) : cell[1] = "ip" => cell[2] \in Addresses /\ cell[3] \in 0 .. Single
  /\ \A w \in Reports :
       /\ w.outputs \in Seq(ToSet(w.outputs))
       /\ \A k \in DOMAIN w.outputs : /\ w.outputs[k].index \in Nat
                                      /\ w.outputs[k].aggregated[2] \in Nat
                                      /\ w.outputs[k].spin[2] \in Nat
       /\ \A key \in {"aggregated", "spin"}, j, k \in DOMAIN w.outputs :
            LET path(i) == w.outputs[i][key]
            IN Readable(path(j)) /\ Readable(path(k)) /\ path(j)[1] = path(k)[1] => j = k
       /\ \A m, n \in 0 .. Len(SheetPlan(w)) + 2 : ToString(m) = ToString(n) => m = n
       /\ w.application[2] \in Nat /\ w.output[2] \in Nat
       /\ w.assomi = "completed" /\ Readable(w.output) => w.output[2] > 0
       /\ w.attach \in {"assomi_csv", "combined_xlsx"}
  /\ \A db \in Databases : Consistent(db)
  /\ \A list \in DOMAIN Filters : list \in Lists /\ \A f \in Filters[list] : FilterOf(list, f)
  /\ \A walk \in Walks :
       /\ walk[1] \in Lists /\ FilterOf(walk[1], walk[2]) /\ (walk[4] = Null \/ walk[4] \in Nat \ {0})
       /\ \A db \in Databases : ~UnknownSort(walk[1], walk[3]) => Numeric(db, OrderBy(walk[1], walk[3]))
  /\ \A text \in Texts : \A s \in {text[1], text[2]} : s \in Seq(ToSet(s))

VARIABLES
  subject,   \* <<kind, what is asked>>
  reply      \* <<>> until it is answered

requestVars == <<subject, reply>>

RequestInit ==
  /\ TokenInit
  /\ reply = <<>>
  /\ \/ subject = <<"token">>
     \/ /\ client = CHOOSE c \in Clients : TRUE
        /\ \/ \E r \in FileRequests : subject = <<"file", r[1], r[2]>>
           \/ \E w \in Reports : subject = <<"report", w>>
           \/ \E db \in Databases, list \in DOMAIN Filters :
                \E f \in Filters[list] : subject = <<"filter", db, list, f>>
           \/ \E db \in Databases, walk \in Walks : subject = <<"walk", db, walk>>
           \/ \E text \in Texts : subject = <<"text", text[1], text[2]>>

\* A client reads on as long as the answer says that there is more.
LastPage(total, requested) ==
  LET more(n) == Meta(total, n, Limit(requested)).more
  IN CHOOSE n \in 1 .. total + 1 : ~more(n) /\ \A m \in 1 .. n - 1 : more(m)

\* Every page is listed by a statement of its own.
WalkReplies(db, walk) ==
  LET rows(statement) == Selected(db, walk[1], statement, walk[2])
      total == Cardinality(rows("count"))
  IN IF UnknownSort(walk[1], walk[3]) THEN {[refused |-> TRUE]}
     ELSE {[refused |-> FALSE, pages |-> [n \in DOMAIN sorted |-> Page(sorted[n], total, n, walk[4])]] :
             sorted \in [1 .. LastPage(total, walk[4]) -> Orders(rows("list"), OrderBy(walk[1], walk[3]))]}

Answered(kind) == subject[1] = kind /\ reply # <<>>

Answer ==
  /\ reply = <<>> /\ UNCHANGED <<subject, tokenVars>>
  /\ \/ subject[1] = "file" /\ reply' = Response(subject[2], subject[3])
     \/ /\ subject[1] = "report"
        /\ reply' = [results |-> IntakeResults(subject[2]).status,
                     workbook |-> IntakeResults(subject[2]).sheets, mail |-> Mail(subject[2]),
                     aggregated |-> Download(subject[2], "aggregated"),
                     spin |-> Download(subject[2], "spin"),
                     assomi |-> AssomiDownload(subject[2]), source |-> SourceDownload(subject[2])]
     \/ /\ subject[1] = "filter"
        /\ LET rows(statement) == Selected(subject[2], subject[3], statement, subject[4]) IN
           reply' = IF UnknownWord(subject[3], subject[4]) THEN [refused |-> TRUE]
                    ELSE [refused |-> FALSE, count |-> Cardinality(rows("count")), rows |-> rows("list")]
     \/ subject[1] = "walk" /\ reply' \in WalkReplies(subject[2], subject[3])
     \/ subject[1] = "text" /\ reply' = [matches |-> Matches(subject[3], Pattern(subject[2]))]

RequestNext == \/ Answer
               \/ subject = <<"token">> /\ TokenNext /\ UNCHANGED requestVars

RequestSpec == RequestInit /\ [][RequestNext]_<<subject, reply, tokenVars>>

-----------------------------------------------------------------------------
(* Uploaded files.                                                         *)

\* the addresses a cell stands for, said bit by bit
Denoted(cell, expanded) ==
  LET block == {x \in Addresses : x \div Span(cell[3]) = cell[2] \div Span(cell[3])}
      inner == {x \in block : \E y, z \in block : y < x /\ x < z}
      first == {x \in block : \A y \in block : x <= y}
  IN IF Missing(cell) THEN {Zero}
     ELSE {<<x, cell[4]>> : x \in IF ~IsNetwork(cell) THEN {cell[2]}
                                  ELSE IF ~expanded THEN first
                                  ELSE IF inner = {} THEN block ELSE inner}

\* the tasks are those that a row asks for
Cover(tasks, row) ==
  LET of(c) == Denoted(row[c], c \in Expanded) IN
  /\ ToSet(tasks) = [src : of("internal"), xlated : of("external"), dst : of("resource")]
  /\ Len(tasks) = Cardinality(ToSet(tasks)) /\ Len(tasks) \in 1 .. Product
  /\ \A i \in DOMAIN tasks : tasks[i].src = Zero \/ \E n \in Networks :
       tasks[i].src[1] \div Span(n[2]) = n[1] \div Span(n[2])

\* An accepted row becomes one task for every combination of the addresses its
\* cells stand for, none twice and none too many, each in its own column, and
\* no task asks about a source outside of the operator's networks.
TasksCoverRow ==
  Answered("file") => \A k \in DOMAIN reply.tasks : Cover(reply.tasks[k], ParsedRows(subject[2])[k].row)

\* the parts of a row that are judged on their own
Parts == {{"from", "to"}, {"internal"}, {"external"}, {"resource"}, {"region"}}
Flawless == [c \in ToSet(Columns) |-> CASE c = "from" -> DateCell(0, FALSE)
                                        [] c = "to"   -> DateCell(1, FALSE)
                                        [] OTHER      -> Blank]

\* a flawless row but for one part
Alone(row, part) == [c \in ToSet(Columns) |-> IF c \in part THEN row[c] ELSE Flawless[c]]
\* the row is refused for something that is not in one of its parts
OfWholeRow(errors) == \E i \in DOMAIN errors : errors[i][2] \in
                        {"ROW_COLUMN_COUNT_MISMATCH", "DUPLICATE_REQUEST", "EXPANSION_LIMIT_EXCEEDED"}

\* The sender hears of every part of a row that is wrong at once: a part is
\* blamed exactly when it would be alone in a flawless row, and no column twice.
\* Of one part only what fails first is told, and of a row that is refused as a
\* whole nothing else.
NoErrorHidesAnother ==
  Answered("file") => \A k \in DOMAIN reply.errors :
    LET row    == ParsedRows(subject[2])[k].row
        errors == reply.errors[k]
    IN /\ ~OfWholeRow(errors) => \A part \in Parts :
            (RowErrors(Alone(row, part), subject[3]) # <<>>) <=> \E i \in DOMAIN errors : errors[i][1] \in part
       /\ \A i, j \in DOMAIN errors : errors[i][1] = errors[j][1] => i = j

\* What the answer to a file and the monitoring list count, row by row, but for
\* the valid_rows of the answer: told to the sender as accepted rows, they are
\* the tasks of those rows, which the monitoring list counts on its own.
Accounted(file, response) ==
  LET blamed == {k \in DOMAIN response.errors : response.errors[k] # <<>>} IN
  /\ response.total = Cardinality({n \in DOMAIN file.rows : ToSet(file.rows[n]) \ {Blank} # {}})
  /\ DOMAIN response.errors = 1 .. response.total
  /\ DOMAIN response.tasks = (1 .. response.total) \ blamed
  /\ response.rejected = Cardinality(blamed)
  /\ response.valid = Cardinality(UNION {{k} \X DOMAIN response.tasks[k] : k \in DOMAIN response.tasks})
  /\ response.valid + response.rejected = response.total
       <=> \A k \in DOMAIN response.tasks : Len(response.tasks[k]) = 1
  /\ response.status = IF blamed = {} THEN "accepted"
                       ELSE IF response.tasks = <<>> THEN "rejected" ELSE "partial"
  /\ RowStats(response) = [total |-> response.total, rejected |-> response.rejected,
                           passed |-> Cardinality(DOMAIN response.tasks)]

\* Nothing of a file gets lost: each of its rows has tasks or an error, the
\* counts of all and of rejected rows and the status tell which, and the
\* monitoring list, which counts the stored errors, says the same as the answer.
\* The answer's valid_rows agree with neither as soon as an accepted row has
\* more than one task: they are the number of tasks.
EveryRowAccounted == Answered("file") /\ reply.errors # <<>> => Accounted(subject[2], reply)

-----------------------------------------------------------------------------
(* Workbooks, downloads and mails.                                         *)

DataOf(rows) == At(rows, {i \in DOMAIN rows : rows[i][2] # 0})
SheetsOf(kind) == At(reply.workbook, {i \in DOMAIN reply.workbook : reply.workbook[i].kind = kind})
\* the readable files of a stage
FilesOf(key) == {f \in ToSet(Outputs(subject[2], key)) : Readable(f.path)}

\* what of an intake belongs in its workbook and can be read
Included ==
  {f.path : f \in FilesOf("aggregated") \cup FilesOf("spin")} \cup ToSet(reply.assomi.files)
  \cup IF subject[2].source = "nat" THEN ToSet(reply.source.files) ELSE {}

\* the sheets have what is in the files
Complete(sheets, files) ==
  LET data == DataOf(FlattenSeq([k \in DOMAIN sheets |-> sheets[k].rows]))
      index(line) == (CHOOSE f \in files : f.path[1] = line[1]).index
  IN /\ ToSet(data) = UNION {{<<f.path[1], n>> : n \in 1 .. f.path[2] - 1} : f \in files}
     /\ \A i, j \in DOMAIN data : i < j =>
          \/ index(data[i]) < index(data[j])
          \/ index(data[i]) = index(data[j]) /\ (data[i][1] = data[j][1] => data[i][2] < data[j][2])
     /\ \A k \in DOMAIN sheets : \A i \in DOMAIN sheets[k].rows :
          sheets[k].rows[i][2] = 0 <=> i = 1

\* The rows of every readable file of a stage are in the workbook, if one is
\* made, once, in the order of the files' indexes, with one header line on a
\* sheet, the first, and Excel opens it: no two sheets share a title, and none
\* is too long.
WorkbookHasAll ==
  Answered("report") /\ reply.results # "exception" =>
    /\ Complete(SheetsOf("aggregation"), FilesOf("aggregated"))
    /\ Complete(SheetsOf("spin"), FilesOf("spin"))
    /\ \A i, j \in DOMAIN reply.workbook : reply.workbook[i].title = reply.workbook[j].title => i = j
    /\ \A i \in DOMAIN reply.workbook : Len(reply.workbook[i].title) <= TitleLimit

\* A stage that can be downloaded on its own is the whole stage: the workbook
\* has no more of it, and none of its files is missing.  What ASSOMI left, and
\* the upload of a NAT intake, is in the workbook exactly when it can be
\* downloaded - if there is a workbook: a single file that is not encoded in
\* UTF-8, and nothing else, leaves the intake without one.
DownloadIsWhole ==
  Answered("report") =>
    /\ \A key \in {"aggregated", "spin"} :
         LET got == IF key = "spin" THEN reply.spin ELSE reply.aggregated IN
         got.status = "ok" => /\ ToSet(got.files) = FilesOf(key) /\ got.files # <<>>
                              /\ Gone \notin {f.path : f \in ToSet(Outputs(subject[2], key))}
    /\ reply.results = "exception" <=> \E path \in Included : ~Decodes(path)
    /\ reply.results # "exception" =>
       \A stage \in {<<"assomi", reply.assomi>>} \cup
                     IF subject[2].source = "nat" THEN {<<"application", reply.source>>} ELSE {} :
           [k \in DOMAIN SheetsOf(stage[1]) |-> SheetsOf(stage[1])[k].rows] =
           [k \in DOMAIN stage[2].files |-> Lines(stage[2].files[k])]

\* router.py:243 documents 404 and 409 next to the file: the results of an intake
\* that has ended are a workbook, or there are none, but no exception.
ResultsAnswered == Answered("report") => reply.results # "exception"

\* The mail speaks of its attachment as it is: what is attached fits and holds
\* something, what does not fit is named, and only an intake that was not
\* enriched, or has nothing to attach, is told that its results failed.  None is
\* written only when the workbook it should carry cannot be made.
MailTellsAttachment ==
  Answered("report") =>
    LET mail == reply.mail
        w    == subject[2]
        whole == CASE w.assomi # "completed" -> 0
                   [] w.assomi = "completed" /\ w.attach = "combined_xlsx" -> Size(reply.workbook)
                   [] w.assomi = "completed" /\ w.attach = "assomi_csv" ->
                        IF Readable(w.output) THEN w.output[2] ELSE 0
    IN /\ "attached" \in Says(mail) <=> mail.attachment # NoAttachment
       /\ mail.attachment # NoAttachment => whole \in 1 .. MaxBytes
       /\ "not attached" \in Says(mail) <=> whole > MaxBytes
       /\ mail.kind = "exception" <=>
            w.assomi = "completed" /\ w.attach = "combined_xlsx" /\ reply.results = "exception"
       /\ "failure" \in Says(mail) <=> whole = 0 /\ mail.kind # "exception"

-----------------------------------------------------------------------------
(* Lists.                                                                  *)

RootTable(list) == From(list, "list", [p \in {"paused", "single", "result", "assomi", "number"} |-> Null])[1][2]
Roots(list, tuples) == {tuple[RootTable(list)] : tuple \in tuples}

\* The statement that counts and the one that lists agree, though they join
\* other tables, and the list shows nothing twice.
CountMatchesList ==
  Answered("filter") /\ ~reply.refused =>
    /\ reply.count = Cardinality(reply.rows)
    /\ Cardinality(Roots(subject[3], reply.rows)) = Cardinality(reply.rows)

\* the parameters that split a list without a rest, and the words they know
Splits(list) ==
  CASE list = "intakes" -> {<<"paused", BOOLEAN>>, <<"channel", Words(list).channel>>}
    [] list = "monitoring" -> {<<"paused", BOOLEAN>>, <<"channel", Words(list).channel>>,
                               <<"result", Words(list).result>>, <<"assomi", Words(list).assomi>>}
    [] list = "tasks" -> {<<"status", Words(list).status>>}
    [] list = "messages" -> {<<"reply", Words(list).reply>>}
    [] OTHER -> {}

\* A row is found under exactly one value of such a parameter, whatever the
\* other parameters are: NULL is one of the values, or belongs to one.
FiltersSplitList ==
  Answered("filter") /\ ~reply.refused =>
    \A split \in Splits(subject[3]) : subject[4][split[1]] = Null =>
      LET part(v) == Roots(subject[3], Selected(subject[2], subject[3], "list",
                                                [subject[4] EXCEPT ![split[1]] = v]))
      IN /\ UNION {part(v) : v \in split[2]} = Roots(subject[3], reply.rows)
         /\ \A u, v \in split[2] : u # v => part(u) \cap part(v) = {}

\* A client that reads on while there is more gets as many rows as it was told,
\* in order, and, unless rows tie in the order, every row once.
WalkShowsAll ==
  Answered("walk") /\ ~reply.refused =>
    LET db == subject[2]
        list == subject[3][1]
        order == OrderBy(list, subject[3][3])
        rows == Selected(db, list, "list", subject[3][2])
        seen == FlattenSeq([n \in DOMAIN reply.pages |-> reply.pages[n].data])
    IN /\ Len(seen) = Cardinality(rows)
       /\ \A n \in DOMAIN reply.pages : /\ reply.pages[n].meta.total = Len(seen)
                                        /\ reply.pages[n].data = <<>> => seen = <<>>
       /\ \A i, j \in DOMAIN seen : i < j => ~Precedes(seen[j], seen[i], order)
       /\ (\A a, b \in rows : a # b => Precedes(a, b, order) \/ Precedes(b, a, order)) => ToSet(seen) = rows

\* A text filter finds the text and nothing else, % and _ and \ included.
LikeIsSubstring ==
  LET text == subject[2]
      value == subject[3]
  IN Answered("text") =>
       (reply.matches <=> \E k \in 0 .. Len(value) : /\ k + Len(text) <= Len(value)
                                                     /\ SubSeq(value, k + 1, k + Len(text)) = text)
=============================================================================
