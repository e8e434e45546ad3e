----------------------------- MODULE MCRequests -----------------------------
(* A small instance of Requests for TLC. *)
EXTENDS Requests

-----------------------------------------------------------------------------
(* Files.  Addresses of four bits; 8 .. 15 and 0 .. 1 are the operator's.   *)

InternalNetworks == {<<8, 1>>, <<0, 3>>}

Dates == {<<DateCell(0, FALSE), DateCell(1, FALSE)>>,   \* in order
          <<DateCell(0, FALSE), DateCell(4, FALSE)>>,   \* too long
          <<DateCell(3, FALSE), DateCell(6, FALSE)>>,   \* ends today
          <<DateCell(4, FALSE), DateCell(1, FALSE)>>,   \* reversed
          <<DateCell(0, TRUE), DateCell(1, FALSE)>>,    \* one has an offset
          <<Blank, DateCell(1, FALSE)>>, <<Junk, Junk>>}

\* single addresses, aligned and unaligned networks, inside, across and outside
Internals == {Blank, Junk, BadPort, IpCell(11, Single, 2), IpCell(2, Single, 0), IpCell(1, 4, 0),
              IpCell(12, 3, 1), IpCell(11, 2, 0), IpCell(8, 1, 0), IpCell(0, 1, 0), IpCell(8, 0, 0)}
Others    == {Zero, Junk, IpCell(3, Single, 0), IpCell(2, 3, 1), IpCell(5, 2, 0), IpCell(3, 1, 0), IpCell(3, 0, 0)}
Regions   == {Blank, Region(1), Junk}

RowOf(dates, internal, external, resource, region) ==
  <<dates[1], dates[2], internal, external, resource, region>>

SingleRows ==
  {RowOf(d, i, e, r, g) : d \in Dates, i \in {Blank, Junk, IpCell(11, Single, 2), IpCell(8, 0, 0)},
                          e \in {Zero, IpCell(2, 3, 1)}, r \in {Blank, BadPort}, g \in Regions}
  \cup {RowOf(<<DateCell(0, FALSE), DateCell(1, FALSE)>>, i, e, r, Region(2)) :
          i \in Internals, e \in Others, r \in Others}

File(name, headers, rows) == [name |-> name, headers |-> headers, rows |-> rows]

Good  == RowOf(<<DateCell(0, FALSE), DateCell(1, FALSE)>>, IpCell(12, 3, 0), IpCell(2, 3, 1), Blank, Region(1))
Again == RowOf(<<DateCell(0, FALSE), DateCell(1, FALSE)>>, IpCell(12, 3, 0), IpCell(2, 3, 1), Zero, Region(1))
Other == RowOf(<<DateCell(0, FALSE), DateCell(1, FALSE)>>, Blank, IpCell(3, Single, 1), Blank, Blank)
Wrong == RowOf(<<Junk, DateCell(1, FALSE)>>, Junk, Blank, Blank, Region(1))
Large == RowOf(<<DateCell(0, FALSE), DateCell(1, FALSE)>>, IpCell(8, 1, 0), IpCell(2, 3, 0), Blank, Region(1))
Mixed == RowOf(<<DateCell(0, TRUE), DateCell(1, FALSE)>>, Blank, Blank, Blank, Blank)
Empty == <<Blank, Blank, Blank, Blank, Blank, Blank>>
Kinds == {Good, Again, Other, Wrong, Large, Mixed, Empty, SubSeq(Good, 1, 5)}

Rotated(s, n) == [i \in DOMAIN s |-> s[((i + n - 1) % Len(s)) + 1]]

UploadedFiles ==
  {<<File("csv", Columns, <<row>>), enforce>> : row \in SingleRows, enforce \in {{}, {"past", "duration"}}}
  \cup {<<File(name, Columns, <<a, b, c>>), {}>> : name \in {"csv", "xlsx"}, a, b, c \in Kinds}
  \cup {<<File(name, Rotated(Columns, n), <<Rotated(a, n), Rotated(b, n)>>), {"past"}>> :
          name \in {"csv", "xlsx"}, n \in 1 .. 5, a, b \in Kinds \ {SubSeq(Good, 1, 5)}}
  \cup {<<File(name, headers, rows), {}>> : name \in {"missing", "other", "csv"},
          headers \in {<<>>, Columns, Tail(Columns), Append(Columns, "region")},
          rows \in {<<>>, <<Good>>, <<Append(Good, Region(2))>>, <<Good, Other, Wrong, Large>>}}

-----------------------------------------------------------------------------
(* Reports.  ASSOMI is asked about a SPIN file and leaves a file of its own. *)

PathsOf(n) == {NoPath, Gone, <<"s" \o ToString(n), 0, TRUE>>, <<"s" \o ToString(n), 3, TRUE>>}
              \cup IF n = 1 THEN {<<"s1", 3, FALSE>>} ELSE {}
OneOutput(n) == [index : {1, 2}, aggregated : {<<"a" \o ToString(n), 2, TRUE>>, NoPath}, spin : PathsOf(n)]

Intakes ==
  {[rejected |-> FALSE, source |-> source, batch |-> TRUE, application |-> application,
    aggregation |-> aggregation, outputs |-> outputs, assomi |-> assomi, output |-> output,
    merge |-> merge, attach |-> attach] :
     source \in {"nat", "manual_spin"}, application \in {Gone, <<"upload", 2, TRUE>>},
     aggregation \in {"pending", "completed"},
     outputs \in {<<>>} \cup {<<o>> : o \in OneOutput(1)} \cup {<<o, q>> : o \in OneOutput(1), q \in OneOutput(2)},
     assomi \in {"none", "failed", "completed"}, output \in {NoPath, Gone, <<"logins", 2, TRUE>>, <<"logins", 2, FALSE>>, <<"logins", 5, TRUE>>},
     merge \in BOOLEAN, attach \in {"assomi_csv", "combined_xlsx"}}
Rejected ==
  [rejected |-> TRUE, source |-> "nat", batch |-> FALSE, application |-> NoPath, aggregation |-> "none",
   outputs |-> <<>>, assomi |-> "none", output |-> NoPath, merge |-> TRUE, attach |-> "combined_xlsx"]
AllReports == {w \in Intakes : /\ w.source = "manual_spin" => w.application = Gone
                               /\ w.aggregation = "pending" => w.outputs = <<>>
                               /\ w.assomi # "none" => \E k \in DOMAIN w.outputs : w.outputs[k].spin # NoPath
                               /\ w.assomi = "completed" <=> w.output # NoPath}
              \cup {Rejected}

\* One NAT intake, with the settings of .env.example: ASSOMI writes cp1251.
ShippedReports ==
  {[rejected |-> FALSE, source |-> "nat", batch |-> TRUE, application |-> <<"upload", 2, TRUE>>,
    aggregation |-> "completed",
    outputs |-> <<[index |-> 1, aggregated |-> <<"a1", 2, TRUE>>, spin |-> <<"s1", 3, TRUE>>]>>,
    assomi |-> "completed", output |-> <<"logins", 2, FALSE>>, merge |-> TRUE, attach |-> "assomi_csv"]}

-----------------------------------------------------------------------------
(* Lists.                                                                  *)

IntakeRow(n, at, status) ==
  [id |-> n, number |-> n, sender |-> IF n = 1 THEN <<"a", "_">> ELSE <<"a", "b">>, file |-> <<"f">>,
   at |-> at, status |-> status, source |-> "nat"]
BatchRow(n, paused, single) ==
  [id |-> n, intake |-> n, paused |-> paused, single |-> single, rows |-> 3 - n, at |-> n]
TaskRow(n, batch, status, at) ==
  [id |-> n, batch |-> batch, status |-> status, request |-> IF n = 1 THEN Null ELSE "3",
   region |-> n % 2, at |-> at]
StageRow(n, status, at) ==
  [id |-> n, batch |-> n, status |-> status, at |-> n, done |-> at, aggregation |-> n]
MessageRow(n, intake, reply1) ==
  [id |-> n, intake |-> intake, sender |-> <<"a">>, processing |-> "accepted", reply |-> reply1, at |-> 1]

\* three intakes, the last one refused; the tasks of a batch are of one moment
DB1 == [intake  |-> {IntakeRow(1, 1, "accepted"), IntakeRow(2, 2, "partially_accepted"), IntakeRow(3, 3, "rejected")},
        batch   |-> {BatchRow(1, TRUE, FALSE), BatchRow(2, FALSE, TRUE)},
        task    |-> {TaskRow(1, 1, Null, 1), TaskRow(2, 1, "1", 1), TaskRow(3, 2, "3", 2)},
        result  |-> {StageRow(1, "completed", 5), StageRow(2, "pending", Null)},
        assomi  |-> {StageRow(1, "failed", 6)},
        message |-> {MessageRow(1, 1, "sent"), MessageRow(2, Null, Null), MessageRow(3, 3, "failed")},
        sender  |-> {[id |-> 1, email |-> 1, name |-> 2, active |-> TRUE, at |-> 1, updated |-> 1],
                     [id |-> 2, email |-> 2, name |-> 2, active |-> FALSE, at |-> 2, updated |-> Null]},
        error   |-> {[id |-> 1, intake |-> 3, row |-> 1], [id |-> 2, intake |-> 3, row |-> 2],
                     [id |-> 3, intake |-> 2, row |-> 1]}]
DB2 == [intake |-> {IntakeRow(1, 1, "rejected")}, batch |-> {}, task |-> {}, result |-> {}, assomi |-> {},
        message |-> {}, sender |-> {}, error |-> {}]
AllDatabases == {DB1, DB2}

Numbers == {Null, 1}
AllFilters == [
  intakes |-> [id : {Null}, number : Numbers, sender : {Null, <<"_">>}, file : {Null}, from : {Null, 2},
               to : {Null, 2}, status : {Null, "accepted", "paused"}, source : {Null, "nat"},
               paused : {Null, TRUE, FALSE}, channel : {Null, "email", "web"}, single : {Null, TRUE, FALSE}],
  monitoring |-> [id : {Null}, number : Numbers, sender : {Null}, file : {Null}, from : {Null}, to : {Null},
               status : {Null}, source : {Null}, paused : {Null, TRUE, FALSE},
               channel : {Null, "email", "web"}, single : {Null, TRUE, FALSE},
               result : {Null, "null", "pending", "completed"}, assomi : {Null, "null", "failed", "aggregating"}],
  batches |-> [id : {Null, 1}, number : Numbers, sender : {Null, <<"_">>}, file : {Null, <<"f">>}, from : {Null, 2},
               to : {Null, 1}, min : {Null, 2}, max : {Null, 1}],
  tasks |-> [batch : Numbers, number : Numbers, status : {Null, "null", "1", "x"},
             request : {Null, "null", "3"}, region : {Null, 1}, from : {Null, 2}, to : {Null, 1}],
  results |-> [id : {Null, 1}, batch : Numbers, number : Numbers, status : {Null, "null", "pending"},
               from : {Null, 2}, to : {Null}, doneFrom : {Null, 5}, doneTo : {Null, 4}],
  assomi |-> [id : {Null, 1}, aggregation : {Null, 1}, batch : Numbers, number : Numbers, status : {Null, "failed"},
              from : {Null}, to : {Null, 2}, doneFrom : {Null, 7}, doneTo : {Null, 6}],
  messages |-> [sender : {Null, <<"a">>, <<"%">>}, processing : {Null, "accepted", "skipped"},
                reply : {Null, "null", "sent", "failed", "none"}, from : {Null, 1}, to : {Null, 1}],
  senders |-> [email : {Null}, active : {Null, TRUE, FALSE}],
  errors |-> [intake : {1, 2, 3}]]

Free(list) == CHOOSE f \in AllFilters[list] : \A p \in DOMAIN f : f[p] = IF p = "intake" THEN 3 ELSE Null
Sorts(list) == DOMAIN SortOf(list) \ {"file_name", "sender_email", "status"}
AllWalks ==
  UNION {{<<list, Free(list), [by |-> by, order |-> order], requested>> :
            by \in Sorts(list), order \in {"asc", "desc"}, requested \in {Null, 1, 2, 5}} :
         list \in DOMAIN AllFilters}
  \cup {<<list, Free(list), [by |-> Null, order |-> order], Null>> : list \in DOMAIN AllFilters, order \in {Null, "asc"}}
  \cup {<<"tasks", Free("tasks"), [by |-> by, order |-> "up"], 1>> : by \in {"created_at", "region"}}

Characters == {"a", "%", "_", "\\"}
UpTo(n) == UNION {[1 .. m -> Characters] : m \in 0 .. n}
AllTexts == UpTo(2) \X UpTo(3)
=============================================================================
