------------------------------ MODULE RowRules ------------------------------
(***************************************************************************)
(* What an upload makes of a file: reading by header names, the rules of a *)
(* row, the addresses its IP columns stand for and the tasks they become.  *)
(* Pure operators.  Addresses have W bits instead of 32; a cell is a tuple *)
(* that says what the parsers make of its text.                            *)
(***************************************************************************)
EXTENDS Naturals, FiniteSets, Sequences, SequencesExt, Ordering

CONSTANTS
  W,            \* bits of an address
  Networks,     \* NAT_BELTELECOM_INTERNAL_NETWORKS as <<address, prefix length>>
  CidrAllowed,  \* NAT_CIDR_ALLOWED_FIELDS, a set of columns
  Expanded,     \* NAT_CIDR_EXPANSION_FIELDS
  PerField,     \* NAT_MAX_EXPANSION_PER_FIELD
  Product,      \* NAT_MAX_TOTAL_EXPANSION_PRODUCT
  Today,        \* the current day in NAT_DATE_VALIDATION_TIMEZONE
  MaxRange,     \* NAT_MAX_DATE_RANGE_SECONDS, in half days
  MaxRows       \* NAT_MAX_BATCH_ROWS

IpColumns == <<"internal", "external", "resource">>
Columns   == <<"from", "to", "internal", "external", "resource", "region">>

\* of two
Powers[n \in 0 .. W] == IF n = 0 THEN 1 ELSE 2 * Powers[n - 1]
\* the number of addresses that begin with the same bits, so many of them
Span(prefix) == Powers[W - prefix]
Addresses    == 0 .. Span(0) - 1

ASSUME RowAssumption ==
  /\ W \in Nat /\ \A n \in Networks : n[1] \in Addresses /\ n[2] \in 0 .. W
  /\ CidrAllowed \subseteq ToSet(IpColumns) /\ Expanded \subseteq ToSet(IpColumns)
  /\ PerField \in Nat \ {0} /\ Product \in Nat \ {0} /\ MaxRange \in Nat \ {0}
  /\ Today \in Nat \ {0} /\ MaxRows \in Nat \ {0}

\* Cells.  A date has a wall clock in half days and may carry an offset
\* ("aware"); an IP has a prefix length, Single when it is written without
\* one, and a port, 0 for none.
Blank  == <<"blank">>
Zero   == <<"placeholder">>   \* NAT_MISSING_FIELD_PLACEHOLDER
Junk   == <<"junk">>
BadPort == <<"badport">>
DateCell(wall, aware) == <<"date", wall, aware>>
Single == W + 1
IpCell(address, prefix, port) == <<"ip", address, prefix, port>>
Region(n) == <<"region", n>>

Missing(cell)   == cell \in {Blank, Zero}   \* is_missing_optional_value
IsDate(cell)    == cell[1] = "date"
IsNetwork(cell) == cell[3] # Single

When(condition, c, code) == IF condition THEN <<<<c, code>>>> ELSE <<>>
\* the code of the first check that fails
FirstOf(c, checks) == LET failing == {i \in DOMAIN checks : checks[i][1]}
                      IN IF failing = {} THEN <<>> ELSE <<<<c, checks[Min(failing)][2]>>>>

-----------------------------------------------------------------------------
(* validate_row and its validators.  A row is a function of Columns.       *)

\* parse_date and the missing check before it; the latter has reported the
\* column already when the loop over the dates comes to it
\* Mutant: the loop does not look for that report.
DateError_Twice(row, c) == When(row[c] = Blank, c, "MISSING_REQUIRED_FIELD") \o
                           When(~IsDate(row[c]), c, "INVALID_DATE_FORMAT")
DateError(row, c) == When(row[c] = Blank, c, "MISSING_REQUIRED_FIELD") \o
                     When(row[c] # Blank /\ ~IsDate(row[c]), c, "INVALID_DATE_FORMAT")

BothDates(row) == IsDate(row["from"]) /\ IsDate(row["to"])

\* Python compares a naive with an aware datetime by raising TypeError
Raises(row) == BothDates(row) /\ row["from"][3] # row["to"][3]

\* validate_date_range, .._is_in_past, .._max_duration: the first that fails
RangeError(row, enforce) ==
  LET from == row["from"][2]
      to   == row["to"][2]
      past == "past" \in enforce /\ to \div 2 >= Today
  IN IF ~BothDates(row) THEN <<>>
     ELSE FirstOf("to", <<
            <<to < from, "INVALID_DATE_RANGE">>,
            <<past, "DATE_RANGE_NOT_IN_PAST">>,
            <<"duration" \in enforce /\ to - from > MaxRange, "DATE_RANGE_LIMIT_EXCEEDED">> >>)

\* ipaddress: first and last address of the network of an address and a prefix
FirstAddress(address, prefix) == (address \div Span(prefix)) * Span(prefix)
LastAddress(address, prefix)  == FirstAddress(address, prefix) + Span(prefix) - 1

\* Mutant: a network need only begin in an allowed one.
Beltelecom_FirstOnly(cell) ==
  LET prefix == IF IsNetwork(cell) THEN cell[3] ELSE W IN
  \E n \in Networks : FirstAddress(cell[2], prefix) \in FirstAddress(n[1], n[2]) .. LastAddress(n[1], n[2])
\* _is_beltelecom_ip: subnet_of one network, or an address in it
Beltelecom(cell) ==
  LET prefix == IF IsNetwork(cell) THEN cell[3] ELSE W IN
  \E n \in Networks : /\ FirstAddress(n[1], n[2]) <= FirstAddress(cell[2], prefix)
                      /\ LastAddress(cell[2], prefix) <= LastAddress(n[1], n[2])

\* validate_ip_field with parse_ip_value
IpError(row, c) ==
  LET cell == row[c]
      ip   == cell[1] = "ip"
  IN IF Missing(cell) THEN <<>>
     ELSE FirstOf(c, <<
            <<cell = BadPort, "INVALID_PORT">>,
            <<~ip, "INVALID_IP_FORMAT">>,
            <<ip /\ IsNetwork(cell) /\ c \notin CidrAllowed, "CIDR_NOT_ALLOWED">>,
            <<ip /\ c = "internal" /\ ~Beltelecom(cell), "IP_NOT_BELTELECOM">> >>)

RegionError(row) ==
  When(~Missing(row["region"]) /\ row["region"][1] # "region", "region", "INVALID_REGION")

DateErrors(row, enforce) == DateError(row, "from") \o DateError(row, "to") \o RangeError(row, enforce)
IpErrors(row) == IpError(row, "internal") \o IpError(row, "external") \o IpError(row, "resource")

\* Mutant: what follows is not looked at in a row whose dates are wrong.
RowErrors_DatesFirst(row, enforce) ==
  IF DateErrors(row, enforce) # <<>> THEN DateErrors(row, enforce)
  ELSE IpErrors(row) \o RegionError(row)
RowErrors(row, enforce) == DateErrors(row, enforce) \o IpErrors(row) \o RegionError(row)

-----------------------------------------------------------------------------
(* transform: the axes of the IP columns and their product.                *)

Axis(row, c) ==
  LET cell == row[c]
      first == FirstAddress(cell[2], cell[3])
      last  == LastAddress(cell[2], cell[3])
      \* IPv4Network.hosts leaves out the network and the broadcast address,
      \* unless there is nothing between them
      edge == IF cell[3] >= W - 1 THEN 0 ELSE 1
  IN CASE Missing(cell) -> <<Zero>>
       [] ~Missing(cell) /\ ~IsNetwork(cell) -> <<<<cell[2], cell[4]>>>>
       [] ~Missing(cell) /\ IsNetwork(cell) /\ c \notin Expanded -> <<<<first, cell[4]>>>>
       [] ~Missing(cell) /\ IsNetwork(cell) /\ c \in Expanded ->
            [i \in 1 .. last - first + 1 - 2 * edge |-> <<first + edge + i - 1, cell[4]>>]

\* a row becomes the product of its three axes, or one error
\* Mutant: the source is what the row calls external.
Tasks_Swapped(row) ==
  FlattenSeq([i \in DOMAIN Axis(row, "internal") |-> FlattenSeq([e \in DOMAIN Axis(row, "external") |->
    [r \in DOMAIN Axis(row, "resource") |->
      [src |-> Axis(row, "external")[e], xlated |-> Axis(row, "internal")[i],
       dst |-> Axis(row, "resource")[r]]]])])
Tasks(row) ==
  FlattenSeq([i \in DOMAIN Axis(row, "internal") |-> FlattenSeq([e \in DOMAIN Axis(row, "external") |->
    [r \in DOMAIN Axis(row, "resource") |->
      [src |-> Axis(row, "internal")[i], xlated |-> Axis(row, "external")[e],
       dst |-> Axis(row, "resource")[r]]]])])

ExpansionError(row) ==
  LET size(c) == Len(Axis(row, c))
      tooLong == {i \in DOMAIN IpColumns : IpColumns[i] \in Expanded /\ size(IpColumns[i]) > PerField}
  IN IF tooLong # {} THEN <<<<IpColumns[Min(tooLong)], "EXPANSION_LIMIT_EXCEEDED">>>>
     ELSE When(size("internal") * size("external") * size("resource") > Product,
               "none", "EXPANSION_LIMIT_EXCEEDED")

-----------------------------------------------------------------------------
(* The file.  A file has a name, headers and rows of cells.                *)

\* _trim_trailing_empty: an XLSX row ends with its last cell that is not empty
Cells(file, cells) ==
  LET filled == {i \in DOMAIN cells : cells[i] # Blank}
  IN IF file.name = "xlsx" THEN SubSeq(cells, 1, CHOOSE n \in 0 .. Len(cells) :
                                  /\ \A i \in filled : i <= n
                                  /\ n # 0 => n \in filled)
     ELSE cells

\* _build_parsed_row: by header names; of two equal headers the last one wins
ParsedRow(headers, cells) ==
  [c \in ToSet(headers) |-> LET i == CHOOSE i \in DOMAIN headers :
                                       /\ headers[i] = c
                                       /\ \A j \in DOMAIN headers : headers[j] = c => j <= i
                            IN IF i <= Len(cells) THEN cells[i] ELSE Blank]

ParsedRows(file) ==
  LET data == At(file.rows, {n \in DOMAIN file.rows :
                               \E i \in DOMAIN file.rows[n] : file.rows[n][i] # Blank})
  IN [k \in DOMAIN data |-> [row   |-> ParsedRow(file.headers, Cells(file, data[k])),
                             count |-> Len(Cells(file, data[k]))]]

\* the checks of a file before its rows; <<>> when the rows are looked at
FileError(file) ==
  LET rows == ParsedRows(file) IN
  FirstOf("none", <<
    <<file.name = "missing", "MISSING_FILENAME">>,
    <<file.name = "other", "INVALID_FILE_FORMAT">>,
    <<file.headers = <<>> /\ rows = <<>>, "EMPTY_FILE">>,
    <<ToSet(file.headers) # ToSet(Columns), "INVALID_HEADERS">>,
    <<rows = <<>>, "EMPTY_FILE">>,
    <<Len(rows) > MaxRows, "TOO_MANY_ROWS">> >>)

\* Two rows are the same request when their keys are equal: texts, but for the
\* ways to leave an optional value out.
Key(row) == [c \in ToSet(Columns) |-> IF Missing(row[c]) THEN Blank ELSE row[c]]

\* Mutant: the second of two equal rows is dropped without a word.
RepeatError_Silent == <<>>
RepeatError == <<<<"none", "DUPLICATE_REQUEST">>>>

\* IntakeService.process of a file whose rows nobody has sent before
Response(file, enforce) ==
  LET rows   == ParsedRows(file)
      well(k) == rows[k].count = Len(Columns)
      own(k) == IF well(k) THEN RowErrors(rows[k].row, enforce)
                ELSE <<<<"none", "ROW_COLUMN_COUNT_MISMATCH">>>>
      valid  == {k \in DOMAIN rows : own(k) = <<>>}
      first  == {k \in valid : \A j \in valid : Key(rows[j].row) = Key(rows[k].row) => k <= j}
      tooBig == {k \in first : ExpansionError(rows[k].row) # <<>>}
      taken  == first \ tooBig
      errors == [k \in DOMAIN rows |-> own(k)
                   \o IF k \in valid \ first THEN RepeatError ELSE <<>>
                   \o IF k \in tooBig THEN ExpansionError(rows[k].row) ELSE <<>>]
      reply(status, code, rowErrors, total, accepted) ==
        [status |-> status, code |-> code, errors |-> rowErrors, total |-> total,
         rejected |-> total - Cardinality(accepted),
         \* valid_rows is the length of transformed_rows
         valid |-> Len(FlattenSeq([k \in DOMAIN rows |->
                     IF k \in accepted THEN Tasks(rows[k].row) ELSE <<>>])),
         tasks |-> [k \in accepted |-> Tasks(rows[k].row)]]
  IN IF FileError(file) # <<>> THEN reply("rejected", FileError(file)[1][2], <<>>, 0, {})
     ELSE IF \E k \in DOMAIN rows : well(k) /\ Raises(rows[k].row)
          THEN reply("exception", "none", <<>>, 0, {})
     ELSE IF taken = {} THEN reply("rejected", "NO_VALID_ROWS", errors, Len(rows), {})
     ELSE reply(IF \A k \in DOMAIN rows : errors[k] = <<>> THEN "accepted" ELSE "partial",
                "none", errors, Len(rows), taken)

\* _build_row_stats: what the monitoring list shows later, from the row count of
\* the batch and the distinct row numbers of the stored errors
RowStats(response) ==
  LET rejected == Cardinality({k \in DOMAIN response.errors : response.errors[k] # <<>>})
      stats(total) == [total |-> total, rejected |-> rejected, passed |-> total - rejected]
  IN CASE response.status \in {"accepted", "partial"} -> stats(response.total)
       [] response.code = "NO_VALID_ROWS" -> stats(rejected)
       [] OTHER -> stats(0)   \* nothing is shown of a file refused as such
=============================================================================
