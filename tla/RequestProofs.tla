--------------------------- MODULE RequestProofs ---------------------------
(***************************************************************************)
(* What single requests get for an answer, for every file, every intake    *)
(* and every setting: an answer is what its handler makes of the request   *)
(* (AnsweredRight), and the properties follow from what the operators of   *)
(* RowRules, Workbook and Listing compute.                                 *)
(***************************************************************************)
EXTENDS Requests, DataLemmas, SequenceTheorems

Asked ==
  \/ subject = <<"token">>
  \/ \E r \in FileRequests : subject = <<"file", r[1], r[2]>>
  \/ \E w \in Reports : subject = <<"report", w>>
  \/ \E db \in Databases, list \in DOMAIN Filters :
       \E f \in Filters[list] : subject = <<"filter", db, list, f>>
  \/ \E db \in Databases, walk \in Walks : subject = <<"walk", db, walk>>
  \/ \E text \in Texts : subject = <<"text", text[1], text[2]>>

ReportReply(w) ==
  [results |-> IntakeResults(w).status, workbook |-> IntakeResults(w).sheets, mail |-> Mail(w),
   aggregated |-> Download(w, "aggregated"), spin |-> Download(w, "spin"),
   assomi |-> AssomiDownload(w), source |-> SourceDownload(w)]

FilterReply(db, list, f) ==
  LET rows(statement) == Selected(db, list, statement, f)
  IN IF UnknownWord(list, f) THEN [refused |-> TRUE]
     ELSE [refused |-> FALSE, count |-> Cardinality(rows("count")), rows |-> rows("list")]

\* The answer belongs to what was asked.
Right ==
  /\ Answered("file") => reply = Response(subject[2], subject[3])
  /\ Answered("report") => reply = ReportReply(subject[2])
  /\ Answered("filter") => reply = FilterReply(subject[2], subject[3], subject[4])
  /\ Answered("walk") => reply \in WalkReplies(subject[2], subject[3])
  /\ Answered("text") => reply = [matches |-> Matches(subject[3], Pattern(subject[2]))]

\* An answer is that of its handler to what was asked, and stays.
LEMMA AnsweredRight == RequestSpec => [](Asked /\ Right)
<1>1. RequestInit => Asked /\ Right
  BY DEF RequestInit, Asked, Right, Answered
<1>2. ASSUME Asked, Right, [RequestNext]_<<subject, reply, tokenVars>> PROVE (Asked /\ Right)'
  <2>1. CASE UNCHANGED <<subject, reply>>
    BY <1>2, <2>1 DEF Asked, Right, Answered
  <2>2. CASE Answer
    <3>1. subject' = subject
      BY <2>2 DEF Answer
    <3>2. Asked'
      BY <1>2, <3>1 DEF Asked
    <3>3. subject[1] = "file" => reply' = Response(subject[2], subject[3])
      BY <2>2 DEF Answer
    <3>4. subject[1] = "report" => reply' = ReportReply(subject[2])
      BY <2>2 DEF Answer, ReportReply
    <3>5. subject[1] = "text" => reply' = [matches |-> Matches(subject[3], Pattern(subject[2]))]
      BY <2>2 DEF Answer
    <3>6. subject[1] = "filter" => reply' = FilterReply(subject[2], subject[3], subject[4])
      BY <2>2 DEF Answer, FilterReply
    <3>7. subject[1] = "walk" => reply' \in WalkReplies(subject[2], subject[3])
      BY <2>2 DEF Answer
    <3> QED
      BY <3>1, <3>2, <3>3, <3>4, <3>5, <3>6, <3>7 DEF Right, Answered
  <2> QED
    BY <1>2, <2>1, <2>2 DEF RequestNext, requestVars
<1> QED
  BY <1>1, <1>2, PTL DEF RequestSpec

-----------------------------------------------------------------------------
(* The rules of a row: what is said of which column. *)

Codes == {"MISSING_REQUIRED_FIELD", "INVALID_DATE_FORMAT", "INVALID_DATE_RANGE",
          "DATE_RANGE_NOT_IN_PAST", "DATE_RANGE_LIMIT_EXCEEDED", "INVALID_PORT",
          "INVALID_IP_FORMAT", "CIDR_NOT_ALLOWED", "IP_NOT_BELTELECOM", "INVALID_REGION",
          "ROW_COLUMN_COUNT_MISMATCH", "DUPLICATE_REQUEST", "EXPANSION_LIMIT_EXCEEDED"}

\* At most one entry, and that about c.
One(s, c) == s = << >> \/ \E code \in Codes : s = <<<<c, code>>>>

\* Entries about columns of C, no two of them about one.
Clean(s, C) == /\ s \in Seq(C \X Codes)
               /\ \A i, j \in 1 .. Len(s) : s[i][1] = s[j][1] => i = j
Blames(s, c) == \E i \in DOMAIN s : s[i][1] = c

\* One entry about c, or none, is at most one entry about c.
LEMMA OneEntry ==
  ASSUME NEW c, NEW code \in Codes
  PROVE  One(<<<<c, code>>>>, c) /\ <<<<c, code>>>> # << >> /\ One(<< >>, c)
BY DEF One

\* At most one entry blames its column when it is there, and no other column.
LEMMA OneIsClean ==
  ASSUME NEW c, NEW s, One(s, c)
  PROVE  Clean(s, {c}) /\ \A d : Blames(s, d) <=> d = c /\ s # << >>
<1>1. CASE s = << >>
  BY <1>1 DEF Clean, Blames
<1>2. ASSUME NEW code \in Codes, s = <<<<c, code>>>>
      PROVE  Clean(s, {c}) /\ \A d : Blames(s, d) <=> d = c /\ s # << >>
  <2>1. <<c, code>> \in {c} \X Codes
    OBVIOUS
  <2>2. s \in Seq({c} \X Codes) /\ Len(s) = 1 /\ DOMAIN s = 1 .. 1 /\ s[1] = <<c, code>> /\ s # << >>
    BY <1>2, <2>1, SingletonSeq
  <2>3. s[1][1] = c
    BY <2>2
  <2> QED
    BY <2>2, <2>3 DEF Clean, Blames
<1> QED
  BY <1>1, <1>2 DEF One

\* Entries about columns of two disjoint sets stay clean when joined, and blame what either part blames.
LEMMA CleanJoins ==
  ASSUME NEW C, NEW D, C \cap D = {}, NEW s, NEW t, Clean(s, C), Clean(t, D)
  PROVE  /\ Clean(s \o t, C \cup D)
         /\ \A c : Blames(s \o t, c) <=> Blames(s, c) \/ Blames(t, c)
         /\ s \o t = << >> <=> s = << >> /\ t = << >>
<1> DEFINE u == s \o t
           X == (C \cup D) \X Codes
<1>1. s \in Seq(X) /\ t \in Seq(X) /\ Len(s) \in Nat /\ Len(t) \in Nat
  BY DEF Clean
<1>2. /\ u \in Seq(X) /\ Len(u) = Len(s) + Len(t)
      /\ \A i \in 1 .. Len(s) : u[i] = s[i]
      /\ \A i \in 1 .. Len(t) : u[Len(s) + i] = t[i]
      /\ DOMAIN u = 1 .. Len(u) /\ DOMAIN s = 1 .. Len(s) /\ DOMAIN t = 1 .. Len(t)
  BY <1>1
<1>3. \A i \in 1 .. Len(u) : i \in 1 .. Len(s) \/ (i - Len(s) \in 1 .. Len(t) /\ i = Len(s) + (i - Len(s)))
  BY <1>1, <1>2
<1>4. \A i \in 1 .. Len(t) : Len(s) + i \in 1 .. Len(u)
  BY <1>1, <1>2
<1>5. \A i \in 1 .. Len(s) : i \in 1 .. Len(u) /\ s[i][1] \in C
  BY <1>1, <1>2 DEF Clean
<1>6. \A i \in 1 .. Len(t) : t[i][1] \in D
  BY <1>1, <1>2 DEF Clean
<1> HIDE DEF u, X
<1>7. ASSUME NEW i \in 1 .. Len(u), NEW j \in 1 .. Len(u), u[i][1] = u[j][1] PROVE i = j
  <2>1. CASE i \in 1 .. Len(s) /\ j \in 1 .. Len(s)
    <3>1. u[i] = s[i] /\ u[j] = s[j]
      BY <1>2, <2>1
    <3> QED
      BY <1>7, <2>1, <3>1 DEF Clean
  <2>2. CASE i \in 1 .. Len(s) /\ j \notin 1 .. Len(s)
    <3>1. u[i] = s[i] /\ u[j] = t[j - Len(s)] /\ j - Len(s) \in 1 .. Len(t)
      BY <1>2, <1>3, <2>2
    <3> QED
      BY <1>5, <1>6, <1>7, <2>2, <3>1
  <2>3. CASE i \notin 1 .. Len(s) /\ j \in 1 .. Len(s)
    <3>1. u[j] = s[j] /\ u[i] = t[i - Len(s)] /\ i - Len(s) \in 1 .. Len(t)
      BY <1>2, <1>3, <2>3
    <3> QED
      BY <1>5, <1>6, <1>7, <2>3, <3>1
  <2>4. CASE i \notin 1 .. Len(s) /\ j \notin 1 .. Len(s)
    <3>1. i - Len(s) = j - Len(s)
      <4>1. i - Len(s) \in 1 .. Len(t) /\ j - Len(s) \in 1 .. Len(t)
        BY <1>3, <2>4
      <4>2. u[i] = t[i - Len(s)] /\ u[j] = t[j - Len(s)]
        BY <1>2, <1>3, <2>4
      <4> QED
        BY <1>7, <4>1, <4>2 DEF Clean
    <3> QED
      BY <1>1, <1>2, <3>1
  <2> QED
    BY <2>1, <2>2, <2>3, <2>4
<1>8. ASSUME NEW c PROVE Blames(u, c) <=> Blames(s, c) \/ Blames(t, c)
  <2>1. Blames(s, c) => Blames(u, c)
    BY <1>2, <1>5 DEF Blames
  <2>2. Blames(t, c) => Blames(u, c)
    BY <1>2, <1>4 DEF Blames
  <2>3. Blames(u, c) => Blames(s, c) \/ Blames(t, c)
    <3>1. ASSUME NEW i \in 1 .. Len(u), u[i][1] = c PROVE Blames(s, c) \/ Blames(t, c)
      <4>1. CASE i \in 1 .. Len(s)
        BY <1>2, <3>1, <4>1 DEF Blames
      <4>2. CASE i \notin 1 .. Len(s)
        <5>1. i - Len(s) \in 1 .. Len(t) /\ u[i] = t[i - Len(s)]
          BY <1>2, <1>3, <4>2
        <5> QED
          BY <1>2, <3>1, <5>1 DEF Blames
      <4> QED
        BY <4>1, <4>2
    <3> QED
      BY <1>2, <3>1 DEF Blames
  <2> QED
    BY <2>1, <2>2, <2>3
<1>9. u = << >> <=> s = << >> /\ t = << >>
  BY <1>1, <1>2
<1>10. Clean(u, C \cup D)
  BY <1>2, <1>7 DEF Clean, X
<1> QED
  BY <1>8, <1>9, <1>10 DEF u

\* A chain of checks says the first that applies, or nothing when none does.
LEMMA FirstOfFacts ==
  ASSUME NEW c, NEW checks, DOMAIN checks \subseteq Nat
  PROVE  /\ FirstOf(c, checks) = << >> <=> \A i \in DOMAIN checks : ~checks[i][1]
         /\ FirstOf(c, checks) = << >> \/ \E i \in DOMAIN checks : FirstOf(c, checks) = <<<<c, checks[i][2]>>>>
<1> DEFINE failing == {i \in DOMAIN checks : checks[i][1]}
<1>1. CASE failing = {}
  BY <1>1 DEF FirstOf
<1>2. CASE failing # {}
  <2>1. \E m \in failing : \A n \in failing : m <= n
    BY <1>2, SmallestNumber
  <2>2. Min(failing) \in failing
    BY <2>1 DEF Min
  <2>3. FirstOf(c, checks) = <<<<c, checks[Min(failing)][2]>>>>
    BY <1>2 DEF FirstOf
  <2>4. PICK m \in failing : FirstOf(c, checks) = <<<<c, checks[m][2]>>>>
    BY <2>2, <2>3
  <2>5. FirstOf(c, checks) # << >> /\ m \in DOMAIN checks /\ checks[m][1]
    BY <2>4
  <2> QED
    BY <2>4, <2>5, Zenon
<1> QED
  BY <1>1, <1>2

\* A date has at most one error, and none exactly when it is filled and can be read.
LEMMA DateErrorOne ==
  ASSUME NEW row, NEW c
  PROVE  /\ One(DateError(row, c), c)
         /\ DateError(row, c) = << >> <=> row[c] # Blank /\ IsDate(row[c])
<1>1. CASE row[c] = Blank
  <2>1. DateError(row, c) = <<<<c, "MISSING_REQUIRED_FIELD">>>>
    BY <1>1 DEF DateError, When
  <2> QED
    BY <1>1, <2>1, OneEntry DEF Codes
<1>2. CASE row[c] # Blank /\ ~IsDate(row[c])
  <2>1. DateError(row, c) = <<<<c, "INVALID_DATE_FORMAT">>>>
    BY <1>2 DEF DateError, When
  <2> QED
    BY <1>2, <2>1, OneEntry DEF Codes
<1>3. CASE row[c] # Blank /\ IsDate(row[c])
  <2>1. DateError(row, c) = << >>
    BY <1>3 DEF DateError, When
  <2> QED
    BY <1>3, <2>1 DEF One
<1> QED
  BY <1>1, <1>2, <1>3

\* The range has at most one error, and only of two dates that can be read.
LEMMA RangeErrorOne ==
  ASSUME NEW row, NEW enforce
  PROVE  One(RangeError(row, enforce), "to") /\ (RangeError(row, enforce) # << >> => BothDates(row))
<1> DEFINE from == row["from"][2]
           to == row["to"][2]
           reversed == to < from
           early == "past" \in enforce /\ to \div 2 >= Today
           long == "duration" \in enforce /\ to - from > MaxRange
           checks == << <<reversed, "INVALID_DATE_RANGE">>, <<early, "DATE_RANGE_NOT_IN_PAST">>,
                        <<long, "DATE_RANGE_LIMIT_EXCEEDED">> >>
<1>1. RangeError(row, enforce) = IF ~BothDates(row) THEN << >> ELSE FirstOf("to", checks)
  BY DEF RangeError
<1> HIDE DEF reversed, early, long
<1>2. DOMAIN checks = 1 .. 3 /\ \A i \in 1 .. 3 : checks[i][2] \in Codes
  <2>1. DOMAIN checks = 1 .. 3
    OBVIOUS
  <2>2. checks[1][2] \in Codes /\ checks[2][2] \in Codes /\ checks[3][2] \in Codes
    BY DEF Codes
  <2> HIDE DEF checks
  <2>3. \A i \in 1 .. 3 : i = 1 \/ i = 2 \/ i = 3
    OBVIOUS
  <2> QED
    BY <2>1, <2>2, <2>3
<1> HIDE DEF checks
<1>3. One(FirstOf("to", checks), "to")
  BY <1>2, FirstOfFacts DEF One
<1> QED
  BY <1>1, <1>3 DEF One

\* An address has at most one error; a missing one has none.
LEMMA IpErrorOne ==
  ASSUME NEW row, NEW c
  PROVE  One(IpError(row, c), c) /\ (Missing(row[c]) => IpError(row, c) = << >>)
<1> DEFINE cell == row[c]
           ip == cell[1] = "ip"
           bad == cell = BadPort
           text == ~ip
           network == ip /\ IsNetwork(cell) /\ c \notin CidrAllowed
           foreign == ip /\ c = "internal" /\ ~Beltelecom(cell)
           checks == << <<bad, "INVALID_PORT">>, <<text, "INVALID_IP_FORMAT">>,
                        <<network, "CIDR_NOT_ALLOWED">>, <<foreign, "IP_NOT_BELTELECOM">> >>
<1>1. IpError(row, c) = IF Missing(cell) THEN << >> ELSE FirstOf(c, checks)
  BY DEF IpError
<1> HIDE DEF bad, text, network, foreign
<1>2. DOMAIN checks = 1 .. 4 /\ \A i \in 1 .. 4 : checks[i][2] \in Codes
  <2>1. DOMAIN checks = 1 .. 4
    OBVIOUS
  <2>2. checks[1][2] \in Codes /\ checks[2][2] \in Codes /\ checks[3][2] \in Codes /\ checks[4][2] \in Codes
    BY DEF Codes
  <2> HIDE DEF checks
  <2>3. \A i \in 1 .. 4 : i = 1 \/ i = 2 \/ i = 3 \/ i = 4
    OBVIOUS
  <2> QED
    BY <2>1, <2>2, <2>3
<1> HIDE DEF checks
<1>3. One(FirstOf(c, checks), c)
  BY <1>2, FirstOfFacts DEF One
<1> QED
  BY <1>1, <1>3 DEF One

\* The region has at most one error; a missing one has none.
LEMMA RegionErrorOne ==
  ASSUME NEW row
  PROVE  One(RegionError(row), "region") /\ (Missing(row["region"]) => RegionError(row) = << >>)
<1>1. CASE ~Missing(row["region"]) /\ row["region"][1] # "region"
  <2>1. RegionError(row) = <<<<"region", "INVALID_REGION">>>>
    BY <1>1 DEF RegionError, When
  <2> QED
    BY <1>1, <2>1, OneEntry DEF Codes
<1>2. CASE ~(~Missing(row["region"]) /\ row["region"][1] # "region")
  BY <1>2 DEF RegionError, When, One
<1> QED
  BY <1>1, <1>2

\* All that is said of a row: no column twice, and each part by its own rules.
LEMMA RowErrorsFacts ==
  ASSUME NEW row, NEW enforce
  PROVE  LET errors == RowErrors(row, enforce)
         IN /\ Clean(errors, {"from", "to", "internal", "external", "resource", "region"})
            /\ Blames(errors, "from") \/ Blames(errors, "to") <=>
                 ~(DateError(row, "from") = << >> /\ DateError(row, "to") = << >> /\ RangeError(row, enforce) = << >>)
            /\ \A c \in {"internal", "external", "resource"} : Blames(errors, c) <=> IpError(row, c) # << >>
            /\ Blames(errors, "region") <=> RegionError(row) # << >>
<1> DEFINE dates == DateErrors(row, enforce)
           ips == IpErrors(row)
           a == DateError(row, "from")
           b == DateError(row, "to")
           r == RangeError(row, enforce)
<1>1. /\ Clean(dates, {"from", "to"})
      /\ Blames(dates, "from") \/ Blames(dates, "to") <=> ~(a = << >> /\ b = << >> /\ r = << >>)
      /\ \A c : Blames(dates, c) => c \in {"from", "to"}
  <2>1. One(a, "from") /\ One(b, "to") /\ One(r, "to") /\ (r # << >> => a = << >> /\ b = << >>)
    BY DateErrorOne, RangeErrorOne DEF BothDates, IsDate, Blank
  <2>2. PICK t : /\ One(t, "to") /\ dates = a \o t
                 /\ t = << >> <=> b = << >> /\ r = << >>
    <3>1. CASE r = << >>
      <4>1. dates = a \o b
        BY <2>1, <3>1 DEF DateErrors, One
      <4> QED
        BY <2>1, <3>1, <4>1
    <3>2. CASE r # << >>
      <4>1. dates = a \o r
        BY <2>1, <3>2 DEF DateErrors, One
      <4> QED
        BY <2>1, <3>2, <4>1
    <3> QED
      BY <3>1, <3>2
  <2>3. Clean(a, {"from"}) /\ Clean(t, {"to"}) /\ {"from"} \cap {"to"} = {} /\ {"from"} \cup {"to"} = {"from", "to"}
    BY <2>1, <2>2, OneIsClean
  <2>4. /\ Clean(dates, {"from", "to"})
        /\ \A c : Blames(dates, c) <=> Blames(a, c) \/ Blames(t, c)
    <3> HIDE DEF a, dates
    <3>1. /\ Clean(a \o t, {"from"} \cup {"to"})
          /\ \A c : Blames(a \o t, c) <=> Blames(a, c) \/ Blames(t, c)
      BY <2>3, CleanJoins
    <3> QED
      BY <2>2, <2>3, <3>1
  <2>5. \A c : (Blames(a, c) <=> c = "from" /\ a # << >>) /\ (Blames(t, c) <=> c = "to" /\ t # << >>)
    BY <2>1, <2>2, OneIsClean
  <2> QED
    BY <2>2, <2>4, <2>5
<1>2. /\ Clean(ips, {"internal", "external", "resource"})
      /\ \A c : Blames(ips, c) <=> c \in {"internal", "external", "resource"} /\ IpError(row, c) # << >>
  <2> DEFINE i == IpError(row, "internal")
             e == IpError(row, "external")
             s == IpError(row, "resource")
  <2>1. One(i, "internal") /\ One(e, "external") /\ One(s, "resource")
    BY IpErrorOne
  <2>2. Clean(i, {"internal"}) /\ Clean(e, {"external"}) /\ Clean(s, {"resource"})
    BY <2>1, OneIsClean
  <2> HIDE DEF i, e, s
  <2>3. /\ Clean(i \o e, {"internal"} \cup {"external"})
        /\ \A c : Blames(i \o e, c) <=> Blames(i, c) \/ Blames(e, c)
    BY <2>2, CleanJoins
  <2>4. /\ Clean((i \o e) \o s, ({"internal"} \cup {"external"}) \cup {"resource"})
        /\ \A c : Blames((i \o e) \o s, c) <=> Blames(i \o e, c) \/ Blames(s, c)
    BY <2>2, <2>3, CleanJoins
  <2>5. ips = (i \o e) \o s
    BY DEF IpErrors, i, e, s
  <2>6. ({"internal"} \cup {"external"}) \cup {"resource"} = {"internal", "external", "resource"}
    OBVIOUS
  <2>7. \A c : /\ Blames(i, c) <=> c = "internal" /\ i # << >>
               /\ Blames(e, c) <=> c = "external" /\ e # << >>
               /\ Blames(s, c) <=> c = "resource" /\ s # << >>
    BY <2>1, OneIsClean
  <2>9. \A c : Blames(ips, c) <=>
                 /\ c \in {"internal", "external", "resource"}
                 /\ (IF c = "internal" THEN i ELSE IF c = "external" THEN e ELSE s) # << >>
    <3> TAKE c
    <3>1. Blames(ips, c) <=> Blames(i, c) \/ Blames(e, c) \/ Blames(s, c)
      BY <2>3, <2>4, <2>5, Zenon
    <3> HIDE DEF ips
    <3> QED
      BY <2>7, <3>1
  <2>10. \A c \in {"internal", "external", "resource"} :
           (IF c = "internal" THEN i ELSE IF c = "external" THEN e ELSE s) = IpError(row, c)
    BY DEF i, e, s
  <2>11. Clean(ips, {"internal", "external", "resource"})
    BY <2>4, <2>5, <2>6
  <2> HIDE DEF ips
  <2> QED
    BY <2>9, <2>10, <2>11
<1>3. /\ Clean(RegionError(row), {"region"})
      /\ \A c : Blames(RegionError(row), c) <=> c = "region" /\ RegionError(row) # << >>
  BY RegionErrorOne, OneIsClean
<1> HIDE DEF dates, ips, a, b, r
<1>4. /\ Clean(dates \o ips, {"from", "to"} \cup {"internal", "external", "resource"})
      /\ \A c : Blames(dates \o ips, c) <=> Blames(dates, c) \/ Blames(ips, c)
  BY <1>1, <1>2, CleanJoins
<1>5. /\ Clean((dates \o ips) \o RegionError(row),
               ({"from", "to"} \cup {"internal", "external", "resource"}) \cup {"region"})
      /\ \A c : Blames((dates \o ips) \o RegionError(row), c) <=> Blames(dates \o ips, c) \/ Blames(RegionError(row), c)
  <2>1. ({"from", "to"} \cup {"internal", "external", "resource"}) \cap {"region"} = {}
    OBVIOUS
  <2> QED
    <3> DEFINE C == {"from", "to"} \cup {"internal", "external", "resource"}
               D == {"region"}
               u == dates \o ips
               v == RegionError(row)
    <3>1. C \cap D = {} /\ Clean(u, C) /\ Clean(v, D)
      BY <1>3, <1>4, <2>1
    <3> HIDE DEF C, D, u, v
    <3>2. Clean(u \o v, C \cup D) /\ \A c : Blames(u \o v, c) <=> Blames(u, c) \/ Blames(v, c)
      BY <3>1, CleanJoins
    <3> QED
      BY <3>2 DEF C, D, u, v
<1>6. RowErrors(row, enforce) = (dates \o ips) \o RegionError(row)
  BY DEF RowErrors, dates, ips
<1>7. ({"from", "to"} \cup {"internal", "external", "resource"}) \cup {"region"}
        = {"from", "to", "internal", "external", "resource", "region"}
  OBVIOUS
<1>8. Clean(RowErrors(row, enforce), {"from", "to", "internal", "external", "resource", "region"})
  BY <1>5, <1>6, <1>7
<1>9. \A c : Blames(RowErrors(row, enforce), c) <=> Blames(dates, c) \/ Blames(ips, c) \/ Blames(RegionError(row), c)
  BY <1>4, <1>5, <1>6
<1>10. Blames(RowErrors(row, enforce), "from") \/ Blames(RowErrors(row, enforce), "to")
         <=> ~(a = << >> /\ b = << >> /\ r = << >>)
  BY <1>1, <1>2, <1>3, <1>9
<1>11. ASSUME NEW c \in {"internal", "external", "resource"}
       PROVE  Blames(RowErrors(row, enforce), c) <=> IpError(row, c) # << >>
  <2>1. c # "region" /\ c \notin {"from", "to"}
    OBVIOUS
  <2>2. Blames(RowErrors(row, enforce), c) <=> Blames(dates, c) \/ Blames(ips, c) \/ Blames(RegionError(row), c)
    BY <1>9
  <2>3. Blames(ips, c) <=> IpError(row, c) # << >>
    BY <1>2, <2>1
  <2>4. ~Blames(dates, c)
    BY <1>1, <2>1
  <2>5. ~Blames(RegionError(row), c)
    BY <1>3, <2>1
  <2> QED
    BY <2>2, <2>3, <2>4, <2>5
<1>12. Blames(RowErrors(row, enforce), "region") <=> RegionError(row) # << >>
  <2>1. ~Blames(dates, "region")
    BY <1>1
  <2>2. ~Blames(ips, "region")
    BY <1>2
  <2>3. Blames(RegionError(row), "region") <=> RegionError(row) # << >>
    BY <1>3
  <2> QED
    BY <1>9, <2>1, <2>2, <2>3
<1> QED
  BY <1>8, <1>10, <1>11, <1>12 DEF a, b, r

-----------------------------------------------------------------------------
(* The answer to a file, row by row. *)

Own(file, enforce, k) ==
  IF ParsedRows(file)[k].count = Len(Columns) THEN RowErrors(ParsedRows(file)[k].row, enforce)
  ELSE <<<<"none", "ROW_COLUMN_COUNT_MISMATCH">>>>
WithoutError(file, enforce) == {k \in DOMAIN ParsedRows(file) : Own(file, enforce, k) = << >>}
FirstOnes(file, enforce) ==
  {k \in WithoutError(file, enforce) : \A j \in WithoutError(file, enforce) :
     Key(ParsedRows(file)[j].row) = Key(ParsedRows(file)[k].row) => k <= j}
TooBig(file, enforce) == {k \in FirstOnes(file, enforce) : ExpansionError(ParsedRows(file)[k].row) # << >>}
Taken(file, enforce) == FirstOnes(file, enforce) \ TooBig(file, enforce)
Told(file, enforce) ==
  [k \in DOMAIN ParsedRows(file) |->
     Own(file, enforce, k)
     \o IF k \in WithoutError(file, enforce) \ FirstOnes(file, enforce) THEN RepeatError ELSE << >>
     \o IF k \in TooBig(file, enforce) THEN ExpansionError(ParsedRows(file)[k].row) ELSE << >>]

Reply(file, status, code, errors, total, accepted) ==
  [status |-> status, code |-> code, errors |-> errors, total |-> total,
   rejected |-> total - Cardinality(accepted),
   valid |-> Len(FlattenSeq([k \in DOMAIN ParsedRows(file) |->
               IF k \in accepted THEN Tasks(ParsedRows(file)[k].row) ELSE << >>])),
   tasks |-> [k \in accepted |-> Tasks(ParsedRows(file)[k].row)]]

\* Past the errors of the file the answer is a rejection with no row taken, or what its rows say.
LEMMA ResponseCases ==
  ASSUME NEW file, NEW enforce
  PROVE  LET n == Len(ParsedRows(file)) IN
         \/ Response(file, enforce).errors = << >>
         \/ /\ Taken(file, enforce) = {}
            /\ Response(file, enforce)
                 = Reply(file, "rejected", "NO_VALID_ROWS", Told(file, enforce), n, {})
         \/ /\ Taken(file, enforce) # {}
            /\ Response(file, enforce)
                 = Reply(file, IF \A k \in DOMAIN ParsedRows(file) : Told(file, enforce)[k] = << >>
                               THEN "accepted" ELSE "partial",
                         "none", Told(file, enforce), n, Taken(file, enforce))
BY DEF Response, Reply, Told, Taken, TooBig, FirstOnes, WithoutError, Own

\* There are as many parsed rows as rows with a filled cell.
LEMMA ParsedRowsFacts ==
  ASSUME NEW V, NEW file, file.rows \in Seq(V)
  PROVE  LET filled == {n \in DOMAIN file.rows : \E i \in DOMAIN file.rows[n] : file.rows[n][i] # Blank}
         IN /\ Len(ParsedRows(file)) = Cardinality(filled)
            /\ Len(ParsedRows(file)) \in Nat
            /\ DOMAIN ParsedRows(file) = 1 .. Len(ParsedRows(file))
<1> DEFINE filled == {n \in DOMAIN file.rows : \E i \in DOMAIN file.rows[n] : file.rows[n][i] # Blank}
           data == At(file.rows, filled)
           row(k) == [row   |-> ParsedRow(file.headers, Cells(file, data[k])),
                      count |-> Len(Cells(file, data[k]))]
<1>1. data \in Seq(V) /\ Len(data) = Cardinality(filled) /\ Cardinality(filled) \in Nat
  BY AtFacts
<1>2. ParsedRows(file) = [k \in DOMAIN data |-> row(k)]
  BY DEF ParsedRows
<1>3. DOMAIN data = 1 .. Cardinality(filled)
  BY <1>1
<1> HIDE DEF data, filled, row
<1>4. ParsedRows(file) \in [1 .. Cardinality(filled) -> {row(k) : k \in 1 .. Cardinality(filled)}]
  BY <1>2, <1>3
<1>5. Len(ParsedRows(file)) = Cardinality(filled) /\ DOMAIN ParsedRows(file) = 1 .. Cardinality(filled)
  BY <1>1, <1>4
<1> QED
  BY <1>1, <1>5 DEF filled

\* A row that expands too far has one entry that says so.
LEMMA ExpansionErrorOne ==
  ASSUME NEW row
  PROVE  \/ ExpansionError(row) = << >>
         \/ \E c : ExpansionError(row) = <<<<c, "EXPANSION_LIMIT_EXCEEDED">>>>
BY DEF ExpansionError, When

\* What a row is told for itself is clean.
LEMMA OwnSeq ==
  ASSUME NEW file, NEW enforce, NEW k
  PROVE  /\ \E C : Clean(Own(file, enforce, k), C)
         /\ \E X : Own(file, enforce, k) \in Seq(X)
<1>1. Clean(<<<<"none", "ROW_COLUMN_COUNT_MISMATCH">>>>, {"none"})
  BY OneEntry, OneIsClean DEF Codes
<1> QED
  BY <1>1, RowErrorsFacts DEF Own, Clean

\* Of the three reasons to refuse a row the first that applies is told.
LEMMA ToldFacts ==
  ASSUME NEW file, NEW enforce, NEW k \in DOMAIN ParsedRows(file)
  PROVE  Told(file, enforce)[k] =
           IF k \notin WithoutError(file, enforce) THEN Own(file, enforce, k)
           ELSE IF k \notin FirstOnes(file, enforce) THEN RepeatError
           ELSE ExpansionError(ParsedRows(file)[k].row)
<1> DEFINE own == Own(file, enforce, k)
           row == ParsedRows(file)[k].row
           e == ExpansionError(row)
<1>1. \E X : own \in Seq(X)
  BY OwnSeq
<1>2. own \o << >> = own
  BY <1>1
<1>3. e \o << >> = e /\ << >> \o e = e
  BY ExpansionErrorOne
<1>4. RepeatError \o << >> = RepeatError /\ << >> \o RepeatError = RepeatError /\ << >> \o << >> = << >>
  BY DEF RepeatError
<1>5. Told(file, enforce)[k] =
        own \o IF k \in WithoutError(file, enforce) \ FirstOnes(file, enforce) THEN RepeatError ELSE << >>
            \o IF k \in TooBig(file, enforce) THEN e ELSE << >>
  BY DEF Told
<1>6. /\ k \in TooBig(file, enforce) <=> k \in FirstOnes(file, enforce) /\ e # << >>
      /\ k \in FirstOnes(file, enforce) => k \in WithoutError(file, enforce)
      /\ k \in WithoutError(file, enforce) <=> own = << >>
  BY DEF TooBig, FirstOnes, WithoutError
<1> HIDE DEF own, e
<1>7. CASE k \notin WithoutError(file, enforce)
  BY <1>2, <1>4, <1>5, <1>6, <1>7 DEF own
<1>8. CASE k \in WithoutError(file, enforce) /\ k \notin FirstOnes(file, enforce)
  BY <1>4, <1>5, <1>6, <1>8
<1>9. CASE k \in FirstOnes(file, enforce)
  BY <1>3, <1>4, <1>5, <1>6, <1>9 DEF e
<1> QED
  BY <1>6, <1>7, <1>8, <1>9

\* A row is told something exactly when it is not taken.
LEMMA BlamedRows ==
  ASSUME NEW file, NEW enforce
  PROVE  {k \in DOMAIN ParsedRows(file) : Told(file, enforce)[k] # << >>}
           = DOMAIN ParsedRows(file) \ Taken(file, enforce)
<1>1. ASSUME NEW k \in DOMAIN ParsedRows(file)
      PROVE  Told(file, enforce)[k] # << >> <=> k \notin Taken(file, enforce)
  <2>1. RepeatError # << >>
    BY DEF RepeatError
  <2> QED
    BY <2>1, ToldFacts DEF Taken, TooBig, FirstOnes, WithoutError
<1> QED
  BY <1>1

\* every accepted row has tasks, of U
AsksOf(rep, U) == \A k \in DOMAIN rep.tasks : rep.tasks[k] \in Seq(U) /\ rep.tasks[k] # << >>

\* Every parsed row is told an error or has tasks, and the status and the counts say how many.
LEMMA FileAccounted ==
  ASSUME NEW V, NEW file, file.rows \in Seq(V), NEW enforce, NEW rep, rep = Response(file, enforce),
         rep.errors # << >>,
         NEW U, AsksOf(rep, U)
  PROVE  Accounted(file, rep)
<1> DEFINE n == Len(ParsedRows(file))
           told == Told(file, enforce)
           taken == Taken(file, enforce)
           blamed == {k \in DOMAIN told : told[k] # << >>}
<1>1. n \in Nat /\ DOMAIN ParsedRows(file) = 1 .. n /\ DOMAIN told = 1 .. n
  <2>1. n \in Nat /\ DOMAIN ParsedRows(file) = 1 .. n
    BY ParsedRowsFacts
  <2> QED
    BY <2>1 DEF Told
<1>2. n = Cardinality({m \in DOMAIN file.rows : ToSet(file.rows[m]) \ {Blank} # {}})
  <2>1. ASSUME NEW m \in DOMAIN file.rows
        PROVE  ToSet(file.rows[m]) \ {Blank} # {} <=> \E i \in DOMAIN file.rows[m] : file.rows[m][i] # Blank
    BY DEF ToSet
  <2>2. {m \in DOMAIN file.rows : ToSet(file.rows[m]) \ {Blank} # {}}
          = {m \in DOMAIN file.rows : \E i \in DOMAIN file.rows[m] : file.rows[m][i] # Blank}
    BY <2>1
  <2>3. n = Cardinality({m \in DOMAIN file.rows : \E i \in DOMAIN file.rows[m] : file.rows[m][i] # Blank})
    BY ParsedRowsFacts
  <2> QED
    BY <2>2, <2>3
<1>3. blamed = (1 .. n) \ taken /\ taken \subseteq 1 .. n
  <2>1. blamed = (1 .. n) \ taken
    BY <1>1, BlamedRows
  <2> QED
    BY <1>1, <2>1 DEF Taken, FirstOnes, WithoutError
<1>4. /\ Cardinality(taken) \in Nat /\ Cardinality(blamed) \in Nat
      /\ Cardinality(taken) + Cardinality(blamed) = n
  <2>1. taken \in SUBSET (1 .. n)
    BY <1>3
  <2> HIDE DEF n, taken, blamed
  <2> QED
    BY <1>1, <1>3, <2>1, PartsOfInterval
<1>5. (taken = {} <=> Cardinality(taken) = 0) /\ (blamed = {} <=> Cardinality(blamed) = 0)
  <2>1. taken \in SUBSET (1 .. n)
    BY <1>3
  <2> HIDE DEF n, taken, blamed
  <2> QED
    BY <1>1, <1>3, <2>1, PartsOfInterval
<1>6. told = << >> => n = 0
  <2>1. told = << >> => DOMAIN told = {}
    OBVIOUS
  <2> HIDE DEF n, told
  <2> QED
    BY <1>1, <2>1
<1>9. ASSUME NEW T \in SUBSET (1 .. n), NEW status, NEW code, rep = Reply(file, status, code, told, n, T)
      PROVE  CountsPlaces(rep.valid, rep.tasks, T)
  <2> DEFINE tasks == [k \in T |-> Tasks(ParsedRows(file)[k].row)]
             seqs == [k \in 1 .. n |-> IF k \in T THEN tasks[k] ELSE << >>]
  <2>1. seqs = [k \in DOMAIN ParsedRows(file) |-> IF k \in T THEN Tasks(ParsedRows(file)[k].row) ELSE << >>]
    BY <1>1
  <2>2. rep.tasks = tasks /\ rep.valid = Len(FlattenSeq(seqs))
    <3>1. rep.tasks = tasks
      BY <1>9 DEF Reply
    <3>2. rep.valid = Len(FlattenSeq([k \in DOMAIN ParsedRows(file) |->
                            IF k \in T THEN Tasks(ParsedRows(file)[k].row) ELSE << >>]))
      BY <1>9 DEF Reply
    <3> HIDE DEF seqs, tasks, n
    <3> QED
      BY <2>1, <3>1, <3>2
  <2>3. DOMAIN tasks = T
    OBVIOUS
  <2> HIDE DEF tasks, n
  <2>4. \A k \in T : tasks[k] \in Seq(U) /\ tasks[k] # << >>
    BY <2>2, <2>3 DEF AsksOf
  <2>5. seqs = [k \in 1 .. n |-> IF k \in T THEN tasks[k] ELSE << >>]
    OBVIOUS
  <2> HIDE DEF seqs
  <2>6. CountsPlaces(Len(FlattenSeq(seqs)), tasks, T)
    BY <1>1, <2>3, <2>4, <2>5, InsideCounted, Zenon
  <2> QED
    BY <2>2, <2>6
<1> HIDE DEF n, told, taken
<1>10. Inside(rep.tasks) = UNION {{k} \X DOMAIN rep.tasks[k] : k \in DOMAIN rep.tasks}
  BY DEF Inside
<1>7. CASE taken = {} /\ rep = Reply(file, "rejected", "NO_VALID_ROWS", told, n, {})
  <2>1. /\ rep.errors = told /\ rep.total = n /\ rep.rejected = n - Cardinality({}) /\ rep.status = "rejected"
        /\ rep.code = "NO_VALID_ROWS"
        /\ rep.tasks = [k \in {} |-> Tasks(ParsedRows(file)[k].row)]
    BY <1>7 DEF Reply
  <2>2. rep.tasks = << >> /\ DOMAIN rep.tasks = {}
    BY <2>1
  <2>7. CountsPlaces(rep.valid, rep.tasks, {})
    BY <1>7, <1>9
  <2>3. Cardinality({}) = 0 /\ rep.rejected = n
    BY <1>1, <2>1, FS_EmptySet
  <2>4. n # 0 /\ blamed # {} /\ Cardinality(blamed) = n /\ (1 .. n) \ blamed = {}
    BY <1>1, <1>3, <1>4, <1>5, <1>6, <1>7, <2>1
  <2>5. RowStats(rep) = [total |-> Cardinality(blamed), rejected |-> Cardinality(blamed),
                         passed |-> Cardinality(blamed) - Cardinality(blamed)]
    BY <2>1 DEF RowStats
  <2> HIDE DEF blamed
  <2>6. RowStats(rep) = [total |-> rep.total, rejected |-> rep.rejected, passed |-> Cardinality(DOMAIN rep.tasks)]
    BY <1>1, <2>1, <2>2, <2>3, <2>4, <2>5
  <2>8. /\ rep.valid = Cardinality(UNION {{k} \X DOMAIN rep.tasks[k] : k \in DOMAIN rep.tasks})
        /\ rep.valid + rep.rejected = rep.total <=> \A k \in DOMAIN rep.tasks : Len(rep.tasks[k]) = 1
    <3>1. rep.valid = Cardinality(Inside(rep.tasks)) /\ rep.valid \in Nat /\ rep.valid = 0
      BY <2>3, <2>7 DEF CountsPlaces
    <3>2. rep.valid + rep.rejected = rep.total
      BY <1>1, <2>1, <2>3, <3>1
    <3> QED
      BY <1>10, <2>2, <3>1, <3>2
  <2> QED
    BY <1>1, <1>2, <2>1, <2>2, <2>3, <2>4, <2>6, <2>8 DEF n, blamed, Accounted
<1>8. CASE /\ taken # {}
           /\ rep = Reply(file, IF \A k \in DOMAIN ParsedRows(file) : told[k] = << >>
                                THEN "accepted" ELSE "partial", "none", told, n, taken)
  <2>1. /\ rep.errors = told /\ rep.total = n /\ rep.rejected = n - Cardinality(taken)
        /\ rep.status = IF \A k \in DOMAIN ParsedRows(file) : told[k] = << >> THEN "accepted" ELSE "partial"
        /\ rep.code = "none"
        /\ rep.tasks = [k \in taken |-> Tasks(ParsedRows(file)[k].row)]
    BY <1>8 DEF Reply
  <2>2. DOMAIN rep.tasks = taken /\ rep.tasks # << >>
    BY <1>8, <2>1
  <2>3. rep.status = IF blamed = {} THEN "accepted" ELSE "partial"
    BY <1>1, <2>1
  <2>4. rep.rejected = Cardinality(blamed) /\ n - Cardinality(blamed) = Cardinality(taken)
    BY <1>1, <1>4, <2>1
  <2>5. RowStats(rep) = [total |-> n, rejected |-> Cardinality(blamed), passed |-> n - Cardinality(blamed)]
    BY <2>1, <2>3 DEF RowStats
  <2>6. (1 .. n) \ blamed = taken
    BY <1>3
  <2> HIDE DEF blamed
  <2>7. RowStats(rep) = [total |-> rep.total, rejected |-> rep.rejected, passed |-> Cardinality(DOMAIN rep.tasks)]
    BY <2>1, <2>2, <2>4, <2>5
  <2>8. CountsPlaces(rep.valid, rep.tasks, taken)
    <3>1. taken \in SUBSET (1 .. n)
      BY <1>3
    <3> QED
      BY <1>8, <1>9, <3>1
  <2>9. /\ rep.valid = Cardinality(UNION {{k} \X DOMAIN rep.tasks[k] : k \in DOMAIN rep.tasks})
        /\ rep.valid + rep.rejected = rep.total <=> \A k \in DOMAIN rep.tasks : Len(rep.tasks[k]) = 1
    <3> DEFINE ones == \A k \in taken : Len(rep.tasks[k]) = 1
    <3>1. /\ rep.valid = Cardinality(Inside(rep.tasks)) /\ rep.valid \in Nat
          /\ rep.valid = Cardinality(taken) <=> ones
      BY <2>8 DEF CountsPlaces
    <3> HIDE DEF ones
    <3>2. rep.valid + rep.rejected = rep.total <=> ones
      BY <1>1, <1>4, <2>1, <3>1
    <3> QED
      BY <1>10, <2>2, <3>1, <3>2 DEF ones
  <2> QED
    BY <1>1, <1>2, <2>1, <2>2, <2>3, <2>4, <2>6, <2>7, <2>9 DEF n, blamed, Accounted
<1> QED
  BY <1>7, <1>8, ResponseCases DEF n, told, taken
-----------------------------------------------------------------------------
(* A row whose parts are judged one by one. *)

\* The columns of a row.
LEMMA ColumnSet == ToSet(Columns) = {"from", "to", "internal", "external", "resource", "region"}
BY DEF ToSet, Columns

\* A clean list says something exactly when it blames a column.
LEMMA CleanBlames ==
  ASSUME NEW s, NEW C, Clean(s, C)
  PROVE  s # << >> <=> \E c \in C : Blames(s, c)
<1>1. s \in Seq(C \X Codes)
  BY DEF Clean
<1>2. ASSUME s # << >> PROVE \E c \in C : Blames(s, c)
  <2>1. 1 \in DOMAIN s /\ s[1] \in C \X Codes
    BY <1>1, <1>2
  <2>2. s[1][1] \in C
    BY <2>1
  <2> QED
    BY <2>1, <2>2 DEF Blames
<1>3. ASSUME s = << >> PROVE \A c : ~Blames(s, c)
  BY <1>3 DEF Blames
<1> QED
  BY <1>2, <1>3

\* What is in its place a flawless row is judged for as in any row, and nothing else.
OnlyPart(a, row, part) ==
  /\ \A c \in {"from", "to", "internal", "external", "resource", "region"} :
       a[c] = IF c \in part THEN row[c] ELSE Flawless[c]
  /\ Flawless["from"] = DateCell(0, FALSE) /\ Flawless["to"] = DateCell(1, FALSE)
  /\ \A c \in {"internal", "external", "resource", "region"} : Flawless[c] = Blank

\* Everything outside the part of a row that stands alone is flawless.
LEMMA AloneCells ==
  ASSUME NEW row, NEW part \in Parts
  PROVE  OnlyPart(Alone(row, part), row, part)
BY ColumnSet DEF Alone, Flawless, OnlyPart

\* The error of the range depends on the two dates only.
LEMMA RangeErrorSame ==
  ASSUME NEW row, NEW other, row["from"] = other["from"], row["to"] = other["to"], NEW enforce
  PROVE  RangeError(row, enforce) = RangeError(other, enforce)
BY DEF RangeError, BothDates, IsDate

\* The flawless dates have no error of the range.
LEMMA RangeErrorFlawless ==
  ASSUME NEW row, NEW enforce, row["from"] = DateCell(0, FALSE), row["to"] = DateCell(1, FALSE)
  PROVE  RangeError(row, enforce) = << >>
<1> DEFINE from == row["from"][2]
           to == row["to"][2]
           reversed == to < from
           early == "past" \in enforce /\ to \div 2 >= Today
           long == "duration" \in enforce /\ to - from > MaxRange
           checks == << <<reversed, "INVALID_DATE_RANGE">>, <<early, "DATE_RANGE_NOT_IN_PAST">>,
                        <<long, "DATE_RANGE_LIMIT_EXCEEDED">> >>
<1>1. from = 0 /\ to = 1
  BY DEF DateCell
<1>2. ~reversed /\ ~early /\ ~long
  <2>1. Today \in Nat \ {0} /\ MaxRange \in Nat \ {0}
    BY RowAssumption
  <2> HIDE DEF from, to
  <2>2. to \div 2 = 0
    <3>1. 1 \div 2 = 0
      OBVIOUS
    <3> QED
      BY <1>1, <3>1
  <2> QED
    BY <1>1, <2>1, <2>2
<1>3. RangeError(row, enforce) = IF ~BothDates(row) THEN << >> ELSE FirstOf("to", checks)
  BY DEF RangeError
<1> HIDE DEF reversed, early, long
<1>4. DOMAIN checks = 1 .. 3 /\ \A i \in 1 .. 3 : ~checks[i][1]
  <2>1. DOMAIN checks = 1 .. 3
    OBVIOUS
  <2>2. ~checks[1][1] /\ ~checks[2][1] /\ ~checks[3][1]
    BY <1>2
  <2> HIDE DEF checks
  <2>3. \A i \in 1 .. 3 : i = 1 \/ i = 2 \/ i = 3
    OBVIOUS
  <2> QED
    BY <2>1, <2>2, <2>3
<1> HIDE DEF checks
<1> QED
  BY <1>3, <1>4, FirstOfFacts

\* A part of a row that stands alone has errors exactly when the row blames one of its columns.
LEMMA PartAlone ==
  ASSUME NEW row, NEW enforce, NEW part \in Parts
  PROVE  RowErrors(Alone(row, part), enforce) # << >> <=> \E c \in part : Blames(RowErrors(row, enforce), c)
<1> DEFINE a == Alone(row, part)
           all == {"from", "to", "internal", "external", "resource", "region"}
<1>1. RowErrors(a, enforce) # << >> <=> \E c \in all : Blames(RowErrors(a, enforce), c)
  BY RowErrorsFacts, CleanBlames
<1> HIDE DEF a
<1>2. /\ \A c \in all : a[c] = IF c \in part THEN row[c] ELSE Flawless[c]
      /\ Flawless["from"] = DateCell(0, FALSE) /\ Flawless["to"] = DateCell(1, FALSE)
      /\ \A c \in {"internal", "external", "resource", "region"} : Flawless[c] = Blank
  <2>1. OnlyPart(a, row, part)
    BY AloneCells DEF a
  <2> QED
    BY <2>1 DEF OnlyPart
<1>3. ASSUME NEW c \in {"from", "to"} PROVE DateError(a, c) = IF c \in part THEN DateError(row, c) ELSE << >>
  <2>1. CASE c \in part
    <3>1. a[c] = row[c]
      BY <1>2, <2>1
    <3> QED
      BY <2>1, <3>1 DEF DateError
  <2>2. CASE c \notin part
    <3>1. a[c] = DateCell(0, FALSE) \/ a[c] = DateCell(1, FALSE)
      BY <1>2, <2>2
    <3>2. DateCell(0, FALSE) # Blank /\ IsDate(DateCell(0, FALSE)) /\ DateCell(1, FALSE) # Blank /\ IsDate(DateCell(1, FALSE))
      BY DEF DateCell, Blank, IsDate
    <3>3. a[c] # Blank /\ IsDate(a[c])
      BY <3>1, <3>2
    <3> QED
      BY <2>2, <3>3, DateErrorOne
  <2> QED
    BY <2>1, <2>2
<1>4. ASSUME NEW c \in {"internal", "external", "resource"}
      PROVE  IpError(a, c) = IF c \in part THEN IpError(row, c) ELSE << >>
  <2>1. CASE c \in part
    <3>1. a[c] = row[c]
      BY <1>2, <2>1
    <3> QED
      BY <2>1, <3>1 DEF IpError
  <2>2. CASE c \notin part
    <3>1. Missing(a[c])
      BY <1>2, <2>2 DEF Missing
    <3> QED
      BY <2>2, <3>1, IpErrorOne
  <2> QED
    BY <2>1, <2>2
<1>5. RegionError(a) = IF "region" \in part THEN RegionError(row) ELSE << >>
  <2>1. CASE "region" \in part
    <3>1. a["region"] = row["region"]
      BY <1>2, <2>1
    <3> QED
      BY <2>1, <3>1 DEF RegionError
  <2>2. CASE "region" \notin part
    <3>1. Missing(a["region"])
      BY <1>2, <2>2 DEF Missing
    <3> QED
      BY <2>2, <3>1, RegionErrorOne
  <2> QED
    BY <2>1, <2>2
<1>6. Blames(RowErrors(a, enforce), "from") \/ Blames(RowErrors(a, enforce), "to")
        <=> ~(DateError(a, "from") = << >> /\ DateError(a, "to") = << >> /\ RangeError(a, enforce) = << >>)
  BY RowErrorsFacts
<1>7. Blames(RowErrors(row, enforce), "from") \/ Blames(RowErrors(row, enforce), "to")
        <=> ~(DateError(row, "from") = << >> /\ DateError(row, "to") = << >> /\ RangeError(row, enforce) = << >>)
  BY RowErrorsFacts
<1>8. /\ \A c \in {"internal", "external", "resource"} : Blames(RowErrors(a, enforce), c) <=> IpError(a, c) # << >>
      /\ Blames(RowErrors(a, enforce), "region") <=> RegionError(a) # << >>
  BY RowErrorsFacts
<1>9. /\ \A c \in {"internal", "external", "resource"} : Blames(RowErrors(row, enforce), c) <=> IpError(row, c) # << >>
      /\ Blames(RowErrors(row, enforce), "region") <=> RegionError(row) # << >>
  BY RowErrorsFacts
<1>10. RangeError(a, enforce) = IF part = {"from", "to"} THEN RangeError(row, enforce) ELSE << >>
  <2>1. CASE part = {"from", "to"}
    <3>1. a["from"] = row["from"] /\ a["to"] = row["to"]
      BY <1>2, <2>1
    <3> QED
      BY <2>1, <3>1, RangeErrorSame
  <2>2. CASE part # {"from", "to"}
    <3>1. "from" \notin part /\ "to" \notin part
      BY <2>2 DEF Parts
    <3>2. a["from"] = DateCell(0, FALSE) /\ a["to"] = DateCell(1, FALSE)
      BY <1>2, <3>1
    <3> QED
      BY <2>2, <3>2, RangeErrorFlawless
  <2> QED
    BY <2>1, <2>2
<1> DEFINE dates(r) == ~(DateError(r, "from") = << >> /\ DateError(r, "to") = << >> /\ RangeError(r, enforce) = << >>)
           ips(r) == IpError(r, "internal") # << >> \/ IpError(r, "external") # << >> \/ IpError(r, "resource") # << >>
<1>11. RowErrors(a, enforce) # << >> <=> dates(a) \/ ips(a) \/ RegionError(a) # << >>
  BY <1>1, <1>6, <1>8
<1>12. CASE part = {"from", "to"}
  <2>1. dates(a) <=> dates(row)
    BY <1>3, <1>10, <1>12
  <2>2. ~ips(a) /\ RegionError(a) = << >>
    BY <1>4, <1>5, <1>12
  <2>3. (\E c \in part : Blames(RowErrors(row, enforce), c)) <=> dates(row)
    BY <1>7, <1>12
  <2> HIDE DEF dates, ips
  <2> QED
    BY <1>11, <2>1, <2>2, <2>3 DEF a
<1>13. ASSUME NEW d \in {"internal", "external", "resource"}, part = {d}
       PROVE  RowErrors(a, enforce) # << >> <=> \E c \in part : Blames(RowErrors(row, enforce), c)
  <2>1. ~dates(a) /\ RegionError(a) = << >>
    BY <1>3, <1>5, <1>10, <1>13
  <2>2. ips(a) <=> IpError(row, d) # << >>
    BY <1>4, <1>13
  <2> QED
    BY <1>9, <1>11, <1>13, <2>1, <2>2
<1>14. CASE part = {"region"}
  <2>1. ~dates(a) /\ ~ips(a) /\ RegionError(a) = RegionError(row)
    BY <1>3, <1>4, <1>5, <1>10, <1>14
  <2>2. (\E c \in part : Blames(RowErrors(row, enforce), c)) <=> RegionError(row) # << >>
    BY <1>9, <1>14
  <2> HIDE DEF dates, ips
  <2> QED
    BY <1>11, <2>1, <2>2 DEF a
<1>15. part = {"from", "to"} \/ part = {"internal"} \/ part = {"external"} \/ part = {"resource"} \/ part = {"region"}
  BY DEF Parts
<1> QED
  BY <1>12, <1>13, <1>14, <1>15 DEF a

\* What a parsed row is told concerns the whole row, or is what its own cells earn.
LEMMA BlamesFairly ==
  ASSUME NEW file, NEW enforce, NEW k \in DOMAIN ParsedRows(file)
  PROVE  LET row    == ParsedRows(file)[k].row
             errors == Told(file, enforce)[k]
         IN /\ OfWholeRow(errors) \/ errors = RowErrors(row, enforce)
            /\ \E C : Clean(errors, C)
<1> DEFINE row == ParsedRows(file)[k].row
           errors == Told(file, enforce)[k]
<1>1. ASSUME NEW c, NEW code \in {"ROW_COLUMN_COUNT_MISMATCH", "DUPLICATE_REQUEST", "EXPANSION_LIMIT_EXCEEDED"},
             errors = <<<<c, code>>>>
      PROVE  OfWholeRow(errors) /\ \E C : Clean(errors, C)
  <2>1. One(errors, c)
    BY <1>1 DEF One, Codes
  <2>2. DOMAIN errors = 1 .. 1 /\ errors[1][2] = code
    BY <1>1
  <2> HIDE DEF errors
  <2>3. OfWholeRow(errors)
    BY <2>2 DEF OfWholeRow
  <2>4. Clean(errors, {c})
    BY <2>1, OneIsClean
  <2> QED
    BY <2>3, <2>4
<1>2. \E C : Clean(RowErrors(row, enforce), C)
  BY RowErrorsFacts
<1>3. CASE k \notin WithoutError(file, enforce)
  BY <1>1, <1>2, <1>3, ToldFacts DEF Own
<1>4. CASE k \in WithoutError(file, enforce) /\ k \notin FirstOnes(file, enforce)
  BY <1>1, <1>4, ToldFacts DEF RepeatError
<1>5. ASSUME k \in FirstOnes(file, enforce)
      PROVE  (OfWholeRow(errors) \/ errors = RowErrors(row, enforce)) /\ \E C : Clean(errors, C)
  <2>1. k \in WithoutError(file, enforce) /\ errors = ExpansionError(row)
    BY <1>5, ToldFacts DEF FirstOnes
  <2>2. RowErrors(row, enforce) = << >>
    BY <2>1 DEF WithoutError, Own
  <2> HIDE DEF errors, row
  <2>3. CASE ExpansionError(row) = << >>
    BY <1>2, <2>1, <2>2, <2>3
  <2>4. ASSUME NEW c, ExpansionError(row) = <<<<c, "EXPANSION_LIMIT_EXCEEDED">>>>
        PROVE  OfWholeRow(errors) /\ \E C : Clean(errors, C)
    BY <1>1, <2>1, <2>4
  <2> QED
    BY <2>3, <2>4, ExpansionErrorOne
<1> QED
  BY <1>3, <1>4, <1>5 DEF FirstOnes

\* No error of a row hides another one, and no column is blamed twice:
\* validate_row and what IntakeService.process adds.
THEOREM EveryErrorTold == RequestSpec => []NoErrorHidesAnother
<1>1. ASSUME Asked, Right PROVE NoErrorHidesAnother
  <2>1. SUFFICES ASSUME Answered("file"), NEW k \in DOMAIN reply.errors
                 PROVE  LET row    == ParsedRows(subject[2])[k].row
                            errors == reply.errors[k]
                        IN /\ ~OfWholeRow(errors) => \A part \in Parts :
                                RowErrors(Alone(row, part), subject[3]) # << >>
                                  <=> \E i \in DOMAIN errors : errors[i][1] \in part
                           /\ \A i, j \in DOMAIN errors : errors[i][1] = errors[j][1] => i = j
    BY DEF NoErrorHidesAnother
  <2> DEFINE file == subject[2]
             enforce == subject[3]
             row == ParsedRows(file)[k].row
             errors == reply.errors[k]
  <2>2. reply = Response(file, enforce)
    BY <1>1, <2>1 DEF Right
  <2>3. reply.errors = Told(file, enforce) /\ k \in DOMAIN ParsedRows(file)
    <3>1. reply.errors # << >>
      BY <2>1
    <3>2. \A status, code, told, total, T : Reply(file, status, code, told, total, T).errors = told
      BY DEF Reply
    <3>3. reply.errors = Told(file, enforce)
      <4> HIDE DEF file, enforce
      <4> QED
        BY <2>2, <3>1, <3>2, ResponseCases
    <3> QED
      BY <2>1, <3>3 DEF Told
  <2>4. /\ OfWholeRow(errors) \/ errors = RowErrors(row, enforce)
        /\ \E C : Clean(errors, C)
    BY <2>3, BlamesFairly
  <2> HIDE DEF file, enforce, row, errors
  <2>5. \A i, j \in DOMAIN errors : errors[i][1] = errors[j][1] => i = j
    BY <2>4 DEF Clean
  <2>6. ASSUME errors = RowErrors(row, enforce), NEW part \in Parts
        PROVE  RowErrors(Alone(row, part), enforce) # << >> <=> \E i \in DOMAIN errors : errors[i][1] \in part
    BY <2>6, PartAlone DEF Blames
  <2> QED
    BY <2>4, <2>5, <2>6 DEF file, enforce, row, errors
<1> QED
  BY <1>1, AnsweredRight, PTL

-----------------------------------------------------------------------------
(* The addresses of a cell and the tasks of a row. *)

\* The powers of two, up to the width of an address.
LEMMA PowersFacts ==
  ASSUME W \in Nat
  PROVE  /\ Powers \in [0 .. W -> Nat \ {0}]
         /\ Powers[0] = 1 /\ \A k \in 1 .. W : Powers[k] = 2 * Powers[k - 1]
<1> DEFINE X == Nat \ {0}
           step == [a \in Nat \X X |-> 2 * a[2]]
<1>1. step \in [Nat \X X -> X] /\ 1 \in X
  <2>1. ASSUME NEW a \in Nat \X X PROVE 2 * a[2] \in X
    <3>1. a[2] \in X
      OBVIOUS
    <3> QED
      BY <3>1
  <2> QED
    BY <2>1
<1>2. PICK g \in [0 .. W -> X] : g[0] = 1 /\ \A k \in 1 .. W : g[k] = 2 * g[k - 1]
  <2>1. PICK g \in [0 .. W -> X] : g \in Runs(X, 1, step, W)
    <3> HIDE DEF step, X
    <3> QED
      BY <1>1, Iteration
  <2>2. g[0] = 1 /\ \A k \in 1 .. W : g[k] = step[<<k, g[k - 1]>>]
    BY <2>1 DEF Runs
  <2>3. ASSUME NEW k \in 1 .. W PROVE step[<<k, g[k - 1]>>] = 2 * g[k - 1]
    <3>1. k \in Nat /\ k - 1 \in 0 .. W
      OBVIOUS
    <3>2. g[k - 1] \in X
      BY <2>1, <3>1
    <3> HIDE DEF X
    <3>3. <<k, g[k - 1]>> \in Nat \X X
      BY <3>1, <3>2
    <3> QED
      BY <3>3
  <2> QED
    BY <2>1, <2>2, <2>3
<1> DEFINE Solves(h) == h = [n \in 0 .. W |-> IF n = 0 THEN 1 ELSE 2 * h[n - 1]]
<1>3. Solves(g)
  <2>1. ASSUME NEW n \in 0 .. W PROVE g[n] = IF n = 0 THEN 1 ELSE 2 * g[n - 1]
    <3>1. n = 0 \/ n \in 1 .. W
      OBVIOUS
    <3> QED
      BY <1>2, <3>1
  <2> QED
    BY <1>2, <2>1
<1>4. Solves(CHOOSE h : Solves(h))
  <2> HIDE DEF Solves
  <2> QED
    BY <1>3
<1>5. Powers = CHOOSE h : Solves(h)
  BY DEF Powers
<1>6. Solves(Powers)
  BY <1>4, <1>5
<1> DEFINE T == {k \in Nat : k \in 0 .. W => Powers[k] = g[k]}
<1>7. Powers[0] = 1 /\ \A k \in 1 .. W : Powers[k] = 2 * Powers[k - 1]
  <2>1. \A k \in 0 .. W : Powers[k] = IF k = 0 THEN 1 ELSE 2 * Powers[k - 1]
    BY <1>6
  <2>2. 0 \in 0 .. W /\ \A k \in 1 .. W : k \in 0 .. W /\ k # 0
    OBVIOUS
  <2> QED
    BY <2>1, <2>2
<1>8. 0 \in T
  BY <1>2, <1>7
<1>9. ASSUME NEW k \in Nat, k \in T PROVE k + 1 \in T
  <2> DEFINE j == k + 1
  <2>1. j \in Nat /\ (j \in 0 .. W => j \in 1 .. W /\ k \in 0 .. W /\ j - 1 = k)
    OBVIOUS
  <2>2. k \in 0 .. W => Powers[k] = g[k]
    BY <1>9
  <2> HIDE DEF j
  <2>3. j \in 0 .. W => Powers[j] = g[j]
    BY <1>2, <1>7, <2>1, <2>2
  <2> QED
    BY <2>1, <2>3 DEF j
<1>10. \A k \in 0 .. W : Powers[k] = g[k]
  <2>1. \A k \in Nat : k \in T
    <3> HIDE DEF T
    <3> QED
      BY <1>8, <1>9, NatInductionOnSet
  <2> QED
    BY <2>1
<1>11. DOMAIN Powers = 0 .. W /\ Powers = [k \in 0 .. W |-> Powers[k]]
  BY <1>6
<1> HIDE DEF T, Solves
<1>12. Powers \in [0 .. W -> X]
  BY <1>10, <1>11
<1> QED
  BY <1>7, <1>12

\* A network of more bits divides one of fewer into equal parts.
LEMMA SpanFacts ==
  ASSUME W \in Nat, NEW p \in 0 .. W
  PROVE  /\ Span(p) \in Nat \ {0}
         /\ \E q \in Nat : Span(0) = q * Span(p)
         /\ p = W => Span(p) = 1
         /\ p = W - 1 => Span(p) = 2
         /\ p < W - 1 => Span(p) > 2
<1> DEFINE T == {n \in Nat : \A m \in 0 .. W : m + n <= W => \E q \in Nat \ {0} : Powers[m + n] = q * Powers[m]}
<1>0. Powers \in [0 .. W -> Nat \ {0}] /\ Powers[0] = 1 /\ \A k \in 1 .. W : Powers[k] = 2 * Powers[k - 1]
  BY PowersFacts
<1>1. 0 \in T
  <2>1. ASSUME NEW m \in 0 .. W PROVE Powers[m + 0] = 1 * Powers[m]
    <3>1. m + 0 = m /\ Powers[m] \in Nat
      BY <1>0
    <3> QED
      BY <3>1
  <2>2. 1 \in Nat \ {0}
    OBVIOUS
  <2> QED
    BY <2>1, <2>2
<1>2. ASSUME NEW n \in Nat, n \in T PROVE n + 1 \in T
  <2>1. ASSUME NEW m \in 0 .. W, m + (n + 1) <= W PROVE \E q \in Nat \ {0} : Powers[m + (n + 1)] = q * Powers[m]
    <3>1. PICK q \in Nat \ {0} : Powers[m + n] = q * Powers[m]
      BY <1>2, <2>1
    <3> DEFINE k == m + (n + 1)
    <3>2. k \in 1 .. W /\ k - 1 = m + n
      BY <2>1
    <3> HIDE DEF k
    <3>3. Powers[k] = 2 * (q * Powers[m])
      BY <1>0, <3>1, <3>2
    <3>4. Powers[m] \in Nat
      BY <1>0
    <3>5. Powers[k] = (2 * q) * Powers[m] /\ 2 * q \in Nat \ {0}
      BY <3>3, <3>4
    <3> QED
      BY <3>5 DEF k
  <2> QED
    BY <2>1
<1>3. \A n \in Nat : n \in T
  <2> HIDE DEF T
  <2> QED
    BY <1>1, <1>2, NatInductionOnSet
<1>4. W - p \in 0 .. W /\ W - 0 = W /\ p \in Nat
  OBVIOUS
<1>5. Span(p) \in Nat \ {0} /\ Span(p) = Powers[W - p]
  BY <1>0, <1>4 DEF Span
<1>6. \E q \in Nat : Span(0) = q * Span(p)
  <2>1. (W - p) + p <= W /\ (W - p) + p = W
    OBVIOUS
  <2>2. \E q \in Nat \ {0} : Powers[(W - p) + p] = q * Powers[W - p]
    BY <1>3, <1>4, <2>1
  <2> QED
    BY <1>4, <2>1, <2>2 DEF Span
<1>7. p = W => Span(p) = 1
  BY <1>0, <1>5
<1>8. W >= 1 => Powers[1] = 2
  <2>1. W >= 1 => 1 \in 1 .. W
    OBVIOUS
  <2> QED
    BY <1>0, <2>1
<1>9. p = W - 1 => Span(p) = 2
  <2>1. p = W - 1 => W - p = 1 /\ W >= 1
    OBVIOUS
  <2> QED
    BY <1>5, <1>8, <2>1
<1>10. p < W - 1 => Span(p) > 2
  <2>1. SUFFICES ASSUME p < W - 1 PROVE Span(p) > 2
    OBVIOUS
  <2>2. 2 \in 0 .. W /\ 2 \in 1 .. W /\ W - p - 2 \in Nat /\ 2 + (W - p - 2) = W - p /\ W >= 1 /\ 2 - 1 = 1
    BY <2>1
  <2>3. Powers[2] = 4
    BY <1>0, <1>8, <2>2
  <2>4. 2 + (W - p - 2) <= W
    OBVIOUS
  <2>5. W - p - 2 \in T
    BY <1>3, <2>2
  <2>6. \E q \in Nat \ {0} : Powers[2 + (W - p - 2)] = q * Powers[2]
    BY <2>2, <2>4, <2>5
  <2>7. PICK q \in Nat \ {0} : Powers[W - p] = q * 4
    BY <2>2, <2>3, <2>6
  <2> QED
    BY <1>5, <2>7
<1> QED
  BY <1>5, <1>6, <1>7, <1>9, <1>10

\* The addresses of a network are an interval within all addresses.
LEMMA BlockFacts ==
  ASSUME W \in Nat, NEW a \in Addresses, NEW p \in 0 .. W
  PROVE  LET d == Span(p)
             first == FirstAddress(a, p)
         IN /\ first \in Nat /\ a \in first .. first + d - 1
            /\ LastAddress(a, p) = first + d - 1
            /\ {x \in Addresses : x \div d = a \div d} = first .. first + d - 1
<1> DEFINE d == Span(p)
           s == Span(0)
           n == a \div d
           first == n * d
<1>1. d \in Nat \ {0} /\ s \in Nat \ {0} /\ \E q \in Nat : s = q * d
  <2>1. 0 \in 0 .. W
    OBVIOUS
  <2> QED
    BY <2>1, SpanFacts
<1>2. a \in Nat /\ a < s
  BY <1>1 DEF Addresses
<1> HIDE DEF d, s
<1>3. n \in Nat /\ first <= a /\ a < first + d
  BY <1>1, <1>2, Division
<1>4. first \in Nat /\ first + d <= s
  <2>1. PICK q \in Nat : s = q * d
    BY <1>1
  <2> HIDE DEF n
  <2>2. n < q
    <3>1. SUFFICES ASSUME q <= n PROVE FALSE
      BY <1>3
    <3>2. PICK r \in Nat : n = q + r
      <4>1. n - q \in Nat /\ n = q + (n - q)
        BY <1>3, <3>1
      <4> QED
        BY <4>1
    <3>3. first = q * d + r * d /\ r * d \in Nat
      BY <1>1, <3>2
    <3> QED
      BY <1>1, <1>2, <1>3, <2>1, <3>3
  <2>3. PICK r \in Nat : q = n + 1 + r
    <3>1. q - (n + 1) \in Nat /\ q = n + 1 + (q - (n + 1))
      BY <1>3, <2>2
    <3> QED
      BY <3>1
  <2>4. s = first + d + r * d /\ r * d \in Nat /\ first \in Nat
    BY <1>1, <1>3, <2>1, <2>3
  <2> QED
    BY <1>1, <2>4
<1>5. ASSUME NEW x PROVE x \in Addresses /\ x \div d = n <=> x \in first .. first + d - 1
  <2>1. x \in Addresses <=> x \in Nat /\ x < s
    BY <1>1 DEF Addresses, s
  <2> HIDE DEF n, first
  <2>2. x \in first .. first + d - 1 <=> x \in Nat /\ first <= x /\ x < first + d
    BY <1>1, <1>4
  <2>3. x \in Nat /\ x \div d = n => first <= x /\ x < first + d
    BY <1>1, Division DEF first
  <2>4. x \in Nat /\ first <= x /\ x < first + d => x \div d = n
    BY <1>1, <1>3, Division DEF first
  <2>5. x \in Nat /\ first <= x /\ x < first + d => x < s
    BY <1>1, <1>4
  <2> QED
    BY <2>1, <2>2, <2>3, <2>4, <2>5
<1>6. {x \in Addresses : x \div d = n} = first .. first + d - 1
  BY <1>5
<1>7. FirstAddress(a, p) = first /\ LastAddress(a, p) = first + d - 1
  BY DEF FirstAddress, LastAddress, d
<1>8. a \in first .. first + d - 1
  <2> HIDE DEF first
  <2> QED
    BY <1>1, <1>2, <1>3, <1>4
<1> QED
  BY <1>4, <1>6, <1>7, <1>8 DEF d

\* What a cell of an IP column can be.
IpCellOK(cell) ==
  Missing(cell) \/ (~Missing(cell) /\ cell[2] \in Addresses /\ cell[3] \in 0 .. Single)

\* An axis is the list of the addresses the cell stands for, none of them twice.
LEMMA AxisFacts ==
  ASSUME W \in Nat, NEW row, NEW c, IpCellOK(row[c])
  PROVE  LET cell == row[c]
             axis == Axis(row, c)
         IN /\ \E V : axis \in Seq(V)
            /\ ToSet(axis) = Denoted(cell, c \in Expanded)
            /\ Once(axis)
            /\ axis # << >>
<1> DEFINE cell == row[c]
           axis == Axis(row, c)
           first == FirstAddress(cell[2], cell[3])
           d == Span(cell[3])
           edge == IF cell[3] >= W - 1 THEN 0 ELSE 1
           port == cell[4]
<1>1. CASE Missing(cell)
  <2>1. axis = <<Zero>>
    BY <1>1 DEF Axis
  <2>2. Denoted(cell, c \in Expanded) = {Zero}
    BY <1>1 DEF Denoted
  <2>3. Zero \in {Zero}
    OBVIOUS
  <2> HIDE DEF axis
  <2>4. axis \in Seq({Zero}) /\ DOMAIN axis = 1 .. 1 /\ axis[1] = Zero /\ axis # << >>
    BY <2>1, <2>3, SingletonSeq
  <2>5. ToSet(axis) = {Zero} /\ Once(axis)
    BY <2>4 DEF ToSet, Once
  <2> QED
    BY <2>2, <2>4, <2>5 DEF axis
<1>2. CASE ~Missing(cell) /\ ~IsNetwork(cell)
  <2>1. axis = <<<<cell[2], port>>>>
    BY <1>2 DEF Axis
  <2>2. Denoted(cell, c \in Expanded) = {<<cell[2], port>>}
    BY <1>2 DEF Denoted
  <2> DEFINE x == <<cell[2], port>>
  <2>3. x \in {x}
    OBVIOUS
  <2> HIDE DEF axis, x
  <2>4. axis \in Seq({x}) /\ DOMAIN axis = 1 .. 1 /\ axis[1] = x /\ axis # << >>
    BY <2>1, <2>3, SingletonSeq DEF x
  <2>5. ToSet(axis) = {x} /\ Once(axis)
    BY <2>4 DEF ToSet, Once
  <2> QED
    BY <2>2, <2>4, <2>5 DEF axis, x
<1>3. CASE ~Missing(cell) /\ IsNetwork(cell)
  <2> DEFINE block == {x \in Addresses : x \div d = cell[2] \div d}
             inner == {x \in block : \E y, z \in block : y < x /\ x < z}
             least == {x \in block : \A y \in block : x <= y}
  <2>1. cell[2] \in Addresses /\ cell[3] \in 0 .. W
    <3>1. cell[2] \in Addresses /\ cell[3] \in 0 .. W + 1 /\ cell[3] # W + 1
      BY <1>3 DEF IpCellOK, IsNetwork, Single
    <3> QED
      BY <3>1
  <2>2. first \in Nat /\ LastAddress(cell[2], cell[3]) = first + d - 1 /\ block = first .. first + d - 1
    BY <2>1, BlockFacts
  <2>3. /\ d \in Nat \ {0}
        /\ cell[3] = W => d = 1
        /\ cell[3] = W - 1 => d = 2
        /\ cell[3] < W - 1 => d > 2
    BY <2>1, SpanFacts
  <2>4. Denoted(cell, c \in Expanded) =
          {<<x, port>> : x \in IF c \notin Expanded THEN least ELSE IF inner = {} THEN block ELSE inner}
    BY <1>3 DEF Denoted
  <2> HIDE DEF first, d, block
  <2>5. CASE c \notin Expanded
    <3>1. axis = <<<<first, port>>>>
      BY <1>3, <2>5 DEF Axis, first
    <3>2. least = {first}
      BY <2>2, <2>3
    <3> DEFINE x == <<first, port>>
    <3>3. x \in {x}
      OBVIOUS
    <3> HIDE DEF axis, x, least
    <3>4. axis \in Seq({x}) /\ DOMAIN axis = 1 .. 1 /\ axis[1] = x /\ axis # << >>
      BY <3>1, <3>3, SingletonSeq DEF x
    <3>5. ToSet(axis) = {x} /\ Once(axis)
      BY <3>4 DEF ToSet, Once
    <3>6. Denoted(cell, c \in Expanded) = {x}
      BY <2>4, <2>5, <3>2 DEF x
    <3> QED
      BY <3>4, <3>5, <3>6 DEF axis
  <2>6. CASE c \in Expanded
    <3> DEFINE n == first + d - 1 - first + 1 - 2 * edge
               all == first + edge .. first + edge + n - 1
    <3>1. axis = [i \in 1 .. n |-> <<first + edge + i - 1, port>>]
      <4> DEFINE last == LastAddress(cell[2], cell[3])
      <4>1. axis = [i \in 1 .. last - first + 1 - 2 * edge |-> <<first + edge + i - 1, port>>]
        BY <1>3, <2>6 DEF Axis, first
      <4>2. last = first + d - 1 /\ edge \in Int
        BY <2>2
      <4> HIDE DEF last, axis, edge
      <4>3. last - first + 1 - 2 * edge = n
        BY <2>2, <2>3, <4>2
      <4> HIDE DEF n
      <4> QED
        BY <4>1, <4>3
    <3>2. n \in Nat /\ n # 0 /\ edge \in {0, 1} /\ n = d - 2 * edge
      BY <2>1, <2>2, <2>3
    <3>3. (edge = 0 => d = 1 \/ d = 2) /\ (edge = 1 => d > 2)
      BY <2>1, <2>3
    <3> HIDE DEF n, edge
    <3>4. (IF inner = {} THEN block ELSE inner) = all
      <4>1. CASE edge = 0
        <5>1. inner = {}
          BY <2>2, <2>3, <3>3, <4>1
        <5>2. block = all
          BY <2>2, <2>3, <3>2, <4>1
        <5> QED
          BY <5>1, <5>2
      <4>2. CASE edge = 1
        <5>1. inner = first + 1 .. first + d - 2
          <6>1. ASSUME NEW x \in inner PROVE x \in first + 1 .. first + d - 2
            <7> QED
              BY <2>2, <2>3
          <6>2. ASSUME NEW x \in first + 1 .. first + d - 2 PROVE x \in inner
            <7>1. x \in block /\ first \in block /\ first + d - 1 \in block
              BY <2>2, <2>3
            <7>2. first < x /\ x < first + d - 1
              BY <2>2, <2>3
            <7> QED
              BY <7>1, <7>2
          <6> HIDE DEF inner
          <6> QED
            BY <6>1, <6>2
        <5>2. first + 1 \in first + 1 .. first + d - 2
          BY <2>2, <2>3, <3>3, <4>2
        <5>3. all = first + 1 .. first + d - 2
          BY <2>2, <2>3, <3>2, <4>2
        <5> HIDE DEF inner, all
        <5> QED
          BY <5>1, <5>2, <5>3
      <4> QED
        BY <3>2, <4>1, <4>2
    <3>5. Denoted(cell, c \in Expanded) = {<<x, port>> : x \in all}
      BY <2>4, <2>6, <3>4
    <3> HIDE DEF axis
    <3>6. DOMAIN axis = 1 .. n /\ \A i \in 1 .. n : axis[i] = <<first + edge + i - 1, port>>
      BY <3>1
    <3>7. ASSUME NEW i \in 1 .. n PROVE first + edge + i - 1 \in all
      BY <2>2, <3>2
    <3>8. ASSUME NEW x \in all PROVE \E i \in 1 .. n : x = first + edge + i - 1
      <4>1. x - first - edge + 1 \in 1 .. n /\ x = first + edge + (x - first - edge + 1) - 1
        BY <2>2, <3>2
      <4> QED
        BY <4>1
    <3> DEFINE V == {<<x, port>> : x \in all}
    <3> HIDE DEF all
    <3>9. \A i \in 1 .. n : axis[i] \in V
      BY <3>6, <3>7
    <3>10. \A v \in V : \E i \in 1 .. n : v = axis[i]
      BY <3>6, <3>8
    <3>11. Once(axis)
      <4>1. ASSUME NEW i \in 1 .. n, NEW j \in 1 .. n, axis[i] = axis[j] PROVE i = j
        <5>1. first + edge + i - 1 = first + edge + j - 1
          BY <3>6, <4>1
        <5> QED
          BY <2>2, <3>2, <5>1
      <4> QED
        BY <3>6, <4>1 DEF Once
    <3> HIDE DEF V
    <3>12. ToSet(axis) = V
      BY <3>6, <3>9, <3>10 DEF ToSet
    <3>13. axis \in [1 .. n -> V]
      <4>1. axis = [i \in 1 .. n |-> axis[i]]
        BY <3>1, <3>6
      <4> QED
        BY <3>9, <4>1
    <3>14. axis \in Seq(V) /\ Len(axis) = n
      BY <3>2, <3>13
    <3>15. axis # << >>
      BY <3>2, <3>14
    <3> QED
      BY <3>5, <3>11, <3>12, <3>14, <3>15 DEF axis, V
  <2> QED
    BY <2>5, <2>6
<1> QED
  BY <1>1, <1>2, <1>3

\* The product of three axes, each combination once.
LEMMA ProductFacts ==
  ASSUME NEW row, NEW X, NEW Y, NEW Z,
         Axis(row, "internal") \in Seq(X), Axis(row, "external") \in Seq(Y), Axis(row, "resource") \in Seq(Z),
         Once(Axis(row, "internal")), Once(Axis(row, "external")), Once(Axis(row, "resource"))
  PROVE  LET A == Axis(row, "internal")
             B == Axis(row, "external")
             C == Axis(row, "resource")
         IN /\ \E V : Tasks(row) \in Seq(V)
            /\ Len(Tasks(row)) = Len(A) * (Len(B) * Len(C))
            /\ ToSet(Tasks(row)) = [src : ToSet(A), xlated : ToSet(B), dst : ToSet(C)]
            /\ Once(Tasks(row))
<1> DEFINE A == Axis(row, "internal")
           B == Axis(row, "external")
           C == Axis(row, "resource")
           a == Len(A)
           b == Len(B)
           c == Len(C)
           V == [src : ToSet(A), xlated : ToSet(B), dst : ToSet(C)]
           task(i, e, r) == [src |-> A[i], xlated |-> B[e], dst |-> C[r]]
           line(i, e) == [r \in DOMAIN C |-> task(i, e, r)]
           lines(i) == [e \in DOMAIN B |-> line(i, e)]
           sheets == [i \in DOMAIN A |-> FlattenSeq(lines(i))]
<1>1. Tasks(row) = FlattenSeq(sheets)
  BY DEF Tasks
<1>2. /\ a \in Nat /\ b \in Nat /\ c \in Nat
      /\ DOMAIN A = 1 .. a /\ DOMAIN B = 1 .. b /\ DOMAIN C = 1 .. c
  <2> HIDE DEF A, B, C
  <2> QED
    BY DEF A, B, C
<1>3. \A i \in 1 .. a, e \in 1 .. b, r \in 1 .. c : task(i, e, r) \in V
  BY <1>2 DEF ToSet
<1>4. \A i, j \in 1 .. a, e, f \in 1 .. b, r, s \in 1 .. c :
        task(i, e, r) = task(j, f, s) => i = j /\ e = f /\ r = s
  <2> TAKE i, j \in 1 .. a, e, f \in 1 .. b, r, s \in 1 .. c
  <2>1. task(i, e, r) = task(j, f, s) => A[i] = A[j] /\ B[e] = B[f] /\ C[r] = C[s]
    <3> HIDE DEF A, B, C
    <3> QED
      OBVIOUS
  <2> HIDE DEF task
  <2>2. Once(A) /\ Once(B) /\ Once(C)
    OBVIOUS
  <2> HIDE DEF A, B, C
  <2> QED
    BY <1>2, <2>1, <2>2 DEF Once
<1>5. \A v \in V : \E i \in 1 .. a, e \in 1 .. b, r \in 1 .. c : v = task(i, e, r)
  <2> TAKE v \in V
  <2>1. v.src \in ToSet(A) /\ v.xlated \in ToSet(B) /\ v.dst \in ToSet(C)
        /\ v = [src |-> v.src, xlated |-> v.xlated, dst |-> v.dst]
    <3> HIDE DEF A, B, C
    <3> QED
      OBVIOUS
  <2>2. PICK i \in 1 .. a, e \in 1 .. b, r \in 1 .. c : v.src = A[i] /\ v.xlated = B[e] /\ v.dst = C[r]
    <3> HIDE DEF A, B, C, V
    <3> QED
      BY <1>2, <2>1 DEF ToSet
  <2>3. v = task(i, e, r)
    <3> HIDE DEF A, B, C
    <3> QED
      BY <2>1, <2>2
  <2> QED
    BY <2>3
<1> HIDE DEF A, B, C, a, b, c, V, task
<1>6. ASSUME NEW i \in 1 .. a, NEW e \in 1 .. b
      PROVE  /\ line(i, e) \in Seq(V) /\ Len(line(i, e)) = c
             /\ ToSet(line(i, e)) = {task(i, e, r) : r \in 1 .. c} /\ Once(line(i, e))
  <2>1. DOMAIN line(i, e) = 1 .. c /\ \A r \in 1 .. c : line(i, e)[r] = task(i, e, r)
    BY <1>2
  <2>2. line(i, e) \in [1 .. c -> V]
    BY <1>2, <1>3
  <2> HIDE DEF line
  <2>3. line(i, e) \in Seq(V) /\ Len(line(i, e)) = c
    BY <1>2, <2>2
  <2>4. ToSet(line(i, e)) = {task(i, e, r) : r \in 1 .. c}
    BY <2>1 DEF ToSet
  <2>5. Once(line(i, e))
    BY <1>4, <2>1 DEF Once
  <2> QED
    BY <2>3, <2>4, <2>5
<1> HIDE DEF line
<1>7. ASSUME NEW i \in 1 .. a
      PROVE  LET s == FlattenSeq(lines(i))
             IN /\ s \in Seq(V) /\ Len(s) = b * c
                /\ ToSet(s) = {task(i, pair[1], pair[2]) : pair \in (1 .. b) \X (1 .. c)} /\ Once(s)
  <2> DEFINE s == FlattenSeq(lines(i))
  <2>1. DOMAIN lines(i) = 1 .. b /\ \A e \in 1 .. b : lines(i)[e] = line(i, e)
    BY <1>2
  <2>2. lines(i) \in [1 .. b -> Seq(V)]
    BY <1>2, <1>6
  <2> HIDE DEF lines
  <2>3. lines(i) \in Seq(Seq(V)) /\ Len(lines(i)) = b
    BY <1>2, <2>2
  <2>4. \A k \in DOMAIN lines(i) : Len(lines(i)[k]) = c /\ Once(lines(i)[k])
    BY <1>6, <2>1
  <2>5. s \in Seq(V) /\ Len(s) = b * c
    BY <1>2, <2>3, <2>4, FlattenEven, FlattenFacts
  <2>6. ASSUME NEW j \in DOMAIN lines(i), NEW k \in DOMAIN lines(i), j # k
        PROVE  ToSet(lines(i)[j]) \cap ToSet(lines(i)[k]) = {}
    <3>1. /\ ToSet(lines(i)[j]) = {task(i, j, r) : r \in 1 .. c}
          /\ ToSet(lines(i)[k]) = {task(i, k, r) : r \in 1 .. c}
      BY <1>6, <2>1
    <3>2. \A r, q \in 1 .. c : task(i, j, r) # task(i, k, q)
      BY <1>4, <2>1, <2>6
    <3> QED
      BY <3>1, <3>2
  <2>7. ToSet(s) = UNION {ToSet(lines(i)[k]) : k \in DOMAIN lines(i)} /\ Once(s)
    BY <2>3, <2>4, <2>6, FlattenOnce
  <2> DEFINE T == {task(i, pair[1], pair[2]) : pair \in (1 .. b) \X (1 .. c)}
  <2>8. UNION {ToSet(lines(i)[k]) : k \in DOMAIN lines(i)} = T
    <3>1. \A e \in 1 .. b : ToSet(lines(i)[e]) = {task(i, e, r) : r \in 1 .. c}
      BY <1>6, <2>1
    <3>2. ASSUME NEW e \in 1 .. b, NEW r \in 1 .. c PROVE task(i, e, r) \in T
      <4>1. <<e, r>> \in (1 .. b) \X (1 .. c) /\ <<e, r>>[1] = e /\ <<e, r>>[2] = r
        OBVIOUS
      <4> QED
        BY <4>1
    <3>3. \A t \in T : \E e \in 1 .. b, r \in 1 .. c : t = task(i, e, r)
      OBVIOUS
    <3> HIDE DEF T
    <3> QED
      BY <2>1, <3>1, <3>2, <3>3
  <2> QED
    BY <2>5, <2>7, <2>8
<1> HIDE DEF lines
<1>8. DOMAIN sheets = 1 .. a /\ \A i \in 1 .. a : sheets[i] = FlattenSeq(lines(i))
  BY <1>2
<1>9. sheets \in [1 .. a -> Seq(V)]
  BY <1>2, <1>7
<1> HIDE DEF sheets
<1>10. sheets \in Seq(Seq(V)) /\ Len(sheets) = a
  BY <1>2, <1>9
<1>11. \A k \in DOMAIN sheets : Len(sheets[k]) = b * c /\ Once(sheets[k])
  BY <1>7, <1>8
<1>12. b * c \in Nat
  BY <1>2
<1>13. FlattenSeq(sheets) \in Seq(V) /\ Len(FlattenSeq(sheets)) = a * (b * c)
  BY <1>10, <1>11, <1>12, FlattenEven, FlattenFacts
<1>14. ASSUME NEW j \in DOMAIN sheets, NEW k \in DOMAIN sheets, j # k
       PROVE  ToSet(sheets[j]) \cap ToSet(sheets[k]) = {}
  <2>1. /\ ToSet(sheets[j]) = {task(j, pair[1], pair[2]) : pair \in (1 .. b) \X (1 .. c)}
        /\ ToSet(sheets[k]) = {task(k, pair[1], pair[2]) : pair \in (1 .. b) \X (1 .. c)}
    BY <1>7, <1>8
  <2>2. \A p, q \in (1 .. b) \X (1 .. c) : task(j, p[1], p[2]) # task(k, q[1], q[2])
    BY <1>4, <1>8, <1>14
  <2> QED
    BY <2>1, <2>2
<1>15. ToSet(FlattenSeq(sheets)) = UNION {ToSet(sheets[k]) : k \in DOMAIN sheets} /\ Once(FlattenSeq(sheets))
  BY <1>10, <1>11, <1>14, FlattenOnce
<1>16. UNION {ToSet(sheets[k]) : k \in DOMAIN sheets} = V
  <2>1. \A i \in 1 .. a : ToSet(sheets[i]) = {task(i, pair[1], pair[2]) : pair \in (1 .. b) \X (1 .. c)}
    BY <1>7, <1>8
  <2>2. ASSUME NEW v \in V PROVE \E i \in 1 .. a : v \in ToSet(sheets[i])
    <3>1. PICK i \in 1 .. a, e \in 1 .. b, r \in 1 .. c : v = task(i, e, r)
      BY <1>5
    <3>2. <<e, r>> \in (1 .. b) \X (1 .. c) /\ <<e, r>>[1] = e /\ <<e, r>>[2] = r
      OBVIOUS
    <3>3. v \in {task(i, pair[1], pair[2]) : pair \in (1 .. b) \X (1 .. c)}
      BY <3>1, <3>2
    <3> QED
      BY <2>1, <3>3
  <2>3. ASSUME NEW i \in 1 .. a, NEW v \in ToSet(sheets[i]) PROVE v \in V
    <3>1. PICK pair \in (1 .. b) \X (1 .. c) : v = task(i, pair[1], pair[2])
      BY <2>1
    <3>2. pair[1] \in 1 .. b /\ pair[2] \in 1 .. c
      OBVIOUS
    <3> QED
      BY <1>3, <3>1, <3>2
  <2> QED
    BY <1>8, <2>2, <2>3
<1> QED
  BY <1>1, <1>13, <1>15, <1>16 DEF A, B, C, V, a, b, c

\* What is trimmed off a line is its end.
LEMMA CellsFacts ==
  ASSUME NEW X, NEW file, NEW cells \in Seq(X)
  PROVE  LET s == Cells(file, cells)
         IN /\ Len(s) \in 0 .. Len(cells)
            /\ \A i \in 1 .. Len(s) : s[i] = cells[i]
<1> DEFINE filled == {i \in DOMAIN cells : cells[i] # Blank}
           last(n) == (\A i \in filled : i <= n) /\ (n # 0 => n \in filled)
           m == CHOOSE n \in 0 .. Len(cells) : last(n)
<1>1. Len(cells) \in Nat /\ DOMAIN cells = 1 .. Len(cells)
  OBVIOUS
<1>2. m \in 0 .. Len(cells)
  <2>1. CASE filled = {}
    <3>1. last(0) /\ 0 \in 0 .. Len(cells)
      BY <1>1, <2>1
    <3> HIDE DEF last
    <3> QED
      BY <3>1
  <2>2. CASE filled # {}
    <3>1. filled \in SUBSET (0 .. Len(cells))
      BY <1>1
    <3>2. PICK n \in filled : \A i \in filled : i <= n
      <4> HIDE DEF filled
      <4> QED
        BY <1>1, <2>2, <3>1, LargestNumber
    <3>3. last(n) /\ n \in 0 .. Len(cells)
      BY <3>1, <3>2
    <3> HIDE DEF last
    <3> QED
      BY <3>3
  <2> QED
    BY <2>1, <2>2
<1>3. Cells(file, cells) = IF file.name = "xlsx" THEN SubSeq(cells, 1, m) ELSE cells
  BY DEF Cells
<1> HIDE DEF m
<1>4. Len(SubSeq(cells, 1, m)) = m /\ \A i \in 1 .. m : SubSeq(cells, 1, m)[i] = cells[i]
  BY <1>1, <1>2
<1> QED
  BY <1>1, <1>2, <1>3, <1>4

\* A cell of a row that was read is one of the file, or empty.
LEMMA ParsedCells ==
  ASSUME NEW file, file.headers \in Seq(ToSet(file.headers)), file.rows \in Seq(ToSet(file.rows)),
         \A cells \in ToSet(file.rows) : cells \in Seq(ToSet(cells)),
         NEW k \in DOMAIN ParsedRows(file), NEW c \in ToSet(file.headers)
  PROVE  \E cells \in ToSet(file.rows) : ParsedRows(file)[k].row[c] \in ToSet(cells) \cup {Blank}
<1> DEFINE V == ToSet(file.rows)
           filled == {n \in DOMAIN file.rows : \E i \in DOMAIN file.rows[n] : file.rows[n][i] # Blank}
           data == At(file.rows, filled)
           headers == file.headers
<1>1. data \in Seq(V)
  BY AtFacts
<1>2. ParsedRows(file) = [i \in DOMAIN data |-> [row   |-> ParsedRow(headers, Cells(file, data[i])),
                                                 count |-> Len(Cells(file, data[i]))]]
  BY DEF ParsedRows
<1> HIDE DEF data, V
<1>3. k \in DOMAIN data /\ data[k] \in V
  BY <1>1, <1>2
<1>4. ParsedRows(file)[k].row = ParsedRow(headers, Cells(file, data[k]))
  BY <1>2, <1>3
<1> DEFINE line == data[k]
           s == Cells(file, line)
           of(i) == headers[i] = c /\ \A j \in DOMAIN headers : headers[j] = c => j <= i
           i0 == CHOOSE i \in DOMAIN headers : of(i)
<1>5. line \in V /\ line \in Seq(ToSet(line))
  BY <1>3 DEF V
<1>6. ParsedRow(headers, s)[c] = IF i0 <= Len(s) THEN s[i0] ELSE Blank
  BY DEF ParsedRow
<1>7. i0 \in Nat \ {0}
  <2> DEFINE T == {i \in DOMAIN headers : headers[i] = c}
  <2>1. Len(headers) \in Nat /\ DOMAIN headers = 1 .. Len(headers)
    OBVIOUS
  <2>2. T # {} /\ T \in SUBSET (0 .. Len(headers))
    BY <2>1 DEF ToSet
  <2>3. PICK m \in T : \A j \in T : j <= m
    <3> HIDE DEF T, headers
    <3> QED
      BY <2>1, <2>2, LargestNumber
  <2>4. m \in DOMAIN headers /\ of(m)
    BY <2>3
  <2>5. i0 \in DOMAIN headers
    <3> HIDE DEF of
    <3> QED
      BY <2>4
  <2> HIDE DEF i0
  <2> QED
    BY <2>1, <2>5
<1> HIDE DEF i0, line
<1>8. Len(s) \in 0 .. Len(line) /\ \A i \in 1 .. Len(s) : s[i] = line[i]
  BY <1>5, CellsFacts
<1> HIDE DEF s
<1>9. CASE i0 <= Len(s)
  <2>1. i0 \in 1 .. Len(s) /\ i0 \in DOMAIN line
    BY <1>5, <1>7, <1>8, <1>9
  <2>2. line[i0] \in ToSet(line)
    BY <2>1 DEF ToSet
  <2>3. ParsedRows(file)[k].row[c] = line[i0]
    BY <1>4, <1>6, <1>8, <1>9, <2>1 DEF s, line
  <2> QED
    BY <1>5, <2>2, <2>3 DEF V
<1>10. CASE ~(i0 <= Len(s))
  <2>1. ParsedRows(file)[k].row[c] = Blank
    BY <1>4, <1>6, <1>10 DEF s, line
  <2> QED
    BY <1>5, <2>1 DEF V
<1> QED
  BY <1>9, <1>10

\* An address without an error is an address, an internal one of the own networks.
LEMMA IpAccepted ==
  ASSUME NEW row, NEW c, IpError(row, c) = << >>, ~Missing(row[c])
  PROVE  row[c][1] = "ip" /\ (c = "internal" => Beltelecom(row[c]))
<1> DEFINE cell == row[c]
           ip == cell[1] = "ip"
           bad == cell = BadPort
           text == ~ip
           network == ip /\ IsNetwork(cell) /\ c \notin CidrAllowed
           foreign == ip /\ c = "internal" /\ ~Beltelecom(cell)
           checks == << <<bad, "INVALID_PORT">>, <<text, "INVALID_IP_FORMAT">>,
                        <<network, "CIDR_NOT_ALLOWED">>, <<foreign, "IP_NOT_BELTELECOM">> >>
<1>1. FirstOf(c, checks) = << >>
  BY DEF IpError
<1> HIDE DEF bad, text, network, foreign
<1>2. DOMAIN checks = 1 .. 4 /\ checks[2] = <<text, "INVALID_IP_FORMAT">> /\ checks[4] = <<foreign, "IP_NOT_BELTELECOM">>
  OBVIOUS
<1>3. (checks[2][1] <=> text) /\ (checks[4][1] <=> foreign)
  BY <1>2
<1> HIDE DEF checks
<1>4. ~checks[2][1] /\ ~checks[4][1]
  BY <1>1, <1>2, FirstOfFacts
<1>5. ~text /\ ~foreign
  BY <1>3, <1>4
<1> QED
  BY <1>5 DEF text, foreign

\* Every address that an accepted source stands for is the operator's.
LEMMA SourceOwned ==
  ASSUME RowAssumption, NEW cell, ~Missing(cell), cell[2] \in Addresses, cell[3] \in 0 .. Single,
         Beltelecom(cell), NEW expanded, NEW x \in Denoted(cell, expanded)
  PROVE  \E n \in Networks : x[1] \div Span(n[2]) = n[1] \div Span(n[2])
<1> DEFINE p == IF IsNetwork(cell) THEN cell[3] ELSE W
           block == {y \in Addresses : y \div Span(cell[3]) = cell[2] \div Span(cell[3])}
<1>1. W \in Nat /\ p \in 0 .. W /\ \A n \in Networks : n[1] \in Addresses /\ n[2] \in 0 .. W
  BY DEF RowAssumption, IsNetwork, Single
<1>2. x[1] \in FirstAddress(cell[2], p) .. LastAddress(cell[2], p)
  <2>1. CASE ~IsNetwork(cell)
    <3>1. x[1] = cell[2]
      BY <2>1 DEF Denoted
    <3> QED
      BY <1>1, <3>1, BlockFacts
  <2>2. CASE IsNetwork(cell)
    <3>1. x[1] \in block
      BY <2>2 DEF Denoted
    <3>2. p = cell[3]
      BY <2>2
    <3>3. block = FirstAddress(cell[2], p) .. LastAddress(cell[2], p)
      BY <1>1, <3>2, BlockFacts
    <3> QED
      BY <3>1, <3>3
  <2> QED
    BY <2>1, <2>2
<1>3. PICK n \in Networks : /\ FirstAddress(n[1], n[2]) <= FirstAddress(cell[2], p)
                            /\ LastAddress(cell[2], p) <= LastAddress(n[1], n[2])
  BY DEF Beltelecom
<1>4. /\ FirstAddress(n[1], n[2]) \in Nat /\ Span(n[2]) \in Nat
      /\ LastAddress(n[1], n[2]) = FirstAddress(n[1], n[2]) + Span(n[2]) - 1
      /\ {y \in Addresses : y \div Span(n[2]) = n[1] \div Span(n[2])}
           = FirstAddress(n[1], n[2]) .. LastAddress(n[1], n[2])
  <2>1. Span(n[2]) \in Nat
    BY <1>1, SpanFacts
  <2> QED
    BY <1>1, <2>1, BlockFacts
<1>5. /\ FirstAddress(cell[2], p) \in Nat /\ Span(p) \in Nat
      /\ LastAddress(cell[2], p) = FirstAddress(cell[2], p) + Span(p) - 1
  <2>1. Span(p) \in Nat
    BY <1>1, SpanFacts
  <2> QED
    BY <1>1, <2>1, BlockFacts
<1> HIDE DEF p
<1>6. x[1] \in FirstAddress(n[1], n[2]) .. LastAddress(n[1], n[2])
  BY <1>2, <1>3, <1>4, <1>5
<1> QED
  BY <1>4, <1>6

\* Only taken rows of a file without error have tasks, those that their cells ask for.
LEMMA TakenRows ==
  ASSUME NEW file, NEW enforce, NEW k \in DOMAIN Response(file, enforce).tasks
  PROVE  /\ FileError(file) = << >> /\ k \in Taken(file, enforce)
         /\ Response(file, enforce).tasks[k] = Tasks(ParsedRows(file)[k].row)
BY DEF Response, Taken, TooBig, FirstOnes, WithoutError, Own

\* A file without error has exactly the columns.
LEMMA HeadersRight ==
  ASSUME NEW file, FileError(file) = << >>
  PROVE  ToSet(file.headers) = ToSet(Columns)
<1> DEFINE rows == ParsedRows(file)
           a == file.name = "missing"
           b == file.name = "other"
           c == file.headers = << >> /\ rows = << >>
           d == ToSet(file.headers) # ToSet(Columns)
           e == rows = << >>
           f == Len(rows) > MaxRows
           checks == << <<a, "MISSING_FILENAME">>, <<b, "INVALID_FILE_FORMAT">>, <<c, "EMPTY_FILE">>,
                        <<d, "INVALID_HEADERS">>, <<e, "EMPTY_FILE">>, <<f, "TOO_MANY_ROWS">> >>
<1>1. FirstOf("none", checks) = << >>
  BY DEF FileError
<1> HIDE DEF a, b, c, d, e, f
<1>2. DOMAIN checks = 1 .. 6 /\ checks[4] = <<d, "INVALID_HEADERS">>
  OBVIOUS
<1>3. checks[4][1] <=> d
  BY <1>2
<1> HIDE DEF checks
<1>4. ~checks[4][1]
  BY <1>1, <1>2, FirstOfFacts
<1> QED
  BY <1>3, <1>4 DEF d

\* A row without an error of expansion stays within the limit of combinations.
LEMMA WithinLimit ==
  ASSUME NEW row, ExpansionError(row) = << >>
  PROVE  ~(Len(Axis(row, "internal")) * Len(Axis(row, "external")) * Len(Axis(row, "resource")) > Product)
BY DEF ExpansionError, When

\* A taken row has no error of an address and none of expansion.
LEMMA TakenAccepted ==
  ASSUME NEW file, NEW enforce, NEW k \in Taken(file, enforce)
  PROVE  LET row == ParsedRows(file)[k].row
         IN /\ k \in DOMAIN ParsedRows(file)
            /\ \A c \in {"internal", "external", "resource"} : IpError(row, c) = << >>
            /\ ExpansionError(row) = << >>
<1> DEFINE row == ParsedRows(file)[k].row
<1>1. k \in DOMAIN ParsedRows(file) /\ Own(file, enforce, k) = << >> /\ ExpansionError(row) = << >>
  BY DEF Taken, TooBig, FirstOnes, WithoutError
<1>2. RowErrors(row, enforce) = << >>
  BY <1>1 DEF Own
<1>3. \A c : ~Blames(RowErrors(row, enforce), c)
  BY <1>2 DEF Blames
<1>4. \A c \in {"internal", "external", "resource"} : IpError(row, c) = << >>
  BY <1>3, RowErrorsFacts
<1> QED
  BY <1>1, <1>4

\* What RequestAssumption says of one file.
Table(file) ==
  /\ file.headers \in Seq(ToSet(file.headers))
  /\ file.rows \in Seq(ToSet(file.rows))
  /\ \A cells \in ToSet(file.rows) :
       /\ cells \in Seq(ToSet(cells))
       /\ \A cell \in ToSet(cells) : cell[1] = "ip" => cell[2] \in Addresses /\ cell[3] \in 0 .. Single

\* The tasks of a row are the combinations of the addresses that its cells denote.
LEMMA RowCovered ==
  ASSUME RowAssumption, NEW file, Table(file), NEW enforce, NEW k \in DOMAIN Response(file, enforce).tasks
  PROVE  /\ Cover(Response(file, enforce).tasks[k], ParsedRows(file)[k].row)
         /\ \E V : Response(file, enforce).tasks[k] \in Seq(V)
<1> DEFINE row == ParsedRows(file)[k].row
           tasks == Response(file, enforce).tasks[k]
           ips == {"internal", "external", "resource"}
           of(c) == Denoted(row[c], c \in Expanded)
           axis(c) == Axis(row, c)
<1>1. W \in Nat /\ Product \in Nat
  BY DEF RowAssumption
<1>2. FileError(file) = << >> /\ k \in Taken(file, enforce) /\ tasks = Tasks(row)
  BY TakenRows
<1>3. /\ k \in DOMAIN ParsedRows(file)
      /\ \A c \in ips : IpError(row, c) = << >>
      /\ ExpansionError(row) = << >>
  BY <1>2, TakenAccepted
<1>4. ASSUME NEW c \in ips
      PROVE  Missing(row[c]) \/ (row[c][2] \in Addresses /\ row[c][3] \in 0 .. Single
                                   /\ (c = "internal" => Beltelecom(row[c])))
  <2>1. SUFFICES ASSUME ~Missing(row[c])
                 PROVE  row[c][2] \in Addresses /\ row[c][3] \in 0 .. Single
                          /\ (c = "internal" => Beltelecom(row[c]))
    OBVIOUS
  <2>2. row[c][1] = "ip" /\ (c = "internal" => Beltelecom(row[c]))
    BY <1>3, <2>1, IpAccepted
  <2>3. c \in ToSet(file.headers)
    BY <1>2, HeadersRight, ColumnSet
  <2>4. PICK cells \in ToSet(file.rows) : row[c] \in ToSet(cells) \cup {Blank}
    <3>1. /\ file.headers \in Seq(ToSet(file.headers)) /\ file.rows \in Seq(ToSet(file.rows))
          /\ \A cells \in ToSet(file.rows) : cells \in Seq(ToSet(cells))
      BY DEF Table
    <3> QED
      BY <1>3, <2>3, <3>1, ParsedCells
  <2>5. row[c] # Blank
    BY <2>1 DEF Missing
  <2> QED
    BY <2>2, <2>4, <2>5 DEF Table
<1> HIDE DEF row
<1>5. ASSUME NEW c \in ips
      PROVE  (\E V : axis(c) \in Seq(V)) /\ ToSet(axis(c)) = of(c) /\ Once(axis(c)) /\ axis(c) # << >>
  <2>1. IpCellOK(row[c])
    BY <1>4 DEF IpCellOK
  <2> QED
    BY <1>1, <2>1, AxisFacts
<1>6. "internal" \in ips /\ "external" \in ips /\ "resource" \in ips
  OBVIOUS
<1> HIDE DEF axis, ips, of
<1> DEFINE a == Len(axis("internal"))
           b == Len(axis("external"))
           c == Len(axis("resource"))
<1>7. /\ \E V : Tasks(row) \in Seq(V)
      /\ Len(Tasks(row)) = a * (b * c)
      /\ ToSet(Tasks(row)) = [src : of("internal"), xlated : of("external"), dst : of("resource")]
      /\ Once(Tasks(row))
  <2>1. PICK X, Y, Z : axis("internal") \in Seq(X) /\ axis("external") \in Seq(Y) /\ axis("resource") \in Seq(Z)
    BY <1>5, <1>6
  <2>2. /\ \E V : Tasks(row) \in Seq(V)
        /\ Len(Tasks(row)) = a * (b * c)
        /\ ToSet(Tasks(row)) = [src : ToSet(axis("internal")), xlated : ToSet(axis("external")),
                                dst : ToSet(axis("resource"))]
        /\ Once(Tasks(row))
    BY <1>5, <1>6, <2>1, ProductFacts DEF axis
  <2> QED
    BY <1>5, <1>6, <2>2
<1>8. a \in Nat \ {0} /\ b \in Nat \ {0} /\ c \in Nat \ {0}
  BY <1>5, <1>6
<1>9. ~(a * b * c > Product)
  BY <1>3, WithinLimit DEF axis, row
<1> HIDE DEF a, b, c
<1>10. Len(tasks) \in 1 .. Product
  <2>1. a * b \in Nat \ {0}
    BY <1>8
  <2>2. a * b * c \in Nat \ {0}
    BY <1>8, <2>1
  <2>3. a * (b * c) = a * b * c
    BY <1>8
  <2> QED
    BY <1>1, <1>2, <1>7, <1>9, <2>2, <2>3
<1>11. Len(tasks) = Cardinality(ToSet(tasks))
  BY <1>2, <1>7, OnceCounted
<1>12. ASSUME NEW i \in DOMAIN tasks
       PROVE  tasks[i].src = Zero \/ \E n \in Networks : tasks[i].src[1] \div Span(n[2]) = n[1] \div Span(n[2])
  <2>1. tasks[i] \in ToSet(tasks)
    BY DEF ToSet
  <2>2. tasks[i].src \in of("internal")
    BY <1>2, <1>7, <2>1
  <2>3. CASE Missing(row["internal"])
    <3>1. of("internal") = {Zero}
      BY <2>3 DEF of, Denoted
    <3> QED
      BY <2>2, <3>1
  <2>4. CASE ~Missing(row["internal"])
    <3>1. /\ row["internal"][2] \in Addresses /\ row["internal"][3] \in 0 .. Single
          /\ Beltelecom(row["internal"])
      BY <1>4, <1>6, <2>4
    <3> QED
      BY <2>2, <2>4, <3>1, SourceOwned DEF of
  <2> QED
    BY <2>3, <2>4
<1> QED
  BY <1>2, <1>7, <1>10, <1>11, <1>12 DEF row, of, Cover

\* TasksCoverRow: the tasks of an accepted row ask about exactly the
\* combinations of the addresses that its cells denote, each once, no more than
\* the limit, and about no source outside of the operator's networks, for every
\* file, every width of an address and all settings.
THEOREM TasksAreRow == RequestSpec => []TasksCoverRow
<1>1. ASSUME Asked, Right PROVE TasksCoverRow
  <2>1. SUFFICES ASSUME Answered("file"), NEW k \in DOMAIN reply.tasks
                 PROVE  Cover(reply.tasks[k], ParsedRows(subject[2])[k].row)
    BY DEF TasksCoverRow
  <2>2. reply = Response(subject[2], subject[3])
    BY <1>1, <2>1 DEF Right
  <2>3. PICK r \in FileRequests : subject = <<"file", r[1], r[2]>>
    BY <1>1, <2>1 DEF Asked, Answered
  <2>4. subject[2] = r[1]
    BY <2>3
  <2>5. Table(subject[2])
    BY <2>4, RequestAssumption DEF Table
  <2> QED
    BY <2>1, <2>2, <2>5, RowAssumption, RowCovered
<1> QED
  BY <1>1, AnsweredRight, PTL

\* Nothing of an uploaded file gets lost, whatever its rows are and whatever is
\* wrong with them: IntakeService.process and _build_row_stats.
THEOREM RowsAccounted == RequestSpec => []EveryRowAccounted
<1>1. ASSUME Asked, Right PROVE EveryRowAccounted
  <2>1. SUFFICES ASSUME Answered("file"), reply.errors # <<>> PROVE EveryRowAccounted
    BY DEF EveryRowAccounted
  <2> DEFINE file == subject[2]
  <2>2. PICK r \in FileRequests : subject = <<"file", r[1], r[2]>>
    BY <1>1, <2>1 DEF Asked, Answered
  <2>3. file = r[1] /\ Table(file)
    BY <2>2, RequestAssumption DEF Table
  <2>4. reply = Response(file, subject[3])
    BY <1>1, <2>1 DEF Right
  <2> DEFINE U == UNION {ToSet(reply.tasks[k]) : k \in DOMAIN reply.tasks}
  <2>5. ASSUME NEW k \in DOMAIN reply.tasks PROVE reply.tasks[k] \in Seq(U) /\ reply.tasks[k] # << >>
    <3> DEFINE s == reply.tasks[k]
    <3>1. Cover(s, ParsedRows(file)[k].row) /\ \E V : s \in Seq(V)
      BY <2>3, <2>4, RowAssumption, RowCovered
    <3>2. ToSet(s) \subseteq U
      OBVIOUS
    <3>3. Len(s) \in 1 .. Product
      BY <3>1 DEF Cover
    <3> HIDE DEF s, U
    <3>4. PICK V : s \in Seq(V)
      BY <3>1
    <3>5. \A i \in DOMAIN s : s[i] \in ToSet(s)
      BY DEF ToSet
    <3>6. s \in Seq(U)
      BY <3>2, <3>4, <3>5
    <3>7. s # << >>
      <4>1. Len(s) # 0
        BY <3>3
      <4> QED
        BY <4>1
    <3> QED
      BY <3>6, <3>7 DEF s
  <2> HIDE DEF U
  <2>6. AsksOf(reply, U)
    BY <2>5 DEF AsksOf
  <2>7. file.rows \in Seq(ToSet(file.rows))
    BY <2>3 DEF Table
  <2> QED
    BY <2>1, <2>4, <2>6, <2>7, FileAccounted DEF EveryRowAccounted
<1> QED
  BY <1>1, AnsweredRight, PTL

-----------------------------------------------------------------------------
(* What the sheets and the lines of a workbook are. *)

Kinds == {"application", "rejection", "aggregation", "spin", "assomi"}
Alphabet == Kinds \cup {"_"} \cup {ToString(n) : n \in Nat}
Paths(w) == {w.application, w.output} \cup {w.outputs[k].aggregated : k \in DOMAIN w.outputs}
                                      \cup {w.outputs[k].spin : k \in DOMAIN w.outputs}
Sheets(P) == [title : Seq(Alphabet), kind : Kinds, paths : Seq(P)]
LinesOf(P) == {<<p[1], n>> : p \in P, n \in Nat} \cup {<<"metadata", 0>>, <<"metadata", 1>>}

\* What RequestAssumption says of one intake.
Plausible(w) ==
  /\ w.outputs \in Seq(ToSet(w.outputs))
  /\ \A k \in DOMAIN w.outputs : w.outputs[k].index \in Nat
  /\ \A p \in Paths(w) : p[2] \in Nat
  /\ w.assomi = "completed" /\ Readable(w.output) => w.output[2] > 0
  /\ w.attach \in {"assomi_csv", "combined_xlsx"}
  /\ \A key \in {"aggregated", "spin"}, j, k \in DOMAIN w.outputs :
       /\ Readable(w.outputs[j][key]) /\ Readable(w.outputs[k][key])
       /\ w.outputs[j][key][1] = w.outputs[k][key][1]
       => j = k
  /\ \A m, n \in 0 .. Len(SheetPlan(w)) + 2 : ToString(m) = ToString(n) => m = n

\* The reports that are asked for are plausible.
LEMMA ReportsPlausible == \A w \in Reports : Plausible(w)
BY RequestAssumption DEF Plausible, Paths

\* Sorted by index, and files of one index in their order.
LEMMA ByIndexFacts ==
  ASSUME NEW V, NEW files \in Seq(V), \A k \in DOMAIN files : files[k].index \in Nat
  PROVE  LET b == ByIndex(files)
             n == Len(files)
         IN /\ b \in Seq(V) /\ Len(b) = n
            /\ \E q \in [1 .. n -> 1 .. n] :
                 /\ \A k \in 1 .. n : b[k] = files[q[k]]
                 /\ \A i \in 1 .. n : \E k \in 1 .. n : q[k] = i
                 /\ \A j, k \in 1 .. n : j < k => files[q[j]].index < files[q[k]].index
                                               \/ (files[q[j]].index = files[q[k]].index /\ q[j] < q[k])
<1> DEFINE S == DOMAIN files
           n == Len(files)
           before(i, j) == files[i].index < files[j].index \/ (files[i].index = files[j].index /\ i < j)
           order == {pair \in S \X S : before(pair[1], pair[2])}
           q == InOrder(S, order)
<1>1. n \in Nat /\ S = 1 .. n /\ IsFiniteSet(S) /\ Cardinality(S) = n
  <2>1. n \in Nat /\ S = 1 .. n
    OBVIOUS
  <2>2. IsFiniteSet(1 .. n) /\ Cardinality(1 .. n) = n
    <3> HIDE DEF n
    <3> QED
      BY <2>1, FS_Interval
  <2> QED
    BY <2>1, <2>2
<1>2. ByIndex(files) = [k \in S |-> files[q[k]]]
  BY DEF ByIndex
<1>3. \A i, j \in S : <<i, j>> \in order <=> before(i, j)
  OBVIOUS
<1> HIDE DEF order
<1>4. StrictOrder(S, order)
  <2>1. \A i \in S : files[i].index \in Nat /\ i \in Nat
    BY <1>1
  <2> HIDE DEF S
  <2>2. \A i \in S : ~before(i, i)
    BY <2>1
  <2>3. \A i, j, k \in S : before(i, j) /\ before(j, k) => before(i, k)
    BY <2>1
  <2>4. \A i, j \in S : i # j => before(i, j) \/ before(j, i)
    BY <2>1
  <2> HIDE DEF before
  <2> QED
    BY <1>3, <2>2, <2>3, <2>4 DEF StrictOrder
<1>5. /\ q \in [1 .. n -> S]
      /\ \A i \in S : \E k \in 1 .. n : q[k] = i
      /\ \A i, j \in 1 .. n : i < j => <<q[i], q[j]>> \in order
  <2> HIDE DEF S, n
  <2>0. IsFiniteSet(S)
    BY <1>1
  <2>1. /\ q \in [1 .. Cardinality(S) -> S]
        /\ \A i \in S : \E k \in 1 .. Cardinality(S) : q[k] = i
        /\ \A i, j \in 1 .. Cardinality(S) : i < j => <<q[i], q[j]>> \in order
    BY <2>0, <1>4, InOrderFacts
  <2> HIDE DEF q
  <2> QED
    BY <1>1, <2>1
<1> HIDE DEF q
<1>6. \A i, j \in 1 .. n : i < j => before(q[i], q[j])
  BY <1>3, <1>5
<1>7. ByIndex(files) \in [1 .. n -> V]
  BY <1>1, <1>2, <1>5
<1>8. ByIndex(files) \in Seq(V) /\ Len(ByIndex(files)) = n
  <2> HIDE DEF n
  <2> QED
    BY <1>1, <1>7
<1>9. \A k \in 1 .. n : ByIndex(files)[k] = files[q[k]]
  BY <1>1, <1>2
<1>10. q \in [1 .. n -> 1 .. n] /\ \A i \in 1 .. n : \E k \in 1 .. n : q[k] = i
  BY <1>1, <1>5
<1> HIDE DEF n
<1> QED
  BY <1>6, <1>8, <1>9, <1>10 DEF n

\* The chosen ones of some files, each once, by their index.
Chosen(r, files, I) ==
  /\ Len(r) \in Nat /\ Len(r) = Cardinality(I) /\ DOMAIN r = 1 .. Len(r)
  /\ \A k \in DOMAIN r : \E i \in I : r[k] = files[i]
  /\ \A i \in I : \E k \in DOMAIN r : r[k] = files[i]
  /\ \A j, k \in DOMAIN r : j < k => r[j].index <= r[k].index
  /\ \A j, k \in DOMAIN r : j < k => \E x, y \in I : x # y /\ r[j] = files[x] /\ r[k] = files[y]

\* Sorting by index keeps the chosen files, each once, in the order of their index.
LEMMA SortedFacts ==
  ASSUME NEW V, NEW files \in Seq(V), \A k \in DOMAIN files : files[k].index \in Nat,
         NEW I \in SUBSET DOMAIN files
  PROVE  LET r == ByIndex(At(files, I))
         IN r \in Seq(V) /\ Chosen(r, files, I)
<1> DEFINE found == At(files, I)
           r == ByIndex(found)
           m == Len(found)
<1>1. PICK p \in [1 .. m -> I] :
        /\ m \in Nat /\ m = Cardinality(I) /\ found \in Seq(V)
        /\ \A k \in 1 .. m : found[k] = files[p[k]]
        /\ \A i \in I : \E k \in 1 .. m : p[k] = i
        /\ \A j, k \in 1 .. m : j < k => p[j] < p[k]
  <2> DEFINE q == InOrder(I, Increasing(I))
  <2>2. /\ Cardinality(I) \in Nat /\ found \in Seq(V) /\ m = Cardinality(I)
        /\ q \in [1 .. Cardinality(I) -> I]
        /\ \A k \in 1 .. Cardinality(I) : found[k] = files[q[k]]
        /\ \A i \in I : \E k \in 1 .. Cardinality(I) : q[k] = i
        /\ \A j, k \in 1 .. Cardinality(I) : j < k => q[j] < q[k]
    BY AtFacts
  <2> HIDE DEF q, found
  <2> QED
    BY <2>2
<1>2. \A k \in DOMAIN found : found[k].index \in Nat
  BY <1>1
<1>3. r = ByIndex(found)
  OBVIOUS
<1> HIDE DEF found, r, m
<1>4. PICK q \in [1 .. m -> 1 .. m] :
        /\ r \in Seq(V) /\ Len(r) = m
        /\ \A k \in 1 .. m : r[k] = found[q[k]]
        /\ \A i \in 1 .. m : \E k \in 1 .. m : q[k] = i
        /\ \A j, k \in 1 .. m : j < k => found[q[j]].index <= found[q[k]].index
        /\ \A j, k \in 1 .. m : j < k => q[j] # q[k]
  <2> DEFINE b == ByIndex(found)
  <2>1. /\ b \in Seq(V) /\ Len(b) = m
        /\ \E q \in [1 .. m -> 1 .. m] :
             /\ \A k \in 1 .. m : b[k] = found[q[k]]
             /\ \A i \in 1 .. m : \E k \in 1 .. m : q[k] = i
             /\ \A j, k \in 1 .. m : j < k => found[q[j]].index < found[q[k]].index
                                        \/ (found[q[j]].index = found[q[k]].index /\ q[j] < q[k])
    BY <1>1, <1>2, ByIndexFacts DEF m
  <2>2. PICK q \in [1 .. m -> 1 .. m] :
          /\ \A k \in 1 .. m : b[k] = found[q[k]]
          /\ \A i \in 1 .. m : \E k \in 1 .. m : q[k] = i
          /\ \A j, k \in 1 .. m : j < k => found[q[j]].index < found[q[k]].index
                                     \/ (found[q[j]].index = found[q[k]].index /\ q[j] < q[k])
    BY <2>1
  <2>3. \A k \in 1 .. m : found[q[k]].index \in Nat
    BY <1>1, <1>2 DEF m
  <2>4. \A j, k \in 1 .. m : j < k => found[q[j]].index <= found[q[k]].index
    <3> SUFFICES ASSUME NEW j \in 1 .. m, NEW k \in 1 .. m, j < k PROVE found[q[j]].index <= found[q[k]].index
      OBVIOUS
    <3>1. found[q[j]].index < found[q[k]].index \/ found[q[j]].index = found[q[k]].index
      BY <2>2
    <3>2. found[q[j]].index \in Nat /\ found[q[k]].index \in Nat
      BY <2>3
    <3> QED
      BY <3>1, <3>2
  <2>5. r \in Seq(V) /\ Len(r) = m /\ \A k \in 1 .. m : r[k] = found[q[k]]
    BY <1>3, <2>1, <2>2
  <2>6. \A j, k \in 1 .. m : j < k => q[j] # q[k]
    <3> SUFFICES ASSUME NEW j \in 1 .. m, NEW k \in 1 .. m, j < k, q[j] = q[k] PROVE FALSE
      OBVIOUS
    <3>1. found[q[j]].index < found[q[k]].index \/ (found[q[j]].index = found[q[k]].index /\ q[j] < q[k])
      BY <2>2
    <3>2. found[q[j]].index = found[q[k]].index /\ found[q[k]].index \in Nat /\ q[k] \in Nat
      BY <2>3
    <3> QED
      BY <3>1, <3>2
  <2> HIDE DEF b
  <2> QED
    BY <2>2, <2>4, <2>5, <2>6
<1>5. DOMAIN r = 1 .. m
  BY <1>1, <1>4
<1>6. ASSUME NEW k \in DOMAIN r PROVE \E i \in I : r[k] = files[i]
  <2>1. k \in 1 .. m
    BY <1>5
  <2>2. q[k] \in 1 .. m /\ r[k] = found[q[k]]
    BY <1>4, <2>1
  <2> QED
    BY <1>1, <2>1, <2>2
<1>7. ASSUME NEW i \in I PROVE \E k \in DOMAIN r : r[k] = files[i]
  <2>1. PICK k \in 1 .. m : p[k] = i
    BY <1>1
  <2>2. PICK j \in 1 .. m : q[j] = k
    BY <1>4
  <2>3. r[j] = found[q[j]] /\ found[k] = files[p[k]]
    BY <1>1, <1>4, <2>1, <2>2
  <2>4. r[j] = files[i] /\ j \in DOMAIN r
    BY <1>5, <2>1, <2>2, <2>3
  <2> QED
    BY <2>4
<1>8. \A j, k \in DOMAIN r : j < k => r[j].index <= r[k].index
  <2> SUFFICES ASSUME NEW j \in 1 .. m, NEW k \in 1 .. m, j < k PROVE r[j].index <= r[k].index
    BY <1>5
  <2>1. r[j] = found[q[j]] /\ r[k] = found[q[k]]
    BY <1>4
  <2>2. found[q[j]].index <= found[q[k]].index
    BY <1>4
  <2> QED
    BY <2>1, <2>2
<1>9. Len(r) = m /\ r \in Seq(V)
  BY <1>4
<1>10. ASSUME NEW j \in DOMAIN r, NEW k \in DOMAIN r, j < k
       PROVE  \E x, y \in I : x # y /\ r[j] = files[x] /\ r[k] = files[y]
  <2>1. j \in 1 .. m /\ k \in 1 .. m
    BY <1>5
  <2>2. /\ q[j] \in 1 .. m /\ q[k] \in 1 .. m /\ q[j] # q[k]
        /\ r[j] = found[q[j]] /\ r[k] = found[q[k]]
    BY <1>4, <1>10, <2>1
  <2>3. q[j] < q[k] \/ q[k] < q[j]
    BY <2>2
  <2>4. p[q[j]] # p[q[k]]
    <3>1. p[q[j]] < p[q[k]] \/ p[q[k]] < p[q[j]]
      BY <1>1, <2>2, <2>3
    <3>2. I \subseteq Nat
      OBVIOUS
    <3>3. p[q[j]] \in Nat /\ p[q[k]] \in Nat
      BY <2>2, <3>2
    <3> QED
      BY <3>1, <3>3
  <2>5. r[j] = files[p[q[j]]] /\ r[k] = files[p[q[k]]]
    BY <1>1, <2>2
  <2>6. p[q[j]] \in I /\ p[q[k]] \in I
    BY <2>2
  <2> QED
    BY <2>4, <2>5, <2>6
<1> HIDE DEF m
<1> QED
  BY <1>1, <1>5, <1>6, <1>7, <1>8, <1>9, <1>10 DEF r, found, Chosen

\* The files of a stage that can be read.
AllReadable(r, files) ==
  /\ Len(r) \in Nat /\ DOMAIN r = 1 .. Len(r)
  /\ Len(r) = Cardinality({k \in DOMAIN files : Readable(files[k].path)})
  /\ \A k \in DOMAIN r : r[k] \in ToSet(files) /\ Readable(r[k].path)
  /\ \A f \in ToSet(files) : Readable(f.path) => \E k \in DOMAIN r : r[k] = f
  /\ \A j, k \in DOMAIN r : j < k => r[j].index <= r[k].index
  /\ \A j, k \in DOMAIN r : j < k => \E x, y \in DOMAIN files : x # y /\ r[j] = files[x] /\ r[k] = files[y]

\* ReadablePaths are the files that can be read, in the order of their index.
LEMMA ReadablePathsFacts ==
  ASSUME NEW V, NEW files \in Seq(V), \A k \in DOMAIN files : files[k].index \in Nat
  PROVE  ReadablePaths(files) \in Seq(V) /\ AllReadable(ReadablePaths(files), files)
<1> DEFINE I == {k \in DOMAIN files : Readable(files[k].path)}
           r == ReadablePaths(files)
<1>1. I \in SUBSET DOMAIN files /\ r = ByIndex(At(files, I))
  BY DEF ReadablePaths
<1>2. \A i \in I : files[i] \in ToSet(files) /\ Readable(files[i].path)
  BY DEF ToSet
<1>3. \A f \in ToSet(files) : Readable(f.path) => \E i \in I : f = files[i]
  BY DEF ToSet
<1> HIDE DEF I, r
<1>4. /\ r \in Seq(V) /\ Len(r) \in Nat /\ Len(r) = Cardinality(I) /\ DOMAIN r = 1 .. Len(r)
      /\ \A k \in DOMAIN r : \E i \in I : r[k] = files[i]
      /\ \A i \in I : \E k \in DOMAIN r : r[k] = files[i]
      /\ \A j, k \in DOMAIN r : j < k => r[j].index <= r[k].index
      /\ \A j, k \in DOMAIN r : j < k => \E x, y \in I : x # y /\ r[j] = files[x] /\ r[k] = files[y]
  <2> DEFINE b == ByIndex(At(files, I))
  <2>1. b \in Seq(V) /\ Chosen(b, files, I)
    BY <1>1, SortedFacts
  <2>2. r = b
    BY <1>1
  <2> HIDE DEF b
  <2> QED
    BY <2>1, <2>2 DEF Chosen
<1>5. ASSUME NEW k \in DOMAIN r PROVE r[k] \in ToSet(files) /\ Readable(r[k].path)
  <2>1. PICK i \in I : r[k] = files[i]
    BY <1>4
  <2> QED
    BY <1>2, <2>1
<1>6. ASSUME NEW f \in ToSet(files), Readable(f.path) PROVE \E k \in DOMAIN r : r[k] = f
  <2>1. PICK i \in I : f = files[i]
    BY <1>3, <1>6
  <2> QED
    BY <1>4, <2>1
<1>7. \A j, k \in DOMAIN r : j < k => \E x, y \in DOMAIN files : x # y /\ r[j] = files[x] /\ r[k] = files[y]
  <2>1. \A j, k \in DOMAIN r : j < k => \E x, y \in I : x # y /\ r[j] = files[x] /\ r[k] = files[y]
    BY <1>4
  <2>2. I \subseteq DOMAIN files
    BY <1>1
  <2> QED
    BY <2>1, <2>2
<1> QED
  BY <1>4, <1>5, <1>6, <1>7 DEF I, r, AllReadable

\* The output files of a stage, as the code reads them from output_files.
LEMMA OutputsFacts ==
  ASSUME NEW w, Plausible(w), NEW key \in {"aggregated", "spin"}
  PROVE  LET files == Outputs(w, key)
         IN /\ files \in Seq([index : Nat, path : Paths(w)])
            /\ \A k \in DOMAIN files : files[k].index \in Nat
            /\ DOMAIN files = DOMAIN w.outputs
            /\ \A k \in DOMAIN w.outputs : files[k].path = w.outputs[k][key]
<1>1. Len(w.outputs) \in Nat /\ DOMAIN w.outputs = 1 .. Len(w.outputs)
  BY DEF Plausible
<1>2. \A k \in DOMAIN w.outputs : w.outputs[k][key] \in Paths(w) /\ w.outputs[k].index \in Nat
  <2>1. w.outputs[1]["aggregated"] = w.outputs[1].aggregated
    OBVIOUS
  <2>2. CASE key = "aggregated"
    BY <2>2 DEF Plausible, Paths
  <2>3. CASE key = "spin"
    BY <2>3 DEF Plausible, Paths
  <2> QED
    BY <2>2, <2>3
<1>3. Outputs(w, key) = [k \in DOMAIN w.outputs |-> [index |-> w.outputs[k].index, path |-> w.outputs[k][key]]]
  BY DEF Outputs
<1>4. Outputs(w, key) \in [1 .. Len(w.outputs) -> [index : Nat, path : Paths(w)]]
  BY <1>1, <1>2, <1>3
<1>5. Outputs(w, key) \in Seq([index : Nat, path : Paths(w)])
  <2> DEFINE n == Len(w.outputs)
             V == [index : Nat, path : Paths(w)]
  <2>1. n \in Nat /\ Outputs(w, key) \in [1 .. n -> V]
    BY <1>1, <1>4
  <2> HIDE DEF n, V
  <2>2. Outputs(w, key) \in Seq(V)
    BY <2>1
  <2> QED
    BY <2>2 DEF V
<1>6. \A k \in DOMAIN w.outputs : Outputs(w, key)[k].path = w.outputs[k][key] /\ Outputs(w, key)[k].index \in Nat
  BY <1>2, <1>3
<1> QED
  BY <1>3, <1>5, <1>6

\* The titles of the sheets before they are sanitized are texts.
LEMMA TitleTypes ==
  /\ \A kind \in Kinds : <<kind>> \in Seq(Alphabet)
  /\ \A kind \in Kinds, n \in Nat : <<kind, "_">> \o Digits(n) \in Seq(Alphabet)
<1>1. \A x, y \in Alphabet : <<x>> \in Seq(Alphabet) /\ <<x, y>> \in Seq(Alphabet)
  BY SingletonSeq
<1>2. \A kind \in Kinds : kind \in Alphabet /\ "_" \in Alphabet
  BY DEF Alphabet
<1>3. \A n \in Nat : Digits(n) \in Seq(Alphabet)
  BY <1>1 DEF Digits, Alphabet
<1>4. \A s, t \in Seq(Alphabet) : s \o t \in Seq(Alphabet)
  OBVIOUS
<1> QED
  BY <1>1, <1>2, <1>3, <1>4

\* All sheets of a stage carry its name.
LEMMA StageSheetsFacts ==
  ASSUME NEW P, NEW files \in Seq([index : Nat, path : P]), NEW kind \in Kinds, NEW merge
  PROVE  LET s == StageSheets(kind, files, merge)
         IN s \in Seq(Sheets(P)) /\ \A k \in DOMAIN s : s[k].kind = kind
<1> DEFINE V == [index : Nat, path : P]
           found == ReadablePaths(files)
           s == StageSheets(kind, files, merge)
<1>1. found \in Seq(V) /\ Len(found) \in Nat /\ DOMAIN found = 1 .. Len(found)
  <2>1. \A k \in DOMAIN files : files[k].index \in Nat
    <3>1. files \in Seq(V)
      OBVIOUS
    <3>2. \A k \in DOMAIN files : files[k] \in V
      <4> HIDE DEF V
      <4> QED
        BY <3>1
    <3> QED
      BY <3>2
  <2>2. found \in Seq(V)
    BY <2>1, ReadablePathsFacts
  <2> HIDE DEF found, V
  <2> QED
    BY <2>2
<1>2. \A k \in DOMAIN found : found[k].path \in P /\ found[k].index \in Nat
  <2>1. \A k \in DOMAIN found : found[k] \in V
    <3> HIDE DEF found, V
    <3> QED
      BY <1>1
  <2> HIDE DEF found
  <2> QED
    BY <2>1
<1>3. s = IF found = << >> THEN << >>
          ELSE IF merge THEN <<Sheet(<<kind>>, kind, [k \in DOMAIN found |-> found[k].path])>>
          ELSE [k \in DOMAIN found |-> Sheet(<<kind, "_">> \o Digits(found[k].index), kind, <<found[k].path>>)]
  BY DEF StageSheets
<1> HIDE DEF found, s, V
<1>4. ASSUME found = << >> PROVE s \in Seq(Sheets(P)) /\ \A k \in DOMAIN s : s[k].kind = kind
  BY <1>3, <1>4
<1>5. ASSUME found # << >>, merge PROVE s \in Seq(Sheets(P)) /\ \A k \in DOMAIN s : s[k].kind = kind
  <2> DEFINE paths == [k \in DOMAIN found |-> found[k].path]
             one == Sheet(<<kind>>, kind, paths)
  <2>1. paths \in Seq(P)
    <3>1. paths \in [1 .. Len(found) -> P]
      BY <1>1, <1>2
    <3> QED
      BY <1>1, <3>1
  <2>2. one \in Sheets(P) /\ one.kind = kind
    <3> HIDE DEF paths
    <3> QED
      BY <2>1, TitleTypes DEF Sheet, Sheets
  <2>3. s = <<one>>
    BY <1>3, <1>5
  <2> HIDE DEF one
  <2> QED
    BY <2>2, <2>3, SingletonSeq
<1>6. ASSUME found # << >>, ~merge PROVE s \in Seq(Sheets(P)) /\ \A k \in DOMAIN s : s[k].kind = kind
  <2>1. s = [k \in DOMAIN found |-> Sheet(<<kind, "_">> \o Digits(found[k].index), kind, <<found[k].path>>)]
    BY <1>3, <1>6
  <2>2. ASSUME NEW k \in DOMAIN found
        PROVE  s[k] \in Sheets(P) /\ s[k].kind = kind
    <3>1. <<found[k].path>> \in Seq(P)
      BY <1>2, SingletonSeq
    <3>2. <<kind, "_">> \o Digits(found[k].index) \in Seq(Alphabet)
      BY <1>2, TitleTypes
    <3> QED
      BY <2>1, <3>1, <3>2 DEF Sheet, Sheets
  <2>3. s \in [1 .. Len(found) -> Sheets(P)]
    <3>1. s = [k \in 1 .. Len(found) |-> s[k]]
      BY <1>1, <2>1
    <3> QED
      BY <1>1, <2>2, <3>1
  <2>4. s \in Seq(Sheets(P)) /\ DOMAIN s = DOMAIN found
    BY <1>1, <2>3
  <2> QED
    BY <2>2, <2>4
<1> QED
  BY <1>4, <1>5, <1>6 DEF s

\* The five parts of the plan of a workbook.
RejectionSheets(w) == IF w.rejected THEN <<Sheet(<<"application">>, "rejection", << >>)>> ELSE << >>
ApplicationSheets(w) ==
  IF w.source = "nat" /\ w.batch /\ Readable(w.application)
  THEN <<Sheet(<<"application">>, "application", <<w.application>>)>> ELSE << >>
AggregatedSheets(w) == StageSheets("aggregation", Outputs(w, "aggregated"), w.merge)
SpinSheets(w) == StageSheets("spin", Outputs(w, "spin"), w.merge)
AssomiSheets(w) ==
  IF w.assomi = "completed" THEN StageSheets("assomi", <<[index |-> 1, path |-> w.output]>>, w.merge) ELSE << >>

\* The plan of a workbook is five parts in order, each of sheets of its kind.
LEMMA PlanParts ==
  ASSUME NEW w, Plausible(w)
  PROVE  LET S == Sheets(Paths(w))
         IN /\ SheetPlan(w) = RejectionSheets(w) \o ApplicationSheets(w) \o AggregatedSheets(w)
                              \o SpinSheets(w) \o AssomiSheets(w)
            /\ RejectionSheets(w) \in Seq(S) /\ \A k \in DOMAIN RejectionSheets(w) : RejectionSheets(w)[k].kind = "rejection"
            /\ ApplicationSheets(w) \in Seq(S) /\ \A k \in DOMAIN ApplicationSheets(w) : ApplicationSheets(w)[k].kind = "application"
            /\ AggregatedSheets(w) \in Seq(S) /\ \A k \in DOMAIN AggregatedSheets(w) : AggregatedSheets(w)[k].kind = "aggregation"
            /\ SpinSheets(w) \in Seq(S) /\ \A k \in DOMAIN SpinSheets(w) : SpinSheets(w)[k].kind = "spin"
            /\ AssomiSheets(w) \in Seq(S) /\ \A k \in DOMAIN AssomiSheets(w) : AssomiSheets(w)[k].kind = "assomi"
            /\ SheetPlan(w) \in Seq(S)
<1> DEFINE P == Paths(w)
           S == Sheets(P)
<1>1. SheetPlan(w) = RejectionSheets(w) \o ApplicationSheets(w) \o AggregatedSheets(w)
                    \o SpinSheets(w) \o AssomiSheets(w)
  BY DEF SheetPlan, RejectionSheets, ApplicationSheets, AggregatedSheets, SpinSheets, AssomiSheets
<1>2. RejectionSheets(w) \in Seq(S) /\ \A k \in DOMAIN RejectionSheets(w) : RejectionSheets(w)[k].kind = "rejection"
  <2> DEFINE one == Sheet(<<"application">>, "rejection", << >>)
  <2>1. one \in S /\ one.kind = "rejection"
    <3>1. "application" \in Kinds /\ "rejection" \in Kinds /\ << >> \in Seq(P)
      BY DEF Kinds
    <3>2. <<"application">> \in Seq(Alphabet)
      BY <3>1, TitleTypes
    <3> QED
      BY <3>1, <3>2 DEF Sheet, Sheets
  <2> HIDE DEF one, S
  <2>2. <<one>> \in Seq(S) /\ << >> \in Seq(S) /\ \A k \in DOMAIN <<one>> : <<one>>[k].kind = "rejection"
    BY <2>1, SingletonSeq
  <2> QED
    BY <2>2 DEF RejectionSheets, one
<1>3. ApplicationSheets(w) \in Seq(S) /\ \A k \in DOMAIN ApplicationSheets(w) : ApplicationSheets(w)[k].kind = "application"
  <2> DEFINE one == Sheet(<<"application">>, "application", <<w.application>>)
  <2>1. one \in S /\ one.kind = "application"
    <3>1. w.application \in P
      BY DEF Paths
    <3>2. <<w.application>> \in Seq(P)
      BY <3>1, SingletonSeq
    <3> QED
      BY <3>2, TitleTypes DEF Sheet, Sheets, Kinds
  <2> HIDE DEF one, S
  <2>2. <<one>> \in Seq(S) /\ << >> \in Seq(S) /\ \A k \in DOMAIN <<one>> : <<one>>[k].kind = "application"
    BY <2>1, SingletonSeq
  <2> QED
    BY <2>2 DEF ApplicationSheets, one
<1>4. AggregatedSheets(w) \in Seq(S) /\ \A k \in DOMAIN AggregatedSheets(w) : AggregatedSheets(w)[k].kind = "aggregation"
  <2> DEFINE files == Outputs(w, "aggregated")
             s == StageSheets("aggregation", files, w.merge)
  <2>1. files \in Seq([index : Nat, path : P]) /\ "aggregation" \in Kinds
    BY OutputsFacts DEF Kinds
  <2> HIDE DEF files, P
  <2>2. s \in Seq(Sheets(P)) /\ \A k \in DOMAIN s : s[k].kind = "aggregation"
    BY <2>1, StageSheetsFacts
  <2> QED
    BY <2>2 DEF AggregatedSheets, files
<1>5. SpinSheets(w) \in Seq(S) /\ \A k \in DOMAIN SpinSheets(w) : SpinSheets(w)[k].kind = "spin"
  <2> DEFINE files == Outputs(w, "spin")
             s == StageSheets("spin", files, w.merge)
  <2>1. files \in Seq([index : Nat, path : P]) /\ "spin" \in Kinds
    BY OutputsFacts DEF Kinds
  <2> HIDE DEF files, P
  <2>2. s \in Seq(Sheets(P)) /\ \A k \in DOMAIN s : s[k].kind = "spin"
    BY <2>1, StageSheetsFacts
  <2> QED
    BY <2>2 DEF SpinSheets, files
<1>6. AssomiSheets(w) \in Seq(S) /\ \A k \in DOMAIN AssomiSheets(w) : AssomiSheets(w)[k].kind = "assomi"
  <2> DEFINE file == [index |-> 1, path |-> w.output]
  <2>1. file \in [index : Nat, path : P]
    BY DEF Paths
  <2>2. <<file>> \in Seq([index : Nat, path : P])
    <3> HIDE DEF file
    <3> QED
      BY <2>1, SingletonSeq
  <2> DEFINE files == <<file>>
             s == StageSheets("assomi", files, w.merge)
  <2>3. files \in Seq([index : Nat, path : P]) /\ "assomi" \in Kinds
    BY <2>2 DEF Kinds
  <2> HIDE DEF files, P
  <2>4. s \in Seq(Sheets(P)) /\ \A k \in DOMAIN s : s[k].kind = "assomi"
    BY <2>3, StageSheetsFacts
  <2>5. CASE w.assomi = "completed"
    BY <2>4, <2>5 DEF AssomiSheets, files
  <2>6. CASE w.assomi # "completed"
    BY <2>6 DEF AssomiSheets
  <2> QED
    BY <2>5, <2>6
<1>7. SheetPlan(w) \in Seq(S)
  <2> HIDE DEF S
  <2>1. \A s, t \in Seq(S) : s \o t \in Seq(S)
    OBVIOUS
  <2> QED
    BY <1>1, <1>2, <1>3, <1>4, <1>5, <1>6, <2>1
<1> QED
  BY <1>1, <1>2, <1>3, <1>4, <1>5, <1>6, <1>7

\* A file has as many lines as its size says.
LEMMA LinesFacts ==
  ASSUME NEW P, NEW p \in P, p[2] \in Nat
  PROVE  Lines(p) \in Seq(LinesOf(P)) /\ Len(Lines(p)) = p[2]
<1> DEFINE L == LinesOf(P)
           n == p[2]
<1>1. \A i \in 1 .. n : i - 1 \in Nat
  OBVIOUS
<1>2. \A i \in 1 .. n : <<p[1], i - 1>> \in L
  BY <1>1 DEF LinesOf
<1>3. Lines(p) = [i \in 1 .. n |-> <<p[1], i - 1>>]
  BY DEF Lines
<1> HIDE DEF L
<1>4. Lines(p) \in [1 .. n -> L]
  BY <1>2, <1>3
<1> HIDE DEF n
<1>5. Lines(p) \in Seq(L) /\ Len(Lines(p)) = n
  BY <1>4 DEF n
<1> QED
  BY <1>5 DEF L, n

\* A merged sheet has lines of its files.
LEMMA MergedTyped ==
  ASSUME NEW P, \A p \in P : p[2] \in Nat, NEW paths \in Seq(P)
  PROVE  Merged(paths) \in Seq(LinesOf(P))
<1> DEFINE L == LinesOf(P)
           I == {k \in DOMAIN paths : paths[k][2] > 0}
           filled == At(paths, I)
           part(k) == IF k = 1 THEN Lines(filled[k]) ELSE Tail(Lines(filled[k]))
           parts == [k \in DOMAIN filled |-> part(k)]
<1>1. filled \in Seq(P) /\ \A k \in DOMAIN filled : filled[k][2] > 0
  <2> DEFINE q == InOrder(I, Increasing(I))
             n == Cardinality(I)
  <2>1. I \in SUBSET DOMAIN paths
    OBVIOUS
  <2>2. \A i \in I : paths[i][2] > 0
    OBVIOUS
  <2> HIDE DEF I
  <2>3. /\ n \in Nat /\ filled \in Seq(P) /\ Len(filled) = n /\ q \in [1 .. n -> I]
        /\ \A k \in 1 .. n : filled[k] = paths[q[k]]
    BY <2>1, AtFacts
  <2> HIDE DEF q, filled, n
  <2> QED
    BY <2>2, <2>3
<1> HIDE DEF L, filled
<1>2. ASSUME NEW k \in DOMAIN filled PROVE part(k) \in Seq(L)
  <2>1. filled[k] \in P /\ filled[k][2] \in Nat /\ filled[k][2] > 0
    BY <1>1
  <2>2. Lines(filled[k]) \in Seq(L) /\ Len(Lines(filled[k])) > 0
    BY <2>1, LinesFacts DEF L
  <2>3. Tail(Lines(filled[k])) \in Seq(L)
    BY <2>2
  <2> QED
    BY <2>2, <2>3
<1>3. parts \in Seq(Seq(L))
  <2> HIDE DEF part
  <2>1. Len(filled) \in Nat /\ DOMAIN filled = 1 .. Len(filled)
    BY <1>1
  <2>2. parts \in [1 .. Len(filled) -> Seq(L)]
    BY <1>2, <2>1
  <2> DEFINE n == Len(filled)
  <2> HIDE DEF parts, n
  <2> QED
    BY <2>1, <2>2 DEF n
<1>4. Merged(paths) = FlattenSeq(parts)
  BY DEF Merged, filled
<1> HIDE DEF parts
<1>5. Merged(paths) \in Seq(L)
  BY <1>3, <1>4, FlattenFacts
<1> QED
  BY <1>5 DEF L

\* A sheet has lines of the files of the intake.
LEMMA SheetRowsTyped ==
  ASSUME NEW P, \A p \in P : p[2] \in Nat, NEW sheet \in Sheets(P)
  PROVE  SheetRows(sheet) \in Seq(LinesOf(P))
<1> DEFINE L == LinesOf(P)
           a == <<"metadata", 0>>
           b == <<"metadata", 1>>
<1>1. sheet.paths \in Seq(P)
  BY DEF Sheets
<1>2. a \in L /\ b \in L
  BY DEF LinesOf
<1> HIDE DEF L, a, b
<1>3. <<a, b>> \in Seq(L)
  BY <1>2
<1>4. Merged(sheet.paths) \in Seq(L)
  BY <1>1, MergedTyped DEF L
<1>5. CASE Len(sheet.paths) = 1
  <2>1. sheet.paths[1] \in P
    BY <1>1, <1>5
  <2>2. Lines(sheet.paths[1]) \in Seq(L)
    BY <2>1, LinesFacts DEF L
  <2> QED
    BY <1>3, <1>5, <2>2 DEF SheetRows, a, b, L
<1>6. CASE Len(sheet.paths) # 1
  BY <1>3, <1>4, <1>6 DEF SheetRows, a, b, L
<1> QED
  BY <1>5, <1>6

\* The worksheets are the sheets of the plan.
LEMMA WorkbookFacts ==
  ASSUME NEW w, Plausible(w)
  PROVE  LET book == WorkbookOf(w)
             plan == SheetPlan(w)
         IN /\ Len(plan) \in Nat /\ DOMAIN plan = 1 .. Len(plan)
            /\ Len(book) = Len(plan) /\ DOMAIN book = DOMAIN plan
            /\ book \in Seq({book[k] : k \in DOMAIN plan})
            /\ \A k \in DOMAIN plan : /\ plan[k] \in Sheets(Paths(w))
                                      /\ book[k].kind = plan[k].kind /\ book[k].rows = SheetRows(plan[k])
                                      /\ book[k].rows \in Seq(LinesOf(Paths(w)))
<1> DEFINE book == WorkbookOf(w)
           plan == SheetPlan(w)
           V == {book[k] : k \in DOMAIN plan}
<1>1. Len(plan) \in Nat /\ DOMAIN plan = 1 .. Len(plan) /\ \A k \in DOMAIN plan : plan[k] \in Sheets(Paths(w))
  <2> DEFINE S == Sheets(Paths(w))
  <2>1. plan \in Seq(S)
    BY PlanParts
  <2> HIDE DEF plan, S
  <2>2. Len(plan) \in Nat /\ DOMAIN plan = 1 .. Len(plan) /\ \A k \in DOMAIN plan : plan[k] \in S
    BY <2>1
  <2> QED
    BY <2>2 DEF S
<1>2. \E title : book = [k \in DOMAIN plan |-> [title |-> title[k], kind |-> plan[k].kind, rows |-> SheetRows(plan[k])]]
  <2> HIDE DEF plan
  <2> QED
    BY DEF WorkbookOf, plan
<1>3. \A k \in DOMAIN plan : book[k].kind = plan[k].kind /\ book[k].rows = SheetRows(plan[k])
  BY <1>2
<1>4. book = [k \in DOMAIN plan |-> book[k]]
  BY <1>2
<1> HIDE DEF book, plan
<1>5. book \in [1 .. Len(plan) -> V]
  BY <1>1, <1>4
<1>6. Len(book) = Len(plan) /\ DOMAIN book = DOMAIN plan /\ book \in Seq(V)
  <2> DEFINE n == Len(plan)
  <2>1. n \in Nat /\ book \in [1 .. n -> V] /\ DOMAIN plan = 1 .. n
    BY <1>1, <1>5
  <2> HIDE DEF n, V
  <2>2. Len(book) = n /\ DOMAIN book = 1 .. n /\ book \in Seq(V)
    BY <2>1
  <2> QED
    BY <2>1, <2>2 DEF n
<1>7. \A k \in DOMAIN plan : book[k].rows \in Seq(LinesOf(Paths(w)))
  BY <1>1, <1>3, SheetRowsTyped DEF Plausible
<1> QED
  BY <1>1, <1>3, <1>6, <1>7 DEF book, plan

\* The results of an intake are its workbook, unless a file of the plan cannot be decoded.
LEMMA ResultsFacts ==
  ASSUME NEW w, Plausible(w)
  PROVE  /\ IntakeResults(w).status \in {"empty", "exception", "ok"}
         /\ IntakeResults(w).status = "exception" <=> ~Loads(w)
         /\ IntakeResults(w).status = "empty" <=> Loads(w) /\ WorkbookOf(w) = << >>
         /\ IntakeResults(w).status # "exception" => IntakeResults(w).sheets = WorkbookOf(w)
<1> DEFINE plan == SheetPlan(w)
           book == WorkbookOf(w)
<1>1. plan = << >> <=> book = << >>
  <2>1. /\ Len(plan) \in Nat /\ DOMAIN plan = 1 .. Len(plan) /\ Len(book) = Len(plan)
        /\ book \in Seq({book[k] : k \in DOMAIN plan}) /\ plan \in Seq(Sheets(Paths(w)))
    BY WorkbookFacts, PlanParts
  <2> HIDE DEF plan, book
  <2>2. plan = << >> <=> Len(plan) = 0
    BY <2>1
  <2>3. book = << >> <=> Len(book) = 0
    BY <2>1
  <2> QED
    BY <2>1, <2>2, <2>3
<1>2. plan = << >> => Loads(w)
  BY DEF Loads, ToSet
<1> HIDE DEF plan, book
<1>3. IntakeResults(w) = IF plan = << >> THEN [status |-> "empty", sheets |-> << >>]
                         ELSE IF ~Loads(w) THEN [status |-> "exception", sheets |-> << >>]
                         ELSE [status |-> "ok", sheets |-> book]
  BY DEF IntakeResults, plan, book
<1>4. CASE plan = << >>
  BY <1>1, <1>2, <1>3, <1>4 DEF book
<1>5. CASE plan # << >> /\ ~Loads(w)
  BY <1>1, <1>3, <1>5 DEF book
<1>6. CASE plan # << >> /\ Loads(w)
  BY <1>1, <1>3, <1>6 DEF book
<1> QED
  BY <1>4, <1>5, <1>6

\* The size of a workbook is a number, and positive exactly when it has a sheet.
LEMMA SizeFacts ==
  ASSUME NEW w, Plausible(w)
  PROVE  /\ Size(WorkbookOf(w)) \in Nat
         /\ WorkbookOf(w) # << >> => Size(WorkbookOf(w)) > 0
         /\ WorkbookOf(w) = << >> => Size(WorkbookOf(w)) = 0
<1> DEFINE book == WorkbookOf(w)
           rows == [k \in DOMAIN book |-> book[k].rows]
           L == LinesOf(Paths(w))
           n == Len(book)
<1>1. /\ n \in Nat /\ DOMAIN book = 1 .. n /\ (book # << >> => n > 0)
      /\ \A k \in DOMAIN book : book[k].rows \in Seq(L)
  <2>1. /\ Len(SheetPlan(w)) \in Nat /\ DOMAIN SheetPlan(w) = 1 .. Len(SheetPlan(w))
        /\ n = Len(SheetPlan(w)) /\ DOMAIN book = DOMAIN SheetPlan(w)
        /\ book \in Seq({book[k] : k \in DOMAIN SheetPlan(w)})
        /\ \A k \in DOMAIN SheetPlan(w) : book[k].rows \in Seq(L)
    BY WorkbookFacts
  <2> HIDE DEF book, L
  <2>2. book # << >> => n # 0
    BY <2>1
  <2> HIDE DEF n
  <2> QED
    BY <2>1, <2>2
<1>2. Size(book) = n + Len(FlattenSeq(rows))
  BY DEF Size
<1> HIDE DEF book, L
<1>3. rows \in [1 .. n -> Seq(L)]
  BY <1>1
<1>4. rows \in Seq(Seq(L))
  <2> HIDE DEF n, rows
  <2> QED
    BY <1>1, <1>3
<1>5. Len(FlattenSeq(rows)) \in Nat
  <2> HIDE DEF rows
  <2>1. FlattenSeq(rows) \in Seq(L)
    BY <1>4, FlattenFacts
  <2> QED
    BY <2>1
<1>6. book = << >> => rows = << >> /\ n = 0
  OBVIOUS
<1>7. FlattenSeq(<< >>) = << >>
  BY DEF FlattenSeq
<1> HIDE DEF rows, n
<1> QED
  BY <1>1, <1>2, <1>5, <1>6, <1>7 DEF book

\* The text of a result mail is true of what it carries: _prepare_email and
\* build_result_email_body, for every intake and every limit.
THEOREM MailIsTrue == RequestSpec => []MailTellsAttachment
<1>1. ASSUME Asked, Right PROVE MailTellsAttachment
  <2> DEFINE w == subject[2]
             mail == reply.mail
             whole == CASE w.assomi # "completed" -> 0
                        [] w.assomi = "completed" /\ w.attach = "combined_xlsx" -> Size(reply.workbook)
                        [] w.assomi = "completed" /\ w.attach = "assomi_csv" ->
                             IF Readable(w.output) THEN w.output[2] ELSE 0
             unread == w.assomi = "completed" /\ w.attach = "combined_xlsx" /\ reply.results = "exception"
             truth == /\ "attached" \in Says(mail) <=> mail.attachment # NoAttachment
                      /\ mail.attachment # NoAttachment => whole \in 1 .. MaxBytes
                      /\ "not attached" \in Says(mail) <=> whole > MaxBytes
                      /\ mail.kind = "exception" <=> unread
                      /\ "failure" \in Says(mail) <=> whole = 0 /\ mail.kind # "exception"
  <2>1. SUFFICES ASSUME Answered("report") PROVE truth
    BY DEF MailTellsAttachment
  <2>2. w \in Reports
    BY <1>1, <2>1 DEF Asked, Answered
  <2>3. Plausible(w) /\ MaxBytes \in Nat
    BY <2>2, ReportsPlausible, WorkbookAssumption
  <2>4. mail = Mail(w) /\ reply.results = IntakeResults(w).status /\ reply.workbook = IntakeResults(w).sheets
    BY <1>1, <2>1 DEF Right, ReportReply
  <2> HIDE DEF w, mail
  <2>5. ASSUME NEW size \in Nat, size > 0, NEW attachment, attachment # NoAttachment,
               mail = Fitting(size, attachment), whole = size, ~unread
        PROVE  truth
    <3> HIDE DEF whole, unread
    <3>1. CASE size > MaxBytes
      <4>1. mail.kind = "success_oversized" /\ mail.attachment = NoAttachment
        BY <2>5, <3>1 DEF Fitting, Prepared
      <4>2. Says(mail) = {"success", "not attached"}
        BY <4>1 DEF Says
      <4>3. whole > MaxBytes /\ whole # 0
        BY <2>5, <3>1
      <4>4. "attached" \notin Says(mail) /\ "failure" \notin Says(mail) /\ "not attached" \in Says(mail)
        BY <4>2
      <4> QED
        BY <2>5, <4>1, <4>3, <4>4
    <3>2. CASE ~(size > MaxBytes)
      <4>1. mail.kind = "success" /\ mail.attachment # NoAttachment
        BY <2>5, <3>2 DEF Fitting, Prepared
      <4>2. Says(mail) = {"success", "attached"}
        BY <4>1 DEF Says
      <4>3. whole \in 1 .. MaxBytes
        BY <2>3, <2>5, <3>2
      <4> QED
        BY <2>5, <3>2, <4>1, <4>2, <4>3
    <3> QED
      BY <3>1, <3>2
  <2>6. ASSUME mail = Prepared("failure", NoAttachment), whole = 0, ~unread PROVE truth
    <3> HIDE DEF whole, unread
    <3>1. mail.kind = "failure" /\ mail.attachment = NoAttachment
      BY <2>6 DEF Prepared
    <3>2. Says(mail) = {"failure"}
      BY <3>1 DEF Says
    <3>3. whole = 0 /\ ~(whole > MaxBytes)
      BY <2>3, <2>6
    <3>4. "attached" \notin Says(mail) /\ "failure" \in Says(mail) /\ "not attached" \notin Says(mail)
      BY <3>2
    <3> QED
      BY <2>6, <3>1, <3>3, <3>4
  <2>7. CASE w.assomi # "completed"
    BY <2>4, <2>6, <2>7 DEF Mail
  <2>8. CASE w.assomi = "completed" /\ w.attach = "assomi_csv"
    <3>1. CASE Readable(w.output)
      <4>1. mail = Fitting(w.output[2], <<w.output>>)
        BY <2>4, <2>8, <3>1 DEF Mail, CsvMail
      <4>2. w.output[2] \in Nat /\ w.output[2] > 0
        BY <2>3, <2>8, <3>1 DEF Plausible, Paths
      <4>3. <<w.output>> # NoAttachment
        BY DEF NoAttachment
      <4>4. whole = w.output[2] /\ ~unread
        BY <2>8, <3>1
      <4> HIDE DEF whole, truth, unread
      <4> QED
        BY <2>5, <4>1, <4>2, <4>3, <4>4
    <3>2. CASE ~Readable(w.output)
      <4>1. mail = Prepared("failure", NoAttachment)
        BY <2>4, <2>8, <3>2 DEF Mail, CsvMail
      <4>2. whole = 0 /\ ~unread
        BY <2>8, <3>2
      <4> QED
        BY <2>6, <4>1, <4>2
    <3> QED
      BY <3>1, <3>2
  <2>9. CASE w.assomi = "completed" /\ w.attach = "combined_xlsx"
    <3> DEFINE status == reply.results
               book == WorkbookOf(w)
    <3>1. /\ status \in {"empty", "exception", "ok"}
          /\ status = "empty" => book = << >> /\ reply.workbook = book
          /\ status = "ok" => book # << >> /\ reply.workbook = book
      BY <2>3, <2>4, ResultsFacts
    <3>2. whole = Size(reply.workbook)
      BY <2>9
    <3>3. mail = CASE status = "empty"     -> Prepared("failure", NoAttachment)
                   [] status = "exception" -> Prepared("exception", NoAttachment)
                   [] status = "ok"        -> Fitting(Size(reply.workbook), reply.workbook)
      BY <2>4, <2>9 DEF Mail, XlsxMail
    <3>4. unread <=> status = "exception"
      BY <2>9
    <3> HIDE DEF status, whole, book, unread
    <3>5. CASE status = "empty"
      <4>1. whole = 0
        BY <2>3, <3>1, <3>2, <3>5, SizeFacts DEF book
      <4>2. mail = Prepared("failure", NoAttachment)
        BY <3>3, <3>5
      <4> HIDE DEF truth
      <4> QED
        BY <2>6, <3>4, <3>5, <4>1, <4>2
    <3>6. CASE status = "exception"
      <4>1. mail.kind = "exception" /\ mail.attachment = NoAttachment
        BY <3>3, <3>6 DEF Prepared
      <4>2. Says(mail) = {}
        BY <4>1 DEF Says
      <4>3. ~(whole > MaxBytes)
        <5>1. reply.workbook = << >>
          BY <2>4, <3>6 DEF IntakeResults, status
        <5>2. whole = 0
          BY <3>2, <5>1 DEF Size, FlattenSeq
        <5> QED
          BY <2>3, <5>2
      <4> QED
        BY <3>4, <3>6, <4>1, <4>2, <4>3
    <3>7. CASE status = "ok"
      <4>1. mail = Fitting(Size(book), book) /\ whole = Size(book)
        BY <3>1, <3>2, <3>3, <3>7
      <4>2. Size(book) \in Nat /\ Size(book) > 0
        BY <2>3, <3>1, <3>7, SizeFacts DEF book
      <4>3. book # NoAttachment
        BY <3>1, <3>7 DEF NoAttachment
      <4> HIDE DEF truth
      <4> QED
        BY <2>5, <3>4, <3>7, <4>1, <4>2, <4>3
    <3> QED
      BY <3>1, <3>5, <3>6, <3>7
  <2> QED
    BY <2>3, <2>7, <2>8, <2>9 DEF Plausible
<1> QED
  BY <1>1, AnsweredRight, PTL

-----------------------------------------------------------------------------
(* Where the sheets of one kind are in a workbook, and the same files on   *)
(* their own.                                                              *)

NoneOf(s, kind) == \A k \in DOMAIN s : s[k].kind # kind
AllOf(s, kind)  == \A k \in DOMAIN s : s[k].kind = kind
\* part is the sheets of plan that are of that kind, side by side
Segment(plan, kind, part) ==
  \E a \in Nat : /\ {i \in DOMAIN plan : plan[i].kind = kind} = a + 1 .. a + Len(part)
                 /\ \A k \in 1 .. Len(part) : plan[a + k] = part[k]

\* Every place of the second part of an interval.
LEMMA SecondPart ==
  ASSUME NEW m \in Nat, NEW n \in Nat
  PROVE  \A i \in 1 .. m + n : i \in 1 .. m \/ \E k \in 1 .. n : i = m + k
<1>1. ASSUME NEW i \in 1 .. m + n, i \notin 1 .. m PROVE i - m \in 1 .. n /\ i = m + (i - m)
  BY <1>1
<1> QED
  BY <1>1

\* Two sequences without a kind of sheet have none joined.
LEMMA NoneJoins ==
  ASSUME NEW S, NEW s \in Seq(S), NEW t \in Seq(S), NEW kind, NoneOf(s, kind), NoneOf(t, kind)
  PROVE  NoneOf(s \o t, kind)
<1> DEFINE u == s \o t
           m == Len(s)
           n == Len(t)
<1>1. /\ m \in Nat /\ n \in Nat /\ DOMAIN u = 1 .. m + n
      /\ \A k \in 1 .. m : u[k] = s[k] /\ s[k].kind # kind
      /\ \A k \in 1 .. n : u[m + k] = t[k] /\ t[k].kind # kind
  BY ConcatFacts DEF NoneOf
<1> HIDE DEF u, m, n
<1>2. \A i \in 1 .. m + n : i \in 1 .. m \/ \E k \in 1 .. n : i = m + k
  BY <1>1, SecondPart
<1>3. ASSUME NEW i \in 1 .. m + n PROVE u[i].kind # kind
  <2>1. CASE i \in 1 .. m
    BY <1>1, <2>1
  <2>2. ASSUME NEW k \in 1 .. n, i = m + k PROVE u[i].kind # kind
    <3>1. u[m + k] = t[k] /\ t[k].kind # kind
      BY <1>1
    <3> QED
      BY <2>2, <3>1
  <2> QED
    BY <1>2, <2>1, <2>2
<1>4. NoneOf(u, kind)
  BY <1>1, <1>3 DEF NoneOf
<1> QED
  BY <1>4 DEF u

\* What is appended after other kinds is the segment of its kind.
LEMMA SegmentEnds ==
  ASSUME NEW S, NEW s \in Seq(S), NEW t \in Seq(S), NEW kind, NoneOf(s, kind), AllOf(t, kind)
  PROVE  Segment(s \o t, kind, t)
<1> DEFINE u == s \o t
           m == Len(s)
           n == Len(t)
<1>1. /\ m \in Nat /\ n \in Nat /\ DOMAIN u = 1 .. m + n
      /\ \A k \in 1 .. m : u[k] = s[k] /\ s[k].kind # kind
      /\ \A k \in 1 .. n : u[m + k] = t[k] /\ t[k].kind = kind
  BY ConcatFacts DEF NoneOf, AllOf
<1> HIDE DEF u, m
<1>2. {i \in DOMAIN u : u[i].kind = kind} = m + 1 .. m + n
  <2> HIDE DEF n
  <2>1. \A i \in 1 .. m + n : i \in 1 .. m \/ \E k \in 1 .. n : i = m + k
    BY <1>1, SecondPart
  <2>2. ASSUME NEW i \in m + 1 .. m + n PROVE i \in 1 .. m + n /\ i \notin 1 .. m
    BY <1>1
  <2>3. ASSUME NEW i \in 1 .. m PROVE i \notin m + 1 .. m + n
    BY <1>1
  <2>4. ASSUME NEW k \in 1 .. n PROVE m + k \in m + 1 .. m + n
    BY <1>1
  <2>5. ASSUME NEW i \in 1 .. m + n PROVE u[i].kind = kind <=> i \in m + 1 .. m + n
    <3>1. CASE i \in 1 .. m
      BY <1>1, <2>3, <3>1
    <3>2. ASSUME NEW k \in 1 .. n, i = m + k PROVE u[i].kind = kind /\ i \in m + 1 .. m + n
      <4>1. u[m + k] = t[k] /\ t[k].kind = kind
        BY <1>1
      <4> QED
        BY <2>4, <3>2, <4>1
    <3> QED
      BY <2>1, <3>1, <3>2
  <2> QED
    BY <1>1, <2>2, <2>5
<1>3. Segment(u, kind, t)
  BY <1>1, <1>2 DEF Segment
<1> QED
  BY <1>3 DEF u

\* A segment stays when sheets of other kinds follow.
LEMMA SegmentStays ==
  ASSUME NEW S, NEW s \in Seq(S), NEW t \in Seq(S), NEW kind, NEW part, Segment(s, kind, part), NoneOf(t, kind)
  PROVE  Segment(s \o t, kind, part)
<1> DEFINE u == s \o t
           m == Len(s)
           n == Len(t)
<1>1. /\ m \in Nat /\ n \in Nat /\ DOMAIN u = 1 .. m + n /\ DOMAIN s = 1 .. m
      /\ \A k \in 1 .. m : u[k] = s[k]
      /\ \A k \in 1 .. n : u[m + k] = t[k] /\ t[k].kind # kind
  BY ConcatFacts DEF NoneOf
<1>2. PICK a \in Nat : /\ {i \in DOMAIN s : s[i].kind = kind} = a + 1 .. a + Len(part)
                       /\ \A k \in 1 .. Len(part) : s[a + k] = part[k]
  BY DEF Segment
<1> DEFINE I == a + 1 .. a + Len(part)
<1> HIDE DEF u, m, n
<1>3. \A i \in 1 .. m + n : i \in 1 .. m \/ \E k \in 1 .. n : i = m + k
  BY <1>1, SecondPart
<1>4. \A i \in 1 .. m : i \in 1 .. m + n
  BY <1>1
<1>5. \A k \in 1 .. n : m + k \notin 1 .. m
  BY <1>1
<1>6. \A k \in 1 .. Len(part) : a + k \in I
  BY <1>2
<1>7. I \subseteq 1 .. m
  <2> HIDE DEF I
  <2> QED
    BY <1>1, <1>2 DEF I
<1>8. {i \in DOMAIN u : u[i].kind = kind} = I
  <2> HIDE DEF I
  <2>1. I = {i \in 1 .. m : s[i].kind = kind}
    BY <1>1, <1>2 DEF I
  <2>2. ASSUME NEW i \in 1 .. m + n PROVE u[i].kind = kind <=> i \in I
    <3>1. CASE i \in 1 .. m
      BY <1>1, <2>1, <3>1
    <3>2. ASSUME NEW k \in 1 .. n, i = m + k PROVE u[i].kind # kind /\ i \notin I
      BY <1>1, <1>5, <1>7, <3>2
    <3> QED
      BY <1>3, <3>1, <3>2
  <2> QED
    BY <1>1, <1>4, <1>7, <2>2
<1>9. \A k \in 1 .. Len(part) : u[a + k] = part[k]
  <2> HIDE DEF I
  <2> QED
    BY <1>1, <1>2, <1>6, <1>7
<1>10. Segment(u, kind, part)
  BY <1>2, <1>8, <1>9 DEF Segment
<1> QED
  BY <1>10 DEF u

\* Every stage is one segment of the plan.
LEMMA PlanSegments ==
  ASSUME NEW w, Plausible(w)
  PROVE  /\ Segment(SheetPlan(w), "application", ApplicationSheets(w))
         /\ Segment(SheetPlan(w), "aggregation", AggregatedSheets(w))
         /\ Segment(SheetPlan(w), "spin", SpinSheets(w))
         /\ Segment(SheetPlan(w), "assomi", AssomiSheets(w))
<1> DEFINE S == Sheets(Paths(w))
           r == RejectionSheets(w)
           a == ApplicationSheets(w)
           g == AggregatedSheets(w)
           p == SpinSheets(w)
           x == AssomiSheets(w)
<1>1. /\ r \in Seq(S) /\ a \in Seq(S) /\ g \in Seq(S) /\ p \in Seq(S) /\ x \in Seq(S)
      /\ AllOf(r, "rejection") /\ AllOf(a, "application") /\ AllOf(g, "aggregation")
      /\ AllOf(p, "spin") /\ AllOf(x, "assomi")
      /\ SheetPlan(w) = (((r \o a) \o g) \o p) \o x
  BY PlanParts DEF AllOf
<1> HIDE DEF S, r, a, g, p, x
<1>2. /\ NoneOf(r, "application") /\ NoneOf(r, "aggregation") /\ NoneOf(r, "spin") /\ NoneOf(r, "assomi")
      /\ NoneOf(a, "aggregation") /\ NoneOf(a, "spin") /\ NoneOf(a, "assomi")
      /\ NoneOf(g, "application") /\ NoneOf(g, "spin") /\ NoneOf(g, "assomi")
      /\ NoneOf(p, "application") /\ NoneOf(p, "aggregation") /\ NoneOf(p, "assomi")
      /\ NoneOf(x, "application") /\ NoneOf(x, "aggregation") /\ NoneOf(x, "spin")
  BY <1>1 DEF AllOf, NoneOf
<1>3. r \o a \in Seq(S) /\ (r \o a) \o g \in Seq(S) /\ ((r \o a) \o g) \o p \in Seq(S)
  BY <1>1
<1>4. /\ NoneOf(r \o a, "aggregation") /\ NoneOf(r \o a, "spin") /\ NoneOf(r \o a, "assomi")
      /\ NoneOf((r \o a) \o g, "spin") /\ NoneOf((r \o a) \o g, "assomi")
      /\ NoneOf(((r \o a) \o g) \o p, "assomi")
  <2>1. NoneOf(r \o a, "aggregation") /\ NoneOf(r \o a, "spin") /\ NoneOf(r \o a, "assomi")
    BY <1>1, <1>2, NoneJoins
  <2>2. NoneOf((r \o a) \o g, "spin") /\ NoneOf((r \o a) \o g, "assomi")
    BY <1>1, <1>2, <1>3, <2>1, NoneJoins
  <2> QED
    BY <1>1, <1>2, <1>3, <2>1, <2>2, NoneJoins
<1>5. Segment((((r \o a) \o g) \o p) \o x, "application", a)
  <2>1. Segment(r \o a, "application", a)
    BY <1>1, <1>2, SegmentEnds
  <2>2. Segment((r \o a) \o g, "application", a)
    BY <1>1, <1>2, <1>3, <2>1, SegmentStays
  <2>3. Segment(((r \o a) \o g) \o p, "application", a)
    BY <1>1, <1>2, <1>3, <2>2, SegmentStays
  <2> QED
    BY <1>1, <1>2, <1>3, <2>3, SegmentStays
<1>6. Segment((((r \o a) \o g) \o p) \o x, "aggregation", g)
  <2>1. Segment((r \o a) \o g, "aggregation", g)
    BY <1>1, <1>3, <1>4, SegmentEnds
  <2>2. Segment(((r \o a) \o g) \o p, "aggregation", g)
    BY <1>1, <1>2, <1>3, <2>1, SegmentStays
  <2> QED
    BY <1>1, <1>2, <1>3, <2>2, SegmentStays
<1>7. Segment((((r \o a) \o g) \o p) \o x, "spin", p)
  <2>1. Segment(((r \o a) \o g) \o p, "spin", p)
    BY <1>1, <1>3, <1>4, SegmentEnds
  <2> QED
    BY <1>1, <1>2, <1>3, <2>1, SegmentStays
<1>8. Segment((((r \o a) \o g) \o p) \o x, "assomi", x)
  BY <1>1, <1>3, <1>4, SegmentEnds
<1> QED
  BY <1>1, <1>5, <1>6, <1>7, <1>8 DEF a, g, p, x

\* The worksheets of one kind have the rows of the sheets of that kind, in order.
LEMMA KindOfBook ==
  ASSUME NEW w, Plausible(w), NEW kind, NEW part, Segment(SheetPlan(w), kind, part), Len(part) \in Nat
  PROVE  LET book == WorkbookOf(w)
             found == At(book, {i \in DOMAIN book : book[i].kind = kind})
         IN /\ DOMAIN found = 1 .. Len(part)
            /\ \A k \in 1 .. Len(part) : found[k].rows = SheetRows(part[k])
<1> DEFINE book == WorkbookOf(w)
           plan == SheetPlan(w)
           n == Len(part)
           I == {i \in DOMAIN book : book[i].kind = kind}
<1>1. /\ DOMAIN book = DOMAIN plan
      /\ \A i \in DOMAIN plan : book[i].kind = plan[i].kind /\ book[i].rows = SheetRows(plan[i])
  BY WorkbookFacts
<1>2. PICK a \in Nat : /\ {i \in DOMAIN plan : plan[i].kind = kind} = a + 1 .. a + n
                       /\ \A k \in 1 .. n : plan[a + k] = part[k]
  BY DEF Segment
<1> HIDE DEF book, plan, n
<1>3. I = a + 1 .. a + n
  BY <1>1, <1>2
<1>4. At(book, I) = [k \in 1 .. n |-> book[a + k]]
  <2>1. n \in Nat
    BY DEF n
  <2>2. At(book, a + 1 .. a + n) = [k \in 1 .. n |-> book[a + k]]
    BY <2>1, IntervalPlaces
  <2> HIDE DEF I
  <2> QED
    BY <1>3, <2>2
<1>5. ASSUME NEW k \in 1 .. n PROVE book[a + k].rows = SheetRows(part[k])
  <2>1. a + k \in a + 1 .. a + n
    BY <1>2 DEF n
  <2>2. a + k \in DOMAIN plan
    BY <1>2, <2>1
  <2> QED
    BY <1>1, <1>2, <2>2
<1> HIDE DEF I
<1>6. DOMAIN At(book, I) = 1 .. n /\ \A k \in 1 .. n : At(book, I)[k].rows = SheetRows(part[k])
  BY <1>4, <1>5
<1> QED
  BY <1>6 DEF I, book, n

\* The sheets of a stage of one file that can be read have its lines.
LEMMA OneFileStage ==
  ASSUME NEW P, NEW p \in P, NEW kind \in Kinds, kind # "rejection", NEW merge
  PROVE  LET s == StageSheets(kind, <<[index |-> 1, path |-> p]>>, merge)
         IN /\ ~Readable(p) => s = << >>
            /\ Readable(p) => Len(s) = 1 /\ SheetRows(s[1]) = Lines(p)
<1> DEFINE V == [index : Nat, path : P]
           file == [index |-> 1, path |-> p]
           files == <<file>>
           found == ReadablePaths(files)
           I == {k \in DOMAIN files : Readable(files[k].path)}
           s == StageSheets(kind, files, merge)
<1>1. file \in V /\ file.path = p /\ file.index = 1
  OBVIOUS
<1> HIDE DEF file, V
<1>2. /\ files \in Seq(V) /\ DOMAIN files = {1} /\ files[1] = file /\ ToSet(files) = {file}
      /\ \A k \in DOMAIN files : files[k].index \in Nat
  BY <1>1, SingletonSeq DEF ToSet
<1>3. I = IF Readable(p) THEN {1} ELSE {}
  BY <1>1, <1>2
<1> HIDE DEF files, found
<1>4. /\ found \in Seq(V) /\ Len(found) = Cardinality(I) /\ DOMAIN found = 1 .. Len(found)
      /\ \A k \in DOMAIN found : found[k] = file
  <2>1. found \in Seq(V) /\ AllReadable(found, files)
    BY <1>2, ReadablePathsFacts DEF found
  <2>2. \A k \in DOMAIN found : found[k] \in ToSet(files)
    BY <2>1 DEF AllReadable
  <2> QED
    BY <1>2, <2>1, <2>2 DEF AllReadable
<1> HIDE DEF I
<1>5. s = IF found = << >> THEN << >>
          ELSE IF merge THEN <<Sheet(<<kind>>, kind, [k \in DOMAIN found |-> found[k].path])>>
          ELSE [k \in DOMAIN found |-> Sheet(<<kind, "_">> \o Digits(found[k].index), kind, <<found[k].path>>)]
  BY DEF StageSheets, found
<1>6. CASE ~Readable(p)
  <2>1. Len(found) = 0
    BY <1>3, <1>4, <1>6, FS_EmptySet
  <2>2. found = << >>
    BY <1>4, <2>1
  <2> QED
    BY <1>5, <1>6, <2>2 DEF files, file
<1>7. CASE Readable(p)
  <2>1. Len(found) = 1 /\ DOMAIN found = 1 .. 1 /\ found # << >> /\ found[1].path = p
    <3>1. Cardinality({1}) = 1
      BY FS_Singleton
    <3>2. Len(found) = 1
      BY <1>3, <1>4, <1>7, <3>1
    <3>3. DOMAIN found = 1 .. 1
      BY <1>4, <3>2
    <3>4. found[1] = file
      BY <1>4, <3>3
    <3>5. Len(<< >>) = 0
      OBVIOUS
    <3> QED
      BY <1>1, <3>2, <3>3, <3>4, <3>5
  <2>2. ASSUME NEW title, NEW paths, paths = <<p>> PROVE SheetRows(Sheet(title, kind, paths)) = Lines(p)
    BY <2>2 DEF SheetRows, Sheet
  <2>3. CASE merge
    <3> DEFINE paths == [k \in DOMAIN found |-> found[k].path]
               one == Sheet(<<kind>>, kind, paths)
    <3>1. paths = <<p>>
      BY <2>1
    <3>2. SheetRows(one) = Lines(p)
      <4> HIDE DEF paths
      <4> QED
        BY <2>2, <3>1
    <3>3. s = <<one>>
      BY <1>5, <2>1, <2>3
    <3> HIDE DEF one, s
    <3>4. Len(s) = 1 /\ SheetRows(s[1]) = Lines(p)
      BY <3>2, <3>3
    <3> QED
      BY <1>7, <3>4 DEF s, files, file
  <2>4. CASE ~merge
    <3> DEFINE title == <<kind, "_">> \o Digits(found[1].index)
               one == Sheet(title, kind, <<found[1].path>>)
    <3>1. SheetRows(one) = Lines(p)
      <4> HIDE DEF title
      <4> QED
        BY <2>1, <2>2
    <3>2. s = [k \in 1 .. 1 |-> Sheet(<<kind, "_">> \o Digits(found[k].index), kind, <<found[k].path>>)]
      BY <1>5, <2>1, <2>4
    <3> HIDE DEF s
    <3>3. s[1] = one /\ s = [k \in 1 .. 1 |-> s[k]]
      <4>1. \A k \in 1 .. 1 : s[k] = Sheet(<<kind, "_">> \o Digits(found[k].index), kind, <<found[k].path>>)
        BY <3>2
      <4>2. s[1] = one
        <5>1. 1 \in 1 .. 1
          OBVIOUS
        <5> QED
          BY <4>1, <5>1, Zenon
      <4>3. s = [k \in 1 .. 1 |-> s[k]]
        BY <3>2
      <4> QED
        BY <4>2, <4>3
    <3> HIDE DEF one
    <3>4. Len(s) = 1 /\ SheetRows(s[1]) = Lines(p)
      BY <3>1, <3>3
    <3> QED
      BY <1>7, <3>4 DEF s, files, file
  <2> QED
    BY <2>3, <2>4
<1> QED
  BY <1>6, <1>7

\* What one stage offers on its own.
LEMMA DownloadFacts ==
  ASSUME NEW w, Plausible(w), NEW key \in {"aggregated", "spin"}, Download(w, key).status = "ok"
  PROVE  LET got == Download(w, key).files
             files == Outputs(w, key)
         IN /\ ToSet(got) = {f \in ToSet(files) : Readable(f.path)} /\ got # << >>
            /\ Gone \notin {f.path : f \in ToSet(files)}
<1> DEFINE V == [index : Nat, path : Paths(w)]
           files == Outputs(w, key)
           I == {k \in DOMAIN w.outputs : w.outputs[k][key] # NoPath}
           got == ByIndex(At(files, I))
<1>1. /\ files \in Seq(V) /\ DOMAIN files = DOMAIN w.outputs
      /\ \A k \in DOMAIN files : files[k].index \in Nat
      /\ \A k \in DOMAIN files : files[k].path = w.outputs[k][key]
  BY OutputsFacts
<1>2. \/ Download(w, key) = Refused("not_found") \/ Download(w, key) = Refused("not_ready")
      \/ Download(w, key) = Refused("file_not_found")
      \/ /\ got # << >> /\ \A k \in DOMAIN got : Readable(got[k].path)
         /\ Download(w, key) = [status |-> "ok", files |-> got]
  <2> HIDE DEF got
  <2> QED
    BY DEF Download, got
<1>3. /\ got # << >> /\ \A k \in DOMAIN got : Readable(got[k].path)
      /\ Download(w, key).files = got
  <2> HIDE DEF got
  <2>1. /\ Refused("not_found").status # "ok" /\ Refused("not_ready").status # "ok"
        /\ Refused("file_not_found").status # "ok"
    BY DEF Refused
  <2> QED
    BY <1>2, <2>1
<1>4. I \in SUBSET DOMAIN files /\ \A k \in DOMAIN files : k \in I <=> files[k].path # NoPath
  BY <1>1
<1> HIDE DEF I, files, V
<1>5. /\ \A k \in DOMAIN got : \E i \in I : got[k] = files[i]
      /\ \A i \in I : \E k \in DOMAIN got : got[k] = files[i]
  <2>1. Chosen(ByIndex(At(files, I)), files, I)
    BY <1>1, <1>4, SortedFacts
  <2>2. got = ByIndex(At(files, I))
    OBVIOUS
  <2> HIDE DEF got
  <2> QED
    BY <2>1, <2>2 DEF Chosen
<1> HIDE DEF got
<1>6. ASSUME NEW i \in I PROVE Readable(files[i].path) /\ files[i] \in ToSet(got)
  BY <1>3, <1>5 DEF ToSet
<1>7. ToSet(got) = {f \in ToSet(files) : Readable(f.path)}
  <2>1. ASSUME NEW f \in ToSet(got) PROVE f \in ToSet(files) /\ Readable(f.path)
    BY <1>3, <1>4, <1>5, <2>1 DEF ToSet
  <2>2. ASSUME NEW f \in ToSet(files), Readable(f.path) PROVE f \in ToSet(got)
    <3>1. PICK k \in DOMAIN files : f = files[k]
      BY <2>2 DEF ToSet
    <3>2. files[k].path # NoPath
      BY <2>2, <3>1 DEF Readable
    <3> QED
      BY <1>4, <1>6, <3>1, <3>2
  <2> QED
    BY <2>1, <2>2
<1>8. Gone \notin {f.path : f \in ToSet(files)}
  <2>1. ASSUME NEW k \in DOMAIN files PROVE files[k].path # Gone
    <3>1. Gone # NoPath /\ ~Readable(Gone)
      BY DEF Gone, NoPath, Readable
    <3> QED
      BY <1>4, <1>6, <3>1
  <2> QED
    BY <2>1 DEF ToSet
<1> QED
  BY <1>3, <1>7, <1>8 DEF files, got

\* The stages of one file are in the workbook as they can be downloaded.
LEMMA SameOneFile ==
  ASSUME NEW w, Plausible(w), NEW kind, NEW part, Segment(SheetPlan(w), kind, part),
         NEW files, NEW p, files = << >> \/ files = <<p>>,
         files = << >> => part = << >>,
         files = <<p>> => Len(part) = 1 /\ SheetRows(part[1]) = Lines(p)
  PROVE  LET book == WorkbookOf(w)
             found == At(book, {i \in DOMAIN book : book[i].kind = kind})
         IN [k \in DOMAIN found |-> found[k].rows] = [k \in DOMAIN files |-> Lines(files[k])]
<1> DEFINE book == WorkbookOf(w)
           found == At(book, {i \in DOMAIN book : book[i].kind = kind})
           n == Len(part)
<1>1. n \in Nat /\ DOMAIN files = 1 .. n /\ \A k \in 1 .. n : SheetRows(part[k]) = Lines(files[k])
  <2>1. CASE files = << >>
    BY <2>1
  <2>2. CASE files = <<p>>
    BY <2>2
  <2> QED
    BY <2>1, <2>2
<1>2. DOMAIN found = 1 .. n /\ \A k \in 1 .. n : found[k].rows = SheetRows(part[k])
  <2>1. n \in Nat
    BY <1>1
  <2> QED
    BY <2>1, KindOfBook
<1> HIDE DEF found, n
<1> QED
  BY <1>1, <1>2 DEF found

\* the files of sheets
FilesIn(sheets) == UNION {ToSet(sheets[k].paths) : k \in DOMAIN sheets}

\* The files of joined sheets.
LEMMA FilesJoin ==
  ASSUME NEW S, NEW s \in Seq(S), NEW t \in Seq(S)
  PROVE  FilesIn(s \o t) = FilesIn(s) \cup FilesIn(t)
<1> DEFINE u == s \o t
           m == Len(s)
           n == Len(t)
<1>1. /\ m \in Nat /\ n \in Nat /\ DOMAIN s = 1 .. m /\ DOMAIN t = 1 .. n /\ DOMAIN u = 1 .. m + n
      /\ \A k \in 1 .. m : u[k] = s[k]
      /\ \A k \in 1 .. n : u[m + k] = t[k]
  BY ConcatFacts
<1> HIDE DEF u, m, n
<1>2. \A i \in 1 .. m + n : i \in 1 .. m \/ \E k \in 1 .. n : i = m + k
  BY <1>1, SecondPart
<1>3. ASSUME NEW k \in 1 .. n PROVE m + k \in 1 .. m + n
  BY <1>1
<1>4. ASSUME NEW k \in 1 .. m PROVE k \in 1 .. m + n
  BY <1>1
<1>5. ASSUME NEW x \in FilesIn(u) PROVE x \in FilesIn(s) \cup FilesIn(t)
  <2>1. PICK i \in 1 .. m + n : x \in ToSet(u[i].paths)
    BY <1>1 DEF FilesIn
  <2>2. CASE i \in 1 .. m
    BY <1>1, <2>1, <2>2 DEF FilesIn
  <2>3. ASSUME NEW k \in 1 .. n, i = m + k PROVE x \in FilesIn(t)
    BY <1>1, <2>1, <2>3 DEF FilesIn
  <2> QED
    BY <1>2, <2>2, <2>3
<1>6. ASSUME NEW x \in FilesIn(s) PROVE x \in FilesIn(u)
  BY <1>1, <1>4 DEF FilesIn
<1>7. ASSUME NEW x \in FilesIn(t) PROVE x \in FilesIn(u)
  <2>1. PICK k \in 1 .. n : x \in ToSet(t[k].paths)
    BY <1>1 DEF FilesIn
  <2>2. u[m + k] = t[k] /\ m + k \in DOMAIN u
    BY <1>1, <1>3
  <2> QED
    BY <2>1, <2>2 DEF FilesIn
<1> QED
  BY <1>5, <1>6, <1>7 DEF u

\* The sheets of a stage are made of its files that can be read.
LEMMA StageFiles ==
  ASSUME NEW P, NEW files \in Seq([index : Nat, path : P]), NEW kind, NEW merge
  PROVE  FilesIn(StageSheets(kind, files, merge)) = {f.path : f \in {f \in ToSet(files) : Readable(f.path)}}
<1> DEFINE V == [index : Nat, path : P]
           found == ReadablePaths(files)
           s == StageSheets(kind, files, merge)
           paths == [k \in DOMAIN found |-> found[k].path]
           all == {f.path : f \in {f \in ToSet(files) : Readable(f.path)}}
<1>1. files \in Seq(V)
  OBVIOUS
<1>2. \A k \in DOMAIN files : files[k].index \in Nat
  <2> HIDE DEF V
  <2>1. \A k \in DOMAIN files : files[k] \in V
    BY <1>1
  <2> QED
    BY <2>1 DEF V
<1> HIDE DEF V
<1>3. AllReadable(found, files)
  BY <1>1, <1>2, ReadablePathsFacts
<1>4. s = IF found = << >> THEN << >>
          ELSE IF merge THEN <<Sheet(<<kind>>, kind, paths)>>
          ELSE [k \in DOMAIN found |-> Sheet(<<kind, "_">> \o Digits(found[k].index), kind, <<found[k].path>>)]
  BY DEF StageSheets
<1> HIDE DEF found, s
<1>5. {found[k].path : k \in DOMAIN found} = all
  <2>1. /\ \A k \in DOMAIN found : \E f \in ToSet(files) : Readable(f.path) /\ found[k] = f
        /\ \A f \in ToSet(files) : Readable(f.path) => \E k \in DOMAIN found : found[k] = f
    BY <1>3 DEF AllReadable
  <2> QED
    BY <2>1
<1>6. CASE found = << >>
  <2>1. FilesIn(s) = {} /\ DOMAIN found = {}
    BY <1>4, <1>6 DEF FilesIn
  <2> QED
    BY <1>5, <2>1 DEF s
<1>7. CASE found # << >> /\ merge
  <2>1. ToSet(paths) = {found[k].path : k \in DOMAIN found}
    BY DEF ToSet
  <2> DEFINE one == Sheet(<<kind>>, kind, paths)
  <2>2. one.paths = paths
    BY DEF Sheet
  <2>3. s = <<one>>
    BY <1>4, <1>7
  <2> HIDE DEF one, paths
  <2>4. DOMAIN s = {1} /\ s[1] = one
    BY <2>3
  <2>5. FilesIn(s) = ToSet(one.paths)
    BY <2>4 DEF FilesIn
  <2> QED
    BY <1>5, <2>1, <2>2, <2>5 DEF s
<1>8. CASE found # << >> /\ ~merge
  <2>1. DOMAIN s = DOMAIN found /\ \A k \in DOMAIN found : s[k].paths = <<found[k].path>>
    BY <1>4, <1>8 DEF Sheet
  <2>2. \A x : ToSet(<<x>>) = {x}
    BY DEF ToSet
  <2>3. \A k \in DOMAIN found : ToSet(s[k].paths) = {found[k].path}
    BY <2>1, <2>2
  <2>4. FilesIn(s) = {found[k].path : k \in DOMAIN found}
    <3>1. FilesIn(s) = UNION {ToSet(s[k].paths) : k \in DOMAIN found}
      BY <2>1 DEF FilesIn
    <3>2. \A x : x \in FilesIn(s) <=> \E k \in DOMAIN found : x \in ToSet(s[k].paths)
      BY <3>1
    <3>3. \A x : x \in FilesIn(s) <=> \E k \in DOMAIN found : x = found[k].path
      <4>1. ASSUME NEW x, NEW k \in DOMAIN found PROVE x \in ToSet(s[k].paths) <=> x = found[k].path
        BY <2>3
      <4> QED
        BY <3>2, <4>1, Zenon
    <3> QED
      BY <3>3
  <2> QED
    BY <1>5, <2>4 DEF s
<1> QED
  BY <1>6, <1>7, <1>8

\* what build_sheet_plan finds of an intake: its upload, the files of two stages, and what ASSOMI left
PlannedFiles(w) ==
  {f.path : f \in {f \in ToSet(Outputs(w, "aggregated")) : Readable(f.path)}}
  \cup {f.path : f \in {f \in ToSet(Outputs(w, "spin")) : Readable(f.path)}}
  \cup ToSet(AssomiDownload(w).files)
  \cup IF w.source = "nat" THEN ToSet(SourceDownload(w).files) ELSE {}

\* The files of a plan are those of the stages that can be read.
LEMMA PlanFiles ==
  ASSUME NEW w, Plausible(w)
  PROVE  FilesIn(SheetPlan(w)) = PlannedFiles(w)
<1> DEFINE S == Sheets(Paths(w))
           r == RejectionSheets(w)
           a == ApplicationSheets(w)
           g == AggregatedSheets(w)
           p == SpinSheets(w)
           x == AssomiSheets(w)
<1>1. /\ r \in Seq(S) /\ a \in Seq(S) /\ g \in Seq(S) /\ p \in Seq(S) /\ x \in Seq(S)
      /\ SheetPlan(w) = (((r \o a) \o g) \o p) \o x
  BY PlanParts
<1>2. FilesIn((((r \o a) \o g) \o p) \o x)
        = FilesIn(r) \cup FilesIn(a) \cup FilesIn(g) \cup FilesIn(p) \cup FilesIn(x)
  <2> HIDE DEF S, r, a, g, p, x
  <2> DEFINE two == r \o a
             three == two \o g
             four == three \o p
  <2>1. \A s, t \in Seq(S) : s \o t \in Seq(S)
    BY ConcatFacts
  <2>2. \A s, t \in Seq(S) : FilesIn(s \o t) = FilesIn(s) \cup FilesIn(t)
    BY FilesJoin
  <2>3. two \in Seq(S) /\ FilesIn(two) = FilesIn(r) \cup FilesIn(a)
    BY <1>1, <2>1, <2>2
  <2> HIDE DEF two
  <2>4. three \in Seq(S) /\ FilesIn(three) = FilesIn(two) \cup FilesIn(g)
    BY <1>1, <2>1, <2>2, <2>3
  <2> HIDE DEF three
  <2>5. four \in Seq(S) /\ FilesIn(four) = FilesIn(three) \cup FilesIn(p)
    BY <1>1, <2>1, <2>2, <2>4
  <2> HIDE DEF four
  <2>6. FilesIn(four \o x) = FilesIn(four) \cup FilesIn(x)
    BY <1>1, <2>2, <2>5
  <2> QED
    BY <2>3, <2>4, <2>5, <2>6 DEF two, three, four
<1>3. \A y : ToSet(<<y>>) = {y}
  BY DEF ToSet
<1>4. \A title, kind, paths : /\ FilesIn(<<Sheet(title, kind, paths)>>) = ToSet(paths)
                             /\ FilesIn(<< >>) = {} /\ ToSet(<< >>) = {}
  BY DEF FilesIn, Sheet, ToSet
<1>5. FilesIn(r) = {}
  BY <1>4 DEF RejectionSheets
<1>6. FilesIn(a) = IF w.source = "nat" THEN ToSet(SourceDownload(w).files) ELSE {}
  <2> DEFINE q == w.application
             there == w.batch /\ Readable(q)
             one == <<Sheet(<<"application">>, "application", <<q>>)>>
  <2>1. a = IF w.source = "nat" /\ there THEN one ELSE << >>
    BY DEF ApplicationSheets
  <2>2. w.source = "nat" => SourceDownload(w).files = IF there THEN <<q>> ELSE << >>
    BY DEF SourceDownload, Refused
  <2>3. FilesIn(one) = {q} /\ FilesIn(<< >>) = {} /\ ToSet(<<q>>) = {q} /\ ToSet(<< >>) = {}
    BY <1>3, <1>4
  <2> HIDE DEF a, q, there, one
  <2> QED
    BY <2>1, <2>2, <2>3
<1>7. ASSUME NEW key \in {"aggregated", "spin"}, NEW kind
      PROVE  FilesIn(StageSheets(kind, Outputs(w, key), w.merge))
               = {f.path : f \in {f \in ToSet(Outputs(w, key)) : Readable(f.path)}}
  <2>1. Outputs(w, key) \in Seq([index : Nat, path : Paths(w)])
    BY OutputsFacts
  <2> QED
    BY <2>1, StageFiles
<1>8. FilesIn(x) = ToSet(AssomiDownload(w).files)
  <2> DEFINE file == [index |-> 1, path |-> w.output]
             files == <<file>>
  <2>1. ToSet(AssomiDownload(w).files) = IF w.assomi = "completed" /\ Readable(w.output) THEN {w.output} ELSE {}
    BY <1>3, <1>4 DEF AssomiDownload, Refused
  <2>2. file \in [index : Nat, path : Paths(w)] /\ file.path = w.output
    BY DEF Paths
  <2> HIDE DEF file
  <2>3. files \in Seq([index : Nat, path : Paths(w)]) /\ ToSet(files) = {file}
    BY <1>3, <2>2, SingletonSeq
  <2> HIDE DEF files
  <2>4. FilesIn(StageSheets("assomi", files, w.merge)) = {f.path : f \in {f \in ToSet(files) : Readable(f.path)}}
    BY <2>3, StageFiles
  <2>5. FilesIn(StageSheets("assomi", files, w.merge)) = IF Readable(w.output) THEN {w.output} ELSE {}
    BY <2>2, <2>3, <2>4
  <2>6. x = IF w.assomi = "completed" THEN StageSheets("assomi", files, w.merge) ELSE << >>
    BY DEF AssomiSheets, files, file
  <2> HIDE DEF x
  <2> QED
    BY <1>4, <2>1, <2>5, <2>6
<1>9. FilesIn(g) = {f.path : f \in {f \in ToSet(Outputs(w, "aggregated")) : Readable(f.path)}}
  BY <1>7 DEF AggregatedSheets
<1>10. FilesIn(p) = {f.path : f \in {f \in ToSet(Outputs(w, "spin")) : Readable(f.path)}}
  BY <1>7 DEF SpinSheets
<1> HIDE DEF r, a, g, p, x
<1>11. FilesIn(SheetPlan(w)) = FilesIn(r) \cup FilesIn(a) \cup FilesIn(g) \cup FilesIn(p) \cup FilesIn(x)
  BY <1>1, <1>2
<1> QED
  BY <1>5, <1>6, <1>8, <1>9, <1>10, <1>11 DEF PlannedFiles

\* A stage that can be downloaded is whole, and is in the workbook exactly when
\* it can be, and there is a workbook unless one of the files that belong in it
\* is not in UTF-8: _resolve_output_file, resolve_file of AssomiQueryService,
\* resolve_source_file, build_sheet_plan and load_csv_rows, for every intake.
THEOREM DownloadsAreWhole == RequestSpec => []DownloadIsWhole
<1>1. ASSUME Asked, Right PROVE DownloadIsWhole
  <2> SUFFICES ASSUME Answered("report") PROVE DownloadIsWhole
    BY DEF DownloadIsWhole
  <2> DEFINE w == subject[2]
             book == WorkbookOf(w)
             rows(kind) == [k \in DOMAIN SheetsOf(kind) |-> SheetsOf(kind)[k].rows]
  <2>1. Plausible(w)
    <3>1. w \in Reports
      BY <1>1 DEF Asked, Answered
    <3> QED
      BY <3>1, ReportsPlausible
  <2>2. /\ reply.aggregated = Download(w, "aggregated") /\ reply.spin = Download(w, "spin")
        /\ reply.assomi = AssomiDownload(w) /\ reply.source = SourceDownload(w)
        /\ reply.results = IntakeResults(w).status /\ reply.workbook = IntakeResults(w).sheets
    BY <1>1 DEF Right, ReportReply
  <2>11. /\ reply.results = "exception" <=> ~Loads(w)
         /\ reply.results # "exception" => reply.workbook = book
    <3> HIDE DEF w
    <3> QED
      BY <2>1, <2>2, ResultsFacts
  <2>12. reply.results = "exception" <=> \E path \in Included : ~Decodes(path)
    <3>1. Loads(w) <=> \A path \in FilesIn(SheetPlan(w)) : Decodes(path)
      BY DEF Loads, FilesIn, ToSet
    <3>2. Included = PlannedFiles(w)
      <4>1. FilesOf("aggregated") = {f \in ToSet(Outputs(w, "aggregated")) : Readable(f.path)}
            /\ FilesOf("spin") = {f \in ToSet(Outputs(w, "spin")) : Readable(f.path)}
        BY DEF FilesOf
      <4>2. Included = {f.path : f \in FilesOf("aggregated") \cup FilesOf("spin")} \cup ToSet(reply.assomi.files)
                       \cup IF w.source = "nat" THEN ToSet(reply.source.files) ELSE {}
        BY DEF Included
      <4> HIDE DEF w
      <4> QED
        BY <2>2, <4>1, <4>2 DEF PlannedFiles
    <3> HIDE DEF w
    <3>3. FilesIn(SheetPlan(w)) = PlannedFiles(w)
      BY <2>1, PlanFiles
    <3> QED
      BY <2>11, <3>1, <3>2, <3>3
  <2>3. ASSUME NEW key \in {"aggregated", "spin"}
        PROVE  LET got == IF key = "spin" THEN reply.spin ELSE reply.aggregated IN
               got.status = "ok" => /\ ToSet(got.files) = FilesOf(key) /\ got.files # << >>
                                    /\ Gone \notin {f.path : f \in ToSet(Outputs(w, key))}
    <3>1. (IF key = "spin" THEN reply.spin ELSE reply.aggregated) = Download(w, key)
      BY <2>2
    <3>2. FilesOf(key) = {f \in ToSet(Outputs(w, key)) : Readable(f.path)}
      BY DEF FilesOf
    <3> HIDE DEF w
    <3> QED
      BY <2>1, <3>1, <3>2, DownloadFacts
  <2>4. ASSUME reply.results # "exception"
        PROVE  rows("assomi") = [k \in DOMAIN reply.assomi.files |-> Lines(reply.assomi.files[k])]
    <3> DEFINE files == reply.assomi.files
               part == AssomiSheets(w)
               p == w.output
    <3>1. files = IF w.assomi = "completed" /\ Readable(p) THEN <<p>> ELSE << >>
      BY <2>2 DEF AssomiDownload, Refused
    <3>2. part = IF w.assomi = "completed" THEN StageSheets("assomi", <<[index |-> 1, path |-> p]>>, w.merge) ELSE << >>
      BY DEF AssomiSheets
    <3>3. p \in Paths(w) /\ "assomi" \in Kinds /\ "assomi" # "rejection"
      BY DEF Paths, Kinds
    <3> HIDE DEF w, files, part, p
    <3>4. /\ files = << >> \/ files = <<p>>
          /\ files = << >> => part = << >>
          /\ files = <<p>> => Len(part) = 1 /\ SheetRows(part[1]) = Lines(p)
      BY <3>1, <3>2, <3>3, OneFileStage
    <3>5. Segment(SheetPlan(w), "assomi", part)
      BY <2>1, PlanSegments DEF part
    <3> DEFINE found == At(book, {i \in DOMAIN book : book[i].kind = "assomi"})
    <3>6. [k \in DOMAIN found |-> found[k].rows] = [k \in DOMAIN files |-> Lines(files[k])]
      BY <2>1, <3>4, <3>5, SameOneFile
    <3>7. SheetsOf("assomi") = found
      BY <2>4, <2>11 DEF SheetsOf
    <3> HIDE DEF found
    <3> QED
      BY <3>6, <3>7 DEF files
  <2>5. ASSUME w.source = "nat", reply.results # "exception"
        PROVE  rows("application") = [k \in DOMAIN reply.source.files |-> Lines(reply.source.files[k])]
    <3> DEFINE files == reply.source.files
               part == ApplicationSheets(w)
               p == w.application
               one == Sheet(<<"application">>, "application", <<p>>)
    <3>1. files = IF w.batch /\ Readable(p) THEN <<p>> ELSE << >>
      BY <2>2 DEF SourceDownload, Refused
    <3>2. part = IF w.batch /\ Readable(p) THEN <<one>> ELSE << >>
      BY <2>5 DEF ApplicationSheets
    <3>3. SheetRows(one) = Lines(p)
      BY DEF SheetRows, Sheet
    <3> HIDE DEF w, files, part, p, one
    <3>4. /\ files = << >> \/ files = <<p>>
          /\ files = << >> => part = << >>
          /\ files = <<p>> => Len(part) = 1 /\ SheetRows(part[1]) = Lines(p)
      BY <3>1, <3>2, <3>3
    <3>5. Segment(SheetPlan(w), "application", part)
      BY <2>1, PlanSegments DEF part
    <3> DEFINE found == At(book, {i \in DOMAIN book : book[i].kind = "application"})
    <3>6. [k \in DOMAIN found |-> found[k].rows] = [k \in DOMAIN files |-> Lines(files[k])]
      BY <2>1, <3>4, <3>5, SameOneFile
    <3>7. SheetsOf("application") = found
      BY <2>5, <2>11 DEF SheetsOf
    <3> HIDE DEF found
    <3> QED
      BY <3>6, <3>7 DEF files
  <2> HIDE DEF rows
  <2> QED
    BY <2>3, <2>4, <2>5, <2>12 DEF DownloadIsWhole, rows
<1> QED
  BY <1>1, AnsweredRight, PTL

-----------------------------------------------------------------------------
(* The lines of a stage. *)

\* at[p] tells of which file of r the p-th line is, and which line of it.
Unfolds(at, lines, r) ==
  /\ at \in [1 .. Len(lines) -> Nat \X Nat]
  /\ \A p \in 1 .. Len(lines) : /\ at[p][1] \in DOMAIN r
                               /\ at[p][2] < r[at[p][1]].path[2]
                               /\ lines[p] = <<r[at[p][1]].path[1], at[p][2]>>
  /\ \A p, q \in 1 .. Len(lines) : p < q => Earlier(at[p], at[q])
  /\ \A k \in DOMAIN r : \A j \in 1 .. r[k].path[2] - 1 : \E p \in 1 .. Len(lines) : at[p] = <<k, j>>

\* Files of different names, by their index.
Sorted(r) ==
  /\ \A k \in DOMAIN r : r[k].index \in Nat /\ r[k].path[2] \in Nat
  /\ \A j, k \in DOMAIN r : r[j].path[1] = r[k].path[1] => j = k
  /\ \A j, k \in DOMAIN r : j < k => r[j].index <= r[k].index

\* What Complete says of the data of the sheets.
AllInOrder(data, files) ==
  LET index(line) == (CHOOSE f \in files : f.path[1] = line[1]).index
  IN /\ ToSet(data) = UNION {{<<f.path[1], n>> : n \in 1 .. f.path[2] - 1} : f \in files}
     /\ \A i, j \in DOMAIN data : i < j =>
          \/ index(data[i]) < index(data[j])
          \/ index(data[i]) = index(data[j]) /\ (data[i][1] = data[j][1] => data[i][2] < data[j][2])

\* Lines that unfold files have all data of them, in order.
LEMMA DataComplete ==
  ASSUME NEW X, NEW r \in Seq(X), Sorted(r), NEW T, NEW lines \in Seq(T), NEW at, Unfolds(at, lines, r)
  PROVE  AllInOrder(DataOf(lines), ToSet(r))
<1> DEFINE I == {i \in DOMAIN lines : lines[i][2] # 0}
           data == At(lines, I)
           n == Cardinality(I)
           q == InOrder(I, Increasing(I))
           index(line) == (CHOOSE f \in ToSet(r) : f.path[1] = line[1]).index
           all == UNION {{<<f.path[1], m>> : m \in 1 .. f.path[2] - 1} : f \in ToSet(r)}
<1>1. I \in SUBSET DOMAIN lines /\ DOMAIN lines = 1 .. Len(lines) /\ Len(lines) \in Nat
  OBVIOUS
<1>2. \A i \in DOMAIN lines : i \in I <=> lines[i][2] # 0
  OBVIOUS
<1>3. DataOf(lines) = data
  BY DEF DataOf
<1> HIDE DEF I
<1>4. /\ n \in Nat /\ data \in Seq(T) /\ Len(data) = n
      /\ q \in [1 .. n -> I]
      /\ \A k \in 1 .. n : data[k] = lines[q[k]]
      /\ \A i \in I : \E k \in 1 .. n : q[k] = i
      /\ \A j, k \in 1 .. n : j < k => q[j] < q[k]
  BY <1>1, AtFacts
<1> HIDE DEF q, n, data
<1>5. DOMAIN data = 1 .. n
  BY <1>4
<1> DEFINE a(k) == at[q[k]][1]
           b(k) == at[q[k]][2]
<1>6. ASSUME NEW k \in 1 .. n
      PROVE  /\ a(k) \in DOMAIN r /\ b(k) \in 1 .. r[a(k)].path[2] - 1
             /\ data[k] = <<r[a(k)].path[1], b(k)>>
  <2>1. q[k] \in I /\ q[k] \in 1 .. Len(lines) /\ lines[q[k]][2] # 0
    BY <1>1, <1>2, <1>4
  <2>2. /\ a(k) \in DOMAIN r /\ b(k) < r[a(k)].path[2] /\ lines[q[k]] = <<r[a(k)].path[1], b(k)>>
        /\ b(k) \in Nat
    BY <2>1 DEF Unfolds
  <2>3. r[a(k)].path[2] \in Nat
    BY <2>2 DEF Sorted
  <2>4. data[k] = lines[q[k]] /\ b(k) # 0
    BY <1>4, <2>1, <2>2
  <2>5. b(k) \in 1 .. r[a(k)].path[2] - 1
    <3> HIDE DEF a, b
    <3> QED
      BY <2>2, <2>3, <2>4
  <2> QED
    BY <2>2, <2>4, <2>5
<1>7. ASSUME NEW k \in DOMAIN r, NEW m \in 1 .. r[k].path[2] - 1
      PROVE  \E i \in 1 .. n : data[i] = <<r[k].path[1], m>>
  <2>1. PICK p \in 1 .. Len(lines) : at[p] = <<k, m>>
    BY DEF Unfolds
  <2>2. lines[p] = <<r[k].path[1], m>> /\ m # 0
    BY <2>1 DEF Unfolds
  <2>3. p \in I
    BY <1>1, <1>2, <2>2
  <2>4. PICK i \in 1 .. n : q[i] = p
    BY <1>4, <2>3
  <2>5. data[i] = lines[p]
    BY <1>4, <2>4
  <2> QED
    BY <2>2, <2>5
<1>8. ToSet(data) = all
  <2>1. \A f \in ToSet(r) : \E k \in DOMAIN r : f = r[k]
    BY DEF ToSet
  <2>2. \A k \in DOMAIN r : r[k] \in ToSet(r)
    BY DEF ToSet
  <2>3. ASSUME NEW x \in ToSet(data) PROVE x \in all
    <3>1. PICK k \in 1 .. n : x = data[k]
      BY <1>5 DEF ToSet
    <3>2. a(k) \in DOMAIN r /\ b(k) \in 1 .. r[a(k)].path[2] - 1 /\ x = <<r[a(k)].path[1], b(k)>>
      BY <1>6, <3>1
    <3> HIDE DEF a, b
    <3> QED
      BY <2>2, <3>2
  <2>4. ASSUME NEW x \in all PROVE x \in ToSet(data)
    <3>1. PICK f \in ToSet(r) : x \in {<<f.path[1], m>> : m \in 1 .. f.path[2] - 1}
      BY <2>4
    <3>2. PICK m \in 1 .. f.path[2] - 1 : x = <<f.path[1], m>>
      BY <3>1
    <3>3. PICK k \in DOMAIN r : f = r[k]
      BY <2>1
    <3>4. \E i \in 1 .. n : data[i] = x
      BY <1>7, <3>2, <3>3
    <3> QED
      BY <1>5, <3>4 DEF ToSet
  <2> QED
    BY <2>3, <2>4
<1>9. ASSUME NEW k \in DOMAIN r, NEW line, line[1] = r[k].path[1] PROVE index(line) = r[k].index
  <2>1. r[k] \in ToSet(r)
    BY DEF ToSet
  <2>2. \A f \in ToSet(r) : f.path[1] = line[1] => f = r[k]
    BY <1>9 DEF ToSet, Sorted
  <2>3. (CHOOSE f \in ToSet(r) : f.path[1] = line[1]) = r[k]
    BY <1>9, <2>1, <2>2
  <2> QED
    BY <2>3
<1> HIDE DEF index
<1>10. ASSUME NEW i \in 1 .. n, NEW j \in 1 .. n, i < j
       PROVE  \/ index(data[i]) < index(data[j])
              \/ index(data[i]) = index(data[j]) /\ (data[i][1] = data[j][1] => data[i][2] < data[j][2])
  <2>1. /\ a(i) \in DOMAIN r /\ data[i] = <<r[a(i)].path[1], b(i)>>
        /\ a(j) \in DOMAIN r /\ data[j] = <<r[a(j)].path[1], b(j)>>
    BY <1>6
  <2>2. Earlier(at[q[i]], at[q[j]])
    <3>1. q[i] \in 1 .. Len(lines) /\ q[j] \in 1 .. Len(lines) /\ q[i] < q[j]
      BY <1>1, <1>4, <1>10
    <3> QED
      BY <3>1 DEF Unfolds
  <2>3. a(i) < a(j) \/ (a(i) = a(j) /\ b(i) < b(j))
    BY <2>2 DEF Earlier
  <2> HIDE DEF a, b
  <2>4. index(data[i]) = r[a(i)].index /\ index(data[j]) = r[a(j)].index
    BY <1>9, <2>1
  <2>5. CASE a(i) < a(j)
    <3>1. r[a(i)].index <= r[a(j)].index /\ r[a(i)].index \in Nat /\ r[a(j)].index \in Nat
      BY <2>1, <2>5 DEF Sorted
    <3>2. a(i) # a(j)
      <4>1. a(i) \in Nat /\ a(j) \in Nat
        BY <2>1
      <4> QED
        BY <2>5, <4>1
    <3>3. r[a(i)].path[1] # r[a(j)].path[1]
      BY <2>1, <3>2 DEF Sorted
    <3>4. data[i][1] # data[j][1]
      BY <2>1, <3>3
    <3> QED
      BY <2>4, <3>1, <3>4
  <2>6. CASE a(i) = a(j) /\ b(i) < b(j)
    BY <2>1, <2>4, <2>6
  <2> QED
    BY <2>3, <2>5, <2>6
<1>11. \A i, j \in DOMAIN data : i < j =>
         \/ index(data[i]) < index(data[j])
         \/ index(data[i]) = index(data[j]) /\ (data[i][1] = data[j][1] => data[i][2] < data[j][2])
  BY <1>5, <1>10
<1>12. AllInOrder(data, ToSet(r))
  BY <1>8, <1>11 DEF AllInOrder, index
<1> QED
  BY <1>3, <1>12

\* A line of a file.
LEMMA OneLine ==
  ASSUME NEW P, NEW p \in P, p[2] \in Nat, NEW j \in 1 .. p[2]
  PROVE  Lines(p)[j] = <<p[1], j - 1>> /\ Lines(p)[j][2] = j - 1
BY DEF Lines

\* Sheets of one file each.
LEMMA SeparateUnfolds ==
  ASSUME NEW X, NEW r \in Seq(X), NEW P, \A k \in DOMAIN r : r[k].path \in P, \A p \in P : p[2] \in Nat
  PROVE  LET lines == FlattenSeq([k \in DOMAIN r |-> Lines(r[k].path)])
         IN lines \in Seq(LinesOf(P)) /\ \E at : Unfolds(at, lines, r)
<1> DEFINE L == LinesOf(P)
           seqs == [k \in DOMAIN r |-> Lines(r[k].path)]
           lines == FlattenSeq(seqs)
           n == Len(r)
<1>1. n \in Nat /\ DOMAIN r = 1 .. n
  OBVIOUS
<1>2. \A k \in DOMAIN r : Lines(r[k].path) \in Seq(L) /\ Len(Lines(r[k].path)) = r[k].path[2]
  BY LinesFacts
<1> HIDE DEF L
<1>3. seqs \in Seq(Seq(L)) /\ Len(seqs) = n /\ \A k \in 1 .. n : seqs[k] = Lines(r[k].path)
  <2>1. seqs \in [1 .. n -> Seq(L)] /\ \A k \in 1 .. n : seqs[k] = Lines(r[k].path)
    BY <1>1, <1>2
  <2> HIDE DEF seqs, n
  <2> QED
    BY <1>1, <2>1
<1> HIDE DEF seqs
<1>4. lines \in Seq(L) /\ \E c : Places(c, lines, seqs, n)
  BY <1>3, FlattenFacts
<1>5. PICK c : Places(c, lines, seqs, n)
  BY <1>4
<1> DEFINE m == Len(lines)
           at == [p \in 1 .. m |-> <<c[p][1], c[p][2] - 1>>]
<1> HIDE DEF lines, n
<1>6. m \in Nat
  BY <1>4
<1> HIDE DEF m
<1>7. ASSUME NEW p \in 1 .. m
      PROVE  /\ c[p] \in Nat \X Nat /\ c[p][1] \in 1 .. n /\ c[p][2] \in 1 .. r[c[p][1]].path[2]
             /\ r[c[p][1]].path[2] \in Nat
             /\ lines[p] = <<r[c[p][1]].path[1], c[p][2] - 1>>
  <2>1. /\ c[p] \in Nat \X Nat /\ c[p][1] \in 1 .. n /\ c[p][2] \in 1 .. Len(seqs[c[p][1]])
        /\ lines[p] = seqs[c[p][1]][c[p][2]]
    BY <1>5 DEF Places, m
  <2> DEFINE k == c[p][1]
             j == c[p][2]
  <2>2. k \in DOMAIN r /\ seqs[k] = Lines(r[k].path) /\ j \in 1 .. Len(seqs[k]) /\ lines[p] = seqs[k][j]
    BY <1>1, <1>3, <2>1
  <2> HIDE DEF k, j
  <2>3. Len(seqs[k]) = r[k].path[2] /\ r[k].path[2] \in Nat /\ r[k].path \in P
    BY <1>2, <2>2
  <2>4. lines[p] = <<r[k].path[1], j - 1>>
    BY <2>2, <2>3, OneLine
  <2> QED
    BY <2>1, <2>2, <2>3, <2>4 DEF k, j
<1>8. ASSUME NEW p \in 1 .. m
      PROVE  /\ at[p] \in Nat \X Nat /\ at[p][1] = c[p][1] /\ at[p][2] = c[p][2] - 1
             /\ at[p][1] \in DOMAIN r /\ at[p][2] < r[at[p][1]].path[2]
             /\ lines[p] = <<r[at[p][1]].path[1], at[p][2]>>
  <2>1. at[p] = <<c[p][1], c[p][2] - 1>>
    OBVIOUS
  <2> HIDE DEF at
  <2>2. c[p][1] \in Nat /\ c[p][2] - 1 \in Nat /\ c[p][2] - 1 < r[c[p][1]].path[2]
    BY <1>7
  <2>3. at[p][1] = c[p][1] /\ at[p][2] = c[p][2] - 1
    BY <2>1
  <2> QED
    BY <1>1, <1>7, <2>1, <2>2, <2>3
<1>9. ASSUME NEW p \in 1 .. m, NEW q \in 1 .. m, p < q PROVE Earlier(at[p], at[q])
  <2>1. Earlier(c[p], c[q])
    BY <1>5, <1>9 DEF Places, m
  <2>2. c[p][1] < c[q][1] \/ (c[p][1] = c[q][1] /\ c[p][2] < c[q][2])
    BY <2>1 DEF Earlier
  <2>3. c[p][2] \in Nat /\ c[q][2] \in Nat
    BY <1>7
  <2>4. /\ at[p][1] = c[p][1] /\ at[p][2] = c[p][2] - 1
        /\ at[q][1] = c[q][1] /\ at[q][2] = c[q][2] - 1
    BY <1>8
  <2> HIDE DEF at
  <2> QED
    BY <2>2, <2>3, <2>4 DEF Earlier
<1>10. ASSUME NEW k \in DOMAIN r, NEW j \in 1 .. r[k].path[2] - 1 PROVE \E p \in 1 .. m : at[p] = <<k, j>>
  <2>1. Len(seqs[k]) = r[k].path[2] /\ r[k].path[2] \in Nat /\ k \in 1 .. n
    BY <1>1, <1>2, <1>3
  <2>2. j + 1 \in 1 .. Len(seqs[k])
    BY <2>1
  <2>3. PICK p \in 1 .. m : c[p] = <<k, j + 1>>
    BY <1>5, <2>1, <2>2 DEF Places, m
  <2>4. at[p] = <<k, j + 1 - 1>>
    BY <2>3
  <2> HIDE DEF at
  <2> QED
    BY <2>4
<1>11. at \in [1 .. m -> Nat \X Nat]
  BY <1>8
<1> HIDE DEF at
<1>12. Unfolds(at, lines, r)
  BY <1>8, <1>9, <1>10, <1>11 DEF Unfolds, m
<1> QED
  BY <1>4, <1>12 DEF lines, seqs, L

\* One sheet of all files, with the header of the first that is not empty.
LEMMA MergedUnfolds ==
  ASSUME NEW X, NEW r \in Seq(X), NEW P, \A k \in DOMAIN r : r[k].path \in P, \A p \in P : p[2] \in Nat
  PROVE  LET lines == Merged([k \in DOMAIN r |-> r[k].path])
         IN /\ lines \in Seq(LinesOf(P)) /\ \E at : Unfolds(at, lines, r)
            /\ \A p \in DOMAIN lines : lines[p][2] = 0 <=> p = 1
<1> DEFINE L == LinesOf(P)
           paths == [k \in DOMAIN r |-> r[k].path]
           I == {k \in DOMAIN paths : paths[k][2] > 0}
           filled == At(paths, I)
           n == Cardinality(I)
           o == InOrder(I, Increasing(I))
           part(k) == IF k = 1 THEN Lines(filled[k]) ELSE Tail(Lines(filled[k]))
           parts == [k \in DOMAIN filled |-> part(k)]
           lines == Merged(paths)
           skip(k) == IF k = 1 THEN 1 ELSE 0
<1>1. paths \in Seq(P) /\ DOMAIN paths = DOMAIN r /\ DOMAIN r \subseteq Nat /\ \A k \in DOMAIN r : paths[k] = r[k].path
  <2>1. DOMAIN r = 1 .. Len(r) /\ Len(r) \in Nat
    OBVIOUS
  <2>2. paths \in [1 .. Len(r) -> P] /\ \A k \in DOMAIN r : paths[k] = r[k].path
    BY <2>1
  <2> DEFINE m == Len(r)
  <2> HIDE DEF paths, m
  <2> QED
    BY <2>1, <2>2 DEF m
<1>2. lines = FlattenSeq(parts)
  BY DEF Merged
<1> HIDE DEF paths, lines
<1>3. I \in SUBSET DOMAIN paths /\ \A i \in DOMAIN paths : i \in I <=> paths[i][2] > 0
  OBVIOUS
<1> HIDE DEF I
<1>4. /\ n \in Nat /\ filled \in Seq(P) /\ Len(filled) = n /\ o \in [1 .. n -> I]
      /\ \A k \in 1 .. n : filled[k] = paths[o[k]]
      /\ \A i \in I : \E k \in 1 .. n : o[k] = i
      /\ \A j, k \in 1 .. n : j < k => o[j] < o[k]
  BY <1>1, <1>3, AtFacts
<1> HIDE DEF filled, o, n
<1>5. DOMAIN filled = 1 .. n
  BY <1>4
<1>6. ASSUME NEW k \in 1 .. n
      PROVE  /\ o[k] \in DOMAIN r /\ o[k] \in Nat /\ filled[k] = r[o[k]].path /\ filled[k] \in P
             /\ filled[k][2] \in Nat /\ filled[k][2] > 0
  <2>1. o[k] \in I /\ filled[k] = paths[o[k]]
    BY <1>4
  <2> QED
    BY <1>1, <1>3, <2>1
<1> HIDE DEF L
<1>7. ASSUME NEW k \in 1 .. n
      PROVE  /\ part(k) \in Seq(L) /\ Len(part(k)) = filled[k][2] - 1 + skip(k)
             /\ \A j \in 1 .. Len(part(k)) : part(k)[j] = <<filled[k][1], j - skip(k)>>
  <2> DEFINE f == filled[k]
             s == Lines(f)
  <2>1. f \in P /\ f[2] \in Nat /\ f[2] > 0 /\ s \in Seq(L) /\ Len(s) = f[2]
    BY <1>6, LinesFacts DEF L
  <2>2. \A j \in 1 .. f[2] : s[j] = <<f[1], j - 1>>
    BY <2>1, OneLine
  <2>3. CASE k = 1
    <3>1. part(k) = s /\ skip(k) = 1
      BY <2>3
    <3> HIDE DEF part, skip, s, f
    <3>2. Len(s) = f[2] - 1 + 1 /\ \A j \in 1 .. Len(s) : s[j] = <<f[1], j - 1>>
      BY <2>1, <2>2
    <3>3. /\ part(k) \in Seq(L) /\ Len(part(k)) = f[2] - 1 + skip(k)
          /\ \A j \in 1 .. Len(part(k)) : part(k)[j] = <<f[1], j - skip(k)>>
      BY <2>1, <3>1, <3>2
    <3> QED
      BY <3>3 DEF f
  <2>4. CASE k # 1
    <3>1. part(k) = Tail(s) /\ skip(k) = 0
      BY <2>4
    <3> HIDE DEF part, skip, s, f
    <3>2. Tail(s) \in Seq(L) /\ Len(Tail(s)) = f[2] - 1 /\ \A j \in 1 .. Len(s) - 1 : Tail(s)[j] = s[j + 1]
      BY <2>1
    <3>3. ASSUME NEW j \in 1 .. f[2] - 1 PROVE Tail(s)[j] = <<f[1], j - 0>>
      <4>1. j \in 1 .. Len(s) - 1 /\ j + 1 \in 1 .. f[2] /\ j + 1 - 1 = j /\ j - 0 = j
        BY <2>1
      <4>2. s[j + 1] = <<f[1], j + 1 - 1>>
        BY <2>2, <4>1
      <4> QED
        BY <3>2, <4>1, <4>2
    <3>4. /\ part(k) \in Seq(L) /\ Len(part(k)) = f[2] - 1 + skip(k)
          /\ \A j \in 1 .. Len(part(k)) : part(k)[j] = <<f[1], j - skip(k)>>
      <4>1. f[2] - 1 + 0 = f[2] - 1
        BY <2>1
      <4> QED
        BY <3>1, <3>2, <3>3, <4>1
    <3> QED
      BY <3>4 DEF f
  <2> QED
    BY <2>3, <2>4
<1>8. parts \in Seq(Seq(L)) /\ Len(parts) = n /\ \A k \in 1 .. n : parts[k] = part(k)
  <2> HIDE DEF part
  <2>1. parts \in [1 .. n -> Seq(L)] /\ \A k \in 1 .. n : parts[k] = part(k)
    BY <1>5, <1>7
  <2>2. n \in Nat
    BY <1>4
  <2> HIDE DEF parts
  <2> QED
    BY <2>1, <2>2
<1> HIDE DEF part, parts
<1>9. lines \in Seq(L) /\ \E c : Places(c, lines, parts, n)
  BY <1>2, <1>8, FlattenFacts
<1>10. PICK c : Places(c, lines, parts, n)
  BY <1>9
<1> DEFINE m == Len(lines)
           at == [p \in 1 .. m |-> <<o[c[p][1]], c[p][2] - skip(c[p][1])>>]
<1>11. m \in Nat /\ DOMAIN lines = 1 .. m
  BY <1>9
<1> HIDE DEF m
<1>12. ASSUME NEW p \in 1 .. m
       PROVE  /\ c[p] \in Nat \X Nat /\ c[p][1] \in 1 .. n /\ c[p][2] \in 1 .. Len(part(c[p][1]))
              /\ lines[p] = <<filled[c[p][1]][1], c[p][2] - skip(c[p][1])>>
  <2>1. /\ c[p] \in Nat \X Nat /\ c[p][1] \in 1 .. n /\ c[p][2] \in 1 .. Len(parts[c[p][1]])
        /\ lines[p] = parts[c[p][1]][c[p][2]]
    BY <1>10 DEF Places, m
  <2> DEFINE k == c[p][1]
             j == c[p][2]
  <2>2. k \in 1 .. n /\ parts[k] = part(k) /\ j \in 1 .. Len(part(k)) /\ lines[p] = part(k)[j]
    BY <1>8, <2>1
  <2> HIDE DEF k, j
  <2>3. lines[p] = <<filled[k][1], j - skip(k)>>
    BY <1>7, <2>2
  <2> QED
    BY <2>1, <2>2, <2>3 DEF k, j
<1>13. ASSUME NEW p \in 1 .. m
       PROVE  /\ at[p] \in Nat \X Nat /\ at[p][1] = o[c[p][1]] /\ at[p][2] = c[p][2] - skip(c[p][1])
              /\ at[p][1] \in DOMAIN r /\ at[p][2] < r[at[p][1]].path[2]
              /\ lines[p] = <<r[at[p][1]].path[1], at[p][2]>>
  <2> DEFINE k == c[p][1]
             j == c[p][2]
  <2>1. at[p] = <<o[k], j - skip(k)>>
    OBVIOUS
  <2>2. k \in 1 .. n /\ j \in 1 .. Len(part(k)) /\ lines[p] = <<filled[k][1], j - skip(k)>>
    BY <1>12
  <2> HIDE DEF at, k, j
  <2>3. at[p][1] = o[k] /\ at[p][2] = j - skip(k)
    BY <2>1
  <2>4. filled[k] = r[o[k]].path /\ filled[k][2] \in Nat /\ o[k] \in DOMAIN r /\ o[k] \in Nat
    BY <1>6, <2>2
  <2>5. j - skip(k) \in Nat /\ j - skip(k) < filled[k][2]
    <3>1. Len(part(k)) = filled[k][2] - 1 + skip(k)
      BY <1>7, <2>2
    <3> QED
      BY <2>2, <2>4, <3>1
  <2> QED
    BY <2>1, <2>2, <2>3, <2>4, <2>5 DEF k, j
<1>14. ASSUME NEW p \in 1 .. m, NEW q \in 1 .. m, p < q PROVE Earlier(at[p], at[q])
  <2>1. Earlier(c[p], c[q])
    BY <1>10, <1>14 DEF Places, m
  <2>2. c[p][1] < c[q][1] \/ (c[p][1] = c[q][1] /\ c[p][2] < c[q][2])
    BY <2>1 DEF Earlier
  <2>3. /\ c[p][1] \in 1 .. n /\ c[q][1] \in 1 .. n
        /\ c[p][2] \in Nat /\ c[q][2] \in Nat
    BY <1>12
  <2>4. /\ at[p][1] = o[c[p][1]] /\ at[p][2] = c[p][2] - skip(c[p][1])
        /\ at[q][1] = o[c[q][1]] /\ at[q][2] = c[q][2] - skip(c[q][1])
    BY <1>13
  <2> HIDE DEF at
  <2>5. CASE c[p][1] < c[q][1]
    BY <1>4, <2>3, <2>4, <2>5 DEF Earlier
  <2>6. CASE c[p][1] = c[q][1] /\ c[p][2] < c[q][2]
    BY <2>3, <2>4, <2>6 DEF Earlier
  <2> QED
    BY <2>2, <2>5, <2>6
<1>15. ASSUME NEW i \in DOMAIN r, NEW j \in 1 .. r[i].path[2] - 1 PROVE \E p \in 1 .. m : at[p] = <<i, j>>
  <2>1. i \in I
    <3>1. r[i].path[2] \in Nat /\ paths[i] = r[i].path /\ i \in DOMAIN paths
      BY <1>1
    <3>2. paths[i][2] > 0
      BY <3>1
    <3> QED
      BY <1>3, <3>1, <3>2
  <2>2. PICK k \in 1 .. n : o[k] = i
    BY <1>4, <2>1
  <2>3. filled[k][2] = r[i].path[2] /\ filled[k][2] \in Nat
    BY <1>6, <2>2
  <2>4. j + skip(k) \in 1 .. Len(parts[k])
    <3>1. Len(parts[k]) = filled[k][2] - 1 + skip(k)
      BY <1>7, <1>8
    <3> QED
      BY <2>3, <3>1
  <2>5. PICK p \in 1 .. m : c[p] = <<k, j + skip(k)>>
    BY <1>10, <2>4 DEF Places, m
  <2>6. at[p] = <<o[k], j + skip(k) - skip(k)>>
    BY <2>5
  <2> HIDE DEF at
  <2> QED
    BY <2>2, <2>6
<1>16. at \in [1 .. m -> Nat \X Nat]
  BY <1>13
<1>17. ASSUME NEW p \in 1 .. m PROVE lines[p][2] = 0 <=> p = 1
  <2>1. c[p] \in Nat \X Nat /\ c[p][1] \in 1 .. n /\ c[p][2] \in Nat \ {0} /\ lines[p][2] = c[p][2] - skip(c[p][1])
    BY <1>12
  <2>2. lines[p][2] = 0 <=> c[p] = <<1, 1>>
    <3>1. c[p] = <<c[p][1], c[p][2]>>
      BY <2>1
    <3>2. lines[p][2] = 0 <=> c[p][1] = 1 /\ c[p][2] = 1
      BY <2>1
    <3> QED
      BY <3>1, <3>2
  <2>3. PICK first \in 1 .. m : c[first] = <<1, 1>>
    <3>1. 1 \in 1 .. n
      BY <1>4, <2>1
    <3>2. Len(parts[1]) = filled[1][2] /\ filled[1][2] > 0 /\ filled[1][2] \in Nat
      BY <1>6, <1>7, <1>8, <3>1
    <3>3. 1 \in 1 .. Len(parts[1])
      BY <3>2
    <3> QED
      BY <1>10, <3>1, <3>3 DEF Places, m
  <2>4. ASSUME NEW q \in 1 .. m, q < first PROVE FALSE
    <3>1. Earlier(c[q], c[first])
      BY <1>10, <2>4 DEF Places, m
    <3>2. c[q][1] < 1 \/ (c[q][1] = 1 /\ c[q][2] < 1)
      BY <2>3, <3>1 DEF Earlier
    <3>3. c[q][1] \in 1 .. n /\ c[q][2] \in 1 .. Len(part(c[q][1]))
      BY <1>12
    <3> QED
      BY <3>2, <3>3
  <2>5. first = 1
    <3>1. 1 \in 1 .. m
      BY <1>11
    <3> QED
      BY <1>11, <2>4, <3>1
  <2>6. ASSUME p # 1 PROVE c[p] # <<1, 1>>
    <3>1. Earlier(c[first], c[p])
      <4>1. first < p
        BY <2>5, <2>6
      <4> QED
        BY <1>10, <4>1 DEF Places, m
    <3> QED
      BY <2>3, <3>1 DEF Earlier
  <2> QED
    BY <2>2, <2>3, <2>5, <2>6
<1> HIDE DEF at
<1>18. Unfolds(at, lines, r)
  BY <1>13, <1>14, <1>15, <1>16 DEF Unfolds, m
<1>19. \A p \in DOMAIN lines : lines[p][2] = 0 <=> p = 1
  BY <1>11, <1>17
<1> QED
  BY <1>9, <1>18, <1>19 DEF lines, paths, L

\* What can be read of a stage, with the names apart.
LEMMA ReadableSorted ==
  ASSUME NEW w, Plausible(w), NEW key \in {"aggregated", "spin"}
  PROVE  LET r == ReadablePaths(Outputs(w, key))
         IN /\ r \in Seq([index : Nat, path : Paths(w)]) /\ Sorted(r)
            /\ ToSet(r) = {f \in ToSet(Outputs(w, key)) : Readable(f.path)}
            /\ \A k \in DOMAIN r : r[k].path \in Paths(w)
<1> DEFINE V == [index : Nat, path : Paths(w)]
           files == Outputs(w, key)
           r == ReadablePaths(files)
<1>1. /\ files \in Seq(V) /\ DOMAIN files = DOMAIN w.outputs
      /\ \A k \in DOMAIN files : files[k].index \in Nat
      /\ \A k \in DOMAIN files : files[k].path = w.outputs[k][key]
  BY OutputsFacts
<1>2. \A v \in V : v.index \in Nat /\ v.path \in Paths(w)
  OBVIOUS
<1> HIDE DEF files, V
<1>3. /\ r \in Seq(V) /\ Len(r) \in Nat /\ DOMAIN r = 1 .. Len(r)
      /\ Len(r) = Cardinality({k \in DOMAIN files : Readable(files[k].path)})
      /\ \A k \in DOMAIN r : r[k] \in ToSet(files) /\ Readable(r[k].path)
      /\ \A f \in ToSet(files) : Readable(f.path) => \E k \in DOMAIN r : r[k] = f
      /\ \A j, k \in DOMAIN r : j < k => r[j].index <= r[k].index
      /\ \A j, k \in DOMAIN r : j < k => \E x, y \in DOMAIN files : x # y /\ r[j] = files[x] /\ r[k] = files[y]
  <2>1. files \in Seq(V) /\ \A k \in DOMAIN files : files[k].index \in Nat
    BY <1>1
  <2>2. r \in Seq(V) /\ AllReadable(r, files)
    BY <2>1, ReadablePathsFacts
  <2> HIDE DEF r
  <2> QED
    BY <2>2 DEF AllReadable
<1> HIDE DEF r
<1>4. ToSet(r) = {f \in ToSet(files) : Readable(f.path)}
  <2>1. ASSUME NEW f \in ToSet(r) PROVE f \in ToSet(files) /\ Readable(f.path)
    BY <1>3 DEF ToSet
  <2>2. ASSUME NEW f \in ToSet(files), Readable(f.path) PROVE f \in ToSet(r)
    <3>1. PICK k \in DOMAIN r : r[k] = f
      BY <1>3, <2>2
    <3> QED
      BY <3>1 DEF ToSet
  <2> QED
    BY <2>1, <2>2
<1>5. \A k \in DOMAIN r : r[k] \in V
  BY <1>3
<1>6. \A k \in DOMAIN r : r[k].index \in Nat /\ r[k].path \in Paths(w)
  BY <1>2, <1>5
<1>7. ASSUME NEW j \in DOMAIN r, NEW k \in DOMAIN r, j < k PROVE r[j].path[1] # r[k].path[1]
  <2>1. PICK x \in DOMAIN files, y \in DOMAIN files : x # y /\ r[j] = files[x] /\ r[k] = files[y]
    BY <1>3, <1>7
  <2>2. files[x].path = w.outputs[x][key] /\ files[y].path = w.outputs[y][key]
    BY <1>1
  <2>3. Readable(w.outputs[x][key]) /\ Readable(w.outputs[y][key])
    BY <1>3, <2>1, <2>2
  <2>4. w.outputs[x][key][1] # w.outputs[y][key][1]
    BY <1>1, <2>1, <2>3 DEF Plausible
  <2> QED
    BY <2>1, <2>2, <2>4
<1>8. \A j, k \in DOMAIN r : r[j].path[1] = r[k].path[1] => j = k
  <2> SUFFICES ASSUME NEW j \in DOMAIN r, NEW k \in DOMAIN r, r[j].path[1] = r[k].path[1] PROVE j = k
    OBVIOUS
  <2>1. j \in Nat /\ k \in Nat
    BY <1>3
  <2>2. ~(j < k) /\ ~(k < j)
    BY <1>7
  <2> QED
    BY <2>1, <2>2
<1>9. \A k \in DOMAIN r : r[k].path[2] \in Nat
  BY <1>6 DEF Plausible
<1>10. Sorted(r)
  BY <1>3, <1>6, <1>8, <1>9 DEF Sorted
<1> QED
  BY <1>3, <1>4, <1>6, <1>10 DEF r, files, V

\* The sheets of a stage.
RowsOf(part) == [k \in 1 .. Len(part) |-> SheetRows(part[k])]

\* they are the lines of the files of r
RowsRight(rows, r, P) ==
  /\ FlattenSeq(rows) \in Seq(LinesOf(P)) /\ \E at : Unfolds(at, FlattenSeq(rows), r)
  /\ \A k \in DOMAIN rows : \A i \in DOMAIN rows[k] : rows[k][i][2] = 0 <=> i = 1

\* The sheets of a stage hold all lines of its readable files, headed once a sheet.
LEMMA StageRows ==
  ASSUME NEW X, NEW r \in Seq(X), NEW P, \A k \in DOMAIN r : r[k].path \in P, \A p \in P : p[2] \in Nat,
         NEW kind, kind # "rejection", NEW merge, NEW files, r = ReadablePaths(files),
         NEW part, part = StageSheets(kind, files, merge)
  PROVE  Len(part) \in Nat /\ RowsRight(RowsOf(part), r, P)
<1> DEFINE rows == [k \in 1 .. Len(part) |-> SheetRows(part[k])]
           each == [k \in DOMAIN r |-> Lines(r[k].path)]
           L == LinesOf(P)
<1>1. FlattenSeq(each) \in Seq(L) /\ \E at : Unfolds(at, FlattenSeq(each), r)
  BY SeparateUnfolds
<1>2. \A p \in P : Lines(p) \in Seq(L) /\ \A i \in DOMAIN Lines(p) : Lines(p)[i][2] = 0 <=> i = 1
  <2> SUFFICES ASSUME NEW p \in P
               PROVE  Lines(p) \in Seq(L) /\ \A i \in DOMAIN Lines(p) : Lines(p)[i][2] = 0 <=> i = 1
    OBVIOUS
  <2>1. p[2] \in Nat /\ Lines(p) \in Seq(L) /\ Len(Lines(p)) = p[2]
    BY LinesFacts
  <2>2. DOMAIN Lines(p) = 1 .. p[2]
    BY DEF Lines
  <2>3. ASSUME NEW i \in 1 .. p[2] PROVE Lines(p)[i][2] = 0 <=> i = 1
    <3>1. Lines(p)[i][2] = i - 1
      BY <2>1, OneLine
    <3> QED
      BY <2>1, <3>1
  <2> QED
    BY <2>1, <2>2, <2>3
<1>3. Len(r) \in Nat /\ DOMAIN r = 1 .. Len(r) /\ (r = << >> <=> Len(r) = 0)
  OBVIOUS
<1>4. part = IF r = << >> THEN << >>
             ELSE IF merge THEN <<Sheet(<<kind>>, kind, [k \in DOMAIN r |-> r[k].path])>>
             ELSE [k \in DOMAIN r |-> Sheet(<<kind, "_">> \o Digits(r[k].index), kind, <<r[k].path>>)]
  BY DEF StageSheets
<1> HIDE DEF L
<1> DEFINE Goal == /\ Len(part) \in Nat
                   /\ FlattenSeq(rows) \in Seq(L) /\ \E at : Unfolds(at, FlattenSeq(rows), r)
                   /\ \A k \in DOMAIN rows : \A i \in DOMAIN rows[k] : rows[k][i][2] = 0 <=> i = 1
<1>5. ASSUME r = << >> \/ ~merge PROVE Goal
  <2>1. /\ DOMAIN part = 1 .. Len(r) /\ Len(part) = Len(r)
        /\ \A k \in DOMAIN r : SheetRows(part[k]) = Lines(r[k].path)
    <3>1. CASE r = << >>
      <4>1. part = << >>
        BY <1>4, <3>1
      <4> QED
        BY <1>3, <3>1, <4>1
    <3>2. CASE r # << >> /\ ~merge
      <4>1. part = [k \in DOMAIN r |-> Sheet(<<kind, "_">> \o Digits(r[k].index), kind, <<r[k].path>>)]
        BY <1>4, <3>2
      <4>2. DOMAIN part = 1 .. Len(r)
        BY <1>3, <4>1
      <4>3. ASSUME NEW k \in DOMAIN r PROVE SheetRows(part[k]) = Lines(r[k].path)
        <5>1. part[k].kind = kind /\ part[k].paths = <<r[k].path>>
          <6> DEFINE title == <<kind, "_">> \o Digits(r[k].index)
          <6>1. part[k] = Sheet(title, kind, <<r[k].path>>)
            BY <4>1
          <6> HIDE DEF title
          <6> QED
            BY <6>1 DEF Sheet
        <5>2. Len(part[k].paths) = 1 /\ part[k].paths[1] = r[k].path
          BY <5>1
        <5> QED
          BY <5>1, <5>2 DEF SheetRows
      <4>4. Len(part) = Len(r)
        <5> DEFINE n == Len(r)
        <5>1. n \in Nat /\ DOMAIN part = 1 .. n
          BY <1>3, <4>2
        <5>2. part = [k \in 1 .. n |-> part[k]]
          BY <1>3, <4>1
        <5> HIDE DEF n
        <5>3. Len(part) = n
          BY <5>1, <5>2
        <5> QED
          BY <5>3 DEF n
      <4> QED
        BY <4>2, <4>3, <4>4
    <3> QED
      BY <1>5, <3>1, <3>2
  <2>2. rows = each
    BY <1>3, <2>1
  <2>3. ASSUME NEW k \in DOMAIN each, NEW i \in DOMAIN each[k] PROVE each[k][i][2] = 0 <=> i = 1
    <3>1. each[k] = Lines(r[k].path) /\ r[k].path \in P
      OBVIOUS
    <3> HIDE DEF each
    <3> QED
      BY <1>2, <3>1
  <2>4. Len(part) \in Nat
    BY <1>3, <2>1
  <2>5. FlattenSeq(each) \in Seq(L) /\ \E at : Unfolds(at, FlattenSeq(each), r)
    BY <1>1 DEF L
  <2> HIDE DEF rows, each
  <2>6. /\ FlattenSeq(rows) \in Seq(L) /\ \E at : Unfolds(at, FlattenSeq(rows), r)
        /\ \A k \in DOMAIN rows : \A i \in DOMAIN rows[k] : rows[k][i][2] = 0 <=> i = 1
    BY <2>2, <2>3, <2>5
  <2> QED
    BY <2>4, <2>6 DEF rows
<1>6. ASSUME r # << >>, merge PROVE Goal
  <2> DEFINE paths == [k \in DOMAIN r |-> r[k].path]
             one == Sheet(<<kind>>, kind, paths)
             lines == SheetRows(one)
  <2>1. part = <<one>> /\ one.kind = kind /\ one.paths = paths
    BY <1>4, <1>6 DEF Sheet
  <2>2. lines = IF Len(paths) = 1 THEN Lines(paths[1]) ELSE Merged(paths)
    BY <2>1 DEF SheetRows
  <2>3. Len(paths) = Len(r)
    <3> DEFINE n == Len(r)
    <3>1. n \in Nat /\ paths = [k \in 1 .. n |-> r[k].path]
      BY <1>3
    <3> HIDE DEF n
    <3>2. Len(paths) = n
      BY <3>1
    <3> QED
      BY <3>2 DEF n
  <2>4. /\ lines \in Seq(L) /\ \E at : Unfolds(at, lines, r)
        /\ \A i \in DOMAIN lines : lines[i][2] = 0 <=> i = 1
    <3>1. CASE Len(r) = 1
      <4>1. lines = Lines(r[1].path) /\ r[1].path \in P /\ DOMAIN r = 1 .. 1
        BY <1>3, <2>2, <2>3, <3>1
      <4>2. each = <<Lines(r[1].path)>>
        BY <4>1
      <4>3. lines \in Seq(L) /\ \A i \in DOMAIN lines : lines[i][2] = 0 <=> i = 1
        BY <1>2, <4>1
      <4> HIDE DEF each, lines
      <4>4. FlattenSeq(each) = lines
        BY <4>1, <4>2, <4>3, FlattenOne
      <4> QED
        BY <1>1, <4>3, <4>4
    <3>2. CASE Len(r) # 1
      <4>1. lines = Merged(paths)
        BY <2>2, <2>3, <3>2
      <4>2. /\ Merged(paths) \in Seq(L) /\ \E at : Unfolds(at, Merged(paths), r)
            /\ \A p \in DOMAIN Merged(paths) : Merged(paths)[p][2] = 0 <=> p = 1
        BY MergedUnfolds DEF L
      <4> HIDE DEF lines, paths
      <4> QED
        BY <4>1, <4>2
    <3> QED
      BY <3>1, <3>2
  <2> HIDE DEF one
  <2>5. Len(part) = 1 /\ part[1] = one
    BY <2>1
  <2> HIDE DEF lines
  <2>6. rows = <<lines>>
    BY <2>5 DEF lines
  <2>7. FlattenSeq(<<lines>>) = lines
    BY <2>4, FlattenOne
  <2>8. \A k \in DOMAIN <<lines>> : \A i \in DOMAIN <<lines>>[k] : <<lines>>[k][i][2] = 0 <=> i = 1
    <3>1. DOMAIN <<lines>> = {1} /\ <<lines>>[1] = lines
      OBVIOUS
    <3> QED
      BY <2>4, <3>1
  <2> HIDE DEF rows
  <2>9. FlattenSeq(rows) = lines
    BY <2>6, <2>7
  <2>10. Len(part) \in Nat
    BY <2>5
  <2>11. FlattenSeq(rows) \in Seq(L) /\ \E at : Unfolds(at, FlattenSeq(rows), r)
    BY <2>4, <2>9
  <2>12. \A k \in DOMAIN rows : \A i \in DOMAIN rows[k] : rows[k][i][2] = 0 <=> i = 1
    BY <2>6, <2>8
  <2> QED
    BY <2>10, <2>11, <2>12 DEF rows
<1>7. rows = RowsOf(part)
  BY DEF RowsOf
<1> HIDE DEF rows
<1> QED
  BY <1>5, <1>6, <1>7 DEF L, RowsRight

\* A stage is in the workbook as a whole.
LEMMA StageComplete ==
  ASSUME NEW w, Plausible(w), NEW kind, NEW key \in {"aggregated", "spin"},
         kind = IF key = "spin" THEN "spin" ELSE "aggregation"
  PROVE  Complete(At(WorkbookOf(w), {i \in DOMAIN WorkbookOf(w) : WorkbookOf(w)[i].kind = kind}),
                  {f \in ToSet(Outputs(w, key)) : Readable(f.path)})
<1> DEFINE files == Outputs(w, key)
           r == ReadablePaths(files)
           part == StageSheets(kind, files, w.merge)
           P == Paths(w)
           found == At(WorkbookOf(w), {i \in DOMAIN WorkbookOf(w) : WorkbookOf(w)[i].kind = kind})
           rows == RowsOf(part)
           lines == FlattenSeq(rows)
<1>1. /\ r \in Seq([index : Nat, path : P]) /\ Sorted(r)
      /\ ToSet(r) = {f \in ToSet(files) : Readable(f.path)}
      /\ \A k \in DOMAIN r : r[k].path \in P
  BY ReadableSorted
<1>2. \A p \in P : p[2] \in Nat
  BY DEF Plausible
<1>3. kind # "rejection"
  BY SMT
<1>4. /\ Len(part) \in Nat /\ lines \in Seq(LinesOf(P)) /\ \E at : Unfolds(at, lines, r)
      /\ \A k \in DOMAIN rows : \A i \in DOMAIN rows[k] : rows[k][i][2] = 0 <=> i = 1
  <2> DEFINE V == [index : Nat, path : P]
  <2> HIDE DEF files, P, V
  <2>1. r \in Seq(V)
    BY <1>1 DEF V
  <2>2. r = ReadablePaths(files) /\ part = StageSheets(kind, files, w.merge)
    OBVIOUS
  <2>3. \A k \in DOMAIN r : r[k].path \in P
    BY <1>1
  <2>4. \A p \in P : p[2] \in Nat
    BY <1>2
  <2> HIDE DEF r, part
  <2>5. Len(part) \in Nat /\ RowsRight(RowsOf(part), r, P)
    BY <1>3, <2>1, <2>2, <2>3, <2>4, StageRows, Zenon
  <2> QED
    BY <2>5 DEF RowsRight
<1>5. Segment(SheetPlan(w), kind, part)
  <2>1. CASE key = "spin"
    BY <2>1, PlanSegments DEF SpinSheets
  <2>2. CASE key # "spin"
    BY <2>2, PlanSegments DEF AggregatedSheets
  <2> QED
    BY <2>1, <2>2
<1>6. DOMAIN found = 1 .. Len(part) /\ \A k \in 1 .. Len(part) : found[k].rows = SheetRows(part[k])
  <2> HIDE DEF part
  <2> QED
    BY <1>4, <1>5, KindOfBook
<1> HIDE DEF found, part
<1>7. [k \in DOMAIN found |-> found[k].rows] = rows
  BY <1>6 DEF RowsOf
<1>8. \A k \in DOMAIN found : \A i \in DOMAIN found[k].rows : found[k].rows[i][2] = 0 <=> i = 1
  <2> SUFFICES ASSUME NEW k \in 1 .. Len(part), NEW i \in DOMAIN found[k].rows
               PROVE  found[k].rows[i][2] = 0 <=> i = 1
    BY <1>6
  <2>1. found[k].rows = rows[k] /\ k \in DOMAIN rows
    BY <1>6 DEF RowsOf
  <2> HIDE DEF rows
  <2> QED
    BY <1>4, <2>1
<1> HIDE DEF lines, rows
<1>9. AllInOrder(DataOf(lines), ToSet(r))
  <2> DEFINE T == LinesOf(P)
             V == [index : Nat, path : P]
  <2>1. PICK at : Unfolds(at, lines, r)
    BY <1>4
  <2>2. r \in Seq(V) /\ lines \in Seq(T) /\ Sorted(r)
    BY <1>1, <1>4
  <2> HIDE DEF T, V, r
  <2> QED
    BY <2>1, <2>2, DataComplete
<1>10. Complete(found, ToSet(r))
  <2> DEFINE data == DataOf(FlattenSeq([k \in DOMAIN found |-> found[k].rows]))
  <2>1. data = DataOf(lines)
    BY <1>7 DEF lines
  <2>2. AllInOrder(data, ToSet(r))
    <3> HIDE DEF data, r
    <3> QED
      BY <1>9, <2>1
  <2> HIDE DEF r
  <2> QED
    BY <1>8, <2>2 DEF Complete, AllInOrder
<1> QED
  BY <1>1, <1>10 DEF found

-----------------------------------------------------------------------------
(* The titles of the sheets. *)

\* A truncated title is a text of the length at most.
LEMMA TruncatedFacts ==
  ASSUME NEW title \in Seq(Alphabet), NEW length \in Nat
  PROVE  /\ Truncated(title, length) \in Seq(Alphabet)
         /\ Len(Truncated(title, length)) \in Nat /\ Len(Truncated(title, length)) <= length
<1> DEFINE m == IF Len(title) < length THEN Len(title) ELSE length
           A == Alphabet
<1>1. m \in 0 .. Len(title) /\ m <= length /\ m \in Nat /\ title \in Seq(A)
  OBVIOUS
<1> HIDE DEF m, A
<1>2. SubSeq(title, 1, m) \in Seq(A) /\ Len(SubSeq(title, 1, m)) = m
  BY <1>1
<1> QED
  BY <1>1, <1>2 DEF Truncated, m, A

\* A title is new, and is not too long.
LEMMA SanitizedFacts ==
  ASSUME NEW title \in Seq(Alphabet), NEW used \in SUBSET Seq(Alphabet), IsFiniteSet(used),
         \A m, n \in 0 .. Cardinality(used) + 2 : ToString(m) = ToString(n) => m = n
  PROVE  /\ Sanitized(title, used) \in Seq(Alphabet)
         /\ Sanitized(title, used) \notin used
         /\ Len(Sanitized(title, used)) <= TitleLimit
<1> DEFINE plain == Truncated(title, TitleLimit)
           suffix(n) == <<"_">> \o Digits(n)
           candidate(n) == Truncated(title, TitleLimit - Len(suffix(n))) \o suffix(n)
           c == Cardinality(used)
           Free(n) == candidate(n) \notin used /\ \A m \in 2 .. n - 1 : candidate(m) \in used
           n0 == CHOOSE n \in 2 .. c + 2 : Free(n)
<1>1. TitleLimit \in Nat /\ TitleLimit > 3
  BY WorkbookAssumption
<1>2. plain \in Seq(Alphabet) /\ Len(plain) <= TitleLimit
  BY <1>1, TruncatedFacts
<1>3. c \in Nat
  BY FS_CardinalityType
<1>4. Sanitized(title, used) = IF plain \notin used THEN plain ELSE candidate(n0)
  BY DEF Sanitized
<1>5. ASSUME NEW n \in 2 .. c + 2
      PROVE  /\ candidate(n) \in Seq(Alphabet) /\ Len(candidate(n)) <= TitleLimit
             /\ candidate(n)[Len(candidate(n))] = ToString(n)
  <2> DEFINE s == suffix(n)
             t == Truncated(title, TitleLimit - 2)
             A == Alphabet
  <2>1. "_" \in A /\ ToString(n) \in A
    <3>1. n \in Nat
      BY <1>3
    <3> QED
      BY <3>1 DEF Alphabet
  <2>2. s = <<"_">> \o <<ToString(n)>>
    BY DEF Digits
  <2> HIDE DEF A, s
  <2>3. TitleLimit - 2 \in Nat
    BY <1>1
  <2>4. t \in Seq(A) /\ Len(t) \in Nat /\ Len(t) <= TitleLimit - 2
    BY <2>3, TruncatedFacts DEF A
  <2> HIDE DEF t
  <2>5. /\ Len(s) = 2 /\ t \o s \in Seq(A) /\ Len(t \o s) = Len(t) + 2
        /\ (t \o s)[Len(t) + 2] = ToString(n)
    <3> DEFINE x == "_"
               y == ToString(n)
    <3>1. x \in A /\ y \in A /\ s = <<x>> \o <<y>>
      BY <2>1, <2>2
    <3> HIDE DEF x, y
    <3> QED
      BY <2>4, <3>1, PairJoins DEF y
  <2>6. candidate(n) = t \o s
    BY <2>5 DEF t, s
  <2> HIDE DEF candidate
  <2> QED
    BY <1>1, <2>4, <2>5, <2>6 DEF A
<1> HIDE DEF candidate, plain
<1>6. \E n \in 2 .. c + 2 : candidate(n) \notin used
  <2> SUFFICES ASSUME \A n \in 2 .. c + 2 : candidate(n) \in used PROVE FALSE
    OBVIOUS
  <2> DEFINE N == 2 .. c + 2
             f == [n \in N |-> candidate(n)]
  <2>1. f \in [N -> used]
    OBVIOUS
  <2>2. IsFiniteSet(N) /\ Cardinality(N) = c + 1
    <3> DEFINE d == c + 2
    <3>1. 2 \in Int /\ d \in Int /\ 2 <= d /\ d - 2 + 1 = c + 1
      BY <1>3
    <3>2. N = 2 .. d
      OBVIOUS
    <3> HIDE DEF d, N
    <3>3. IsFiniteSet(2 .. d) /\ Cardinality(2 .. d) = d - 2 + 1
      <4>1. IsFiniteSet(2 .. d) /\ Cardinality(2 .. d) = IF 2 > d THEN 0 ELSE d - 2 + 1
        BY <3>1, FS_Interval
      <4> QED
        BY <3>1, <4>1
    <3> QED
      BY <3>1, <3>2, <3>3
  <2>3. c < Cardinality(N)
    BY <1>3, <2>2
  <2>4. PICK m \in N, n \in N : m # n /\ f[m] = f[n]
    <3> HIDE DEF f, N
    <3> QED
      BY <2>1, <2>2, <2>3, FS_PigeonHole
  <2>5. candidate(m) = candidate(n)
    BY <2>4
  <2>6. ToString(m) = ToString(n)
    BY <1>5, <2>5
  <2>7. m \in 0 .. c + 2 /\ n \in 0 .. c + 2
    BY <1>3
  <2> QED
    BY <2>4, <2>6, <2>7
<1>7. \E n \in 2 .. c + 2 : Free(n)
  <2> DEFINE T == {n \in 2 .. c + 2 : candidate(n) \notin used}
  <2>1. T \in SUBSET Nat /\ T # {}
    BY <1>3, <1>6
  <2>2. PICK n \in T : \A k \in T : n <= k
    <3> HIDE DEF T
    <3> QED
      BY <2>1, SmallestNumber
  <2>3. ASSUME NEW k \in 2 .. n - 1 PROVE candidate(k) \in used
    <3>1. k \in 2 .. c + 2 /\ ~(n <= k)
      BY <1>3, <2>1, <2>2
    <3> QED
      BY <2>2, <3>1
  <2> QED
    BY <2>2, <2>3
<1>8. n0 \in 2 .. c + 2 /\ candidate(n0) \notin used
  <2>1. n0 \in 2 .. c + 2 /\ Free(n0)
    <3> HIDE DEF Free
    <3> QED
      BY <1>7
  <2> QED
    BY <2>1
<1> HIDE DEF n0
<1> QED
  BY <1>2, <1>4, <1>5, <1>8

\* t is n different titles.
Entitled(t, n) ==
  /\ t \in Seq(Seq(Alphabet)) /\ Len(t) = n /\ Once(t)
  /\ \A i \in 1 .. n : Len(t[i]) <= TitleLimit

\* A sanitized title is none of those before it.
LEMMA OneMoreTitle ==
  ASSUME NEW n \in Nat, NEW t, Entitled(t, n), NEW title \in Seq(Alphabet), NEW bound \in Nat, n <= bound,
         \A i, j \in 0 .. bound + 2 : ToString(i) = ToString(j) => i = j
  PROVE  Entitled(Append(t, Sanitized(title, ToSet(t))), n + 1)
<1> DEFINE used == ToSet(t)
           new == Sanitized(title, used)
           X == Seq(Alphabet)
           u == Append(t, new)
<1>1. t \in Seq(X) /\ Len(t) = n /\ Once(t) /\ DOMAIN t = 1 .. n /\ \A i \in 1 .. n : Len(t[i]) <= TitleLimit
  BY DEF Entitled
<1> HIDE DEF X
<1>2. used \in SUBSET X
  BY <1>1 DEF ToSet
<1>3. IsFiniteSet(used) /\ Cardinality(used) = n
  BY <1>1, OnceCounted
<1>4. new \in X /\ new \notin used /\ Len(new) <= TitleLimit
  <2>1. \A i, j \in 0 .. Cardinality(used) + 2 : ToString(i) = ToString(j) => i = j
    <3>1. \A i \in 0 .. n + 2 : i \in 0 .. bound + 2
      OBVIOUS
    <3> QED
      BY <1>3, <3>1
  <2> HIDE DEF used
  <2> QED
    BY <1>2, <1>3, <2>1, SanitizedFacts DEF X
<1> HIDE DEF new
<1>5. u \in Seq(X) /\ Len(u) = n + 1 /\ u[n + 1] = new /\ \A i \in 1 .. n : u[i] = t[i]
  BY <1>1, <1>4
<1>6. \A i \in 1 .. n : t[i] \in used
  BY <1>1 DEF ToSet
<1> HIDE DEF used, u
<1>7. \A i \in 1 .. n + 1 : i = n + 1 \/ i \in 1 .. n
  OBVIOUS
<1>8. ASSUME NEW i \in 1 .. n + 1, NEW j \in 1 .. n + 1, u[i] = u[j] PROVE i = j
  <2>1. CASE i \in 1 .. n /\ j \in 1 .. n
    <3>1. t[i] = t[j]
      BY <1>5, <1>8, <2>1
    <3> QED
      BY <1>1, <2>1, <3>1 DEF Once
  <2>2. CASE i \in 1 .. n /\ j = n + 1
    BY <1>4, <1>5, <1>6, <1>8, <2>2
  <2>3. CASE i = n + 1 /\ j \in 1 .. n
    BY <1>4, <1>5, <1>6, <1>8, <2>3
  <2> QED
    BY <1>7, <2>1, <2>2, <2>3
<1>9. DOMAIN u = 1 .. n + 1
  BY <1>5
<1>10. Once(u)
  BY <1>8, <1>9 DEF Once
<1>11. \A i \in 1 .. n + 1 : Len(u[i]) <= TitleLimit
  <2> SUFFICES ASSUME NEW i \in 1 .. n + 1 PROVE Len(u[i]) <= TitleLimit
    OBVIOUS
  <2>1. CASE i \in 1 .. n
    BY <1>1, <1>5, <2>1
  <2>2. CASE i = n + 1
    BY <1>4, <1>5, <2>2
  <2> QED
    BY <1>7, <2>1, <2>2
<1>12. Entitled(u, n + 1)
  BY <1>5, <1>10, <1>11 DEF Entitled, X
<1> QED
  BY <1>12 DEF u, new, used

\* The sheets have titles of their own that a spreadsheet can take.
LEMMA TitlesFacts ==
  ASSUME NEW w, Plausible(w)
  PROVE  LET book == WorkbookOf(w)
         IN /\ \A i, j \in DOMAIN book : book[i].title = book[j].title => i = j
            /\ \A i \in DOMAIN book : Len(book[i].title) <= TitleLimit
<1> DEFINE plan == SheetPlan(w)
           n == Len(plan)
           X == Seq(Seq(Alphabet))
           more(k, t) == Append(t, Sanitized(plan[k].title, ToSet(t)))
           step == [a \in Nat \X X |-> IF a[1] \in 1 .. n /\ more(a[1], a[2]) \in X THEN more(a[1], a[2]) ELSE a[2]]
           Solves(h) == h = [k \in 0 .. n |-> IF k = 0 THEN << >> ELSE more(k, h[k - 1])]
           titles == CHOOSE h : Solves(h)
           book == WorkbookOf(w)
<1>1. n \in Nat /\ DOMAIN plan = 1 .. n /\ \A k \in 1 .. n : plan[k].title \in Seq(Alphabet)
  <2>1. n \in Nat /\ DOMAIN plan = 1 .. n /\ \A k \in DOMAIN plan : plan[k] \in Sheets(Paths(w))
    BY WorkbookFacts
  <2> QED
    BY <2>1 DEF Sheets
<1>2. book = [k \in DOMAIN plan |-> [title |-> titles[n][k], kind |-> plan[k].kind, rows |-> SheetRows(plan[k])]]
  BY DEF WorkbookOf
<1>3. \A i, j \in 0 .. n + 2 : ToString(i) = ToString(j) => i = j
  BY DEF Plausible
<1> HIDE DEF plan
<1>4. ASSUME NEW k \in 1 .. n, NEW t, Entitled(t, k - 1) PROVE Entitled(more(k, t), k)
  <2> DEFINE m == k - 1
  <2>1. m \in Nat /\ m + 1 = k /\ m <= n
    BY <1>1
  <2>2. plan[k].title \in Seq(Alphabet) /\ Entitled(t, m)
    BY <1>1, <1>4
  <2> HIDE DEF m, n
  <2>3. Entitled(Append(t, Sanitized(plan[k].title, ToSet(t))), m + 1)
    BY <1>1, <1>3, <2>1, <2>2, OneMoreTitle
  <2> QED
    BY <2>1, <2>3
<1>5. Entitled(<< >>, 0)
  BY DEF Entitled, Once
<1> HIDE DEF n, more
<1>6. \E h : Solves(h)
  <2>1. step \in [Nat \X X -> X] /\ << >> \in X
    <3> HIDE DEF X
    <3>1. ASSUME NEW a \in Nat \X X
          PROVE  (IF a[1] \in 1 .. n /\ more(a[1], a[2]) \in X THEN more(a[1], a[2]) ELSE a[2]) \in X
      OBVIOUS
    <3>2. << >> \in X
      BY DEF X
    <3> QED
      BY <3>1, <3>2
  <2>2. PICK g \in [0 .. n -> X] : g \in Runs(X, << >>, step, n)
    <3> HIDE DEF step, X
    <3> QED
      BY <1>1, <2>1, Iteration
  <2>3. g[0] = << >> /\ \A k \in 1 .. n : g[k] = step[<<k, g[k - 1]>>]
    BY <2>2 DEF Runs
  <2>4. ASSUME NEW k \in 1 .. n, Entitled(g[k - 1], k - 1) PROVE g[k] = more(k, g[k - 1]) /\ Entitled(g[k], k)
    <3>1. Entitled(more(k, g[k - 1]), k)
      BY <1>4, <2>4
    <3>2. more(k, g[k - 1]) \in X /\ k \in Nat
      BY <1>1, <3>1 DEF Entitled
    <3>3. g[k - 1] \in X
      BY <2>4 DEF Entitled
    <3> HIDE DEF X
    <3>4. <<k, g[k - 1]>> \in Nat \X X
      BY <3>2, <3>3
    <3>5. step[<<k, g[k - 1]>>] = more(k, g[k - 1])
      BY <3>2, <3>4
    <3> QED
      BY <2>3, <3>1, <3>5
  <2> DEFINE T == {k \in Nat : k \in 0 .. n => Entitled(g[k], k)}
  <2>5. 0 \in T
    BY <1>5, <2>3
  <2>6. ASSUME NEW k \in Nat, k \in T PROVE k + 1 \in T
    <3> SUFFICES ASSUME k + 1 \in 0 .. n PROVE Entitled(g[k + 1], k + 1)
      OBVIOUS
    <3> DEFINE j == k + 1
    <3>1. j \in 1 .. n /\ j - 1 = k /\ k \in 0 .. n
      BY <1>1
    <3>2. Entitled(g[k], k)
      BY <2>6, <3>1
    <3> HIDE DEF j, T
    <3>3. Entitled(g[j], j)
      BY <2>4, <3>1, <3>2
    <3> QED
      BY <3>3 DEF j
  <2>7. \A k \in Nat : k \in T
    <3> HIDE DEF T
    <3> QED
      BY <2>5, <2>6, NatInductionOnSet
  <2>8. \A k \in 1 .. n : g[k] = more(k, g[k - 1])
    <3> SUFFICES ASSUME NEW k \in 1 .. n PROVE g[k] = more(k, g[k - 1])
      OBVIOUS
    <3>1. k - 1 \in Nat /\ k - 1 \in 0 .. n
      BY <1>1
    <3>2. Entitled(g[k - 1], k - 1)
      BY <2>7, <3>1
    <3> QED
      BY <2>4, <3>2
  <2>9. Solves(g)
    <3>1. ASSUME NEW k \in 0 .. n PROVE g[k] = IF k = 0 THEN << >> ELSE more(k, g[k - 1])
      <4>1. k = 0 \/ k \in 1 .. n
        BY <1>1
      <4> QED
        BY <2>3, <2>8, <4>1
    <3>2. g = [k \in 0 .. n |-> g[k]]
      OBVIOUS
    <3> QED
      BY <3>1, <3>2
  <2> QED
    BY <2>9
<1>7. Solves(titles)
  <2> HIDE DEF Solves
  <2> QED
    BY <1>6
<1> HIDE DEF titles
<1>8. titles[0] = << >> /\ \A k \in 1 .. n : titles[k] = more(k, titles[k - 1])
  <2>1. \A k \in 0 .. n : titles[k] = IF k = 0 THEN << >> ELSE more(k, titles[k - 1])
    BY <1>7
  <2>2. 0 \in 0 .. n /\ \A k \in 1 .. n : k \in 0 .. n /\ k # 0
    BY <1>1
  <2> QED
    BY <2>1, <2>2
<1> DEFINE T == {k \in Nat : k \in 0 .. n => Entitled(titles[k], k)}
<1>9. 0 \in T
  BY <1>5, <1>8
<1>10. ASSUME NEW k \in Nat, k \in T PROVE k + 1 \in T
  <2> SUFFICES ASSUME k + 1 \in 0 .. n PROVE Entitled(titles[k + 1], k + 1)
    OBVIOUS
  <2> DEFINE j == k + 1
  <2>1. j \in 1 .. n /\ j - 1 = k /\ k \in 0 .. n
    BY <1>1
  <2>2. Entitled(titles[k], k)
    BY <1>10, <2>1
  <2> HIDE DEF j, T
  <2>3. Entitled(titles[j], j)
    BY <1>4, <1>8, <2>1, <2>2
  <2> QED
    BY <2>3 DEF j
<1>11. Entitled(titles[n], n)
  <2>1. n \in T
    <3> HIDE DEF T
    <3> QED
      BY <1>1, <1>9, <1>10, NatInductionOnSet
  <2> QED
    BY <1>1, <2>1
<1> DEFINE all == titles[n]
<1>12. DOMAIN book = 1 .. n /\ \A k \in 1 .. n : book[k].title = all[k]
  BY <1>1, <1>2
<1> HIDE DEF book, all
<1>13. DOMAIN all = 1 .. n /\ Once(all) /\ \A i \in 1 .. n : Len(all[i]) <= TitleLimit
  <2>1. /\ all \in Seq(Seq(Alphabet)) /\ Len(all) = n /\ Once(all)
        /\ \A i \in 1 .. n : Len(all[i]) <= TitleLimit
    BY <1>11 DEF Entitled, all
  <2> QED
    BY <2>1
<1>14. \A i, j \in DOMAIN book : book[i].title = book[j].title => i = j
  BY <1>12, <1>13 DEF Once
<1>15. \A i \in DOMAIN book : Len(book[i].title) <= TitleLimit
  BY <1>12, <1>13
<1> QED
  BY <1>14, <1>15 DEF book

\* A workbook has every line of the files of both stages that can be read, once
\* and in order, each sheet under its header and a title of its own:
\* build_sheet_plan, merge_csv_parts, sanitize_sheet_title, for every intake.
THEOREM WorkbooksHaveAll == RequestSpec => []WorkbookHasAll
<1>1. ASSUME Asked, Right PROVE WorkbookHasAll
  <2> SUFFICES ASSUME Answered("report"), reply.results # "exception" PROVE WorkbookHasAll
    BY DEF WorkbookHasAll
  <2> DEFINE w == subject[2]
             book == WorkbookOf(w)
  <2>1. Plausible(w)
    <3>1. w \in Reports
      BY <1>1 DEF Asked, Answered
    <3> QED
      BY <3>1, ReportsPlausible
  <2>2. reply.workbook = book
    <3>1. reply.results = IntakeResults(w).status /\ reply.workbook = IntakeResults(w).sheets
      BY <1>1 DEF Right, ReportReply
    <3> HIDE DEF w
    <3> QED
      BY <2>1, <3>1, ResultsFacts
  <2>3. ASSUME NEW key \in {"aggregated", "spin"}, NEW kind, kind = IF key = "spin" THEN "spin" ELSE "aggregation"
        PROVE  Complete(SheetsOf(kind), FilesOf(key))
    <3>1. SheetsOf(kind) = At(book, {i \in DOMAIN book : book[i].kind = kind})
      BY <2>2 DEF SheetsOf
    <3>2. FilesOf(key) = {f \in ToSet(Outputs(w, key)) : Readable(f.path)}
      BY DEF FilesOf
    <3> HIDE DEF w
    <3> QED
      BY <2>1, <2>3, <3>1, <3>2, StageComplete
  <2>4. Complete(SheetsOf("aggregation"), FilesOf("aggregated")) /\ Complete(SheetsOf("spin"), FilesOf("spin"))
    BY <2>3
  <2>5. /\ \A i, j \in DOMAIN book : book[i].title = book[j].title => i = j
        /\ \A i \in DOMAIN book : Len(book[i].title) <= TitleLimit
    <3> HIDE DEF w
    <3> QED
      BY <2>1, TitlesFacts
  <2> QED
    BY <2>2, <2>4, <2>5 DEF WorkbookHasAll
<1> QED
  BY <1>1, AnsweredRight, PTL
-----------------------------------------------------------------------------
(* Text filters: the escaped text matches itself and nothing else.         *)

\* what Before makes of one character
Piece(c, x) == IF x = c THEN <<"\\", c>> ELSE <<x>>

\* Before works through the text character by character.
LEMMA BeforeSteps ==
  ASSUME NEW V, "\\" \in V, NEW c \in V, NEW s \in Seq(V)
  PROVE  \E b \in [0 .. Len(s) -> Seq(V)] :
           /\ b[0] = << >>
           /\ \A k \in 1 .. Len(s) : b[k] = b[k - 1] \o Piece(c, s[k])
           /\ Before(c, s) = b[Len(s)]
<1> DEFINE pieces == [i \in DOMAIN s |-> IF s[i] = c THEN <<"\\", c>> ELSE <<s[i]>>]
<1>1. Len(s) \in Nat /\ DOMAIN s = 1 .. Len(s) /\ \A k \in 1 .. Len(s) : s[k] \in V
  OBVIOUS
<1>2. \A x \in V : Piece(c, x) \in Seq(V)
  <2> SUFFICES ASSUME NEW x \in V PROVE Piece(c, x) \in Seq(V)
    OBVIOUS
  <2>1. <<"\\", c>> \in Seq(V) /\ <<x>> \in Seq(V)
    BY SingletonSeq
  <2> QED
    BY <2>1 DEF Piece
<1>3. \A k \in 1 .. Len(s) : pieces[k] = Piece(c, s[k])
  BY <1>1 DEF Piece
<1>4. pieces \in Seq(Seq(V)) /\ Len(pieces) = Len(s)
  BY <1>1, <1>2, <1>3
<1>5. Before(c, s) = FlattenSeq(pieces)
  BY DEF Before
<1> HIDE DEF pieces
<1>6. PICK b \in [0 .. Len(pieces) -> Seq(V)] :
        /\ b[0] = << >>
        /\ \A k \in 1 .. Len(pieces) : b[k] = b[k - 1] \o pieces[k]
        /\ FlattenSeq(pieces) = b[Len(pieces)]
  BY <1>4, FlattenSteps
<1> QED
  BY <1>3, <1>4, <1>5, <1>6

\* Before works character by character.
Spreads(V, c, s, t) == /\ Before(c, s) \in Seq(V)
                       /\ Before(c, s \o t) = Before(c, s) \o Before(c, t)

\* what the pattern holds before the places of a text is joined as the text is
LEMMA BeforeJoins ==
  ASSUME NEW V, "\\" \in V, NEW c \in V, NEW s \in Seq(V), NEW t \in Seq(V)
  PROVE  Spreads(V, c, s, t)
<1> DEFINE m == Len(s)
           n == Len(t)
           u == s \o t
<1>1. /\ m \in Nat /\ n \in Nat /\ u \in Seq(V) /\ Len(u) = m + n
      /\ \A k \in 1 .. m : u[k] = s[k]
      /\ \A k \in 1 .. n : u[m + k] = t[k]
  OBVIOUS
<1> HIDE DEF u
<1>2. PICK b \in [0 .. Len(s) -> Seq(V)] :
        /\ b[0] = << >>
        /\ \A k \in 1 .. Len(s) : b[k] = b[k - 1] \o Piece(c, s[k])
        /\ Before(c, s) = b[Len(s)]
  BY BeforeSteps
<1>3. PICK d \in [0 .. Len(t) -> Seq(V)] :
        /\ d[0] = << >>
        /\ \A k \in 1 .. Len(t) : d[k] = d[k - 1] \o Piece(c, t[k])
        /\ Before(c, t) = d[Len(t)]
  BY BeforeSteps
<1>4. PICK e \in [0 .. Len(u) -> Seq(V)] :
        /\ e[0] = << >>
        /\ \A k \in 1 .. Len(u) : e[k] = e[k - 1] \o Piece(c, u[k])
        /\ Before(c, u) = e[Len(u)]
  <2>1. u \in Seq(V)
    BY <1>1
  <2> QED
    BY <2>1, BeforeSteps
<1>5. \A x \in V : Piece(c, x) \in Seq(V)
  <2> SUFFICES ASSUME NEW x \in V PROVE Piece(c, x) \in Seq(V)
    OBVIOUS
  <2>1. <<"\\", c>> \in Seq(V) /\ <<x>> \in Seq(V)
    BY SingletonSeq
  <2> QED
    BY <2>1 DEF Piece
<1>6. \A k \in 0 .. m : e[k] = b[k]
  <2> DEFINE T == {k \in Nat : k \in 0 .. m => e[k] = b[k]}
  <2>1. 0 \in T
    BY <1>2, <1>4
  <2>2. ASSUME NEW k \in Nat, k \in T PROVE k + 1 \in T
    <3> DEFINE j == k + 1
    <3>1. j \in Nat /\ j - 1 = k
      OBVIOUS
    <3> HIDE DEF j
    <3>2. ASSUME j \in 0 .. m PROVE e[j] = b[j]
      <4>1. k \in 0 .. m /\ j \in 1 .. m /\ j \in 1 .. Len(u)
        BY <1>1, <3>1, <3>2
      <4>2. e[k] = b[k]
        BY <2>2, <4>1
      <4>3. e[j] = e[j - 1] \o Piece(c, u[j]) /\ b[j] = b[j - 1] \o Piece(c, s[j])
        BY <1>2, <1>4, <4>1
      <4> QED
        BY <1>1, <3>1, <4>1, <4>2, <4>3
    <3>3. j \in T
      BY <3>1, <3>2
    <3> QED
      BY <3>3 DEF j
  <2> HIDE DEF T
  <2>3. \A k \in Nat : k \in T
    BY <2>1, <2>2, NatInductionOnSet
  <2> QED
    BY <2>3 DEF T
<1>7. \A k \in 0 .. n : e[m + k] = b[m] \o d[k]
  <2> DEFINE T == {k \in Nat : k \in 0 .. n => e[m + k] = b[m] \o d[k]}
  <2>1. 0 \in T
    <3>1. e[m + 0] = b[m] /\ b[m] \in Seq(V)
      BY <1>1, <1>2, <1>6
    <3>2. b[m] \o << >> = b[m]
      BY <3>1
    <3> QED
      BY <1>3, <3>1, <3>2
  <2>2. ASSUME NEW k \in Nat, k \in T PROVE k + 1 \in T
    <3> DEFINE j == k + 1
    <3>1. j \in Nat /\ j - 1 = k
      OBVIOUS
    <3> HIDE DEF j
    <3>2. ASSUME j \in 0 .. n PROVE e[m + j] = b[m] \o d[j]
      <4>1. k \in 0 .. n /\ j \in 1 .. n /\ m + j \in 1 .. Len(u) /\ (m + j) - 1 = m + k
        BY <1>1, <3>1, <3>2
      <4>2. e[m + k] = b[m] \o d[k]
        BY <2>2, <4>1
      <4>3. e[m + j] = e[(m + j) - 1] \o Piece(c, u[m + j]) /\ d[j] = d[j - 1] \o Piece(c, t[j])
        BY <1>3, <1>4, <4>1
      <4>4. u[m + j] = t[j] /\ t[j] \in V
        BY <1>1, <4>1
      <4>5. b[m] \in Seq(V) /\ d[k] \in Seq(V)
        <5>1. m \in 0 .. Len(s) /\ k \in 0 .. Len(t)
          BY <1>1, <4>1
        <5> QED
          BY <1>2, <1>3, <5>1
      <4>6. Piece(c, t[j]) \in Seq(V)
        BY <1>5, <4>4
      <4>7. (b[m] \o d[k]) \o Piece(c, t[j]) = b[m] \o (d[k] \o Piece(c, t[j]))
        <5> DEFINE x == b[m]
                   y == d[k]
                   z == Piece(c, t[j])
        <5>1. x \in Seq(V) /\ y \in Seq(V) /\ z \in Seq(V)
          BY <4>5, <4>6
        <5> HIDE DEF x, y, z
        <5>2. (x \o y) \o z = x \o (y \o z)
          BY <5>1, SMTT(30)
        <5> QED
          BY <5>2 DEF x, y, z
      <4> QED
        BY <3>1, <4>1, <4>2, <4>3, <4>4, <4>7
    <3>3. j \in T
      BY <3>1, <3>2
    <3> QED
      BY <3>3 DEF j
  <2> HIDE DEF T
  <2>3. \A k \in Nat : k \in T
    BY <2>1, <2>2, NatInductionOnSet
  <2>4. ASSUME NEW k \in 0 .. n PROVE e[m + k] = b[m] \o d[k]
    <3>1. k \in Nat
      BY <1>1
    <3>2. k \in T
      BY <2>3, <3>1
    <3> QED
      BY <3>2 DEF T
  <2> QED
    BY <2>4
<1>8. Before(c, s) \in Seq(V)
  <2>1. Len(s) \in 0 .. Len(s)
    BY <1>1
  <2> QED
    BY <1>2, <2>1
<1>9. n \in 0 .. n /\ m + n = Len(u)
  BY <1>1
<1>10. Before(c, u) = Before(c, s) \o Before(c, t)
  BY <1>2, <1>3, <1>4, <1>7, <1>9
<1> QED
  BY <1>8, <1>10 DEF u, Spreads

\* what the filter makes of one character
Special == {"\\", "%", "_"}
Escape(x) == IF x \in Special THEN <<"\\", x>> ELSE <<x>>

\* Before of one character.
LEMMA BeforeOne ==
  ASSUME NEW V, "\\" \in V, NEW c \in V, NEW x \in V
  PROVE  Before(c, <<x>>) = Piece(c, x)
<1>1. Piece(c, x) \in Seq(V)
  <2>1. <<"\\", c>> \in Seq(V) /\ <<x>> \in Seq(V)
    BY SingletonSeq
  <2> QED
    BY <2>1 DEF Piece
<1>2. [i \in DOMAIN <<x>> |-> IF <<x>>[i] = c THEN <<"\\", c>> ELSE <<(<<x>>)[i]>>] = <<Piece(c, x)>>
  BY DEF Piece
<1>3. FlattenSeq(<<Piece(c, x)>>) = Piece(c, x)
  BY <1>1, FlattenOne
<1> QED
  BY <1>2, <1>3 DEF Before

\* Two characters are a text.
LEMMA PairSeq ==
  ASSUME NEW V, NEW x \in V, NEW y \in V
  PROVE  <<x, y>> \in Seq(V) /\ <<x>> \o <<y>> = <<x, y>>
<1>1. <<x>> \in Seq(V) /\ <<y>> \in Seq(V)
  BY SingletonSeq
<1>2. <<x, y>> \in Seq(V)
  OBVIOUS
<1>3. <<x>> \o <<y>> = <<x, y>>
  <2> DEFINE a == <<x>>
             b == <<y>>
             u == <<x, y>>
  <2>1. a \in Seq(V) /\ b \in Seq(V) /\ Len(a) = 1 /\ Len(b) = 1 /\ a[1] = x /\ b[1] = y
    BY <1>1
  <2>2. u \in Seq(V) /\ Len(u) = 2 /\ u[1] = x /\ u[2] = y
    BY <1>2
  <2> HIDE DEF a, b, u
  <2>3. a \o b \in Seq(V) /\ FollowedBy(a, b, a \o b)
    BY <2>1, FollowedByFacts
  <2>4. Len(a \o b) = 2 /\ (a \o b)[1] = x /\ (a \o b)[2] = y
    <3>1. 1 \in 1 .. Len(a) /\ 1 \in 1 .. Len(b) /\ Len(a) + 1 = 2
      BY <2>1
    <3> QED
      BY <2>1, <2>3, <3>1 DEF FollowedBy
  <2>5. a \o b = u
    BY <2>2, <2>3, <2>4, SeqEqual
  <2> QED
    BY <2>5 DEF a, b, u
<1> QED
  BY <1>2, <1>3

\* What is escaped joined is joined escaped.
LEMMA EscapedJoins ==
  ASSUME NEW V, Special \subseteq V, NEW s \in Seq(V), NEW t \in Seq(V)
  PROVE  /\ Escaped(s) \in Seq(V)
         /\ Escaped(s \o t) = Escaped(s) \o Escaped(t)
<1>1. "\\" \in V /\ "%" \in V /\ "_" \in V
  BY DEF Special
<1>2. ASSUME NEW u \in Seq(V), NEW w \in Seq(V), NEW c \in V
      PROVE  Before(c, u) \in Seq(V) /\ Before(c, u \o w) = Before(c, u) \o Before(c, w)
  <2>1. Spreads(V, c, u, w)
    BY <1>1, BeforeJoins
  <2> QED
    BY <2>1 DEF Spreads
<1> DEFINE s1 == Before("\\", s)
           t1 == Before("\\", t)
           s2 == Before("%", s1)
           t2 == Before("%", t1)
<1>3. s1 \in Seq(V) /\ t1 \in Seq(V) /\ Before("\\", s \o t) = s1 \o t1
  BY <1>1, <1>2
<1> HIDE DEF s1, t1
<1>4. s2 \in Seq(V) /\ t2 \in Seq(V) /\ Before("%", s1 \o t1) = s2 \o t2
  BY <1>1, <1>2, <1>3
<1> HIDE DEF s2, t2
<1>5. Before("_", s2) \in Seq(V) /\ Before("_", s2 \o t2) = Before("_", s2) \o Before("_", t2)
  BY <1>1, <1>2, <1>4
<1> QED
  BY <1>3, <1>4, <1>5 DEF Escaped, s1, t1, s2, t2

\* One character is escaped on its own.
LEMMA EscapedOne ==
  ASSUME NEW V, Special \subseteq V, NEW x \in V
  PROVE  Escaped(<<x>>) = Escape(x) /\ Escape(x) \in Seq(V)
<1>1. "\\" \in V /\ "%" \in V /\ "_" \in V
  BY DEF Special
<1>2. \A c, y \in V : Before(c, <<y>>) = Piece(c, y)
  BY <1>1, BeforeOne
<1>3. \A c, y, z \in V : Before(c, <<y, z>>) = Piece(c, y) \o Piece(c, z)
  <2> SUFFICES ASSUME NEW c \in V, NEW y \in V, NEW z \in V
               PROVE  Before(c, <<y, z>>) = Piece(c, y) \o Piece(c, z)
    OBVIOUS
  <2>1. <<y>> \in Seq(V) /\ <<z>> \in Seq(V) /\ <<y>> \o <<z>> = <<y, z>>
    BY SingletonSeq, PairSeq
  <2>2. Spreads(V, c, <<y>>, <<z>>)
    BY <1>1, <2>1, BeforeJoins
  <2>3. Before(c, <<y>> \o <<z>>) = Before(c, <<y>>) \o Before(c, <<z>>)
    BY <2>2 DEF Spreads
  <2> QED
    BY <1>2, <2>1, <2>3
<1>4. CASE x = "\\"
  <2>1. Before("\\", <<x>>) = <<"\\", x>>
    BY <1>1, <1>2, <1>4 DEF Piece
  <2>2. Before("%", <<"\\", x>>) = Piece("%", "\\") \o Piece("%", x)
    BY <1>1, <1>3
  <2>3. Before("_", <<"\\", x>>) = Piece("_", "\\") \o Piece("_", x)
    BY <1>1, <1>3
  <2>4. <<"\\">> \o <<x>> = <<"\\", x>> /\ <<"\\", x>> \in Seq(V)
    BY <1>1, PairSeq
  <2>5. Piece("%", "\\") = <<"\\">> /\ Piece("%", x) = <<x>> /\ Piece("_", "\\") = <<"\\">> /\ Piece("_", x) = <<x>>
    BY <1>4 DEF Piece
  <2> QED
    BY <1>4, <2>5, <2>1, <2>2, <2>3, <2>4 DEF Escaped, Escape, Special
<1>5. CASE x = "%"
  <2>1. Before("\\", <<x>>) = <<x>>
    BY <1>1, <1>2, <1>5 DEF Piece
  <2>2. Before("%", <<x>>) = <<"\\", x>>
    BY <1>1, <1>2, <1>5 DEF Piece
  <2>3. Before("_", <<"\\", x>>) = Piece("_", "\\") \o Piece("_", x)
    BY <1>1, <1>3
  <2>4. <<"\\">> \o <<x>> = <<"\\", x>> /\ <<"\\", x>> \in Seq(V)
    BY <1>1, PairSeq
  <2>5. Piece("_", "\\") = <<"\\">> /\ Piece("_", x) = <<x>>
    BY <1>5 DEF Piece
  <2> QED
    BY <1>5, <2>5, <2>1, <2>2, <2>3, <2>4 DEF Escaped, Escape, Special
<1>6. CASE x = "_"
  <2>1. Before("\\", <<x>>) = <<x>> /\ Before("%", <<x>>) = <<x>>
    BY <1>1, <1>2, <1>6 DEF Piece
  <2>2. Before("_", <<x>>) = <<"\\", x>>
    BY <1>1, <1>2, <1>6 DEF Piece
  <2>3. <<"\\", x>> \in Seq(V)
    BY <1>1, PairSeq
  <2> QED
    BY <1>6, <2>1, <2>2, <2>3 DEF Escaped, Escape, Special
<1>7. CASE x \notin Special
  <2>1. x # "\\" /\ x # "%" /\ x # "_"
    BY <1>7 DEF Special
  <2>2. Before("\\", <<x>>) = <<x>> /\ Before("%", <<x>>) = <<x>> /\ Before("_", <<x>>) = <<x>>
    BY <1>1, <1>2, <2>1 DEF Piece
  <2>3. <<x>> \in Seq(V)
    BY SingletonSeq
  <2> QED
    BY <1>7, <2>2, <2>3 DEF Escaped, Escape
<1> QED
  BY <1>4, <1>5, <1>6, <1>7 DEF Special

\* the places from which value matches the pattern from p on, given the later ones
RestAt(rest, value, pattern, p) ==
  LET n == Len(pattern)
      after(c, next) == {v \in 1 .. Len(value) : value[v] = c /\ v + 1 \in rest[next]}
  IN CASE p = n + 1 -> {Len(value) + 1}
       [] p <= n /\ pattern[p] = "%" -> {v \in 1 .. Len(value) + 1 : \E w \in rest[p + 1] : v <= w}
       [] p <= n /\ pattern[p] = "_" -> {v \in 1 .. Len(value) : v + 1 \in rest[p + 1]}
       [] p < n /\ pattern[p] = "\\" -> after(pattern[p + 1], p + 2)
       [] OTHER -> after(pattern[p], p + 1)

\* A value matches when the whole pattern can be followed from its first character.
LEMMA MatchFollows ==
  ASSUME NEW pattern, Len(pattern) \in Nat, NEW value, Len(value) \in Nat
  PROVE  \E rest : /\ \A p \in 1 .. Len(pattern) + 1 : rest[p] = RestAt(rest, value, pattern, p)
                   /\ Matches(value, pattern) <=> 1 \in rest[1]
<1> DEFINE n == Len(pattern)
           X == SUBSET (1 .. Len(value) + 1)
           after(c, a) == {v \in 1 .. Len(value) : value[v] = c /\ v + 1 \in a}
           here(p, a, b) == CASE p = n + 1 -> {Len(value) + 1}
                              [] p <= n /\ pattern[p] = "%" -> {v \in 1 .. Len(value) + 1 : \E w \in a : v <= w}
                              [] p <= n /\ pattern[p] = "_" -> {v \in 1 .. Len(value) : v + 1 \in a}
                              [] p < n /\ pattern[p] = "\\" -> after(pattern[p + 1], b)
                              [] OTHER -> after(pattern[p], a)
           step == [t \in Nat \X (X \X X) |-> <<here(n + 1 - t[1], t[2][1], t[2][2]), t[2][1]>>]
           base == <<{Len(value) + 1}, {}>>
<1>1. \A p, a, b : here(p, a, b) \in X
  <2> SUFFICES ASSUME NEW p, NEW a, NEW b PROVE here(p, a, b) \in X
    OBVIOUS
  <2>1. /\ {Len(value) + 1} \in X
        /\ {v \in 1 .. Len(value) + 1 : \E w \in a : v <= w} \in X
        /\ {v \in 1 .. Len(value) : v + 1 \in a} \in X
        /\ after(pattern[p + 1], b) \in X /\ after(pattern[p], a) \in X
    OBVIOUS
  <2> QED
    BY <2>1
<1> HIDE DEF here
<1>2. step \in [Nat \X (X \X X) -> X \X X] /\ base \in X \X X
  <2>1. ASSUME NEW t \in Nat \X (X \X X)
        PROVE  <<here(n + 1 - t[1], t[2][1], t[2][2]), t[2][1]>> \in X \X X
    <3>1. t[2][1] \in X
      OBVIOUS
    <3> HIDE DEF X
    <3> QED
      BY <1>1, <3>1
  <2>2. base \in X \X X
    OBVIOUS
  <2> QED
    BY <2>1, <2>2
<1>3. PICK g \in [0 .. n -> X \X X] : g[0] = base /\ \A k \in 1 .. n : g[k] = step[<<k, g[k - 1]>>]
  <2>1. PICK g \in [0 .. n -> X \X X] : g \in Runs(X \X X, base, step, n)
    <3> HIDE DEF step, base, X
    <3> QED
      BY <1>2, Iteration
  <2> QED
    BY <2>1 DEF Runs
<1>4. \A k \in 1 .. n : g[k] = <<here(n + 1 - k, g[k - 1][1], g[k - 1][2]), g[k - 1][1]>>
  <2> SUFFICES ASSUME NEW k \in 1 .. n
               PROVE  g[k] = <<here(n + 1 - k, g[k - 1][1], g[k - 1][2]), g[k - 1][1]>>
    OBVIOUS
  <2>1. k \in Nat /\ k - 1 \in 0 .. n
    OBVIOUS
  <2> HIDE DEF X
  <2>2. <<k, g[k - 1]>> \in Nat \X (X \X X)
    BY <1>3, <2>1
  <2> QED
    BY <1>3, <2>2
<1> DEFINE first == [p \in 1 .. n + 1 |-> g[n + 1 - p][1]]
<1>5. first[n + 1] = {Len(value) + 1}
  BY <1>3
<1>6. ASSUME NEW p \in 1 .. n PROVE first[p] = here(p, first[p + 1], IF p < n THEN first[p + 2] ELSE {})
  <2> DEFINE k == n + 1 - p
  <2>1. k \in 1 .. n /\ k - 1 = n + 1 - (p + 1) /\ p + 1 \in 1 .. n + 1 /\ n + 1 - k = p /\ p \in 1 .. n + 1
    OBVIOUS
  <2>2. first[p] = g[k][1] /\ first[p + 1] = g[k - 1][1]
    BY <2>1
  <2>3. g[k][1] = here(n + 1 - k, g[k - 1][1], g[k - 1][2])
    <3> HIDE DEF k
    <3> QED
      BY <1>4, <2>1
  <2>4. g[k - 1][2] = IF p < n THEN first[p + 2] ELSE {}
    <3>1. CASE p = n
      <4>1. k - 1 = 0 /\ ~(p < n)
        BY <3>1
      <4>2. g[0] = <<{Len(value) + 1}, {}>>
        BY <1>3
      <4> HIDE DEF k, first
      <4> QED
        BY <4>1, <4>2
    <3>2. CASE p < n
      <4> DEFINE j == n - p
      <4>1. j \in 1 .. n /\ j = k - 1 /\ j - 1 = n + 1 - (p + 2) /\ p + 2 \in 1 .. n + 1
        BY <3>2
      <4>2. first[p + 2] = g[j - 1][1]
        BY <4>1
      <4> HIDE DEF j, first, k
      <4>3. g[j][2] = g[j - 1][1]
        BY <1>4, <4>1
      <4> QED
        BY <3>2, <4>1, <4>2, <4>3
    <3> QED
      BY <3>1, <3>2
  <2> HIDE DEF k, first
  <2> QED
    BY <2>1, <2>2, <2>3, <2>4
<1>7. \A p \in 1 .. n + 1 : first[p] = RestAt(first, value, pattern, p)
  <2> HIDE DEF first
  <2>1. CASE n + 1 \in Nat
    <3> SUFFICES ASSUME NEW p \in 1 .. n + 1 PROVE first[p] = RestAt(first, value, pattern, p)
      OBVIOUS
    <3>1. CASE p = n + 1
      <4>0. p = Len(pattern) + 1 /\ ~(p <= Len(pattern)) /\ ~(p < Len(pattern))
        BY <3>1
      <4>1. RestAt(first, value, pattern, p) = {Len(value) + 1}
        BY <4>0, Zenon DEF RestAt
      <4> QED
        BY <1>5, <3>1, <4>1
    <3>2. CASE p # n + 1
      <4>1. p \in 1 .. n
        BY <3>2
      <4>2. CASE p < n
        <5>1. first[p] = here(p, first[p + 1], first[p + 2])
          BY <1>6, <4>1, <4>2
        <5> QED
          BY <3>2, <4>1, <4>2, <5>1 DEF RestAt, here
      <4>3. CASE p = n
        <5>1. first[p] = here(p, first[p + 1], {})
          BY <1>6, <4>1, <4>3
        <5>2. ~(p < n) /\ p <= n /\ p # n + 1
          BY <4>1, <4>3
        <5>3. here(p, first[p + 1], {}) = RestAt(first, value, pattern, p)
          BY <5>2 DEF RestAt, here
        <5> QED
          BY <5>1, <5>3
      <4> QED
        BY <4>1, <4>2, <4>3
    <3> QED
      BY <3>1, <3>2
  <2> QED
    BY <2>1
<1> DEFINE Solves(h) == h = [p \in 1 .. n + 1 |-> RestAt(h, value, pattern, p)]
           rest == CHOOSE h : Solves(h)
<1>8. Solves(first)
  <2> DEFINE other == [p \in 1 .. n + 1 |-> RestAt(first, value, pattern, p)]
  <2>1. \A p \in 1 .. n + 1 : first[p] = other[p]
    BY <1>7
  <2>2. DOMAIN first = 1 .. n + 1 /\ DOMAIN other = 1 .. n + 1
    OBVIOUS
  <2>3. first = [p \in 1 .. n + 1 |-> first[p]] /\ other = [p \in 1 .. n + 1 |-> other[p]]
    OBVIOUS
  <2> HIDE DEF first, other
  <2>4. first = other
    BY <2>1, <2>3
  <2> QED
    BY <2>4 DEF other
<1>9. Solves(rest)
  <2> HIDE DEF Solves, first
  <2> QED
    BY <1>8
<1>10. \A p \in 1 .. n + 1 : rest[p] = RestAt(rest, value, pattern, p)
  <2> HIDE DEF rest
  <2> QED
    BY <1>9
<1>11. Matches(value, pattern) <=> 1 \in rest[1]
  BY DEF Matches, RestAt
<1> QED
  BY <1>10, <1>11

\* The character k of a text in its escaped form.
EscapedAt(text, k) ==
  LET before == Len(Escaped(SubSeq(text, 1, k - 1)))
      piece == Escape(text[k])
  IN /\ before \in Nat /\ Len(Escaped(SubSeq(text, 1, k))) = before + Len(piece)
     /\ before + Len(piece) <= Len(Escaped(text))
     /\ \A i \in 1 .. Len(piece) : Escaped(text)[before + i] = piece[i]

\* Where a character of the text stands in the escaped text.
LEMMA EscapedPlaces ==
  ASSUME NEW V, Special \subseteq V, NEW text \in Seq(V), NEW k \in 1 .. Len(text)
  PROVE  EscapedAt(text, k)
<1> DEFINE m == Len(text)
           a == SubSeq(text, 1, k - 1)
           b == SubSeq(text, 1, k)
           c == SubSeq(text, k + 1, m)
           x == text[k]
<1>1. /\ m \in Nat /\ x \in V /\ a \in Seq(V) /\ b \in Seq(V) /\ c \in Seq(V) /\ <<x>> \in Seq(V)
      /\ Len(a) = k - 1 /\ Len(b) = k /\ Len(c) = m - k
      /\ \A i \in 1 .. k - 1 : a[i] = text[i]
      /\ \A i \in 1 .. k : b[i] = text[i]
      /\ \A i \in 1 .. m - k : c[i] = text[k + i]
  BY SingletonSeq
<1>2. a \o <<x>> = b
  <2> DEFINE d == <<x>>
  <2>1. d \in Seq(V) /\ Len(d) = 1 /\ d[1] = x
    BY <1>1
  <2> HIDE DEF a, b, c, d, x
  <2>2. a \o d \in Seq(V) /\ FollowedBy(a, d, a \o d)
    BY <1>1, <2>1, FollowedByFacts
  <2>3. Len(a \o d) = k /\ Len(b) = k
    BY <1>1, <2>1, <2>2 DEF FollowedBy
  <2>4. \A i \in 1 .. k : (a \o d)[i] = b[i]
    <3> SUFFICES ASSUME NEW i \in 1 .. k PROVE (a \o d)[i] = b[i]
      OBVIOUS
    <3>1. CASE i = k
      <4>1. 1 \in 1 .. Len(d) /\ Len(a) + 1 = k
        BY <1>1, <2>1
      <4>2. (a \o d)[k] = d[1]
        BY <2>2, <4>1 DEF FollowedBy
      <4> QED
        BY <1>1, <2>1, <3>1, <4>2 DEF x
    <3>2. CASE i # k
      <4>1. i \in 1 .. Len(a) /\ i \in 1 .. k - 1
        BY <1>1, <3>2
      <4> QED
        BY <1>1, <2>2, <4>1 DEF FollowedBy
    <3> QED
      BY <3>1, <3>2
  <2>5. a \o d = b
    BY <1>1, <2>2, <2>3, <2>4, SeqEqual
  <2> QED
    BY <2>5 DEF d
<1>3. b \o c = text
  <2> HIDE DEF a, b, c, x
  <2>1. b \o c \in Seq(V) /\ FollowedBy(b, c, b \o c)
    BY <1>1, FollowedByFacts
  <2>2. Len(b \o c) = Len(text)
    BY <1>1, <2>1 DEF FollowedBy
  <2>3. \A i \in 1 .. Len(text) : (b \o c)[i] = text[i]
    <3> SUFFICES ASSUME NEW i \in 1 .. Len(text) PROVE (b \o c)[i] = text[i]
      OBVIOUS
    <3>1. CASE i <= k
      <4>1. i \in 1 .. Len(b) /\ i \in 1 .. k
        BY <1>1, <3>1
      <4> QED
        BY <1>1, <2>1, <4>1 DEF FollowedBy
    <3>2. CASE i > k
      <4> DEFINE j == i - k
      <4>1. j \in 1 .. Len(c) /\ j \in 1 .. m - k /\ Len(b) + j = i /\ k + j = i
        BY <1>1, <3>2
      <4> HIDE DEF j
      <4>2. (b \o c)[Len(b) + j] = c[j] /\ c[j] = text[k + j]
        BY <1>1, <2>1, <4>1 DEF FollowedBy
      <4> QED
        BY <4>1, <4>2
    <3> QED
      BY <1>1, <3>1, <3>2
  <2> QED
    BY <1>1, <2>1, <2>2, <2>3, SeqEqual
<1> DEFINE A == Escaped(a)
           B == Escape(x)
           C == Escaped(c)
<1>4. A \in Seq(V) /\ B \in Seq(V) /\ C \in Seq(V)
  <2> HIDE DEF a, b, c, x
  <2> QED
    BY <1>1, EscapedJoins, EscapedOne
<1>5. Escaped(b) = A \o B
  <2> HIDE DEF a, b, c, x
  <2>1. Escaped(a \o <<x>>) = Escaped(a) \o Escaped(<<x>>)
    BY <1>1, EscapedJoins
  <2> QED
    BY <1>1, <1>2, <2>1, EscapedOne
<1>6. Escaped(text) = (A \o B) \o C
  <2> HIDE DEF a, b, c, x
  <2>1. Escaped(b \o c) = Escaped(b) \o Escaped(c)
    BY <1>1, EscapedJoins
  <2> QED
    BY <1>3, <1>5, <2>1
<1>7. /\ Len(A) \in Nat /\ Len(Escaped(b)) = Len(A) + Len(B) /\ Len(A) + Len(B) <= Len(Escaped(text))
      /\ \A i \in 1 .. Len(B) : Escaped(text)[Len(A) + i] = B[i]
  <2> HIDE DEF A, B, C, a, b, c, x
  <2>1. A \o B \in Seq(V) /\ FollowedBy(A, B, A \o B)
    BY <1>4, FollowedByFacts
  <2> DEFINE D == A \o B
  <2>2. D \in Seq(V) /\ FollowedBy(A, B, D) /\ Escaped(b) = D /\ Escaped(text) = D \o C
    BY <1>5, <1>6, <2>1
  <2> HIDE DEF D
  <2>3. FollowedBy(D, C, D \o C)
    BY <1>4, <2>2, FollowedByFacts
  <2>4. \A i \in 1 .. Len(B) : Len(A) + i \in 1 .. Len(D)
    BY <2>2 DEF FollowedBy
  <2> QED
    BY <2>2, <2>3, <2>4 DEF FollowedBy
<1> QED
  BY <1>7 DEF EscapedAt

\* the places of value where the text after its first k characters begins
Begins(text, value, k) ==
  {v \in 1 .. Len(value) + 1 : /\ v + (Len(text) - k) <= Len(value) + 1
                               /\ \A i \in 1 .. Len(text) - k : value[v + i - 1] = text[k + i]}

\* The text from k on begins where its character k stands and the rest follows.
LEMMA BeginsOneBefore ==
  ASSUME NEW text, Len(text) \in Nat, NEW value, Len(value) \in Nat, NEW k \in 1 .. Len(text)
  PROVE  Begins(text, value, k - 1)
           = {v \in 1 .. Len(value) : value[v] = text[k] /\ v + 1 \in Begins(text, value, k)}
<1> DEFINE m == Len(text)
           l == Len(value)
           R == {v \in 1 .. l : value[v] = text[k] /\ v + 1 \in Begins(text, value, k)}
<1>1. ASSUME NEW v \in Begins(text, value, k - 1) PROVE v \in R
  <2>1. /\ v \in 1 .. l + 1 /\ v + (m - (k - 1)) <= l + 1
        /\ \A i \in 1 .. m - (k - 1) : value[v + i - 1] = text[(k - 1) + i]
    BY DEF Begins
  <2>2. v \in 1 .. l /\ v + 1 \in 1 .. l + 1 /\ (v + 1) + (m - k) <= l + 1
    BY <2>1
  <2>3. value[v] = text[k]
    <3>1. 1 \in 1 .. m - (k - 1) /\ v + 1 - 1 = v /\ (k - 1) + 1 = k
      BY <2>1
    <3> QED
      BY <2>1, <3>1
  <2>4. ASSUME NEW i \in 1 .. m - k PROVE value[(v + 1) + i - 1] = text[k + i]
    <3> DEFINE j == i + 1
    <3>1. j \in 1 .. m - (k - 1) /\ v + j - 1 = (v + 1) + i - 1 /\ (k - 1) + j = k + i
      BY <2>1
    <3> HIDE DEF j
    <3>2. value[v + j - 1] = text[(k - 1) + j]
      BY <2>1, <3>1
    <3> QED
      BY <3>1, <3>2
  <2>5. v + 1 \in Begins(text, value, k)
    BY <2>2, <2>4 DEF Begins
  <2> QED
    BY <2>2, <2>3, <2>5
<1>2. ASSUME NEW v \in R PROVE v \in Begins(text, value, k - 1)
  <2>1. /\ v \in 1 .. l /\ value[v] = text[k] /\ (v + 1) + (m - k) <= l + 1
        /\ \A i \in 1 .. m - k : value[(v + 1) + i - 1] = text[k + i]
    BY DEF Begins
  <2>2. v \in 1 .. l + 1 /\ v + (m - (k - 1)) <= l + 1
    BY <2>1
  <2>3. ASSUME NEW i \in 1 .. m - (k - 1) PROVE value[v + i - 1] = text[(k - 1) + i]
    <3>1. CASE i = 1
      <4>1. v + i - 1 = v /\ (k - 1) + i = k
        BY <2>1, <3>1
      <4> QED
        BY <2>1, <4>1
    <3>2. CASE i # 1
      <4> DEFINE j == i - 1
      <4>1. j \in 1 .. m - k /\ v + i - 1 = (v + 1) + j - 1 /\ (k - 1) + i = k + j
        BY <2>1, <3>2
      <4> HIDE DEF j
      <4>2. value[(v + 1) + j - 1] = text[k + j]
        BY <2>1, <4>1
      <4> QED
        BY <4>1, <4>2
    <3> QED
      BY <3>1, <3>2
  <2> QED
    BY <2>2, <2>3 DEF Begins
<1> QED
  BY <1>1, <1>2

\* No text escaped is no text.
LEMMA EscapedNothing ==
  ASSUME NEW V, Special \subseteq V
  PROVE  Escaped(<< >>) = << >>
<1>1. "\\" \in V /\ "%" \in V /\ "_" \in V
  BY DEF Special
<1>2. ASSUME NEW c \in V PROVE Before(c, << >>) = << >>
  <2>1. << >> \in Seq(V) /\ Len(<< >>) = 0
    OBVIOUS
  <2> DEFINE s == << >>
  <2>2. s \in Seq(V) /\ Len(s) = 0
    BY <2>1
  <2> HIDE DEF s
  <2>3. PICK b \in [0 .. Len(s) -> Seq(V)] :
          /\ b[0] = << >>
          /\ \A k \in 1 .. Len(s) : b[k] = b[k - 1] \o Piece(c, s[k])
          /\ Before(c, s) = b[Len(s)]
    <3>1. "\\" \in V /\ s \in Seq(V)
      BY <1>1, <2>2
    <3> QED
      BY <3>1, BeforeSteps
  <2>4. Before(c, s) = << >>
    BY <2>2, <2>3
  <2> QED
    BY <2>4 DEF s
<1> QED
  BY <1>1, <1>2 DEF Escaped

\* The pattern of a text matches from where the text begins.
LEMMA PatternBegins ==
  ASSUME NEW V, Special \subseteq V, NEW text \in Seq(V), NEW value \in Seq(V), NEW rest,
         \A p \in 1 .. Len(Pattern(text)) + 1 : rest[p] = RestAt(rest, value, Pattern(text), p)
  PROVE  /\ Len(Pattern(text)) >= 2
         /\ rest[1] = {v \in 1 .. Len(value) + 1 : \E w \in Begins(text, value, 0) : v <= w}
<1> DEFINE q == Pattern(text)
           n == Len(q)
           m == Len(text)
           l == Len(value)
           E == Escaped(text)
           at(k) == 2 + Len(Escaped(SubSeq(text, 1, k)))
<1>1. E \in Seq(V) /\ m \in Nat /\ l \in Nat
  BY EscapedJoins
<1>2. /\ n = Len(E) + 2 /\ n \in Nat /\ n >= 2 /\ q[1] = "%" /\ q[n] = "%"
      /\ \A i \in 1 .. Len(E) : q[1 + i] = E[i]
  <2> DEFINE a == <<"%">>
             c == a \o E
             S == V \cup {"%"}
  <2>1. a \in Seq(S) /\ Len(a) = 1 /\ a[1] = "%" /\ E \in Seq(S)
    BY <1>1, SingletonSeq
  <2>2. q = c \o a
    BY DEF Pattern
  <2> HIDE DEF a, E, S, q
  <2>3. c \in Seq(S) /\ FollowedBy(a, E, c)
    BY <2>1, FollowedByFacts
  <2> HIDE DEF c
  <2>4. FollowedBy(c, a, q)
    BY <2>1, <2>2, <2>3, FollowedByFacts
  <2>5. Len(E) \in Nat /\ Len(c) = 1 + Len(E) /\ n = Len(c) + 1
    BY <2>1, <2>3, <2>4 DEF FollowedBy
  <2>6. q[1] = "%"
    <3>1. 1 \in 1 .. Len(a) /\ 1 \in 1 .. Len(c)
      BY <2>1, <2>5
    <3> QED
      BY <2>1, <2>3, <2>4, <3>1 DEF FollowedBy
  <2>7. q[n] = "%"
    <3>1. 1 \in 1 .. Len(a)
      BY <2>1
    <3> QED
      BY <2>1, <2>4, <2>5, <3>1 DEF FollowedBy
  <2>8. \A i \in 1 .. Len(E) : q[1 + i] = E[i]
    <3> SUFFICES ASSUME NEW i \in 1 .. Len(E) PROVE q[1 + i] = E[i]
      OBVIOUS
    <3>1. 1 + i \in 1 .. Len(c)
      BY <2>5
    <3>2. c[Len(a) + i] = E[i]
      BY <2>3 DEF FollowedBy
    <3> QED
      BY <2>1, <2>4, <3>1, <3>2 DEF FollowedBy
  <2> QED
    BY <2>5, <2>6, <2>7, <2>8
<1>3. \A p \in 1 .. n + 1 : rest[p] = RestAt(rest, value, q, p)
  OBVIOUS
<1>4. at(0) = 2 /\ at(m) = n
  <2>1. SubSeq(text, 1, 0) = << >> /\ SubSeq(text, 1, m) = text
    BY <1>1
  <2>2. Escaped(<< >>) = << >> /\ Len(<< >>) = 0
    BY EscapedNothing
  <2>3. Len(E) \in Nat
    BY <1>1
  <2>4. at(0) = 2
    <3>1. Len(Escaped(SubSeq(text, 1, 0))) = 0
      BY <2>1, <2>2, Zenon
    <3> QED
      BY <3>1
  <2>5. at(m) = 2 + Len(E)
    BY <2>1
  <2> HIDE DEF q, E, at
  <2> QED
    BY <1>2, <2>3, <2>4, <2>5
<1>5. \A k \in 1 .. m : EscapedAt(text, k)
  BY EscapedPlaces
<1> HIDE DEF q, E
<1>6. rest[n] = 1 .. l + 1
  <2>1. n \in 1 .. n + 1 /\ n + 1 \in 1 .. n + 1
    BY <1>2
  <2>2. rest[n + 1] = {l + 1}
    <3>0. ~(n + 1 <= n) /\ ~(n + 1 < n)
      BY <1>2
    <3>1. RestAt(rest, value, q, n + 1) = {l + 1}
      BY <3>0, Zenon DEF RestAt
    <3> QED
      BY <1>3, <2>1, <3>1
  <2>3. rest[n] = {v \in 1 .. l + 1 : \E w \in rest[n + 1] : v <= w}
    <3>0. n # n + 1 /\ n <= n
      BY <1>2
    <3>1. RestAt(rest, value, q, n) = {v \in 1 .. l + 1 : \E w \in rest[n + 1] : v <= w}
      BY <1>2, <3>0 DEF RestAt
    <3> QED
      BY <1>3, <2>1, <3>1
  <2> QED
    BY <1>1, <2>2, <2>3
<1>7. ASSUME NEW k \in 1 .. m, rest[at(k)] = Begins(text, value, k)
      PROVE  rest[at(k - 1)] = Begins(text, value, k - 1)
  <2> DEFINE p == at(k - 1)
             x == text[k]
             here == {v \in 1 .. l : value[v] = x /\ v + 1 \in rest[at(k)]}
             e == Escape(x)
  <2>1. /\ p \in Nat /\ p - 2 \in Nat /\ at(k) = p + Len(e) /\ p - 2 + Len(e) <= Len(E)
        /\ \A i \in 1 .. Len(e) : E[p - 2 + i] = e[i]
    <3> DEFINE d == Len(Escaped(SubSeq(text, 1, k - 1)))
    <3>1. /\ d \in Nat /\ Len(Escaped(SubSeq(text, 1, k))) = d + Len(e) /\ d + Len(e) <= Len(E)
          /\ \A i \in 1 .. Len(e) : E[d + i] = e[i]
      BY <1>5 DEF EscapedAt, E
    <3>2. Len(e) \in Nat
      BY DEF Escape
    <3>3. p = 2 + d /\ at(k) = 2 + (d + Len(e))
      BY <3>1
    <3> HIDE DEF d, e, x, p, at
    <3>4. p \in Nat /\ p - 2 = d /\ at(k) = p + Len(e)
      BY <3>1, <3>2, <3>3
    <3> HIDE DEF p
    <3> QED
      BY <3>1, <3>4
  <2> HIDE DEF at
  <2>2. rest[p] = RestAt(rest, value, q, p) /\ p \in 1 .. n - 1
    <3>1. Len(e) >= 1 /\ Len(e) \in Nat
      BY DEF Escape
    <3>2. Len(E) \in Nat /\ n = Len(E) + 2
      BY <1>1, <1>2
    <3> HIDE DEF e, p, n
    <3>3. p \in 1 .. n - 1 /\ p \in 1 .. n + 1
      BY <2>1, <3>1, <3>2
    <3> QED
      BY <1>3, <3>3 DEF n
  <2>3. CASE x \in Special
    <3>1. e = <<"\\", x>> /\ Len(e) = 2 /\ e[1] = "\\" /\ e[2] = x
      BY <2>3 DEF Escape
    <3> HIDE DEF e, p, x
    <3>2. at(k) = p + 2
      BY <2>1, <3>1
    <3>3. q[p] = "\\" /\ q[p + 1] = x
      <4>1. /\ 1 \in 1 .. Len(e) /\ 2 \in 1 .. Len(e)
            /\ p - 2 + 1 \in 1 .. Len(E) /\ p - 2 + 2 \in 1 .. Len(E)
            /\ 1 + (p - 2 + 1) = p /\ 1 + (p - 2 + 2) = p + 1
        BY <1>1, <2>1, <2>2, <3>1
      <4>2. E[p - 2 + 1] = "\\" /\ E[p - 2 + 2] = x
        BY <2>1, <3>1, <4>1
      <4>3. q[1 + (p - 2 + 1)] = E[p - 2 + 1] /\ q[1 + (p - 2 + 2)] = E[p - 2 + 2]
        BY <1>2, <4>1
      <4> QED
        BY <4>1, <4>2, <4>3
    <3>4. p # n + 1 /\ p < n
      BY <1>2, <2>2
    <3>5. RestAt(rest, value, q, p) = {v \in 1 .. l : value[v] = q[p + 1] /\ v + 1 \in rest[p + 2]}
      BY <3>3, <3>4 DEF RestAt
    <3>6. rest[p] = here
      BY <2>2, <3>2, <3>3, <3>5
    <3> QED
      BY <1>1, <1>7, <3>6, BeginsOneBefore DEF p, x
  <2>4. CASE x \notin Special
    <3>1. e = <<x>> /\ Len(e) = 1 /\ e[1] = x
      BY <2>4 DEF Escape
    <3>0. x # "\\" /\ x # "%" /\ x # "_"
      BY <2>4 DEF Special
    <3> HIDE DEF e, p, x
    <3>2. at(k) = p + 1
      BY <2>1, <3>1
    <3>3. q[p] = x
      <4>1. 1 \in 1 .. Len(e) /\ p - 2 + 1 \in 1 .. Len(E) /\ 1 + (p - 2 + 1) = p
        BY <1>1, <2>1, <2>2, <3>1
      <4>2. E[p - 2 + 1] = x
        BY <2>1, <3>1, <4>1
      <4>3. q[1 + (p - 2 + 1)] = E[p - 2 + 1]
        BY <1>2, <4>1
      <4> QED
        BY <4>1, <4>2, <4>3
    <3>4. p # n + 1 /\ p < n
      BY <1>2, <2>2
    <3>5. RestAt(rest, value, q, p) = {v \in 1 .. l : value[v] = q[p] /\ v + 1 \in rest[p + 1]}
      BY <3>0, <3>3, <3>4 DEF RestAt
    <3>6. rest[p] = here
      BY <2>2, <3>2, <3>3, <3>5
    <3> QED
      BY <1>1, <1>7, <3>6, BeginsOneBefore DEF p, x
  <2> QED
    BY <2>3, <2>4
<1>8. rest[at(m)] = Begins(text, value, m)
  <2>1. Begins(text, value, m) = 1 .. l + 1
    BY <1>1 DEF Begins
  <2> QED
    BY <1>4, <1>6, <2>1
<1>9. rest[at(0)] = Begins(text, value, 0)
  <2> HIDE DEF at
  <2> DEFINE T == {j \in Nat : j \in 0 .. m => rest[at(m - j)] = Begins(text, value, m - j)}
  <2>1. 0 \in T
    <3>1. m - 0 = m
      BY <1>1
    <3> QED
      BY <1>8, <3>1
  <2>2. ASSUME NEW j \in Nat, j \in T PROVE j + 1 \in T
    <3>1. ASSUME j + 1 \in 0 .. m PROVE rest[at(m - (j + 1))] = Begins(text, value, m - (j + 1))
      <4> DEFINE k == m - j
      <4>1. k \in 1 .. m /\ m - (j + 1) = k - 1 /\ j \in 0 .. m
        BY <1>1, <3>1
      <4>2. rest[at(k)] = Begins(text, value, k)
        BY <2>2, <4>1
      <4> HIDE DEF k
      <4>3. rest[at(k - 1)] = Begins(text, value, k - 1)
        BY <1>7, <4>1, <4>2
      <4> QED
        BY <4>1, <4>3
    <3> QED
      BY <3>1
  <2>3. m \in T
    <3> HIDE DEF T
    <3> QED
      BY <1>1, <2>1, <2>2, NatInductionOnSet
  <2>4. m \in 0 .. m /\ m - m = 0
    BY <1>1
  <2> QED
    BY <2>3, <2>4
<1>10. rest[1] = {v \in 1 .. l + 1 : \E w \in rest[2] : v <= w}
  <2>1. 1 \in 1 .. n + 1 /\ 1 # n + 1 /\ 1 <= n /\ 1 + 1 = 2
    BY <1>2
  <2>2. RestAt(rest, value, q, 1) = {v \in 1 .. l + 1 : \E w \in rest[1 + 1] : v <= w}
    BY <1>2, <2>1 DEF RestAt
  <2> QED
    BY <1>3, <2>1, <2>2
<1> QED
  BY <1>2, <1>4, <1>9, <1>10 DEF q

\* A value matches the pattern of a text exactly when it has the text somewhere.
LEMMA LikeFinds ==
  ASSUME NEW V, Special \subseteq V, NEW text \in Seq(V), NEW value \in Seq(V)
  PROVE  Matches(value, Pattern(text)) <=>
           \E k \in 0 .. Len(value) : /\ k + Len(text) <= Len(value)
                                      /\ SubSeq(value, k + 1, k + Len(text)) = text
<1> DEFINE m == Len(text)
           l == Len(value)
           q == Pattern(text)
<1>1. m \in Nat /\ l \in Nat /\ Len(q) \in Nat
  <2>1. Len(q) \in Nat
    <3>1. Escaped(text) \in Seq(V) /\ <<"%">> \in Seq(V)
      BY EscapedJoins, SingletonSeq DEF Special
    <3>2. <<"%">> \o Escaped(text) \o <<"%">> \in Seq(V)
      BY <3>1
    <3>3. q \in Seq(V)
      BY <3>2 DEF Pattern
    <3> HIDE DEF q
    <3> QED
      BY <3>3
  <2> QED
    BY <2>1
<1> HIDE DEF q
<1>2. PICK rest : /\ \A p \in 1 .. Len(q) + 1 : rest[p] = RestAt(rest, value, q, p)
                  /\ Matches(value, q) <=> 1 \in rest[1]
  BY <1>1, MatchFollows
<1>3. rest[1] = {v \in 1 .. l + 1 : \E w \in Begins(text, value, 0) : v <= w}
  BY <1>2, PatternBegins DEF q
<1>4. Matches(value, q) <=> \E w \in Begins(text, value, 0) : 1 <= w
  <2>1. 1 \in 1 .. l + 1
    BY <1>1
  <2> QED
    BY <1>2, <1>3, <2>1
<1>5. ASSUME NEW w \in Begins(text, value, 0)
      PROVE  \E k \in 0 .. l : k + m <= l /\ SubSeq(value, k + 1, k + m) = text
  <2> DEFINE k == w - 1
  <2>1. /\ w \in 1 .. l + 1 /\ w + (m - 0) <= l + 1
        /\ \A i \in 1 .. m - 0 : value[w + i - 1] = text[0 + i]
    BY DEF Begins
  <2>2. k \in 0 .. l /\ k + m <= l /\ k + 1 = w
    BY <1>1, <2>1
  <2>3. \A i \in 1 .. m : value[k + i] = text[i]
    <3> SUFFICES ASSUME NEW i \in 1 .. m PROVE value[k + i] = text[i]
      OBVIOUS
    <3>1. i \in 1 .. m - 0 /\ w + i - 1 = k + i /\ 0 + i = i
      BY <1>1, <2>1
    <3> QED
      BY <2>1, <3>1
  <2> HIDE DEF k
  <2>4. SubSeq(value, k + 1, k + m) = text
    <3> DEFINE u == SubSeq(value, k + 1, k + m)
    <3>1. u \in Seq(V) /\ Len(u) = m /\ \A i \in 1 .. m : u[i] = value[k + i]
      BY <1>1, <2>2
    <3> HIDE DEF u
    <3>2. u = text
      BY <2>3, <3>1, SeqEqual
    <3> QED
      BY <3>2 DEF u
  <2> QED
    BY <2>2, <2>4
<1>6. ASSUME NEW k \in 0 .. l, k + m <= l, SubSeq(value, k + 1, k + m) = text
      PROVE  k + 1 \in Begins(text, value, 0) /\ 1 <= k + 1
  <2>1. k + 1 \in 1 .. l + 1 /\ (k + 1) + (m - 0) <= l + 1
    BY <1>1, <1>6
  <2>2. ASSUME NEW i \in 1 .. m - 0 PROVE value[(k + 1) + i - 1] = text[0 + i]
    <3>1. i \in 1 .. m /\ (k + 1) + i - 1 = k + i /\ 0 + i = i
      BY <1>1
    <3>2. SubSeq(value, k + 1, k + m)[i] = value[k + i]
      BY <1>1, <1>6, <3>1
    <3> QED
      BY <1>6, <3>1, <3>2
  <2> QED
    BY <2>1, <2>2 DEF Begins
<1> QED
  BY <1>4, <1>5, <1>6 DEF q

\* A text filter finds the columns that have the text somewhere, and no other,
\* whatever the text is made of: LikeIsSubstring.
THEOREM LikeIsTrue == RequestSpec => []LikeIsSubstring
<1>1. ASSUME Asked, Right, Answered("text") PROVE LikeIsSubstring
  <2>1. PICK pair \in Texts : subject = <<"text", pair[1], pair[2]>>
    BY <1>1 DEF Asked, Answered
  <2> DEFINE text == pair[1]
             value == pair[2]
             V == ToSet(text) \cup ToSet(value) \cup Special
  <2>2. text \in Seq(ToSet(text)) /\ value \in Seq(ToSet(value))
    BY RequestAssumption
  <2>3. text \in Seq(V) /\ value \in Seq(V) /\ Special \subseteq V
    <3> DEFINE A == ToSet(text)
               B == ToSet(value)
    <3>1. text \in Seq(A) /\ value \in Seq(B)
      BY <2>2
    <3> HIDE DEF text, value, A, B
    <3>2. A \subseteq A \cup B \cup Special /\ B \subseteq A \cup B \cup Special
      OBVIOUS
    <3>3. text \in Seq(A \cup B \cup Special) /\ value \in Seq(A \cup B \cup Special)
      BY <3>1, <3>2
    <3> QED
      BY <3>3 DEF A, B
  <2> HIDE DEF V
  <2>4. Matches(value, Pattern(text)) <=>
          \E k \in 0 .. Len(value) : /\ k + Len(text) <= Len(value)
                                     /\ SubSeq(value, k + 1, k + Len(text)) = text
    <3> HIDE DEF text, value
    <3> QED
      BY <2>3, LikeFinds
  <2>5. subject[2] = text /\ subject[3] = value
    BY <2>1
  <2>6. reply = [matches |-> Matches(value, Pattern(text))]
    BY <1>1, <2>5 DEF Right
  <2>7. reply.matches = Matches(value, Pattern(text))
    BY <2>6
  <2> HIDE DEF text, value
  <2> QED
    BY <2>4, <2>5, <2>7 DEF LikeIsSubstring
<1>2. ASSUME ~Answered("text") PROVE LikeIsSubstring
  BY <1>2 DEF LikeIsSubstring
<1> QED
  BY <1>1, <1>2, AnsweredRight, PTL

-----------------------------------------------------------------------------
(* Joins.  L[r] maps every table to the row that belongs to the row r of   *)
(* the root; a join that finds just these rows extends the tuples by them. *)

Cut(x, D) == [t \in D |-> x[t]]
Tuples(L, R, D) == {Cut(L[r], D) : r \in R}

\* the join with t finds the row of L, or none where L has Null
Finds(db, L, R, D, kind, t) ==
  \A r \in R : LET found == {row \in db[t] : On(Cut(L[r], D), t, row)}
               IN \/ kind = "outer" /\ found = {} /\ L[r][t] = Null
                  \/ found = {L[r][t]}

\* A join that finds exactly the linked row gives every tuple that row.
LEMMA JoinStep ==
  ASSUME NEW db, NEW L, NEW R, NEW D, NEW kind, NEW t, Finds(db, L, R, D, kind, t)
  PROVE  Joined(db, Tuples(L, R, D), kind, t) = Tuples(L, R, D \cup {t})
<1> DEFINE found(tuple) == {row \in db[t] : On(tuple, t, row)}
           join(tuple) == IF kind = "outer" /\ found(tuple) = {} THEN {With(tuple, t, Null)}
                          ELSE {With(tuple, t, row) : row \in found(tuple)}
<1>1. ASSUME NEW r \in R PROVE join(Cut(L[r], D)) = {Cut(L[r], D \cup {t})}
  <2>1. With(Cut(L[r], D), t, L[r][t]) = Cut(L[r], D \cup {t})
    BY DEF With, Cut
  <2>2. \/ kind = "outer" /\ found(Cut(L[r], D)) = {} /\ L[r][t] = Null
        \/ found(Cut(L[r], D)) = {L[r][t]}
    BY DEF Finds
  <2> HIDE DEF found
  <2>3. CASE kind = "outer" /\ found(Cut(L[r], D)) = {} /\ L[r][t] = Null
    BY <2>1, <2>3
  <2>4. CASE found(Cut(L[r], D)) = {L[r][t]}
    BY <2>1, <2>4
  <2> QED
    BY <2>2, <2>3, <2>4
<1>2. Joined(db, Tuples(L, R, D), kind, t) = UNION {join(tuple) : tuple \in Tuples(L, R, D)}
  BY DEF Joined
<1> HIDE DEF join
<1>3. \A tuple \in Tuples(L, R, D) : \E r \in R : tuple = Cut(L[r], D)
  BY DEF Tuples
<1>4. \A r \in R : Cut(L[r], D) \in Tuples(L, R, D) /\ Cut(L[r], D \cup {t}) \in Tuples(L, R, D \cup {t})
  BY DEF Tuples
<1>5. \A tuple \in Tuples(L, R, D \cup {t}) : \E r \in R : tuple = Cut(L[r], D \cup {t})
  BY DEF Tuples
<1>6. ASSUME NEW y \in Joined(db, Tuples(L, R, D), kind, t) PROVE y \in Tuples(L, R, D \cup {t})
  <2>1. PICK tuple \in Tuples(L, R, D) : y \in join(tuple)
    BY <1>2
  <2>2. PICK r \in R : tuple = Cut(L[r], D)
    BY <1>3
  <2>3. y = Cut(L[r], D \cup {t})
    BY <1>1, <2>1, <2>2
  <2> QED
    BY <1>4, <2>3
<1>7. ASSUME NEW y \in Tuples(L, R, D \cup {t}) PROVE y \in Joined(db, Tuples(L, R, D), kind, t)
  <2>1. PICK r \in R : y = Cut(L[r], D \cup {t})
    BY <1>5
  <2>2. y \in join(Cut(L[r], D)) /\ Cut(L[r], D) \in Tuples(L, R, D)
    BY <1>1, <1>4, <2>1
  <2> QED
    BY <1>2, <2>2
<1> QED
  BY <1>6, <1>7

Names(from) == {from[i][2] : i \in DOMAIN from}
NamesUpTo(from, k) == {from[i][2] : i \in 1 .. k}

\* FROM starts with root, and every join of it finds the rows of L.
Chained(db, L, from, root) ==
  /\ from \in Seq({"root", "inner", "outer"} \X Tables) /\ Len(from) >= 1
  /\ from[1] = <<"root", root>> /\ \A r \in db[root] : L[r][root] = r
  /\ \A i \in 2 .. Len(from) : Finds(db, L, db[root], NamesUpTo(from, i - 1), from[i][1], from[i][2])

\* A chain of such joins gives one tuple of linked rows for every row of the root.
LEMMA JoinedAllIs ==
  ASSUME NEW db, NEW L, NEW from, NEW root, Chained(db, L, from, root)
  PROVE  JoinedAll(db, from) = Tuples(L, db[root], Names(from))
<1> DEFINE n == Len(from)
           R == db[root]
           good == [i \in 1 .. n |-> Tuples(L, R, NamesUpTo(from, i))]
           Solves(h) == h = [i \in 1 .. n |->
                              IF i = 1 THEN {[t \in {from[1][2]} |-> row] : row \in db[from[1][2]]}
                              ELSE Joined(db, h[i - 1], from[i][1], from[i][2])]
           h == CHOOSE h : Solves(h)
<1>1. /\ n \in Nat /\ n >= 1 /\ DOMAIN from = 1 .. n /\ from[1] = <<"root", root>>
      /\ \A r \in R : L[r][root] = r
      /\ \A i \in 2 .. n : Finds(db, L, R, NamesUpTo(from, i - 1), from[i][1], from[i][2])
  BY DEF Chained
<1>2. {[t \in {from[1][2]} |-> row] : row \in db[from[1][2]]} = good[1]
  <2>1. NamesUpTo(from, 1) = {root}
    BY <1>1 DEF NamesUpTo
  <2>2. \A r \in R : [t \in {root} |-> r] = Cut(L[r], {root})
    BY <1>1 DEF Cut
  <2>3. good[1] = Tuples(L, R, {root})
    <3>1. good[1] = Tuples(L, R, NamesUpTo(from, 1))
      BY <1>1
    <3> QED
      BY <2>1, <3>1
  <2>4. from[1][2] = root
    BY <1>1
  <2> HIDE DEF good
  <2>5. {[t \in {root} |-> row] : row \in R} = {Cut(L[r], {root}) : r \in R}
    <3> DEFINE alone(row) == [t \in {root} |-> row]
               cut(r) == Cut(L[r], {root})
    <3>1. \A r \in R : alone(r) = cut(r)
      BY <2>2
    <3> HIDE DEF alone, cut, R
    <3>2. {alone(row) : row \in R} = {cut(r) : r \in R}
      BY <3>1
    <3> QED
      BY <3>2 DEF alone, cut
  <2>6. {[t \in {root} |-> row] : row \in R} = good[1]
    BY <2>3, <2>5 DEF Tuples
  <2> QED
    BY <2>4, <2>6
<1>3. ASSUME NEW i \in 2 .. n PROVE good[i] = Joined(db, good[i - 1], from[i][1], from[i][2])
  <2>1. i \in 1 .. n /\ i - 1 \in 1 .. n
    BY <1>1
  <2>2. NamesUpTo(from, i) = NamesUpTo(from, i - 1) \cup {from[i][2]}
    <3>1. 1 .. i = (1 .. i - 1) \cup {i}
      BY <2>1
    <3> QED
      BY <3>1 DEF NamesUpTo
  <2> HIDE DEF n
  <2>3. Joined(db, Tuples(L, R, NamesUpTo(from, i - 1)), from[i][1], from[i][2])
          = Tuples(L, R, NamesUpTo(from, i - 1) \cup {from[i][2]})
    <3> HIDE DEF R
    <3> QED
      BY <1>1, JoinStep
  <2> QED
    BY <2>1, <2>2, <2>3
<1>4. Solves(good)
  <2>1. ASSUME NEW i \in 1 .. n
        PROVE  good[i] = IF i = 1 THEN {[t \in {from[1][2]} |-> row] : row \in db[from[1][2]]}
                         ELSE Joined(db, good[i - 1], from[i][1], from[i][2])
    <3>1. CASE i = 1
      BY <1>2, <3>1
    <3>2. CASE i # 1
      <4>1. i \in 2 .. n
        BY <1>1, <3>2
      <4> QED
        BY <1>3, <3>2, <4>1
    <3> QED
      BY <3>1, <3>2
  <2>2. good = [i \in 1 .. n |-> good[i]]
    OBVIOUS
  <2> HIDE DEF good
  <2> QED
    BY <2>1, <2>2
<1>5. Solves(h)
  <2> HIDE DEF Solves, good
  <2> QED
    BY <1>4
<1>6. JoinedAll(db, from) = h[n]
  BY DEF JoinedAll
<1>7. /\ h[1] = {[t \in {from[1][2]} |-> row] : row \in db[from[1][2]]}
      /\ \A i \in 2 .. n : h[i] = Joined(db, h[i - 1], from[i][1], from[i][2])
  <2> HIDE DEF h
  <2>1. \A i \in 1 .. n : h[i] = IF i = 1 THEN {[t \in {from[1][2]} |-> row] : row \in db[from[1][2]]}
                                 ELSE Joined(db, h[i - 1], from[i][1], from[i][2])
    BY <1>5
  <2>2. 1 \in 1 .. n /\ \A i \in 2 .. n : i \in 1 .. n /\ i # 1
    BY <1>1
  <2> QED
    BY <2>1, <2>2
<1> HIDE DEF h, Solves, good, R
<1> DEFINE T == {k \in Nat : k \in 1 .. n => h[k] = good[k]}
<1>8. 0 \in T
  OBVIOUS
<1>9. ASSUME NEW k \in Nat, k \in T PROVE k + 1 \in T
  <2> DEFINE j == k + 1
  <2>1. j \in Nat /\ j - 1 = k
    OBVIOUS
  <2>2. ASSUME j \in 1 .. n PROVE h[j] = good[j]
    <3>1. CASE j = 1
      BY <1>2, <1>7, <3>1
    <3>2. CASE j # 1
      <4>1. j \in 2 .. n /\ k \in 1 .. n
        BY <1>1, <2>2, <3>2
      <4>2. h[k] = good[k]
        BY <1>9, <4>1
      <4> HIDE DEF j
      <4>3. h[j] = Joined(db, h[j - 1], from[j][1], from[j][2]) /\ good[j] = Joined(db, good[j - 1], from[j][1], from[j][2])
        BY <1>3, <1>7, <4>1
      <4> QED
        BY <2>1, <4>2, <4>3
    <3> QED
      BY <3>1, <3>2
  <2> HIDE DEF j
  <2>3. j \in T
    BY <2>1, <2>2
  <2> QED
    BY <2>3 DEF j
<1>10. n \in T
  <2> HIDE DEF T, n
  <2> QED
    BY <1>1, <1>8, <1>9, NatInductionOnSet
<1>11. good[n] = Tuples(L, R, Names(from))
  <2>1. NamesUpTo(from, n) = Names(from) /\ n \in 1 .. n
    BY <1>1 DEF NamesUpTo, Names
  <2> QED
    BY <2>1 DEF good
<1> QED
  BY <1>1, <1>6, <1>10, <1>11 DEF R

\* A statement that joins what its clauses are about selects the rows of L
\* whose tuple the clauses hold of.
LEMMA SelectedIs ==
  ASSUME NEW db, NEW L, NEW list, NEW statement, NEW f, NEW root,
         Chained(db, L, From(list, statement, f), root),
         \A c \in Clauses(list, f) : c[2] \in FromTables(list, statement, f)
  PROVE  Selected(db, list, statement, f)
           = Tuples(L, {r \in db[root] : \A c \in Clauses(list, f) : Holds(db, c, L[r])}, FromTables(list, statement, f))
<1> DEFINE D == FromTables(list, statement, f)
           all == Tuples(L, db[root], D)
           C == Clauses(list, f)
<1>1. JoinedAll(db, From(list, statement, f)) = all
  <2>1. Names(From(list, statement, f)) = D
    BY DEF Names, FromTables
  <2> QED
    BY <2>1, JoinedAllIs
<1>2. {c[2] : c \in C} \ D = {}
  OBVIOUS
<1>3. Crossed(db, all, {}) = all
  <2>1. \A tuple \in all : [t \in DOMAIN tuple \cup {} |-> tuple[t]] = tuple
    BY DEF Tuples, Cut
  <2> DEFINE none == {r \in [{} -> UNION {db[t] : t \in {}}] : \A t \in {} : r[t] \in db[t]}
  <2>2. none # {}
    <3>1. [t \in {} |-> t] \in none
      OBVIOUS
    <3> QED
      BY <3>1
  <2> HIDE DEF all, none
  <2>3. Crossed(db, all, {}) = {[t \in DOMAIN tuple \cup {} |-> tuple[t]] : tuple \in all, rows \in none}
    BY DEF Crossed, none
  <2> QED
    BY <2>1, <2>2, <2>3
<1>4. Selected(db, list, statement, f) = {tuple \in all : \A c \in C : Holds(db, c, tuple)}
  <2> HIDE DEF all, C, D
  <2> QED
    BY <1>1, <1>2, <1>3 DEF Selected, C, D
<1>5. ASSUME NEW r \in db[root], NEW c \in C PROVE Holds(db, c, Cut(L[r], D)) <=> Holds(db, c, L[r])
  <2>1. c[2] \in D
    OBVIOUS
  <2>2. Value(Cut(L[r], D), c[2], c[3]) = Value(L[r], c[2], c[3])
    BY <2>1 DEF Value, Cut
  <2> QED
    BY <2>2 DEF Holds
<1> DEFINE Q == {r \in db[root] : \A c \in C : Holds(db, c, L[r])}
<1>6. {tuple \in all : \A c \in C : Holds(db, c, tuple)} = Tuples(L, Q, D)
  <2> HIDE DEF C, D
  <2> QED
    BY <1>5 DEF Tuples
<1> QED
  BY <1>4, <1>6

-----------------------------------------------------------------------------
(* FROM of a list, join by join. *)

\* The root alone is a chain.
LEMMA ChainStart ==
  ASSUME NEW db, NEW L, NEW root \in Tables, \A r \in db[root] : L[r][root] = r
  PROVE  Chained(db, L, Root(root), root) /\ Names(Root(root)) = {root}
<1> DEFINE e == <<"root", root>>
           from == <<e>>
           E == {"root", "inner", "outer"} \X Tables
<1>1. e \in E
  OBVIOUS
<1>2. from \in Seq(E) /\ Len(from) = 1 /\ from[1] = e /\ DOMAIN from = {1}
  <2> HIDE DEF e, E
  <2> QED
    BY <1>1, SingletonSeq
<1>3. Root(root) = from
  BY DEF Root
<1>4. e[2] = root
  OBVIOUS
<1> HIDE DEF from
<1>5. Names(from) = {root}
  BY <1>2, <1>4 DEF Names
<1>6. Chained(db, L, from, root)
  BY <1>2 DEF Chained
<1> QED
  BY <1>3, <1>5, <1>6

\* The join of t, if there is one.
LEMMA ChainJoin ==
  ASSUME NEW db, NEW L, NEW from, NEW root, Chained(db, L, from, root),
         NEW kind \in {"inner", "outer"}, NEW condition \in BOOLEAN, NEW t \in Tables,
         condition => Finds(db, L, db[root], Names(from), kind, t)
  PROVE  /\ Chained(db, L, from \o Joins(kind, condition, <<t>>), root)
         /\ Names(from \o Joins(kind, condition, <<t>>)) = Names(from) \cup IF condition THEN {t} ELSE {}
<1> DEFINE e == <<kind, t>>
           E == {"root", "inner", "outer"} \X Tables
           n == Len(from)
<1>1. from \in Seq(E) /\ n \in Nat /\ n >= 1 /\ DOMAIN from = 1 .. n
  BY DEF Chained
<1>2. CASE ~condition
  <2>1. Joins(kind, condition, <<t>>) = << >>
    BY <1>2 DEF Joins
  <2>2. from \o << >> = from
    BY <1>1
  <2> QED
    BY <1>2, <2>1, <2>2
<1>3. CASE condition
  <2> DEFINE s == <<e>>
             u == from \o s
  <2>1. e \in E /\ e[1] = kind /\ e[2] = t
    OBVIOUS
  <2>2. s \in Seq(E) /\ Len(s) = 1 /\ s[1] = e
    <3> HIDE DEF e, E
    <3> QED
      BY <2>1, SingletonSeq
  <2>3. Joins(kind, condition, <<t>>) = s
    BY <1>3 DEF Joins
  <2> HIDE DEF e, s, E
  <2>0. u \in Seq(E) /\ FollowedBy(from, s, u)
    BY <1>1, <2>2, FollowedByFacts DEF E
  <2> HIDE DEF u
  <2>4. u \in Seq(E) /\ Len(u) = n + 1 /\ \A i \in 1 .. n : u[i] = from[i]
    BY <1>1, <2>0, <2>2 DEF FollowedBy
  <2>5. u[n + 1] = e
    BY <1>1, <2>0, <2>2 DEF FollowedBy
  <2>6. \A k \in 1 .. n : NamesUpTo(u, k) = NamesUpTo(from, k)
    BY <1>1, <2>4 DEF NamesUpTo
  <2>7. NamesUpTo(u, n) = Names(from)
    <3>1. NamesUpTo(u, n) = NamesUpTo(from, n)
      BY <1>1, <2>6
    <3>2. NamesUpTo(from, n) = Names(from)
      BY <1>1 DEF NamesUpTo, Names
    <3> QED
      BY <3>1, <3>2
  <2>8. Names(u) = Names(from) \cup {t}
    <3>1. DOMAIN u = (1 .. n) \cup {n + 1}
      BY <1>1, <2>4
    <3> QED
      BY <1>1, <2>1, <2>4, <2>5, <3>1 DEF Names
  <2>9. ASSUME NEW i \in 2 .. Len(u) PROVE Finds(db, L, db[root], NamesUpTo(u, i - 1), u[i][1], u[i][2])
    <3>1. CASE i = n + 1
      <4>1. i - 1 = n
        BY <1>1, <3>1
      <4> QED
        BY <1>3, <2>1, <2>5, <2>7, <3>1, <4>1
    <3>2. CASE i # n + 1
      <4>1. i \in 2 .. n /\ i \in 1 .. n /\ i - 1 \in 1 .. n
        BY <1>1, <2>4, <3>2
      <4>2. Finds(db, L, db[root], NamesUpTo(from, i - 1), from[i][1], from[i][2])
        BY <4>1 DEF Chained
      <4> QED
        BY <2>4, <2>6, <4>1, <4>2
    <3> QED
      BY <3>1, <3>2
  <2>10. 1 \in 1 .. n /\ Len(u) >= 1
    BY <1>1, <2>4
  <2>11. Chained(db, L, u, root)
    BY <2>4, <2>9, <2>10 DEF Chained, E
  <2> QED
    BY <1>3, <2>3, <2>8, <2>11 DEF u
<1> QED
  BY <1>2, <1>3

\* Two inner joins under one condition are one after the other.
LEMMA TwoJoins ==
  ASSUME NEW S, NEW from \in Seq(S), NEW condition \in BOOLEAN
  PROVE  from \o Joins("inner", condition, <<"batch", "intake">>)
           = (from \o Joins("inner", condition, <<"batch">>)) \o Joins("inner", condition, <<"intake">>)
<1> DEFINE t == "batch"
           u == "intake"
           kind == "inner"
<1> HIDE DEF t, u, kind
<1>3. from \o Joins(kind, condition, <<t, u>>)
        = (from \o Joins(kind, condition, <<t>>)) \o Joins(kind, condition, <<u>>)
  <2>1. CASE ~condition
    <3>1. /\ Joins(kind, condition, <<t, u>>) = << >> /\ Joins(kind, condition, <<t>>) = << >>
          /\ Joins(kind, condition, <<u>>) = << >>
      BY <2>1 DEF Joins
    <3>2. from \o << >> = from
      OBVIOUS
    <3> QED
      BY <3>1, <3>2
  <2>2. CASE condition
    <3> DEFINE a == <<kind, t>>
               b == <<kind, u>>
               E == S \cup {a, b}
    <3>1. Joins(kind, condition, <<t, u>>) = <<a, b>> /\ Joins(kind, condition, <<t>>) = <<a>> /\ Joins(kind, condition, <<u>>) = <<b>>
      BY <2>2 DEF Joins
    <3>2. a \in E /\ b \in E /\ from \in Seq(E)
      OBVIOUS
    <3> HIDE DEF a, b, E
    <3>3. <<a>> \in Seq(E) /\ <<b>> \in Seq(E) /\ <<a>> \o <<b>> = <<a, b>>
      BY <3>2, SingletonSeq, PairSeq
    <3>4. (from \o <<a>>) \o <<b>> = from \o (<<a>> \o <<b>>)
      <4> DEFINE x == <<a>>
                 y == <<b>>
      <4>1. x \in Seq(E) /\ y \in Seq(E)
        BY <3>3
      <4> HIDE DEF x, y
      <4>2. (from \o x) \o y = from \o (x \o y)
        BY <3>2, <4>1, SMTT(30)
      <4> QED
        BY <4>2 DEF x, y
    <3> QED
      BY <3>1, <3>3, <3>4
  <2> QED
    BY <2>1, <2>2
<1> QED
  BY <1>3 DEF t, u, kind

-----------------------------------------------------------------------------
(* The rows that belong to a row of a list. *)

RootOf(list) ==
  CASE list \in {"intakes", "monitoring"} -> "intake"
    [] list = "batches"  -> "batch"
    [] list = "tasks"    -> "task"
    [] list = "results"  -> "result"
    [] list = "assomi"   -> "assomi"
    [] list = "senders"  -> "sender"
    [] list = "messages" -> "message"
    [] list = "errors"   -> "error"

\* the row of t whose column has the value
The(db, t, column, value) ==
  IF value # Null /\ \E x \in db[t] : x[column] = value THEN CHOOSE x \in db[t] : x[column] = value ELSE Null
IdOf(row) == IF row = Null THEN Null ELSE row["id"]

Whole(db, list, r) ==
  CASE list \in {"intakes", "monitoring"} ->
         LET b == The(db, "batch", "intake", r["id"])
         IN [t \in Tables |-> CASE t = "intake"  -> r
                                [] t = "batch"   -> b
                                [] t = "result"  -> The(db, "result", "batch", IdOf(b))
                                [] t = "assomi"  -> The(db, "assomi", "batch", IdOf(b))
                                [] t = "message" -> The(db, "message", "intake", r["id"])
                                [] OTHER -> Null]
    [] list = "batches" ->
         [t \in Tables |-> CASE t = "batch"  -> r
                             [] t = "intake" -> The(db, "intake", "id", r["intake"])
                             [] OTHER -> Null]
    [] list \in {"tasks", "results", "assomi"} ->
         LET b == The(db, "batch", "id", r["batch"])
         IN [t \in Tables |-> CASE t = RootOf(list) -> r
                                [] t = "batch"  -> b
                                [] t = "intake" -> The(db, "intake", "id", b["intake"])
                                [] OTHER -> Null]
    [] OTHER -> [t \in Tables |-> IF t = RootOf(list) THEN r ELSE Null]

\* A parent has one child or none.
LEMMA TheChild ==
  ASSUME NEW db, Consistent(db), NEW t, NEW c, <<t, c>> \in OnlyChildren, NEW v, v # Null \/ t # "message"
  PROVE  LET found == {x \in db[t] : x[c] = v}
         IN \/ found = {} /\ The(db, t, c, v) = Null
            \/ found = {The(db, t, c, v)}
<1>1. t \in Tables /\ <<t, c>> \in ForeignKeys
  BY DEF OnlyChildren, ForeignKeys, Tables
<1>2. \A x, y \in db[t] : x[c] = y[c] /\ x[c] # Null => x = y
  <2>1. \A key \in OnlyChildren : \A x, y \in db[key[1]] : x[key[2]] = y[key[2]] /\ x[key[2]] # Null => x = y
    BY DEF Consistent
  <2> QED
    BY <2>1, Zenon
<1>3. CASE v = Null
  <2>1. t # "message"
    BY <1>3
  <2>2. \A x \in db[t] : x[c] # Null
    <3> SUFFICES ASSUME NEW x \in db[t] PROVE x[c] # Null
      OBVIOUS
    <3>1. \A key \in ForeignKeys : \A y \in db[key[1]] :
             \/ \E z \in db[key[2]] : y[key[2]] = z.id
             \/ key[1] = "message" /\ y[key[2]] = Null
      BY DEF Consistent
    <3> DEFINE k == <<t, c>>
    <3>2. k[1] = t /\ k[2] = c /\ k \in ForeignKeys
      BY <1>1
    <3> HIDE DEF k
    <3>3. PICK z \in db[c] : x[c] = z.id
      BY <2>1, <3>1, <3>2
    <3>4. c \in Tables
      BY <1>1 DEF ForeignKeys, Tables
    <3>5. z.id # Null
      BY <3>3, <3>4 DEF Consistent
    <3> QED
      BY <3>3, <3>5
  <2> QED
    BY <1>3, <2>2 DEF The
<1>4. CASE v # Null /\ {x \in db[t] : x[c] = v} = {}
  BY <1>4 DEF The
<1>5. CASE v # Null /\ {x \in db[t] : x[c] = v} # {}
  <2> DEFINE y == CHOOSE x \in db[t] : x[c] = v
  <2>1. y \in db[t] /\ y[c] = v
    BY <1>5
  <2>2. The(db, t, c, v) = y
    BY <1>5 DEF The
  <2> HIDE DEF y
  <2>3. {x \in db[t] : x[c] = v} = {y}
    BY <1>2, <1>5, <2>1
  <2> QED
    BY <2>2, <2>3
<1> QED
  BY <1>3, <1>4, <1>5

\* A foreign key leads to the one row that has its id.
LEMMA TheParent ==
  ASSUME NEW db, Consistent(db), NEW t, NEW p, <<t, p>> \in ForeignKeys, t # "message", NEW x \in db[t]
  PROVE  /\ {y \in db[p] : y["id"] = x[p]} = {The(db, p, "id", x[p])}
         /\ The(db, p, "id", x[p]) \in db[p]
<1>1. p \in Tables
  BY DEF ForeignKeys, Tables
<1>2. PICK z \in db[p] : x[p] = z["id"]
  <2>1. \A key \in ForeignKeys : \A y \in db[key[1]] :
           \/ \E z \in db[key[2]] : y[key[2]] = z.id
           \/ key[1] = "message" /\ y[key[2]] = Null
    BY DEF Consistent
  <2> DEFINE k == <<t, p>>
  <2>2. k[1] = t /\ k[2] = p /\ k \in ForeignKeys
    OBVIOUS
  <2> HIDE DEF k
  <2> QED
    BY <2>1, <2>2
<1>3. \A u, w \in db[p] : u["id"] # Null /\ (u["id"] = w["id"] => u = w)
  BY <1>1 DEF Consistent
<1> DEFINE y == CHOOSE u \in db[p] : u["id"] = x[p]
<1>4. y \in db[p] /\ y["id"] = x[p]
  BY <1>2
<1>5. The(db, p, "id", x[p]) = y
  BY <1>2, <1>3 DEF The
<1> HIDE DEF y
<1>6. {u \in db[p] : u["id"] = x[p]} = {y}
  BY <1>3, <1>4
<1> QED
  BY <1>4, <1>5, <1>6

\* What the condition of a join says, by the tables that are there.
LEMMA OnChild ==
  ASSUME NEW x, NEW D, NEW row, NEW t, NEW p,
         \/ t = "batch" /\ p = "intake" /\ D = {"intake"}
         \/ t \in {"result", "assomi"} /\ p = "batch" /\ "batch" \in D /\ D \subseteq {"intake", "batch", "result", "assomi"}
         \/ t = "message" /\ p = "intake" /\ "intake" \in D /\ D \subseteq {"intake", "batch", "result", "assomi"}
  PROVE  On(Cut(x, D), t, row) <=> row[p] = Value(x, p, "id")
<1>1. DOMAIN Cut(x, D) = D /\ \A u \in D : Cut(x, D)[u] = x[u]
  BY DEF Cut
<1>2. p \in D /\ Value(Cut(x, D), p, "id") = Value(x, p, "id")
  BY <1>1 DEF Value
<1> DEFINE y == Cut(x, D)
<1> HIDE DEF y
<1>3. DOMAIN y = D
  BY <1>1 DEF y
<1>4. On(y, t, row) <=> row[p] = Value(y, p, "id")
  BY <1>3 DEF On, ForeignKeys
<1> QED
  BY <1>2, <1>4 DEF y

\* The ON clause of a join with the parent compares the foreign key and the id.
LEMMA OnParent ==
  ASSUME NEW x, NEW D, NEW row, NEW t, NEW p,
         \/ t \in {"task", "result", "assomi"} /\ p = "batch" /\ D = {t}
         \/ t = "batch" /\ p = "intake" /\ (D = {"batch"} \/ D = {"task", "batch"} \/ D = {"result", "batch"} \/ D = {"assomi", "batch"})
  PROVE  On(Cut(x, D), p, row) <=> row["id"] = Value(x, t, p)
<1>1. DOMAIN Cut(x, D) = D /\ \A u \in D : Cut(x, D)[u] = x[u]
  BY DEF Cut
<1>2. t \in D /\ Value(Cut(x, D), t, p) = Value(x, t, p)
  BY <1>1 DEF Value
<1> DEFINE y == Cut(x, D)
<1> HIDE DEF y
<1>3. DOMAIN y = D
  BY <1>1 DEF y
<1>4. On(y, p, row) <=> row["id"] = Value(y, t, p)
  BY <1>3 DEF On, ForeignKeys
<1> QED
  BY <1>2, <1>4 DEF y

-----------------------------------------------------------------------------
(* What the joins of the lists find. *)

LinkedRows(db, list) == [r \in db[RootOf(list)] |-> Whole(db, list, r)]

\* The rows that belong to an intake.
LEMMA IntakeLinks ==
  ASSUME NEW db, Consistent(db), NEW list \in {"intakes", "monitoring"}, NEW r \in db["intake"]
  PROVE  LET x == LinkedRows(db, list)[r]
         IN /\ x["intake"] = r /\ r # Null /\ r["id"] # Null
            /\ x["batch"] = The(db, "batch", "intake", r["id"])
            /\ x["result"] = The(db, "result", "batch", Value(x, "batch", "id"))
            /\ x["assomi"] = The(db, "assomi", "batch", Value(x, "batch", "id"))
            /\ x["message"] = The(db, "message", "intake", r["id"])
<1>1. RootOf(list) = "intake"
  BY DEF RootOf
<1> DEFINE x == LinkedRows(db, list)[r]
           b == The(db, "batch", "intake", r["id"])
<1>2. x = [t \in Tables |-> CASE t = "intake"  -> r
                              [] t = "batch"   -> b
                              [] t = "result"  -> The(db, "result", "batch", IdOf(b))
                              [] t = "assomi"  -> The(db, "assomi", "batch", IdOf(b))
                              [] t = "message" -> The(db, "message", "intake", r["id"])
                              [] OTHER -> Null]
  BY <1>1 DEF LinkedRows, Whole
<1>3. "intake" \in Tables /\ "batch" \in Tables /\ "result" \in Tables /\ "assomi" \in Tables /\ "message" \in Tables
  BY DEF Tables
<1>4. r # Null /\ r["id"] # Null
  BY <1>3 DEF Consistent
<1> HIDE DEF x, b
<1>5. /\ x["intake"] = r /\ x["batch"] = b /\ x["message"] = The(db, "message", "intake", r["id"])
      /\ x["result"] = The(db, "result", "batch", IdOf(b)) /\ x["assomi"] = The(db, "assomi", "batch", IdOf(b))
  BY <1>2, <1>3
<1>6. Value(x, "batch", "id") = IdOf(b)
  BY <1>5 DEF Value, IdOf
<1> QED
  BY <1>4, <1>5, <1>6 DEF x, b

\* The joins of the lists of intakes find exactly those rows.
LEMMA IntakeFinds ==
  ASSUME NEW db, Consistent(db), NEW list \in {"intakes", "monitoring"}, NEW D, NEW t,
         \/ t = "batch" /\ D = {"intake"}
         \/ t \in {"result", "assomi"} /\ "batch" \in D /\ D \subseteq {"intake", "batch", "result", "assomi"}
         \/ t = "message" /\ "intake" \in D /\ D \subseteq {"intake", "batch", "result", "assomi"}
  PROVE  Finds(db, LinkedRows(db, list), db["intake"], D, "outer", t)
<1> SUFFICES ASSUME NEW r \in db["intake"]
             PROVE  LET x == LinkedRows(db, list)[r]
                        found == {row \in db[t] : On(Cut(x, D), t, row)}
                    IN (found = {} /\ x[t] = Null) \/ found = {x[t]}
  BY DEF Finds
<1> DEFINE x == LinkedRows(db, list)[r]
           p == IF t \in {"result", "assomi"} THEN "batch" ELSE "intake"
           v == Value(x, p, "id")
<1>1. /\ x["intake"] = r /\ r # Null /\ r["id"] # Null
      /\ x["batch"] = The(db, "batch", "intake", r["id"])
      /\ x["result"] = The(db, "result", "batch", Value(x, "batch", "id"))
      /\ x["assomi"] = The(db, "assomi", "batch", Value(x, "batch", "id"))
      /\ x["message"] = The(db, "message", "intake", r["id"])
  BY IntakeLinks
<1> HIDE DEF x
<1>2. Value(x, "intake", "id") = r["id"]
  BY <1>1 DEF Value
<1>3. /\ x[t] = The(db, t, p, v) /\ <<t, p>> \in OnlyChildren /\ (v # Null \/ t # "message")
  BY <1>1, <1>2 DEF OnlyChildren
<1>4. \A row : On(Cut(x, D), t, row) <=> row[p] = v
  <2> SUFFICES ASSUME NEW row PROVE On(Cut(x, D), t, row) <=> row[p] = v
    OBVIOUS
  <2>1. \/ t = "batch" /\ p = "intake" /\ D = {"intake"}
        \/ t \in {"result", "assomi"} /\ p = "batch" /\ "batch" \in D /\ D \subseteq {"intake", "batch", "result", "assomi"}
        \/ t = "message" /\ p = "intake" /\ "intake" \in D /\ D \subseteq {"intake", "batch", "result", "assomi"}
    OBVIOUS
  <2> HIDE DEF p
  <2> QED
    BY <2>1, OnChild
<1> HIDE DEF p, v
<1>5. {row \in db[t] : On(Cut(x, D), t, row)} = {row \in db[t] : row[p] = v}
  BY <1>4
<1>6. LET found == {row \in db[t] : row[p] = v}
      IN (found = {} /\ The(db, t, p, v) = Null) \/ found = {The(db, t, p, v)}
  BY <1>3, TheChild
<1> QED
  BY <1>3, <1>5, <1>6 DEF x

\* The join of the list of batches finds exactly the intake of each.
LEMMA BatchFinds ==
  ASSUME NEW db, Consistent(db)
  PROVE  Finds(db, LinkedRows(db, "batches"), db["batch"], {"batch"}, "inner", "intake")
<1> DEFINE L == LinkedRows(db, "batches")
<1> SUFFICES ASSUME NEW r \in db["batch"]
             PROVE  {row \in db["intake"] : On(Cut(L[r], {"batch"}), "intake", row)} = {L[r]["intake"]}
  BY DEF Finds
<1>1. L[r]["intake"] = The(db, "intake", "id", r["intake"]) /\ L[r]["batch"] = r
  BY DEF LinkedRows, Whole, RootOf, Tables
<1> HIDE DEF L
<1>2. r # Null
  BY DEF Consistent, Tables
<1>3. Value(L[r], "batch", "intake") = r["intake"]
  BY <1>1, <1>2 DEF Value
<1>4. \A row : On(Cut(L[r], {"batch"}), "intake", row) <=> row["id"] = r["intake"]
  BY <1>3, OnParent
<1>5. {row \in db["intake"] : row["id"] = r["intake"]} = {The(db, "intake", "id", r["intake"])}
  <2>1. <<"batch", "intake">> \in ForeignKeys /\ "batch" # "message"
    BY DEF ForeignKeys
  <2> QED
    BY <2>1, TheParent
<1> QED
  BY <1>1, <1>4, <1>5 DEF L

\* The joins of the lists of tasks find exactly the batch of each and its intake.
LEMMA TaskFinds ==
  ASSUME NEW db, Consistent(db), NEW list \in {"tasks", "results", "assomi"}
  PROVE  LET root == RootOf(list)
         IN /\ Finds(db, LinkedRows(db, list), db[root], {root}, "inner", "batch")
            /\ Finds(db, LinkedRows(db, list), db[root], {root, "batch"}, "inner", "intake")
<1> DEFINE L == LinkedRows(db, list)
           root == RootOf(list)
<1>0. root \in {"task", "result", "assomi"} /\ root \in Tables /\ <<root, "batch">> \in ForeignKeys
  BY DEF RootOf, Tables, ForeignKeys
<1> SUFFICES ASSUME NEW r \in db[root]
             PROVE  /\ {row \in db["batch"] : On(Cut(L[r], {root}), "batch", row)} = {L[r]["batch"]}
                    /\ {row \in db["intake"] : On(Cut(L[r], {root, "batch"}), "intake", row)} = {L[r]["intake"]}
  BY DEF Finds
<1> DEFINE b == The(db, "batch", "id", r["batch"])
<1>1. L[r][root] = r /\ L[r]["batch"] = b /\ L[r]["intake"] = The(db, "intake", "id", b["intake"])
  <2>1. L[r] = [t \in Tables |-> CASE t = RootOf(list) -> r
                                   [] t = "batch"  -> b
                                   [] t = "intake" -> The(db, "intake", "id", b["intake"])
                                   [] OTHER -> Null]
    BY DEF LinkedRows, Whole
  <2> HIDE DEF L, b
  <2> QED
    BY <1>0, <2>1 DEF Tables
<1> HIDE DEF L
<1>2. {row \in db["batch"] : row["id"] = r["batch"]} = {b} /\ b \in db["batch"]
  BY <1>0, TheParent
<1> HIDE DEF b
<1>3. {row \in db["intake"] : row["id"] = b["intake"]} = {The(db, "intake", "id", b["intake"])}
  <2>1. <<"batch", "intake">> \in ForeignKeys /\ "batch" # "message"
    BY DEF ForeignKeys
  <2> QED
    BY <1>2, <2>1, TheParent
<1>4. r # Null /\ b # Null
  BY <1>0, <1>2 DEF Consistent, Tables
<1>5. Value(L[r], root, "batch") = r["batch"] /\ Value(L[r], "batch", "intake") = b["intake"]
  BY <1>1, <1>4 DEF Value
<1> HIDE DEF root
<1>6. \A row : On(Cut(L[r], {root}), "batch", row) <=> row["id"] = r["batch"]
  BY <1>0, <1>5, OnParent
<1>7. \A row : On(Cut(L[r], {root, "batch"}), "intake", row) <=> row["id"] = b["intake"]
  <2>1. {root, "batch"} = {"task", "batch"} \/ {root, "batch"} = {"result", "batch"} \/ {root, "batch"} = {"assomi", "batch"}
    BY <1>0
  <2> DEFINE D == {root, "batch"}
  <2> HIDE DEF D
  <2>2. D = {"task", "batch"} \/ D = {"result", "batch"} \/ D = {"assomi", "batch"}
    BY <2>1 DEF D
  <2>3. \A row : On(Cut(L[r], D), "intake", row) <=> row["id"] = Value(L[r], "batch", "intake")
    BY <2>2, OnParent
  <2> QED
    BY <1>5, <2>3 DEF D
<1> QED
  BY <1>1, <1>2, <1>3, <1>6, <1>7

\* Every row of a list is the root of its own tuple.
LEMMA RootRow ==
  ASSUME NEW db, NEW list \in Lists, NEW r \in db[RootOf(list)]
  PROVE  RootOf(list) \in Tables /\ LinkedRows(db, list)[r][RootOf(list)] = r
<1>1. LinkedRows(db, list)[r] = Whole(db, list, r)
  BY DEF LinkedRows
<1>2. CASE list \in {"intakes", "monitoring"}
  BY <1>1, <1>2 DEF Whole, RootOf, Tables
<1>3. CASE list = "batches"
  BY <1>1, <1>3 DEF Whole, RootOf, Tables
<1>4. CASE list \in {"tasks", "results", "assomi"}
  <2> DEFINE b == The(db, "batch", "id", r["batch"])
             x == Whole(db, list, r)
  <2>1. RootOf(list) \in Tables /\ RootOf(list) \in {"task", "result", "assomi"}
    BY <1>4 DEF RootOf, Tables
  <2>2. x = [t \in Tables |-> CASE t = RootOf(list) -> r
                                [] t = "batch"  -> b
                                [] t = "intake" -> The(db, "intake", "id", b["intake"])
                                [] OTHER -> Null]
    BY <1>4 DEF Whole
  <2> HIDE DEF x, b
  <2>3. x[RootOf(list)] = r
    BY <2>1, <2>2
  <2> QED
    BY <1>1, <2>1, <2>3 DEF x
<1>5. CASE list \in {"senders", "messages", "errors"}
  BY <1>1, <1>5 DEF Whole, RootOf, Tables
<1> QED
  BY <1>2, <1>3, <1>4, <1>5 DEF Lists

-----------------------------------------------------------------------------
(* The tables of a statement, and that its clauses are about them. *)

Where(condition, tables) == IF condition THEN tables ELSE {}
TablesOf(list, statement, f) ==
  {RootOf(list)} \cup
  CASE list = "intakes"    -> Where(statement = "list" \/ f.paused # Null \/ f.single # Null, {"batch"})
    [] list = "monitoring" -> {"batch"} \cup Where(statement = "list" \/ f.result # Null, {"result"})
                                        \cup Where(statement = "list" \/ f.assomi # Null, {"assomi"})
                                        \cup Where(statement = "list", {"message"})
    [] list = "batches"    -> {"intake"}
    [] list \in {"tasks", "results", "assomi"} -> Where(statement = "list" \/ f.number # Null, {"batch", "intake"})
    [] OTHER               -> {}

FromRight(db, list, statement, f) ==
  /\ Chained(db, LinkedRows(db, list), From(list, statement, f), RootOf(list))
  /\ FromTables(list, statement, f) = TablesOf(list, statement, f)

\* FROM of every statement is a chain of such joins.
LEMMA FromChained ==
  ASSUME NEW db, Consistent(db), NEW list \in Lists, NEW statement, NEW f
  PROVE  FromRight(db, list, statement, f)
<1> DEFINE L == LinkedRows(db, list)
           root == RootOf(list)
           Good(from, D) == Chained(db, L, from, root) /\ Names(from) = D
<1>1. Good(Root(root), {root}) /\ root \in Tables
  <2>1. root \in Tables /\ \A r \in db[root] : L[r][root] = r
    BY RootRow DEF RootOf, Tables, Lists
  <2> HIDE DEF L, root
  <2> QED
    BY <2>1, ChainStart
<1>2. ASSUME NEW from, NEW D, Good(from, D),
             NEW kind \in {"inner", "outer"}, NEW condition \in BOOLEAN, NEW t \in Tables,
             condition => Finds(db, L, db[root], D, kind, t)
      PROVE  Good(from \o Joins(kind, condition, <<t>>), D \cup Where(condition, {t}))
  <2> HIDE DEF L, root
  <2>1. /\ Chained(db, L, from \o Joins(kind, condition, <<t>>), root)
        /\ Names(from \o Joins(kind, condition, <<t>>)) = Names(from) \cup IF condition THEN {t} ELSE {}
    BY <1>2, ChainJoin
  <2> QED
    BY <1>2, <2>1 DEF Where
<1>3. ASSUME NEW from, Good(from, TablesOf(list, statement, f)), From(list, statement, f) = from
      PROVE  FromRight(db, list, statement, f)
  BY <1>3 DEF FromRight, Names, FromTables
<1> HIDE DEF Good
<1>4. CASE list = "intakes"
  <2> DEFINE c == statement = "list" \/ f.paused # Null \/ f.single # Null
             from == Root("intake") \o Joins("outer", c, <<"batch">>)
  <2>1. root = "intake" /\ "batch" \in Tables
    BY <1>4 DEF RootOf, Tables
  <2>2. c => Finds(db, L, db[root], {root}, "outer", "batch")
    BY <1>4, <2>1, IntakeFinds
  <2>3. From(list, statement, f) = from
    BY <1>4 DEF From, IntakeFrom
  <2>4. TablesOf(list, statement, f) = {root} \cup Where(c, {"batch"})
    BY <1>4 DEF TablesOf
  <2>5. c \in BOOLEAN /\ Root("intake") = Root(root)
    BY <2>1
  <2> HIDE DEF c, L, root
  <2>6. Good(from, {root} \cup Where(c, {"batch"}))
    BY <1>1, <1>2, <2>1, <2>2, <2>5
  <2> QED
    BY <1>3, <2>3, <2>4, <2>6
<1>5. CASE list = "monitoring"
  <2> DEFINE c == statement = "list" \/ f.result # Null
             d == statement = "list" \/ f.assomi # Null
             e == statement = "list"
             a0 == Root("intake") \o Joins("outer", TRUE, <<"batch">>)
             a1 == a0 \o Joins("outer", c, <<"result">>)
             a2 == a1 \o Joins("outer", d, <<"assomi">>)
             a3 == a2 \o Joins("outer", e, <<"message">>)
             D0 == {"intake", "batch"}
             D1 == D0 \cup Where(c, {"result"})
             D2 == D1 \cup Where(d, {"assomi"})
             D3 == D2 \cup Where(e, {"message"})
  <2>1. root = "intake" /\ "batch" \in Tables /\ "result" \in Tables /\ "assomi" \in Tables /\ "message" \in Tables
    BY <1>5 DEF RootOf, Tables
  <2>2. c \in BOOLEAN /\ d \in BOOLEAN /\ e \in BOOLEAN /\ Root("intake") = Root(root)
    BY <2>1
  <2>3. From(list, statement, f) = a3
    BY <1>5 DEF From, MonitoringFrom
  <2>4. TablesOf(list, statement, f) = D3
    BY <1>5, <2>1 DEF TablesOf
  <2>5. /\ D1 \subseteq {"intake", "batch", "result", "assomi"} /\ "batch" \in D1 /\ "batch" \in D0
        /\ D2 \subseteq {"intake", "batch", "result", "assomi"} /\ "intake" \in D2
        /\ D0 \subseteq {"intake", "batch", "result", "assomi"}
    BY DEF Where
  <2>6. {root} \cup Where(TRUE, {"batch"}) = D0
    BY <2>1 DEF Where
  <2> HIDE DEF c, d, e
  <2>7. Finds(db, L, db[root], {root}, "outer", "batch")
    BY <1>5, <2>1, IntakeFinds
  <2> HIDE DEF D0, a0
  <2>8. Finds(db, L, db[root], D0, "outer", "result")
    BY <1>5, <2>1, <2>5, IntakeFinds
  <2> HIDE DEF D1, a1
  <2>9. Finds(db, L, db[root], D1, "outer", "assomi")
    BY <1>5, <2>1, <2>5, IntakeFinds
  <2> HIDE DEF D2, a2
  <2>10. Finds(db, L, db[root], D2, "outer", "message")
    BY <1>5, <2>1, <2>5, IntakeFinds
  <2> HIDE DEF D3, a3, L
  <2>11. Good(a0, D0)
    <3> DEFINE b0 == Root("intake")
               E == {root}
    <3>1. Good(b0, E)
      BY <1>1, <2>2
    <3> HIDE DEF b0, E, root
    <3>2. Good(b0 \o Joins("outer", TRUE, <<"batch">>), E \cup Where(TRUE, {"batch"}))
      BY <1>2, <2>1, <2>7, <3>1 DEF E
    <3> QED
      BY <2>6, <3>2 DEF a0, b0, E
  <2> HIDE DEF root
  <2>12. Good(a1, D1)
    BY <1>2, <2>1, <2>2, <2>8, <2>11 DEF a1, D1
  <2>13. Good(a2, D2)
    BY <1>2, <2>1, <2>2, <2>9, <2>12 DEF a2, D2
  <2>14. Good(a3, D3)
    BY <1>2, <2>1, <2>2, <2>10, <2>13 DEF a3, D3
  <2> QED
    BY <1>3, <2>3, <2>4, <2>14
<1>6. CASE list = "batches"
  <2> DEFINE from == Root("batch") \o Joins("inner", TRUE, <<"intake">>)
  <2>1. root = "batch" /\ "intake" \in Tables
    BY <1>6 DEF RootOf, Tables
  <2>2. Finds(db, L, db[root], {root}, "inner", "intake")
    BY <1>6, <2>1, BatchFinds
  <2>3. From(list, statement, f) = from
    BY <1>6 DEF From, BatchFrom
  <2>4. TablesOf(list, statement, f) = {root} \cup Where(TRUE, {"intake"})
    BY <1>6 DEF TablesOf, Where
  <2>5. Root("batch") = Root(root)
    BY <2>1
  <2> HIDE DEF L, root
  <2>6. Good(from, {root} \cup Where(TRUE, {"intake"}))
    BY <1>1, <1>2, <2>1, <2>2, <2>5
  <2> QED
    BY <1>3, <2>3, <2>4, <2>6
<1>7. CASE list \in {"tasks", "results", "assomi"}
  <2> DEFINE c == statement = "list" \/ f.number # Null
             a0 == Root(root)
             a1 == a0 \o Joins("inner", c, <<"batch">>)
             a2 == a1 \o Joins("inner", c, <<"intake">>)
             D1 == {root} \cup Where(c, {"batch"})
             D2 == D1 \cup Where(c, {"intake"})
  <2>1. "batch" \in Tables /\ "intake" \in Tables /\ c \in BOOLEAN
    BY DEF Tables
  <2>2. /\ Finds(db, L, db[root], {root}, "inner", "batch")
        /\ Finds(db, L, db[root], {root, "batch"}, "inner", "intake")
    BY <1>7, TaskFinds
  <2>3. From(list, statement, f) = a0 \o Joins("inner", c, <<"batch", "intake">>)
    <3>1. /\ list = "tasks" => root = "task" /\ From(list, statement, f) = TaskFrom(statement, f)
          /\ list = "results" => root = "result" /\ From(list, statement, f) = ResultFrom(statement, f)
          /\ list = "assomi" => root = "assomi" /\ From(list, statement, f) = AssomiFrom(statement, f)
      BY DEF RootOf, From
    <3> QED
      BY <1>7, <3>1 DEF TaskFrom, ResultFrom, AssomiFrom
  <2>4. TablesOf(list, statement, f) = D2
    <3>1. TablesOf(list, statement, f) = {root} \cup Where(c, {"batch", "intake"})
      BY <1>7 DEF TablesOf
    <3> QED
      BY <3>1 DEF Where
  <2> HIDE DEF c, L, root
  <2>5. c => D1 = {root, "batch"}
    BY DEF Where
  <2>6. Good(a1, D1)
    <3> HIDE DEF a0
    <3>1. Good(a0, {root})
      BY <1>1 DEF a0
    <3> QED
      BY <1>2, <2>1, <2>2, <3>1
  <2>7. Good(a2, D2)
    <3> HIDE DEF a1, D1
    <3>1. c => Finds(db, L, db[root], D1, "inner", "intake")
      BY <2>2, <2>5
    <3> QED
      BY <1>2, <2>1, <2>6, <3>1
  <2>8. a2 = a0 \o Joins("inner", c, <<"batch", "intake">>)
    <3> DEFINE E == {"root", "inner", "outer"} \X Tables
    <3>1. a0 \in Seq(E)
      BY <1>1 DEF Good, Chained
    <3> HIDE DEF a0, E
    <3> QED
      BY <2>1, <3>1, TwoJoins
  <2> HIDE DEF a0, a1, a2, D1, D2
  <2> QED
    BY <1>3, <2>3, <2>4, <2>7, <2>8
<1>8. CASE list \in {"senders", "messages", "errors"}
  <2>1. From(list, statement, f) = Root(root)
    BY <1>8 DEF From, RootOf
  <2>2. TablesOf(list, statement, f) = {root}
    BY <1>8 DEF TablesOf
  <2> QED
    BY <1>1, <1>3, <2>1, <2>2
<1> QED
  BY <1>4, <1>5, <1>6, <1>7, <1>8 DEF Lists

\* The tables of the clauses that given parameters add.
LEMMA GivenTables ==
  ASSUME NEW f, NEW forms, NEW D, \A g \in forms : f[g[1]] # Null => g[3] \in D
  PROVE  \A c \in Given(f, forms) : c[2] \in D
BY DEF Given

\* The table of the clause that a parameter with the sentinel adds.
LEMMA NullableTables ==
  ASSUME NEW f, NEW p, NEW t, NEW m, NEW n, NEW D, f[p] # Null => t \in D
  PROVE  \A c \in Nullable(f, p, t, m, n) : c[2] \in D
BY DEF Nullable

\* The tables of the clauses about an intake.
LEMMA IntakeTables ==
  ASSUME NEW f, FilterOf("intakes", f) \/ FilterOf("monitoring", f),
         NEW D, "intake" \in D, f.paused # Null \/ f.single # Null => "batch" \in D
  PROVE  \A c \in IntakeClauses(f) : c[2] \in D
<1> DEFINE forms == {<<"sender", "like", "intake", "sender">>, <<"file", "like", "intake", "file">>,
                     <<"from", ">=", "intake", "at">>, <<"to", "<=", "intake", "at">>,
                     <<"status", "is", "intake", "status">>, <<"source", "is", "intake", "source">>,
                     <<"id", "is", "intake", "id">>, <<"number", "is", "intake", "number">>}
           channel == {<<"channel", "channel", "intake", "id">>}
<1>1. (\A g \in forms : g[3] = "intake") /\ (\A g \in channel : g[3] = "intake")
  OBVIOUS
<1> HIDE DEF forms, channel
<1>2. (\A c \in Given(f, forms) : c[2] \in D) /\ (\A c \in Given(f, channel) : c[2] \in D)
  BY <1>1, GivenTables
<1>3. f.paused \in BOOLEAN \cup {Null}
  BY DEF FilterOf, Parameters
<1>4. \A c \in PausedClauses(f) : c[2] \in D
  <2>1. CASE f.paused = Null
    BY <2>1, NullAssumption DEF PausedClauses
  <2>2. CASE f.paused = TRUE
    <3>1. f.paused # Null
      BY <2>2, NullAssumption
    <3>2. PausedClauses(f) = {<<"not", "batch", "id", Null>>, <<"is", "batch", "paused", TRUE>>}
      BY <2>2, <3>1, NullAssumption DEF PausedClauses
    <3>3. \A c \in {<<"not", "batch", "id", Null>>, <<"is", "batch", "paused", TRUE>>} : c[2] = "batch"
      <4> DEFINE yes == TRUE
      <4> HIDE DEF yes
      <4>1. \A c \in {<<"not", "batch", "id", Null>>, <<"is", "batch", "paused", yes>>} : c[2] = "batch"
        OBVIOUS
      <4> QED
        BY <4>1 DEF yes
    <3> QED
      BY <3>1, <3>2, <3>3
  <2>3. CASE f.paused = FALSE
    <3>1. f.paused # Null
      BY <2>3, NullAssumption
    <3>2. PausedClauses(f) = {<<"nullOr", "batch", "paused", FALSE>>}
      BY <2>3, <3>1, NullAssumption DEF PausedClauses
    <3> QED
      BY <3>1, <3>2
  <2> QED
    BY <1>3, <2>1, <2>2, <2>3
<1>5. \A c \in SingleClauses(f) : c[2] \in D
  BY DEF SingleClauses
<1>6. IntakeClauses(f) = Given(f, forms) \cup PausedClauses(f) \cup Given(f, channel) \cup SingleClauses(f)
  BY DEF IntakeClauses, forms, channel
<1> QED
  BY <1>2, <1>4, <1>5, <1>6

\* FROM has the tables of all clauses: nothing is crossed.
LEMMA ClausesCovered ==
  ASSUME NEW list \in Lists, NEW statement, NEW f, FilterOf(list, f)
  PROVE  \A c \in Clauses(list, f) : c[2] \in TablesOf(list, statement, f)
<1> DEFINE D == TablesOf(list, statement, f)
<1>0. RootOf(list) \in D
  BY DEF TablesOf
<1>1. CASE list = "intakes"
  <2>1. "intake" \in D /\ (f.paused # Null \/ f.single # Null => "batch" \in D)
    BY <1>1 DEF TablesOf, RootOf, Where
  <2>2. Clauses(list, f) = IntakeClauses(f)
    BY <1>1 DEF Clauses
  <2> HIDE DEF D
  <2>3. \A c \in IntakeClauses(f) : c[2] \in D
    BY <1>1, <2>1, IntakeTables
  <2> QED
    BY <2>2, <2>3 DEF D
<1>2. CASE list = "monitoring"
  <2>1. "intake" \in D /\ "batch" \in D /\ (f.result # Null => "result" \in D) /\ (f.assomi # Null => "assomi" \in D)
    BY <1>2 DEF TablesOf, RootOf, Where
  <2>2. Clauses(list, f) = MonitoringClauses(f)
    BY <1>2 DEF Clauses
  <2> HIDE DEF D
  <2>3. \A c \in IntakeClauses(f) : c[2] \in D
    BY <1>2, <2>1, IntakeTables
  <2>4. \A c \in Nullable(f, "result", "result", "id", "status") : c[2] \in D
    BY <2>1, NullableTables
  <2>5. \A c \in Nullable(f, "assomi", "assomi", "id", "status") : c[2] \in D
    BY <2>1, NullableTables
  <2> QED
    BY <2>2, <2>3, <2>4, <2>5 DEF D, MonitoringClauses
<1>3. CASE list = "batches"
  <2>1. "batch" \in D /\ "intake" \in D
    BY <1>3 DEF TablesOf, RootOf
  <2> DEFINE forms == {<<"sender", "like", "intake", "sender">>, <<"file", "like", "intake", "file">>,
                       <<"from", ">=", "batch", "at">>, <<"to", "<=", "batch", "at">>,
                       <<"min", ">=", "batch", "rows">>, <<"max", "<=", "batch", "rows">>,
                       <<"id", "is", "batch", "id">>, <<"number", "is", "intake", "number">>}
  <2>2. Clauses(list, f) = Given(f, forms)
    BY <1>3 DEF Clauses, BatchClauses
  <2>3. \A g \in forms : g[3] \in {"intake", "batch"}
    OBVIOUS
  <2> HIDE DEF D, forms
  <2>4. \A c \in Given(f, forms) : c[2] \in D
    BY <2>1, <2>3, GivenTables
  <2> QED
    BY <2>2, <2>4 DEF D
<1>4. CASE list = "tasks"
  <2>1. "task" \in D /\ (f["number"] # Null => "intake" \in D)
    BY <1>4 DEF TablesOf, RootOf, Where
  <2> DEFINE forms == {<<"batch", "is", "task", "batch">>, <<"number", "is", "intake", "number">>,
                       <<"region", "is", "task", "region">>,
                       <<"from", ">=", "task", "at">>, <<"to", "<=", "task", "at">>}
  <2>2. Clauses(list, f) = Given(f, forms) \cup Nullable(f, "status", "task", "status", "status")
                                           \cup Nullable(f, "request", "task", "request", "request")
    BY <1>4 DEF Clauses, TaskClauses
  <2>3. \A g \in forms : g[3] = "task" \/ (g[1] = "number" /\ g[3] = "intake")
    OBVIOUS
  <2> HIDE DEF D, forms
  <2>4. \A c \in Given(f, forms) : c[2] \in D
    BY <2>1, <2>3, GivenTables
  <2>5. \A c \in Nullable(f, "status", "task", "status", "status") : c[2] \in D
    BY <2>1, NullableTables
  <2>6. \A c \in Nullable(f, "request", "task", "request", "request") : c[2] \in D
    BY <2>1, NullableTables
  <2> QED
    BY <2>2, <2>4, <2>5, <2>6 DEF D
<1>5. CASE list = "results"
  <2>1. "result" \in D /\ (f["number"] # Null => "intake" \in D)
    BY <1>5 DEF TablesOf, RootOf, Where
  <2> DEFINE forms == {<<"id", "is", "result", "id">>, <<"batch", "is", "result", "batch">>,
                       <<"number", "is", "intake", "number">>, <<"status", "is", "result", "status">>,
                       <<"from", ">=", "result", "at">>, <<"to", "<=", "result", "at">>,
                       <<"doneFrom", ">=", "result", "done">>, <<"doneTo", "<=", "result", "done">>}
  <2>2. Clauses(list, f) = Given(f, forms)
    BY <1>5 DEF Clauses, ResultClauses
  <2>3. \A g \in forms : g[3] = "result" \/ (g[1] = "number" /\ g[3] = "intake")
    OBVIOUS
  <2> HIDE DEF D, forms
  <2>4. \A c \in Given(f, forms) : c[2] \in D
    BY <2>1, <2>3, GivenTables
  <2> QED
    BY <2>2, <2>4 DEF D
<1>6. CASE list = "assomi"
  <2>1. "assomi" \in D /\ (f["number"] # Null => "intake" \in D)
    BY <1>6 DEF TablesOf, RootOf, Where
  <2> DEFINE forms == {<<"id", "is", "assomi", "id">>, <<"aggregation", "is", "assomi", "aggregation">>,
                       <<"batch", "is", "assomi", "batch">>,
                       <<"number", "is", "intake", "number">>, <<"status", "is", "assomi", "status">>,
                       <<"from", ">=", "assomi", "at">>, <<"to", "<=", "assomi", "at">>,
                       <<"doneFrom", ">=", "assomi", "done">>, <<"doneTo", "<=", "assomi", "done">>}
  <2>2. Clauses(list, f) = Given(f, forms)
    BY <1>6 DEF Clauses, AssomiClauses
  <2>3. \A g \in forms : g[3] = "assomi" \/ (g[1] = "number" /\ g[3] = "intake")
    OBVIOUS
  <2> HIDE DEF D, forms
  <2>4. \A c \in Given(f, forms) : c[2] \in D
    BY <2>1, <2>3, GivenTables
  <2> QED
    BY <2>2, <2>4 DEF D
<1>7. CASE list = "senders"
  <2> DEFINE forms == {<<"email", "like", "sender", "email">>, <<"active", "is", "sender", "active">>}
  <2>1. "sender" \in D
    BY <1>0, <1>7 DEF RootOf
  <2>2. Clauses(list, f) = Given(f, forms)
    BY <1>7 DEF Clauses, SenderClauses
  <2>3. \A g \in forms : g[3] = "sender"
    OBVIOUS
  <2> HIDE DEF D, forms
  <2>4. \A c \in Given(f, forms) : c[2] \in D
    BY <2>1, <2>3, GivenTables
  <2> QED
    BY <2>2, <2>4 DEF D
<1>8. CASE list = "messages"
  <2>1. "message" \in D
    BY <1>0, <1>8 DEF RootOf
  <2> DEFINE forms == {<<"sender", "like", "message", "sender">>,
                       <<"processing", "is", "message", "processing">>,
                       <<"from", ">=", "message", "at">>, <<"to", "<=", "message", "at">>}
  <2>2. Clauses(list, f) = Given(f, forms) \cup Nullable(f, "reply", "message", "reply", "reply")
    BY <1>8 DEF Clauses, MessageClauses
  <2>3. \A g \in forms : g[3] = "message"
    OBVIOUS
  <2> HIDE DEF D, forms
  <2>4. \A c \in Given(f, forms) : c[2] \in D
    BY <2>1, <2>3, GivenTables
  <2>5. \A c \in Nullable(f, "reply", "message", "reply", "reply") : c[2] \in D
    BY <2>1, NullableTables
  <2> QED
    BY <2>2, <2>4, <2>5 DEF D
<1>9. CASE list = "errors"
  BY <1>0, <1>9 DEF Clauses, ErrorClauses, RootOf
<1> QED
  BY <1>1, <1>2, <1>3, <1>4, <1>5, <1>6, <1>7, <1>8, <1>9 DEF Lists

-----------------------------------------------------------------------------
(* What a list finds. *)

Found(db, list, f) ==
  {r \in db[RootOf(list)] : \A c \in Clauses(list, f) : Holds(db, c, LinkedRows(db, list)[r])}

\* There is one tuple for every row of the root.
LEMMA TuplesCounted ==
  ASSUME NEW L, NEW R, IsFiniteSet(R), NEW D, NEW root \in D, \A r \in R : L[r][root] = r
  PROVE  /\ {tuple[root] : tuple \in Tuples(L, R, D)} = R
         /\ IsFiniteSet(Tuples(L, R, D)) /\ Cardinality(Tuples(L, R, D)) = Cardinality(R)
<1> DEFINE T == Tuples(L, R, D)
           cut == [r \in R |-> Cut(L[r], D)]
<1>1. \A r \in R : cut[r] \in T /\ cut[r][root] = r
  BY DEF Tuples, Cut
<1>2. \A tuple \in T : \E r \in R : tuple = cut[r]
  BY DEF Tuples
<1>3. cut \in [R -> T]
  BY <1>1
<1> HIDE DEF T, cut
<1>4. cut \in Bijection(R, T)
  BY <1>1, <1>2, <1>3 DEF Bijection, Injection, Surjection, IsInjective
<1>5. ExistsBijection(R, T)
  BY <1>4 DEF ExistsBijection
<1>6. IsFiniteSet(T) /\ Cardinality(T) = Cardinality(R)
  BY <1>5, FS_Bijection
<1>7. {tuple[root] : tuple \in T} = R
  BY <1>1, <1>2
<1> QED
  BY <1>6, <1>7 DEF T

\* A statement selects a tuple for every row that is found; the tables it joins
\* for that are its own affair.
SelectsFound(db, list, statement, f) ==
  LET found == Found(db, list, f)
      rows == Selected(db, list, statement, f)
  IN /\ IsFiniteSet(found) /\ IsFiniteSet(rows) /\ Cardinality(rows) = Cardinality(found)
     /\ Roots(list, rows) = found

\* The first table of FROM is the one that is listed.
LEMMA RootTableIs ==
  ASSUME NEW db, Consistent(db), NEW list \in Lists
  PROVE  RootTable(list) = RootOf(list)
<1> DEFINE f == [p \in {"paused", "single", "result", "assomi", "number"} |-> Null]
           from == From(list, "list", f)
           e == <<"root", RootOf(list)>>
<1>1. FromRight(db, list, "list", f)
  <2> HIDE DEF f
  <2> QED
    BY FromChained
<1>2. from[1] = e
  BY <1>1 DEF FromRight, Chained
<1>3. e[2] = RootOf(list)
  OBVIOUS
<1>4. RootTable(list) = from[1][2]
  BY DEF RootTable
<1> QED
  BY <1>2, <1>3, <1>4

\* A statement selects one tuple for every row that is found, and no other.
LEMMA SelectedFound ==
  ASSUME NEW db, Consistent(db), NEW list \in Lists, NEW statement, NEW f, FilterOf(list, f)
  PROVE  SelectsFound(db, list, statement, f)
<1> DEFINE L == LinkedRows(db, list)
           root == RootOf(list)
           D == TablesOf(list, statement, f)
           R == Found(db, list, f)
<1>1. /\ Chained(db, L, From(list, statement, f), root)
      /\ FromTables(list, statement, f) = D
  BY FromChained DEF FromRight
<1>2. \A c \in Clauses(list, f) : c[2] \in D
  BY ClausesCovered
<1>3. Selected(db, list, statement, f) = Tuples(L, R, D)
  <2> HIDE DEF L, root, D
  <2>1. Selected(db, list, statement, f)
          = Tuples(L, {r \in db[root] : \A c \in Clauses(list, f) : Holds(db, c, L[r])}, FromTables(list, statement, f))
    BY <1>1, <1>2, SelectedIs
  <2> QED
    BY <1>1, <2>1 DEF Found, L, root
<1>4. root \in D
  BY DEF TablesOf
<1>5. root \in Tables /\ \A r \in db[root] : L[r][root] = r
  BY RootRow DEF RootOf, Tables, Lists
<1>6. IsFiniteSet(R)
  <2>1. IsFiniteSet(db[root])
    BY <1>5 DEF Consistent
  <2>2. R \in SUBSET db[root]
    BY DEF Found
  <2> HIDE DEF R
  <2> QED
    BY <2>1, <2>2, FS_Subset
<1>7. \A r \in R : L[r][root] = r
  BY <1>5 DEF Found
<1>8. RootTable(list) = root
  BY RootTableIs
<1> HIDE DEF L, root, D, R
<1>9. /\ {tuple[root] : tuple \in Tuples(L, R, D)} = R
      /\ IsFiniteSet(Tuples(L, R, D)) /\ Cardinality(Tuples(L, R, D)) = Cardinality(R)
  BY <1>4, <1>6, <1>7, TuplesCounted
<1>10. Roots(list, Tuples(L, R, D)) = R
  BY <1>8, <1>9 DEF Roots
<1> QED
  BY <1>3, <1>6, <1>9, <1>10 DEF SelectsFound, R

-----------------------------------------------------------------------------
(* A parameter that splits a list. *)

\* the clauses that a value of the parameter adds
Extra(p, v) ==
  CASE p = "paused"  -> IF v THEN {<<"not", "batch", "id", Null>>, <<"is", "batch", "paused", TRUE>>}
                        ELSE {<<"nullOr", "batch", "paused", FALSE>>}
    [] p = "channel" -> {<<"channel", "intake", "id", v>>}
    [] p = "result"  -> IF v = NullSentinel THEN {<<"is", "result", "id", Null>>} ELSE {<<"is", "result", "status", v>>}
    [] p = "assomi"  -> IF v = NullSentinel THEN {<<"is", "assomi", "id", Null>>} ELSE {<<"is", "assomi", "status", v>>}
    [] p = "status"  -> IF v = NullSentinel THEN {<<"is", "task", "status", Null>>} ELSE {<<"is", "task", "status", v>>}
    [] p = "reply"   -> IF v = NullSentinel THEN {<<"is", "message", "reply", Null>>} ELSE {<<"is", "message", "reply", v>>}

\* Clauses depend on their own parameters only.
LEMMA GivenSame ==
  ASSUME NEW f, NEW g, NEW forms, \A form \in forms : g[form[1]] = f[form[1]]
  PROVE  Given(g, forms) = Given(f, forms)
BY DEF Given

\* A clause with the sentinel depends on its own parameter only.
LEMMA NullableSame ==
  ASSUME NEW f, NEW g, NEW p, g[p] = f[p], NEW t, NEW m, NEW n
  PROVE  Nullable(g, p, t, m, n) = Nullable(f, p, t, m, n)
BY DEF Nullable

\* g is f, but gives p the value v
Gives(list, f, p, v, g) ==
  /\ FilterOf(list, f) /\ p \in Parameters(list) /\ f[p] = Null /\ v # Null
  /\ g = [f EXCEPT ![p] = v]

\* A filter that gives one more parameter gives the others as before.
LEMMA GivesFacts ==
  ASSUME NEW list, NEW f, NEW p, NEW v, NEW g, Gives(list, f, p, v, g)
  PROVE  /\ DOMAIN g = Parameters(list) /\ g[p] = v
         /\ \A q \in Parameters(list) : q # p => g[q] = f[q]
BY DEF Gives, FilterOf

\* A value of a parameter that splits the intakes adds its own clauses only.
LEMMA IntakeSplit ==
  ASSUME NEW list \in {"intakes", "monitoring"}, NEW f, NEW p, NEW v, NEW g, Gives(list, f, p, v, g),
         p \in {"paused", "channel", "result", "assomi"}, p = "paused" => v \in BOOLEAN
  PROVE  IntakeClauses(g) = IntakeClauses(f) \cup IF p \in {"paused", "channel"} THEN Extra(p, v) ELSE {}
<1> DEFINE forms == {<<"sender", "like", "intake", "sender">>, <<"file", "like", "intake", "file">>,
                     <<"from", ">=", "intake", "at">>, <<"to", "<=", "intake", "at">>,
                     <<"status", "is", "intake", "status">>, <<"source", "is", "intake", "source">>,
                     <<"id", "is", "intake", "id">>, <<"number", "is", "intake", "number">>}
           form == <<"channel", "channel", "intake", "id">>
           P == {"sender", "file", "from", "to", "status", "source", "id", "number", "single"}
<1>1. P \cup {"paused", "channel"} \subseteq Parameters(list) /\ p \notin P
  BY DEF Parameters
<1>2. /\ g[p] = v /\ \A q \in Parameters(list) : q # p => g[q] = f[q]
  BY GivesFacts
<1>3. f[p] = Null /\ v # Null
  BY DEF Gives
<1>4. \A q \in P : g[q] = f[q]
  BY <1>1, <1>2
<1>5. \A c \in forms : c[1] \in P
  OBVIOUS
<1>6. Given(g, forms) = Given(f, forms)
  <2> HIDE DEF forms, P
  <2> QED
    BY <1>4, <1>5, GivenSame
<1>7. SingleClauses(g) = SingleClauses(f)
  BY <1>4 DEF SingleClauses
<1>8. PausedClauses(g) = PausedClauses(f) \cup IF p = "paused" THEN Extra(p, v) ELSE {}
  <2>1. CASE p = "paused"
    <3>1. PausedClauses(f) = {}
      BY <1>3, <2>1, NullAssumption DEF PausedClauses
    <3>2. g.paused = v /\ v \in BOOLEAN /\ Null \notin BOOLEAN
      BY <1>2, <2>1, NullAssumption
    <3>3. CASE v = TRUE
      <4>1. PausedClauses(g) = {<<"not", "batch", "id", Null>>, <<"is", "batch", "paused", TRUE>>}
        BY <3>2, <3>3 DEF PausedClauses
      <4>2. Extra(p, v) = {<<"not", "batch", "id", Null>>, <<"is", "batch", "paused", TRUE>>}
        BY <2>1, <3>3 DEF Extra
      <4> QED
        BY <2>1, <3>1, <4>1, <4>2
    <3>4. CASE v = FALSE
      <4>1. PausedClauses(g) = {<<"nullOr", "batch", "paused", FALSE>>}
        BY <3>2, <3>4 DEF PausedClauses
      <4>2. Extra(p, v) = {<<"nullOr", "batch", "paused", FALSE>>}
        BY <2>1, <3>4 DEF Extra
      <4> QED
        BY <2>1, <3>1, <4>1, <4>2
    <3> QED
      BY <3>2, <3>3, <3>4
  <2>2. CASE p # "paused"
    <3>1. g.paused = f.paused
      BY <1>1, <1>2, <2>2
    <3> QED
      BY <2>2, <3>1 DEF PausedClauses
  <2> QED
    BY <2>1, <2>2
<1>9. Given(g, {form}) = Given(f, {form}) \cup IF p = "channel" THEN Extra(p, v) ELSE {}
  <2>1. form[1] = "channel" /\ form[2] = "channel" /\ form[3] = "intake" /\ form[4] = "id"
    OBVIOUS
  <2>2. CASE p = "channel"
    <3>1. Extra(p, v) = {<<"channel", "intake", "id", v>>}
      BY <2>2 DEF Extra
    <3> HIDE DEF form
    <3>2. Given(f, {form}) = {}
      BY <1>3, <2>1, <2>2 DEF Given
    <3>3. Given(g, {form}) = {<<"channel", "intake", "id", v>>}
      BY <1>2, <1>3, <2>1, <2>2 DEF Given
    <3> QED
      BY <2>2, <3>1, <3>2, <3>3
  <2>3. CASE p # "channel"
    <3>1. g["channel"] = f["channel"]
      BY <1>1, <1>2, <2>3
    <3> HIDE DEF form
    <3>2. Given(g, {form}) = Given(f, {form})
      BY <2>1, <3>1, GivenSame
    <3> QED
      BY <2>3, <3>2
  <2> QED
    BY <2>2, <2>3
<1>10. \A h : IntakeClauses(h) = Given(h, forms) \cup PausedClauses(h) \cup Given(h, {form}) \cup SingleClauses(h)
  BY DEF IntakeClauses
<1> HIDE DEF forms, form
<1>11. /\ IntakeClauses(g) = Given(g, forms) \cup PausedClauses(g) \cup Given(g, {form}) \cup SingleClauses(g)
       /\ IntakeClauses(f) = Given(f, forms) \cup PausedClauses(f) \cup Given(f, {form}) \cup SingleClauses(f)
  BY <1>10
<1>12. CASE p = "paused"
  BY <1>6, <1>7, <1>8, <1>9, <1>11, <1>12
<1>13. CASE p = "channel"
  BY <1>6, <1>7, <1>8, <1>9, <1>11, <1>13
<1>14. CASE p \in {"result", "assomi"}
  BY <1>6, <1>7, <1>8, <1>9, <1>11, <1>14
<1> QED
  BY <1>12, <1>13, <1>14

\* p splits the list into the parts that its values V find.
SplitsInto(list, p, V) ==
  \/ list \in {"intakes", "monitoring"} /\ p = "paused" /\ V = BOOLEAN
  \/ list \in {"intakes", "monitoring"} /\ p = "channel" /\ V = {"email", "web"}
  \/ list = "monitoring" /\ p = "result" /\ V = ResultStatus \cup {NullSentinel}
  \/ list = "monitoring" /\ p = "assomi" /\ V = AssomiStatus \cup {NullSentinel}
  \/ list = "tasks" /\ p = "status" /\ V = {"1", "3", NullSentinel}
  \/ list = "messages" /\ p = "reply" /\ V = {"sent", "failed", NullSentinel}

\* The parameters that divide a list, each with its words.
LEMMA SplitsAre ==
  ASSUME NEW list, NEW split \in Splits(list)
  PROVE  SplitsInto(list, split[1], split[2]) /\ split[1] \in Parameters(list) /\ Null \notin split[2]
<1>1. CASE list = "intakes"
  <2>1. split = <<"paused", BOOLEAN>> \/ split = <<"channel", IntakeWords.channel>>
    BY <1>1 DEF Splits, Words
  <2>2. IntakeWords.channel = {"email", "web"} /\ Null \notin IntakeWords.channel /\ Null \notin BOOLEAN
    BY NullAssumption DEF IntakeWords
  <2> QED
    BY <1>1, <2>1, <2>2 DEF SplitsInto, Parameters
<1>2. CASE list = "monitoring"
  <2>1. \/ split = <<"paused", BOOLEAN>> \/ split = <<"channel", MonitoringWords.channel>>
        \/ split = <<"result", MonitoringWords.result>> \/ split = <<"assomi", MonitoringWords.assomi>>
    BY <1>2 DEF Splits, Words
  <2>2. /\ MonitoringWords.channel = {"email", "web"} /\ Null \notin MonitoringWords.channel /\ Null \notin BOOLEAN
        /\ MonitoringWords.result = ResultStatus \cup {NullSentinel} /\ Null \notin MonitoringWords.result
        /\ MonitoringWords.assomi = AssomiStatus \cup {NullSentinel} /\ Null \notin MonitoringWords.assomi
    BY NullAssumption DEF MonitoringWords
  <2>3. {"paused", "channel", "result", "assomi"} \subseteq Parameters(list)
    BY <1>2 DEF Parameters
  <2> QED
    BY <1>2, <2>1, <2>2, <2>3 DEF SplitsInto
<1>3. CASE list = "tasks"
  <2>1. split = <<"status", TaskWords.status>>
    BY <1>3 DEF Splits, Words
  <2>2. TaskWords.status = {"1", "3", NullSentinel} /\ Null \notin TaskWords.status
    BY NullAssumption DEF TaskWords
  <2> QED
    BY <1>3, <2>1, <2>2 DEF SplitsInto, Parameters
<1>4. CASE list = "messages"
  <2>1. split = <<"reply", MessageWords.reply>>
    BY <1>4 DEF Splits, Words
  <2>2. MessageWords.reply = {"sent", "failed", NullSentinel} /\ Null \notin MessageWords.reply
    BY NullAssumption DEF MessageWords
  <2> QED
    BY <1>4, <2>1, <2>2 DEF SplitsInto, Parameters
<1>5. CASE list \notin {"intakes", "monitoring", "tasks", "messages"}
  BY <1>5 DEF Splits
<1> QED
  BY <1>1, <1>2, <1>3, <1>4, <1>5

\* A value of a parameter that splits a list adds its own clauses only.
LEMMA ClausesSplit ==
  ASSUME NEW list, NEW f, NEW p, NEW V, SplitsInto(list, p, V), NEW v \in V, NEW g, Gives(list, f, p, v, g)
  PROVE  Clauses(list, g) = Clauses(list, f) \cup Extra(p, v)
<1>1. /\ g[p] = v /\ \A q \in Parameters(list) : q # p => g[q] = f[q]
  BY GivesFacts
<1>2. f[p] = Null /\ v # Null
  BY DEF Gives
<1>3. CASE list = "intakes"
  <2>1. p \in {"paused", "channel"} /\ (p = "paused" => v \in BOOLEAN)
    BY <1>3 DEF SplitsInto
  <2>2. IntakeClauses(g) = IntakeClauses(f) \cup Extra(p, v)
    BY <1>3, <2>1, IntakeSplit
  <2> QED
    BY <1>3, <2>2 DEF Clauses
<1>4. CASE list = "monitoring"
  <2>1. p \in {"paused", "channel", "result", "assomi"} /\ (p = "paused" => v \in BOOLEAN)
    BY <1>4 DEF SplitsInto
  <2>2. IntakeClauses(g) = IntakeClauses(f) \cup IF p \in {"paused", "channel"} THEN Extra(p, v) ELSE {}
    BY <1>4, <2>1, IntakeSplit
  <2>3. {"result", "assomi"} \subseteq Parameters(list)
    BY <1>4 DEF Parameters
  <2>4. ASSUME NEW q \in {"result", "assomi"}
        PROVE  Nullable(g, q, q, "id", "status") = Nullable(f, q, q, "id", "status") \cup IF p = q THEN Extra(p, v) ELSE {}
    <3>1. CASE p = q
      <4>1. Nullable(f, q, q, "id", "status") = {}
        BY <1>2, <3>1 DEF Nullable
      <4>2. Nullable(g, q, q, "id", "status")
              = IF v = NullSentinel THEN {<<"is", q, "id", Null>>} ELSE {<<"is", q, "status", v>>}
        BY <1>1, <1>2, <3>1 DEF Nullable
      <4>3. Extra(p, v) = IF v = NullSentinel THEN {<<"is", q, "id", Null>>} ELSE {<<"is", q, "status", v>>}
        BY <3>1, <2>4 DEF Extra
      <4> QED
        BY <3>1, <4>1, <4>2, <4>3
    <3>2. CASE p # q
      <4>1. g[q] = f[q]
        BY <1>1, <2>3, <3>2
      <4> QED
        BY <3>2, <4>1, NullableSame
    <3> QED
      BY <3>1, <3>2
  <2>5. \A h : Clauses(list, h) = IntakeClauses(h) \cup Nullable(h, "result", "result", "id", "status")
                                                   \cup Nullable(h, "assomi", "assomi", "id", "status")
    BY <1>4 DEF Clauses, MonitoringClauses
  <2> DEFINE R(h) == Nullable(h, "result", "result", "id", "status")
             A(h) == Nullable(h, "assomi", "assomi", "id", "status")
  <2>6. /\ R(g) = R(f) \cup IF p = "result" THEN Extra(p, v) ELSE {}
        /\ A(g) = A(f) \cup IF p = "assomi" THEN Extra(p, v) ELSE {}
    BY <2>4
  <2>7. Clauses(list, g) = IntakeClauses(g) \cup R(g) \cup A(g) /\ Clauses(list, f) = IntakeClauses(f) \cup R(f) \cup A(f)
    BY <2>5
  <2> HIDE DEF R, A
  <2>8. CASE p \in {"paused", "channel"}
    BY <2>2, <2>6, <2>7, <2>8
  <2>9. CASE p = "result"
    BY <2>2, <2>6, <2>7, <2>9
  <2>10. CASE p = "assomi"
    BY <2>2, <2>6, <2>7, <2>10
  <2> QED
    BY <2>1, <2>8, <2>9, <2>10
<1>5. CASE list = "tasks"
  <2> DEFINE forms == {<<"batch", "is", "task", "batch">>, <<"number", "is", "intake", "number">>,
                       <<"region", "is", "task", "region">>,
                       <<"from", ">=", "task", "at">>, <<"to", "<=", "task", "at">>}
             P == {"batch", "number", "region", "from", "to", "request"}
  <2>1. p = "status"
    BY <1>5 DEF SplitsInto
  <2>2. \A q \in P : g[q] = f[q]
    <3>1. P \subseteq Parameters(list)
      BY <1>5 DEF Parameters
    <3> QED
      BY <1>1, <2>1, <3>1
  <2>3. \A c \in forms : c[1] \in P
    OBVIOUS
  <2>4. Given(g, forms) = Given(f, forms)
    <3> HIDE DEF forms, P
    <3> QED
      BY <2>2, <2>3, GivenSame
  <2>5. Nullable(g, "request", "task", "request", "request") = Nullable(f, "request", "task", "request", "request")
    BY <2>2, NullableSame
  <2>6. Nullable(f, "status", "task", "status", "status") = {}
    BY <1>2, <2>1 DEF Nullable
  <2>7. Nullable(g, "status", "task", "status", "status") = Extra(p, v)
    BY <1>1, <1>2, <2>1 DEF Nullable, Extra
  <2>8. \A h : Clauses(list, h) = Given(h, forms) \cup Nullable(h, "status", "task", "status", "status")
                                                  \cup Nullable(h, "request", "task", "request", "request")
    BY <1>5 DEF Clauses, TaskClauses
  <2> HIDE DEF forms
  <2>9. /\ Clauses(list, g) = Given(g, forms) \cup Nullable(g, "status", "task", "status", "status")
                                              \cup Nullable(g, "request", "task", "request", "request")
        /\ Clauses(list, f) = Given(f, forms) \cup Nullable(f, "status", "task", "status", "status")
                                              \cup Nullable(f, "request", "task", "request", "request")
    BY <2>8
  <2> QED
    BY <2>4, <2>5, <2>6, <2>7, <2>9
<1>6. CASE list = "messages"
  <2> DEFINE forms == {<<"sender", "like", "message", "sender">>,
                       <<"processing", "is", "message", "processing">>,
                       <<"from", ">=", "message", "at">>, <<"to", "<=", "message", "at">>}
             P == {"sender", "processing", "from", "to"}
  <2>1. p = "reply"
    BY <1>6 DEF SplitsInto
  <2>2. \A q \in P : g[q] = f[q]
    <3>1. P \subseteq Parameters(list)
      BY <1>6 DEF Parameters
    <3> QED
      BY <1>1, <2>1, <3>1
  <2>3. \A c \in forms : c[1] \in P
    OBVIOUS
  <2>4. Given(g, forms) = Given(f, forms)
    <3> HIDE DEF forms, P
    <3> QED
      BY <2>2, <2>3, GivenSame
  <2>5. Nullable(f, "reply", "message", "reply", "reply") = {}
    BY <1>2, <2>1 DEF Nullable
  <2>6. Nullable(g, "reply", "message", "reply", "reply") = Extra(p, v)
    BY <1>1, <1>2, <2>1 DEF Nullable, Extra
  <2>7. \A h : Clauses(list, h) = Given(h, forms) \cup Nullable(h, "reply", "message", "reply", "reply")
    BY <1>6 DEF Clauses, MessageClauses
  <2> HIDE DEF forms
  <2>8. /\ Clauses(list, g) = Given(g, forms) \cup Nullable(g, "reply", "message", "reply", "reply")
        /\ Clauses(list, f) = Given(f, forms) \cup Nullable(f, "reply", "message", "reply", "reply")
    BY <2>7
  <2> QED
    BY <2>4, <2>5, <2>6, <2>8
<1> QED
  BY <1>3, <1>4, <1>5, <1>6 DEF SplitsInto

\* When a clause of equality holds.
LEMMA HoldsIs ==
  ASSUME NEW db, NEW t, NEW c, NEW o, NEW x
  PROVE  Holds(db, <<"is", t, c, o>>, x) <=> Value(x, t, c) = o
<1> DEFINE k == <<"is", t, c, o>>
<1>1. k[1] = "is" /\ k[2] = t /\ k[3] = c /\ k[4] = o
  OBVIOUS
<1> HIDE DEF k
<1>2. Holds(db, k, x) <=> Value(x, t, c) = o
  BY <1>1 DEF Holds
<1> QED
  BY <1>2 DEF k

\* When a clause of inequality holds.
LEMMA HoldsNot ==
  ASSUME NEW db, NEW t, NEW c, NEW o, NEW x
  PROVE  Holds(db, <<"not", t, c, o>>, x) <=> Value(x, t, c) # o
<1> DEFINE k == <<"not", t, c, o>>
<1>1. k[1] = "not" /\ k[2] = t /\ k[3] = c /\ k[4] = o
  OBVIOUS
<1> HIDE DEF k
<1>2. Holds(db, k, x) <=> Value(x, t, c) # o
  BY <1>1 DEF Holds
<1> QED
  BY <1>2 DEF k

\* When a clause that allows NULL holds.
LEMMA HoldsNullOr ==
  ASSUME NEW db, NEW t, NEW c, NEW o, NEW x
  PROVE  Holds(db, <<"nullOr", t, c, o>>, x) <=> Value(x, t, c) \in {Null, o}
<1> DEFINE k == <<"nullOr", t, c, o>>
<1>1. k[1] = "nullOr" /\ k[2] = t /\ k[3] = c /\ k[4] = o
  OBVIOUS
<1> HIDE DEF k
<1>2. Holds(db, k, x) <=> Value(x, t, c) \in {Null, o}
  BY <1>1 DEF Holds
<1> QED
  BY <1>2 DEF k

\* When the clause about the channel holds: by whether a message belongs to the intake.
LEMMA HoldsChannel ==
  ASSUME NEW db, NEW t, NEW c, NEW o, NEW x
  PROVE  Holds(db, <<"channel", t, c, o>>, x) <=>
           ((\E m \in db["message"] : m.intake = Value(x, t, c)) <=> o = "email")
<1> DEFINE k == <<"channel", t, c, o>>
           linked == \E m \in db["message"] : m.intake = Value(x, t, c)
           mail == o = "email"
<1>1. k[1] = "channel" /\ k[2] = t /\ k[3] = c /\ k[4] = o
  OBVIOUS
<1> HIDE DEF k
<1>2. Holds(db, k, x) = (linked = mail)
  BY <1>1 DEF Holds
<1> HIDE DEF linked, mail
<1>3. Holds(db, k, x) <=> (linked <=> mail)
  BY <1>2 DEF linked, mail
<1> QED
  BY <1>3 DEF k, linked, mail

\* exactly one of the values of V
ExactlyOne(P, V) == /\ \E v \in V : P[v]
                    /\ \A u, v \in V : P[u] /\ P[v] => u = v

\* a word, or the sentinel for NULL
WordOf(P, V, k, w) == \A v \in V : P[v] <=> IF v = NullSentinel THEN k = Null ELSE w = v

\* A column with the words or NULL satisfies exactly one of the words and the sentinel.
LEMMA OneWord ==
  ASSUME NEW k, NEW w, NEW words, w \in words \cup {Null}, k = Null <=> w = Null,
         Null \notin words \cup {NullSentinel}, NullSentinel \notin words,
         NEW V, V = words \cup {NullSentinel},
         NEW P, WordOf(P, V, k, w)
  PROVE  ExactlyOne(P, V)
<1>1. \E v \in V : P[v]
  BY DEF WordOf
<1>2. \A u, v \in V : P[u] /\ P[v] => u = v
  BY DEF WordOf
<1> QED
  BY <1>1, <1>2 DEF ExactlyOne

\* the values under which a row is found
Adds(db, list, p, V, r) == [v \in V |-> \A c \in Extra(p, v) : Holds(db, c, LinkedRows(db, list)[r])]

\* Of the clauses that the values of a parameter add, those of exactly one value hold for a row.
LEMMA AddsOne ==
  ASSUME NEW db, Consistent(db), NEW list, NEW p, NEW V, SplitsInto(list, p, V), NEW r \in db[RootOf(list)]
  PROVE  ExactlyOne(Adds(db, list, p, V, r), V)
<1> DEFINE x == LinkedRows(db, list)[r]
           A == Adds(db, list, p, V, r)
<1>1. \A v \in V : A[v] <=> \A c \in Extra(p, v) : Holds(db, c, x)
  BY DEF Adds
<1>2. ASSUME NEW t, NEW m, NEW n, NEW words, V = words \cup {NullSentinel},
             \A v \in V : Extra(p, v) = IF v = NullSentinel THEN {<<"is", t, m, Null>>} ELSE {<<"is", t, n, v>>},
             Value(x, t, n) \in words \cup {Null}, Value(x, t, m) = Null <=> Value(x, t, n) = Null,
             Null \notin words \cup {NullSentinel}, NullSentinel \notin words
      PROVE  ExactlyOne(A, V)
  <2> HIDE DEF A, x
  <2> DEFINE k == Value(x, t, m)
             w == Value(x, t, n)
  <2>1. ASSUME NEW v \in V PROVE A[v] <=> IF v = NullSentinel THEN k = Null ELSE w = v
    <3>2. CASE v = NullSentinel
      <4>1. Extra(p, v) = {<<"is", t, m, Null>>}
        BY <1>2, <3>2
      <4>2. A[v] <=> Holds(db, <<"is", t, m, Null>>, x)
        BY <1>1, <4>1
      <4>3. Holds(db, <<"is", t, m, Null>>, x) <=> k = Null
        BY HoldsIs
      <4> QED
        BY <3>2, <4>2, <4>3
    <3>3. CASE v # NullSentinel
      <4>1. Extra(p, v) = {<<"is", t, n, v>>}
        BY <1>2, <3>3
      <4>2. A[v] <=> Holds(db, <<"is", t, n, v>>, x)
        BY <1>1, <4>1
      <4>3. Holds(db, <<"is", t, n, v>>, x) <=> w = v
        BY HoldsIs
      <4> QED
        BY <3>3, <4>2, <4>3
    <3> QED
      BY <3>2, <3>3
  <2>2. w \in words \cup {Null} /\ (k = Null <=> w = Null)
    BY <1>2
  <2> HIDE DEF k, w
  <2>3. WordOf(A, V, k, w)
    BY <2>1 DEF WordOf
  <2> QED
    BY <1>2, <2>3, <2>2, OneWord
<1>3. list \in {"intakes", "monitoring"} =>
        /\ r \in db["intake"] /\ x["intake"] = r /\ r # Null /\ r["id"] # Null
        /\ x["batch"] = Null \/ x["batch"] \in db["batch"]
        /\ x["result"] = Null \/ x["result"] \in db["result"]
        /\ x["assomi"] = Null \/ x["assomi"] \in db["assomi"]
  <2> SUFFICES ASSUME list \in {"intakes", "monitoring"}
               PROVE  /\ r \in db["intake"] /\ x["intake"] = r /\ r # Null /\ r["id"] # Null
                      /\ x["batch"] = Null \/ x["batch"] \in db["batch"]
                      /\ x["result"] = Null \/ x["result"] \in db["result"]
                      /\ x["assomi"] = Null \/ x["assomi"] \in db["assomi"]
    OBVIOUS
  <2>1. r \in db["intake"]
    BY DEF RootOf
  <2>2. /\ x["intake"] = r /\ r # Null /\ r["id"] # Null
        /\ x["batch"] = The(db, "batch", "intake", r["id"])
        /\ x["result"] = The(db, "result", "batch", Value(x, "batch", "id"))
        /\ x["assomi"] = The(db, "assomi", "batch", Value(x, "batch", "id"))
    BY <2>1, IntakeLinks
  <2>3. ASSUME NEW t, NEW c, NEW v PROVE The(db, t, c, v) = Null \/ The(db, t, c, v) \in db[t]
    BY DEF The
  <2> HIDE DEF x
  <2> QED
    BY <2>1, <2>2, <2>3
<1>4. ASSUME list \in {"intakes", "monitoring"}, p = "paused", V = BOOLEAN PROVE ExactlyOne(A, V)
  <2> HIDE DEF A, x
  <2>1. Extra(p, TRUE) = {<<"not", "batch", "id", Null>>, <<"is", "batch", "paused", TRUE>>}
    BY <1>4 DEF Extra
  <2>2. Extra(p, FALSE) = {<<"nullOr", "batch", "paused", FALSE>>}
    BY <1>4 DEF Extra
  <2>3. A[TRUE] <=> Value(x, "batch", "id") # Null /\ Value(x, "batch", "paused") = TRUE
    <3>1. A[TRUE] <=> \A c \in {<<"not", "batch", "id", Null>>, <<"is", "batch", "paused", TRUE>>} : Holds(db, c, x)
      BY <1>1, <1>4, <2>1
    <3>2. A[TRUE] <=> Holds(db, <<"not", "batch", "id", Null>>, x) /\ Holds(db, <<"is", "batch", "paused", TRUE>>, x)
      BY <3>1
    <3> QED
      <4> DEFINE a == <<"not", "batch", "id", Null>>
                 yes == TRUE
                 b == <<"is", "batch", "paused", yes>>
      <4>1. Holds(db, a, x) <=> Value(x, "batch", "id") # Null
        BY HoldsNot
      <4> HIDE DEF yes
      <4>2. Holds(db, b, x) <=> Value(x, "batch", "paused") = yes
        BY HoldsIs
      <4> HIDE DEF a, b
      <4>3. A[TRUE] <=> Holds(db, a, x) /\ Holds(db, b, x)
        BY <3>2 DEF a, b, yes
      <4> QED
        BY <4>1, <4>2, <4>3 DEF yes
  <2>4. A[FALSE] <=> Value(x, "batch", "paused") \in {Null, FALSE}
    <3>1. A[FALSE] <=> Holds(db, <<"nullOr", "batch", "paused", FALSE>>, x)
      BY <1>1, <1>4, <2>2
    <3> QED
      BY <3>1, HoldsNullOr
  <2>5. CASE x["batch"] = Null
    <3>1. Value(x, "batch", "id") = Null /\ Value(x, "batch", "paused") = Null
      BY <2>5 DEF Value
    <3>2. A[FALSE] /\ ~A[TRUE]
      BY <2>3, <2>4, <3>1
    <3> QED
      BY <1>4, <3>2 DEF ExactlyOne
  <2>6. CASE x["batch"] # Null
    <3>1. x["batch"] \in db["batch"]
      BY <1>3, <1>4, <2>6
    <3>2. x["batch"]["id"] # Null /\ x["batch"]["paused"] \in BOOLEAN
      BY <3>1 DEF Consistent, Tables
    <3>3. Value(x, "batch", "id") = x["batch"]["id"] /\ Value(x, "batch", "paused") = x["batch"]["paused"]
      BY <2>6 DEF Value
    <3> DEFINE paused == x["batch"]["paused"]
    <3> HIDE DEF paused
    <3>4. paused \in BOOLEAN /\ Null \notin BOOLEAN
      BY <3>2, NullAssumption DEF paused
    <3>5. A[TRUE] <=> paused = TRUE
      BY <2>3, <3>2, <3>3 DEF paused
    <3>6. A[FALSE] <=> paused \in {Null, FALSE}
      BY <2>4, <3>3 DEF paused
    <3>7. CASE paused = TRUE
      <4>1. A[TRUE] /\ ~A[FALSE]
        BY <3>4, <3>5, <3>6, <3>7
      <4> QED
        BY <1>4, <4>1 DEF ExactlyOne
    <3>8. CASE paused = FALSE
      <4>1. A[FALSE] /\ ~A[TRUE]
        BY <3>4, <3>5, <3>6, <3>8
      <4> QED
        BY <1>4, <4>1 DEF ExactlyOne
    <3> QED
      BY <3>4, <3>7, <3>8
  <2> QED
    BY <2>5, <2>6
<1>5. ASSUME list \in {"intakes", "monitoring"}, p = "channel", V = {"email", "web"} PROVE ExactlyOne(A, V)
  <2> DEFINE linked == \E m \in db["message"] : m.intake = Value(x, "intake", "id")
  <2> HIDE DEF A, x
  <2>1. ASSUME NEW v \in V PROVE A[v] <=> (linked <=> v = "email")
    <3>1. Extra(p, v) = {<<"channel", "intake", "id", v>>}
      BY <1>5 DEF Extra
    <3>2. A[v] <=> Holds(db, <<"channel", "intake", "id", v>>, x)
      BY <1>1, <3>1
    <3>3. Holds(db, <<"channel", "intake", "id", v>>, x) <=> (linked <=> v = "email")
      BY HoldsChannel DEF linked
    <3> QED
      BY <3>2, <3>3
  <2>2. linked \in BOOLEAN
    OBVIOUS
  <2> HIDE DEF linked
  <2>3. "email" \in V /\ "web" \in V
    BY <1>5
  <2>4. A["email"] <=> linked
    BY <2>1, <2>2, <2>3
  <2>5. A["web"] <=> ~linked
    BY <2>1, <2>2, <2>3
  <2> QED
    BY <1>5, <2>4, <2>5 DEF ExactlyOne
<1>6. ASSUME list = "monitoring", p = "result", V = ResultStatus \cup {NullSentinel} PROVE ExactlyOne(A, V)
  <2>1. Null \notin ResultStatus \cup {NullSentinel}
    BY NullAssumption DEF MonitoringWords
  <2>2. NullSentinel \notin ResultStatus
    BY DEF NullSentinel, ResultStatus
  <2> HIDE DEF A, x
  <2>3. /\ Value(x, "result", "status") \in ResultStatus \cup {Null}
        /\ Value(x, "result", "id") = Null <=> Value(x, "result", "status") = Null
    <3>1. CASE x["result"] = Null
      BY <3>1 DEF Value
    <3>2. CASE x["result"] # Null
      <4>1. x["result"] \in db["result"]
        BY <1>3, <1>6, <3>2
      <4>2. x["result"]["id"] # Null /\ x["result"]["status"] \in ResultStatus
        BY <4>1 DEF Consistent, Tables
      <4> QED
        BY <2>1, <3>2, <4>2 DEF Value
    <3> QED
      BY <3>1, <3>2
  <2>4. \A v \in V : Extra(p, v) = IF v = NullSentinel THEN {<<"is", "result", "id", Null>>} ELSE {<<"is", "result", "status", v>>}
    BY <1>6 DEF Extra
  <2> QED
    BY <1>2, <1>6, <2>1, <2>2, <2>3, <2>4
<1>7. ASSUME list = "monitoring", p = "assomi", V = AssomiStatus \cup {NullSentinel} PROVE ExactlyOne(A, V)
  <2>1. Null \notin AssomiStatus \cup {NullSentinel}
    BY NullAssumption DEF MonitoringWords
  <2>2. NullSentinel \notin AssomiStatus
    BY DEF NullSentinel, AssomiStatus
  <2> HIDE DEF A, x
  <2>3. /\ Value(x, "assomi", "status") \in AssomiStatus \cup {Null}
        /\ Value(x, "assomi", "id") = Null <=> Value(x, "assomi", "status") = Null
    <3>1. CASE x["assomi"] = Null
      BY <3>1 DEF Value
    <3>2. CASE x["assomi"] # Null
      <4>1. x["assomi"] \in db["assomi"]
        BY <1>3, <1>7, <3>2
      <4>2. x["assomi"]["id"] # Null /\ x["assomi"]["status"] \in AssomiStatus
        BY <4>1 DEF Consistent, Tables
      <4> QED
        BY <2>1, <3>2, <4>2 DEF Value
    <3> QED
      BY <3>1, <3>2
  <2>4. \A v \in V : Extra(p, v) = IF v = NullSentinel THEN {<<"is", "assomi", "id", Null>>} ELSE {<<"is", "assomi", "status", v>>}
    BY <1>7 DEF Extra
  <2> QED
    BY <1>2, <1>7, <2>1, <2>2, <2>3, <2>4
<1>8. ASSUME list = "tasks", p = "status", V = {"1", "3", NullSentinel} PROVE ExactlyOne(A, V)
  <2> DEFINE words == {"1", "3"}
  <2>1. V = words \cup {NullSentinel} /\ Null \notin words \cup {NullSentinel}
    BY <1>8, NullAssumption DEF TaskWords
  <2>2. NullSentinel \notin words
    BY DEF NullSentinel
  <2>3. x["task"] = r /\ r \in db["task"]
    BY <1>8, RootRow DEF RootOf, Lists
  <2> HIDE DEF A, x
  <2>4. r # Null /\ r["status"] \in words \cup {Null}
    BY <2>3 DEF Consistent, Tables
  <2>5. Value(x, "task", "status") \in words \cup {Null}
    BY <2>3, <2>4 DEF Value
  <2>6. \A v \in V : Extra(p, v) = IF v = NullSentinel THEN {<<"is", "task", "status", Null>>} ELSE {<<"is", "task", "status", v>>}
    BY <1>8 DEF Extra
  <2> HIDE DEF words
  <2> QED
    BY <1>2, <2>1, <2>2, <2>5, <2>6
<1>9. ASSUME list = "messages", p = "reply", V = {"sent", "failed", NullSentinel} PROVE ExactlyOne(A, V)
  <2> DEFINE words == {"sent", "failed"}
  <2>1. V = words \cup {NullSentinel} /\ Null \notin words \cup {NullSentinel}
    BY <1>9, NullAssumption DEF MessageWords
  <2>2. NullSentinel \notin words
    BY DEF NullSentinel
  <2>3. x["message"] = r /\ r \in db["message"]
    BY <1>9, RootRow DEF RootOf, Lists
  <2> HIDE DEF A, x
  <2>4. r # Null /\ r["reply"] \in words \cup {Null}
    BY <2>3 DEF Consistent, Tables
  <2>5. Value(x, "message", "reply") \in words \cup {Null}
    BY <2>3, <2>4 DEF Value
  <2>6. \A v \in V : Extra(p, v) = IF v = NullSentinel THEN {<<"is", "message", "reply", Null>>} ELSE {<<"is", "message", "reply", v>>}
    BY <1>9 DEF Extra
  <2> HIDE DEF words
  <2> QED
    BY <1>2, <2>1, <2>2, <2>5, <2>6
<1> HIDE DEF A, x
<1>10. ExactlyOne(A, V)
  BY <1>4, <1>5, <1>6, <1>7, <1>8, <1>9 DEF SplitsInto
<1> QED
  BY <1>10 DEF A

\* the rows under each of the values
Part(db, list, f, p, v) == Found(db, list, [f EXCEPT ![p] = v])

\* The rows that are found are divided among the values of such a parameter.
LEMMA FoundSplits ==
  ASSUME NEW db, Consistent(db), NEW list, NEW f, FilterOf(list, f),
         NEW p \in Parameters(list), NEW V, SplitsInto(list, p, V), Null \notin V, f[p] = Null
  PROVE  /\ UNION {Part(db, list, f, p, v) : v \in V} = Found(db, list, f)
         /\ \A u, v \in V : u # v => Part(db, list, f, p, u) \cap Part(db, list, f, p, v) = {}
<1>1. ASSUME NEW v \in V
      PROVE  Clauses(list, [f EXCEPT ![p] = v]) = Clauses(list, f) \cup Extra(p, v)
  <2> DEFINE g == [f EXCEPT ![p] = v]
  <2>1. Gives(list, f, p, v, g)
    BY <1>1 DEF Gives
  <2> HIDE DEF g
  <2>2. Clauses(list, g) = Clauses(list, f) \cup Extra(p, v)
    BY <1>1, <2>1, ClausesSplit
  <2> QED
    BY <2>2 DEF g
<1>2. ASSUME NEW v \in V, NEW r
      PROVE  r \in Part(db, list, f, p, v) <=> r \in Found(db, list, f) /\ Adds(db, list, p, V, r)[v]
  BY <1>1, <1>2 DEF Part, Found, Adds
<1>3. \A r \in Found(db, list, f) : ExactlyOne(Adds(db, list, p, V, r), V)
  BY AddsOne DEF Found
<1> QED
  BY <1>2, <1>3 DEF ExactlyOne

\* An answer to a filter counts and lists what its statements select.
LEMMA FilterAnswer ==
  ASSUME NEW db, NEW list, NEW f, NEW ans, ans = FilterReply(db, list, f), ~ans.refused
  PROVE  ans.count = Cardinality(Selected(db, list, "count", f)) /\ ans.rows = Selected(db, list, "list", f)
<1> DEFINE n == Cardinality(Selected(db, list, "count", f))
           rows == Selected(db, list, "list", f)
<1>1. ans = IF UnknownWord(list, f) THEN [refused |-> TRUE] ELSE [refused |-> FALSE, count |-> n, rows |-> rows]
  BY DEF FilterReply
<1> HIDE DEF n, rows
<1>2. ~UnknownWord(list, f)
  BY <1>1
<1>3. ans.count = n /\ ans.rows = rows
  BY <1>1, <1>2
<1> QED
  BY <1>3 DEF n, rows

\* The count is the number of rows listed, and no row is listed twice.
LEMMA CountsAgree ==
  ASSUME NEW db, Consistent(db), NEW list \in Lists, NEW f, FilterOf(list, f), NEW ans,
         ans = FilterReply(db, list, f), ~ans.refused
  PROVE  /\ ans.count = Cardinality(ans.rows)
         /\ Cardinality(Roots(list, ans.rows)) = Cardinality(ans.rows)
<1>1. SelectsFound(db, list, "list", f) /\ SelectsFound(db, list, "count", f)
  BY SelectedFound
<1>2. ans.count = Cardinality(Selected(db, list, "count", f)) /\ ans.rows = Selected(db, list, "list", f)
  BY FilterAnswer
<1> QED
  BY <1>1, <1>2 DEF SelectsFound

\* the values of a parameter divide the rows
Divided(db, list, f, rows, split) ==
  LET part(v) == Roots(list, Selected(db, list, "list", [f EXCEPT ![split[1]] = v]))
  IN /\ UNION {part(v) : v \in split[2]} = Roots(list, rows)
     /\ \A u, v \in split[2] : u # v => part(u) \cap part(v) = {}

\* The rows of an answer are divided among the values of every parameter that splits the list.
LEMMA SplitsWhole ==
  ASSUME NEW db, Consistent(db), NEW list \in Lists, NEW f, FilterOf(list, f), NEW ans,
         ans = FilterReply(db, list, f), ~ans.refused,
         NEW split \in Splits(list), f[split[1]] = Null
  PROVE  Divided(db, list, f, ans.rows, split)
<1> DEFINE p == split[1]
           V == split[2]
           part(v) == Roots(list, Selected(db, list, "list", [f EXCEPT ![p] = v]))
<1>1. SplitsInto(list, p, V) /\ p \in Parameters(list) /\ Null \notin V /\ f[p] = Null
  BY SplitsAre
<1> HIDE DEF p, V
<1>2. ans.rows = Selected(db, list, "list", f)
  BY FilterAnswer
<1>3. Roots(list, ans.rows) = Found(db, list, f)
  BY <1>2, SelectedFound DEF SelectsFound
<1>4. ASSUME NEW v \in V PROVE part(v) = Part(db, list, f, p, v)
  <2> DEFINE g == [f EXCEPT ![p] = v]
  <2>1. DOMAIN g = Parameters(list) /\ g[p] = v /\ \A q \in Parameters(list) : q # p => g[q] = f[q]
    BY <1>1 DEF FilterOf
  <2>2. p = "paused" => v \in BOOLEAN
    BY <1>1, <1>4 DEF SplitsInto
  <2> HIDE DEF g
  <2>3. FilterOf(list, g)
    BY <2>1, <2>2 DEF FilterOf
  <2>4. Roots(list, Selected(db, list, "list", g)) = Found(db, list, g)
    BY <2>3, SelectedFound DEF SelectsFound
  <2> QED
    BY <2>4 DEF Part, g
<1> HIDE DEF part
<1>5. /\ UNION {Part(db, list, f, p, v) : v \in V} = Found(db, list, f)
      /\ \A u, v \in V : u # v => Part(db, list, f, p, u) \cap Part(db, list, f, p, v) = {}
  BY <1>1, FoundSplits
<1>6. /\ UNION {part(v) : v \in V} = Roots(list, ans.rows)
      /\ \A u, v \in V : u # v => part(u) \cap part(v) = {}
  BY <1>3, <1>4, <1>5
<1> QED
  BY <1>6 DEF Divided, part, p, V

\* A list that is asked for is one of a database, with a filter of its own.
LEMMA ListAsked ==
  ASSUME Asked, Right, Answered("filter")
  PROVE  \E db \in Databases, list \in DOMAIN Filters :
           /\ Consistent(db) /\ list \in Lists /\ FilterOf(list, subject[4])
           /\ subject[2] = db /\ subject[3] = list /\ reply = FilterReply(db, list, subject[4])
<1>1. PICK db \in Databases, list \in DOMAIN Filters :
        \E f \in Filters[list] : subject = <<"filter", db, list, f>>
  BY DEF Asked, Answered
<1>2. PICK f \in Filters[list] : subject = <<"filter", db, list, f>>
  BY <1>1
<1>3. subject[2] = db /\ subject[3] = list /\ subject[4] = f
  BY <1>2
<1>4. Consistent(db) /\ list \in Lists /\ FilterOf(list, f)
  BY RequestAssumption
<1>5. reply = FilterReply(subject[2], subject[3], subject[4])
  BY DEF Right
<1> QED
  BY <1>3, <1>4, <1>5

\* The total of a list is the number of its rows, though the statement that
\* counts joins fewer tables, and no join doubles a row: CountMatchesList.
THEOREM CountsAreRight == RequestSpec => []CountMatchesList
<1>1. ASSUME Asked, Right, Answered("filter"), ~reply.refused PROVE CountMatchesList
  <2>1. PICK db \in Databases, list \in DOMAIN Filters :
          /\ Consistent(db) /\ list \in Lists /\ FilterOf(list, subject[4])
          /\ subject[2] = db /\ subject[3] = list /\ reply = FilterReply(db, list, subject[4])
    BY <1>1, ListAsked
  <2>2. /\ reply.count = Cardinality(reply.rows)
        /\ Cardinality(Roots(list, reply.rows)) = Cardinality(reply.rows)
    BY <1>1, <2>1, CountsAgree
  <2> QED
    BY <2>1, <2>2 DEF CountMatchesList
<1>2. ASSUME ~(Answered("filter") /\ ~reply.refused) PROVE CountMatchesList
  BY <1>2 DEF CountMatchesList
<1> QED
  BY <1>1, <1>2, AnsweredRight, PTL

\* A row of a list is found under exactly one of the values of the parameters
\* that name a state of it, NULL among them: FiltersSplitList.
THEOREM SplitsAreWhole == RequestSpec => []FiltersSplitList
<1>1. ASSUME Asked, Right, Answered("filter"), ~reply.refused PROVE FiltersSplitList
  <2>1. PICK db \in Databases, list \in DOMAIN Filters :
          /\ Consistent(db) /\ list \in Lists /\ FilterOf(list, subject[4])
          /\ subject[2] = db /\ subject[3] = list /\ reply = FilterReply(db, list, subject[4])
    BY <1>1, ListAsked
  <2> DEFINE f == subject[4]
  <2>2. ASSUME NEW split \in Splits(list), f[split[1]] = Null
        PROVE  Divided(db, list, f, reply.rows, split)
    <3> HIDE DEF f
    <3> QED
      BY <1>1, <2>1, <2>2, SplitsWhole DEF f
  <2> QED
    BY <2>1, <2>2 DEF FiltersSplitList, Divided
<1>2. ASSUME ~(Answered("filter") /\ ~reply.refused) PROVE FiltersSplitList
  BY <1>2 DEF FiltersSplitList
<1> QED
  BY <1>1, <1>2, AnsweredRight, PTL

-----------------------------------------------------------------------------
(* Rows in order. *)

Keys == Nat \cup {Null}
Less(u, v) == u # Null /\ (v = Null \/ u < v)
Directed(way, u, v) == IF way = "asc" THEN Less(u, v) ELSE Less(v, u)
KeyAt(x, order, i) == Value(x, order[i][1], order[i][2])

\* The columns of the order hold keys for every row.
Comparable(rows, order) ==
  /\ \E n \in Nat : DOMAIN order = 1 .. n
  /\ \A i \in DOMAIN order : \A x \in rows : KeyAt(x, order, i) \in Keys

\* Keys are in a line, NULL at its end.
LEMMA DirectedLine ==
  ASSUME NEW way, NEW u \in Keys, NEW v \in Keys, NEW w \in Keys
  PROVE  /\ ~Directed(way, u, u)
         /\ u # v => Directed(way, u, v) \/ Directed(way, v, u)
         /\ Directed(way, u, v) /\ Directed(way, v, w) => Directed(way, u, w)
BY DEF Directed, Less, Keys

\* One row precedes another by the first column in which they differ.
LEMMA PrecedesIs ==
  ASSUME NEW a, NEW b, NEW order
  PROVE  Precedes(a, b, order) <=>
           \E i \in DOMAIN order : /\ \A j \in 1 .. i - 1 : KeyAt(a, order, j) = KeyAt(b, order, j)
                                   /\ Directed(order[i][3], KeyAt(a, order, i), KeyAt(b, order, i))
BY DEF Precedes, KeyAt, Directed, Less

\* What is not after a row precedes all that the row precedes.
LEMMA PrecedesBefore ==
  ASSUME NEW rows, NEW order, Comparable(rows, order),
         NEW x \in rows, NEW y \in rows, NEW z \in rows,
         Precedes(y, x, order), ~Precedes(y, z, order)
  PROVE  Precedes(z, x, order)
<1>1. PICK n \in Nat : DOMAIN order = 1 .. n
  BY DEF Comparable
<1> DEFINE kx == [k \in 1 .. n |-> KeyAt(x, order, k)]
           ky == [k \in 1 .. n |-> KeyAt(y, order, k)]
           kz == [k \in 1 .. n |-> KeyAt(z, order, k)]
<1>2. \A k \in 1 .. n : kx[k] \in Keys /\ ky[k] \in Keys /\ kz[k] \in Keys
  BY <1>1 DEF Comparable
<1> DEFINE Ahead(a, b, i) == /\ \A j \in 1 .. i - 1 : a[j] = b[j]
                             /\ Directed(order[i][3], a[i], b[i])
<1>3. /\ Precedes(y, x, order) <=> \E i \in 1 .. n : Ahead(ky, kx, i)
      /\ Precedes(y, z, order) <=> \E i \in 1 .. n : Ahead(ky, kz, i)
      /\ Precedes(z, x, order) <=> \E i \in 1 .. n : Ahead(kz, kx, i)
  <2>1. \A i \in 1 .. n : \A j \in 1 .. i - 1 : j \in 1 .. n
    BY <1>1
  <2> QED
    BY <1>1, <2>1, PrecedesIs
<1> HIDE DEF kx, ky, kz
<1>4. PICK i \in 1 .. n : Ahead(ky, kx, i)
  BY <1>3
<1> DEFINE T == {k \in 1 .. i : ky[k] # kz[k]}
<1>5. CASE T = {}
  <2>1. \A k \in 1 .. i : ky[k] = kz[k]
    BY <1>5
  <2>2. Ahead(kz, kx, i)
    BY <1>1, <1>4, <2>1
  <2> QED
    BY <1>3, <2>2
<1>6. CASE T # {}
  <2>1. T \in SUBSET Nat
    OBVIOUS
  <2>2. PICK k \in T : \A m \in T : k <= m
    BY <1>6, <2>1, SmallestNumber
  <2>3. k \in 1 .. n /\ k \in 1 .. i /\ ky[k] # kz[k]
    BY <1>1, <2>2
  <2>4. \A j \in 1 .. k - 1 : ky[j] = kz[j]
    <3>1. SUFFICES ASSUME NEW j \in 1 .. k - 1 PROVE ky[j] = kz[j]
      OBVIOUS
    <3>2. j \in 1 .. i /\ ~(k <= j)
      BY <1>1, <2>3
    <3> QED
      BY <2>2, <3>2
  <2>5. Directed(order[k][3], kz[k], ky[k])
    <3>1. ~Ahead(ky, kz, k)
      BY <1>3, <2>3
    <3>2. ~Directed(order[k][3], ky[k], kz[k])
      BY <2>4, <3>1
    <3> QED
      BY <1>2, <2>3, <3>2, DirectedLine
  <2>6. \A j \in 1 .. k - 1 : kz[j] = kx[j]
    <3>1. \A j \in 1 .. k - 1 : j \in 1 .. i - 1
      BY <1>1, <2>3
    <3> QED
      BY <1>4, <2>4, <3>1
  <2>7. Directed(order[k][3], kz[k], kx[k])
    <3>1. CASE k = i
      BY <1>2, <1>4, <2>3, <2>5, <3>1, DirectedLine
    <3>2. CASE k # i
      <4>1. k \in 1 .. i - 1
        BY <1>1, <2>3, <3>2
      <4>2. ky[k] = kx[k]
        BY <1>4, <4>1
      <4> QED
        BY <2>5, <4>2
    <3> QED
      BY <3>1, <3>2
  <2>8. Ahead(kz, kx, k)
    BY <2>6, <2>7
  <2> QED
    BY <1>3, <2>3, <2>8
<1> QED
  BY <1>5, <1>6

\* No row precedes itself.
LEMMA PrecedesNotItself ==
  ASSUME NEW rows, NEW order, Comparable(rows, order), NEW x \in rows
  PROVE  ~Precedes(x, x, order)
<1>1. \A i \in DOMAIN order : KeyAt(x, order, i) \in Keys
  BY DEF Comparable
<1>2. \A i \in DOMAIN order : ~Directed(order[i][3], KeyAt(x, order, i), KeyAt(x, order, i))
  BY <1>1, DirectedLine
<1> QED
  BY <1>2, PrecedesIs

\* An order of the rows has each of them once.
LEMMA OrdersFacts ==
  ASSUME NEW rows, IsFiniteSet(rows), NEW order, NEW s \in Orders(rows, order)
  PROVE  /\ s \in Seq(rows) /\ Len(s) = Cardinality(rows) /\ DOMAIN s = 1 .. Cardinality(rows)
         /\ ToSet(s) = rows
         /\ \A i, j \in DOMAIN s : s[i] = s[j] => i = j
         /\ \A i, j \in DOMAIN s : i < j => ~Precedes(s[j], s[i], order)
<1> DEFINE n == Cardinality(rows)
<1>1. n \in Nat
  BY FS_CardinalityType
<1>2. /\ s \in [1 .. n -> rows]
      /\ \A i, j \in DOMAIN s : s[i] = s[j] => i = j
      /\ \A i, j \in DOMAIN s : i < j => ~Precedes(s[j], s[i], order)
  BY DEF Orders
<1> HIDE DEF n
<1>3. s \in Seq(rows) /\ Len(s) = n /\ DOMAIN s = 1 .. n
  BY <1>1, <1>2
<1>4. Once(s)
  BY <1>2 DEF Once
<1>5. Cardinality(ToSet(s)) = n
  BY <1>3, <1>4, OnceCounted
<1>6. ToSet(s) \in SUBSET rows
  BY <1>2, <1>3 DEF ToSet
<1>7. ToSet(s) = rows
  BY <1>5, <1>6, FS_Subset DEF n
<1> QED
  BY <1>2, <1>3, <1>7 DEF n

\* A later place in one order holds no row that precedes an earlier place in another.
LEMMA PlacesAgree ==
  ASSUME NEW rows, IsFiniteSet(rows), NEW order, Comparable(rows, order),
         NEW s \in Orders(rows, order), NEW t \in Orders(rows, order),
         NEW i \in 1 .. Cardinality(rows), NEW j \in 1 .. Cardinality(rows), i <= j
  PROVE  ~Precedes(t[j], s[i], order)
<1> DEFINE n == Cardinality(rows)
           x == s[i]
<1>1. n \in Nat
  BY FS_CardinalityType
<1>2. /\ s \in [1 .. n -> rows] /\ t \in [1 .. n -> rows]
      /\ \A k, m \in 1 .. n : k < m => ~Precedes(s[m], s[k], order) /\ ~Precedes(t[m], t[k], order)
      /\ \A k, m \in 1 .. n : t[k] = t[m] => k = m
      /\ ToSet(s) = rows /\ DOMAIN s = 1 .. n
  BY OrdersFacts DEF Orders
<1>3. i \in 1 .. n /\ j \in 1 .. n
  OBVIOUS
<1> HIDE DEF n
<1>4. x \in rows
  BY <1>2, <1>3
<1>5. SUFFICES ASSUME Precedes(t[j], x, order) PROVE FALSE
  OBVIOUS
<1>6. ASSUME NEW k \in 1 .. j PROVE \E m \in 1 .. i - 1 : s[m] = t[k]
  <2>1. k \in 1 .. n /\ t[k] \in rows /\ t[j] \in rows
    BY <1>1, <1>2, <1>3
  <2>2. ~Precedes(t[j], t[k], order)
    <3>1. CASE k = j
      BY <2>1, <3>1, PrecedesNotItself
    <3>2. CASE k < j
      BY <1>2, <1>3, <2>1, <3>2
    <3> QED
      BY <1>1, <1>3, <3>1, <3>2
  <2>3. Precedes(t[k], x, order)
    BY <1>4, <1>5, <2>1, <2>2, PrecedesBefore
  <2>4. PICK m \in 1 .. n : s[m] = t[k]
    BY <1>2, <2>1 DEF ToSet
  <2>5. m # i
    BY <1>4, <2>3, <2>4, PrecedesNotItself
  <2>6. ~(i < m)
    BY <1>2, <1>3, <2>3, <2>4
  <2>7. m \in 1 .. i - 1
    BY <1>1, <1>3, <2>5, <2>6
  <2> QED
    BY <2>4, <2>7
<1> HIDE DEF x
<1> DEFINE f == [k \in 1 .. j |-> CHOOSE m \in 1 .. i - 1 : s[m] = t[k]]
<1>7. \A k \in 1 .. j : f[k] \in 1 .. i - 1 /\ s[f[k]] = t[k]
  BY <1>6
<1>8. f \in [1 .. j -> 1 .. i - 1]
  BY <1>7
<1> HIDE DEF f
<1>9. i \in Int /\ j \in Int /\ i - 1 \in Int /\ 1 <= i /\ 1 <= j
  BY <1>1, <1>3
<1>10. /\ IsFiniteSet(1 .. j) /\ Cardinality(1 .. j) = j
       /\ IsFiniteSet(1 .. i - 1) /\ Cardinality(1 .. i - 1) = i - 1
  BY <1>9, FS_Interval
<1>11. Cardinality(1 .. i - 1) < Cardinality(1 .. j)
  BY <1>9, <1>10
<1>12. PICK a, b \in 1 .. j : a # b /\ f[a] = f[b]
  BY <1>8, <1>10, <1>11, FS_PigeonHole
<1>13. t[a] = t[b]
  BY <1>7, <1>12
<1>14. a \in 1 .. n /\ b \in 1 .. n
  BY <1>1, <1>3, <1>12
<1> QED
  BY <1>2, <1>12, <1>13, <1>14

\* Without ties there is one order.
LEMMA OneOrder ==
  ASSUME NEW rows, IsFiniteSet(rows), NEW order, Comparable(rows, order),
         \A a, b \in rows : a # b => Precedes(a, b, order) \/ Precedes(b, a, order),
         NEW s \in Orders(rows, order), NEW t \in Orders(rows, order), NEW i \in 1 .. Cardinality(rows)
  PROVE  t[i] = s[i]
<1>1. s[i] \in rows /\ t[i] \in rows
  BY DEF Orders
<1>2. i \in Nat
  BY FS_CardinalityType
<1>3. ~Precedes(t[i], s[i], order) /\ ~Precedes(s[i], t[i], order)
  BY <1>2, PlacesAgree
<1> QED
  BY <1>1, <1>3

-----------------------------------------------------------------------------
(* Pages. *)

First(n, limit) == (n - 1) * limit
End(n, limit, total) == IF First(n, limit) + limit < total THEN First(n, limit) + limit ELSE total

\* n pages reach the total, and each of them begins before it
Paged(n, limit, total) ==
  /\ n \in Nat /\ 1 <= n /\ total <= n * limit
  /\ \A m \in 1 .. n : First(m, limit) < total \/ (total = 0 /\ m = 1)

\* The client stops at the page that reaches the total.
LEMMA LastPageIs ==
  ASSUME NEW total \in Nat, NEW requested, Limit(requested) \in Nat \ {0}
  PROVE  Paged(LastPage(total, requested), Limit(requested), total)
<1> DEFINE limit == Limit(requested)
           x == total + limit - 1
           pages == x \div limit
           stops(n) == ~(n < pages) /\ \A m \in 1 .. n - 1 : m < pages
           last == LastPage(total, requested)
<1>1. limit \in Nat \ {0}
  OBVIOUS
<1>2. \A n : Meta(total, n, limit).more <=> n < pages
  BY DEF Meta
<1>3. last = CHOOSE n \in 1 .. total + 1 : stops(n)
  <2>1. \A n \in 1 .. total + 1 : Meta(total, n, limit).more = (n < pages) /\ \A m \in 1 .. n - 1 : Meta(total, m, limit).more = (m < pages)
    BY DEF Meta
  <2> HIDE DEF pages, limit
  <2> QED
    BY <2>1 DEF LastPage, limit
<1> HIDE DEF limit, last
<1>4. x \in Nat
  BY <1>1
<1>5. pages \in Nat /\ pages * limit <= x /\ x < pages * limit + limit
  BY <1>1, <1>4, Division
<1> HIDE DEF pages
<1>6. pages * limit \in Nat
  BY <1>1, <1>5
<1>7. total <= pages * limit /\ pages * limit < total + limit
  BY <1>1, <1>5, <1>6
<1>8. pages <= total
  <2>1. SUFFICES ASSUME pages > total PROVE FALSE
    BY <1>5
  <2>2. PICK r \in Nat : pages = total + 1 + r
    <3>1. pages - (total + 1) \in Nat /\ pages = total + 1 + (pages - (total + 1))
      BY <1>5, <2>1
    <3> QED
      BY <3>1
  <2>3. pages * limit = total * limit + limit + r * limit
    BY <1>1, <2>2
  <2>4. total * limit \in Nat /\ r * limit \in Nat /\ total <= total * limit
    <3>1. PICK l \in Nat : limit = l + 1
      <4>1. limit - 1 \in Nat /\ limit = (limit - 1) + 1
        BY <1>1
      <4> QED
        BY <4>1
    <3>2. total * limit = total * l + total /\ total * l \in Nat
      BY <3>1
    <3> QED
      BY <1>1, <3>2
  <2> QED
    BY <1>1, <1>7, <2>3, <2>4
<1>9. \E n \in 1 .. total + 1 : stops(n)
  <2>1. CASE pages = 0
    <3>1. 1 \in 1 .. total + 1 /\ stops(1)
      BY <2>1
    <3> QED
      BY <3>1
  <2>2. CASE pages # 0
    <3>1. pages \in 1 .. total + 1 /\ stops(pages)
      BY <1>5, <1>8, <2>2
    <3> QED
      BY <3>1
  <2> QED
    BY <2>1, <2>2
<1>10. last \in 1 .. total + 1 /\ stops(last)
  BY <1>3, <1>9
<1>11. total <= last * limit
  <2>1. PICK r \in Nat : last = pages + r
    <3>1. last - pages \in Nat /\ last = pages + (last - pages)
      BY <1>5, <1>10
    <3> QED
      BY <3>1
  <2>2. last * limit = pages * limit + r * limit /\ r * limit \in Nat
    BY <1>1, <1>5, <2>1
  <2> QED
    BY <1>6, <1>7, <2>2
<1>12. ASSUME NEW m \in 1 .. last PROVE First(m, limit) < total \/ (total = 0 /\ m = 1)
  <2>1. CASE m = 1
    <3>1. First(m, limit) = 0
      BY <1>1, <2>1 DEF First
    <3> QED
      BY <2>1, <3>1
  <2>2. CASE m # 1
    <3> DEFINE k == m - 1
    <3>1. k \in 1 .. last - 1
      BY <1>10, <2>2
    <3>2. k < pages /\ k \in Nat
      BY <1>10, <3>1
    <3> HIDE DEF k
    <3>3. PICK r \in Nat : pages = k + 1 + r
      <4>1. pages - (k + 1) \in Nat /\ pages = k + 1 + (pages - (k + 1))
        BY <1>5, <3>2
      <4> QED
        BY <4>1
    <3>4. pages * limit = k * limit + limit + r * limit
      BY <1>1, <3>2, <3>3
    <3>5. k * limit \in Nat /\ r * limit \in Nat
      BY <1>1, <3>2
    <3>6. k * limit < total
      BY <1>1, <1>7, <3>4, <3>5
    <3> QED
      BY <3>6 DEF First, k
  <2> QED
    BY <2>1, <2>2
<1>13. last \in Nat /\ 1 <= last
  BY <1>10
<1> QED
  BY <1>11, <1>12, <1>13 DEF Paged, limit, last

\* The rows of a page, each at its place in the whole list.
LEMMA PageRows ==
  ASSUME NEW V, NEW s \in Seq(V), NEW limit \in Nat \ {0}, NEW pages, Paged(pages, limit, Len(s)),
         NEW n \in 1 .. pages
  PROVE  LET first == First(n, limit)
             rest  == SubSeq(s, first + 1, End(n, limit, Len(s)))
         IN /\ first \in Nat /\ End(n, limit, Len(s)) \in Nat /\ first <= End(n, limit, Len(s))
            /\ rest \in Seq(V) /\ Len(rest) = End(n, limit, Len(s)) - first
            /\ \A k \in 1 .. Len(rest) : rest[k] = s[first + k]
<1> DEFINE first == First(n, limit)
           end == End(n, limit, Len(s))
           rest == SubSeq(s, first + 1, end)
<1>1. Len(s) \in Nat /\ n \in Nat /\ n - 1 \in Nat
  BY DEF Paged
<1>2. first \in Nat
  BY <1>1 DEF First
<1>3. first <= Len(s)
  <2>1. CASE first < Len(s)
    BY <1>1, <1>2, <2>1
  <2>2. CASE n = 1
    <3>1. first = 0
      BY <2>2 DEF First
    <3> QED
      BY <1>1, <3>1
  <2> QED
    BY <2>1, <2>2 DEF Paged
<1> HIDE DEF first
<1>4. end \in Nat /\ first <= end /\ end <= Len(s)
  BY <1>1, <1>2, <1>3 DEF End, first
<1> HIDE DEF end
<1>5. rest \in Seq(V) /\ Len(rest) = end - first /\ \A k \in 1 .. Len(rest) : rest[k] = s[first + k]
  BY <1>1, <1>2, <1>4
<1> QED
  BY <1>2, <1>4, <1>5 DEF first, end

\* every row of seen stands at its place in some order of the rows
FromOrders(seen, sorted) == \A i \in 1 .. Len(seen) : \E m \in DOMAIN sorted : seen[i] = sorted[m][i]

\* the pages cut out of orders of the same length
Cuts(data, sorted, pages, limit, total) ==
  /\ \A n \in 1 .. pages : Len(sorted[n]) = total
  /\ data = [n \in 1 .. pages |-> SubSeq(sorted[n], First(n, limit) + 1, End(n, limit, total))]
AllShown(seen, V, sorted, total) == seen \in Seq(V) /\ Len(seen) = total /\ FromOrders(seen, sorted)

\* The pages one after the other have as many rows as the list, each at its place in the order of its page.
LEMMA PagesJoined ==
  ASSUME NEW V, NEW total \in Nat, NEW limit \in Nat \ {0}, NEW pages, Paged(pages, limit, total),
         NEW sorted \in [1 .. pages -> Seq(V)], NEW data, Cuts(data, sorted, pages, limit, total)
  PROVE  AllShown(FlattenSeq(data), V, sorted, total)
<1>1. pages \in Nat /\ 1 <= pages
  BY DEF Paged
<1>2. \A n \in 1 .. pages : LET first == First(n, limit) IN
        /\ first \in Nat /\ End(n, limit, total) \in Nat /\ first <= End(n, limit, total)
        /\ data[n] \in Seq(V) /\ Len(data[n]) = End(n, limit, total) - first
        /\ \A k \in 1 .. Len(data[n]) : data[n][k] = sorted[n][first + k]
  <2>1. /\ \A n \in 1 .. pages : Len(sorted[n]) = total
        /\ data = [n \in 1 .. pages |-> SubSeq(sorted[n], First(n, limit) + 1, End(n, limit, total))]
    BY DEF Cuts
  <2> QED
    BY <2>1, PageRows
<1>3. data \in Seq(Seq(V)) /\ Len(data) = pages
  <2>1. \A n \in 1 .. pages : data[n] \in Seq(V)
    BY <1>2
  <2>2. data \in [1 .. pages -> Seq(V)]
    BY <2>1 DEF Cuts
  <2> QED
    BY <1>1, <2>2
<1> HIDE DEF FromOrders
<1>4. PICK g \in [0 .. pages -> Seq(V)] : /\ g[0] = << >>
                                          /\ \A k \in 1 .. pages : g[k] = g[k - 1] \o data[k]
                                          /\ FlattenSeq(data) = g[pages]
  <2>1. \E g \in [0 .. Len(data) -> Seq(V)] : /\ g[0] = << >>
                                              /\ \A k \in 1 .. Len(data) : g[k] = g[k - 1] \o data[k]
                                              /\ FlattenSeq(data) = g[Len(data)]
    BY <1>3, FlattenSteps, Zenon
  <2> QED
    BY <1>3, <2>1, Zenon
<1> DEFINE reached(k) == IF k * limit < total THEN k * limit ELSE total
           T == {k \in Nat : k \in 0 .. pages => Len(g[k]) = reached(k) /\ FromOrders(g[k], sorted)}
<1>5. 0 \in T
  <2>1. Len(<< >>) = 0 /\ reached(0) = 0
    OBVIOUS
  <2> QED
    BY <1>4, <2>1 DEF FromOrders
<1>6. ASSUME NEW k \in Nat, k \in T PROVE k + 1 \in T
  <2> DEFINE j == k + 1
             first == First(j, limit)
             end == End(j, limit, total)
  <2>1. SUFFICES ASSUME j \in 0 .. pages PROVE Len(g[j]) = reached(j) /\ FromOrders(g[j], sorted)
    BY DEF T
  <2>2. j \in 1 .. pages /\ k \in 0 .. pages /\ j - 1 = k /\ j = k + 1
    BY <1>1, <2>1
  <2>3. Len(g[k]) = reached(k) /\ FromOrders(g[k], sorted)
    BY <1>6, <2>2
  <2>4. first = k * limit /\ k * limit \in Nat /\ j * limit = k * limit + limit
    BY <2>2 DEF First
  <2>5. k * limit < total \/ (total = 0 /\ k = 0)
    BY <2>2, <2>4 DEF Paged
  <2>6. reached(k) = first
    BY <2>4, <2>5
  <2>7. end = reached(j)
    BY <2>4 DEF End
  <2>8. /\ first \in Nat /\ end \in Nat /\ first <= end
        /\ data[j] \in Seq(V) /\ Len(data[j]) = end - first
        /\ \A m \in 1 .. Len(data[j]) : data[j][m] = sorted[j][first + m]
    BY <1>2, <2>2
  <2>9. g[j] = g[k] \o data[j] /\ g[k] \in Seq(V)
    BY <1>4, <2>2
  <2> HIDE DEF j, first, end, T, reached
  <2>10. /\ Len(g[j]) = Len(g[k]) + Len(data[j])
         /\ \A i \in 1 .. Len(g[k]) : g[j][i] = g[k][i]
         /\ \A i \in 1 .. Len(data[j]) : g[j][Len(g[k]) + i] = data[j][i]
    <3> DEFINE a == g[k]
               b == data[j]
    <3>1. a \in Seq(V) /\ b \in Seq(V) /\ g[j] = a \o b
      BY <2>8, <2>9
    <3> HIDE DEF a, b
    <3>2. /\ Len(a \o b) = Len(a) + Len(b)
          /\ \A i \in 1 .. Len(a) : (a \o b)[i] = a[i]
          /\ \A i \in 1 .. Len(b) : (a \o b)[Len(a) + i] = b[i]
      BY <3>1, ConcatFacts
    <3> QED
      BY <3>1, <3>2 DEF a, b
  <2>11. Len(g[j]) = end
    BY <2>3, <2>6, <2>8, <2>10
  <2>12. ASSUME NEW i \in 1 .. Len(g[j]) PROVE \E m \in DOMAIN sorted : g[j][i] = sorted[m][i]
    <3>1. CASE i \in 1 .. Len(g[k])
      <4>1. g[j][i] = g[k][i]
        BY <2>10, <3>1
      <4> QED
        BY <2>3, <3>1, <4>1 DEF FromOrders
    <3>2. CASE i \notin 1 .. Len(g[k])
      <4>1. i - first \in 1 .. Len(data[j]) /\ first + (i - first) = i
        BY <2>3, <2>6, <2>8, <2>11, <3>2
      <4>2. g[j][i] = data[j][i - first]
        <5> DEFINE m == i - first
        <5>1. m \in 1 .. Len(data[j]) /\ Len(g[k]) + m = i
          BY <2>3, <2>6, <4>1
        <5> HIDE DEF m
        <5>2. g[j][Len(g[k]) + m] = data[j][m]
          BY <2>10, <5>1
        <5> QED
          BY <5>1, <5>2 DEF m
      <4>3. data[j][i - first] = sorted[j][i]
        BY <2>8, <4>1
      <4>4. j \in DOMAIN sorted
        BY <2>2
      <4> QED
        BY <4>2, <4>3, <4>4
    <3> QED
      BY <3>1, <3>2
  <2> QED
    BY <2>7, <2>11, <2>12 DEF FromOrders
<1>7. pages \in T
  <2> HIDE DEF T
  <2> QED
    BY <1>1, <1>5, <1>6, NatInductionOnSet
<1>8. pages \in 0 .. pages
  BY <1>1
<1>9. Len(g[pages]) = reached(pages) /\ FromOrders(g[pages], sorted)
  BY <1>7, <1>8
<1>10. reached(pages) = total
  <2>1. total <= pages * limit /\ pages * limit \in Nat
    BY <1>1 DEF Paged
  <2> QED
    BY <2>1
<1> HIDE DEF T, reached
<1>11. g[pages] \in Seq(V)
  BY <1>8
<1> QED
  BY <1>4, <1>9, <1>10, <1>11 DEF AllShown
-----------------------------------------------------------------------------
(* A walk through the pages of a list. *)

\* A statement selects tuples of the linked rows, on the tables of its FROM.
LEMMA SelectedTuples ==
  ASSUME NEW db, Consistent(db), NEW list \in Lists, NEW statement, NEW f, FilterOf(list, f)
  PROVE  Selected(db, list, statement, f)
           = Tuples(LinkedRows(db, list), Found(db, list, f), TablesOf(list, statement, f))
<1> DEFINE L == LinkedRows(db, list)
           root == RootOf(list)
           D == TablesOf(list, statement, f)
<1>1. /\ Chained(db, L, From(list, statement, f), root)
      /\ FromTables(list, statement, f) = D
  BY FromChained DEF FromRight
<1>2. \A c \in Clauses(list, f) : c[2] \in D
  BY ClausesCovered
<1> HIDE DEF L, root, D
<1>3. Selected(db, list, statement, f)
        = Tuples(L, {r \in db[root] : \A c \in Clauses(list, f) : Holds(db, c, L[r])}, FromTables(list, statement, f))
  BY <1>1, <1>2, SelectedIs
<1> QED
  BY <1>1, <1>3 DEF Found, L, root, D

\* the tables whose columns order a list
SortTables(list) == {RootOf(list)} \cup IF list = "batches" THEN {"intake"} ELSE {}

\* An order of a list is by one column or two, of those tables.
LEMMA SortColumns ==
  ASSUME NEW list \in Lists, NEW sort, ~UnknownSort(list, sort)
  PROVE  LET order == OrderBy(list, sort)
         IN /\ \E n \in Nat : DOMAIN order = 1 .. n
            /\ \A i \in DOMAIN order : order[i][1] \in SortTables(list)
<1> DEFINE given == ResolvedSort(list, sort)
           X == {"intake", "batch", "task", "result", "assomi", "sender", "message", "error",
                 "at", "file", "rows", "status", "done", "email", "name", "updated", "row"}
           key == SortOf(list)[given.by]
           way == given.order
           first == Append(key, way)
           tie == TieBreak(list)
           order == OrderBy(list, sort)
<1>1. given.by \in DOMAIN SortOf(list)
  BY DEF UnknownSort
<1>2. \E t \in SortTables(list), c \in X : key = <<t, c>>
  <2> HIDE DEF given
  <2>1. CASE list \in {"intakes", "monitoring"}
    <3>1. SortOf(list) = IntakeSort
      BY <2>1 DEF SortOf
    <3>2. "intake" \in SortTables(list)
      BY <2>1 DEF SortTables, RootOf
    <3>3. given.by \in {"created_at", "file_name", "sender_email"}
      BY <1>1, <3>1 DEF IntakeSort
    <3>4. key = <<"intake", "at">> \/ key = <<"intake", "file">> \/ key = <<"intake", "sender">>
      BY <3>1, <3>3 DEF IntakeSort
    <3> QED
      BY <3>2, <3>4
  <2>2. CASE list = "batches"
    BY <1>1, <2>2 DEF SortOf, BatchSort, SortTables, RootOf
  <2>3. CASE list = "tasks"
    BY <1>1, <2>3 DEF SortOf, TaskSort, SortTables, RootOf
  <2>4. CASE list = "results"
    BY <1>1, <2>4 DEF SortOf, ResultSort, SortTables, RootOf
  <2>5. CASE list = "assomi"
    BY <1>1, <2>5 DEF SortOf, AssomiSort, SortTables, RootOf
  <2>6. CASE list = "senders"
    BY <1>1, <2>6 DEF SortOf, SenderSort, SortTables, RootOf
  <2>7. CASE list = "messages"
    BY <1>1, <2>7 DEF SortOf, MessageSort, SortTables, RootOf
  <2>8. CASE list = "errors"
    BY <1>1, <2>8 DEF SortOf, ErrorSort, SortTables, RootOf
  <2> QED
    BY <2>1, <2>2, <2>3, <2>4, <2>5, <2>6, <2>7, <2>8 DEF Lists
<1>3. first[1] \in SortTables(list)
  <2>1. PICK t \in SortTables(list), c \in X : key = <<t, c>>
    BY <1>2
  <2> DEFINE Y == {t, c, way}
  <2>2. t \in Y /\ c \in Y /\ way \in Y
    OBVIOUS
  <2> HIDE DEF Y, key, way
  <2>3. <<t, c>> \in Seq(Y) /\ Len(<<t, c>>) = 2 /\ <<t, c>>[1] = t
    BY <2>2
  <2>4. Append(<<t, c>>, way)[1] = t
    BY <2>2, <2>3
  <2> QED
    BY <2>1, <2>4
<1>4. order = <<first>> \o tie
  BY DEF OrderBy
<1>5. tie = << >> \/ \E x : tie = <<x>> /\ x[1] \in SortTables(list)
  <2>1. CASE list = "senders"
    <3>1. tie = << <<"sender", "email", "asc">> >>
      BY <2>1 DEF TieBreak
    <3>2. "sender" \in SortTables(list)
      BY <2>1 DEF SortTables, RootOf
    <3> QED
      BY <3>1, <3>2
  <2>2. CASE list = "messages"
    <3>1. tie = << <<"message", "id", "desc">> >>
      BY <2>2 DEF TieBreak
    <3>2. "message" \in SortTables(list)
      BY <2>2 DEF SortTables, RootOf
    <3> QED
      BY <3>1, <3>2
  <2>3. CASE list # "senders" /\ list # "messages"
    BY <2>3 DEF TieBreak
  <2> QED
    BY <2>1, <2>2, <2>3
<1> HIDE DEF first, tie, order
<1>6. CASE tie = << >>
  <2>1. order = <<first>>
    BY <1>4, <1>6
  <2>2. DOMAIN order = 1 .. 1 /\ order[1] = first
    BY <2>1
  <2> QED
    BY <1>3, <2>2 DEF order
<1>7. ASSUME NEW x, tie = <<x>>, x[1] \in SortTables(list)
      PROVE  (\E n \in Nat : DOMAIN order = 1 .. n) /\ \A i \in DOMAIN order : order[i][1] \in SortTables(list)
  <2> DEFINE Y == {first, x}
  <2>1. first \in Y /\ x \in Y
    OBVIOUS
  <2> HIDE DEF Y
  <2>2. <<first>> \o <<x>> = <<first, x>>
    BY <2>1, PairSeq
  <2>3. order = <<first, x>>
    BY <1>4, <1>7, <2>2
  <2>4. DOMAIN order = 1 .. 2 /\ order[1] = first /\ order[2] = x
    BY <2>3
  <2> QED
    BY <1>3, <1>7, <2>4
<1> QED
  BY <1>5, <1>6, <1>7 DEF order

\* The columns of an order hold a key for every row of the list.
LEMMA SortKeys ==
  ASSUME NEW db, Consistent(db), NEW list \in Lists, NEW f, FilterOf(list, f),
         NEW sort, ~UnknownSort(list, sort), Numeric(db, OrderBy(list, sort))
  PROVE  Comparable(Selected(db, list, "list", f), OrderBy(list, sort))
<1> DEFINE L == LinkedRows(db, list)
           root == RootOf(list)
           D == TablesOf(list, "list", f)
           R == Found(db, list, f)
           order == OrderBy(list, sort)
<1>1. Selected(db, list, "list", f) = Tuples(L, R, D)
  BY SelectedTuples
<1>2. /\ \E n \in Nat : DOMAIN order = 1 .. n
      /\ \A i \in DOMAIN order : order[i][1] \in SortTables(list)
  BY SortColumns
<1>3. SortTables(list) \subseteq D
  BY DEF SortTables, TablesOf
<1>4. R \subseteq db[root]
  BY DEF Found
<1>5. ASSUME NEW r \in R, NEW t \in SortTables(list) PROVE L[r][t] \in db[t]
  <2>1. CASE t = root
    BY <1>4, <2>1, RootRow
  <2>2. CASE t # root
    <3>1. list = "batches" /\ t = "intake"
      BY <2>2 DEF SortTables
    <3>2. r \in db["batch"]
      BY <1>4, <3>1 DEF RootOf
    <3>3. Finds(db, L, db["batch"], {"batch"}, "inner", "intake")
      BY <3>1, BatchFinds
    <3> DEFINE found == {row \in db["intake"] : On(Cut(L[r], {"batch"}), "intake", row)}
    <3>4. found = {L[r]["intake"]}
      BY <3>2, <3>3 DEF Finds
    <3>5. L[r]["intake"] \in found
      BY <3>4
    <3> QED
      BY <3>1, <3>5
  <2> QED
    BY <2>1, <2>2
<1> HIDE DEF L, R, D, order, root
<1>6. ASSUME NEW i \in DOMAIN order, NEW x \in Tuples(L, R, D) PROVE KeyAt(x, order, i) \in Keys
  <2> DEFINE t == order[i][1]
             c == order[i][2]
  <2>1. PICK r \in R : x = Cut(L[r], D)
    BY DEF Tuples
  <2>2. t \in SortTables(list) /\ t \in D
    BY <1>2, <1>3
  <2>3. x[t] = L[r][t]
    BY <2>1, <2>2 DEF Cut
  <2>4. x[t] \in db[t]
    BY <1>5, <2>2, <2>3
  <2>5. x[t][c] \in Nat \cup {Null}
    BY <2>4 DEF Numeric, order
  <2> QED
    BY <2>5 DEF KeyAt, Value, Keys
<1> QED
  BY <1>1, <1>2, <1>6 DEF Comparable, order

\* what a walk shows of the rows: WalkShowsAll
Shown(pages, rows, order) ==
  LET seen == FlattenSeq([n \in DOMAIN pages |-> pages[n].data])
  IN /\ Len(seen) = Cardinality(rows)
     /\ \A n \in DOMAIN pages : /\ pages[n].meta.total = Len(seen)
                                /\ pages[n].data = <<>> => seen = <<>>
     /\ \A i, j \in DOMAIN seen : i < j => ~Precedes(seen[j], seen[i], order)
     /\ (\A a, b \in rows : a # b => Precedes(a, b, order) \/ Precedes(b, a, order)) => ToSet(seen) = rows

\* The pages show as many rows as there are, in order, and all of them when there are no ties.
LEMMA PagesShow ==
  ASSUME NEW rows, IsFiniteSet(rows), NEW order, Comparable(rows, order),
         NEW requested, Limit(requested) \in Nat \ {0}, NEW total, total = Cardinality(rows),
         NEW sorted \in [1 .. LastPage(total, requested) -> Orders(rows, order)],
         NEW pages, pages = [n \in DOMAIN sorted |-> Page(sorted[n], total, n, requested)]
  PROVE  Shown(pages, rows, order)
<1> DEFINE last == LastPage(total, requested)
           limit == Limit(requested)
           data == [n \in DOMAIN pages |-> pages[n].data]
           seen == FlattenSeq(data)
<1>1. total \in Nat
  BY FS_CardinalityType
<1>2. Paged(last, limit, total)
  BY <1>1, LastPageIs
<1> HIDE DEF last
<1>3. DOMAIN sorted = 1 .. last /\ DOMAIN pages = 1 .. last
  BY DEF last
<1>4. last \in Nat /\ 1 \in 1 .. last
  BY <1>2 DEF Paged
<1>5. \A n \in 1 .. last : sorted[n] \in Orders(rows, order)
  BY <1>3 DEF last
<1>6. \A n \in 1 .. last : /\ sorted[n] \in Seq(rows) /\ Len(sorted[n]) = total
                           /\ DOMAIN sorted[n] = 1 .. total /\ ToSet(sorted[n]) = rows
  BY <1>5, OrdersFacts
<1>7. \A n \in 1 .. last :
        /\ pages[n].data = SubSeq(sorted[n], First(n, limit) + 1, End(n, limit, total))
        /\ pages[n].meta.total = total
  BY <1>3, <1>6 DEF Page, Meta, Offset, First, End
<1>8. sorted \in [1 .. last -> Seq(rows)]
  BY <1>3, <1>5, <1>6 DEF last
<1>9. data = [n \in 1 .. last |-> SubSeq(sorted[n], First(n, limit) + 1, End(n, limit, total))]
  BY <1>3, <1>7
<1> HIDE DEF data, seen, limit
<1>10. limit \in Nat \ {0}
  BY DEF limit
<1>11. AllShown(FlattenSeq(data), rows, sorted, total)
  <2>1. Cuts(data, sorted, last, limit, total)
    BY <1>6, <1>9 DEF Cuts
  <2> QED
    BY <1>1, <1>2, <1>8, <1>10, <2>1, PagesJoined, Zenon
<1>12. seen \in Seq(rows) /\ Len(seen) = total /\ DOMAIN seen = 1 .. total /\ FromOrders(seen, sorted)
  BY <1>11 DEF seen, AllShown
<1>13. \A i \in 1 .. total : \E m \in 1 .. last : seen[i] = sorted[m][i]
  BY <1>3, <1>12 DEF FromOrders
<1>14. ASSUME NEW n \in 1 .. last, pages[n].data = << >> PROVE seen = << >>
  <2> DEFINE rest == SubSeq(sorted[n], First(n, limit) + 1, End(n, limit, total))
  <2>1. sorted[n] \in Seq(rows) /\ Len(sorted[n]) = total
    BY <1>6
  <2>2. /\ First(n, limit) \in Nat /\ End(n, limit, total) \in Nat
        /\ Len(rest) = End(n, limit, total) - First(n, limit)
    BY <1>2, <1>10, <2>1, PageRows
  <2>3. Len(rest) = 0
    <3>1. rest = << >>
      BY <1>7, <1>14, Zenon
    <3> HIDE DEF rest
    <3> QED
      BY <3>1
  <2>4. ~(First(n, limit) < total)
    BY <1>1, <1>10, <2>2, <2>3 DEF End
  <2>5. total = 0
    BY <1>2, <2>4 DEF Paged
  <2> QED
    BY <1>12, <2>5
<1>15. ASSUME NEW i \in 1 .. total, NEW j \in 1 .. total, i < j PROVE ~Precedes(seen[j], seen[i], order)
  <2>1. PICK m \in 1 .. last : seen[i] = sorted[m][i]
    BY <1>13
  <2>2. PICK n \in 1 .. last : seen[j] = sorted[n][j]
    BY <1>13
  <2>3. sorted[m] \in Orders(rows, order) /\ sorted[n] \in Orders(rows, order)
    BY <1>5
  <2>4. i \in 1 .. Cardinality(rows) /\ j \in 1 .. Cardinality(rows) /\ i <= j
    BY <1>1, <1>15
  <2>5. ~Precedes(sorted[n][j], sorted[m][i], order)
    BY <2>3, <2>4, PlacesAgree
  <2> QED
    BY <2>1, <2>2, <2>5
<1>16. ASSUME \A a, b \in rows : a # b => Precedes(a, b, order) \/ Precedes(b, a, order)
       PROVE  ToSet(seen) = rows
  <2>1. ASSUME NEW i \in 1 .. total PROVE seen[i] = sorted[1][i]
    <3>1. PICK m \in 1 .. last : seen[i] = sorted[m][i]
      BY <1>13
    <3>2. sorted[m] \in Orders(rows, order) /\ sorted[1] \in Orders(rows, order)
      BY <1>4, <1>5
    <3>3. i \in 1 .. Cardinality(rows)
      OBVIOUS
    <3>4. sorted[m][i] = sorted[1][i]
      BY <1>16, <3>2, <3>3, OneOrder
    <3> QED
      BY <3>1, <3>4
  <2>2. ToSet(sorted[1]) = rows /\ DOMAIN sorted[1] = 1 .. total
    BY <1>4, <1>6
  <2> QED
    BY <1>12, <2>1, <2>2 DEF ToSet
<1> QED
  BY <1>3, <1>7, <1>12, <1>14, <1>15, <1>16 DEF Shown, seen, data

\* The pages of a walk that is answered show the list.
LEMMA WalkShows ==
  ASSUME NEW db, Consistent(db), NEW walk, walk[1] \in Lists, FilterOf(walk[1], walk[2]),
         walk[4] = Null \/ walk[4] \in Nat \ {0},
         ~UnknownSort(walk[1], walk[3]) => Numeric(db, OrderBy(walk[1], walk[3])),
         NEW ans \in WalkReplies(db, walk), ~ans.refused
  PROVE  Shown(ans.pages, Selected(db, walk[1], "list", walk[2]), OrderBy(walk[1], walk[3]))
<1> DEFINE rows(statement) == Selected(db, walk[1], statement, walk[2])
           listed == rows("list")
           total == Cardinality(rows("count"))
           order == OrderBy(walk[1], walk[3])
           last == LastPage(total, walk[4])
<1>1. CASE UnknownSort(walk[1], walk[3])
  <2>1. ans = [refused |-> TRUE]
    BY <1>1 DEF WalkReplies
  <2> QED
    BY <2>1
<1>2. CASE ~UnknownSort(walk[1], walk[3])
  <2>1. PICK sorted \in [1 .. last -> Orders(listed, order)] :
          ans = [refused |-> FALSE, pages |-> [n \in DOMAIN sorted |-> Page(sorted[n], total, n, walk[4])]]
    BY <1>2 DEF WalkReplies
  <2>2. ans.pages = [n \in DOMAIN sorted |-> Page(sorted[n], total, n, walk[4])]
    BY <2>1
  <2>3. SelectsFound(db, walk[1], "list", walk[2]) /\ SelectsFound(db, walk[1], "count", walk[2])
    BY SelectedFound
  <2>4. IsFiniteSet(listed) /\ total = Cardinality(listed)
    BY <2>3 DEF SelectsFound
  <2>5. Comparable(listed, order)
    BY <1>2, SortKeys
  <2>6. Limit(walk[4]) \in Nat \ {0}
    BY ListingAssumption DEF Limit
  <2> DEFINE pages == ans.pages
  <2> HIDE DEF listed, total, order, pages
  <2>7. Shown(pages, listed, order)
    <3>1. sorted \in [1 .. LastPage(total, walk[4]) -> Orders(listed, order)]
      OBVIOUS
    <3>2. pages = [n \in DOMAIN sorted |-> Page(sorted[n], total, n, walk[4])]
      BY <2>2 DEF pages
    <3> QED
      BY <2>4, <2>5, <2>6, <3>1, <3>2, PagesShow, Zenon
  <2> QED
    BY <2>7 DEF listed, order, pages
<1> QED
  BY <1>1, <1>2

\* A client that reads on while there is more gets as many rows as it was told,
\* in order, and every row when none tie, though every page is a statement of
\* its own that breaks ties anew: WalkShowsAll.
THEOREM WalksAreWhole == RequestSpec => []WalkShowsAll
<1>1. ASSUME Asked, Right, Answered("walk"), ~reply.refused PROVE WalkShowsAll
  <2>1. PICK db \in Databases, walk \in Walks : subject = <<"walk", db, walk>>
    BY <1>1 DEF Asked, Answered
  <2>2. subject[2] = db /\ subject[3] = walk
    BY <2>1
  <2>3. /\ Consistent(db) /\ walk[1] \in Lists /\ FilterOf(walk[1], walk[2])
        /\ walk[4] = Null \/ walk[4] \in Nat \ {0}
        /\ ~UnknownSort(walk[1], walk[3]) => Numeric(db, OrderBy(walk[1], walk[3]))
    BY RequestAssumption
  <2>4. reply \in WalkReplies(db, walk)
    BY <1>1, <2>2 DEF Right
  <2>5. Shown(reply.pages, Selected(db, walk[1], "list", walk[2]), OrderBy(walk[1], walk[3]))
    BY <1>1, <2>3, <2>4, WalkShows
  <2> QED
    BY <2>2, <2>5 DEF WalkShowsAll, Shown
<1>2. ASSUME ~(Answered("walk") /\ ~reply.refused) PROVE WalkShowsAll
  BY <1>2 DEF WalkShowsAll
<1> QED
  BY <1>1, <1>2, AnsweredRight, PTL
=============================================================================
