--------------------------- MODULE DownloadProofs ---------------------------
(***************************************************************************)
(* A workbook that was put together from reads of different moments is the *)
(* workbook of the batch's end, for any number of workers, batches and     *)
(* tasks.                                                                  *)
(***************************************************************************)
EXTENDS ResultDownload, NatPipelineProofs

Downloads == [batch : Batches \cup {NoBatch}, next : 1 .. 4, assomi : AssomiStates,
              agg : AggStates, served : BOOLEAN]

Got(n) == dl.served \/ dl.next > n

\* What a download has read stays true, because it reads the later stage first:
\* an ASSOMI row that has ended belongs to an aggregation row that has.
DlInv ==
  /\ dl \in Downloads
  /\ dl.served => dl.next = 1
  /\ LET b == dl.batch IN
       /\ Got(1) => b \in Batches /\ live[b] /\ ~single[b]
       /\ Got(2) /\ dl.assomi \in {"completed", "failed"} => assomi[b] = dl.assomi
       /\ Got(3) => /\ dl.agg \in AggEnds => agg[b] = dl.agg
                    /\ dl.assomi \in {"completed", "failed"} => dl.agg = "spin"
       /\ dl.served => /\ ReadyForMail(b)
                       /\ dl.assomi = "completed" <=> assomi[b] = "completed"
                       /\ dl.agg = "spin" <=> agg[b] = "spin"

DownloadSafe == TypeOK /\ Inv /\ NotifiedOnlyWhenSettled /\ "blank" \notin AggResults

\* Beside the download the pipeline does what it does without.
LEMMA Beside == DownloadSpec => Spec
<1>1. DownloadInit => Init
  BY DEF DownloadInit
<1>2. [DownloadNext]_dlVars => [Next]_vars
  BY DEF DownloadNext, dlVars
<1> QED
  BY <1>1, <1>2, PTL DEF DownloadSpec, Spec

LEMMA NoSpinBeforeFailure ==
  ASSUME DownloadSafe, NEW b \in Batches, NatAllFailed(b)
  PROVE  agg[b] = "none" /\ assomi[b] = "none" /\ Source[b] = "nat"
<1>1. ~(notices[b] > 0) /\ Source[b] = "nat"
  BY DEF DownloadSafe, NotifiedOnlyWhenSettled, NatAllFailed
<1> QED
  BY <1>1 DEF DownloadSafe, Inv, Chain

LEMMA StageOrder ==
  ASSUME DownloadSafe, NEW b \in Batches
  PROVE  /\ agg[b] # "blank"
         /\ assomi[b] # "none" => agg[b] = "spin"
BY DEF DownloadSafe, Inv, Chain

\* Rows that a download has read as ended do not move.
LEMMA WorkersKeepDl ==
  ASSUME DownloadSafe, DlInv, [Next]_vars, UNCHANGED dl
  PROVE  DlInv'
<1> DEFINE b == dl.batch
<1>1. CASE ~Got(1)
  BY <1>1 DEF DlInv, Got, Downloads
<1>2. CASE Got(1)
  <2> USE <1>2
  <2>1. b \in Batches /\ live[b] /\ ~single[b]
    BY DEF DlInv
  <2>2. live'[b] /\ ~single'[b]
    BY <2>1, LiveStays, SingleMoves DEF DownloadSafe
  <2>3. assomi[b] \in {"completed", "failed"} => assomi'[b] = assomi[b]
    BY <2>1, AssomiMoves DEF DownloadSafe
  <2>4. agg[b] \in AggEnds => agg'[b] = agg[b]
    BY <2>1, AggMoves DEF DownloadSafe, AggEnds, Inv
  <2>5. ASSUME dl.served
        PROVE  /\ ReadyForMail(b)'
               /\ assomi'[b] = "completed" <=> assomi[b] = "completed"
               /\ agg'[b] = "spin" <=> agg[b] = "spin"
    <3>1. ReadyForMail(b)
      BY <2>5 DEF DlInv
    <3>2. ReadyForMail(b)' /\ Classify(b)' = Classify(b)
      BY <2>1, <3>1, OutcomeStays DEF DownloadSafe
    <3>3. assomi'[b] = "completed" <=> assomi[b] = "completed"
      BY <3>2 DEF Classify
    <3>4. agg'[b] = "spin" <=> agg[b] = "spin"
      <4>1. CASE agg[b] \in AggEnds
        BY <2>4, <4>1
      <4>2. CASE NatAllFailed(b)
        <5>1. agg[b] = "none" /\ Source[b] = "nat"
          BY <2>1, <4>2, NoSpinBeforeFailure
        <5>2. QED
          BY <2>1, <5>1, AggMoves DEF DownloadSafe, Inv
      <4>3. QED
        BY <2>1, <3>1, <4>1, <4>2, StageOrder DEF ReadyForMail, AggEnds
    <3>5. QED
      BY <3>2, <3>3, <3>4
  <2>6. QED
    BY <2>1, <2>2, <2>3, <2>4, <2>5 DEF DlInv, Got, AggEnds
<1>3. QED
  BY <1>1, <1>2

LEMMA AskKeepsDl ==
  ASSUME DownloadSafe, DlInv, UNCHANGED vars, NEW b \in Batches, Ask(b)
  PROVE  DlInv'
<1>1. dl' = [batch |-> b, next |-> 2, assomi |-> "none", agg |-> "none", served |-> FALSE]
  BY DEF Ask, NoDownload
<1>2. live'[b] /\ ~single'[b]
  BY DEF Ask, vars, rowVars
<1> QED
  BY <1>1, <1>2 DEF DlInv, Got, Downloads, AssomiStates, AggStates

\* What one read leaves of a download.
LEMMA ReadResult ==
  ASSUME NEW d \in Downloads
  PROVE  /\ \A a \in AssomiStates : [d EXCEPT !.assomi = a, !.next = 3] \in Downloads
         /\ \A g \in AggStates : [d EXCEPT !.agg = g, !.next = 4] \in Downloads
         /\ [d EXCEPT !.served = TRUE, !.next = 1] \in Downloads
<1> DEFINE B == Batches \cup {NoBatch}
           D == [batch : B, next : 1 .. 4, assomi : AssomiStates, agg : AggStates, served : BOOLEAN]
<1>1. D = Downloads
  BY DEF Downloads
<1> HIDE DEF B
<1>2. d \in D
  BY <1>1
<1>3. ASSUME NEW n \in 1 .. 4
      PROVE  /\ \A a \in AssomiStates : [d EXCEPT !.assomi = a, !.next = n] \in D
             /\ \A g \in AggStates : [d EXCEPT !.agg = g, !.next = n] \in D
             /\ [d EXCEPT !.served = TRUE, !.next = n] \in D
  BY <1>2
<1>4. {1, 3, 4} \subseteq 1 .. 4
  OBVIOUS
<1> HIDE DEF D
<1> QED
  BY <1>1, <1>3, <1>4

LEMMA ReadKeepsDl ==
  ASSUME DownloadSafe, DlInv, UNCHANGED vars, ReadNext
  PROVE  DlInv'
<1> DEFINE b == dl.batch
<1>0. /\ b \in Batches /\ live[b] /\ ~single[b]
      /\ dl.next \in {2, 3, 4} /\ ~dl.served
      /\ dl \in Downloads
  BY DEF ReadNext, DlInv, Got, Downloads
<1>u. UNCHANGED <<live, single, assomi, agg, task>>
  BY DEF vars, rowVars
<1>t. assomi[b] \in AssomiStates /\ agg[b] \in AggStates
  BY <1>0 DEF DownloadSafe, TypeOK, TypeRows
<1>1. CASE dl.next = 2
  <2>1. Statements[dl.next - 1] = "assomi"
    BY <1>1 DEF Statements
  <2>2. dl' = [dl EXCEPT !.assomi = assomi[b], !.next = 3]
    BY <1>0, <1>1, <2>1 DEF ReadNext, Read
  <2>3. /\ dl' \in Downloads
        /\ dl'.batch = b /\ dl'.next = 3 /\ dl'.assomi = assomi[b] /\ ~dl'.served
    <3>1. dl' \in Downloads
      BY <1>0, <1>t, <2>2, ReadResult, Zenon
    <3>2. QED
      BY <1>0, <2>2, <3>1 DEF Downloads
  <2>4. QED
    BY <1>0, <1>u, <2>3 DEF DlInv, Got
<1>2. CASE dl.next = 3
  <2>1. Statements[dl.next - 1] = "agg"
    BY <1>2 DEF Statements
  <2>2. dl' = [dl EXCEPT !.agg = agg[b], !.next = 4]
    BY <1>0, <1>2, <2>1 DEF ReadNext, Read
  <2>3. dl.assomi \in {"completed", "failed"} => assomi[b] = dl.assomi /\ agg[b] = "spin"
    BY <1>0, <1>2, StageOrder DEF DlInv, Got
  <2>4. /\ dl' \in Downloads
        /\ dl'.batch = b /\ dl'.next = 4 /\ ~dl'.served
        /\ dl'.assomi = dl.assomi /\ dl'.agg = agg[b]
    <3>1. dl' \in Downloads
      BY <1>0, <1>t, <2>2, ReadResult, Zenon
    <3>2. QED
      BY <1>0, <2>2, <3>1 DEF Downloads
  <2>5. QED
    BY <1>0, <1>u, <2>3, <2>4 DEF DlInv, Got
<1>3. CASE dl.next = 4
  <2>1. Statements[dl.next - 1] = "tasks"
    BY <1>3 DEF Statements
  <2>2. dl' = IF Ended(dl.assomi, dl.agg, NatAllFailed(b))
              THEN [dl EXCEPT !.served = TRUE, !.next = 1] ELSE NoDownload
    BY <1>0, <1>3, <2>1 DEF ReadNext, Read
  <2>3. CASE ~Ended(dl.assomi, dl.agg, NatAllFailed(b))
    <3>1. dl' = [batch |-> NoBatch, next |-> 1, assomi |-> "none", agg |-> "none", served |-> FALSE]
      BY <2>2, <2>3 DEF NoDownload
    <3>2. QED
      BY <3>1 DEF DlInv, Got, Downloads, AssomiStates, AggStates
  <2>4. CASE Ended(dl.assomi, dl.agg, NatAllFailed(b))
    <3>1. dl' = [dl EXCEPT !.served = TRUE, !.next = 1]
      BY <2>2, <2>4
    <3>2. /\ dl.assomi \in {"completed", "failed"} => assomi[b] = dl.assomi /\ dl.agg = "spin"
          /\ dl.agg \in AggEnds => agg[b] = dl.agg
      BY <1>0, <1>3 DEF DlInv, Got
    <3>3. /\ ReadyForMail(b)
          /\ dl.assomi = "completed" <=> assomi[b] = "completed"
          /\ dl.agg = "spin" <=> agg[b] = "spin"
      <4>1. CASE dl.assomi \in {"completed", "failed"}
        BY <1>0, <3>2, <4>1 DEF ReadyForMail, AggEnds
      <4>2. CASE dl.agg = "failed"
        BY <1>0, <3>2, <4>2, StageOrder DEF ReadyForMail, AggEnds
      <4>3. CASE dl.agg \in {"nospin", "blank"} /\ dl.assomi = "none"
        BY <1>0, <3>2, <4>3, StageOrder DEF ReadyForMail, AggEnds
      <4>4. CASE NatAllFailed(b)
        BY <1>0, <3>2, <4>4, NoSpinBeforeFailure DEF ReadyForMail, AggEnds
      <4>5. QED
        BY <2>4, <4>1, <4>2, <4>3, <4>4 DEF Ended
    <3>4. /\ dl' \in Downloads
          /\ dl'.batch = b /\ dl'.next = 1 /\ dl'.served
          /\ dl'.assomi = dl.assomi /\ dl'.agg = dl.agg
      <4>1. dl' \in Downloads
        BY <1>0, <3>1, ReadResult, Zenon
      <4>2. QED
        BY <1>0, <3>1, <4>1 DEF Downloads
    <3>5. ReadyForMail(b)'
      BY <1>0, <3>3, <3>4 DEF vars, rowVars, ReadyForMail, NatAllFailed, HasCompleted, HasNonTerminal, TasksOf
    <3>6. QED
      BY <1>0, <1>u, <3>2, <3>3, <3>4, <3>5 DEF DlInv, Got
  <2>5. QED
    BY <2>3, <2>4
<1>4. QED
  BY <1>0, <1>1, <1>2, <1>3

(* What is_pipeline_terminal concludes from reads of four moments, and the
   sheets that are chosen by them, are those of the batch for ever, provided
   the aggregation leaves no path of white space. *)
THEOREM WorkbookIsWhole ==
  ASSUME "blank" \notin AggResults
  PROVE  DownloadSpec => []WholeWorkbook
<1>1. DownloadInit => DlInv
  BY DEF DownloadInit, NoDownload, DlInv, Downloads, Got, AssomiStates, AggStates
<1>2. DownloadSafe /\ DlInv /\ [DownloadNext]_dlVars => DlInv'
  <2> SUFFICES ASSUME DownloadSafe, DlInv, [DownloadNext]_dlVars PROVE DlInv'
    OBVIOUS
  <2>1. CASE [Next]_vars /\ UNCHANGED dl
    BY <2>1, WorkersKeepDl
  <2>2. CASE (\E b \in Batches : Ask(b)) /\ UNCHANGED vars
    BY <2>2, AskKeepsDl
  <2>3. CASE ReadNext /\ UNCHANGED vars
    BY <2>3, ReadKeepsDl
  <2>4. QED
    BY <2>1, <2>2, <2>3 DEF DownloadNext, dlVars
<1>3. TypeOK /\ Inv /\ NotifiedOnlyWhenSettled => DownloadSafe
  BY DEF DownloadSafe
<1>4. DownloadSafe /\ DlInv => WholeWorkbook
  <2> SUFFICES ASSUME DownloadSafe, DlInv, dl.served
               PROVE  LET b == dl.batch IN
                        /\ dl.assomi = "completed" <=> Classify(b) = "success"
                        /\ dl.agg = "spin" <=> agg[b] = "spin"
                        /\ agg[b] # "blank" => PipelineTerminal(b)
    BY DEF WholeWorkbook
  <2> DEFINE b == dl.batch
  <2>1. /\ b \in Batches /\ live[b] /\ ~single[b] /\ ReadyForMail(b)
        /\ dl.assomi = "completed" <=> assomi[b] = "completed"
        /\ dl.agg = "spin" <=> agg[b] = "spin"
    BY DEF DlInv, Got
  <2>2. Classify(b) = "success" <=> assomi[b] = "completed"
    BY DEF Classify
  <2>3. Classify(b) # "none"
    <3>1. CASE NatAllFailed(b)
      BY <2>1, <3>1, NoSpinBeforeFailure DEF Classify
    <3>2. CASE assomi[b] \in {"completed", "failed"}
      BY <3>2 DEF Classify
    <3>3. CASE agg[b] = "failed" \/ (agg[b] = "nospin" /\ assomi[b] = "none")
      BY <2>1, <3>3, StageOrder DEF Classify
    <3>4. QED
      BY <2>1, <3>1, <3>2, <3>3 DEF ReadyForMail
  <2>4. QED
    BY <2>1, <2>2, <2>3 DEF PipelineTerminal
<1> QED
  BY <1>1, <1>2, <1>3, <1>4, Beside, Invariance, NotifiedSettled, PTL DEF DownloadSpec
=============================================================================
