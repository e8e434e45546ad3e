--------------------------- MODULE ResultDownload ---------------------------
(***************************************************************************)
(* Downloading the results of a batch while the pipeline runs.  The        *)
(* session reads committed rows and every statement sees a state of its    *)
(* own: first the batch, then its assomi_tasks row, its aggregation_tasks  *)
(* row and its nat_tasks.  Whether the pipeline has ended, and which       *)
(* sheets the workbook gets, is decided from those four reads, which may   *)
(* never have been true together.                                          *)
(***************************************************************************)
EXTENDS NatPipeline, Sequences

VARIABLE dl  \* the download under way, or the last one that was served

dlVars == <<vars, dl>>

NoDownload == [batch |-> NoBatch, next |-> 1, assomi |-> "none", agg |-> "none", served |-> FALSE]

\* Mutant: the later stage is read after the earlier one.
Statements_PipelineOrder == <<"agg", "assomi", "tasks">>
\* _load_pipeline_context: the last stage of the pipeline is read first
Statements == <<"assomi", "agg", "tasks">>

\* is_pipeline_terminal of an ASSOMI status, an aggregation row and the tasks
\* read before
Ended(a, g, failed) ==
  \/ a \in {"completed", "failed"}
  \/ g = "failed"
  \/ g \in {"nospin", "blank"} /\ a = "none"
  \/ failed

\* resolve_download: a single-stage batch is not ready whatever else is read
Ask(b) ==
  /\ dl.next = 1 /\ live[b] /\ ~single[b]
  /\ dl' = [NoDownload EXCEPT !.batch = b, !.next = 2]

Read(statement) ==
  LET b == dl.batch IN
  CASE statement = "assomi" -> dl' = [dl EXCEPT !.assomi = assomi[b], !.next = @ + 1]
    [] statement = "agg"    -> dl' = [dl EXCEPT !.agg = agg[b], !.next = @ + 1]
    [] statement = "tasks"  -> dl' = IF Ended(dl.assomi, dl.agg, NatAllFailed(b))
                                     THEN [dl EXCEPT !.served = TRUE, !.next = 1]
                                     ELSE NoDownload   \* not_ready

ReadNext == dl.next > 1 /\ Read(Statements[dl.next - 1])

DownloadInit == Init /\ dl = NoDownload

DownloadNext == \/ Next /\ UNCHANGED dl
                \/ (\E b \in Batches : Ask(b)) /\ UNCHANGED vars
                \/ ReadNext /\ UNCHANGED vars

DownloadSpec == DownloadInit /\ [][DownloadNext]_dlVars

-----------------------------------------------------------------------------
(* Properties.                                                             *)

\* A workbook that was served from reads of different moments is the workbook
\* of the batch's end: it has the ASSOMI sheet exactly when the outcome the
\* e-mail tells is success and the SPIN sheet exactly when there is a path, and
\* no worker adds a sheet later.
WholeWorkbook ==
  dl.served => LET b == dl.batch IN
    /\ dl.assomi = "completed" <=> Classify(b) = "success"
    /\ dl.agg = "spin" <=> agg[b] = "spin"
    /\ agg[b] # "blank" => PipelineTerminal(b)
=============================================================================
