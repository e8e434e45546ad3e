------------------------------ MODULE Workbook ------------------------------
(***************************************************************************)
(* The results workbook of an intake and the e-mail that carries it: which *)
(* files become which sheets, how the parts of a stage are merged, what    *)
(* the sheets are called, and what the mail says about its attachment.     *)
(* Pure operators over the rows w of one intake, [rejected, source, batch, *)
(* application, aggregation, outputs, assomi, output, merge, attach].      *)
(***************************************************************************)
EXTENDS Naturals, FiniteSets, Sequences, SequencesExt, Ordering

CONSTANTS
  TitleLimit,  \* EXCEL_MAX_SHEET_NAME_LENGTH
  MaxBytes     \* INTAKE_RESULT_EMAIL_MAX_ATTACHMENT_BYTES, a row or a sheet counts 1

ASSUME WorkbookAssumption == TitleLimit \in Nat /\ TitleLimit > 3 /\ MaxBytes \in Nat

\* A path of an artefact is NoPath (null or empty), Gone (outside of its base
\* directory or not a file), or <<name, n, utf8>>: a file of that name with n
\* lines, the first of them its header, encoded in UTF-8 or not.
NoPath == <<"none", 0, TRUE>>
Gone   == <<"gone", 0, TRUE>>
\* _resolve_readable_path
Readable(path) == path \notin {NoPath, Gone}

\* read_text(encoding=CSV_ENCODING), which is strict: else UnicodeDecodeError
Decodes(path) == path[3]

Header(path) == <<path[1], 0>>
\* load_csv_rows of a file that can be decoded
Lines(path) == [i \in 1 .. path[2] |-> <<path[1], i - 1>>]

\* Titles are sequences of characters; a stage's name counts as one.
Digits(n) == <<ToString(n)>>
Truncated(title, length) == SubSeq(title, 1, IF Len(title) < length THEN Len(title) ELSE length)

-----------------------------------------------------------------------------
(* build_sheet_plan: a sheet has a title and the paths of its files.       *)

Sheet(title, kind, paths) == [title |-> title, kind |-> kind, paths |-> paths]

\* sort(key=index), which is stable
ByIndex(files) ==
  LET before(i, j) == \/ files[i].index < files[j].index
                      \/ files[i].index = files[j].index /\ i < j
      order == {pair \in (DOMAIN files) \X (DOMAIN files) : before(pair[1], pair[2])}
  IN [k \in DOMAIN files |-> files[InOrder(DOMAIN files, order)[k]]]

\* Mutant: the order of output_files, whatever their index.
ReadablePaths_Unsorted(files) == At(files, {k \in DOMAIN files : Readable(files[k].path)})
\* _collect_readable_paths
ReadablePaths(files) == ByIndex(At(files, {k \in DOMAIN files : Readable(files[k].path)}))

\* _stage_specs
StageSheets(kind, files, merge) ==
  LET found == ReadablePaths(files) IN
  IF found = <<>> THEN <<>>
  ELSE IF merge THEN <<Sheet(<<kind>>, kind, [k \in DOMAIN found |-> found[k].path])>>
  ELSE [k \in DOMAIN found |-> Sheet(<<kind, "_">> \o Digits(found[k].index), kind, <<found[k].path>>)]

\* output_files of the aggregation row, by one of its two paths
Outputs(w, key) == [k \in DOMAIN w.outputs |-> [index |-> w.outputs[k].index, path |-> w.outputs[k][key]]]

SheetPlan(w) ==
  (IF w.rejected THEN <<Sheet(<<"application">>, "rejection", <<>>)>> ELSE <<>>)
  \o (IF w.source = "nat" /\ w.batch /\ Readable(w.application)
      THEN <<Sheet(<<"application">>, "application", <<w.application>>)>> ELSE <<>>)
  \o StageSheets("aggregation", Outputs(w, "aggregated"), w.merge)
  \o StageSheets("spin", Outputs(w, "spin"), w.merge)
  \o (IF w.assomi = "completed"
      THEN StageSheets("assomi", <<[index |-> 1, path |-> w.output]>>, w.merge) ELSE <<>>)

\* Mutant: every part keeps its header.
Merged_AllHeaders(paths) == FlattenSeq([k \in DOMAIN paths |-> Lines(paths[k])])
\* merge_csv_parts: the header of the first file that is not empty
Merged(paths) ==
  LET filled == At(paths, {k \in DOMAIN paths : paths[k][2] > 0})
  IN FlattenSeq([k \in DOMAIN filled |-> IF k = 1 THEN Lines(filled[k]) ELSE Tail(Lines(filled[k]))])

\* _resolve_sheet_rows
SheetRows(sheet) ==
  IF sheet.kind = "rejection" THEN <<<<"metadata", 0>>, <<"metadata", 1>>>>
  ELSE IF Len(sheet.paths) = 1 THEN Lines(sheet.paths[1])
  ELSE Merged(sheet.paths)

\* Mutant: a title that is too long is cut, whatever is in use.
Sanitized_CutOnly(title, used) == Truncated(title, TitleLimit)
\* sanitize_sheet_title
Sanitized(title, used) ==
  LET plain == Truncated(title, TitleLimit)
      suffix(n) == <<"_">> \o Digits(n)
      candidate(n) == Truncated(title, TitleLimit - Len(suffix(n))) \o suffix(n)
      n0 == CHOOSE n \in 2 .. Cardinality(used) + 2 :
              /\ candidate(n) \notin used
              /\ \A m \in 2 .. n - 1 : candidate(m) \in used
  IN IF plain \notin used THEN plain ELSE candidate(n0)

\* build_results_xlsx_file: the worksheets of a plan whose files can be loaded
WorkbookOf(w) ==
  LET plan == SheetPlan(w)
      titles[k \in 0 .. Len(plan)] ==
        IF k = 0 THEN <<>> ELSE Append(titles[k - 1], Sanitized(plan[k].title, ToSet(titles[k - 1])))
  IN [k \in DOMAIN plan |-> [title |-> titles[Len(plan)][k], kind |-> plan[k].kind,
                             rows  |-> SheetRows(plan[k])]]

\* the gather over the sheets raises what one of them raises
Loads(w) == \A sheet \in ToSet(SheetPlan(w)) : \A path \in ToSet(sheet.paths) : Decodes(path)

\* build_intake_results_xlsx_path: the workbook, IntakeResultsEmptyError
\* ("empty"), or a UnicodeDecodeError that nobody catches ("exception")
IntakeResults(w) ==
  IF SheetPlan(w) = <<>> THEN [status |-> "empty", sheets |-> <<>>]
  ELSE IF ~Loads(w) THEN [status |-> "exception", sheets |-> <<>>]
  ELSE [status |-> "ok", sheets |-> WorkbookOf(w)]

-----------------------------------------------------------------------------
(* The files of one stage on their own: a single file or an archive.       *)

Refused(status) == [status |-> status, files |-> <<>>]

\* Mutant: what cannot be read is left out.
Download_SkipsGone(w, key) ==
  LET files == ReadablePaths(Outputs(w, key))
  IN IF w.aggregation # "completed" THEN Refused("not_ready")
     ELSE IF files = <<>> THEN Refused("file_not_found")
     ELSE [status |-> "ok", files |-> files]
\* _resolve_output_file
Download(w, key) ==
  LET files == ByIndex(At(Outputs(w, key), {k \in DOMAIN w.outputs : w.outputs[k][key] # NoPath}))
  IN IF w.aggregation = "none" THEN Refused("not_found")
     ELSE IF w.aggregation # "completed" THEN Refused("not_ready")
     ELSE IF files = <<>> \/ \E k \in DOMAIN files : ~Readable(files[k].path)
          THEN Refused("file_not_found")
     ELSE [status |-> "ok", files |-> files]

\* resolve_file of AssomiQueryService, by the row of assomi_tasks
AssomiDownload(w) ==
  IF w.assomi = "none" THEN Refused("not_found")
  ELSE IF w.assomi # "completed" THEN Refused("not_ready")
  ELSE IF ~Readable(w.output) THEN Refused("file_not_found")
  ELSE [status |-> "ok", files |-> <<w.output>>]

\* resolve_source_file: the file as it was uploaded
SourceDownload(w) ==
  IF ~w.batch THEN Refused("batch_not_found")
  ELSE IF ~Readable(w.application) THEN Refused("file_not_found")
  ELSE [status |-> "ok", files |-> <<w.application>>]

-----------------------------------------------------------------------------
(* _prepare_email of a batch that has been classified.                     *)

NoAttachment == <<>>

Size(workbook) == Len(workbook) + Len(FlattenSeq([k \in DOMAIN workbook |-> workbook[k].rows]))

Prepared(kind, attachment) == [kind |-> kind, attachment |-> attachment]

\* Mutant: what is too large is sent as it is.
Fitting_Always(size, attachment) == Prepared("success", attachment)
Fitting(size, attachment) ==
  IF size > MaxBytes THEN Prepared("success_oversized", NoAttachment)
  ELSE Prepared("success", attachment)

\* INTAKE_RESULT_EMAIL_ATTACHMENT = assomi_csv: resolve_assomi_artifact
CsvMail(w) == IF ~Readable(w.output) THEN Prepared("failure", NoAttachment)
              ELSE Fitting(w.output[2], <<w.output>>)

\* .. = combined_xlsx; an exception ends the cycle of the worker, and no mail
\* is sent
XlsxMail(w) ==
  LET results == IntakeResults(w) IN
  CASE results.status = "empty"     -> Prepared("failure", NoAttachment)
    [] results.status = "exception" -> Prepared("exception", NoAttachment)
    [] results.status = "ok"        -> Fitting(Size(results.sheets), results.sheets)

\* nothing is attached unless the enrichment is completed
Mail(w) == IF w.assomi # "completed" THEN Prepared("failure", NoAttachment)
           ELSE IF w.attach = "assomi_csv" THEN CsvMail(w) ELSE XlsxMail(w)

\* build_result_email_body: what the text says
Says(mail) ==
  IF mail.kind = "exception" THEN {}
  ELSE IF mail.kind = "failure" THEN {"failure"}
  ELSE IF mail.kind = "success_oversized" THEN {"success", "not attached"}
  ELSE {"success"} \cup IF mail.attachment # NoAttachment THEN {"attached"} ELSE {}
=============================================================================
