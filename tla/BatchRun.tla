------------------------------ MODULE BatchRun ------------------------------
(***************************************************************************)
(* `redcli run` over a list of files: rle4k_cmd_run of src/redcli/main.cpp *)
(* from the collection of the files to the exit code.  The files are       *)
(* benchmarked one after the other, each with every format, each format    *)
(* over every strip column; a file that cannot be used does not stop the   *)
(* batch.                                                                  *)
(*                                                                         *)
(* A column is one step here.  What it yields is what StripSpec promises   *)
(* of it: the bytes of its blocks, the compressed bytes of one pass and a  *)
(* verdict, or the end of the program when a codec rejects a block.        *)
(***************************************************************************)
EXTENDS Integers, SequencesExt

CONSTANTS
  Inputs,       \* what --input and --mode may point at
  FormatIds,    \* lists of configured format ids
  Switches      \* encode_enabled, decode_enabled, check_enabled, csv path given

Column == [raw : Nat, packed : Nat]
File == [state : {"missing", "unreadable", "layerless", "good"}, cols : Seq(Column)]

ASSUME BatchAssumption ==
  /\ \A i \in Inputs : /\ i.kind \in {"none", "file", "folder", "nofolder"}
                       /\ i.files \in Seq(File)
                       /\ i.kind = "file" => Len(i.files) = 1
                       /\ i.kind \in {"none", "nofolder"} => i.files = <<>>
  /\ \A ids \in FormatIds : ids \in Seq(Int)
  /\ Switches \subseteq [encode : BOOLEAN, decode : BOOLEAN, check : BOOLEAN, csv : BOOLEAN]

VARIABLES
  input, fmts, sw,  \* the source of files, the format list, the switches
  files,            \* the collected list
  phase,            \* "collect", "file", "column", "csv", "exited" or "aborted"
  fi, fx, col,      \* loop indices: file, format, strip column
  facc,             \* per format: the accumulator of the current file
  failures,         \* load_failures
  records,          \* all_files; each is printed when it is complete
  csv,              \* state of the CSV file and the rows it holds
  exitCode,
  bad               \* history: <<file, format>> of columns that failed to verify

given     == <<input, fmts, sw>>
indices   == <<fi, fx, col>>
vars == <<given, files, phase, indices, facc, failures, records, csv, exitCode, bad>>

\* map_format_id: the position in the table is the configured id.
FormatTable == <<"RLE4K", "GZIP", "LZO2", "SNAPPY", "ZSTD", "BROTLI">>

\* The loop over cfg.formats: unknown ids are dropped.
KnownFormats(ids) ==
  LET known[n \in 0 .. Len(ids)] ==
        IF n = 0 THEN <<>>
        ELSE IF ids[n] \in 0 .. Len(FormatTable) - 1
             THEN Append(known[n - 1], FormatTable[ids[n] + 1]) ELSE known[n - 1]
  IN  known[Len(ids)]

\* An empty list means all formats.
FormatList(ids) == IF KnownFormats(ids) = <<>> THEN FormatTable ELSE KnownFormats(ids)

DoDecode == sw.encode /\ sw.decode

NoBytes == [ss |-> 0, cs |-> 0, ok |-> TRUE]

-----------------------------------------------------------------------------
Init ==
  /\ input \in Inputs
  /\ \E ids \in FormatIds : fmts = FormatList(ids)
  /\ sw \in Switches
  /\ files = <<>>
  /\ phase = "collect"
  /\ fi = 1 /\ fx = 1 /\ col = 1
  /\ facc = [i \in 1 .. Len(fmts) |-> NoBytes]
  /\ failures = 0
  /\ records = <<>>
  /\ csv = [state |-> "absent", rows |-> <<>>]
  /\ exitCode = 0
  /\ bad = {}

\* The program returns this exit code.
Return(code) == phase' = "exited" /\ exitCode' = code

\* No input and an empty list are errors; iterating a directory that is not
\* there throws, and nothing catches it.
CollectFiles ==
  /\ phase = "collect"
  /\ files' = input.files
  /\ CASE input.kind = "nofolder" -> phase' = "aborted" /\ exitCode' = exitCode
       [] input.kind = "none" \/ input.files = <<>> -> Return(1)
       [] OTHER -> phase' = "file" /\ exitCode' = exitCode
  /\ UNCHANGED <<given, indices, facc, failures, records, csv, bad>>

\* Faulty: only the exception counts.
LoadFailure_ExceptionOnly(state) == state = "unreadable"

LoadFailure(state) == state \in {"missing", "unreadable"}

\* Faulty: break in place of continue.
PassOver_Break == Len(files) + 1

\* Faulty: the index is advanced twice.
PassOver_Twice == fi + 2

\* The next file, after one that cannot be used.
PassOver == fi + 1

\* Faulty: the accumulators live as long as the batch.
FreshAcc_PerBatch == IF records = <<>> THEN [i \in 1 .. Len(fmts) |-> NoBytes] ELSE facc

\* A good file starts from accumulators of its own.
FreshAcc == [i \in 1 .. Len(fmts) |-> NoBytes]

\* A file that is missing or does not load counts as a failure, one without
\* layers does not; both are passed over.
OpenFile ==
  /\ phase = "file" /\ fi <= Len(files)
  /\ IF files[fi].state = "good"
     THEN /\ phase' = "column" /\ fx' = 1 /\ col' = 1 /\ facc' = FreshAcc
          /\ UNCHANGED <<fi, failures>>
     ELSE /\ fi' = PassOver
          /\ failures' = IF LoadFailure(files[fi].state) THEN failures + 1 ELSE failures
          /\ UNCHANGED <<phase, fx, col, facc>>
  /\ UNCHANGED <<given, files, records, csv, exitCode, bad>>

\* What a column may report: Brotli and unverified columns are always good.
Verdicts(format) ==
  IF DoDecode /\ sw.check /\ format # "BROTLI" THEN BOOLEAN ELSE {TRUE}

\* facc[fi] += ...; the verdict can only turn bad.
AddColumn(acc, c, allOk) ==
  [ss |-> acc.ss + c.raw,
   cs |-> acc.cs + (IF sw.encode THEN c.packed ELSE 0),
   ok |-> acc.ok /\ (DoDecode /\ sw.check => allOk)]

\* One strip column with one format, folded into the format's accumulator.
RunColumn ==
  /\ phase = "column" /\ fx <= Len(fmts) /\ col <= Len(files[fi].cols)
  /\ \E allOk \in Verdicts(fmts[fx]) :
       /\ facc' = [facc EXCEPT ![fx] = AddColumn(@, files[fi].cols[col], allOk)]
       /\ bad' = IF allOk THEN bad ELSE bad \cup {<<fi, fx>>}
  /\ col' = col + 1
  /\ UNCHANGED <<given, files, phase, fi, fx, failures, records, csv, exitCode>>

\* A codec threw on a worker: the records of the files already benchmarked
\* have been printed, and are lost for the CSV file.
ColumnAborts ==
  /\ phase = "column" /\ fx <= Len(fmts) /\ col <= Len(files[fi].cols)
  /\ sw.encode
  /\ phase' = "aborted"
  /\ UNCHANGED <<given, files, indices, facc, failures, records, csv, exitCode, bad>>

\* Faulty: the column index runs on into the next format.
NextFormat_KeepsCol ==
  /\ phase = "column" /\ fx <= Len(fmts) /\ col > Len(files[fi].cols)
  /\ fx' = fx + 1
  /\ UNCHANGED <<given, files, phase, fi, col, facc, failures, records, csv, exitCode, bad>>

NextFormat ==
  /\ phase = "column" /\ fx <= Len(fmts) /\ col > Len(files[fi].cols)
  /\ fx' = fx + 1 /\ col' = 1
  /\ UNCHANGED <<given, files, phase, fi, facc, failures, records, csv, exitCode, bad>>

\* rle4k_print_file_report: the check cell is left out unless check is on.
ConsoleCheck(ok) == IF ~sw.check THEN "" ELSE IF ok THEN "OK" ELSE "FAIL"

\* rle4k_write_csv: the check cell is always there.
CsvCheck(ok) == IF ~sw.check THEN "SKIP" ELSE IF ok THEN "OK" ELSE "FAIL"

\* The file's record is complete: printed and kept.  Its source size is that
\* of the first format.
CloseFile ==
  /\ phase = "column" /\ fx > Len(fmts)
  /\ records' = Append(records,
       [file |-> fi, ss |-> facc[1].ss,
        fmts |-> [i \in 1 .. Len(fmts) |->
                   [name |-> fmts[i], ss |-> facc[i].ss, cs |-> facc[i].cs,
                    ok |-> facc[i].ok, console |-> ConsoleCheck(facc[i].ok)]]])
  /\ fi' = fi + 1
  /\ phase' = "file"
  /\ UNCHANGED <<given, files, fx, col, facc, failures, csv, exitCode, bad>>

CsvRow(rec) ==
  [file |-> rec.file, ss |-> rec.ss,
   cells |-> [i \in 1 .. Len(rec.fmts) |->
                [cs |-> rec.fmts[i].cs, chk |-> CsvCheck(rec.fmts[i].ok)]]]

\* Faulty: a file with a format that failed to verify gets no row.
CsvRows_SkipFailed ==
  SelectSeq([k \in 1 .. Len(records) |-> CsvRow(records[k])],
            LAMBDA row : \A i \in 1 .. Len(row.cells) : row.cells[i].chk # "FAIL")

CsvRows == [k \in 1 .. Len(records) |-> CsvRow(records[k])]

\* Faulty: the write is tried again until it succeeds.
WriteFailed_Retry == phase' = phase

\* An error message, and on to the end.
WriteFailed == phase' = "csv"

\* All records go to the CSV file at the end, if a path was given.  It may not
\* open, or the disk may fill while the rows are written.
WriteCsv ==
  /\ phase = "file" /\ fi > Len(files)
  /\ \/ ~sw.csv /\ csv' = csv /\ phase' = "csv"
     \/ sw.csv /\ csv' = [state |-> "written", rows |-> CsvRows] /\ phase' = "csv"
     \/ /\ sw.csv /\ WriteFailed
        /\ \E n \in 0 .. Len(CsvRows) :
             csv' = [state |-> "failed", rows |-> SubSeq(CsvRows, 1, n)]
  /\ UNCHANGED <<given, files, indices, facc, failures, records, exitCode, bad>>

\* Neither the CSV file nor a failed verification counts for the exit code.
Finish ==
  /\ phase = "csv"
  /\ Return(IF failures > 0 \/ records = <<>> THEN 1 ELSE 0)
  /\ UNCHANGED <<given, files, indices, facc, failures, records, csv, bad>>

Ended == phase \in {"exited", "aborted"} /\ UNCHANGED vars

Step == \/ CollectFiles \/ OpenFile \/ RunColumn \/ ColumnAborts \/ NextFormat
        \/ CloseFile \/ WriteCsv \/ Finish

Next == Step \/ Ended

Spec == Init /\ [][Next]_vars
FairSpec == Spec /\ WF_vars(Step)

-----------------------------------------------------------------------------
\* The sums of the first 0, 1, 2, ... numbers of a sequence.
SumsUpTo(numbers) ==
  LET upTo[n \in 0 .. Len(numbers)] == IF n = 0 THEN 0 ELSE upTo[n - 1] + numbers[n]
  IN  upTo

Total(numbers) == SumsUpTo(numbers)[Len(numbers)]

RawSizes(cols)    == [c \in 1 .. Len(cols) |-> cols[c].raw]
PackedSizes(cols) == [c \in 1 .. Len(cols) |-> cols[c].packed]

\* Every variable has its type.
BatchTypeOK ==
  /\ phase \in {"collect", "file", "column", "csv", "exited", "aborted"}
  /\ fi \in 1 .. Len(input.files) + 1
  /\ fx \in 1 .. Len(fmts) + 1
  /\ col \in Nat
  /\ facc \in [1 .. Len(fmts) -> [ss : Nat, cs : Nat, ok : BOOLEAN]]
  /\ failures \in 0 .. Len(input.files)
  /\ csv.state \in {"absent", "written", "failed"}
  /\ exitCode \in {0, 1}
  /\ bad \subseteq (1 .. Len(input.files)) \X (1 .. Len(fmts))

\* A record tells of its own file only, whatever the files and formats before
\* it: per format the bytes of all the file's columns, and OK unless one of
\* these columns failed to verify.
RecordsTellTheirFile ==
  \A r \in ToSet(records) : \A i \in 1 .. Len(fmts) :
    LET cols == files[r.file].cols
    IN  /\ r.fmts[i].ss = Total(RawSizes(cols))
        /\ r.fmts[i].cs = IF sw.encode THEN Total(PackedSizes(cols)) ELSE 0
        /\ r.fmts[i].ok <=> <<r.file, i>> \notin bad

\* The source size of the file is that of each of its formats, although every
\* format rasterises the columns again.
OneSourceSize ==
  \A r \in ToSet(records) : \A i \in 1 .. Len(fmts) : r.fmts[i].ss = r.ss

\* A batch that reaches its end has a record of every good file, in the order
\* of the list: a bad file costs no other file its record.
EveryGoodFileReported ==
  phase \in {"csv", "exited"} =>
    /\ \A j, k \in 1 .. Len(records) : j < k => records[j].file < records[k].file
    /\ {records[k].file : k \in 1 .. Len(records)}
         = {n \in 1 .. Len(files) : files[n].state = "good"}

\* The exit code is 0 exactly when some file was benchmarked and none was
\* missing or unreadable.
ExitCodeTellsLoading ==
  phase = "exited" =>
    (exitCode = 0 <=> /\ \E f \in ToSet(files) : f.state = "good"
                      /\ \A f \in ToSet(files) : f.state \in {"good", "layerless"})

\* A CSV file that was written has one row per benchmarked file, its cells
\* agree with the report on the console, and every row fits the header, which
\* is made from the first record.
CsvAgreesWithConsole ==
  csv.state = "written" =>
    /\ Len(csv.rows) = Len(records)
    /\ \A k \in 1 .. Len(records) :
         /\ csv.rows[k].file = records[k].file
         /\ Len(csv.rows[k].cells) = Len(records[1].fmts)
         /\ \A i \in 1 .. Len(fmts) :
              /\ csv.rows[k].cells[i].cs = records[k].fmts[i].cs
              /\ sw.check => csv.rows[k].cells[i].chk = records[k].fmts[i].console

\* The batch ends.
BatchEnds == <>(phase \in {"exited", "aborted"})

=============================================================================
