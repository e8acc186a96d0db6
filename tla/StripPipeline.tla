--------------------------- MODULE StripPipeline ---------------------------
(***************************************************************************)
(* One strip column benchmarked with one format: the loop over row windows *)
(* of rle4k_cmd_run (src/redcli/main.cpp) and the three phase functions it *)
(* calls.  For each window the main thread rasterises the row blocks,      *)
(* encodes them `repeat` times, drops the bitmaps, decodes `repeat` times  *)
(* and verifies after each decode pass.  Each phase runs on its own queue  *)
(* and pool: RowBlockQueue, whose Pop and Finish bracket the loop bodies   *)
(* given here.                                                             *)
(*                                                                         *)
(* A codec is external: its encoder may throw for any block, and its       *)
(* decoder may restore the block, write something else, report success     *)
(* without writing, or report an error.  A hash stands for the content it  *)
(* is computed from.                                                       *)
(***************************************************************************)
EXTENDS RowBlockQueue, Blocks

ASSUME OptionsFit ==
  \A o \in Options : /\ o.cache <= MaxRows
                     /\ o.rt <= MaxThreads /\ o.et <= MaxThreads /\ o.dt <= MaxThreads

VARIABLES
  opt,          \* the options of this run
  image,        \* the column's row blocks, as the rasteriser yields them
  phase,        \* where the main thread is
  row0,         \* first row of the window
  rep,          \* passes of the current encode or decode loop
  raw,          \* raw[local]: the rasterised bitmap ("null": no bitmap)
  digests,      \* digests[local]: "invalid", "unhashed" or the hashed content
  enc,          \* enc_cache[local]: the encoded block, by its content
  bufs,         \* check_bufs[local]: "none" or the bytes it holds
  decodedOk,    \* decoded_ok[local]
  ok,           \* the atomic of the decode phase
  ss, cs,       \* ss_bytes, cs_bytes_sum
  allOk,        \* all_ok of the column
  restored      \* history: per image row, decode passes that restored it

dataVars  == <<raw, digests, enc, bufs, decodedOk, ok>>
columnVars == <<row0, rep, ss, cs, allOk, restored>>
vars == <<queueVars, opt, image, phase, dataVars, columnVars>>

Window    == 0 .. total - 1
Slots(v)  == [r \in Row |-> v]
ImageRow(local) == row0 + local

\* nwin = min(cache_blocks, nrows - row0)
NWin == Smaller(opt.cache, opt.nrows - row0)

\* rle4k_make_digest: valid only for a bitmap with data; hashed only if asked.
Digest(block) ==
  IF block \notin Content THEN "invalid"
  ELSE IF opt.check THEN block ELSE "unhashed"

-----------------------------------------------------------------------------
StripInit ==
  /\ opt \in Options
  /\ image \in [ImageRows(opt) -> Kind]
  /\ total = 1 /\ nthreads = 1 /\ next = 1 /\ mpc = "joined"
  /\ spawned = 1 /\ joined = 1 /\ finished = {0}
  /\ wpc = [t \in Thread |-> IF t = 1 THEN "exited" ELSE "unborn"]
  /\ wrow = [t \in Thread |-> NoRow]
  /\ phase = "head"
  /\ row0 = 0 /\ rep = 0 /\ ss = 0 /\ cs = 0
  /\ allOk = TRUE
  /\ raw = Slots("null") /\ digests = Slots("invalid") /\ enc = Slots("null")
  /\ bufs = Slots("none") /\ decodedOk = Slots(FALSE) /\ ok = TRUE
  /\ restored = [r \in ImageRows(opt) |-> 0]

\* for (row0 = 0; row0 < nrows; ...): fresh raw and digests, raster phase.
OpenWindow ==
  /\ phase = "head" /\ row0 < opt.nrows
  /\ StartQueue(NWin, opt.rt)
  /\ raw' = Slots("null")
  /\ digests' = Slots("invalid")
  /\ phase' = "raster"
  /\ UNCHANGED <<opt, image, enc, bufs, decodedOk, ok, columnVars>>

CloseColumn ==
  /\ phase = "head" /\ row0 >= opt.nrows
  /\ phase' = "done"
  /\ UNCHANGED <<queueVars, opt, image, dataVars, columnVars>>

-----------------------------------------------------------------------------
\* The scheduling steps of whichever phase is running.
InPhase == phase \in {"raster", "encode", "decode"}

PhaseSpawn  == InPhase /\ Spawn  /\ UNCHANGED <<opt, image, phase, dataVars, columnVars>>
PhaseJoin   == InPhase /\ Join   /\ UNCHANGED <<opt, image, phase, dataVars, columnVars>>
PhasePop(t) == InPhase /\ Pop(t) /\ UNCHANGED <<opt, image, phase, dataVars, columnVars>>

\* Faulty: the window's first row is not added to the local index.
Rasterized_LocalRow(local) == image[local]

\* rle4k_rasterize_block(doc, col, row0 + local, ...)
Rasterized(local) == image[ImageRow(local)]

\* The raster worker's body: digest first, then move the block into its slot.
RasterBlock(t) ==
  /\ phase = "raster" /\ Finish(t)
  /\ LET block == Rasterized(wrow[t])
     IN  /\ digests' = [digests EXCEPT ![wrow[t]] = Digest(block)]
         /\ raw'     = [raw EXCEPT ![wrow[t]] = block]
  /\ UNCHANGED <<opt, image, phase, enc, bufs, decodedOk, ok, columnVars>>

\* An encode pass has a queue and a pool of its own.
StartEncode == phase' = "encode" /\ StartQueue(total, opt.et)

\* ss_bytes sums the window's bitmaps; then a fresh enc_cache, and the encode
\* loop unless encoding is switched off.
RasterJoined ==
  /\ phase = "raster" /\ mpc = "joined"
  /\ ss' = ss + SumFunction([r \in Window |-> RawBytes(raw[r])])
  /\ enc' = Slots("null")
  /\ rep' = 0
  /\ IF opt.encode
     THEN StartEncode
     ELSE phase' = "drop" /\ UNCHANGED queueVars
  /\ UNCHANGED <<opt, image, raw, digests, bufs, decodedOk, ok,
                 row0, cs, allOk, restored>>

\* The encode worker's body: a slot without bitmap is skipped, the others
\* replace what an earlier pass left in enc_cache.
EncodeBlock(t) ==
  /\ phase = "encode" /\ Finish(t)
  /\ raw[wrow[t]] \in {"null"} \cup Content
  /\ enc' = IF raw[wrow[t]] = "null" THEN enc
            ELSE [enc EXCEPT ![wrow[t]] = raw[wrow[t]]]
  /\ UNCHANGED <<opt, image, phase, raw, digests, bufs, decodedOk, ok, columnVars>>

\* process_pack throws: always for a bitmap without data (validate_bitmap),
\* and whenever the codec reports an error.  Nothing catches it in the
\* worker's lambda, so std::terminate ends the whole program.
EncodeThrows(t) ==
  /\ phase = "encode" /\ Working(t) /\ raw[wrow[t]] # "null"
  /\ phase' = "aborted"
  /\ UNCHANGED <<queueVars, opt, image, dataVars, columnVars>>

\* Faulty: the loop of passes runs once too often.
AnotherPass_OffByOne == rep < opt.repeat

\* ++rep; rep < repeat
AnotherPass == rep + 1 < opt.repeat

\* Faulty: cs_bytes_sum holds the last pass instead of the sum.
CompressedSum_LastPass == SumFunction([r \in Window |-> PackedBytes(enc[r])])

CompressedSum == cs + SumFunction([r \in Window |-> PackedBytes(enc[r])])

\* The bytes in enc_cache are added up after each pass.
EncodeJoined ==
  /\ phase = "encode" /\ mpc = "joined"
  /\ cs' = CompressedSum
  /\ rep' = rep + 1
  /\ IF AnotherPass
     THEN StartEncode
     ELSE phase' = "drop" /\ UNCHANGED queueVars
  /\ UNCHANGED <<opt, image, dataVars, row0, ss, allOk, restored>>

\* A decode pass starts with fresh check buffers and flags.
StartDecode ==
  /\ StartQueue(total, opt.dt)
  /\ bufs' = Slots("none") /\ decodedOk' = Slots(FALSE) /\ ok' = TRUE
  /\ phase' = "decode"

\* Faulty: the bitmaps stay alive through the decode passes.
Released_Not == raw

\* for (auto& b : raw) b.reset();
Released == Slots("null")

\* The bitmaps are released; with decoding off the window is finished.
DropRaw ==
  /\ phase = "drop"
  /\ raw' = Released
  /\ rep' = 0
  /\ IF DoDecode(opt)
     THEN StartDecode
     ELSE phase' = "close" /\ UNCHANGED <<queueVars, bufs, decodedOk, ok>>
  /\ UNCHANGED <<opt, image, digests, enc, row0, ss, cs, allOk, restored>>

\* What the codec's decoder did with the buffer it was given.
Outcome == {"exact", "garbage", "silent", "error"}

\* The bytes of the buffer afterwards: `silent` leaves what was there.
Written(outcome, packed, before) ==
  IF outcome = "exact" THEN packed ELSE IF outcome = "silent" THEN before ELSE "garbage"

\* The decoder has given back a block of this content: it wrote the block, or
\* wrote nothing where a buffer of zeros is the block.
Restores(outcome, content) ==
  outcome = "exact" \/ (outcome = "silent" /\ content = "blank")

\* The decode worker's body.  With check the slot's buffer is assigned zeros
\* and decoded into; without it the worker's own buffer is, nobody reads it and
\* the result is ignored.  Brotli has no decoder: rle4k_decode_payload returns true at once.
DecodeBlock(t) ==
  LET r       == wrow[t]
      decodes == digests[r] # "invalid" /\ enc[r] # "null"
  IN  /\ phase = "decode" /\ Finish(t)
      /\ IF ~decodes \/ ~opt.check THEN UNCHANGED <<bufs, decodedOk, ok, restored>>
         ELSE \E o \in IF opt.brotli THEN {"silent"} ELSE Outcome :
           /\ bufs' = [bufs EXCEPT ![r] = Written(o, enc[r], "blank")]
           /\ decodedOk' = [decodedOk EXCEPT ![r] = o # "error"]
           /\ ok' = (ok /\ o # "error")
           /\ restored' = IF Restores(o, image[ImageRow(r)])
                          THEN [restored EXCEPT ![ImageRow(r)] = @ + 1] ELSE restored
      /\ UNCHANGED <<opt, image, phase, raw, digests, enc, row0, rep, ss, cs, allOk>>

\* The verify loop, on the main thread after the join: true if a slot fails.
Fails(r) ==
  /\ digests[r] # "invalid"
  /\ ~opt.brotli
  /\ ~decodedOk[r] \/ bufs[r] # digests[r]

PassOk == ok /\ (opt.check => \A r \in Window : ~Fails(r))

\* Faulty: all_ok keeps the last pass only.
Judgement_LastPass == PassOk

\* if (!w_ok) all_ok = false;
Judgement == allOk /\ PassOk

\* After the join: verify, fold the pass into all_ok, next pass or the end
\* of the window.
DecodeJoined ==
  /\ phase = "decode" /\ mpc = "joined"
  /\ allOk' = Judgement
  /\ rep' = rep + 1
  /\ IF AnotherPass
     THEN StartDecode
     ELSE phase' = "close" /\ UNCHANGED <<queueVars, bufs, decodedOk, ok>>
  /\ UNCHANGED <<opt, image, raw, digests, enc, row0, ss, cs, restored>>

\* Faulty: the next window starts one row late.
NextRow0_Skips == row0 + opt.cache + 1

\* row0 += cache_blocks
NextRow0 == row0 + opt.cache

\* enc_cache.clear(), and on to the next window.
CloseWindow ==
  /\ phase = "close"
  /\ enc' = Slots("null")
  /\ row0' = NextRow0
  /\ phase' = "head"
  /\ UNCHANGED <<queueVars, opt, image, raw, digests, bufs, decodedOk, ok,
                 rep, ss, cs, allOk, restored>>

\* The column is reported, or the program is gone.
Ended == phase \in {"done", "aborted"} /\ UNCHANGED vars
-----------------------------------------------------------------------------
MainStep ==
  \/ OpenWindow \/ CloseColumn
  \/ PhaseSpawn \/ PhaseJoin
  \/ RasterJoined \/ EncodeJoined \/ DropRaw \/ DecodeJoined \/ CloseWindow

WorkerStep(t) ==
  \/ PhasePop(t)
  \/ RasterBlock(t) \/ EncodeBlock(t) \/ EncodeThrows(t) \/ DecodeBlock(t)

StripNext == MainStep \/ (\E t \in Thread : WorkerStep(t)) \/ Ended

\* The operating system runs the main thread and every worker that can run.
StripFairness == WF_vars(MainStep) /\ \A t \in Thread : WF_vars(WorkerStep(t))

StripSafety == StripInit /\ [][StripNext]_vars
StripFair   == StripSafety /\ StripFairness

-----------------------------------------------------------------------------
Phases == {"head", "raster", "encode", "drop", "decode", "close", "done", "aborted"}

\* Every variable has its type.
StripTypeOK ==
  /\ TypeOK
  /\ opt \in Options
  /\ image \in [ImageRows(opt) -> Kind]
  /\ phase \in Phases
  /\ row0 \in Nat
  /\ rep \in 0 .. opt.repeat
  /\ raw \in [Row -> Kind]
  /\ digests \in [Row -> {"invalid", "unhashed"} \cup Content]
  /\ enc \in [Row -> {"null"} \cup Content]
  /\ bufs \in [Row -> {"none", "garbage"} \cup Content]
  /\ decodedOk \in [Row -> BOOLEAN]
  /\ ok \in BOOLEAN /\ allOk \in BOOLEAN
  /\ ss \in Nat /\ cs \in Nat
  /\ restored \in [ImageRows(opt) -> 0 .. opt.repeat]

\* Slots are reused by every window and written by whichever worker popped the
\* row: bitmap, digest and encoded block of a slot are always those of one
\* image row, the one the slot stands for in this window.
SlotsHoldWindowRows ==
  phase \in {"raster", "encode", "drop", "decode", "close"} =>
    \A r \in Window :
      /\ raw[r] \in {"null", image[ImageRow(r)]}
      /\ digests[r] \in {"invalid", Digest(image[ImageRow(r)])}
      /\ phase # "raster" => enc[r] \in {"null", image[ImageRow(r)]}

\* The bitmaps are gone before the decode passes, and by then every block
\* there was has its encoded form: dropping loses nothing and the two
\* representations of a window are not alive together during decode.
DropLosesNothing ==
  phase \in {"decode", "close"} =>
    /\ \A r \in Row : raw[r] = "null"
    /\ opt.encode =>
         \A r \in Window : image[ImageRow(r)] # "null" => enc[r] = image[ImageRow(r)]

\* With --check, a decoding format is reported OK exactly when every block
\* that has pixels was given back by every one of the decode passes, in
\* whatever window, slot and worker it was.
VerdictIsRoundTrip ==
  phase = "done" /\ Verifies(opt) =>
    (allOk <=> \A i \in ImageRows(opt) :
                 image[i] \in Content => restored[i] = opt.repeat)

\* docs/redcli.help.md:109: check_enabled = 1 recomputes the FNV after decode
\* and compares.  So a column reported OK with --check had all its blocks
\* given back.
CheckedOkMeansRestored ==
  phase = "done" /\ opt.check /\ allOk =>
    \A i \in ImageRows(opt) : image[i] \in Content => restored[i] = opt.repeat

\* The column ends, with a report or with the program.
ColumnEnds == <>(phase \in {"done", "aborted"})

-----------------------------------------------------------------------------
\* The inductive invariant behind SlotsHoldWindowRows, DropLosesNothing and
\* VerdictIsRoundTrip.

WindowPhases == {"raster", "encode", "drop", "decode", "close"}

\* StripTypeOK without the byte sums and the pass counts.
StripTypes ==
  /\ opt \in Options
  /\ image \in [ImageRows(opt) -> Kind]
  /\ phase \in Phases
  /\ row0 \in Nat /\ rep \in Nat
  /\ raw \in [Row -> Kind]
  /\ digests \in [Row -> {"invalid", "unhashed"} \cup Content]
  /\ enc \in [Row -> {"null"} \cup Content]
  /\ bufs \in [Row -> {"none", "garbage"} \cup Content]
  /\ decodedOk \in [Row -> BOOLEAN]
  /\ ok \in BOOLEAN /\ allOk \in BOOLEAN
  /\ restored \in [ImageRows(opt) -> Nat]

\* What the main thread's place says of its loops.
PhaseInv ==
  /\ phase \in {"head", "drop", "close", "done"} => mpc = "joined"
  /\ phase \in WindowPhases => row0 < opt.nrows /\ total = NWin
  /\ phase = "encode" => opt.encode
  /\ phase = "decode" => DoDecode(opt)
  /\ phase \in {"encode", "decode"} => rep < opt.repeat
  /\ phase = "done" => row0 >= opt.nrows

\* What each slot holds, by phase and by whether its row is finished.
SlotsInv ==
  /\ phase \in {"decode", "close"} => \A r \in Row : raw[r] = "null"
  /\ phase \in WindowPhases =>
       \A r \in Window :
         LET content == image[ImageRow(r)]
         IN  /\ phase = "raster" =>
                  IF r \in finished THEN raw[r] = content /\ digests[r] = Digest(content)
                                    ELSE raw[r] = "null" /\ digests[r] = "invalid"
             /\ phase # "raster" =>
                  digests[r] = Digest(content) /\ enc[r] \in {"null", content}
             /\ phase \in {"encode", "drop"} => raw[r] = content
             /\ phase = "encode" /\ (r \in finished \/ rep > 0) /\ content # "null" => enc[r] = content
             /\ phase \in {"drop", "decode", "close"} /\ opt.encode /\ content # "null" =>
                  enc[r] = content

\* The decode passes of an image row that have been judged, and whether the
\* pass under way is through with it.
Judged(i) ==
  IF i < row0 THEN opt.repeat
  ELSE IF phase = "decode" /\ i < row0 + total THEN rep
  ELSE IF phase = "close" /\ i < row0 + total /\ DoDecode(opt) THEN opt.repeat
  ELSE 0

Decoded(i) == phase = "decode" /\ i - row0 \in finished

GoodSlot(r) == decodedOk[r] /\ bufs[r] = digests[r]

\* all_ok is the round trip so far: while it is good every block was restored
\* in every judged pass, and once it is bad some block has missed one.
VerdictInv ==
  Verifies(opt) =>
    /\ phase = "decode" =>
         (ok <=> \A r \in finished : digests[r] # "invalid" => decodedOk[r])
    /\ allOk => \A i \in ImageRows(opt) : image[i] \in Content =>
         restored[i] = Judged(i) + (IF Decoded(i) /\ GoodSlot(i - row0) THEN 1 ELSE 0)
    /\ ~allOk => \E i \in ImageRows(opt) :
         image[i] \in Content /\ restored[i] < Judged(i) + (IF Decoded(i) THEN 1 ELSE 0)

StripInv == QueueInv /\ StripTypes /\ PhaseInv /\ SlotsInv /\ VerdictInv

-----------------------------------------------------------------------------
\* The pipeline implements StripSpec.  How far a row has come follows from the
\* control state of the main thread: rows before the window are complete,
\* those of the window have the passes whose join is over.
InWindow(i) == phase \notin {"head", "done"} /\ i \in row0 .. row0 + total - 1

PhaseReached == IF phase = "aborted" THEN "encode" ELSE phase

Progress(before, inside) ==
  [i \in ImageRows(opt) |-> IF InWindow(i) THEN inside ELSE IF i < row0 THEN before ELSE 0]

EncodesDone  == IF opt.encode THEN opt.repeat ELSE 0
DecodesDone  == IF DoDecode(opt) THEN opt.repeat ELSE 0

Strip == INSTANCE StripSpec WITH
  rastered <- Progress(1, IF PhaseReached = "raster" THEN 0 ELSE 1),
  encoded  <- Progress(EncodesDone,
                       CASE PhaseReached = "raster" -> 0
                         [] PhaseReached = "encode" -> rep
                         [] OTHER -> EncodesDone),
  decoded  <- Progress(DecodesDone,
                       CASE PhaseReached = "decode" -> rep
                         [] PhaseReached = "close" -> DecodesDone
                         [] OTHER -> 0),
  verdict  <- allOk,
  status   <- IF phase \in {"done", "aborted"} THEN phase ELSE "running"

\* Windows, threads and buffers change nothing of what a column promises.
ImplementsStripSpec == Strip!Spec

\* Source and compressed bytes of the report are those of all blocks, counted
\* once for the source and once per pass for the compressed ones.
ReportedTotals == Strip!Totals

=============================================================================
