----------------------------- MODULE StripSpec -----------------------------
(***************************************************************************)
(* What benchmarking one strip column with one format promises, with no    *)
(* windows, threads, queues or buffers: every row block is rasterised      *)
(* once, encoded `repeat` times, then decoded `repeat` times; the bytes    *)
(* are those of the blocks, and the verdict can only go from good to bad,  *)
(* at a decode pass that is verified.  Any group of rows may advance       *)
(* together, so the grouping and the order are not part of the promise.    *)
(***************************************************************************)
EXTENDS Blocks

VARIABLES
  opt, image,     \* the options and the true content of each row block
  rastered,       \* per row: times rasterised
  encoded,        \* per row: encode passes
  decoded,        \* per row: decode passes
  ss, cs,         \* source bytes; compressed bytes summed over the passes
  verdict,        \* no verified pass has failed
  status          \* "running", "done" or "aborted"

specVars == <<opt, image, rastered, encoded, decoded, ss, cs, verdict, status>>

EncodePasses == IF opt.encode THEN opt.repeat ELSE 0
DecodePasses == IF DoDecode(opt) THEN opt.repeat ELSE 0

Zero(o) == [r \in ImageRows(o) |-> 0]

Advance(f, S) == [r \in DOMAIN f |-> IF r \in S THEN f[r] + 1 ELSE f[r]]

Init ==
  /\ opt \in Options
  /\ image \in [ImageRows(opt) -> Kind]
  /\ rastered = Zero(opt) /\ encoded = Zero(opt) /\ decoded = Zero(opt)
  /\ ss = 0 /\ cs = 0
  /\ verdict = TRUE
  /\ status = "running"

RasterRows(S) ==
  /\ \A r \in S : rastered[r] = 0
  /\ rastered' = Advance(rastered, S)
  /\ ss' = ss + SumFunction([r \in S |-> RawBytes(image[r])])
  /\ UNCHANGED <<opt, image, encoded, decoded, cs, verdict, status>>

EncodeRows(S) ==
  /\ \A r \in S : rastered[r] = 1 /\ encoded[r] < EncodePasses
  /\ encoded' = Advance(encoded, S)
  /\ cs' = cs + SumFunction([r \in S |-> PackedBytes(image[r])])
  /\ UNCHANGED <<opt, image, rastered, decoded, ss, verdict, status>>

DecodeRows(S) ==
  /\ \A r \in S : encoded[r] = EncodePasses /\ decoded[r] < DecodePasses
  /\ decoded' = Advance(decoded, S)
  /\ \/ verdict' = verdict
     \/ /\ Verifies(opt)
        /\ \E r \in S : image[r] \in Content
        /\ verdict' = FALSE
  /\ UNCHANGED <<opt, image, rastered, encoded, ss, cs, status>>

Complete ==
  \A r \in ImageRows(opt) :
    rastered[r] = 1 /\ encoded[r] = EncodePasses /\ decoded[r] = DecodePasses

Finish ==
  /\ Complete
  /\ status' = "done"
  /\ UNCHANGED <<opt, image, rastered, encoded, decoded, ss, cs, verdict>>

\* A codec that rejects a block ends the program.
Abort ==
  /\ \E r \in ImageRows(opt) :
       rastered[r] = 1 /\ encoded[r] < EncodePasses /\ image[r] # "null"
  /\ status' = "aborted"
  /\ UNCHANGED <<opt, image, rastered, encoded, decoded, ss, cs, verdict>>

Next ==
  /\ status = "running"
  /\ \/ \E S \in SUBSET ImageRows(opt) :
          S # {} /\ (RasterRows(S) \/ EncodeRows(S) \/ DecodeRows(S))
     \/ Finish
     \/ Abort

Spec == Init /\ [][Next]_specVars

\* The reported sizes: the bytes of all blocks, and that many compressed
\* bytes per pass, so that cs / repeat is the size of one pass.
Totals ==
  status = "done" =>
    /\ ss = SumFunction([r \in ImageRows(opt) |-> RawBytes(image[r])])
    /\ cs = EncodePasses * SumFunction([r \in ImageRows(opt) |-> PackedBytes(image[r])])

=============================================================================
