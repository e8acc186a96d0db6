---------------------------- MODULE EncoderSpec ----------------------------
(***************************************************************************)
(* What format_encoder::process_pack promises its callers, with no target  *)
(* buffer, retry or work memory: a call for a block returns that block,    *)
(* whole, in the format asked for, or throws; it throws a bitmap error     *)
(* exactly for a bitmap that is none, and "too small" only for a block     *)
(* that would not fit twice its buffer.                                    *)
(***************************************************************************)
EXTENDS Integers

CONSTANTS
  Worker,        \* threads that call the encoder
  Block,         \* the blocks it is called with, by name
  Bitmap         \* block -> its bitmap_info

Format == {"RLE4K", "GZIP", "LZO2", "SNAPPY", "ZSTD", "BROTLI"}

\* The formats as redcli.json numbers them, from 0.
Names == <<"RLE4K", "GZIP", "LZO2", "SNAPPY", "ZSTD", "BROTLI">>

\* get_supported_format of the six classes
Code == [RLE4K |-> 4, GZIP |-> 7, ZSTD |-> 8, SNAPPY |-> 10, LZO2 |-> 11, BROTLI |-> 15]

\* A bitmap_info: its data_length, the size of a target made for it and of what
\* each codec makes of it.
BitmapRecord ==
  [data : BOOLEAN, side : {"fits", "zero", "over"}, length : Nat, capacity : Nat,
   packed : [Format -> Nat]]

NoBlock == "no block"

ASSUME BlockAssumption ==
  /\ Bitmap \in [Block -> BitmapRecord] /\ NoBlock \notin Block
  /\ \A b \in Block, f \in {"LZO2", "SNAPPY"} : Bitmap[b].packed[f] <= Bitmap[b].capacity

InvalidSource == -13
ZeroSize      == -8
OverSize      == -9
TooSmall      == -100     \* RLE4K_ERROR_TARGET_TOO_SMALL

\* validate_bitmap: 0, or what it throws.
BitmapError(b) ==
  CASE ~Bitmap[b].data -> InvalidSource
    [] Bitmap[b].data /\ Bitmap[b].side = "zero" -> ZeroSize
    [] Bitmap[b].data /\ Bitmap[b].side = "over" -> OverSize
    [] Bitmap[b].data /\ Bitmap[b].side = "fits" -> 0

\* What is thrown when a codec does not succeed for reasons of its own: out of
\* memory, an expired evaluation.  Snappy reports nothing.
CodecErrors(f) ==
  CASE f = "RLE4K" -> {-200} [] f = "GZIP" -> {-7004} [] f = "ZSTD" -> {-7936}
    [] f = "LZO2" -> {-11001} [] f = "BROTLI" -> {-15001} [] f = "SNAPPY" -> {}

\* A block that does not fit its buffer.
Overflow(f) == CASE f = "RLE4K" -> TooSmall [] f = "GZIP" -> -7005 [] f = "ZSTD" -> -7930
                 [] f = "BROTLI" -> -15001 [] f \in {"LZO2", "SNAPPY"} -> 0

Room(b, f) == IF f = "RLE4K" THEN 2 * Bitmap[b].capacity ELSE Bitmap[b].capacity

VARIABLES
  job,       \* worker -> the block of its call, or of its last one
  asked,     \* the number of the format all workers encode to, -1 before the first
  busy,      \* workers inside a call
  answer     \* worker -> what its last call came to

specVars == <<job, asked, busy, answer>>

NoAnswer == <<"none">>
Packed(b, f) == <<"packed", b, f, Bitmap[b].packed[f]>>
Thrown(code) == <<"thrown", code>>

Init ==
  /\ job = [w \in Worker |-> NoBlock]
  /\ asked = -1
  /\ busy = {}
  /\ answer = [w \in Worker |-> NoAnswer]

Select(id) ==
  /\ busy = {}
  /\ asked' = id
  /\ UNCHANGED <<job, busy, answer>>

Call(w, b) ==
  /\ w \notin busy /\ asked # -1
  /\ busy' = busy \cup {w}
  /\ job' = [job EXCEPT ![w] = b]
  /\ answer' = [answer EXCEPT ![w] = NoAnswer]
  /\ UNCHANGED asked

\* The answers a call may come to.
Answers(b, f) ==
  IF BitmapError(b) # 0 THEN {Thrown(BitmapError(b))}
  ELSE {Thrown(code) : code \in CodecErrors(f)}
         \cup {IF Bitmap[b].packed[f] <= Room(b, f) THEN Packed(b, f) ELSE Thrown(Overflow(f))}

Return(w) ==
  /\ w \in busy
  /\ \E a \in Answers(job[w], Names[asked + 1]) : answer' = [answer EXCEPT ![w] = a]
  /\ busy' = busy \ {w}
  /\ UNCHANGED <<job, asked>>

Next ==
  \/ \E id \in 0 .. 5 : Select(id)
  \/ \E w \in Worker : Return(w) \/ \E b \in Block : Call(w, b)

Spec == Init /\ [][Next]_specVars
=============================================================================
