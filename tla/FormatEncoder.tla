--------------------------- MODULE FormatEncoder ---------------------------
(***************************************************************************)
(* The format encoders and their factory                                   *)
(* (src/redcli/rle4k_format_encoder.cpp and .h): six encoders registered   *)
(* at start, one of them looked up for each format of the run, and its     *)
(* process_pack called by all encode workers at once.  The codec libraries *)
(* are external: how long a block becomes is a field of the block, and any *)
(* codec may report an error.                                              *)
(*                                                                         *)
(* LZO compresses through a work memory: what it writes there for one      *)
(* block it reads back before it is done, so the call takes two steps.     *)
(***************************************************************************)
EXTENDS EncoderSpec, Sequences

CONSTANTS
  Levels,        \* compression levels redcli.json may ask for
  MaxCalls       \* bound on the calls of a run

ASSUME EncoderAssumption == Levels \subseteq Int /\ MaxCalls \in Nat

VARIABLES
  processors,    \* the factory's map: format code -> the encoder stored there, or "none"
  registered,    \* how many encoders have been registered
  format,        \* the encoder of the run, by its format
  level,         \* the level of encode_format_args
  pc,            \* worker -> its place in process_pack
  target,        \* worker -> [capacity, length] of the target bitmap
  tries,         \* worker -> calls of rle4k_encode_block
  workmem,       \* work memory -> the block LZO keeps there
  packed,        \* worker -> the block its target holds
  calls          \* calls so far

vars == <<specVars, processors, registered, format, level, pc, target, tries, workmem, packed,
          calls>>

\* initialize_default_processors
Defaults == <<"RLE4K", "GZIP", "LZO2", "SNAPPY", "ZSTD", "BROTLI">>
Codes    == {4, 7, 8, 10, 11, 15}

\* Faulty: LZO2 and SNAPPY swapped.
MapFormatId_Swapped(id) == <<4, 7, 10, 11, 8, 15>>[id + 1]

\* map_format_id: position in redcli.json's "formats" -> raster_output_format
MapFormatId(id) == <<4, 7, 11, 10, 8, 15>>[id + 1]

NoTarget == [capacity |-> 0, length |-> 0]

EncoderInit ==
  /\ Init
  /\ processors = [c \in Codes |-> "none"]
  /\ registered = 0
  /\ format = "none"
  /\ level \in Levels
  /\ pc = [w \in Worker |-> "idle"]
  /\ target = [w \in Worker |-> NoTarget]
  /\ tries = [w \in Worker |-> 0]
  /\ workmem = [w \in Worker |-> NoBlock]
  /\ packed = [w \in Worker |-> NoBlock]
  /\ calls = 0

\* register_processor: a clone, under the format the encoder supports.
Register ==
  /\ registered < Len(Defaults)
  /\ LET proc == Defaults[registered + 1]
     IN  processors' = [processors EXCEPT ![Code[proc]] = proc]
  /\ registered' = registered + 1
  /\ UNCHANGED <<specVars, format, level, pc, target, tries, workmem, packed, calls>>

\* The next format of the run, as redcli.json numbers it: get_encoder; a format
\* without an encoder is passed over.
SelectFormat(id) ==
  /\ registered = Len(Defaults)
  /\ \A w \in Worker : pc[w] = "idle"
  /\ processors[MapFormatId(id)] # "none"
  /\ asked' = id
  /\ format' = processors[MapFormatId(id)]
  /\ UNCHANGED <<job, busy, answer, processors, registered, level, pc, target, tries, workmem,
                 packed, calls>>

-----------------------------------------------------------------------------
Goto(w, label) == pc' = [pc EXCEPT ![w] = label]
At(w, label)   == pc[w] = label
Stored         == UNCHANGED <<asked, processors, registered, format, level, calls>>

\* Leaving process_pack: its variables are gone.
Answer(w, a) ==
  /\ answer' = [answer EXCEPT ![w] = a]
  /\ busy' = busy \ {w}
  /\ target' = [target EXCEPT ![w] = NoTarget]
  /\ tries' = [tries EXCEPT ![w] = 0]
  /\ packed' = [packed EXCEPT ![w] = NoBlock]
  /\ Goto(w, "idle")

\* A negative result is thrown, and the target goes.
Throws(w, code) ==
  /\ Answer(w, Thrown(code))
  /\ UNCHANGED <<job, workmem>>
  /\ Stored

\* internal_pack returned the length: the target holds block b.
Packs(w, b) ==
  /\ packed' = [packed EXCEPT ![w] = b]
  /\ target' = [target EXCEPT ![w].length = Bitmap[job[w]].packed[format]]
  /\ Goto(w, "finish")
  /\ UNCHANGED <<job, busy, answer, tries, workmem>>
  /\ Stored

Fits(w) == Bitmap[job[w]].packed[format] <= target[w].capacity

ProcessPack(w, b) ==
  /\ At(w, "idle") /\ format # "none" /\ calls < MaxCalls
  /\ job' = [job EXCEPT ![w] = b]
  /\ busy' = busy \cup {w}
  /\ calls' = calls + 1
  /\ Goto(w, "validate")
  /\ answer' = [answer EXCEPT ![w] = NoAnswer]
  /\ UNCHANGED <<asked, processors, registered, format, level, target, tries, workmem, packed>>

\* validate_bitmap, then a target for the block's width and height.
Validate(w) ==
  /\ At(w, "validate")
  /\ IF BitmapError(job[w]) # 0
     THEN Throws(w, BitmapError(job[w]))
     ELSE /\ target' = [target EXCEPT ![w] = [capacity |-> Bitmap[job[w]].capacity, length |-> 0]]
          /\ Goto(w, "pack")
          /\ UNCHANGED <<job, busy, answer, tries, workmem, packed>>
          /\ Stored

\* Faulty: the level is handed to the codec as it is.
ClampLevel_Not(f, n) == n

\* The level each codec is called with.
ClampLevel(f, n) ==
  CASE f = "GZIP"   -> IF n < 1 THEN 1 ELSE IF n > 9 THEN 9 ELSE n
    [] f = "LZO2"   -> IF n < 1 THEN 1 ELSE IF n > 999 THEN 999 ELSE n
    [] f = "ZSTD"   -> IF n < 1 THEN 1 ELSE IF n > 22 THEN 22 ELSE n
    [] f = "BROTLI" -> IF n < 0 THEN 0 ELSE IF n > 11 THEN 11 ELSE n
    [] f \in {"RLE4K", "SNAPPY"} -> n

\* zlib, the codec that refuses a level it does not know (Z_STREAM_ERROR).
LevelRefused(w) == format = "GZIP" /\ ClampLevel(format, level) \notin -1 .. 9

\* Faulty: doubled as often as it takes.
TooSmallAgain_Never(w) == FALSE

TooSmallAgain(w) == tries[w] > 0

\* rle4k: a target that is too small is doubled, once.
PackRle4k(w) ==
  /\ At(w, "pack") /\ format = "RLE4K"
  /\ IF Fits(w) THEN Packs(w, job[w])
     ELSE IF TooSmallAgain(w) THEN Throws(w, TooSmall)
     ELSE /\ target' = [target EXCEPT ![w].capacity = 2 * @]      \* resize()
          /\ tries' = [tries EXCEPT ![w] = @ + 1]
          /\ UNCHANGED <<job, busy, answer, pc, workmem, packed>>
          /\ Stored

\* gzip, zstd and brotli compare the length with the capacity themselves.
PackBounded(w) ==
  /\ At(w, "pack") /\ format \in {"GZIP", "ZSTD", "BROTLI"}
  /\ IF LevelRefused(w) THEN Throws(w, -7002)
     ELSE IF Fits(w) THEN Packs(w, job[w])
     ELSE Throws(w, Overflow(format))

\* snappy::RawCompress is not told the capacity.
PackSnappy(w) == At(w, "pack") /\ format = "SNAPPY" /\ Packs(w, job[w])

\* Faulty: one work memory for the process.
WorkMemory_Shared(w) == CHOOSE v \in Worker : TRUE

\* static thread_local unsigned char lzo_wrkmem[]
WorkMemory(w) == w

\* lzo1x_1_compress or lzo1x_999_compress_level, begun ...
LzoBegin(w) ==
  /\ At(w, "pack") /\ format = "LZO2"
  /\ workmem' = [workmem EXCEPT ![WorkMemory(w)] = job[w]]
  /\ Goto(w, "lzo")
  /\ UNCHANGED <<job, busy, answer, target, tries, packed>>
  /\ Stored

\* ... and ended, with what the work memory holds by then.
LzoEnd(w) ==
  /\ At(w, "lzo")
  /\ Packs(w, workmem[WorkMemory(w)])

\* format * -1000 + rc; rle4k's own code; zstd's codes are positive.
CodecError(f) ==
  CASE f = "RLE4K" -> -200
    [] f = "GZIP"  -> Code[f] * (-1000) - 4
    [] f = "LZO2"  -> Code[f] * (-1000) - 1
    [] f = "ZSTD"  -> Code[f] * (-1000) + 64
    [] f = "BROTLI" -> Code[f] * (-1000) - 1

\* The codec gives up.
CodecFails(w) ==
  /\ At(w, "pack") \/ At(w, "lzo")
  /\ format # "SNAPPY"
  /\ Throws(w, CodecError(format))

\* Faulty: a block that grew is packed again.
FinishPack_Again(w) ==
  /\ At(w, "finish")
  /\ IF target[w].length > Bitmap[job[w]].length
     THEN Goto(w, "pack") /\ UNCHANGED <<busy, answer, target, tries, packed>>
     ELSE Answer(w, <<"packed", packed[w], format, target[w].length>>)
  /\ UNCHANGED <<job, workmem>>
  /\ Stored

\* The target is returned; source_length and the ratio are left out.
FinishPack(w) ==
  /\ At(w, "finish")
  /\ Answer(w, <<"packed", packed[w], format, target[w].length>>)
  /\ UNCHANGED <<job, workmem>>
  /\ Stored

Step(w) ==
  \/ Validate(w) \/ PackRle4k(w) \/ PackBounded(w) \/ PackSnappy(w)
  \/ LzoBegin(w) \/ LzoEnd(w) \/ CodecFails(w) \/ FinishPack(w)

AllPacked ==
  /\ calls = MaxCalls /\ busy = {}
  /\ UNCHANGED vars

EncoderNext ==
  \/ Register
  \/ \E id \in 0 .. 5 : SelectFormat(id)
  \/ \E w \in Worker : Step(w) \/ \E b \in Block : ProcessPack(w, b)
  \/ AllPacked

\* Every thread that is in a call goes on.
EncoderFairness == \A w \in Worker : WF_vars(Step(w))

EncoderSafety == EncoderInit /\ [][EncoderNext]_vars
EncoderFair   == EncoderSafety /\ EncoderFairness
-----------------------------------------------------------------------------
EncoderTypes ==
  /\ job \in [Worker -> Block \cup {NoBlock}]
  /\ asked \in -1 .. 5
  /\ busy \subseteq Worker
  /\ registered \in 0 .. 6
  /\ processors \in [Codes -> Format \cup {"none"}]
  /\ format \in Format \cup {"none"}
  /\ level \in Levels
  /\ pc \in [Worker -> {"idle", "validate", "pack", "lzo", "finish"}]
  /\ target \in [Worker -> [capacity : Nat, length : Nat]]
  /\ tries \in [Worker -> 0 .. 1]
  /\ workmem \in [Worker -> Block \cup {NoBlock}]
  /\ packed \in [Worker -> Block \cup {NoBlock}]
  /\ calls \in 0 .. MaxCalls

\* What has been registered stands under its code, and the encoder of the run is
\* the one redcli.json's number means.
RegistryInv ==
  /\ \A n \in 1 .. registered : processors[Code[Defaults[n]]] = Defaults[n]
  /\ asked = -1 => format = "none"
  /\ asked # -1 => format = Names[asked + 1]

\* What a call has found out so far.
CallInv(w) ==
  /\ w \in busy <=> pc[w] # "idle"
  /\ w \in busy => asked # -1 /\ job[w] \in Block
  /\ pc[w] \in {"idle", "validate"} => tries[w] = 0
  /\ pc[w] \in {"pack", "lzo", "finish"} =>
       /\ BitmapError(job[w]) = 0
       /\ tries[w] = 1 => format = "RLE4K"
       /\ target[w].capacity = (1 + tries[w]) * Bitmap[job[w]].capacity
  /\ pc[w] = "lzo" => format = "LZO2" /\ workmem[WorkMemory(w)] = job[w]
  /\ pc[w] = "finish" =>
       /\ packed[w] = job[w]
       /\ target[w].length = Bitmap[job[w]].packed[format]
       /\ target[w].length <= target[w].capacity

\* Every variable has its type, rle4k is tried at most twice, and the state of a
\* call agrees with its place, its block and the format of the run.
EncoderInv == EncoderTypes /\ RegistryInv /\ \A w \in Worker : CallInv(w)

\* Six codecs, retries, level limits and the work memories of threads that run
\* at the same time add up to EncoderSpec: every caller gets its own block in
\* the format of the run, or the exception that names its cause.
ImplementsEncoder == Spec

\* A call returns or throws.
CallsEnd == \A w \in Worker : w \in busy ~> w \notin busy
=============================================================================
