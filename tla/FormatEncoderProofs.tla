------------------------ MODULE FormatEncoderProofs ------------------------
(***************************************************************************)
(* The format encoders for every number of threads, every block and every  *)
(* level: the invariant of the calls, and that they implement EncoderSpec. *)
(***************************************************************************)
EXTENDS FormatEncoder, TLAPS

\* The three numberings of the formats agree: the code that map_format_id gives
\* for the n-th id is the one under which the n-th encoder is registered.
LEMMA NumberingsAgree ==
  /\ \A n \in 1 .. 6 : Defaults[n] \in Format /\ Code[Defaults[n]] \in Codes
  /\ \A m, n \in 1 .. 6 : Code[Defaults[m]] = Code[Defaults[n]] => m = n
  /\ \A id \in 0 .. 5 : MapFormatId(id) = Code[Defaults[id + 1]] /\ Defaults[id + 1] = Names[id + 1]
  <1>1. \A n \in 1 .. 6 : n = 1 \/ n = 2 \/ n = 3 \/ n = 4 \/ n = 5 \/ n = 6
    OBVIOUS
  <1>2. /\ Code["RLE4K"] = 4 /\ Code["GZIP"] = 7 /\ Code["LZO2"] = 11
        /\ Code["SNAPPY"] = 10 /\ Code["ZSTD"] = 8 /\ Code["BROTLI"] = 15
    BY DEF Code
  <1>3. /\ Defaults[1] = "RLE4K" /\ Defaults[2] = "GZIP" /\ Defaults[3] = "LZO2"
        /\ Defaults[4] = "SNAPPY" /\ Defaults[5] = "ZSTD" /\ Defaults[6] = "BROTLI"
    BY DEF Defaults
  <1>4. \A n \in 1 .. 6 : Defaults[n] \in Format /\ Code[Defaults[n]] \in Codes
    BY <1>1, <1>2, <1>3 DEF Format, Codes
  <1>5. \A m, n \in 1 .. 6 : Code[Defaults[m]] = Code[Defaults[n]] => m = n
    BY <1>1, <1>2, <1>3
  <1>6. \A id \in 0 .. 5 : MapFormatId(id) = Code[Defaults[id + 1]]
    <2> SUFFICES ASSUME NEW id \in 0 .. 5 PROVE MapFormatId(id) = Code[Defaults[id + 1]]
      OBVIOUS
    <2>1. id = 0 \/ id = 1 \/ id = 2 \/ id = 3 \/ id = 4 \/ id = 5
      OBVIOUS
    <2> QED BY <2>1, <1>2, <1>3 DEF MapFormatId
  <1>7. \A id \in 0 .. 5 : Defaults[id + 1] = Names[id + 1]
    BY DEF Defaults, Names
  <1> QED BY <1>4, <1>5, <1>6, <1>7

\* What a bitmap_info record holds.
LEMMA BitmapFields ==
  ASSUME NEW b \in Block, NEW f \in Format
  PROVE  Bitmap[b].capacity \in Nat /\ Bitmap[b].packed[f] \in Nat
  BY BlockAssumption DEF BitmapRecord

\* A step of one worker leaves the calls of the others as they are.
LEMMA OthersUndisturbed ==
  ASSUME NEW v \in Worker, CallInv(v), asked' = asked, format' = format,
         job'[v] = job[v], pc'[v] = pc[v], target'[v] = target[v], tries'[v] = tries[v],
         packed'[v] = packed[v], workmem'[v] = workmem[v], v \in busy' <=> v \in busy
  PROVE  CallInv(v)'
  BY DEF CallInv, WorkMemory, BitmapError

\* Nothing is registered and nobody calls.
LEMMA EncoderStarts == EncoderInit => EncoderInv
  <1> SUFFICES ASSUME EncoderInit PROVE EncoderInv
    OBVIOUS
  <1>1. EncoderTypes
    BY EncoderAssumption DEF EncoderInit, Init, EncoderTypes, NoTarget
  <1>2. RegistryInv
    BY DEF EncoderInit, Init, RegistryInv
  <1>3. \A w \in Worker : CallInv(w)
    BY DEF EncoderInit, Init, CallInv
  <1> QED BY <1>1, <1>2, <1>3 DEF EncoderInv

\* One more encoder is registered.
LEMMA RegisterPreserves == EncoderInv /\ Register => EncoderInv'
  <1> SUFFICES ASSUME EncoderInv, Register PROVE EncoderInv'
    OBVIOUS
  <1> DEFINE n == registered + 1
  <1>1. n \in 1 .. 6 /\ registered' = n
    BY DEF Register, EncoderInv, EncoderTypes, Defaults
  <1>2. Defaults[n] \in Format /\ Code[Defaults[n]] \in Codes
    BY <1>1, NumberingsAgree
  <1>3. EncoderTypes'
    BY <1>1, <1>2 DEF Register, EncoderInv, EncoderTypes, specVars
  <1>4. ASSUME NEW m \in 1 .. registered' PROVE processors'[Code[Defaults[m]]] = Defaults[m]
    <2>1. /\ processors \in [Codes -> Format \cup {"none"}]
          /\ processors' = [processors EXCEPT ![Code[Defaults[n]]] = Defaults[n]]
      BY DEF Register, EncoderInv, EncoderTypes
    <2>2. m \in 1 .. 6 /\ (m = n \/ m \in 1 .. registered)
      BY <1>1, <1>4 DEF EncoderInv, EncoderTypes
    <2>3. CASE m = n
      BY <2>1, <2>3, <1>2
    <2>4. CASE m # n
      <3>1. processors[Code[Defaults[m]]] = Defaults[m]
        BY <2>2, <2>4 DEF EncoderInv, RegistryInv
      <3>2. Code[Defaults[m]] # Code[Defaults[n]] /\ Code[Defaults[m]] \in Codes
        BY <1>1, <2>2, <2>4, NumberingsAgree
      <3> QED BY <2>1, <3>1, <3>2
    <2> QED BY <2>3, <2>4
  <1>5. RegistryInv'
    BY <1>4 DEF Register, EncoderInv, RegistryInv, specVars
  <1>6. \A w \in Worker : CallInv(w)'
    BY OthersUndisturbed DEF Register, EncoderInv, specVars
  <1> QED BY <1>3, <1>5, <1>6 DEF EncoderInv

\* The encoder that is found is the one the number stands for.
LEMMA SelectFormatPreserves ==
  ASSUME EncoderInv, NEW id \in 0 .. 5, SelectFormat(id)
  PROVE  EncoderInv'
  <1>1. processors[MapFormatId(id)] = Names[id + 1] /\ Names[id + 1] \in Format
    BY NumberingsAgree DEF SelectFormat, EncoderInv, RegistryInv, Defaults
  <1>2. EncoderTypes'
    BY <1>1 DEF SelectFormat, EncoderInv, EncoderTypes
  <1>3. RegistryInv'
    BY <1>1 DEF SelectFormat, EncoderInv, RegistryInv
  <1>4. \A w \in Worker : CallInv(w)'
    BY DEF SelectFormat, EncoderInv, CallInv
  <1> QED BY <1>2, <1>3, <1>4 DEF EncoderInv

\* A call begins.
LEMMA ProcessPackPreserves ==
  ASSUME EncoderInv, NEW w \in Worker, NEW b \in Block, ProcessPack(w, b)
  PROVE  EncoderInv'
  <1> USE DEF ProcessPack, Goto, At
  <1>1. EncoderTypes'
    BY EncoderAssumption DEF EncoderInv, EncoderTypes
  <1>2. RegistryInv'
    BY DEF EncoderInv, RegistryInv
  <1>3. CallInv(w)'
    BY DEF EncoderInv, EncoderTypes, RegistryInv, CallInv
  <1>4. ASSUME NEW v \in Worker, v # w PROVE CallInv(v)'
    BY <1>4, OthersUndisturbed DEF EncoderInv, EncoderTypes
  <1> QED BY <1>1, <1>2, <1>3, <1>4 DEF EncoderInv

\* A call ends, whatever its answer.
LEMMA AnswerPreserves ==
  ASSUME EncoderInv, NEW w \in Worker, NEW a, Answer(w, a), Stored, UNCHANGED <<job, workmem>>
  PROVE  EncoderInv'
  <1> USE DEF Answer, Stored, Goto
  <1>1. EncoderTypes'
    BY DEF EncoderInv, EncoderTypes, NoTarget
  <1>2. RegistryInv'
    BY DEF EncoderInv, RegistryInv
  <1>3. CallInv(w)'
    BY DEF EncoderInv, EncoderTypes, CallInv
  <1>4. ASSUME NEW v \in Worker, v # w PROVE CallInv(v)'
    BY <1>4, OthersUndisturbed DEF EncoderInv, EncoderTypes
  <1> QED BY <1>1, <1>2, <1>3, <1>4 DEF EncoderInv

\* A call that throws gives up its target.
LEMMA ThrowsPreserves ==
  ASSUME EncoderInv, NEW w \in Worker, NEW code, Throws(w, code)
  PROVE  EncoderInv'
  BY AnswerPreserves DEF Throws

\* The codec is done, and what it wrote is the block of the call and fits.
LEMMA PacksPreserves ==
  ASSUME EncoderInv, NEW w \in Worker, NEW b, Packs(w, b), pc[w] \in {"pack", "lzo"},
         b = job[w], Fits(w)
  PROVE  EncoderInv'
  <1> USE DEF Packs, Stored, Goto
  <1>1. /\ job[w] \in Block /\ format \in Format
        /\ Bitmap[job[w]].packed[format] \in Nat
    <2>1. w \in busy /\ asked \in 0 .. 5 /\ job[w] \in Block
      BY DEF EncoderInv, EncoderTypes, CallInv
    <2>2. format \in Format
      BY <2>1, NumberingsAgree DEF EncoderInv, EncoderTypes, RegistryInv
    <2> QED BY <2>1, <2>2, BitmapFields
  <1>2. EncoderTypes'
    BY <1>1 DEF EncoderInv, EncoderTypes
  <1>3. RegistryInv'
    BY DEF EncoderInv, RegistryInv
  <1>4. CallInv(w)'
    <2>1. /\ pc'[w] = "finish" /\ w \in busy /\ busy' = busy
          /\ packed'[w] = job[w]
          /\ target'[w].capacity = target[w].capacity
          /\ target'[w].length = Bitmap[job[w]].packed[format]
      BY <1>1 DEF EncoderInv, EncoderTypes, CallInv
    <2>2. /\ BitmapError(job[w]) = 0 /\ asked # -1
          /\ tries[w] = 1 => format = "RLE4K"
          /\ target[w].capacity = (1 + tries[w]) * Bitmap[job[w]].capacity
      BY DEF EncoderInv, CallInv
    <2>3. BitmapError(job[w])' = 0
      BY <2>2 DEF BitmapError
    <2>4. target'[w].length <= target'[w].capacity
      BY <2>1 DEF Fits
    <2>5. UNCHANGED <<job, asked, format, tries>>
      OBVIOUS
    <2> HIDE DEF Packs, Stored, Goto
    <2> QED BY <1>1, <2>1, <2>2, <2>3, <2>4, <2>5 DEF CallInv
  <1>5. ASSUME NEW v \in Worker, v # w PROVE CallInv(v)'
    BY <1>5, OthersUndisturbed DEF EncoderInv, EncoderTypes
  <1> QED BY <1>2, <1>3, <1>4, <1>5 DEF EncoderInv
\* A call of a worker in process_pack goes one step further.
LEMMA ValidatePreserves ==
  ASSUME EncoderInv, NEW w \in Worker, Validate(w)
  PROVE  EncoderInv'
  <1>1. CASE BitmapError(job[w]) # 0
    BY <1>1, ThrowsPreserves DEF Validate
  <1>2. CASE BitmapError(job[w]) = 0
    <2>1. /\ pc[w] = "validate" /\ w \in busy /\ asked # -1 /\ job[w] \in Block
          /\ tries[w] = 0 /\ Bitmap[job[w]].capacity \in Nat
      BY BlockAssumption DEF Validate, At, EncoderInv, CallInv, BitmapRecord
    <2>2. /\ target' = [target EXCEPT ![w] = [capacity |-> Bitmap[job[w]].capacity, length |-> 0]]
          /\ pc' = [pc EXCEPT ![w] = "pack"]
          /\ UNCHANGED <<job, busy, answer, tries, workmem, packed>>
          /\ UNCHANGED <<asked, processors, registered, format, level, calls>>
      BY <1>2 DEF Validate, Goto, Stored
    <2>3. EncoderTypes'
      BY <2>1, <2>2 DEF EncoderInv, EncoderTypes
    <2>4. RegistryInv'
      BY <2>2 DEF EncoderInv, RegistryInv
    <2>5. CallInv(w)'
      <3>1. BitmapError(job[w])' = 0
        BY <1>2, <2>2 DEF BitmapError
      <3>2. /\ pc'[w] = "pack" /\ tries'[w] = 0 /\ job'[w] = job[w] /\ busy' = busy
            /\ target'[w].capacity = Bitmap[job[w]].capacity /\ asked' = asked
        BY <2>1, <2>2 DEF EncoderInv, EncoderTypes
      <3> QED BY <2>1, <3>1, <3>2 DEF CallInv
    <2>6. ASSUME NEW v \in Worker, v # w PROVE CallInv(v)'
      BY <2>2, <2>6, OthersUndisturbed DEF EncoderInv, EncoderTypes
    <2> QED BY <2>3, <2>4, <2>5, <2>6 DEF EncoderInv
  <1> QED BY <1>1, <1>2

\* rle4k is given a target twice as large, once.
LEMMA PackRle4kPreserves ==
  ASSUME EncoderInv, NEW w \in Worker, PackRle4k(w)
  PROVE  EncoderInv'
  <1>1. pc[w] = "pack" /\ format = "RLE4K"
    BY DEF PackRle4k, At
  <1>2. CASE Fits(w)
    BY <1>1, <1>2, PacksPreserves DEF PackRle4k
  <1>3. CASE ~Fits(w) /\ TooSmallAgain(w)
    BY <1>3, ThrowsPreserves DEF PackRle4k
  <1>4. CASE ~Fits(w) /\ ~TooSmallAgain(w)
    <2>1. /\ w \in busy /\ asked # -1 /\ job[w] \in Block /\ tries[w] = 0
          /\ BitmapError(job[w]) = 0 /\ Bitmap[job[w]].capacity \in Nat
          /\ target[w].capacity = Bitmap[job[w]].capacity
      <3>1. w \in busy /\ asked # -1 /\ job[w] \in Block /\ BitmapError(job[w]) = 0
        BY <1>1 DEF EncoderInv, CallInv
      <3>2. tries[w] = 0
        BY <1>4 DEF TooSmallAgain, EncoderInv, EncoderTypes
      <3>3. Bitmap[job[w]].capacity \in Nat
        BY <3>1, BlockAssumption DEF BitmapRecord
      <3>4. target[w].capacity = (1 + tries[w]) * Bitmap[job[w]].capacity
        BY <1>1 DEF EncoderInv, CallInv
      <3> QED BY <3>1, <3>2, <3>3, <3>4
    <2>2. /\ target' = [target EXCEPT ![w].capacity = 2 * @]
          /\ tries' = [tries EXCEPT ![w] = @ + 1]
          /\ UNCHANGED <<job, busy, answer, pc, workmem, packed>>
          /\ UNCHANGED <<asked, processors, registered, format, level, calls>>
      BY <1>4 DEF PackRle4k, Stored
    <2>3. EncoderTypes'
      BY <2>1, <2>2 DEF EncoderInv, EncoderTypes
    <2>4. RegistryInv'
      BY <2>2 DEF EncoderInv, RegistryInv
    <2>5. CallInv(w)'
      <3>1. BitmapError(job[w])' = 0
        BY <2>1, <2>2 DEF BitmapError
      <3>2. /\ pc'[w] = "pack" /\ tries'[w] = 1 /\ job'[w] = job[w] /\ busy' = busy
            /\ target'[w].capacity = 2 * Bitmap[job[w]].capacity
            /\ asked' = asked /\ format' = "RLE4K"
        BY <1>1, <2>1, <2>2 DEF EncoderInv, EncoderTypes
      <3> QED BY <2>1, <3>1, <3>2 DEF CallInv
    <2>6. ASSUME NEW v \in Worker, v # w PROVE CallInv(v)'
      BY <2>2, <2>6, OthersUndisturbed DEF EncoderInv, EncoderTypes
    <2> QED BY <2>3, <2>4, <2>5, <2>6 DEF EncoderInv
  <1> QED BY <1>2, <1>3, <1>4

\* A codec that is told the capacity of its target keeps to it.
LEMMA PackBoundedPreserves ==
  ASSUME EncoderInv, NEW w \in Worker, PackBounded(w)
  PROVE  EncoderInv'
  <1>1. pc[w] = "pack"
    BY DEF PackBounded, At
  <1>2. CASE LevelRefused(w)
    BY <1>2, ThrowsPreserves DEF PackBounded
  <1>3. CASE ~LevelRefused(w) /\ Fits(w)
    BY <1>1, <1>3, PacksPreserves DEF PackBounded
  <1>4. CASE ~LevelRefused(w) /\ ~Fits(w)
    BY <1>4, ThrowsPreserves DEF PackBounded
  <1> QED BY <1>2, <1>3, <1>4

\* LZO and Snappy are not told the capacity; what they write fits it.
LEMMA UnboundedFit ==
  ASSUME EncoderInv, NEW w \in Worker, pc[w] \in {"pack", "lzo"}, format \in {"LZO2", "SNAPPY"}
  PROVE  Fits(w)
  <1>1. job[w] \in Block
    BY DEF EncoderInv, CallInv
  <1>2. tries[w] = 0 /\ target[w].capacity = (1 + tries[w]) * Bitmap[job[w]].capacity
    BY DEF EncoderInv, EncoderTypes, CallInv
  <1>3. Bitmap[job[w]].capacity \in Nat
    BY <1>1, BlockAssumption DEF BitmapRecord
  <1>4. Bitmap[job[w]].packed[format] <= Bitmap[job[w]].capacity
    BY <1>1, BlockAssumption
  <1> QED BY <1>2, <1>3, <1>4 DEF Fits

\* Snappy never needs more than its target.
LEMMA PackSnappyPreserves ==
  ASSUME EncoderInv, NEW w \in Worker, PackSnappy(w)
  PROVE  EncoderInv'
  BY UnboundedFit, PacksPreserves DEF PackSnappy, At

\* The work memory is the worker's own, so the others' is untouched.
LEMMA LzoBeginPreserves ==
  ASSUME EncoderInv, NEW w \in Worker, LzoBegin(w)
  PROVE  EncoderInv'
  <1>1. /\ pc[w] = "pack" /\ format = "LZO2"
        /\ workmem' = [workmem EXCEPT ![w] = job[w]]
        /\ pc' = [pc EXCEPT ![w] = "lzo"]
        /\ UNCHANGED <<job, busy, answer, target, tries, packed>>
        /\ UNCHANGED <<asked, processors, registered, format, level, calls>>
    BY DEF LzoBegin, At, Goto, Stored, WorkMemory
  <1>2. EncoderTypes'
    BY <1>1 DEF EncoderInv, EncoderTypes
  <1>3. RegistryInv'
    BY <1>1 DEF EncoderInv, RegistryInv
  <1>4. CallInv(w)'
    <2>1. BitmapError(job[w]) = 0
      BY <1>1 DEF EncoderInv, CallInv
    <2>2. BitmapError(job[w])' = 0
      BY <1>1, <2>1 DEF BitmapError
    <2>3. pc'[w] = "lzo" /\ workmem'[w] = job[w]
      BY <1>1 DEF EncoderInv, EncoderTypes
    <2> QED BY <1>1, <2>2, <2>3 DEF EncoderInv, EncoderTypes, CallInv, WorkMemory
  <1>5. ASSUME NEW v \in Worker, v # w PROVE CallInv(v)'
    BY <1>1, <1>5, OthersUndisturbed DEF EncoderInv, EncoderTypes
  <1> QED BY <1>2, <1>3, <1>4, <1>5 DEF EncoderInv

\* LZO finds in its work memory what it has put there.
LEMMA LzoEndPreserves ==
  ASSUME EncoderInv, NEW w \in Worker, LzoEnd(w)
  PROVE  EncoderInv'
  <1>1. pc[w] = "lzo" /\ format = "LZO2" /\ workmem[WorkMemory(w)] = job[w]
    BY DEF LzoEnd, At, EncoderInv, CallInv
  <1> QED BY <1>1, UnboundedFit, PacksPreserves DEF LzoEnd

\* A call returns the block that it has packed.
LEMMA FinishPackPreserves ==
  ASSUME EncoderInv, NEW w \in Worker, FinishPack(w)
  PROVE  EncoderInv'
  BY AnswerPreserves DEF FinishPack

\* The invariant holds in every reachable state, for every number of workers,
\* every block and every level.
THEOREM EncoderCorrect == EncoderSafety => []EncoderInv
  <1>1. EncoderInit => EncoderInv
    BY EncoderStarts
  <1>2. EncoderInv /\ [EncoderNext]_vars => EncoderInv'
    <2> SUFFICES ASSUME EncoderInv, [EncoderNext]_vars PROVE EncoderInv'
      OBVIOUS
    <2>1. CASE Register
      BY <2>1, RegisterPreserves
    <2>2. ASSUME NEW id \in 0 .. 5, SelectFormat(id) PROVE EncoderInv'
      BY <2>2, SelectFormatPreserves
    <2>3. ASSUME NEW w \in Worker, NEW b \in Block, ProcessPack(w, b) PROVE EncoderInv'
      BY <2>3, ProcessPackPreserves
    <2>4. ASSUME NEW w \in Worker, Step(w) PROVE EncoderInv'
      <3>1. CASE CodecFails(w)
        BY <3>1, ThrowsPreserves DEF CodecFails
      <3> QED BY <2>4, <3>1, ValidatePreserves, PackRle4kPreserves, PackBoundedPreserves,
                 PackSnappyPreserves, LzoBeginPreserves, LzoEndPreserves, FinishPackPreserves
              DEF Step
    <2>5. CASE UNCHANGED vars
      <3>1. EncoderTypes' /\ RegistryInv'
        BY <2>5 DEF vars, specVars, EncoderInv, EncoderTypes, RegistryInv
      <3>2. \A w \in Worker : CallInv(w)'
        BY <2>5, OthersUndisturbed DEF vars, specVars, EncoderInv
      <3> QED BY <3>1, <3>2 DEF EncoderInv
    <2> QED BY <2>1, <2>2, <2>3, <2>4, <2>5 DEF EncoderNext, AllPacked
  <1> QED BY <1>1, <1>2, PTL DEF EncoderSafety

-----------------------------------------------------------------------------
(* Refinement *)

\* Where a call stands for the abstract specification.
LEMMA InCall ==
  ASSUME EncoderInv, NEW w \in Worker, pc[w] # "idle"
  PROVE  /\ w \in busy /\ job[w] \in Block /\ asked \in 0 .. 5
         /\ format = Names[asked + 1] /\ format \in Format
         /\ Bitmap[job[w]].capacity \in Nat /\ Bitmap[job[w]].packed[format] \in Nat
  <1>1. w \in busy /\ job[w] \in Block /\ asked \in 0 .. 5
    BY DEF EncoderInv, EncoderTypes, CallInv
  <1>2. format = Names[asked + 1]
    BY <1>1 DEF EncoderInv, RegistryInv
  <1>3. format \in Format
    BY <1>1, <1>2, NumberingsAgree
  <1> QED BY <1>1, <1>2, <1>3, BitmapFields

\* A thrown code that the abstract specification allows is an abstract return.
LEMMA ThrowsReturns ==
  ASSUME EncoderInv, NEW w \in Worker, NEW code, Throws(w, code), pc[w] # "idle",
         Thrown(code) \in Answers(job[w], format)
  PROVE  Return(w)
  <1>1. w \in busy /\ format = Names[asked + 1]
    BY InCall
  <1> QED BY <1>1 DEF Throws, Answer, Stored, Return

\* In room for the retry, rle4k's target is as large as it gets.
LEMMA SmallTargetOverflows ==
  ASSUME EncoderInv, NEW w \in Worker, pc[w] = "pack", ~Fits(w),
         tries[w] = 1 \/ format # "RLE4K", format \in {"RLE4K", "GZIP", "ZSTD", "BROTLI"}
  PROVE  Thrown(Overflow(format)) \in Answers(job[w], format)
  <1>1. /\ BitmapError(job[w]) = 0
        /\ tries[w] \in 0 .. 1
        /\ tries[w] = 1 => format = "RLE4K"
        /\ target[w].capacity = (1 + tries[w]) * Bitmap[job[w]].capacity
    BY DEF EncoderInv, EncoderTypes, CallInv
  <1>2. Bitmap[job[w]].capacity \in Nat /\ Bitmap[job[w]].packed[format] \in Nat
    BY InCall
  <1>3. target[w].capacity = Room(job[w], format)
    <2>1. CASE tries[w] = 1
      BY <1>1, <1>2, <2>1 DEF Room
    <2>2. CASE tries[w] = 0
      BY <1>1, <1>2, <2>2 DEF Room
    <2> QED BY <1>1, <2>1, <2>2
  <1>4. Bitmap[job[w]].packed[format] > Room(job[w], format)
    <2>1. Room(job[w], format) \in Nat
      BY <1>2 DEF Room
    <2> QED BY <2>1, <1>2, <1>3 DEF Fits
  <1> QED BY <1>1, <1>2, <1>3, <1>4 DEF Answers, Room

\* Every step of a call is a return or nothing to the caller.
LEMMA StepReturns ==
  ASSUME EncoderInv, NEW w \in Worker, Step(w)
  PROVE  Return(w) \/ UNCHANGED specVars
  <1>1. CASE Validate(w)
    <2>1. CASE BitmapError(job[w]) # 0
      <3>1. Throws(w, BitmapError(job[w])) /\ pc[w] # "idle"
        BY <1>1, <2>1 DEF Validate, At
      <3>2. Thrown(BitmapError(job[w])) \in Answers(job[w], format)
        BY <2>1 DEF Answers
      <3> QED BY <3>1, <3>2, ThrowsReturns
    <2>2. CASE BitmapError(job[w]) = 0
      BY <1>1, <2>2 DEF Validate, Stored, specVars
    <2> QED BY <2>1, <2>2
  <1>2. CASE PackRle4k(w)
    <2>1. pc[w] = "pack" /\ format = "RLE4K"
      BY <1>2 DEF PackRle4k, At
    <2>2. CASE ~Fits(w) /\ TooSmallAgain(w)
      <3>1. tries[w] = 1
        BY <2>2 DEF TooSmallAgain, EncoderInv, EncoderTypes
      <3>2. Thrown(TooSmall) \in Answers(job[w], format)
        BY <2>1, <2>2, <3>1, SmallTargetOverflows DEF Overflow
      <3>3. Throws(w, TooSmall)
        BY <1>2, <2>2 DEF PackRle4k
      <3> QED BY <2>1, <3>2, <3>3, ThrowsReturns
    <2>3. CASE Fits(w) \/ ~TooSmallAgain(w)
      BY <1>2, <2>3 DEF PackRle4k, Packs, Stored, specVars
    <2> QED BY <2>2, <2>3
  <1>3. CASE PackBounded(w)
    <2>1. pc[w] = "pack" /\ format \in {"GZIP", "ZSTD", "BROTLI"}
      BY <1>3 DEF PackBounded, At
    <2>2. ~LevelRefused(w)
      <3>1. level \in Int
        BY EncoderAssumption DEF EncoderInv, EncoderTypes
      <3> QED BY <3>1 DEF LevelRefused, ClampLevel
    <2>3. CASE Fits(w)
      BY <1>3, <2>2, <2>3 DEF PackBounded, Packs, Stored, specVars
    <2>4. CASE ~Fits(w)
      <3>1. Throws(w, Overflow(format))
        BY <1>3, <2>2, <2>4 DEF PackBounded
      <3>2. Thrown(Overflow(format)) \in Answers(job[w], format)
        BY <2>1, <2>4, SmallTargetOverflows
      <3> QED BY <2>1, <3>1, <3>2, ThrowsReturns
    <2> QED BY <2>3, <2>4
  <1>4. CASE PackSnappy(w) \/ LzoBegin(w) \/ LzoEnd(w)
    BY <1>4 DEF PackSnappy, LzoBegin, LzoEnd, Packs, Stored, specVars
  <1>5. CASE CodecFails(w)
    <2>1. pc[w] \in {"pack", "lzo"} /\ format # "SNAPPY" /\ Throws(w, CodecError(format))
      BY <1>5 DEF CodecFails, At
    <2>2. BitmapError(job[w]) = 0 /\ format \in Format
      BY <2>1, InCall DEF EncoderInv, CallInv
    <2>3. CodecError(format) \in CodecErrors(format)
      BY <2>1, <2>2 DEF CodecError, CodecErrors, Code, Format
    <2>4. Thrown(CodecError(format)) \in Answers(job[w], format)
      BY <2>2, <2>3 DEF Answers
    <2> QED BY <2>1, <2>4, ThrowsReturns
  <1>6. CASE FinishPack(w)
    <2>1. /\ pc[w] = "finish" /\ UNCHANGED <<job, asked>> /\ busy' = busy \ {w}
          /\ answer' = [answer EXCEPT ![w] = <<"packed", packed[w], format, target[w].length>>]
      BY <1>6 DEF FinishPack, At, Answer, Stored
    <2>2. /\ BitmapError(job[w]) = 0 /\ packed[w] = job[w]
          /\ target[w].length = Bitmap[job[w]].packed[format]
      BY <2>1 DEF EncoderInv, CallInv
    <2>3. Bitmap[job[w]].packed[format] <= Room(job[w], format)
      <3>1. /\ target[w].length <= target[w].capacity /\ tries[w] \in 0 .. 1
            /\ tries[w] = 1 => format = "RLE4K"
            /\ target[w].capacity = (1 + tries[w]) * Bitmap[job[w]].capacity
        BY <2>1 DEF EncoderInv, EncoderTypes, CallInv
      <3>2. Bitmap[job[w]].capacity \in Nat /\ Bitmap[job[w]].packed[format] \in Nat
        BY <2>1, InCall
      <3>3. CASE tries[w] = 0
        BY <2>2, <3>1, <3>2, <3>3 DEF Room
      <3>4. CASE tries[w] = 1
        BY <2>2, <3>1, <3>2, <3>4 DEF Room
      <3> QED BY <3>1, <3>3, <3>4
    <2>4. Packed(job[w], format) \in Answers(job[w], format)
      BY <2>2, <2>3 DEF Answers
    <2>5. <<"packed", packed[w], format, target[w].length>> = Packed(job[w], format)
      BY <2>2 DEF Packed
    <2>6. w \in busy /\ format = Names[asked + 1]
      BY <2>1, InCall
    <2> QED BY <2>1, <2>4, <2>5, <2>6 DEF Return
  <1> QED BY <1>1, <1>2, <1>3, <1>4, <1>5, <1>6 DEF Step

\* ImplementsEncoder: retries, level limits, work memories and the three numberings
\* of the formats add up to EncoderSpec, for every number of threads that call
\* at the same time: every caller gets its own block in the format asked for, or
\* the exception that names its cause.
THEOREM EncoderImplementsSpec == EncoderSafety => ImplementsEncoder
  <1>1. EncoderInit => Init
    BY DEF EncoderInit
  <1>2. EncoderInv /\ [EncoderNext]_vars => [Next]_specVars
    <2> SUFFICES ASSUME EncoderInv, [EncoderNext]_vars PROVE Next \/ UNCHANGED specVars
      OBVIOUS
    <2>1. CASE Register \/ AllPacked \/ UNCHANGED vars
      BY <2>1 DEF Register, AllPacked, vars
    <2>2. ASSUME NEW id \in 0 .. 5, SelectFormat(id) PROVE Next
      <3>1. busy = {}
        BY <2>2 DEF SelectFormat, EncoderInv, EncoderTypes, CallInv
      <3> QED BY <2>2, <3>1 DEF SelectFormat, Select, Next
    <2>3. ASSUME NEW w \in Worker, NEW b \in Block, ProcessPack(w, b) PROVE Next
      <3>1. w \notin busy /\ asked # -1
        BY <2>3 DEF ProcessPack, At, EncoderInv, CallInv, RegistryInv
      <3>2. Call(w, b)
        BY <2>3, <3>1 DEF ProcessPack, Call
      <3> QED BY <3>2 DEF Next
    <2>4. ASSUME NEW w \in Worker, Step(w) PROVE Next \/ UNCHANGED specVars
      BY <2>4, StepReturns DEF Next
    <2> QED BY <2>1, <2>2, <2>3, <2>4 DEF EncoderNext
  <1> QED BY <1>1, <1>2, EncoderCorrect, PTL DEF EncoderSafety, Spec, ImplementsEncoder
=============================================================================
