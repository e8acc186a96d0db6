--------------------------- MODULE BatchRunProofs ---------------------------
(***************************************************************************)
(* The batch for every list of files, every list of formats and every      *)
(* outcome of the columns: which files are reported, what the records, the *)
(* CSV file and the exit code say of them.                                 *)
(***************************************************************************)
EXTENDS BatchRun, SequenceTheorems, WellFoundedInduction, TLAPS

N == Len(fmts)
Acc == [ss : Nat, cs : Nat, ok : BOOLEAN]

Result == [name : {fmts[i] : i \in 1 .. N}, ss : Nat, cs : Nat, ok : BOOLEAN,
           console : {"", "OK", "FAIL"}]
RecordSet == [file : Nat, ss : Nat, fmts : Seq(Result)]

\* Where the batch is: the file under way is a good one of the list.
PlaceInv ==
  /\ input \in Inputs /\ N \in Nat \ {0}
  /\ phase \in {"collect", "file", "column", "csv", "exited", "aborted"}
  /\ files = IF phase = "collect" THEN <<>> ELSE input.files
  /\ fi \in 1 .. Len(input.files) + 1
  /\ fx \in 1 .. N + 1
  /\ col \in Nat \ {0}
  /\ phase = "collect" => fi = 1
  /\ phase = "column" =>
       /\ fi <= Len(files) /\ files[fi].state = "good"
       /\ fx <= N => col <= Len(files[fi].cols) + 1
  /\ phase = "csv" => fi = Len(files) + 1
  /\ phase = "exited" => files = <<>> \/ fi = Len(files) + 1

\* Failures are counted among the files passed so far.
FailuresInv ==
  /\ failures \in 0 .. fi - 1
  /\ failures > 0 <=> \E n \in 1 .. fi - 1 : LoadFailure(input.files[n].state)

\* Nothing but the failures and the records decides the exit code.
ExitInv ==
  /\ exitCode \in {0, 1}
  /\ phase = "exited" =>
       (exitCode = 0 <=> files # <<>> /\ failures = 0 /\ records # <<>>)

\* The records are those of the good files passed so far, in order.
OrderInv ==
  /\ records \in Seq(RecordSet)
  /\ \A k \in 1 .. Len(records) :
       records[k].file \in 1 .. fi - 1 /\ input.files[records[k].file].state = "good"
  /\ \A j, k \in 1 .. Len(records) : j < k => records[j].file < records[k].file
  /\ \A n \in 1 .. fi - 1 : input.files[n].state = "good" =>
       \E k \in 1 .. Len(records) : records[k].file = n

\* The columns of the current file that format i has behind it.
Seen(i) == IF i < fx THEN Len(files[fi].cols) ELSE IF i = fx THEN col - 1 ELSE 0

\* Every format adds up the same columns, from the first one on.
SumsInv ==
  /\ facc \in [1 .. N -> Acc]
  /\ phase = "column" => \A i \in 1 .. N :
       /\ facc[i].ss = SumsUpTo(RawSizes(files[fi].cols))[Seen(i)]
       /\ facc[i].cs = IF sw.encode THEN SumsUpTo(PackedSizes(files[fi].cols))[Seen(i)] ELSE 0

\* What a record says of a format: the bytes of all columns of its file, and
\* the verdicts of these columns alone.
Tells(rec, i) ==
  LET cols == input.files[rec.file].cols
  IN  /\ rec.fmts[i].ss = Total(RawSizes(cols))
      /\ rec.fmts[i].cs = IF sw.encode THEN Total(PackedSizes(cols)) ELSE 0
      /\ rec.fmts[i].ok <=> <<rec.file, i>> \notin bad

\* A record is complete and tells of its own file.
RecordInv ==
  \A k \in 1 .. Len(records) :
    /\ Len(records[k].fmts) = N
    /\ \A i \in 1 .. N :
         /\ Tells(records[k], i)
         /\ records[k].fmts[i].ss = records[k].ss
         /\ records[k].fmts[i].console = ConsoleCheck(records[k].fmts[i].ok)

\* No file but those passed and the one under way has failed to verify.
VerdictInv ==
  /\ bad \subseteq (1 .. Len(input.files)) \X (1 .. N)
  /\ \A p \in bad : p[1] <= fi /\ (phase \in {"collect", "file"} => p[1] < fi)
  /\ phase = "column" => \A i \in 1 .. N : facc[i].ok <=> <<fi, i>> \notin bad

\* The CSV file is made of the records, when all there are have been made.
CsvInv ==
  /\ csv.state \in {"absent", "written", "failed"}
  /\ phase \in {"collect", "file", "column"} => csv.state = "absent"
  /\ csv.state = "written" => csv.rows = CsvRows

BatchInv ==
  PlaceInv /\ FailuresInv /\ ExitInv /\ OrderInv /\ SumsInv /\ RecordInv /\ VerdictInv /\ CsvInv

-----------------------------------------------------------------------------
(* Recursive functions on 0 .. L.  Where an induction is meant, a least      *)
(* counterexample is taken.                                                  *)

\* The order of the natural numbers as a relation.
Below == {p \in Nat \X Nat : p[1] < p[2]}

\* Every set of natural numbers that is not empty has a least element: where an
\* induction is meant, a least counterexample is taken.
LEMMA LeastNumber ==
  ASSUME NEW T, T \subseteq Nat, T # {}
  PROVE  \E n \in T : \A m \in T : n <= m
  <1>1. IsWellFoundedOn(Below, Nat)
    BY NatLessThanWellFounded DEF OpToRel, Below
  <1>2. PICK n \in T : \A m \in T : ~ (<<m, n>> \in Below)
    BY <1>1, WFMin
  <1>3. ASSUME NEW m \in T PROVE n <= m
    <2>1. <<m, n>> \notin Below
      BY <1>2
    <2>2. m \in Nat /\ n \in Nat
      OBVIOUS
    <2> QED BY <2>1, <2>2 DEF Below
  <1> QED BY <1>3


\* f begins with base, and each of its next L values comes from the one before.
Recurs(f, base, step, L) ==
  f = [k \in 0 .. L |-> IF k = 0 THEN base ELSE step[k][f[k - 1]]]

\* The values of step are in A again.
Keeps(step, A, L) == \A k \in 1 .. L : \A x \in A : step[k][x] \in A

\* There is such a function for every L: one for n - 1 is made into one for n.
LEMMA RecursionExists ==
  ASSUME NEW base, NEW step, NEW L \in Nat
  PROVE  \E f : Recurs(f, base, step, L)
  <1> DEFINE Bad == {n \in Nat : ~ \E f : Recurs(f, base, step, n)}
  <1>1. ASSUME Bad # {} PROVE FALSE
    <2>1. PICK n \in Bad : \A m \in Bad : n <= m
      <3>1. Bad \subseteq Nat
        OBVIOUS
      <3> HIDE DEF Bad
      <3> QED BY <1>1, <3>1, LeastNumber
    <2>2. CASE n = 0
      <3>1. Recurs([k \in 0 .. 0 |-> base], base, step, 0)
        BY DEF Recurs
      <3> QED BY <2>2, <3>1
    <2>3. CASE n # 0
      <3>1. n \in Nat /\ n - 1 \in Nat /\ n - 1 \notin Bad
        BY <2>1, <2>3
      <3>2. PICK f : Recurs(f, base, step, n - 1)
        BY <3>1
      <3>3. \A k \in 0 .. n - 1 : f[k] = IF k = 0 THEN base ELSE step[k][f[k - 1]]
        BY <3>2 DEF Recurs
      <3>4. PICK g : g = [k \in 0 .. n |-> IF k = n THEN step[n][f[n - 1]] ELSE f[k]]
        OBVIOUS
      <3>5. \A k \in 0 .. n : g[k] = IF k = 0 THEN base ELSE step[k][g[k - 1]]
        <4> TAKE k \in 0 .. n
        <4>1. CASE k = n
          <5>1. k - 1 \in 0 .. n /\ k - 1 # n /\ k # 0
            BY <2>3, <3>1, <4>1
          <5> QED BY <3>4, <4>1, <5>1
        <4>2. CASE k # n
          <5>1. k \in 0 .. n - 1 /\ (k # 0 => k - 1 \in 0 .. n /\ k - 1 # n)
            BY <3>1, <4>2
          <5> QED BY <3>3, <3>4, <4>2, <5>1
        <4> QED BY <4>1, <4>2
      <3>6. Recurs(g, base, step, n)
        <4>1. g = [k \in 0 .. n |-> g[k]]
          BY <3>4
        <4> HIDE DEF Bad
        <4> QED BY <3>5, <4>1 DEF Recurs
      <3> QED BY <2>1, <3>6
    <2> QED BY <2>2, <2>3
  <1> QED BY <1>1

\* Its values are of the kind that base is of and that step keeps.
LEMMA RecursionHasItsType ==
  ASSUME NEW A, NEW base \in A, NEW L \in Nat, NEW step, NEW f,
         Recurs(f, base, step, L), Keeps(step, A, L)
  PROVE  /\ f \in [0 .. L -> A] /\ f[0] = base
         /\ \A k \in 1 .. L : f[k] = step[k][f[k - 1]]
  <1> DEFINE Bad == {n \in 0 .. L : f[n] \notin A}
  <1>1. \A k \in 0 .. L : f[k] = IF k = 0 THEN base ELSE step[k][f[k - 1]]
    BY DEF Recurs
  <1>2. ASSUME Bad # {} PROVE FALSE
    <2>1. PICK n \in Bad : \A m \in Bad : n <= m
      <3>1. Bad \subseteq Nat
        OBVIOUS
      <3> HIDE DEF Bad
      <3> QED BY <1>2, <3>1, LeastNumber
    <2>2. n # 0
      BY <1>1, <2>1
    <2>3. n \in 1 .. L /\ n - 1 \in 0 .. L /\ n - 1 \notin Bad
      BY <2>1, <2>2
    <2>4. f[n] = step[n][f[n - 1]] /\ f[n - 1] \in A
      BY <1>1, <2>2, <2>3
    <2> QED BY <2>1, <2>3, <2>4 DEF Keeps
  <1>3. f = [k \in 0 .. L |-> f[k]]
    BY DEF Recurs
  <1>4. 0 \in 0 .. L /\ \A k \in 1 .. L : k \in 0 .. L /\ k # 0
    OBVIOUS
  <1> QED BY <1>1, <1>2, <1>3, <1>4


\* SumsUpTo adds number by number.
LEMMA SumsUpToAdds ==
  ASSUME NEW numbers \in Seq(Nat)
  PROVE  /\ SumsUpTo(numbers) \in [0 .. Len(numbers) -> Nat] /\ SumsUpTo(numbers)[0] = 0
         /\ \A n \in 1 .. Len(numbers) :
              SumsUpTo(numbers)[n] = SumsUpTo(numbers)[n - 1] + numbers[n]
  <1>1. PICK L \in Nat : L = Len(numbers) /\ \A k \in 1 .. L : numbers[k] \in Nat
    BY LenProperties, ElementOfSeq
  <1>2. PICK sums : sums = SumsUpTo(numbers)
    OBVIOUS
  <1> DEFINE step == [k \in 1 .. L |-> [x \in Nat \cup {sums[n] : n \in 0 .. L} |-> x + numbers[k]]]
  <1>3. \A k \in 1 .. L : \A x \in Nat \cup {sums[n] : n \in 0 .. L} : step[k][x] = x + numbers[k]
    OBVIOUS
  <1>4. Keeps(step, Nat, L)
    <2> SUFFICES ASSUME NEW k \in 1 .. L, NEW x \in Nat PROVE step[k][x] \in Nat
      BY DEF Keeps
    <2>1. step[k][x] = x + numbers[k] /\ numbers[k] \in Nat
      BY <1>1, <1>3
    <2> QED BY <2>1
  <1>5. \A k \in 1 .. L : k - 1 \in 0 .. L
    OBVIOUS
  <1> HIDE DEF step
  <1>6. sums = [k \in 0 .. L |-> IF k = 0 THEN 0 ELSE sums[k - 1] + numbers[k]]
    <2>1. PICK f : Recurs(f, 0, step, L)
      BY RecursionExists
    <2>2. f \in [0 .. L -> Nat]
      BY <1>4, <2>1, RecursionHasItsType
    <2>3. \A k \in 1 .. L : step[k][f[k - 1]] = f[k - 1] + numbers[k]
      BY <1>3, <1>5, <2>2
    <2>4. f = [k \in 0 .. L |-> IF k = 0 THEN 0 ELSE f[k - 1] + numbers[k]]
      <3>1. \A k \in 0 .. L : (IF k = 0 THEN 0 ELSE step[k][f[k - 1]])
                                = IF k = 0 THEN 0 ELSE f[k - 1] + numbers[k]
        BY <2>3
      <3> QED BY <2>1, <3>1 DEF Recurs
    <2> QED BY <1>1, <1>2, <2>4 DEF SumsUpTo
  <1>7. \A k \in 1 .. L : step[k][sums[k - 1]] = sums[k - 1] + numbers[k]
    BY <1>3, <1>5
  <1>8. Recurs(sums, 0, step, L)
    <2>1. \A k \in 0 .. L : (IF k = 0 THEN 0 ELSE sums[k - 1] + numbers[k])
                              = IF k = 0 THEN 0 ELSE step[k][sums[k - 1]]
      BY <1>7
    <2> QED BY <1>6, <2>1 DEF Recurs
  <1>9. sums \in [0 .. L -> Nat]
    BY <1>4, <1>8, RecursionHasItsType
  <1>10. sums[0] = 0 /\ \A k \in 1 .. L : sums[k] = sums[k - 1] + numbers[k]
    <2>1. 0 \in 0 .. L /\ \A k \in 1 .. L : k \in 0 .. L /\ k # 0
      OBVIOUS
    <2> QED BY <1>6, <2>1
  <1> QED BY <1>1, <1>2, <1>9, <1>10

Name == {FormatTable[n] : n \in 1 .. 6}

\* What the loop over the configured ids keeps is a list of formats.
LEMMA KnownFormatsAreAList ==
  ASSUME NEW ids \in Seq(Int)
  PROVE  KnownFormats(ids) \in Seq(Name)
  <1>1. PICK L \in Nat : L = Len(ids) /\ \A k \in 1 .. L : ids[k] \in Int
    BY LenProperties, ElementOfSeq
  <1>2. PICK known : known = CHOOSE f : f = [n \in 0 .. Len(ids) |->
           IF n = 0 THEN <<>>
           ELSE IF ids[n] \in 0 .. Len(FormatTable) - 1
                THEN Append(f[n - 1], FormatTable[ids[n] + 1]) ELSE f[n - 1]]
    OBVIOUS
  <1>3. \A n \in 0 .. Len(FormatTable) - 1 : FormatTable[n + 1] \in Name
    <2>1. Len(FormatTable) = 6
      BY DEF FormatTable
    <2>2. \A n \in 0 .. 5 : n + 1 \in 1 .. 6
      OBVIOUS
    <2> QED BY <2>1, <2>2 DEF Name
  <1> DEFINE Keep(k, x) == IF ids[k] \in 0 .. Len(FormatTable) - 1
                           THEN Append(x, FormatTable[ids[k] + 1]) ELSE x
             step == [k \in 1 .. L |-> [x \in Seq(Name) \cup {known[n] : n \in 0 .. L} |-> Keep(k, x)]]
  <1>4. \A k \in 1 .. L : \A x \in Seq(Name) \cup {known[n] : n \in 0 .. L} : step[k][x] = Keep(k, x)
    OBVIOUS
  <1>5. \A k \in 1 .. L : \A x \in Seq(Name) : Keep(k, x) \in Seq(Name)
    BY <1>3, AppendProperties
  <1>6. <<>> \in Seq(Name) /\ \A k \in 1 .. L : k - 1 \in 0 .. L
    OBVIOUS
  <1>7. Keeps(step, Seq(Name), L)
    <2> SUFFICES ASSUME NEW k \in 1 .. L, NEW x \in Seq(Name) PROVE step[k][x] \in Seq(Name)
      BY DEF Keeps
    <2>1. step[k][x] = Keep(k, x)
      BY <1>4
    <2> HIDE DEF step, Keep
    <2> QED BY <1>5, <2>1
  <1> HIDE DEF step
  <1>8. known = [k \in 0 .. L |-> IF k = 0 THEN <<>> ELSE Keep(k, known[k - 1])]
    <2>1. PICK f : Recurs(f, <<>>, step, L)
      BY RecursionExists
    <2>2. f \in [0 .. L -> Seq(Name)]
      BY <1>6, <1>7, <2>1, RecursionHasItsType
    <2>3. \A k \in 1 .. L : step[k][f[k - 1]] = Keep(k, f[k - 1])
      BY <1>4, <1>6, <2>2
    <2>4. f = [k \in 0 .. L |-> IF k = 0 THEN <<>> ELSE Keep(k, f[k - 1])]
      <3>1. \A k \in 0 .. L : (IF k = 0 THEN <<>> ELSE step[k][f[k - 1]])
                                = IF k = 0 THEN <<>> ELSE Keep(k, f[k - 1])
        BY <2>3
      <3> HIDE DEF Keep
      <3> QED BY <2>1, <3>1 DEF Recurs
    <2> QED BY <1>1, <1>2, <2>4
  <1>9. \A k \in 1 .. L : step[k][known[k - 1]] = Keep(k, known[k - 1])
    BY <1>4, <1>6
  <1>10. Recurs(known, <<>>, step, L)
    <2>1. \A k \in 0 .. L : (IF k = 0 THEN <<>> ELSE Keep(k, known[k - 1]))
                              = IF k = 0 THEN <<>> ELSE step[k][known[k - 1]]
      BY <1>9
    <2> HIDE DEF Keep
    <2> QED BY <1>8, <2>1 DEF Recurs
  <1>11. known \in [0 .. L -> Seq(Name)]
    BY <1>6, <1>7, <1>10, RecursionHasItsType
  <1>12. KnownFormats(ids) = known[Len(ids)]
    BY <1>2 DEF KnownFormats
  <1> QED BY <1>1, <1>11, <1>12

\* A run has at least one format.
LEMMA FormatListFacts ==
  ASSUME NEW ids \in FormatIds
  PROVE  Len(FormatList(ids)) \in Nat \ {0}
  <1>1. KnownFormats(ids) \in Seq(Name)
    BY BatchAssumption, KnownFormatsAreAList
  <1>2. Len(FormatTable) = 6
    BY DEF FormatTable
  <1>3. KnownFormats(ids) # <<>> => Len(KnownFormats(ids)) # 0
    BY <1>1, EmptySeq
  <1>4. Len(KnownFormats(ids)) \in Nat
    BY <1>1, LenProperties
  <1> QED BY <1>2, <1>3, <1>4 DEF FormatList

-----------------------------------------------------------------------------
(* What every step can rely on *)

\* The list of files and the lengths of everything the loops run over.
LEMMA FilesFacts ==
  ASSUME BatchInv
  PROVE  /\ input.files \in Seq(File) /\ Len(input.files) \in Nat
         /\ \A n \in 1 .. Len(input.files) :
              /\ input.files[n].state \in {"missing", "unreadable", "layerless", "good"}
              /\ input.files[n].cols \in Seq(Column) /\ Len(input.files[n].cols) \in Nat
         /\ Len(records) \in Nat /\ fi \in Nat /\ fx \in Nat /\ N \in Nat
  <1>1. input.files \in Seq(File)
    BY BatchAssumption DEF BatchInv, PlaceInv
  <1>2. Len(input.files) \in Nat
    BY <1>1, LenProperties
  <1>3. ASSUME NEW n \in 1 .. Len(input.files)
        PROVE  /\ input.files[n].state \in {"missing", "unreadable", "layerless", "good"}
               /\ input.files[n].cols \in Seq(Column) /\ Len(input.files[n].cols) \in Nat
    <2>1. input.files[n] \in File
      BY <1>1, ElementOfSeq
    <2>2. input.files[n].cols \in Seq(Column)
      BY <2>1 DEF File
    <2> QED BY <2>1, <2>2, LenProperties DEF File
  <1>4. Len(records) \in Nat
    BY LenProperties DEF BatchInv, OrderInv
  <1> QED BY <1>1, <1>2, <1>3, <1>4 DEF BatchInv, PlaceInv

\* The sizes of the columns of a file are sums that SumsUpTo adds up.
LEMMA SizesFacts ==
  ASSUME BatchInv, NEW n \in 1 .. Len(input.files), NEW cols, cols = input.files[n].cols
  PROVE  /\ cols \in Seq(Column) /\ Len(cols) \in Nat
         /\ RawSizes(cols) \in Seq(Nat) /\ Len(RawSizes(cols)) = Len(cols)
         /\ PackedSizes(cols) \in Seq(Nat) /\ Len(PackedSizes(cols)) = Len(cols)
         /\ \A c \in 1 .. Len(cols) :
              /\ cols[c] \in Column
              /\ RawSizes(cols)[c] = cols[c].raw /\ PackedSizes(cols)[c] = cols[c].packed
  <1>1. cols \in Seq(Column) /\ Len(cols) \in Nat
    BY FilesFacts
  <1>2. \A c \in 1 .. Len(cols) : cols[c] \in Column
    BY <1>1, ElementOfSeq
  <1>3. \A c \in 1 .. Len(cols) : cols[c].raw \in Nat /\ cols[c].packed \in Nat
    BY <1>2 DEF Column
  <1> QED BY <1>1, <1>2, <1>3 DEF RawSizes, PackedSizes

\* Outside a file, only the types of the accumulators matter.
LEMMA SumsStay ==
  ASSUME SumsInv, UNCHANGED <<fmts, facc>>, phase' # "column"
  PROVE  SumsInv'
  BY DEF SumsInv, N, Acc

\* Records that nobody touches stay complete and true.
LEMMA RecordsStay ==
  ASSUME RecordInv, UNCHANGED <<input, fmts, sw, records, bad>>
  PROVE  RecordInv'
  <1>1. N' = N /\ records' = records
    BY DEF N
  <1>2. \A k \in 1 .. Len(records), i \in 1 .. N : Tells(records[k], i)' <=> Tells(records[k], i)
    BY DEF Tells
  <1>3. \A k \in 1 .. Len(records), i \in 1 .. N :
          ConsoleCheck(records[k].fmts[i].ok)' = ConsoleCheck(records[k].fmts[i].ok)
    BY DEF ConsoleCheck
  <1>4. SUFFICES ASSUME NEW k \in 1 .. Len(records)
                 PROVE  /\ Len(records[k].fmts) = N
                        /\ \A i \in 1 .. N :
                             /\ Tells(records[k], i)'
                             /\ records[k].fmts[i].ss = records[k].ss
                             /\ records[k].fmts[i].console = ConsoleCheck(records[k].fmts[i].ok)'
    BY <1>1 DEF RecordInv
  <1> QED BY <1>2, <1>3 DEF RecordInv

\* The records stay those of the files passed.
LEMMA OrderStays ==
  ASSUME OrderInv, UNCHANGED <<input, fmts, fi, records>>
  PROVE  OrderInv'
  <1>1. RecordSet' = RecordSet
    BY DEF RecordSet, Result, N
  <1> QED BY <1>1 DEF OrderInv

\* Nothing has been read, counted or written before the first step.
LEMMA InitHolds ==
  ASSUME Init
  PROVE  BatchInv
  <1>1. N \in Nat \ {0} /\ Len(<<>>) = 0
    BY FormatListFacts, EmptySeq DEF Init, N
  <1>2. Len(input.files) \in Nat
    BY BatchAssumption, LenProperties DEF Init
  <1>3. PlaceInv
    BY <1>1, <1>2 DEF Init, PlaceInv
  <1>4. FailuresInv /\ ExitInv
    BY DEF Init, FailuresInv, ExitInv
  <1>5. OrderInv
    BY <1>1, EmptySeq DEF Init, OrderInv
  <1>6. SumsInv
    BY <1>1 DEF Init, SumsInv, N, Acc, NoBytes
  <1>7. RecordInv
    BY <1>1 DEF Init, RecordInv
  <1>8. VerdictInv
    BY DEF Init, VerdictInv
  <1>9. CsvInv
    BY DEF Init, CsvInv
  <1> QED BY <1>3, <1>4, <1>5, <1>6, <1>7, <1>8, <1>9 DEF BatchInv

\* Nothing of the state is touched.
LEMMA StutterPreserves ==
  ASSUME BatchInv, UNCHANGED vars
  PROVE  BatchInv'
  <1> USE DEF vars, given, indices
  <1>1. PlaceInv' /\ FailuresInv' /\ ExitInv' /\ OrderInv'
    BY OrderStays DEF BatchInv, PlaceInv, FailuresInv, ExitInv, N
  <1>2. SumsInv'
    BY DEF BatchInv, SumsInv, Seen, N, Acc
  <1>3. RecordInv'
    BY RecordsStay DEF BatchInv
  <1>4. VerdictInv'
    BY DEF BatchInv, VerdictInv, N
  <1>5. CsvInv'
    BY DEF BatchInv, CsvInv, CsvRows, CsvRow, CsvCheck
  <1> QED BY <1>1, <1>2, <1>3, <1>4, <1>5 DEF BatchInv

-----------------------------------------------------------------------------
(* The steps *)

\* The list is the input's; without one the program has exit code 1.
LEMMA CollectFilesPreserves ==
  ASSUME BatchInv, CollectFiles
  PROVE  BatchInv'
  <1> USE DEF given, indices
  <1>0. /\ phase = "collect" /\ files' = input.files /\ fi = 1 /\ failures = 0
        /\ UNCHANGED <<input, fmts, sw, fi, fx, col, facc, failures, records, csv, bad>>
        /\ phase' \in {"aborted", "exited", "file"}
        /\ phase' = "exited" => exitCode' = 1 /\ input.files = <<>>
        /\ phase' # "exited" => exitCode' = exitCode
    BY BatchAssumption DEF CollectFiles, Return, BatchInv, PlaceInv, FailuresInv
  <1>1. PlaceInv'
    BY <1>0, FilesFacts DEF BatchInv, PlaceInv, N
  <1>2. FailuresInv'
    BY <1>0 DEF BatchInv, FailuresInv
  <1>3. ExitInv'
    BY <1>0 DEF BatchInv, ExitInv
  <1>4. OrderInv'
    BY <1>0, OrderStays DEF BatchInv
  <1>5. SumsInv' /\ RecordInv'
    BY <1>0, SumsStay, RecordsStay DEF BatchInv
  <1>6. VerdictInv'
    BY <1>0 DEF BatchInv, VerdictInv, N
  <1>7. CsvInv'
    BY <1>0 DEF BatchInv, CsvInv
  <1> QED BY <1>1, <1>2, <1>3, <1>4, <1>5, <1>6, <1>7 DEF BatchInv

\* A good file starts with empty sums and verdicts, any other is passed over.
LEMMA OpenFilePreserves ==
  ASSUME BatchInv, OpenFile
  PROVE  BatchInv'
  <1> USE DEF given
  <1>0. /\ phase = "file" /\ fi <= Len(files) /\ files = input.files
        /\ UNCHANGED <<input, fmts, sw, files, records, csv, exitCode, bad>>
    BY DEF OpenFile, BatchInv, PlaceInv
  <1>1. CASE files[fi].state = "good"
    <2>0. /\ phase' = "column" /\ fx' = 1 /\ col' = 1 /\ facc' = FreshAcc
          /\ UNCHANGED <<fi, failures>>
      BY <1>1 DEF OpenFile
    <2>1. PlaceInv'
      BY <1>0, <1>1, <2>0, FilesFacts DEF BatchInv, PlaceInv, N
    <2>2. FailuresInv' /\ ExitInv' /\ OrderInv'
      BY <1>0, <2>0, OrderStays DEF BatchInv, FailuresInv, ExitInv
    <2>3. SumsInv'
      <3>1. facc' \in [1 .. N' -> Acc] /\ \A i \in 1 .. N' : facc'[i].ss = 0 /\ facc'[i].cs = 0
        BY <1>0, <2>0 DEF FreshAcc, NoBytes, Acc, N
      <3>2. fi \in 1 .. Len(input.files)
        BY <1>0, FilesFacts DEF BatchInv, PlaceInv
      <3>3. PICK cols : cols = files[fi].cols
        OBVIOUS
      <3>4. SumsUpTo(RawSizes(cols))[0] = 0 /\ SumsUpTo(PackedSizes(cols))[0] = 0
        BY <1>0, <3>2, <3>3, SizesFacts, SumsUpToAdds
      <3>5. \A i \in 1 .. N' : Seen(i)' = 0
        BY <1>0, <2>0 DEF Seen, N
      <3>6. files'[fi'].cols = cols
        BY <1>0, <2>0, <3>3
      <3> QED BY <1>0, <3>1, <3>4, <3>5, <3>6 DEF SumsInv
    <2>4. RecordInv'
      BY <1>0, RecordsStay DEF BatchInv
    <2>5. VerdictInv'
      <3>1. \A i \in 1 .. N' : facc'[i].ok = TRUE
        BY <1>0, <2>0 DEF FreshAcc, NoBytes, N
      <3>2. \A i : <<fi, i>> \notin bad
        BY <1>0, FilesFacts DEF BatchInv, VerdictInv
      <3> QED BY <1>0, <2>0, <3>1, <3>2 DEF BatchInv, VerdictInv, N
    <2>6. CsvInv'
      BY <1>0, <2>0 DEF BatchInv, CsvInv, CsvRows, CsvRow, CsvCheck
    <2> QED BY <2>1, <2>2, <2>3, <2>4, <2>5, <2>6 DEF BatchInv
  <1>2. CASE files[fi].state # "good"
    <2>0. /\ fi' = fi + 1
          /\ failures' = IF LoadFailure(files[fi].state) THEN failures + 1 ELSE failures
          /\ UNCHANGED <<phase, fx, col, facc>>
      BY <1>2 DEF OpenFile, PassOver
    <2>1. PlaceInv'
      BY <1>0, <2>0, FilesFacts DEF BatchInv, PlaceInv, N
    <2>2. FailuresInv'
      <3>1. \A n \in 1 .. fi' - 1 : n \in 1 .. fi - 1 \/ n = fi
        BY <2>0, FilesFacts
      <3>2. fi \in 1 .. fi' - 1 /\ \A n \in 1 .. fi - 1 : n \in 1 .. fi' - 1
        BY <2>0 DEF BatchInv, PlaceInv
      <3>3. failures \in Nat
        BY FilesFacts DEF BatchInv, FailuresInv
      <3>4. failures' \in 0 .. fi' - 1
        BY <2>0, FilesFacts DEF BatchInv, FailuresInv
      <3>5. CASE LoadFailure(files[fi].state)
        BY <1>0, <2>0, <3>2, <3>3, <3>4, <3>5 DEF FailuresInv
      <3>6. CASE ~LoadFailure(files[fi].state)
        BY <1>0, <2>0, <3>1, <3>2, <3>4, <3>6 DEF BatchInv, FailuresInv
      <3> QED BY <3>5, <3>6
    <2>3. ExitInv'
      BY <1>0, <2>0 DEF BatchInv, ExitInv
    <2>4. OrderInv'
      <3>1. \A n \in 1 .. fi' - 1 : n \in 1 .. fi - 1 \/ n = fi
        BY <2>0, FilesFacts
      <3>2. \A n \in 1 .. fi - 1 : n \in 1 .. fi' - 1
        BY <2>0, FilesFacts
      <3>3. RecordSet' = RecordSet
        BY <1>0 DEF RecordSet, Result, N
      <3> QED BY <1>0, <1>2, <3>1, <3>2, <3>3 DEF BatchInv, OrderInv
    <2>5. SumsInv' /\ RecordInv'
      BY <1>0, <2>0, SumsStay, RecordsStay DEF BatchInv
    <2>6. VerdictInv'
      <3>1. \A p \in bad : p[1] < fi'
        BY <1>0, <2>0, FilesFacts DEF BatchInv, VerdictInv
      <3> QED BY <1>0, <2>0, <3>1, FilesFacts DEF BatchInv, VerdictInv, N
    <2>7. CsvInv'
      BY <1>0, <2>0 DEF BatchInv, CsvInv, CsvRows, CsvRow, CsvCheck
    <2> QED BY <2>1, <2>2, <2>3, <2>4, <2>5, <2>6, <2>7 DEF BatchInv
  <1> QED BY <1>1, <1>2

\* What a column adds to the accumulator of its format.
LEMMA ColumnAdds ==
  ASSUME BatchInv, NEW allOk \in Verdicts(fmts[fx]), phase = "column", fx <= N,
         col <= Len(files[fi].cols), facc' = [facc EXCEPT ![fx] = AddColumn(@, files[fi].cols[col], allOk)]
  PROVE  /\ facc' \in [1 .. N -> Acc] /\ fx \in 1 .. N
         /\ facc'[fx].ss = facc[fx].ss + files[fi].cols[col].raw
         /\ facc'[fx].cs = IF sw.encode THEN facc[fx].cs + files[fi].cols[col].packed ELSE facc[fx].cs
         /\ facc'[fx].ok = (facc[fx].ok /\ allOk)
         /\ \A i \in 1 .. N : i # fx => facc'[i] = facc[i]
  <1>1. /\ files = input.files /\ fi \in 1 .. Len(input.files) /\ fx \in 1 .. N
        /\ col \in 1 .. Len(files[fi].cols) /\ facc \in [1 .. N -> Acc]
    BY FilesFacts DEF BatchInv, PlaceInv, SumsInv
  <1>2. files[fi].cols[col] \in Column
    BY <1>1, FilesFacts, ElementOfSeq
  <1>3. files[fi].cols[col].raw \in Nat /\ files[fi].cols[col].packed \in Nat
    BY <1>2 DEF Column
  <1>4. allOk \in BOOLEAN /\ (~(DoDecode /\ sw.check) => allOk)
    BY DEF Verdicts
  <1>5. facc[fx] \in Acc
    BY <1>1
  <1>6. /\ AddColumn(facc[fx], files[fi].cols[col], allOk) \in Acc
        /\ AddColumn(facc[fx], files[fi].cols[col], allOk).ss = facc[fx].ss + files[fi].cols[col].raw
        /\ AddColumn(facc[fx], files[fi].cols[col], allOk).cs
             = IF sw.encode THEN facc[fx].cs + files[fi].cols[col].packed ELSE facc[fx].cs
    <2>1. facc[fx].ss + files[fi].cols[col].raw \in Nat
      BY <1>3, <1>5, SMTT(30) DEF Acc
    <2>2. facc[fx].cs + (IF sw.encode THEN files[fi].cols[col].packed ELSE 0) \in Nat
      BY <1>3, <1>5 DEF Acc
    <2>3. (facc[fx].ok /\ (DoDecode /\ sw.check => allOk)) \in BOOLEAN
      BY Zenon
    <2>4. AddColumn(facc[fx], files[fi].cols[col], allOk) \in Acc
      BY <2>1, <2>2, <2>3 DEF AddColumn, Acc
    <2>5. AddColumn(facc[fx], files[fi].cols[col], allOk).ss = facc[fx].ss + files[fi].cols[col].raw
      BY DEF AddColumn
    <2>6. facc[fx].cs \in Nat
      BY <1>5 DEF Acc
    <2>7. AddColumn(facc[fx], files[fi].cols[col], allOk).cs
             = facc[fx].cs + (IF sw.encode THEN files[fi].cols[col].packed ELSE 0)
      BY DEF AddColumn
    <2>8. facc[fx].cs + (IF sw.encode THEN files[fi].cols[col].packed ELSE 0)
             = IF sw.encode THEN facc[fx].cs + files[fi].cols[col].packed ELSE facc[fx].cs
      BY <2>6
    <2> QED BY <2>4, <2>5, <2>7, <2>8
  <1>7. AddColumn(facc[fx], files[fi].cols[col], allOk).ok = (facc[fx].ok /\ allOk)
    BY <1>4, <1>5 DEF AddColumn, Acc
  <1> HIDE DEF Acc
  <1> QED BY <1>1, <1>6, <1>7

\* The first format extends the partial sums, the others walk along them.
LEMMA RunColumnPreserves ==
  ASSUME BatchInv, RunColumn
  PROVE  BatchInv'
  <1> USE DEF given
  <1>0. PICK allOk \in Verdicts(fmts[fx]) :
          /\ facc' = [facc EXCEPT ![fx] = AddColumn(@, files[fi].cols[col], allOk)]
          /\ bad' = IF allOk THEN bad ELSE bad \cup {<<fi, fx>>}
    BY DEF RunColumn
  <1>1. /\ phase = "column" /\ fx <= N /\ col <= Len(files[fi].cols) /\ col' = col + 1
        /\ UNCHANGED <<input, fmts, sw, files, phase, fi, fx, failures, records, csv, exitCode>>
    BY DEF RunColumn, N
  <1>2. /\ facc' \in [1 .. N -> Acc] /\ fx \in 1 .. N
        /\ facc'[fx].ss = facc[fx].ss + files[fi].cols[col].raw
        /\ facc'[fx].cs = IF sw.encode THEN facc[fx].cs + files[fi].cols[col].packed ELSE facc[fx].cs
        /\ facc'[fx].ok = (facc[fx].ok /\ allOk)
        /\ \A i \in 1 .. N : i # fx => facc'[i] = facc[i]
    BY <1>0, <1>1, ColumnAdds
  <1>3. /\ files = input.files /\ fi \in 1 .. Len(input.files) /\ N' = N
        /\ col \in Nat \ {0} /\ Len(files[fi].cols) \in Nat
    BY <1>1, FilesFacts DEF BatchInv, PlaceInv, N
  <1>4. PlaceInv'
    BY <1>1, <1>3 DEF BatchInv, PlaceInv
  <1>5. FailuresInv' /\ ExitInv' /\ OrderInv'
    BY <1>1, OrderStays DEF BatchInv, FailuresInv, ExitInv
  <1>6. SumsInv'
    <2>1. PICK cols : cols = files[fi].cols
      OBVIOUS
    <2>2. /\ col \in 1 .. Len(cols) /\ RawSizes(cols)[col] = cols[col].raw
          /\ PackedSizes(cols)[col] = cols[col].packed
      BY <1>1, <1>3, <2>1, SizesFacts, SMTT(30)
    <2>3. /\ SumsUpTo(RawSizes(cols))[col] = SumsUpTo(RawSizes(cols))[col - 1] + cols[col].raw
          /\ SumsUpTo(PackedSizes(cols))[col] = SumsUpTo(PackedSizes(cols))[col - 1] + cols[col].packed
      BY <1>3, <2>1, <2>2, SizesFacts, SumsUpToAdds
    <2>4. \A i \in 1 .. N : /\ facc[i].ss = SumsUpTo(RawSizes(cols))[Seen(i)]
                             /\ facc[i].cs = IF sw.encode THEN SumsUpTo(PackedSizes(cols))[Seen(i)] ELSE 0
      BY <1>1, <2>1 DEF BatchInv, SumsInv
    <2>5. \A i \in 1 .. N : i # fx => Seen(i)' = Seen(i)
      BY <1>1 DEF Seen
    <2>6. Seen(fx) = col - 1 /\ Seen(fx)' = col
      BY <1>1, <1>2, <1>3 DEF Seen
    <2>7. /\ facc'[fx].ss = SumsUpTo(RawSizes(cols))[col]
          /\ facc'[fx].cs = IF sw.encode THEN SumsUpTo(PackedSizes(cols))[col] ELSE 0
      BY <1>2, <2>1, <2>3, <2>4, <2>6
    <2>8. \A i \in 1 .. N : /\ facc'[i].ss = SumsUpTo(RawSizes(cols))[Seen(i)']
                             /\ facc'[i].cs = IF sw.encode THEN SumsUpTo(PackedSizes(cols))[Seen(i)'] ELSE 0
      <3> TAKE i \in 1 .. N
      <3>1. CASE i = fx
        <4>1. Seen(i)' = col
          BY <1>1, <1>2, <1>3, <3>1 DEF Seen
        <4> QED BY <2>7, <3>1, <4>1
      <3>2. CASE i # fx
        BY <1>2, <2>4, <2>5, <3>2
      <3> QED BY <3>1, <3>2
    <2>9. files'[fi'].cols = cols /\ sw' = sw
      BY <1>1, <2>1
    <2> QED BY <1>2, <1>3, <2>8, <2>9 DEF SumsInv
  <1>7. RecordInv'
    <2> SUFFICES ASSUME NEW k \in 1 .. Len(records), NEW i \in 1 .. N
                 PROVE  <<records[k].file, i>> \in bad' <=> <<records[k].file, i>> \in bad
      <3>1. ASSUME NEW k \in 1 .. Len(records), NEW i \in 1 .. N,
                   <<records[k].file, i>> \in bad' <=> <<records[k].file, i>> \in bad
            PROVE  Tells(records[k], i)' <=> Tells(records[k], i)
        BY <1>1, <3>1 DEF Tells
      <3> QED BY <1>1, <1>3, <3>1 DEF BatchInv, RecordInv, ConsoleCheck
    <2>1. records[k].file \in 1 .. fi - 1
      BY DEF BatchInv, OrderInv
    <2>2. records[k].file # fi
      BY <1>3, <2>1
    <2> QED BY <1>0, <2>2
  <1>8. VerdictInv'
    <2>1. bad' \subseteq (1 .. Len(input.files)) \X (1 .. N)
      BY <1>0, <1>2, <1>3 DEF BatchInv, VerdictInv
    <2>2. \A p \in bad' : p[1] <= fi
      BY <1>0, <1>3 DEF BatchInv, VerdictInv
    <2>3. ASSUME NEW i \in 1 .. N PROVE facc'[i].ok <=> <<fi, i>> \notin bad'
      <3>1. facc[i].ok <=> <<fi, i>> \notin bad
        BY <1>1 DEF BatchInv, VerdictInv
      <3>2. CASE i = fx
        BY <1>0, <1>2, <3>1, <3>2
      <3>3. CASE i # fx
        BY <1>0, <1>2, <3>1, <3>3
      <3> QED BY <3>2, <3>3
    <2> QED BY <1>1, <1>3, <2>1, <2>2, <2>3 DEF VerdictInv
  <1>9. CsvInv'
    BY <1>1 DEF BatchInv, CsvInv, CsvRows, CsvRow, CsvCheck
  <1> QED BY <1>4, <1>5, <1>6, <1>7, <1>8, <1>9 DEF BatchInv

\* A failing codec ends the program; what was recorded stays as it is.
LEMMA ColumnAbortsPreserves ==
  ASSUME BatchInv, ColumnAborts
  PROVE  BatchInv'
  <1> USE DEF given, indices
  <1>0. /\ phase = "column" /\ phase' = "aborted"
        /\ UNCHANGED <<input, fmts, sw, files, fi, fx, col, facc, failures, records, csv, exitCode, bad>>
    BY DEF ColumnAborts
  <1>1. PlaceInv'
    BY <1>0 DEF BatchInv, PlaceInv, N
  <1>2. FailuresInv' /\ ExitInv' /\ OrderInv'
    BY <1>0, OrderStays DEF BatchInv, FailuresInv, ExitInv
  <1>3. SumsInv' /\ RecordInv'
    BY <1>0, SumsStay, RecordsStay DEF BatchInv
  <1>4. VerdictInv'
    BY <1>0 DEF BatchInv, VerdictInv, N
  <1>5. CsvInv'
    BY <1>0 DEF BatchInv, CsvInv
  <1> QED BY <1>1, <1>2, <1>3, <1>4, <1>5 DEF BatchInv

\* The columns begin again: the finished format has the whole sum.
LEMMA NextFormatPreserves ==
  ASSUME BatchInv, NextFormat
  PROVE  BatchInv'
  <1> USE DEF given
  <1>0. /\ phase = "column" /\ fx <= N /\ col > Len(files[fi].cols) /\ fx' = fx + 1 /\ col' = 1
        /\ UNCHANGED <<input, fmts, sw, files, phase, fi, facc, failures, records, csv, exitCode, bad>>
        /\ N' = N
    BY DEF NextFormat, N
  <1>1. /\ files = input.files /\ fi \in 1 .. Len(input.files) /\ fx \in 1 .. N
        /\ Len(files[fi].cols) \in Nat /\ col = Len(files[fi].cols) + 1
    BY <1>0, FilesFacts DEF BatchInv, PlaceInv
  <1>2. PlaceInv'
    BY <1>0, <1>1 DEF BatchInv, PlaceInv
  <1>3. FailuresInv' /\ ExitInv' /\ OrderInv'
    BY <1>0, OrderStays DEF BatchInv, FailuresInv, ExitInv
  <1>4. SumsInv'
    <2>1. \A i \in 1 .. N : Seen(i)' = Seen(i)
      BY <1>0, <1>1 DEF Seen
    <2> QED BY <1>0, <2>1 DEF BatchInv, SumsInv
  <1>5. RecordInv'
    BY <1>0, RecordsStay DEF BatchInv
  <1>6. VerdictInv'
    BY <1>0 DEF BatchInv, VerdictInv
  <1>7. CsvInv'
    BY <1>0 DEF BatchInv, CsvInv, CsvRows, CsvRow, CsvCheck
  <1> QED BY <1>2, <1>3, <1>4, <1>5, <1>6, <1>7 DEF BatchInv

\* The record of the file that CloseFile makes.
NewRecord ==
  [file |-> fi, ss |-> facc[1].ss,
   fmts |-> [i \in 1 .. Len(fmts) |->
              [name |-> fmts[i], ss |-> facc[i].ss, cs |-> facc[i].cs,
               ok |-> facc[i].ok, console |-> ConsoleCheck(facc[i].ok)]]]

\* It has one result per format, all of one source size.
LEMMA NewRecordFacts ==
  ASSUME BatchInv, phase = "column", fx > N
  PROVE  /\ NewRecord \in RecordSet /\ Len(NewRecord.fmts) = N /\ NewRecord.file = fi
         /\ \A i \in 1 .. N :
              /\ Tells(NewRecord, i)
              /\ NewRecord.fmts[i].ss = NewRecord.ss
              /\ NewRecord.fmts[i].console = ConsoleCheck(NewRecord.fmts[i].ok)
  <1> DEFINE result(i) == [name |-> fmts[i], ss |-> facc[i].ss, cs |-> facc[i].cs,
                          ok |-> facc[i].ok, console |-> ConsoleCheck(facc[i].ok)]
  <1>1. N \in Nat \ {0} /\ facc \in [1 .. N -> Acc] /\ fi \in Nat
    BY FilesFacts DEF BatchInv, PlaceInv, SumsInv
  <1>3. ASSUME NEW i \in 1 .. N PROVE result(i) \in Result
    <2>2. facc[i] \in Acc
      BY <1>1
    <2>3. ConsoleCheck(facc[i].ok) \in {"", "OK", "FAIL"}
      BY DEF ConsoleCheck
    <2> QED BY <2>2, <2>3 DEF Acc, Result
  <1>4. NewRecord.fmts = [i \in 1 .. N |-> result(i)]
    BY DEF NewRecord, N
  <1>5. NewRecord.fmts \in [1 .. N -> Result]
    BY <1>3, <1>4
  <1>6. NewRecord.fmts \in Seq(Result) /\ Len(NewRecord.fmts) = N
    BY <1>1, <1>5
  <1>7. facc[1].ss \in Nat
    BY <1>1 DEF Acc
  <1>8. NewRecord \in RecordSet
    BY <1>1, <1>6, <1>7 DEF NewRecord, RecordSet
  <1>9. PICK cols : cols = files[fi].cols
    OBVIOUS
  <1>14. \A i \in 1 .. N : /\ facc[i].ss = Total(RawSizes(cols))
                            /\ facc[i].cs = IF sw.encode THEN Total(PackedSizes(cols)) ELSE 0
    <2>1. \A i \in 1 .. N : Seen(i) = Len(cols)
      BY <1>1, <1>9, FilesFacts DEF Seen
    <2>2. files = input.files /\ fi \in 1 .. Len(input.files)
      BY FilesFacts DEF BatchInv, PlaceInv
    <2>3. Len(RawSizes(cols)) = Len(cols) /\ Len(PackedSizes(cols)) = Len(cols)
      BY <1>9, <2>2, SizesFacts
    <2> QED BY <1>9, <2>1, <2>3 DEF BatchInv, SumsInv, Total
  <1>10. \A i \in 1 .. N : facc[i].ok <=> <<fi, i>> \notin bad
    BY DEF BatchInv, VerdictInv
  <1>11. NewRecord.file = fi /\ NewRecord.ss = facc[1].ss
    BY DEF NewRecord
  <1>12. ASSUME NEW i \in 1 .. N
         PROVE  /\ NewRecord.fmts[i].ss = facc[i].ss /\ NewRecord.fmts[i].ok = facc[i].ok
                /\ NewRecord.fmts[i].cs = facc[i].cs
                /\ NewRecord.fmts[i].console = ConsoleCheck(facc[i].ok)
    <2>1. NewRecord.fmts[i] = result(i)
      BY <1>4
    <2> QED BY <2>1
  <1>13. \A i \in 1 .. N : NewRecord.fmts[i].ok <=> <<fi, i>> \notin bad
    BY <1>10, <1>12
  <1>15. input.files[NewRecord.file].cols = cols
    BY <1>9, <1>11 DEF BatchInv, PlaceInv
  <1>16. \A i \in 1 .. N : Tells(NewRecord, i)
    BY <1>11, <1>12, <1>13, <1>14, <1>15 DEF Tells
  <1>17. \A i \in 1 .. N : NewRecord.fmts[i].ss = NewRecord.ss
    <2>1. 1 \in 1 .. N
      BY <1>1
    <2> QED BY <1>11, <1>12, <1>14, <2>1
  <1> QED BY <1>6, <1>8, <1>11, <1>12, <1>16, <1>17

\* The record goes to the end, and the file counts as passed.
LEMMA CloseFilePreserves ==
  ASSUME BatchInv, CloseFile
  PROVE  BatchInv'
  <1> USE DEF given
  <1>0. /\ phase = "column" /\ fx > N /\ records' = Append(records, NewRecord)
        /\ fi' = fi + 1 /\ phase' = "file" /\ N' = N
        /\ UNCHANGED <<input, fmts, sw, files, fx, col, facc, failures, csv, exitCode, bad>>
    BY DEF CloseFile, NewRecord, N
  <1>1. /\ files = input.files /\ fi \in 1 .. Len(input.files) /\ files[fi].state = "good"
        /\ Len(input.files) \in Nat /\ Len(records) \in Nat
    BY <1>0, FilesFacts DEF BatchInv, PlaceInv
  <1>2. /\ NewRecord \in RecordSet /\ Len(NewRecord.fmts) = N /\ NewRecord.file = fi
        /\ \A i \in 1 .. N :
              /\ Tells(NewRecord, i)
              /\ NewRecord.fmts[i].ss = NewRecord.ss
              /\ NewRecord.fmts[i].console = ConsoleCheck(NewRecord.fmts[i].ok)
    BY <1>0, NewRecordFacts
  <1>3. /\ records' \in Seq(RecordSet) /\ Len(records') = Len(records) + 1
        /\ records'[Len(records) + 1] = NewRecord
        /\ \A k \in 1 .. Len(records) : records'[k] = records[k]
    <2>1. records \in Seq(RecordSet)
      BY DEF BatchInv, OrderInv
    <2> HIDE DEF NewRecord, RecordSet
    <2> QED BY <1>0, <1>2, <2>1, AppendProperties
  <1>4. \A k \in 1 .. Len(records') :
          \/ k = Len(records) + 1 /\ records'[k] = NewRecord
          \/ k \in 1 .. Len(records) /\ records'[k] = records[k]
    BY <1>1, <1>3
  <1>5. \A n \in 1 .. fi' - 1 : n \in 1 .. fi - 1 \/ n = fi
    BY <1>0, <1>1
  <1>6. PlaceInv'
    BY <1>0, <1>1 DEF BatchInv, PlaceInv
  <1>7. FailuresInv'
    <2>1. \A n \in 1 .. fi - 1 : n \in 1 .. fi' - 1
      BY <1>0, <1>1
    <2>2. ~LoadFailure(input.files[fi].state)
      BY <1>1 DEF LoadFailure
    <2>3. failures \in 0 .. fi' - 1
      BY <1>0, <1>1 DEF BatchInv, FailuresInv
    <2> QED BY <1>0, <1>5, <2>1, <2>2, <2>3 DEF BatchInv, FailuresInv
  <1>8. ExitInv'
    BY <1>0 DEF BatchInv, ExitInv
  <1>9. OrderInv'
    <2>1. RecordSet' = RecordSet
      BY <1>0 DEF RecordSet, Result, N
    <2>2. ASSUME NEW k \in 1 .. Len(records')
          PROVE  records'[k].file \in 1 .. fi' - 1 /\ input.files[records'[k].file].state = "good"
      <3>1. CASE k = Len(records) + 1 /\ records'[k] = NewRecord
        BY <1>0, <1>1, <1>2, <3>1
      <3>2. CASE k \in 1 .. Len(records) /\ records'[k] = records[k]
        <4>1. records[k].file \in 1 .. fi - 1 /\ input.files[records[k].file].state = "good"
          BY <3>2 DEF BatchInv, OrderInv
        <4> QED BY <1>0, <1>1, <3>2, <4>1
      <3> QED BY <1>4, <3>1, <3>2
    <2>3. ASSUME NEW j \in 1 .. Len(records'), NEW k \in 1 .. Len(records'), j < k
          PROVE  records'[j].file < records'[k].file
      <3>1. j \in 1 .. Len(records) /\ records'[j] = records[j]
        BY <1>1, <1>3, <2>3
      <3>2. records[j].file \in 1 .. fi - 1
        BY <3>1 DEF BatchInv, OrderInv
      <3>3. CASE k = Len(records) + 1 /\ records'[k] = NewRecord
        BY <1>1, <1>2, <3>1, <3>2, <3>3
      <3>4. CASE k \in 1 .. Len(records) /\ records'[k] = records[k]
        BY <2>3, <3>1, <3>4 DEF BatchInv, OrderInv
      <3> QED BY <1>4, <3>3, <3>4
    <2>4. ASSUME NEW n \in 1 .. fi' - 1, input.files[n].state = "good"
          PROVE  \E k \in 1 .. Len(records') : records'[k].file = n
      <3>1. CASE n = fi
        <4>1. Len(records) + 1 \in 1 .. Len(records')
          BY <1>1, <1>3
        <4> QED BY <1>2, <1>3, <3>1, <4>1
      <3>2. CASE n \in 1 .. fi - 1
        <4>1. PICK k \in 1 .. Len(records) : records[k].file = n
          BY <2>4, <3>2 DEF BatchInv, OrderInv
        <4>2. k \in 1 .. Len(records') /\ records'[k] = records[k]
          BY <1>1, <1>3
        <4> QED BY <4>1, <4>2
      <3> QED BY <1>5, <3>1, <3>2
    <2> HIDE DEF RecordSet
    <2> QED BY <1>0, <1>3, <2>1, <2>2, <2>3, <2>4 DEF OrderInv
  <1>10. SumsInv'
    BY <1>0, SumsStay DEF BatchInv
  <1>11. RecordInv'
    <2>0. UNCHANGED <<input, sw, bad>> /\ N' = N
      BY <1>0
    <2> SUFFICES ASSUME NEW k \in 1 .. Len(records')
                 PROVE  /\ Len(records'[k].fmts) = N
                        /\ \A i \in 1 .. N :
                             /\ Tells(records'[k], i)
                             /\ records'[k].fmts[i].ss = records'[k].ss
                             /\ records'[k].fmts[i].console = ConsoleCheck(records'[k].fmts[i].ok)
      BY <2>0, ZenonT(60) DEF RecordInv, Tells, ConsoleCheck
    <2>1. CASE k = Len(records) + 1 /\ records'[k] = NewRecord
      BY <1>2, <2>1
    <2>2. CASE k \in 1 .. Len(records) /\ records'[k] = records[k]
      BY <2>2 DEF BatchInv, RecordInv
    <2> QED BY <1>4, <2>1, <2>2
  <1>12. VerdictInv'
    <2>1. \A p \in bad : p[1] < fi + 1 /\ p[1] <= fi + 1
      BY <1>1 DEF BatchInv, VerdictInv
    <2> QED BY <1>0, <2>1 DEF BatchInv, VerdictInv
  <1>13. CsvInv'
    BY <1>0 DEF BatchInv, CsvInv
  <1> QED BY <1>6, <1>7, <1>8, <1>9, <1>10, <1>11, <1>12, <1>13 DEF BatchInv

\* Whatever becomes of the CSV file, the batch goes on to its end.
LEMMA WriteCsvPreserves ==
  ASSUME BatchInv, WriteCsv
  PROVE  BatchInv'
  <1> USE DEF given, indices
  <1>0. /\ phase = "file" /\ fi > Len(files) /\ phase' = "csv" /\ N' = N
        /\ UNCHANGED <<input, fmts, sw, files, fi, fx, col, facc, failures, records, exitCode, bad>>
        /\ \/ csv' = csv
           \/ csv' = [state |-> "written", rows |-> CsvRows]
           \/ \E n \in 0 .. Len(CsvRows) : csv' = [state |-> "failed", rows |-> SubSeq(CsvRows, 1, n)]
    BY DEF WriteCsv, WriteFailed, N
  <1>1. PlaceInv'
    BY <1>0, FilesFacts DEF BatchInv, PlaceInv
  <1>2. FailuresInv' /\ ExitInv' /\ OrderInv'
    BY <1>0, OrderStays DEF BatchInv, FailuresInv, ExitInv
  <1>3. SumsInv' /\ RecordInv'
    BY <1>0, SumsStay, RecordsStay DEF BatchInv
  <1>4. VerdictInv'
    BY <1>0 DEF BatchInv, VerdictInv
  <1>5. CsvInv'
    <2>1. CsvRows' = CsvRows
      BY <1>0 DEF CsvRows, CsvRow, CsvCheck
    <2>2. csv'.state \in {"absent", "written", "failed"} /\ (csv'.state = "written" => csv'.rows = CsvRows)
      BY <1>0 DEF BatchInv, CsvInv
    <2> QED BY <1>0, <2>1, <2>2 DEF CsvInv
  <1> QED BY <1>1, <1>2, <1>3, <1>4, <1>5 DEF BatchInv

\* The exit code is made of the failures and the records alone.
LEMMA FinishPreserves ==
  ASSUME BatchInv, Finish
  PROVE  BatchInv'
  <1> USE DEF given, indices
  <1>0. /\ phase = "csv" /\ phase' = "exited" /\ N' = N
        /\ exitCode' = IF failures > 0 \/ records = <<>> THEN 1 ELSE 0
        /\ UNCHANGED <<input, fmts, sw, files, fi, fx, col, facc, failures, records, csv, bad>>
    BY DEF Finish, Return, N
  <1>1. PlaceInv'
    BY <1>0 DEF BatchInv, PlaceInv
  <1>2. FailuresInv' /\ OrderInv'
    BY <1>0, OrderStays DEF BatchInv, FailuresInv
  <1>3. ExitInv'
    <2>1. failures \in Nat
      BY FilesFacts DEF BatchInv, FailuresInv
    <2>2. records # <<>> => files # <<>>
      <3> SUFFICES ASSUME files = <<>> PROVE records = <<>>
        OBVIOUS
      <3>1. fi = 1
        BY <1>0 DEF BatchInv, PlaceInv
      <3>2. records \in Seq(RecordSet) /\ \A k \in 1 .. Len(records) : records[k].file \in 1 .. fi - 1
        BY DEF BatchInv, OrderInv
      <3>3. Len(records) = 0
        BY <3>1, <3>2, FilesFacts
      <3> QED BY <3>2, <3>3, EmptySeq
    <2> QED BY <1>0, <2>1, <2>2 DEF ExitInv
  <1>4. SumsInv' /\ RecordInv'
    BY <1>0, SumsStay, RecordsStay DEF BatchInv
  <1>5. VerdictInv'
    BY <1>0 DEF BatchInv, VerdictInv
  <1>6. CsvInv'
    BY <1>0 DEF BatchInv, CsvInv, CsvRows, CsvRow, CsvCheck
  <1> QED BY <1>1, <1>2, <1>3, <1>4, <1>5, <1>6 DEF BatchInv

\* Every step keeps the invariant.
LEMMA NextPreserves ==
  ASSUME BatchInv, [Next]_vars
  PROVE  BatchInv'
  <1>1. CASE UNCHANGED vars
    BY <1>1, StutterPreserves
  <1>2. CASE Step
    BY <1>2, CollectFilesPreserves, OpenFilePreserves, RunColumnPreserves, ColumnAbortsPreserves,
       NextFormatPreserves, CloseFilePreserves, WriteCsvPreserves, FinishPreserves DEF Step
  <1> QED BY <1>1, <1>2 DEF Next, Ended

-----------------------------------------------------------------------------
(* The theorems *)

\* Every reachable state of rle4k_cmd_run satisfies the invariant.
THEOREM BatchInvariant == Spec => []BatchInv
  <1>1. Init => BatchInv
    BY InitHolds
  <1>2. BatchInv /\ [Next]_vars => BatchInv'
    BY NextPreserves
  <1> QED BY <1>1, <1>2, PTL DEF Spec

\* The indices, counters and accumulators of the batch have their types.
THEOREM BatchHasItsTypes == Spec => []BatchTypeOK
  <1>1. BatchInv => BatchTypeOK
    <2> SUFFICES ASSUME BatchInv PROVE BatchTypeOK
      OBVIOUS
    <2>1. failures \in 0 .. Len(input.files)
      BY FilesFacts DEF BatchInv, PlaceInv, FailuresInv
    <2> QED BY <2>1 DEF BatchInv, PlaceInv, SumsInv, ExitInv, VerdictInv, CsvInv, BatchTypeOK, N, Acc
  <1> QED BY <1>1, BatchInvariant, PTL

\* Every format rasterises the columns again, and all arrive at the source size
\* that main.cpp takes from the first one.
THEOREM FormatsAgreeOnSize == Spec => []OneSourceSize
  <1>1. BatchInv => OneSourceSize
    <2> SUFFICES ASSUME BatchInv, NEW r \in ToSet(records), NEW i \in 1 .. Len(fmts)
                 PROVE  r.fmts[i].ss = r.ss
      BY DEF OneSourceSize
    <2>1. DOMAIN records = 1 .. Len(records)
      BY LenProperties DEF BatchInv, OrderInv
    <2>2. PICK k \in 1 .. Len(records) : records[k] = r
      BY <2>1 DEF ToSet
    <2> QED BY <2>2 DEF BatchInv, RecordInv, N
  <1> QED BY <1>1, BatchInvariant, PTL

\* A file that cannot be used (the `continue`s of the file loop) costs no other
\* file its record, and the records keep the order of the list.
THEOREM GoodFilesAreReported == Spec => []EveryGoodFileReported
  <1>1. BatchInv => EveryGoodFileReported
    <2> SUFFICES ASSUME BatchInv, phase \in {"csv", "exited"}
                 PROVE  {records[k].file : k \in 1 .. Len(records)}
                          = {n \in 1 .. Len(files) : files[n].state = "good"}
      BY DEF EveryGoodFileReported, BatchInv, OrderInv
    <2>1. files = input.files /\ (files = <<>> \/ fi = Len(files) + 1) /\ fi \in 1 .. Len(files) + 1
      BY DEF BatchInv, PlaceInv
    <2>2. fi = Len(files) + 1
      BY <2>1, EmptySeq
    <2>3. 1 .. fi - 1 = 1 .. Len(files)
      BY <2>1, <2>2, FilesFacts
    <2>4. \A k \in 1 .. Len(records) :
            records[k].file \in 1 .. Len(files) /\ files[records[k].file].state = "good"
      BY <2>1, <2>3 DEF BatchInv, OrderInv
    <2>5. \A n \in 1 .. Len(files) : files[n].state = "good" =>
            \E k \in 1 .. Len(records) : records[k].file = n
      BY <2>1, <2>3 DEF BatchInv, OrderInv
    <2> QED BY <2>4, <2>5
  <1> QED BY <1>1, BatchInvariant, PTL

\* A record tells of its own file and format: neither bytes nor verdicts leak
\* from one accumulator, file or format into another.
THEOREM RecordsAreOfTheirFile == Spec => []RecordsTellTheirFile
  <1>1. BatchInv => RecordsTellTheirFile
    <2> SUFFICES ASSUME BatchInv, NEW r \in ToSet(records), NEW i \in 1 .. Len(fmts)
                 PROVE  LET cols == files[r.file].cols
                        IN  /\ r.fmts[i].ss = Total(RawSizes(cols))
                            /\ r.fmts[i].cs = IF sw.encode THEN Total(PackedSizes(cols)) ELSE 0
                            /\ r.fmts[i].ok <=> <<r.file, i>> \notin bad
      BY DEF RecordsTellTheirFile
    <2>1. DOMAIN records = 1 .. Len(records)
      BY LenProperties DEF BatchInv, OrderInv
    <2>2. PICK k \in 1 .. Len(records) : records[k] = r
      BY <2>1 DEF ToSet
    <2>3. Tells(r, i)
      BY <2>2 DEF BatchInv, RecordInv, N
    <2>4. files = input.files
      BY <2>2 DEF BatchInv, PlaceInv, OrderInv
    <2> QED BY <2>3, <2>4 DEF Tells
  <1> QED BY <1>1, BatchInvariant, PTL

\* main.cpp:844: the exit code is 0 exactly when a file was benchmarked and none
\* was missing or unreadable.
THEOREM ExitCodesTellLoading == Spec => []ExitCodeTellsLoading
  <1>1. BatchInv => ExitCodeTellsLoading
    <2> SUFFICES ASSUME BatchInv, phase = "exited"
                 PROVE  exitCode = 0 <=> /\ \E f \in ToSet(files) : f.state = "good"
                                         /\ \A f \in ToSet(files) : f.state \in {"good", "layerless"}
      BY DEF ExitCodeTellsLoading
    <2>1. /\ files = input.files /\ fi \in 1 .. Len(files) + 1 /\ (files = <<>> \/ fi = Len(files) + 1)
          /\ files \in Seq(File) /\ Len(files) \in Nat
      BY FilesFacts DEF BatchInv, PlaceInv
    <2>2. fi = Len(files) + 1 /\ 1 .. fi - 1 = 1 .. Len(files)
      BY <2>1, EmptySeq
    <2>3. ToSet(files) = {files[n] : n \in 1 .. Len(files)}
      BY <2>1, LenProperties DEF ToSet
    <2>4. failures = 0 <=> \A n \in 1 .. Len(files) : files[n].state \in {"good", "layerless"}
      <3>1. failures \in Nat
        BY FilesFacts DEF BatchInv, FailuresInv
      <3>2. failures > 0 <=> \E n \in 1 .. Len(files) : LoadFailure(files[n].state)
        BY <2>1, <2>2 DEF BatchInv, FailuresInv
      <3>3. \A n \in 1 .. Len(files) : files[n].state \in {"missing", "unreadable", "layerless", "good"}
        BY <2>1, FilesFacts
      <3> QED BY <3>1, <3>2, <3>3 DEF LoadFailure
    <2>5. records # <<>> <=> \E n \in 1 .. Len(files) : files[n].state = "good"
      <3>1. records \in Seq(RecordSet) /\ Len(records) \in Nat
        BY FilesFacts DEF BatchInv, OrderInv
      <3>2. records # <<>> <=> \E k \in 1 .. Len(records) : TRUE
        BY <3>1, EmptySeq
      <3>3. \A k \in 1 .. Len(records) :
              records[k].file \in 1 .. Len(files) /\ files[records[k].file].state = "good"
        BY <2>1, <2>2 DEF BatchInv, OrderInv
      <3>4. \A n \in 1 .. Len(files) : files[n].state = "good" =>
              \E k \in 1 .. Len(records) : records[k].file = n
        BY <2>1, <2>2 DEF BatchInv, OrderInv
      <3> QED BY <3>2, <3>3, <3>4
    <2>6. files = <<>> => ~\E n \in 1 .. Len(files) : TRUE
      BY EmptySeq
    <2>7. exitCode = 0 <=> files # <<>> /\ failures = 0 /\ records # <<>>
      BY DEF BatchInv, ExitInv
    <2> QED BY <2>3, <2>4, <2>5, <2>6, <2>7
  <1> QED BY <1>1, BatchInvariant, PTL

\* rle4k_write_csv and rle4k_print_file_report tell the same of every file.
THEOREM CsvAgrees == Spec => []CsvAgreesWithConsole
  <1>1. BatchInv => CsvAgreesWithConsole
    <2> SUFFICES ASSUME BatchInv, csv.state = "written"
                 PROVE  /\ Len(csv.rows) = Len(records)
                        /\ \A k \in 1 .. Len(records) :
                             /\ csv.rows[k].file = records[k].file
                             /\ Len(csv.rows[k].cells) = Len(records[1].fmts)
                             /\ \A i \in 1 .. Len(fmts) :
                                  /\ csv.rows[k].cells[i].cs = records[k].fmts[i].cs
                                  /\ sw.check => csv.rows[k].cells[i].chk = records[k].fmts[i].console
      BY DEF CsvAgreesWithConsole
    <2>1. csv.rows = [k \in 1 .. Len(records) |-> CsvRow(records[k])] /\ Len(records) \in Nat /\ N \in Nat
      BY FilesFacts DEF BatchInv, CsvInv, CsvRows
    <2>2. Len(csv.rows) = Len(records)
      BY <2>1
    <2>3. ASSUME NEW k \in 1 .. Len(records)
          PROVE  /\ csv.rows[k].file = records[k].file
                 /\ Len(csv.rows[k].cells) = Len(records[1].fmts)
                 /\ \A i \in 1 .. Len(fmts) :
                      /\ csv.rows[k].cells[i].cs = records[k].fmts[i].cs
                      /\ sw.check => csv.rows[k].cells[i].chk = records[k].fmts[i].console
      <3>1. csv.rows[k] = CsvRow(records[k])
        BY <2>1
      <3>2. 1 \in 1 .. Len(records)
        BY <2>1
      <3>3. Len(records[1].fmts) = N /\ Len(records[k].fmts) = N
        BY <3>2 DEF BatchInv, RecordInv
      <3>4. /\ csv.rows[k].file = records[k].file
            /\ csv.rows[k].cells = [i \in 1 .. N |-> [cs |-> records[k].fmts[i].cs,
                                                      chk |-> CsvCheck(records[k].fmts[i].ok)]]
        BY <3>1, <3>3 DEF CsvRow
      <3>5. Len(csv.rows[k].cells) = N
        BY <2>1, <3>4
      <3>6. ASSUME NEW i \in 1 .. N
            PROVE  /\ csv.rows[k].cells[i].cs = records[k].fmts[i].cs
                   /\ sw.check => csv.rows[k].cells[i].chk = records[k].fmts[i].console
        <4>1. records[k].fmts[i].console = ConsoleCheck(records[k].fmts[i].ok)
          BY DEF BatchInv, RecordInv
        <4>2. sw.check => CsvCheck(records[k].fmts[i].ok) = ConsoleCheck(records[k].fmts[i].ok)
          BY DEF CsvCheck, ConsoleCheck
        <4> QED BY <3>4, <4>1, <4>2
      <3> QED BY <3>3, <3>4, <3>5, <3>6 DEF N
    <2> QED BY <2>2, <2>3
  <1> QED BY <1>1, BatchInvariant, PTL

=============================================================================
