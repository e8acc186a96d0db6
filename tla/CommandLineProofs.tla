------------------------- MODULE CommandLineProofs -------------------------
(***************************************************************************)
(* The command line and redcli.json for every list of words and every      *)
(* document: which word sets which field, over what the program dies, and  *)
(* that the scanner reads what the author of a plain document means.       *)
(***************************************************************************)
EXTENDS CommandLine, SequenceTheorems, WellFoundedInduction, TLAPS

(* Recursive functions on 0 .. L *)

\* The order of the natural numbers as a relation.
Below == {p \in Nat \X Nat : p[1] < p[2]}

\* Every set of natural numbers that is not empty has a least element: where an
\* induction is meant, a least counterexample is taken.
LEMMA LeastNumber ==
  ASSUME NEW T, T \subseteq Nat, T # {}
  PROVE  \E n \in T : \A m \in T : n <= m
  <1>1. IsWellFoundedOn(Below, Nat)
    BY NatLessThanWellFounded DEF OpToRel, Below
  <1>2. PICK n \in T : \A m \in T : ~ (<<m, n>> \in Below)
    BY <1>1, WFMin
  <1>3. ASSUME NEW m \in T PROVE n <= m
    <2>1. <<m, n>> \notin Below
      BY <1>2
    <2>2. m \in Nat /\ n \in Nat
      OBVIOUS
    <2> QED BY <2>1, <2>2 DEF Below
  <1> QED BY <1>3


\* f begins with base, and each of its next L values comes from the one before.
Recurs(f, base, step, L) ==
  f = [k \in 0 .. L |-> IF k = 0 THEN base ELSE step[k][f[k - 1]]]

\* The values of step are in A again.
Keeps(step, A, L) == \A k \in 1 .. L : \A x \in A : step[k][x] \in A

\* There is such a function for every L: one for n - 1 is made into one for n.
LEMMA RecursionExists ==
  ASSUME NEW base, NEW step, NEW L \in Nat
  PROVE  \E f : Recurs(f, base, step, L)
  <1> DEFINE Bad == {n \in Nat : ~ \E f : Recurs(f, base, step, n)}
  <1>1. ASSUME Bad # {} PROVE FALSE
    <2>1. PICK n \in Bad : \A m \in Bad : n <= m
      <3>1. Bad \subseteq Nat
        OBVIOUS
      <3> HIDE DEF Bad
      <3> QED BY <1>1, <3>1, LeastNumber
    <2>2. CASE n = 0
      <3>1. Recurs([k \in 0 .. 0 |-> base], base, step, 0)
        BY DEF Recurs
      <3> QED BY <2>2, <3>1
    <2>3. CASE n # 0
      <3>1. n \in Nat /\ n - 1 \in Nat /\ n - 1 \notin Bad
        BY <2>1, <2>3
      <3>2. PICK f : Recurs(f, base, step, n - 1)
        BY <3>1
      <3>3. \A k \in 0 .. n - 1 : f[k] = IF k = 0 THEN base ELSE step[k][f[k - 1]]
        BY <3>2 DEF Recurs
      <3>4. PICK g : g = [k \in 0 .. n |-> IF k = n THEN step[n][f[n - 1]] ELSE f[k]]
        OBVIOUS
      <3>5. \A k \in 0 .. n : g[k] = IF k = 0 THEN base ELSE step[k][g[k - 1]]
        <4> TAKE k \in 0 .. n
        <4>1. CASE k = n
          <5>1. k - 1 \in 0 .. n /\ k - 1 # n /\ k # 0
            BY <2>3, <3>1, <4>1
          <5> QED BY <3>4, <4>1, <5>1
        <4>2. CASE k # n
          <5>1. k \in 0 .. n - 1 /\ (k # 0 => k - 1 \in 0 .. n /\ k - 1 # n)
            BY <3>1, <4>2
          <5> QED BY <3>3, <3>4, <4>2, <5>1
        <4> QED BY <4>1, <4>2
      <3>6. Recurs(g, base, step, n)
        <4>1. g = [k \in 0 .. n |-> g[k]]
          BY <3>4
        <4> HIDE DEF Bad
        <4> QED BY <3>5, <4>1 DEF Recurs
      <3> QED BY <2>1, <3>6
    <2> QED BY <2>2, <2>3
  <1> QED BY <1>1

\* Its values come one from the other.
LEMMA RecursionSteps ==
  ASSUME NEW base, NEW step, NEW L \in Nat, NEW f, Recurs(f, base, step, L)
  PROVE  f[0] = base /\ \A k \in 1 .. L : f[k] = step[k][f[k - 1]]
  <1>1. \A k \in 0 .. L : f[k] = IF k = 0 THEN base ELSE step[k][f[k - 1]]
    BY DEF Recurs
  <1>2. 0 \in 0 .. L /\ \A k \in 1 .. L : k \in 0 .. L /\ k # 0
    OBVIOUS
  <1> QED BY <1>1, <1>2

\* They are of the kind that base is of and that step keeps.
LEMMA RecursionHasItsType ==
  ASSUME NEW A, NEW base \in A, NEW L \in Nat, NEW step, NEW f,
         Recurs(f, base, step, L), Keeps(step, A, L)
  PROVE  f \in [0 .. L -> A]
  <1> DEFINE Bad == {n \in 0 .. L : f[n] \notin A}
  <1>1. f[0] = base /\ \A k \in 1 .. L : f[k] = step[k][f[k - 1]]
    BY RecursionSteps
  <1>2. ASSUME Bad # {} PROVE FALSE
    <2>1. PICK n \in Bad : \A m \in Bad : n <= m
      <3>1. Bad \subseteq Nat
        OBVIOUS
      <3> HIDE DEF Bad
      <3> QED BY <1>2, <3>1, LeastNumber
    <2>2. n # 0
      BY <1>1, <2>1
    <2>3. n \in 1 .. L /\ n - 1 \in 0 .. L /\ n - 1 \notin Bad
      BY <2>1, <2>2
    <2>4. f[n] = step[n][f[n - 1]] /\ f[n - 1] \in A
      BY <1>1, <2>3
    <2> QED BY <2>1, <2>3, <2>4 DEF Keeps
  <1>3. f = [k \in 0 .. L |-> f[k]]
    BY DEF Recurs
  <1> QED BY <1>2, <1>3

-----------------------------------------------------------------------------
(* The words *)

Roles == {"word", "value"}

\* The first word after the command is no value; the word after an option is one
\* unless the option is.
LEMMA RolesAlternate ==
  ASSUME NEW L \in Nat, L = Len(argv)
  PROVE  \A p \in 1 .. L : Role[p] = IF p > 2 /\ argv[p - 1][1] = "option" /\ Role[p - 1] = "word"
                                     THEN "value" ELSE "word"
  <1>1. PICK role : role = Role
    OBVIOUS
  <1> DEFINE Turn(p, x) == IF p > 2 /\ argv[p - 1][1] = "option" /\ x = "word" THEN "value" ELSE "word"
             step == [p \in 1 .. L |-> [x \in Roles |-> Turn(p, x)]]
  <1>2. \A p \in 1 .. L : \A x \in Roles : step[p][x] = Turn(p, x) /\ Turn(p, x) \in Roles
    BY DEF Roles
  <1>3. Keeps(step, Roles, L)
    BY <1>2 DEF Keeps
  <1>4. \A p \in 1 .. L : p - 1 \in 0 .. L
    OBVIOUS
  <1> HIDE DEF step, Turn
  <1>5. PICK f : Recurs(f, "word", step, L)
    BY RecursionExists
  <1>6. "word" \in Roles
    BY DEF Roles
  <1>7. f \in [0 .. L -> Roles]
    BY <1>3, <1>5, <1>6, RecursionHasItsType
  <1>8. f = [p \in 0 .. L |-> IF p > 2 /\ argv[p - 1][1] = "option" /\ f[p - 1] = "word"
                              THEN "value" ELSE "word"]
    <2>1. \A p \in 1 .. L : step[p][f[p - 1]] = Turn(p, f[p - 1])
      BY <1>2, <1>4, <1>7
    <2>2. \A p \in 0 .. L : (IF p = 0 THEN "word" ELSE step[p][f[p - 1]])
            = IF p > 2 /\ argv[p - 1][1] = "option" /\ f[p - 1] = "word" THEN "value" ELSE "word"
      BY <2>1 DEF Turn
    <2> QED BY <1>5, <2>2 DEF Recurs
  <1>9. role = [p \in 0 .. L |-> IF p > 2 /\ argv[p - 1][1] = "option" /\ role[p - 1] = "word"
                                 THEN "value" ELSE "word"]
    BY <1>1, <1>8, ZenonT(60) DEF Role
  <1>10. \A p \in 1 .. L : p \in 0 .. L
    OBVIOUS
  <1> QED BY <1>1, <1>9, <1>10

-----------------------------------------------------------------------------
(* The inductive invariant *)

\* What was given at the start, and where the program is.
GivenInv ==
  /\ argv \in Seq(Words) /\ document \in Document /\ found \in BOOLEAN
  /\ stage \in {"main", "parse", "run", "init", "edit", "usage0", "usage1", "crashed"}

\* No value is looked at as a word, and neither a help request nor a value that
\* cannot be read is passed over.
WordInv ==
  /\ i \in Nat /\ 2 <= i
  /\ i <= Len(argv) => i \in Heads
  /\ \A p \in Heads : p < i => argv[p] # Help /\ ~Unreadable(p)
  /\ stage = "run" => pending = <<>> /\ Len(argv) < i
  /\ stage = "crashed" => Unreadable(i)

\* The keys still to be read are different, and read before any other word.
LoadInv ==
  /\ pending \in Seq(Key)
  /\ \A a, b \in 1 .. Len(pending) : pending[a] = pending[b] => a = b
  /\ pending # <<>> => i = 2

\* What a field is before the command line: the document's word, once read, else
\* the default.
Base(k) ==
  IF found /\ k \notin {pending[n] : n \in 1 .. Len(pending)}
  THEN Assigned(Text(document), k, StructDefault[k]) ELSE StructDefault[k]

\* v is what the words before place n make of field k, and was base before them.
IsSet(k, n, v, base) ==
  LET earlier == {p \in Places(k) : p < n}
  IN  \/ earlier = {} /\ v = base
      \/ \E p \in earlier : (\A q \in earlier : q <= p) /\ v = SetTo(k, p)

\* Every field has its value from the last place before i that sets it.
FieldInv ==
  /\ Key \subseteq DOMAIN cfg
  /\ \A k \in Key : IsSet(k, i, cfg[k], Base(k))
  /\ IsSet("csv", i, csv, "")

CommandInv == GivenInv /\ WordInv /\ LoadInv /\ FieldInv

\* The words and their number.
LEMMA WordsFacts ==
  ASSUME argv \in Seq(Words)
  PROVE  /\ Len(argv) \in Nat
         /\ \A p \in 1 .. Len(argv) : argv[p] \in Words
  BY LenProperties, ElementOfSeq

\* After a word that is no option, and after an option with its value, stands a word.
LEMMA NextHead ==
  ASSUME GivenInv, WordInv, i <= Len(argv)
  PROVE  /\ argv[i][1] # "option" /\ i + 1 <= Len(argv) => i + 1 \in Heads
         /\ argv[i][1] = "option" /\ i + 1 <= Len(argv) => i + 1 \notin Heads
         /\ argv[i][1] = "option" /\ i + 2 <= Len(argv) => i + 2 \in Heads
  <1>1. PICK L \in Nat : L = Len(argv)
    BY WordsFacts DEF GivenInv
  <1>2. \A p \in 1 .. L : Role[p] = IF p > 2 /\ argv[p - 1][1] = "option" /\ Role[p - 1] = "word"
                                     THEN "value" ELSE "word"
    BY <1>1, RolesAlternate
  <1>3. i \in 2 .. L /\ Role[i] = "word"
    BY <1>1 DEF WordInv, Heads
  <1>4. i + 1 <= L => Role[i + 1] = IF argv[i][1] = "option" THEN "value" ELSE "word"
    <2>1. i + 1 <= L => i + 1 \in 1 .. L /\ i + 1 > 2 /\ i + 1 - 1 = i
      BY <1>3
    <2> QED BY <1>2, <1>3, <2>1
  <1>5. i + 2 <= L => Role[i + 2] = IF argv[i + 1][1] = "option" /\ Role[i + 1] = "word"
                                    THEN "value" ELSE "word"
    <2>1. i + 2 <= L => i + 2 \in 1 .. L /\ i + 2 > 2 /\ i + 2 - 1 = i + 1
      BY <1>3
    <2> QED BY <1>2, <1>3, <2>1
  <1> QED BY <1>1, <1>3, <1>4, <1>5 DEF Heads

\* Words that do not set k leave what k is set to.
LEMMA NotSetAgain ==
  ASSUME NEW k, NEW n \in Nat, NEW m \in Nat, NEW v, NEW base, n <= m, IsSet(k, n, v, base),
         \A p \in Places(k) : p < m => p < n
  PROVE  IsSet(k, m, v, base)
  <1>1. Places(k) \subseteq Int
    BY DEF Places, Heads
  <1>2. {p \in Places(k) : p < m} = {p \in Places(k) : p < n}
    BY <1>1
  <1> QED BY <1>2 DEF IsSet

\* A place that sets k makes it what it says.
LEMMA SetAgain ==
  ASSUME NEW k, NEW n \in Places(k), NEW m \in Nat, NEW base, n < m,
         \A p \in Places(k) : p < m => p <= n
  PROVE  IsSet(k, m, SetTo(k, n), base)
  BY DEF IsSet

-----------------------------------------------------------------------------
(* Every step preserves it *)

\* load_config asks for every key, and once.
LEMMA KeysInOrder ==
  /\ KeyOrder \in Seq(Key) /\ KeyOrder # <<>>
  /\ \A a, b \in 1 .. Len(KeyOrder) : KeyOrder[a] = KeyOrder[b] => a = b
  /\ Key = {KeyOrder[n] : n \in 1 .. Len(KeyOrder)}
  /\ Key \subseteq DOMAIN StructDefault
  /\ "csv" \notin Key
  <1>1. Len(KeyOrder) = 27
    BY DEF KeyOrder
  <1>2. KeyOrder \in Seq(Key)
    BY DEF KeyOrder, Key, IntKeys, StringKeys
  <1>3. ASSUME NEW a \in 1 .. 27, NEW b \in 1 .. 27, KeyOrder[a] = KeyOrder[b] PROVE a = b
    BY <1>3, SMTT(60) DEF KeyOrder
  <1>4. Key \subseteq {KeyOrder[n] : n \in 1 .. 27}
    BY SMTT(60) DEF KeyOrder, Key, IntKeys, StringKeys
  <1>5. {KeyOrder[n] : n \in 1 .. 27} \subseteq Key
    BY <1>1, <1>2, ElementOfSeq
  <1>6. Key \subseteq DOMAIN StructDefault
    BY DEF StructDefault, Key, IntKeys, StringKeys
  <1>7. "csv" \notin Key
    BY DEF Key, IntKeys, StringKeys
  <1>8. KeyOrder # <<>>
    BY <1>1
  <1> QED BY <1>1, <1>2, <1>3, <1>4, <1>5, <1>6, <1>7, <1>8

\* At the start nothing is read and no field is set.
LEMMA InitHolds == Init => CommandInv
  <1> SUFFICES ASSUME Init PROVE CommandInv
    OBVIOUS
  <1>1. PICK s \in Situations : argv = s.argv /\ document = s.document /\ found = s.found
    BY DEF Init
  <1>2. cfg = StructDefault /\ pending = KeyOrder /\ i = 2 /\ csv = "" /\ stage = "main"
    BY DEF Init, ScanInit
  <1>3. GivenInv
    BY <1>1, <1>2, SituationsAssumption DEF GivenInv
  <1>4. Len(argv) \in Nat
    BY <1>3, WordsFacts DEF GivenInv
  <1>5. WordInv
    <2>1. 2 <= Len(argv) => 2 \in Heads
      <3>1. 2 <= Len(argv) => Role[2] = "word"
        BY <1>4, RolesAlternate
      <3> QED BY <1>4, <3>1 DEF Heads
    <2>2. \A p \in Heads : ~(p < 2)
      BY <1>4 DEF Heads
    <2>3. i \in Nat /\ 2 <= i /\ (i <= Len(argv) => i \in Heads) /\ (\A p \in Heads : p < i => argv[p] # Help /\ ~Unreadable(p))
      <3>1. i = 2
        BY <1>2
      <3> QED BY <2>1, <2>2, <3>1
    <2>4. stage # "run" /\ stage # "crashed"
      BY <1>2
    <2> HIDE DEF Heads, Unreadable
    <2> QED BY <2>3, <2>4 DEF WordInv
  <1>6. LoadInv
    BY <1>2, KeysInOrder DEF LoadInv
  <1>7. \A k : {p \in Places(k) : p < i} = {}
    <2>1. \A p \in Heads : ~(p < i)
      <3>1. i = 2
        BY <1>2
      <3> QED BY <1>4, <3>1 DEF Heads
    <2>2. \A k : Places(k) \subseteq Heads
      BY DEF Places
    <2> QED BY <2>1, <2>2
  <1>8. \A k \in Key : cfg[k] = Base(k)
    BY <1>2, KeysInOrder DEF Base
  <1>9. FieldInv
    BY <1>2, <1>7, <1>8, KeysInOrder DEF FieldInv, IsSet
  <1> QED BY <1>3, <1>5, <1>6, <1>9 DEF CommandInv

\* Whether a value can be read is a matter of the words.
LEMMA UnreadableStays ==
  ASSUME UNCHANGED argv
  PROVE  \A p : Unreadable(p)' <=> Unreadable(p)
  BY DEF Unreadable

\* Where words, fields and keys stay, so does what is said of them.
LEMMA FieldsStay ==
  ASSUME CommandInv, UNCHANGED <<scanVars, argv, i, csv>>
  PROVE  /\ LoadInv' /\ FieldInv' /\ (Role' = Role) /\ (Heads' = Heads)
         /\ \A p : Unreadable(p)' <=> Unreadable(p)
  <1> USE DEF scanVars
  <1>1. Role' = Role
    BY DEF Role
  <1>2. Heads' = Heads
    BY <1>1 DEF Heads
  <1>3. \A k : Places(k)' = Places(k) /\ \A p : SetTo(k, p)' = SetTo(k, p)
    BY <1>2 DEF Places, SetTo
  <1>4. \A k : Base(k)' = Base(k)
    BY DEF Base
  <1>5. \A k, n, v, base : IsSet(k, n, v, base)' <=> IsSet(k, n, v, base)
    BY <1>3 DEF IsSet
  <1>6. LoadInv'
    BY DEF CommandInv, LoadInv
  <1>7. \A p : Unreadable(p)' <=> Unreadable(p)
    BY UnreadableStays
  <1> QED BY <1>1, <1>2, <1>4, <1>5, <1>6, <1>7 DEF CommandInv, FieldInv

\* The choice of a command looks at no word of its own.
LEMMA DispatchPreserves == CommandInv /\ Dispatch => CommandInv'
  <1> SUFFICES ASSUME CommandInv, Dispatch PROVE CommandInv'
    OBVIOUS
  <1>1. UNCHANGED <<scanVars, argv, i, csv>> /\ stage = "main"
    BY DEF Dispatch
  <1>2. stage' \in {"usage0", "usage1", "init", "edit", "parse"}
    BY DEF Dispatch
  <1>3. LoadInv' /\ FieldInv' /\ Heads' = Heads
    BY <1>1, FieldsStay
  <1>4. GivenInv'
    BY <1>1, <1>2 DEF CommandInv, GivenInv, scanVars
  <1>5. stage' # "run" /\ stage' # "crashed"
    BY <1>2
  <1>6. WordInv'
    BY <1>1, <1>3, <1>5, UnreadableStays DEF CommandInv, WordInv
  <1> QED BY <1>3, <1>4, <1>6 DEF CommandInv

\* No place before the second sets a field.
LEMMA NothingSetYet ==
  ASSUME argv \in Seq(Words), i = 2
  PROVE  \A k : {p \in Places(k) : p < i} = {}
  <1>1. \A p \in Heads : ~(p < 2)
    BY WordsFacts DEF Heads
  <1>2. \A k : Places(k) \subseteq Heads
    BY DEF Places
  <1> QED BY <1>1, <1>2

\* The key that is read next gets what the document holds, the others keep theirs.
LEMMA LoadPreserves == CommandInv /\ Load => CommandInv'
  <1> SUFFICES ASSUME CommandInv, Load PROVE CommandInv'
    OBVIOUS
  <1>1. UNCHANGED <<argv, i, csv, stage, document, found>> /\ stage = "parse" /\ pending # <<>> /\ i = 2
    BY DEF Load, LoadKey, NotLoaded, CommandInv, LoadInv
  <1>2. GivenInv'
    BY <1>1 DEF CommandInv, GivenInv
  <1>3. Heads' = Heads /\ \A k : Places(k)' = Places(k) /\ \A p : SetTo(k, p)' = SetTo(k, p)
    <2>1. Role' = Role
      BY <1>1 DEF Role
    <2>2. Heads' = Heads
      BY <1>1, <2>1 DEF Heads
    <2> QED BY <1>1, <2>2 DEF Places, SetTo
  <1>4. WordInv'
    <2>1. stage' # "run" /\ stage' # "crashed"
      BY <1>1
    <2> QED BY <1>1, <1>3, <2>1, UnreadableStays DEF CommandInv, WordInv
  <1>5. \A k : {p \in Places(k) : p < i} = {}
    BY <1>1, NothingSetYet DEF CommandInv, GivenInv
  <1>6. \A k \in Key : cfg[k] = Base(k)
    BY <1>5 DEF CommandInv, FieldInv, IsSet
  <1>7. \A k, v, base : IsSet(k, i, v, base)' <=> v = base
    BY <1>1, <1>3, <1>5 DEF IsSet
  <1>8. csv = ""
    BY <1>5 DEF CommandInv, FieldInv, IsSet
  <1>9. pending \in Seq(Key) /\ \A a, b \in 1 .. Len(pending) : pending[a] = pending[b] => a = b
    BY DEF CommandInv, LoadInv
  <1>10. CASE LoadKey
    <2>1. PICK k : k = Head(pending)
      OBVIOUS
    <2>2. PICK L \in Nat : L = Len(pending) - 1 /\ Len(pending) = L + 1 /\ k = pending[1] /\ k \in Key
      <3>1. Len(pending) \in Nat /\ Len(pending) # 0
        BY <1>1, <1>9, LenProperties, EmptySeq
      <3>2. pending[1] \in Key /\ k = pending[1]
        BY <1>9, <2>1, <3>1, ElementOfSeq
      <3> QED BY <3>1, <3>2
    <2>3. /\ pending' \in Seq(Key) /\ Len(pending') = L
          /\ \A a \in 1 .. L : pending'[a] = pending[a + 1] /\ a + 1 \in 1 .. Len(pending)
      <3>1. pending' = Tail(pending)
        BY <1>10 DEF LoadKey
      <3>2. Tail(pending) \in Seq(Key) /\ Len(Tail(pending)) = Len(pending) - 1
            /\ \A a \in 1 .. Len(Tail(pending)) : Tail(pending)[a] = pending[a + 1]
        BY <1>1, <1>9, HeadTailProperties
      <3> QED BY <2>2, <3>1, <3>2
    <2>4. \A a, b \in 1 .. Len(pending') : pending'[a] = pending'[b] => a = b
      BY <1>9, <2>3
    <2>5. /\ k \in {pending[n] : n \in 1 .. Len(pending)}
          /\ {pending'[n] : n \in 1 .. Len(pending')} = {pending[n] : n \in 1 .. Len(pending)} \ {k}
      <3>1. \A n \in 1 .. Len(pending) : pending[n] # k => n - 1 \in 1 .. L /\ pending[n] = pending'[n - 1]
        <4> TAKE n \in 1 .. Len(pending)
        <4> HAVE pending[n] # k
        <4>1. n # 1 /\ n \in 1 .. L + 1
          BY <2>2
        <4>2. n - 1 \in 1 .. L /\ n - 1 + 1 = n
          BY <4>1
        <4> QED BY <2>3, <4>2
      <3>2. \A a \in 1 .. L : pending[a + 1] # k
        <4> TAKE a \in 1 .. L
        <4>1. a + 1 # 1 /\ a + 1 \in 1 .. Len(pending) /\ 1 \in 1 .. Len(pending)
          BY <2>2
        <4> QED BY <1>9, <2>2, <4>1
      <3>3. 1 \in 1 .. Len(pending)
        BY <2>2
      <3> QED BY <2>2, <2>3, <3>1, <3>2, <3>3
    <2>6. LoadInv'
      BY <1>1, <2>3, <2>4 DEF LoadInv
    <2>7. cfg' = [cfg EXCEPT ![k] = Assigned(Text(document), k, cfg[k])] /\ found
      BY <1>10, <2>1 DEF LoadKey
    <2>8. \A q \in Key : cfg'[q] = Base(q)'
      <3> TAKE q \in Key
      <3>1. CASE q = k
        <4>1. cfg[k] = StructDefault[k]
          BY <1>6, <2>2, <2>5 DEF Base
        <4>2. cfg'[k] = Assigned(Text(document), k, StructDefault[k])
          BY <2>2, <2>7, <4>1 DEF CommandInv, FieldInv
        <4>3. Base(k)' = Assigned(Text(document), k, StructDefault[k])
          BY <1>1, <2>5, <2>7 DEF Base
        <4> QED BY <3>1, <4>2, <4>3
      <3>2. CASE q # k
        <4>1. cfg'[q] = cfg[q]
          BY <2>7, <3>2 DEF CommandInv, FieldInv
        <4>2. Base(q)' = Base(q)
          BY <1>1, <2>5, <3>2 DEF Base
        <4> QED BY <1>6, <4>1, <4>2
      <3> QED BY <3>1, <3>2
    <2>9. DOMAIN cfg' = DOMAIN cfg
      BY <2>7
    <2>10. FieldInv'
      BY <1>1, <1>7, <1>8, <2>8, <2>9 DEF CommandInv, FieldInv
    <2> QED BY <1>2, <1>4, <2>6, <2>10 DEF CommandInv
  <1>11. CASE NotLoaded
    <2>1. pending' = <<>> /\ cfg' = cfg /\ ~found
      BY <1>11 DEF NotLoaded
    <2>2. LoadInv'
      BY <1>1, <2>1 DEF LoadInv
    <2>3. \A q \in Key : cfg'[q] = Base(q)'
      BY <1>1, <1>6, <2>1 DEF Base
    <2>4. FieldInv'
      BY <1>1, <1>7, <1>8, <2>1, <2>3 DEF CommandInv, FieldInv
    <2> QED BY <1>2, <1>4, <2>2, <2>4 DEF CommandInv
  <1> QED BY <1>10, <1>11 DEF Load

\* The words stay what they are, so what stands where does.
LEMMA WordsStay ==
  ASSUME UNCHANGED argv
  PROVE  /\ Heads' = Heads
         /\ \A p : Unreadable(p)' <=> Unreadable(p)
         /\ \A k : Places(k)' = Places(k)
         /\ \A k, n, v, base : IsSet(k, n, v, base)' <=> IsSet(k, n, v, base)
  <1>1. Role' = Role
    BY DEF Role
  <1>2. Heads' = Heads
    BY <1>1 DEF Heads
  <1>3. \A k : Places(k)' = Places(k) /\ \A p : SetTo(k, p)' = SetTo(k, p)
    BY <1>2 DEF Places, SetTo
  <1> QED BY <1>2, <1>3, UnreadableStays DEF IsSet

\* What is known when a word is looked at.
LEMMA ParsingFacts ==
  ASSUME CommandInv, Parsing
  PROVE  /\ i \in Heads /\ i \in Nat /\ 2 <= i /\ Len(argv) \in Nat /\ i <= Len(argv)
         /\ \A p \in Heads : p \in Nat
         /\ pending = <<>> /\ stage = "parse"
  <1>1. Len(argv) \in Nat
    BY WordsFacts DEF CommandInv, GivenInv
  <1> QED BY <1>1 DEF CommandInv, WordInv, Parsing, Heads

\* Fields that the word at i does not set keep their values when it is passed.
LEMMA OthersStay ==
  ASSUME CommandInv, Parsing, NEW m \in Nat, i < m, \A p \in Heads : p < m => p <= i,
         NEW k, NEW v, NEW base, IsSet(k, i, v, base), i \notin Places(k)
  PROVE  IsSet(k, m, v, base)
  <1>1. \A p \in Places(k) : p < m => p < i
    <2>1. \A p \in Places(k) : p \in Heads /\ p # i
      BY DEF Places
    <2> QED BY <2>1, ParsingFacts
  <1> QED BY <1>1, ParsingFacts, NotSetAgain

\* The field that the word at i sets has its value when it is passed.
LEMMA OneIsSet ==
  ASSUME CommandInv, Parsing, NEW m \in Nat, i < m, \A p \in Heads : p < m => p <= i,
         NEW k, NEW base, i \in Places(k)
  PROVE  IsSet(k, m, SetTo(k, i), base)
  <1>1. \A p \in Places(k) : p < m => p <= i
    BY DEF Places
  <1> QED BY <1>1, ParsingFacts, SetAgain

\* Past the word at i, to the next one.
LEMMA PassOver ==
  ASSUME CommandInv, Parsing, UNCHANGED <<argv, pending, document, found, stage>>,
         i' = IF argv[i][1] = "option" /\ i < Len(argv) THEN i + 2 ELSE i + 1,
         argv[i] # Help, ~Unreadable(i)
  PROVE  /\ GivenInv' /\ WordInv' /\ LoadInv'
         /\ i' \in Nat /\ i < i' /\ \A p \in Heads : p < i' => p <= i
         /\ \A k : Base(k)' = Base(k)
  <1>1. /\ argv[i][1] # "option" /\ i + 1 <= Len(argv) => i + 1 \in Heads
        /\ argv[i][1] = "option" /\ i + 1 <= Len(argv) => i + 1 \notin Heads
        /\ argv[i][1] = "option" /\ i + 2 <= Len(argv) => i + 2 \in Heads
    BY ParsingFacts, NextHead DEF CommandInv
  <1>2. i' \in Nat /\ i < i'
    BY ParsingFacts
  <1>3. \A p \in Heads : p < i' => p <= i
    <2> SUFFICES ASSUME NEW p \in Heads, p < i', i < p PROVE FALSE
      BY ParsingFacts
    <2>1. p \in Nat /\ i \in Nat /\ p <= Len(argv) /\ Len(argv) \in Nat
      BY ParsingFacts DEF Heads
    <2>2. p = i + 1 /\ argv[i][1] = "option" /\ i < Len(argv)
      BY <2>1
    <2> QED BY <1>1, <2>1, <2>2
  <1>4. i' <= Len(argv) => i' \in Heads
    BY <1>1, ParsingFacts
  <1>5. GivenInv'
    BY DEF CommandInv, GivenInv
  <1>6. LoadInv'
    BY ParsingFacts DEF CommandInv, LoadInv
  <1>7. WordInv'
    <2>1. stage' # "run" /\ stage' # "crashed"
      BY ParsingFacts
    <2>2. \A p \in Heads : p < i' => argv[p] # Help /\ ~Unreadable(p)
      <3> SUFFICES ASSUME NEW p \in Heads, p < i' PROVE argv[p] # Help /\ ~Unreadable(p)
        OBVIOUS
      <3>1. p \in Nat /\ p <= i
        BY <1>3, ParsingFacts
      <3>2. CASE p < i
        BY <3>2 DEF CommandInv, WordInv
      <3>3. CASE ~(p < i)
        <4>1. p = i
          BY <3>1, <3>3, ParsingFacts
        <4> QED BY <4>1
      <3> QED BY <3>2, <3>3
    <2>3. 2 <= i'
      BY <1>2, ParsingFacts
    <2> QED BY <1>2, <1>4, <2>1, <2>2, <2>3, WordsStay DEF WordInv
  <1>8. \A k : Base(k)' = Base(k)
    BY DEF Base
  <1> QED BY <1>2, <1>3, <1>5, <1>6, <1>7, <1>8

\* A switch sets its field and is over.
LEMMA TakeSwitchPreserves == CommandInv /\ TakeSwitch => CommandInv'
  <1> SUFFICES ASSUME CommandInv, TakeSwitch PROVE CommandInv'
    OBVIOUS
  <1>1. /\ Parsing /\ argv[i][1] = "switch" /\ i' = i + 1
        /\ cfg' = [cfg EXCEPT ![argv[i][2]] = argv[i][3]]
        /\ UNCHANGED <<argv, pending, document, found, stage, csv>>
    BY DEF TakeSwitch, Word, Assign
  <1>2. /\ argv[i] # Help /\ ~Unreadable(i)
        /\ i' = IF argv[i][1] = "option" /\ i < Len(argv) THEN i + 2 ELSE i + 1
    BY <1>1 DEF Help, Unreadable
  <1>3. /\ GivenInv' /\ WordInv' /\ LoadInv'
        /\ i' \in Nat /\ i < i' /\ \A p \in Heads : p < i' => p <= i
        /\ \A k : Base(k)' = Base(k)
    BY <1>1, <1>2, PassOver
  <1>4. \A k : i \in Places(k) <=> argv[i][2] = k
    BY <1>1, ParsingFacts DEF Places
  <1>5. SetTo(argv[i][2], i) = argv[i][3]
    BY <1>1 DEF SetTo
  <1>6. argv[i][2] # "csv"
    <2>1. argv[i] \in Words
      BY <1>1, ParsingFacts, WordsFacts DEF CommandInv, GivenInv
    <2> QED BY <1>1, <2>1 DEF Words, Help
  <1>7. IsSet("csv", i', csv', "")
    BY <1>1, <1>3, <1>4, <1>6, OthersStay DEF CommandInv, FieldInv
  <1>8. ASSUME NEW k \in Key PROVE IsSet(k, i', cfg'[k], Base(k))
    <2>1. CASE k = argv[i][2]
      <3>1. cfg'[k] = SetTo(k, i)
        BY <1>1, <1>5, <2>1 DEF CommandInv, FieldInv
      <3> QED BY <1>1, <1>3, <1>4, <2>1, <3>1, OneIsSet
    <2>2. CASE k # argv[i][2]
      <3>1. cfg'[k] = cfg[k] /\ IsSet(k, i, cfg[k], Base(k))
        BY <1>1, <2>2 DEF CommandInv, FieldInv
      <3> QED BY <1>1, <1>3, <1>4, <2>2, <3>1, OthersStay
    <2> QED BY <2>1, <2>2
  <1>9. FieldInv'
    <2>1. Key \subseteq DOMAIN cfg'
      BY <1>1 DEF CommandInv, FieldInv
    <2> QED BY <1>1, <1>3, <1>7, <1>8, <2>1, WordsStay DEF FieldInv
  <1> QED BY <1>3, <1>9 DEF CommandInv

\* A word that is passed over sets nothing.
LEMMA IgnoreWordPreserves == CommandInv /\ IgnoreWord => CommandInv'
  <1> SUFFICES ASSUME CommandInv, IgnoreWord PROVE CommandInv'
    OBVIOUS
  <1>1. /\ Parsing /\ i' = i + 1 /\ UNCHANGED <<argv, pending, document, found, stage, csv, cfg>>
        /\ argv[i][1] \notin {"option", "switch", "help"} \/ (argv[i][1] = "option" /\ ~(i < Len(argv)))
    BY DEF IgnoreWord, Word, scanVars, HasValue
  <1>2. /\ argv[i] # Help /\ ~Unreadable(i)
        /\ i' = IF argv[i][1] = "option" /\ i < Len(argv) THEN i + 2 ELSE i + 1
    BY <1>1 DEF Help, Unreadable
  <1>3. /\ GivenInv' /\ WordInv' /\ LoadInv'
        /\ i' \in Nat /\ i < i' /\ \A p \in Heads : p < i' => p <= i
        /\ \A k : Base(k)' = Base(k)
    BY <1>1, <1>2, PassOver
  <1>4. \A k : i \notin Places(k)
    BY <1>1 DEF Places
  <1>5. IsSet("csv", i', csv', "")
    BY <1>1, <1>3, <1>4, OthersStay DEF CommandInv, FieldInv
  <1>6. ASSUME NEW k \in Key PROVE IsSet(k, i', cfg'[k], Base(k))
    BY <1>1, <1>3, <1>4, OthersStay DEF CommandInv, FieldInv
  <1>7. FieldInv'
    BY <1>1, <1>3, <1>5, <1>6, WordsStay DEF CommandInv, FieldInv
  <1> QED BY <1>3, <1>7 DEF CommandInv

\* An option with its value sets its field, or is what the program dies of.
LEMMA TakeOptionPreserves == CommandInv /\ TakeOption => CommandInv'
  <1> SUFFICES ASSUME CommandInv, TakeOption PROVE CommandInv'
    OBVIOUS
  <1>1. /\ Parsing /\ argv[i][1] = "option" /\ i < Len(argv)
        /\ UNCHANGED <<argv, pending, document, found>>
    BY DEF TakeOption, Word, HasValue
  <1>2. CASE ~Readable(argv[i][2], argv[i + 1])
    <2>1. stage' = "crashed" /\ UNCHANGED <<cfg, csv, i>>
      BY <1>2 DEF TakeOption, Word
    <2>2. LoadInv' /\ FieldInv' /\ Heads' = Heads
      BY <1>1, <2>1, FieldsStay DEF scanVars
    <2>3. GivenInv'
      BY <1>1, <2>1 DEF CommandInv, GivenInv
    <2>4. WordInv'
      <3>1. Unreadable(i)
        BY <1>1, <1>2 DEF Unreadable
      <3>2. stage' # "run" /\ UNCHANGED <<argv, i>>
        BY <1>1, <2>1
      <3> QED BY <2>2, <3>1, <3>2, UnreadableStays DEF CommandInv, WordInv
    <2> QED BY <2>2, <2>3, <2>4 DEF CommandInv
  <1>3. CASE Readable(argv[i][2], argv[i + 1])
    <2>1. PICK k, v : k = argv[i][2] /\ v = Value(argv[i][2], argv[i + 1])
      OBVIOUS
    <2>2. /\ cfg' = IF k = "csv" THEN cfg ELSE [cfg EXCEPT ![k] = v]
          /\ csv' = IF k = "csv" THEN v ELSE csv
          /\ i' = i + 2 /\ stage' = stage
      BY <1>1, <1>3, <2>1 DEF TakeOption, Word, Assign
    <2>3. /\ argv[i] # Help /\ ~Unreadable(i)
          /\ i' = IF argv[i][1] = "option" /\ i < Len(argv) THEN i + 2 ELSE i + 1
      BY <1>1, <1>3, <2>2 DEF Help, Unreadable
    <2>4. /\ GivenInv' /\ WordInv' /\ LoadInv'
          /\ i' \in Nat /\ i < i' /\ \A p \in Heads : p < i' => p <= i
          /\ \A q : Base(q)' = Base(q)
      BY <1>1, <2>2, <2>3, PassOver
    <2>5. \A q : i \in Places(q) <=> k = q
      BY <1>1, <2>1, ParsingFacts DEF Places
    <2>6. SetTo(k, i) = v
      BY <1>1, <2>1 DEF SetTo
    <2>7. IsSet("csv", i', csv', "")
      <3>1. CASE k = "csv"
        BY <1>1, <2>2, <2>4, <2>5, <2>6, <3>1, OneIsSet
      <3>2. CASE k # "csv"
        BY <1>1, <2>2, <2>4, <2>5, <3>2, OthersStay DEF CommandInv, FieldInv
      <3> QED BY <3>1, <3>2
    <2>8. ASSUME NEW q \in Key PROVE IsSet(q, i', cfg'[q], Base(q))
      <3>0. q # "csv"
        BY KeysInOrder
      <3>1. CASE q = k
        <4>1. cfg'[q] = SetTo(q, i)
          BY <2>2, <2>6, <3>0, <3>1 DEF CommandInv, FieldInv
        <4> QED BY <1>1, <2>4, <2>5, <3>1, <4>1, OneIsSet
      <3>2. CASE q # k
        <4>1. cfg'[q] = cfg[q] /\ IsSet(q, i, cfg[q], Base(q))
          BY <2>2, <3>2 DEF CommandInv, FieldInv
        <4> QED BY <1>1, <2>4, <2>5, <3>2, <4>1, OthersStay
      <3> QED BY <3>1, <3>2
    <2>9. FieldInv'
      <3>1. Key \subseteq DOMAIN cfg'
        BY <2>2 DEF CommandInv, FieldInv
      <3> QED BY <1>1, <2>4, <2>7, <2>8, <3>1, WordsStay DEF FieldInv
    <2> QED BY <2>4, <2>9 DEF CommandInv
  <1> QED BY <1>2, <1>3

\* A help request, the end of the words, and a program that has made its choice.
LEMMA EndsPreserve == CommandInv /\ (TakeHelp \/ AllRead \/ Chosen) => CommandInv'
  <1> SUFFICES ASSUME CommandInv, TakeHelp \/ AllRead \/ Chosen PROVE CommandInv'
    OBVIOUS
  <1>1. UNCHANGED <<scanVars, argv, i, csv>>
    BY DEF TakeHelp, AllRead, Chosen, vars
  <1>2. LoadInv' /\ FieldInv' /\ Heads' = Heads
    BY <1>1, FieldsStay
  <1>3. UNCHANGED <<cfg, pending, document, found>>
    BY <1>1 DEF scanVars
  <1>4. GivenInv'
    BY <1>1, <1>3 DEF CommandInv, GivenInv, TakeHelp, AllRead, Chosen, vars
  <1>5. CASE TakeHelp
    <2>1. stage' # "run" /\ stage' # "crashed"
      BY <1>5 DEF TakeHelp
    <2>2. WordInv'
      BY <1>1, <1>2, <2>1, UnreadableStays DEF CommandInv, WordInv
    <2> QED BY <1>2, <1>4, <2>2 DEF CommandInv
  <1>6. CASE AllRead
    <2>1. stage' # "crashed" /\ pending = <<>> /\ Len(argv) < i
      BY <1>6, WordsFacts DEF AllRead, CommandInv, GivenInv, WordInv
    <2>2. WordInv'
      BY <1>1, <1>2, <1>3, <2>1, UnreadableStays DEF CommandInv, WordInv
    <2> QED BY <1>2, <1>4, <2>2 DEF CommandInv
  <1>7. CASE Chosen
    <2>1. stage' = stage
      BY <1>7 DEF Chosen, vars
    <2>2. WordInv'
      BY <1>1, <1>2, <1>3, <2>1, UnreadableStays DEF CommandInv, WordInv
    <2> QED BY <1>2, <1>4, <2>2 DEF CommandInv
  <1> QED BY <1>5, <1>6, <1>7

\* Every step preserves the invariant.
LEMMA NextPreserves == CommandInv /\ [Next]_vars => CommandInv'
  <1> SUFFICES ASSUME CommandInv, [Next]_vars PROVE CommandInv'
    OBVIOUS
  <1>1. CASE UNCHANGED vars
    <2>1. UNCHANGED <<scanVars, argv, i, csv>> /\ stage' = stage
      BY <1>1 DEF vars
    <2>2. LoadInv' /\ FieldInv' /\ Heads' = Heads
      BY <2>1, FieldsStay
    <2>3. UNCHANGED <<cfg, pending, document, found>>
      BY <2>1 DEF scanVars
    <2>4. GivenInv' /\ WordInv'
      BY <2>1, <2>2, <2>3, UnreadableStays DEF CommandInv, GivenInv, WordInv
    <2> QED BY <2>2, <2>4 DEF CommandInv
  <1>2. CASE Next
    BY <1>2, DispatchPreserves, LoadPreserves, TakeOptionPreserves, TakeSwitchPreserves,
       IgnoreWordPreserves, EndsPreserve DEF Next
  <1> QED BY <1>1, <1>2

-----------------------------------------------------------------------------
(* The theorems *)

\* Every reachable state of the command line's pass satisfies the invariant.
THEOREM CommandInvariant == Spec => []CommandInv
  <1>1. Init => CommandInv
    BY InitHolds
  <1>2. CommandInv /\ [Next]_vars => CommandInv'
    BY NextPreserves
  <1> QED BY <1>1, <1>2, PTL DEF Spec

\* main.cpp:499-535: std::stoi and std::stod see only what stands as a value, and
\* nothing after a help request.  A value without a number at its front, or with one
\* that is too large, ends the program; nothing else does, and no run begins over it.
THEOREM BadValuesCrash == Spec => []OnlyBadValuesCrash
  <1>1. ASSUME CommandInv, stage = "crashed"
        PROVE  \E p \in Heads : Unreadable(p) /\ \A q \in Heads : q < p => argv[q] # Help
    <2>1. Unreadable(i) /\ i \in Nat /\ Len(argv) \in Nat
      BY <1>1, WordsFacts DEF CommandInv, GivenInv, WordInv
    <2>2. i <= Len(argv)
      BY <2>1 DEF Unreadable
    <2>3. i \in Heads /\ \A q \in Heads : q < i => argv[q] # Help
      BY <1>1, <2>2 DEF CommandInv, WordInv
    <2> QED BY <2>1, <2>3
  <1>2. ASSUME CommandInv, stage = "run", NEW p \in Heads PROVE ~Unreadable(p)
    <2>1. Len(argv) < i /\ i \in Nat /\ Len(argv) \in Nat
      BY <1>2, WordsFacts DEF CommandInv, GivenInv, WordInv
    <2>2. p < i
      BY <2>1 DEF Heads
    <2> QED BY <1>2, <2>2 DEF CommandInv, WordInv
  <1>3. CommandInv => OnlyBadValuesCrash
    BY <1>1, <1>2 DEF OnlyBadValuesCrash
  <1> QED BY <1>3, CommandInvariant, PTL

-----------------------------------------------------------------------------
(* The recursive functions of the scanner and of the rendering *)

\* flat[n] is what the first n of the L parts make.
Flattens(flat, parts, L) ==
  /\ flat[1] = parts[1]
  /\ \A n \in 1 .. L : n # 1 => flat[n] = flat[n - 1] \o parts[n]
  /\ FlattenSeq(parts) = flat[L]

\* FlattenSeq appends part by part.
LEMMA FlattenUnrolls ==
  ASSUME NEW T, NEW L \in Nat \ {0}, NEW parts \in Seq(Seq(T)), Len(parts) = L
  PROVE  \E flat \in [1 .. L -> Seq(T)] : Flattens(flat, parts, L)
  <1>1. PICK flat : flat = CHOOSE f : f = [n \in 1 .. Len(parts) |->
                                             IF n = 1 THEN parts[n] ELSE f[n - 1] \o parts[n]]
    OBVIOUS
  <1>2. FlattenSeq(parts) = flat[L]
    BY <1>1 DEF FlattenSeq
  <1>3. \A n \in 1 .. L : parts[n] \in Seq(T)
    BY ElementOfSeq
  <1> DEFINE Longer(n, x) == IF n = 1 THEN parts[n] ELSE x \o parts[n]
             step == [n \in 1 .. L |-> [x \in Seq(T) \cup {flat[m] : m \in 1 .. L} |-> Longer(n, x)]]
  <1>4. \A n \in 1 .. L : \A x \in Seq(T) \cup {flat[m] : m \in 1 .. L} : step[n][x] = Longer(n, x)
    OBVIOUS
  <1>5. \A n \in 1 .. L : \A x \in Seq(T) : Longer(n, x) \in Seq(T)
    BY <1>3, ConcatProperties
  <1>6. Keeps(step, Seq(T), L)
    <2> SUFFICES ASSUME NEW n \in 1 .. L, NEW x \in Seq(T) PROVE step[n][x] \in Seq(T)
      BY DEF Keeps
    <2>1. step[n][x] = Longer(n, x)
      BY <1>4
    <2> HIDE DEF step, Longer
    <2> QED BY <1>5, <2>1
  <1>7. <<>> \in Seq(T) /\ \A n \in 1 .. L : n - 1 \in 0 .. L /\ n \in 0 .. L
                                             /\ (n # 1 => n - 1 \in 1 .. L)
    OBVIOUS
  <1> HIDE DEF step
  <1>8. flat = [n \in 1 .. L |-> Longer(n, flat[n - 1])]
    <2>1. PICK f : Recurs(f, <<>>, step, L)
      BY RecursionExists
    <2>2. f \in [0 .. L -> Seq(T)] /\ \A n \in 1 .. L : f[n] = step[n][f[n - 1]]
      <3> HIDE DEF Longer
      <3>1. f \in [0 .. L -> Seq(T)]
        BY <1>6, <1>7, <2>1, RecursionHasItsType
      <3>2. \A n \in 1 .. L : f[n] = step[n][f[n - 1]]
        <4>1. \A n \in 0 .. L : f[n] = IF n = 0 THEN <<>> ELSE step[n][f[n - 1]]
          BY <2>1 DEF Recurs
        <4>2. \A n \in 1 .. L : n \in 0 .. L /\ n # 0
          OBVIOUS
        <4> QED BY <4>1, <4>2
      <3> QED BY <3>1, <3>2
    <2>3. \A n \in 1 .. L : f[n] = Longer(n, f[n - 1])
      BY <1>4, <1>7, <2>2, ZenonT(60)
    <2>4. PICK g : g = [n \in 1 .. L |-> f[n]]
      OBVIOUS
    <2>5. \A n \in 1 .. L : f[n] = IF n = 1 THEN parts[n] ELSE g[n - 1] \o parts[n]
      BY <1>7, <2>3, <2>4
    <2>6. g = [n \in 1 .. L |-> IF n = 1 THEN parts[n] ELSE g[n - 1] \o parts[n]]
      BY <2>4, <2>5
    <2> QED BY <1>1, <2>6
  <1>9. PICK h : h = [n \in 0 .. L |-> IF n = 0 THEN <<>> ELSE flat[n]]
    OBVIOUS
  <1>10. Recurs(h, <<>>, step, L)
    <2>1. \A n \in 1 .. L : n # 0 /\ h[n] = flat[n] /\ flat[n] = Longer(n, flat[n - 1])
      <3> HIDE DEF Longer
      <3>1. \A n \in 1 .. L : n # 0 /\ h[n] = flat[n]
        BY <1>7, <1>9
      <3>2. \A n \in 1 .. L : flat[n] = Longer(n, flat[n - 1])
        BY <1>8
      <3> QED BY <3>1, <3>2
    <2>2. \A n \in 1 .. L : step[n][h[n - 1]] = Longer(n, h[n - 1])
      <3> TAKE n \in 1 .. L
      <3>1. h[n - 1] \in Seq(T) \cup {flat[m] : m \in 1 .. L}
        <4>1. CASE n = 1
          BY <1>7, <1>9, <4>1
        <4>2. CASE n # 1
          <5>1. n - 1 \in 1 .. L /\ n - 1 \in 0 .. L /\ n - 1 # 0
            BY <4>2
          <5>2. h[n - 1] = flat[n - 1]
            BY <1>9, <5>1
          <5> QED BY <5>1, <5>2
        <4> QED BY <4>1, <4>2
      <3> HIDE DEF Longer
      <3> QED BY <1>4, <3>1
    <2>3. \A n \in 1 .. L : Longer(n, h[n - 1]) = Longer(n, flat[n - 1])
      BY <1>7, <1>9
    <2>4. \A n \in 0 .. L : (IF n = 0 THEN <<>> ELSE flat[n]) = IF n = 0 THEN <<>> ELSE step[n][h[n - 1]]
      <3> TAKE n \in 0 .. L
      <3>1. CASE n = 0
        BY <3>1
      <3>2. CASE n # 0
        <4>1. n \in 1 .. L
          BY <3>2
        <4> HIDE DEF Longer
        <4> QED BY <2>1, <2>2, <2>3, <3>2, <4>1
      <3> QED BY <3>1, <3>2
    <2> HIDE DEF Longer
    <2> QED BY <1>9, <2>4 DEF Recurs
  <1>11. h \in [0 .. L -> Seq(T)]
    BY <1>6, <1>7, <1>10, RecursionHasItsType
  <1>12. flat \in [1 .. L -> Seq(T)]
    <2>1. \A n \in 1 .. L : flat[n] \in Seq(T)
      BY <1>7, <1>9, <1>11
    <2>2. flat = [n \in 1 .. L |-> flat[n]]
      BY <1>8
    <2> QED BY <2>1, <2>2
  <1>13. flat[1] = parts[1] /\ \A n \in 1 .. L : n # 1 => flat[n] = flat[n - 1] \o parts[n]
    <2>1. \A n \in 1 .. L : flat[n] = Longer(n, flat[n - 1])
      <3> HIDE DEF Longer
      <3> QED BY <1>8
    <2>2. 1 \in 1 .. L
      OBVIOUS
    <2> QED BY <2>1, <2>2
  <1> QED BY <1>2, <1>12, <1>13 DEF Flattens

\* kept[n] are those of the first n elements of s that are in S.
Filters(kept, s, S, L) ==
  /\ kept[0] = <<>> /\ Only(s, S) = kept[L]
  /\ \A n \in 1 .. L : kept[n] = IF s[n] \in S THEN Append(kept[n - 1], s[n]) ELSE kept[n - 1]

\* Only keeps the elements one by one.
LEMMA OnlyUnrolls ==
  ASSUME NEW T, NEW s \in Seq(T), NEW S, NEW L \in Nat, L = Len(s)
  PROVE  \E kept \in [0 .. L -> Seq(T)] : Filters(kept, s, S, L)
  <1>1. PICK kept : kept = CHOOSE f : f = [n \in 0 .. Len(s) |->
                       IF n = 0 THEN <<>> ELSE IF s[n] \in S THEN Append(f[n - 1], s[n]) ELSE f[n - 1]]
    OBVIOUS
  <1>2. Only(s, S) = kept[L]
    BY <1>1 DEF Only
  <1>3. \A n \in 1 .. L : s[n] \in T
    BY ElementOfSeq
  <1> DEFINE Keep(n, x) == IF s[n] \in S THEN Append(x, s[n]) ELSE x
             step == [n \in 1 .. L |-> [x \in Seq(T) \cup {kept[m] : m \in 0 .. L} |-> Keep(n, x)]]
  <1>4. \A n \in 1 .. L : \A x \in Seq(T) \cup {kept[m] : m \in 0 .. L} : step[n][x] = Keep(n, x)
    OBVIOUS
  <1>5. \A n \in 1 .. L : \A x \in Seq(T) : Keep(n, x) \in Seq(T)
    BY <1>3, AppendProperties
  <1>6. Keeps(step, Seq(T), L)
    <2> SUFFICES ASSUME NEW n \in 1 .. L, NEW x \in Seq(T) PROVE step[n][x] \in Seq(T)
      BY DEF Keeps
    <2>1. step[n][x] = Keep(n, x)
      BY <1>4
    <2> HIDE DEF step, Keep
    <2> QED BY <1>5, <2>1
  <1>7. <<>> \in Seq(T) /\ \A n \in 1 .. L : n - 1 \in 0 .. L
    OBVIOUS
  <1> HIDE DEF step
  <1>8. kept = [n \in 0 .. L |-> IF n = 0 THEN <<>> ELSE Keep(n, kept[n - 1])]
    <2>1. PICK f : Recurs(f, <<>>, step, L)
      BY RecursionExists
    <2>2. f \in [0 .. L -> Seq(T)]
      BY <1>6, <1>7, <2>1, RecursionHasItsType
    <2>3. \A n \in 1 .. L : step[n][f[n - 1]] = Keep(n, f[n - 1])
      BY <1>4, <1>7, <2>2
    <2>4. f = [n \in 0 .. L |-> IF n = 0 THEN <<>> ELSE Keep(n, f[n - 1])]
      <3>1. \A n \in 0 .. L : (IF n = 0 THEN <<>> ELSE step[n][f[n - 1]])
                                = IF n = 0 THEN <<>> ELSE Keep(n, f[n - 1])
        BY <2>3
      <3> HIDE DEF Keep
      <3> QED BY <2>1, <3>1 DEF Recurs
    <2> QED BY <1>1, <2>4
  <1>9. \A n \in 1 .. L : step[n][kept[n - 1]] = Keep(n, kept[n - 1])
    BY <1>4, <1>7
  <1>10. Recurs(kept, <<>>, step, L)
    <2>1. \A n \in 0 .. L : (IF n = 0 THEN <<>> ELSE Keep(n, kept[n - 1]))
                              = IF n = 0 THEN <<>> ELSE step[n][kept[n - 1]]
      BY <1>9
    <2> HIDE DEF Keep
    <2> QED BY <1>8, <2>1 DEF Recurs
  <1>11. /\ kept \in [0 .. L -> Seq(T)] /\ kept[0] = <<>>
         /\ \A n \in 1 .. L : kept[n] = step[n][kept[n - 1]]
    <2> HIDE DEF Keep
    <2>1. kept \in [0 .. L -> Seq(T)]
      BY <1>6, <1>7, <1>10, RecursionHasItsType
    <2>2. kept[0] = <<>>
      <3>1. \A n \in 0 .. L : kept[n] = IF n = 0 THEN <<>> ELSE step[n][kept[n - 1]]
        BY <1>10 DEF Recurs
      <3>2. 0 \in 0 .. L
        OBVIOUS
      <3> QED BY <3>1, <3>2
    <2>3. \A n \in 1 .. L : kept[n] = step[n][kept[n - 1]]
      BY <1>10, RecursionSteps
    <2> QED BY <2>1, <2>2, <2>3
  <1>12. \A n \in 1 .. L : kept[n] = Keep(n, kept[n - 1])
    BY <1>9, <1>11
  <1> QED BY <1>2, <1>11, <1>12 DEF Filters

-----------------------------------------------------------------------------
(* What a document looks like *)

\* Tokens at which the search for a key does not stop, and those among them that
\* are neither numbers nor brackets.
Harmless == {t \in Token : t \notin {Quoted(k) : k \in Key}}
Silent   == {t \in Harmless : t[1] \notin {"number", "close"}}

\* A member of a plain document.
Tame(m) ==
  /\ m \in Member /\ OfItsType(m.key, m.value) /\ m.value \notin {Quoted(k) : k \in Key}
  /\ m.comment[1] # "between" /\ m.comment[2] \in Seq(Harmless)
  /\ m.comment[1] = "inside" => m.comment[2] \in Seq(Silent)

\* The kinds of the tokens.
LEMMA TokenFacts ==
  /\ {Slashes, NewLine, Comma, Open, Colon} \subseteq Silent
  /\ Silent \subseteq Harmless /\ Harmless \subseteq Token /\ Close \in Harmless
  /\ Numbers \subseteq Harmless /\ Close \notin Numbers /\ Comma \notin Numbers
  /\ \A t \in Silent : t \notin Numbers /\ t # Close
  /\ \A n \in Int : Number(n) \in Numbers /\ Number(n)[2] = n
  <1> USE DEF Slashes, NewLine, Comma, Open, Colon, Close, Quoted, Number, Numbers
  <1>1. \A t \in {Slashes, NewLine, Comma, Open, Colon, Close} :
          t \in Token /\ t[1] \in {"slashes", "newline", "comma", "open", "colon", "close"}
    BY DEF Token
  <1>2. \A k : Quoted(k)[1] = "quoted"
    OBVIOUS
  <1>3. \A t \in Numbers : t[1] = "number" /\ t \in Token
    BY DEF Token
  <1>4. \A t \in Token : t[1] # "quoted" => t \in Harmless
    BY <1>2 DEF Harmless
  <1>5. {Slashes, NewLine, Comma, Open, Colon, Close} \subseteq Harmless
    <2> SUFFICES ASSUME NEW t \in {Slashes, NewLine, Comma, Open, Colon, Close} PROVE t \in Harmless
      OBVIOUS
    <2> QED BY <1>1, <1>4
  <1>6. {Slashes, NewLine, Comma, Open, Colon} \subseteq Silent
    BY <1>5 DEF Silent
  <1>7. Numbers \subseteq Harmless
    BY <1>3, <1>4
  <1>8. Close[1] = "close" /\ Comma[1] = "comma"
    OBVIOUS
  <1>9. Close \notin Numbers /\ Comma \notin Numbers
    BY <1>3, <1>8
  <1>10. \A t \in Silent : t \notin Numbers /\ t # Close
    BY <1>3, <1>8 DEF Silent
  <1>11. \A n \in Int : Number(n) \in Numbers /\ Number(n)[2] = n
    OBVIOUS
  <1> QED BY <1>5, <1>6, <1>7, <1>9, <1>10, <1>11 DEF Silent, Harmless

\* A comment is made of its words, and of what begins and ends it.
LEMMA CommentIsSeq ==
  ASSUME NEW S, NEW m, NEW place, Slashes \in S, NewLine \in S,
         m.comment[1] = place => m.comment[2] \in Seq(S)
  PROVE  Comment(m, place) \in Seq(S)
  <1>1. <<Slashes>> \in Seq(S) /\ <<NewLine>> \in Seq(S) /\ <<>> \in Seq(S)
    OBVIOUS
  <1>2. CASE m.comment[1] = place
    <2>1. <<Slashes>> \o m.comment[2] \in Seq(S)
      BY <1>1, <1>2, ConcatProperties
    <2>2. <<Slashes>> \o m.comment[2] \o <<NewLine>> \in Seq(S)
      BY <1>1, <2>1, ConcatProperties
    <2> QED BY <1>2, <2>2 DEF Comment
  <1>3. CASE m.comment[1] # place
    BY <1>1, <1>3 DEF Comment
  <1> QED BY <1>2, <1>3

\* s begins with the first n ids, each before its comma.
Pairs(s, ids, n) ==
  /\ Len(s) = n + n
  /\ \A j \in 1 .. n : s[j + j - 1] = Number(ids[j]) /\ s[j + j] = Comma

\* One more pair.
LEMMA PairsGrow ==
  ASSUME NEW ids \in Seq(Int), NEW n \in 1 .. Len(ids), NEW s \in Seq(Numbers \cup {Comma}),
         Pairs(s, ids, n - 1)
  PROVE  Pairs(s \o <<Number(ids[n]), Comma>>, ids, n)
  <1>1. PICK pair : pair = <<Number(ids[n]), Comma>>
    OBVIOUS
  <1>2. Number(ids[n]) \in Numbers
    BY TokenFacts, ElementOfSeq
  <1>3. pair \in Seq(Numbers \cup {Comma}) /\ Len(pair) = 2 /\ pair[1] = Number(ids[n]) /\ pair[2] = Comma
    BY <1>1, <1>2
  <1>4. n \in Nat /\ n >= 1
    BY LenProperties
  <1>5. /\ Len(s \o pair) = n + n
        /\ \A j \in 1 .. n + n : (s \o pair)[j] = IF j <= n + n - 2 THEN s[j] ELSE pair[j - (n + n - 2)]
    <2>1. Len(s) = n + n - 2
      BY <1>4 DEF Pairs
    <2>2. Len(s \o pair) = Len(s) + Len(pair)
          /\ \A j \in 1 .. Len(s) + Len(pair) : (s \o pair)[j] = IF j <= Len(s) THEN s[j] ELSE pair[j - Len(s)]
      BY <1>3, ConcatProperties
    <2>3. PICK d : d = Len(s)
      OBVIOUS
    <2>4. PICK e : e = n + n
      OBVIOUS
    <2>5. d = n + n - 2 /\ d + 2 = e
      BY <1>4, <2>1, <2>3, <2>4
    <2>6. /\ Len(s \o pair) = d + 2
          /\ \A j \in 1 .. d + 2 : (s \o pair)[j] = IF j <= d THEN s[j] ELSE pair[j - d]
      BY <1>3, <2>2, <2>3
    <2>7. /\ Len(s \o pair) = e
          /\ \A j \in 1 .. e : (s \o pair)[j] = IF j <= d THEN s[j] ELSE pair[j - d]
      BY <2>5, <2>6
    <2> QED BY <2>4, <2>5, <2>7
  <1>6. ASSUME NEW j \in 1 .. n
        PROVE  (s \o pair)[j + j - 1] = Number(ids[j]) /\ (s \o pair)[j + j] = Comma
    <2>1. j + j - 1 \in 1 .. n + n /\ j + j \in 1 .. n + n
      BY <1>4
    <2>2. CASE j = n
      <3>1. j + j - 1 - (n + n - 2) = 1 /\ j + j - (n + n - 2) = 2
            /\ ~(j + j - 1 <= n + n - 2) /\ ~(j + j <= n + n - 2)
        BY <1>4, <2>2
      <3>2. PICK d, a, b : d = n + n - 2 /\ a = j + j - 1 /\ b = j + j
        OBVIOUS
      <3>3. \A q \in 1 .. n + n : (s \o pair)[q] = IF q <= d THEN s[q] ELSE pair[q - d]
        BY <1>5, <3>2
      <3>4. /\ a \in 1 .. n + n /\ b \in 1 .. n + n /\ ~(a <= d) /\ ~(b <= d)
            /\ a - d = 1 /\ b - d = 2
        BY <2>1, <3>1, <3>2
      <3>5. (s \o pair)[a] = pair[1] /\ (s \o pair)[b] = pair[2]
        BY <3>3, <3>4
      <3> QED BY <1>3, <2>2, <3>2, <3>5
    <2>3. CASE j # n
      <3>1. j \in 1 .. n - 1 /\ j + j - 1 <= n + n - 2 /\ j + j <= n + n - 2
        BY <1>4, <2>3
      <3> QED BY <1>5, <2>1, <3>1 DEF Pairs
    <2> QED BY <2>2, <2>3
  <1> QED BY <1>1, <1>5, <1>6 DEF Pairs

\* The ids of a list as its text has them.
LEMMA ListIsPairs ==
  ASSUME NEW ids \in Seq(Int), NEW pairs,
         pairs = FlattenSeq([n \in 1 .. Len(ids) |-> <<Number(ids[n]), Comma>>])
  PROVE  pairs \in Seq(Numbers \cup {Comma}) /\ Pairs(pairs, ids, Len(ids))
  <1> DEFINE T == Numbers \cup {Comma}
  <1>1. PICK L \in Nat : L = Len(ids)
    BY LenProperties
  <1>2. PICK parts : parts = [n \in 1 .. Len(ids) |-> <<Number(ids[n]), Comma>>]
    OBVIOUS
  <1>3. \A n \in 1 .. L : <<Number(ids[n]), Comma>> \in Seq(T)
    BY <1>1, TokenFacts, ElementOfSeq
  <1>4. parts \in Seq(Seq(T)) /\ Len(parts) = L
    BY <1>1, <1>2, <1>3
  <1>5. CASE L = 0
    <2>1. parts = <<>>
      BY <1>4, <1>5, EmptySeq
    <2>2. pairs = <<>>
      BY <1>2, <1>4, <1>5, <2>1 DEF FlattenSeq
    <2>3. Pairs(<<>>, ids, 0)
      BY DEF Pairs
    <2>4. <<>> \in Seq(T)
      OBVIOUS
    <2> QED BY <1>1, <1>5, <2>2, <2>3, <2>4
  <1>6. CASE L # 0
    <2>1. PICK flat \in [1 .. L -> Seq(T)] : Flattens(flat, parts, L)
      <3>1. L \in Nat \ {0}
        BY <1>6
      <3> HIDE DEF T
      <3> QED BY <1>4, <3>1, FlattenUnrolls
    <2> DEFINE Bad == {n \in 1 .. L : ~Pairs(flat[n], ids, n)}
    <2>2. ASSUME Bad # {} PROVE FALSE
      <3>1. PICK n \in Bad : \A m \in Bad : n <= m
        <4>1. Bad \subseteq Nat
          OBVIOUS
        <4> HIDE DEF Bad
        <4> QED BY <2>2, <4>1, LeastNumber
      <3>2. n \in 1 .. L /\ ~Pairs(flat[n], ids, n) /\ parts[n] = <<Number(ids[n]), Comma>>
        BY <1>1, <1>2, <3>1
      <3>3. CASE n = 1
        <4>1. Pairs(<<>> \o <<Number(ids[1]), Comma>>, ids, 1)
          <5>1. Pairs(<<>>, ids, 1 - 1) /\ 1 \in 1 .. Len(ids) /\ <<>> \in Seq(T)
            BY <1>1, <1>6 DEF Pairs
          <5> QED BY <5>1, PairsGrow
        <4>2. flat[n] = <<Number(ids[1]), Comma>>
          BY <2>1, <3>2, <3>3 DEF Flattens
        <4>3. <<>> \o <<Number(ids[1]), Comma>> = <<Number(ids[1]), Comma>>
          OBVIOUS
        <4> QED BY <3>2, <3>3, <4>1, <4>2, <4>3
      <3>4. CASE n # 1
        <4>1. n - 1 \in 1 .. L /\ n - 1 \notin Bad
          BY <3>1, <3>2, <3>4
        <4>2. Pairs(flat[n - 1], ids, n - 1) /\ flat[n - 1] \in Seq(T)
          BY <2>1, <4>1
        <4>3. Pairs(flat[n - 1] \o parts[n], ids, n)
          BY <1>1, <3>2, <4>2, PairsGrow
        <4> QED BY <2>1, <3>2, <3>4, <4>3 DEF Flattens
      <3> QED BY <3>3, <3>4
    <2>3. Pairs(flat[L], ids, L) /\ flat[L] \in Seq(T)
      <3>1. L \in 1 .. L
        BY <1>6
      <3> QED BY <2>1, <2>2, <3>1
    <2> QED BY <1>1, <1>2, <2>1, <2>3 DEF Flattens
  <1> QED BY <1>5, <1>6

\* v is the text of a list of ids, with a comment of c tokens at its beginning.
IsList(v, ids, c) ==
  /\ v[1] = Open /\ Len(v) = c + 2 + (Len(ids) + Len(ids)) /\ v[Len(v)] = Close
  /\ \A p \in 2 .. c + 1 : v[p] \in Silent
  /\ \A n \in 1 .. Len(ids) : v[c + n + n] = Number(ids[n]) /\ v[c + n + n + 1] = Comma
  /\ \A p \in 1 .. Len(v) : v[p] = Close => p = Len(v)

\* The text of a list is one.
LEMMA ListTextIsList ==
  ASSUME NEW m, Tame(m), m.value \in Lists
  PROVE  /\ ListText(m) \in Seq(Harmless)
         /\ m.value[2] \in Seq(Int)
         /\ \E c \in Nat : IsList(ListText(m), m.value[2], c)
  <1>1. PICK ids \in Seq(Int) : ids = m.value[2]
    BY DEF Lists
  <1>2. PICK C : C = Comment(m, "inside")
    OBVIOUS
  <1>3. C \in Seq(Silent)
    BY <1>2, TokenFacts, CommentIsSeq DEF Tame
  <1>4. PICK c \in Nat : c = Len(C)
    BY <1>3, LenProperties
  <1>5. PICK P : P = FlattenSeq([n \in 1 .. Len(ids) |-> <<Number(ids[n]), Comma>>])
    OBVIOUS
  <1>6. P \in Seq(Numbers \cup {Comma}) /\ Pairs(P, ids, Len(ids))
    BY <1>5, ListIsPairs
  <1>7. PICK L \in Nat : L = Len(ids)
    BY LenProperties
  <1>8. Len(P) = L + L /\ \A n \in 1 .. L : P[n + n - 1] = Number(ids[n]) /\ P[n + n] = Comma
    BY <1>6, <1>7 DEF Pairs
  <1>9. C \in Seq(Harmless) /\ P \in Seq(Harmless) /\ <<Open>> \in Seq(Harmless) /\ <<Close>> \in Seq(Harmless)
    <2>1. Silent \subseteq Harmless /\ Numbers \cup {Comma} \subseteq Harmless
          /\ Open \in Harmless /\ Close \in Harmless
      BY TokenFacts
    <2> QED BY <1>3, <1>6, <2>1, SeqMonotonic
  <1>10. PICK a1 : a1 = <<Open>> \o C
    OBVIOUS
  <1>11. /\ a1 \in Seq(Harmless) /\ Len(a1) = 1 + c /\ a1[1] = Open
         /\ \A p \in 2 .. c + 1 : a1[p] = C[p - 1]
    <2>1. /\ a1 \in Seq(Harmless) /\ Len(a1) = Len(<<Open>>) + Len(C)
          /\ \A p \in 1 .. Len(<<Open>>) + Len(C) :
               a1[p] = IF p <= Len(<<Open>>) THEN <<Open>>[p] ELSE C[p - Len(<<Open>>)]
      BY <1>9, <1>10, ConcatProperties
    <2>2. Len(<<Open>>) = 1 /\ <<Open>>[1] = Open
      OBVIOUS
    <2> QED BY <1>4, <2>1, <2>2
  <1>12. PICK a2 : a2 = a1 \o P
    OBVIOUS
  <1>13. /\ a2 \in Seq(Harmless) /\ Len(a2) = 1 + c + (L + L)
         /\ \A p \in 1 .. 1 + c + (L + L) : a2[p] = IF p <= 1 + c THEN a1[p] ELSE P[p - (1 + c)]
    <2>1. /\ a2 \in Seq(Harmless) /\ Len(a2) = Len(a1) + Len(P)
          /\ \A p \in 1 .. Len(a1) + Len(P) : a2[p] = IF p <= Len(a1) THEN a1[p] ELSE P[p - Len(a1)]
      BY <1>9, <1>11, <1>12, ConcatProperties
    <2> QED BY <1>8, <1>11, <2>1
  <1>14. PICK v : v = a2 \o <<Close>>
    OBVIOUS
  <1>15. /\ v \in Seq(Harmless) /\ Len(v) = c + 2 + (L + L) /\ v[c + 2 + (L + L)] = Close
         /\ \A p \in 1 .. 1 + c + (L + L) : v[p] = a2[p]
    <2>1. /\ v \in Seq(Harmless) /\ Len(v) = Len(a2) + Len(<<Close>>)
          /\ \A p \in 1 .. Len(a2) + Len(<<Close>>) :
               v[p] = IF p <= Len(a2) THEN a2[p] ELSE <<Close>>[p - Len(a2)]
      BY <1>9, <1>13, <1>14, ConcatProperties
    <2>2. Len(<<Close>>) = 1 /\ <<Close>>[1] = Close
      OBVIOUS
    <2>3. \A p \in 1 .. 2 + c + (L + L) : v[p] = IF p <= 1 + c + (L + L) THEN a2[p]
                                                 ELSE <<Close>>[p - (1 + c + (L + L))]
      BY <1>13, <2>1, <2>2
    <2>4. v[2 + c + (L + L)] = Close
      BY <2>2, <2>3
    <2> QED BY <1>13, <2>1, <2>2, <2>3, <2>4
  <1>16. v = ListText(m)
    BY <1>1, <1>2, <1>5, <1>10, <1>12, <1>14 DEF ListText
  <1>17. v[1] = Open
    <2>1. 1 \in 1 .. 1 + c + (L + L) /\ 1 <= 1 + c
      OBVIOUS
    <2> QED BY <1>11, <1>13, <1>15, <2>1
  <1>18. \A p \in 2 .. c + 1 : v[p] \in Silent
    <2> TAKE p \in 2 .. c + 1
    <2>1. v[p] = C[p - 1] /\ p - 1 \in 1 .. Len(C)
      BY <1>4, <1>11, <1>13, <1>15
    <2> QED BY <1>3, <2>1, ElementOfSeq
  <1>19. ASSUME NEW n \in 1 .. L PROVE v[c + n + n] = Number(ids[n]) /\ v[c + n + n + 1] = Comma
    <2>1. PICK a, b : a = c + n + n /\ b = c + n + n + 1
      OBVIOUS
    <2>2. /\ a \in 1 .. 1 + c + (L + L) /\ b \in 1 .. 1 + c + (L + L)
          /\ ~(a <= 1 + c) /\ ~(b <= 1 + c)
          /\ a - (1 + c) = n + n - 1 /\ b - (1 + c) = n + n
      BY <2>1
    <2>3. v[a] = P[n + n - 1] /\ v[b] = P[n + n]
      BY <1>13, <1>15, <2>2
    <2> QED BY <1>8, <2>1, <2>3
  <1>20. ASSUME NEW p \in 1 .. 1 + c + (L + L) PROVE v[p] # Close
    <2>1. CASE p = 1
      BY <1>17, <2>1 DEF Open, Close
    <2>2. CASE p \in 2 .. c + 1
      BY <1>18, <2>2, TokenFacts
    <2>3. CASE p > c + 1
      <3>1. v[p] = P[p - (1 + c)] /\ p - (1 + c) \in 1 .. Len(P)
        <4>1. ~(p <= 1 + c) /\ p - (1 + c) \in 1 .. L + L
          BY <2>3
        <4>2. v[p] = a2[p]
          BY <1>15
        <4>3. a2[p] = P[p - (1 + c)]
          BY <1>13, <4>1
        <4> QED BY <1>8, <4>1, <4>2, <4>3
      <3>2. v[p] \in Numbers \cup {Comma}
        BY <1>6, <3>1, ElementOfSeq
      <3>3. Comma # Close
        BY DEF Comma, Close
      <3> QED BY <3>2, <3>3, TokenFacts
    <2> QED BY <2>1, <2>2, <2>3
  <1>21. IsList(v, ids, c)
    <2>1. \A p \in 1 .. Len(v) : v[p] = Close => p = Len(v)
      BY <1>15, <1>20
    <2> QED BY <1>7, <1>15, <1>17, <1>18, <1>19, <2>1 DEF IsList
  <1> QED BY <1>1, <1>15, <1>16, <1>21

\* Of the text of a list the numbers are its ids.
LEMMA NumbersOfList ==
  ASSUME NEW v \in Seq(Harmless), NEW ids \in Seq(Int), NEW c \in Nat, IsList(v, ids, c)
  PROVE  Only(v, Numbers) = [n \in 1 .. Len(ids) |-> Number(ids[n])]
  <1>1. PICK L \in Nat : L = Len(ids)
    BY LenProperties
  <1>2. PICK M \in Nat : M = Len(v) /\ M = c + 2 + (L + L)
    BY <1>1 DEF IsList
  <1>3. PICK kept \in [0 .. M -> Seq(Harmless)] :
          /\ kept[0] = <<>> /\ Only(v, Numbers) = kept[M]
          /\ \A p \in 1 .. M : kept[p] = IF v[p] \in Numbers THEN Append(kept[p - 1], v[p]) ELSE kept[p - 1]
    <2>1. \E kept \in [0 .. M -> Seq(Harmless)] : Filters(kept, v, Numbers, M)
      BY <1>2, OnlyUnrolls
    <2> QED BY <2>1 DEF Filters
  <1>4. \A p \in 1 .. c + 1 : v[p] \notin Numbers
    <2> TAKE p \in 1 .. c + 1
    <2>1. Open \notin Numbers
      BY DEF Open, Numbers
    <2>2. CASE p = 1
      BY <2>1, <2>2 DEF IsList
    <2>3. CASE p # 1
      <3>1. v[p] \in Silent
        BY <2>3 DEF IsList
      <3> QED BY <3>1, TokenFacts
    <2> QED BY <2>2, <2>3
  <1>5. \A p \in 0 .. c + 1 : kept[p] = <<>>
    <2> DEFINE Bad == {p \in 0 .. c + 1 : kept[p] # <<>>}
    <2>1. ASSUME Bad # {} PROVE FALSE
      <3>1. PICK p \in Bad : \A q \in Bad : p <= q
        <4>1. Bad \subseteq Nat
          OBVIOUS
        <4> HIDE DEF Bad
        <4> QED BY <2>1, <4>1, LeastNumber
      <3>2. p # 0
        BY <1>3, <3>1
      <3>3. p \in 1 .. c + 1 /\ p \in 1 .. M /\ p - 1 \in 0 .. c + 1 /\ p - 1 \notin Bad
        BY <1>2, <3>1, <3>2
      <3>4. kept[p] = kept[p - 1]
        BY <1>3, <1>4, <3>3
      <3> QED BY <3>1, <3>3, <3>4
    <2> QED BY <2>1
  <1>6. ASSUME NEW n \in 1 .. L
        PROVE  kept[c + 1 + (n + n)] = Append(kept[c + 1 + (n - 1 + (n - 1))], Number(ids[n]))
    <2>1. PICK a, b, d : a = c + n + n /\ b = c + n + n + 1 /\ d = c + 1 + (n - 1 + (n - 1))
      OBVIOUS
    <2>2. a \in 1 .. M /\ b \in 1 .. M /\ b - 1 = a /\ a - 1 = d /\ c + 1 + (n + n) = b
      BY <1>2, <2>1
    <2>3. v[a] = Number(ids[n]) /\ v[b] = Comma
      BY <1>1, <2>1 DEF IsList
    <2>4. v[a] \in Numbers /\ v[b] \notin Numbers
      BY <1>1, <2>3, TokenFacts, ElementOfSeq
    <2>5. kept[b] = kept[a] /\ kept[a] = Append(kept[d], v[a])
      BY <1>3, <2>2, <2>4
    <2> QED BY <2>1, <2>2, <2>3, <2>5
  <1>7. \A n \in 0 .. L : kept[c + 1 + (n + n)] = [j \in 1 .. n |-> Number(ids[j])]
    <2> DEFINE Bad == {n \in 0 .. L : kept[c + 1 + (n + n)] # [j \in 1 .. n |-> Number(ids[j])]}
    <2>1. ASSUME Bad # {} PROVE FALSE
      <3>1. PICK n \in Bad : \A q \in Bad : n <= q
        <4>1. Bad \subseteq Nat
          OBVIOUS
        <4> HIDE DEF Bad
        <4> QED BY <2>1, <4>1, LeastNumber
      <3>2. CASE n = 0
        <4>1. kept[c + 1] = <<>> /\ c + 1 + (0 + 0) = c + 1
          BY <1>5
        <4>2. [j \in 1 .. 0 |-> Number(ids[j])] = <<>>
          OBVIOUS
        <4> QED BY <3>1, <3>2, <4>1, <4>2
      <3>3. CASE n # 0
        <4>1. n \in 1 .. L /\ n - 1 \in 0 .. L /\ n - 1 \notin Bad
          BY <3>1, <3>3
        <4>2. kept[c + 1 + (n - 1 + (n - 1))] = [j \in 1 .. n - 1 |-> Number(ids[j])]
          BY <4>1
        <4>3. kept[c + 1 + (n + n)] = Append([j \in 1 .. n - 1 |-> Number(ids[j])], Number(ids[n]))
          BY <1>6, <4>1, <4>2
        <4>4. Append([j \in 1 .. n - 1 |-> Number(ids[j])], Number(ids[n])) = [j \in 1 .. n |-> Number(ids[j])]
          BY <4>1
        <4> QED BY <3>1, <4>3, <4>4
      <3> QED BY <3>2, <3>3
    <2> QED BY <2>1
  <1>8. kept[M] = kept[c + 1 + (L + L)]
    <2>1. M \in 1 .. M /\ M - 1 = c + 1 + (L + L)
      BY <1>2
    <2>2. v[M] \notin Numbers
      BY <1>2, TokenFacts DEF IsList
    <2> QED BY <1>3, <2>1, <2>2
  <1>9. kept[c + 1 + (L + L)] = [j \in 1 .. L |-> Number(ids[j])]
    <2>1. L \in 0 .. L
      OBVIOUS
    <2> QED BY <1>7, <2>1
  <1> QED BY <1>1, <1>3, <1>8, <1>9

\* What stands after the ':' of a member.
ValueText(m) == IF m.value[1] = "list" THEN ListText(m) ELSE <<m.value>>

\* In s the member m stands with its key, ':' and value after b tokens, and nothing
\* else in s is a key.
Renders(s, m, b) ==
  /\ s \in Seq(Token) /\ b + 2 + Len(ValueText(m)) <= Len(s)
  /\ s[b + 1] = Quoted(m.key) /\ s[b + 2] = Colon
  /\ \A j \in 1 .. Len(ValueText(m)) : s[b + 2 + j] = ValueText(m)[j]
  /\ \A p \in 1 .. Len(s) : p # b + 1 => s[p] \in Harmless

\* A value begins neither with a comment nor with the end of a line.
LEMMA ValueTextFacts ==
  ASSUME NEW m, Tame(m)
  PROVE  /\ ValueText(m) \in Seq(Harmless) /\ Len(ValueText(m)) \in Nat \ {0}
         /\ ValueText(m)[1] # NewLine /\ ValueText(m)[1] # Slashes
         /\ m.value \notin Lists => ValueText(m) = <<m.value>>
         /\ m.value \in Lists => ValueText(m) = ListText(m)
  <1>1. m.value \in Strings \cup Numbers \cup Lists
    BY DEF Tame, Member
  <1>2. /\ \A x \in Strings : x[1] = "quoted"
        /\ \A x \in Numbers : x[1] = "number"
        /\ \A x \in Lists : x[1] = "list"
    BY DEF Strings, Numbers, Lists
  <1>3. NewLine[1] = "newline" /\ Slashes[1] = "slashes" /\ Open[1] = "open"
    BY DEF NewLine, Slashes, Open
  <1>4. CASE m.value \in Lists
    <2>1. ValueText(m) = ListText(m)
      BY <1>2, <1>4 DEF ValueText
    <2>2. ListText(m) \in Seq(Harmless) /\ m.value[2] \in Seq(Int)
      BY <1>4, ListTextIsList
    <2>3. PICK c \in Nat : IsList(ListText(m), m.value[2], c)
      BY <1>4, ListTextIsList
    <2>4. Len(ListText(m)) \in Nat \ {0} /\ ListText(m)[1] = Open
      <3>1. PICK k \in Nat : k = Len(m.value[2])
        BY <2>2, LenProperties
      <3>2. Len(ListText(m)) = c + 2 + (k + k) /\ ListText(m)[1] = Open
        BY <2>3, <3>1 DEF IsList
      <3> QED BY <3>2
    <2> QED BY <1>3, <1>4, <2>1, <2>2, <2>4
  <1>5. CASE m.value \notin Lists
    <2>1. m.value \in Strings \cup Numbers /\ m.value[1] \in {"quoted", "number"}
      BY <1>1, <1>2, <1>5
    <2>2. ValueText(m) = <<m.value>>
      BY <2>1 DEF ValueText
    <2>3. m.value \in Harmless
      BY <2>1 DEF Tame, Harmless, Token
    <2>4. m.value # NewLine /\ m.value # Slashes
      BY <1>3, <2>1
    <2> QED BY <1>5, <2>2, <2>3, <2>4
  <1> QED BY <1>4, <1>5

\* More text behind it changes nothing.
LEMMA RendersLonger ==
  ASSUME NEW m, Tame(m), NEW b \in Nat, NEW s, Renders(s, m, b), NEW t \in Seq(Harmless)
  PROVE  Renders(s \o t, m, b)
  <1>1. PICK w : w = s \o t
    OBVIOUS
  <1>2. t \in Seq(Token)
    BY TokenFacts, SeqMonotonic
  <1>3. /\ w \in Seq(Token) /\ Len(w) = Len(s) + Len(t) /\ Len(s) \in Nat /\ Len(t) \in Nat
        /\ \A p \in 1 .. Len(s) + Len(t) : w[p] = IF p <= Len(s) THEN s[p] ELSE t[p - Len(s)]
    BY <1>1, <1>2, ConcatProperties, LenProperties DEF Renders
  <1>4. \A p \in 1 .. Len(s) : w[p] = s[p]
    BY <1>3
  <1>5. PICK n \in Nat : n = Len(ValueText(m)) /\ b + 2 + n <= Len(s)
    BY ValueTextFacts DEF Renders
  <1>6. w[b + 1] = Quoted(m.key) /\ w[b + 2] = Colon
    <2>1. b + 1 \in 1 .. Len(s) /\ b + 2 \in 1 .. Len(s)
      BY <1>3, <1>5
    <2> QED BY <1>4, <2>1 DEF Renders
  <1>7. \A j \in 1 .. Len(ValueText(m)) : w[b + 2 + j] = ValueText(m)[j]
    <2> TAKE j \in 1 .. Len(ValueText(m))
    <2>1. b + 2 + j \in 1 .. Len(s)
      BY <1>3, <1>5
    <2> QED BY <1>4, <2>1 DEF Renders
  <1>8. \A p \in 1 .. Len(w) : p # b + 1 => w[p] \in Harmless
    <2> SUFFICES ASSUME NEW p \in 1 .. Len(w), p # b + 1 PROVE w[p] \in Harmless
      OBVIOUS
    <2>1. CASE p <= Len(s)
      <3>1. p \in 1 .. Len(s)
        BY <1>3, <2>1
      <3> QED BY <1>4, <3>1 DEF Renders
    <2>2. CASE ~(p <= Len(s))
      <3>1. w[p] = t[p - Len(s)] /\ p - Len(s) \in 1 .. Len(t)
        BY <1>3, <2>2
      <3> QED BY <3>1, ElementOfSeq
    <2> QED BY <2>1, <2>2
  <1>9. b + 2 + Len(ValueText(m)) <= Len(w)
    BY <1>3, <1>5
  <1> QED BY <1>1, <1>3, <1>6, <1>7, <1>8, <1>9 DEF Renders

\* The text of a member of a plain document.
LEMMA MemberTextRenders ==
  ASSUME NEW m, Tame(m)
  PROVE  \E b \in Nat : Renders(MemberText(m), m, b)
  <1>1. PICK B, W, A, V : /\ B = Comment(m, "before") /\ W = Comment(m, "between")
                          /\ A = Comment(m, "after") /\ V = ValueText(m)
    OBVIOUS
  <1>2. B \in Seq(Harmless) /\ A \in Seq(Harmless) /\ W = <<>>
    <2>1. Slashes \in Harmless /\ NewLine \in Harmless
      BY TokenFacts
    <2>2. B \in Seq(Harmless) /\ A \in Seq(Harmless)
      BY <1>1, <2>1, CommentIsSeq DEF Tame
    <2>3. W = <<>>
      BY <1>1 DEF Comment, Tame
    <2> QED BY <2>2, <2>3
  <1>3. PICK K : K = <<Quoted(m.key), Colon>>
    OBVIOUS
  <1>4. K \in Seq(Token) /\ Len(K) = 2 /\ K[1] = Quoted(m.key) /\ K[2] = Colon
    <2>1. m.key \in STRING
      BY DEF Tame, Member
    <2>2. Quoted(m.key) \in Token /\ Colon \in Token
      BY <2>1 DEF Token, Quoted, Strings
    <2> QED BY <1>3, <2>2
  <1>5. PICK b, n \in Nat : b = Len(B) /\ n = Len(V)
    BY <1>1, <1>2, LenProperties, ValueTextFacts
  <1>6. PICK s1 : s1 = B \o K
    OBVIOUS
  <1>7. B \in Seq(Token) /\ V \in Seq(Token) /\ V \in Seq(Harmless)
    BY <1>1, <1>2, TokenFacts, SeqMonotonic, ValueTextFacts
  <1>8. /\ s1 \in Seq(Token) /\ Len(s1) = b + 2 /\ s1[b + 1] = Quoted(m.key) /\ s1[b + 2] = Colon
        /\ \A p \in 1 .. b : s1[p] \in Harmless
    <2>1. /\ s1 \in Seq(Token) /\ Len(s1) = b + 2
          /\ \A p \in 1 .. b + 2 : s1[p] = IF p <= b THEN B[p] ELSE K[p - b]
      <3>1. /\ s1 \in Seq(Token) /\ Len(s1) = Len(B) + Len(K)
            /\ \A p \in 1 .. Len(B) + Len(K) : s1[p] = IF p <= Len(B) THEN B[p] ELSE K[p - Len(B)]
        BY <1>4, <1>6, <1>7, ConcatProperties
      <3> QED BY <1>4, <1>5, <3>1
    <2>2. s1[b + 1] = K[1] /\ s1[b + 2] = K[2]
      <3>1. PICK x, y : x = b + 1 /\ y = b + 2
        OBVIOUS
      <3>2. x \in 1 .. b + 2 /\ y \in 1 .. b + 2 /\ ~(x <= b) /\ ~(y <= b) /\ x - b = 1 /\ y - b = 2
        BY <3>1
      <3>3. s1[x] = K[1] /\ s1[y] = K[2]
        BY <2>1, <3>2
      <3> QED BY <3>1, <3>3
    <2>3. \A p \in 1 .. b : s1[p] = B[p] /\ B[p] \in Harmless
      <3> TAKE p \in 1 .. b
      <3>1. p \in 1 .. b + 2 /\ p <= b
        OBVIOUS
      <3> QED BY <1>2, <1>5, <2>1, <3>1, ElementOfSeq
    <2> QED BY <1>4, <2>1, <2>2, <2>3
  <1>9. PICK s3 : s3 = s1 \o V
    OBVIOUS
  <1>10. Renders(s3, m, b)
    <2>1. /\ s3 \in Seq(Token) /\ Len(s3) = b + 2 + n
          /\ \A p \in 1 .. b + 2 + n : s3[p] = IF p <= b + 2 THEN s1[p] ELSE V[p - (b + 2)]
      <3>1. /\ s3 \in Seq(Token) /\ Len(s3) = Len(s1) + Len(V)
            /\ \A p \in 1 .. Len(s1) + Len(V) : s3[p] = IF p <= Len(s1) THEN s1[p] ELSE V[p - Len(s1)]
        BY <1>7, <1>8, <1>9, ConcatProperties
      <3> QED BY <1>5, <1>8, <3>1
    <2>2. \A p \in 1 .. b + 2 : s3[p] = s1[p]
      BY <2>1
    <2>3. s3[b + 1] = Quoted(m.key) /\ s3[b + 2] = Colon
      <3>1. b + 1 \in 1 .. b + 2 /\ b + 2 \in 1 .. b + 2
        OBVIOUS
      <3> QED BY <1>8, <2>2, <3>1
    <2>4. ASSUME NEW j \in 1 .. n PROVE s3[b + 2 + j] = V[j]
      <3>1. PICK x : x = b + 2 + j
        OBVIOUS
      <3>2. x \in 1 .. b + 2 + n /\ ~(x <= b + 2) /\ x - (b + 2) = j
        BY <3>1
      <3> QED BY <2>1, <3>1, <3>2
    <2>5. ASSUME NEW p \in 1 .. b + 2 + n, p # b + 1 PROVE s3[p] \in Harmless
      <3>1. CASE p <= b
        BY <1>8, <2>2, <3>1
      <3>2. CASE p = b + 2
        BY <2>3, <3>2, TokenFacts
      <3>3. CASE p > b + 2
        <4>1. s3[p] = V[p - (b + 2)] /\ p - (b + 2) \in 1 .. n
          BY <2>1, <3>3
        <4> QED BY <1>5, <1>7, <4>1, ElementOfSeq
      <3> QED BY <2>5, <3>1, <3>2, <3>3
    <2> QED BY <1>1, <1>5, <2>1, <2>3, <2>4, <2>5 DEF Renders
  <1>11. MemberText(m) = ((s3 \o <<Comma>>) \o A) \o <<NewLine>>
    <2>1. s1 \o W = s1
      BY <1>2, <1>8, ConcatEmptySeq
    <2> QED BY <1>1, <1>3, <1>6, <1>9, <2>1 DEF MemberText, ValueText
  <1>12. <<Comma>> \in Seq(Harmless) /\ <<NewLine>> \in Seq(Harmless)
    <2>1. Comma \in Harmless /\ NewLine \in Harmless
      BY TokenFacts
    <2> QED BY <2>1
  <1>13. Renders(s3 \o <<Comma>>, m, b)
    BY <1>10, <1>12, RendersLonger
  <1>14. Renders((s3 \o <<Comma>>) \o A, m, b)
    BY <1>2, <1>13, RendersLonger
  <1>15. Renders(((s3 \o <<Comma>>) \o A) \o <<NewLine>>, m, b)
    BY <1>12, <1>14, RendersLonger
  <1> QED BY <1>11, <1>15

\* The members of a plain document are such members.
LEMMA PlainIsTame ==
  ASSUME NEW doc \in Document, Plain(doc)
  PROVE  \A n \in 1 .. Len(doc) : Tame(doc[n])
  <1> SUFFICES ASSUME NEW n \in 1 .. Len(doc) PROVE Tame(doc[n])
    OBVIOUS
  <1>1. PICK m : m = doc[n]
    OBVIOUS
  <1>2. m \in Member
    BY <1>1, ElementOfSeq DEF Document
  <1>3. /\ OfItsType(m.key, m.value) /\ m.value \notin {Quoted(k) : k \in Key} /\ m.comment[1] # "between"
        /\ \A t \in ToSet(m.comment[2]) : /\ t \notin {Quoted(k) : k \in Key}
                                          /\ m.comment[1] = "inside" => t[1] \notin {"number", "close"}
    BY <1>1 DEF Plain
  <1>4. PICK w : w = m.comment[2]
    OBVIOUS
  <1>5. w \in Seq(Token \ {NewLine})
    BY <1>2, <1>4 DEF Member
  <1>6. /\ Len(w) \in Nat /\ DOMAIN w = 1 .. Len(w) /\ w = [p \in 1 .. Len(w) |-> w[p]]
        /\ \A p \in 1 .. Len(w) : w[p] \in Token /\ w[p] \in ToSet(w)
    <2>1. Len(w) \in Nat /\ DOMAIN w = 1 .. Len(w) /\ w \in [1 .. Len(w) -> Token \ {NewLine}]
      BY <1>5, LenProperties
    <2>2. w = [p \in 1 .. Len(w) |-> w[p]] /\ \A p \in 1 .. Len(w) : w[p] \in Token
      BY <2>1
    <2> QED BY <2>1, <2>2 DEF ToSet
  <1>7. \A p \in 1 .. Len(w) : w[p] \in Harmless /\ (m.comment[1] = "inside" => w[p] \in Silent)
    BY <1>3, <1>4, <1>6 DEF Harmless, Silent
  <1>8. w \in Seq(Harmless)
    <2>1. [p \in 1 .. Len(w) |-> w[p]] \in Seq(Harmless)
      BY <1>6, <1>7
    <2> QED BY <1>6, <2>1
  <1>9. m.comment[1] = "inside" => w \in Seq(Silent)
    <2> SUFFICES ASSUME m.comment[1] = "inside" PROVE w \in Seq(Silent)
      OBVIOUS
    <2>1. [p \in 1 .. Len(w) |-> w[p]] \in Seq(Silent)
      BY <1>6, <1>7
    <2> QED BY <1>6, <2>1
  <1> QED BY <1>1, <1>2, <1>3, <1>4, <1>8, <1>9 DEF Tame

\* From place q on stand the key, the ':' and the value of m.
Stands(t, q, m) ==
  /\ q + 1 + Len(ValueText(m)) <= Len(t)
  /\ t[q] = Quoted(m.key) /\ t[q + 1] = Colon
  /\ \A j \in 1 .. Len(ValueText(m)) : t[q + 1 + j] = ValueText(m)[j]

\* In t, k stands where one of the first n members has it, and nowhere else.
KeyFound(t, doc, n, k) ==
  /\ \A q \in 1 .. Len(t) : t[q] = Quoted(k) =>
       \E j \in 1 .. n : doc[j].key = k /\ Stands(t, q, doc[j])
  /\ \A j \in 1 .. n : doc[j].key = k => \E q \in 1 .. Len(t) : t[q] = Quoted(k)

\* One more member.
LEMMA KeyFoundGrows ==
  ASSUME NEW k \in Key, NEW doc, NEW n \in Nat \ {0}, \A j \in 1 .. n : Tame(doc[j]),
         NEW t \in Seq(Token), KeyFound(t, doc, n - 1, k)
  PROVE  /\ MemberText(doc[n]) \in Seq(Token)
         /\ KeyFound(t \o MemberText(doc[n]), doc, n, k)
  <1>1. PICK m : m = doc[n] /\ Tame(m)
    OBVIOUS
  <1>2. PICK s : s = MemberText(m)
    OBVIOUS
  <1>3. PICK b \in Nat : Renders(s, m, b)
    BY <1>1, <1>2, MemberTextRenders
  <1>4. s \in Seq(Token)
    BY <1>3 DEF Renders
  <1>5. PICK w : w = t \o s
    OBVIOUS
  <1>6. PICK lt, ls \in Nat : lt = Len(t) /\ ls = Len(s)
    BY <1>4, LenProperties
  <1>7. /\ w \in Seq(Token) /\ Len(w) = lt + ls
        /\ \A p \in 1 .. lt + ls : w[p] = IF p <= lt THEN t[p] ELSE s[p - lt]
    <2>1. /\ w \in Seq(Token) /\ Len(w) = Len(t) + Len(s)
          /\ \A p \in 1 .. Len(t) + Len(s) : w[p] = IF p <= Len(t) THEN t[p] ELSE s[p - Len(t)]
      BY <1>4, <1>5, ConcatProperties
    <2> QED BY <1>6, <2>1
  <1>8. \A p \in 1 .. lt : w[p] = t[p]
    BY <1>7
  <1>9. \A p \in 1 .. ls : w[lt + p] = s[p]
    <2> TAKE p \in 1 .. ls
    <2>1. PICK x : x = lt + p
      OBVIOUS
    <2>2. x \in 1 .. lt + ls /\ ~(x <= lt) /\ x - lt = p
      BY <2>1
    <2> QED BY <1>7, <2>1, <2>2
  <1>10. PICK len \in Nat \ {0} : len = Len(ValueText(m)) /\ b + 2 + len <= ls
    BY <1>1, <1>3, <1>6, ValueTextFacts DEF Renders
  <1>11. Stands(w, lt + b + 1, m)
    <2>1. w[lt + (b + 1)] = Quoted(m.key) /\ w[lt + (b + 2)] = Colon
      <3>1. b + 1 \in 1 .. ls /\ b + 2 \in 1 .. ls
        BY <1>10
      <3> QED BY <1>3, <1>9, <3>1 DEF Renders
    <2>2. ASSUME NEW j \in 1 .. len PROVE w[lt + (b + 2 + j)] = ValueText(m)[j]
      <3>1. b + 2 + j \in 1 .. ls
        BY <1>10
      <3> QED BY <1>3, <1>9, <1>10, <3>1 DEF Renders
    <2>3. /\ lt + (b + 1) = lt + b + 1 /\ lt + (b + 2) = lt + b + 1 + 1
          /\ \A j \in 1 .. len : lt + (b + 2 + j) = lt + b + 1 + 1 + j
      OBVIOUS
    <2>4. lt + b + 1 + 1 + len <= lt + ls
      BY <1>10
    <2> QED BY <1>7, <1>10, <2>1, <2>2, <2>3, <2>4 DEF Stands
  <1>12. ASSUME NEW q \in 1 .. Len(w), w[q] = Quoted(k)
         PROVE  \E j \in 1 .. n : doc[j].key = k /\ Stands(w, q, doc[j])
    <2>1. CASE q <= lt
      <3>1. q \in 1 .. Len(t) /\ t[q] = Quoted(k)
        BY <1>6, <1>8, <1>12, <2>1
      <3>2. PICK j \in 1 .. n - 1 : doc[j].key = k /\ Stands(t, q, doc[j])
        BY <3>1 DEF KeyFound
      <3>3. j \in 1 .. n /\ Tame(doc[j])
        OBVIOUS
      <3>4. PICK h \in Nat \ {0} : h = Len(ValueText(doc[j])) /\ q + 1 + h <= lt
        BY <1>6, <3>2, <3>3, ValueTextFacts DEF Stands
      <3>5. \A p \in 1 .. h : q + 1 + p \in 1 .. lt
        BY <3>1, <3>4
      <3>6. q \in 1 .. lt /\ q + 1 \in 1 .. lt /\ q + 1 + h <= lt + ls
        BY <3>1, <3>4
      <3>7. Stands(w, q, doc[j])
        BY <1>7, <1>8, <3>2, <3>4, <3>5, <3>6 DEF Stands
      <3> QED BY <3>2, <3>3, <3>7
    <2>2. CASE ~(q <= lt)
      <3>1. PICK p : p = q - lt
        OBVIOUS
      <3>2. p \in 1 .. ls /\ lt + p = q
        BY <1>7, <2>2, <3>1
      <3>3. s[p] = Quoted(k)
        BY <1>9, <1>12, <3>2
      <3>4. s[p] \notin Harmless
        BY <3>3 DEF Harmless
      <3>5. p = b + 1 /\ s[p] = Quoted(m.key)
        BY <1>3, <1>6, <3>2, <3>4 DEF Renders
      <3>6. m.key = k
        <4>1. Quoted(m.key)[2] = m.key /\ Quoted(k)[2] = k
          BY DEF Quoted
        <4> QED BY <3>3, <3>5, <4>1
      <3>7. q = lt + b + 1
        BY <3>2, <3>5
      <3> QED BY <1>1, <1>11, <3>6, <3>7
    <2> QED BY <2>1, <2>2
  <1>13. ASSUME NEW j \in 1 .. n, doc[j].key = k
         PROVE  \E q \in 1 .. Len(w) : w[q] = Quoted(k)
    <2>1. CASE j = n
      <3>1. lt + b + 1 \in 1 .. lt + ls
        BY <1>10
      <3>2. w[lt + b + 1] = Quoted(k)
        BY <1>1, <1>11, <1>13, <2>1 DEF Stands
      <3> QED BY <1>7, <3>1, <3>2
    <2>2. CASE j # n
      <3>1. j \in 1 .. n - 1
        BY <2>2
      <3>2. PICK q \in 1 .. Len(t) : t[q] = Quoted(k)
        BY <1>13, <3>1 DEF KeyFound
      <3>3. q \in 1 .. lt + ls
        BY <1>6
      <3> QED BY <1>6, <1>7, <1>8, <3>2, <3>3
    <2> QED BY <2>1, <2>2
  <1>14. KeyFound(w, doc, n, k)
    BY <1>12, <1>13 DEF KeyFound
  <1> QED BY <1>1, <1>2, <1>4, <1>5, <1>14

\* In the text of a plain document a key stands where its member has it.
LEMMA TextFindsKeys ==
  ASSUME NEW doc \in Document, Plain(doc), NEW k \in Key
  PROVE  Text(doc) \in Seq(Token) /\ KeyFound(Text(doc), doc, Len(doc), k)
  <1>1. PICK L \in Nat : L = Len(doc)
    BY LenProperties DEF Document
  <1>2. \A n \in 1 .. L : Tame(doc[n])
    BY <1>1, PlainIsTame
  <1>3. PICK parts : parts = [n \in 1 .. Len(doc) |-> MemberText(doc[n])]
    OBVIOUS
  <1>4. Text(doc) = FlattenSeq(parts)
    BY <1>3 DEF Text
  <1>5. \A n \in 1 .. L : MemberText(doc[n]) \in Seq(Token)
    <2> TAKE n \in 1 .. L
    <2>1. PICK b \in Nat : Renders(MemberText(doc[n]), doc[n], b)
      BY <1>2, MemberTextRenders
    <2> QED BY <2>1 DEF Renders
  <1>6. parts \in Seq(Seq(Token)) /\ Len(parts) = L
    BY <1>1, <1>3, <1>5
  <1>7. CASE L = 0
    <2>1. parts = <<>>
      BY <1>6, <1>7, EmptySeq
    <2>2. Text(doc) = <<>>
      BY <1>4, <1>6, <1>7, <2>1 DEF FlattenSeq
    <2>3. KeyFound(<<>>, doc, 0, k)
      BY DEF KeyFound
    <2> QED BY <1>1, <1>7, <2>2, <2>3
  <1>8. CASE L # 0
    <2>1. PICK flat \in [1 .. L -> Seq(Token)] : Flattens(flat, parts, L)
      <3>1. L \in Nat \ {0}
        BY <1>8
      <3> QED BY <1>6, <3>1, FlattenUnrolls
    <2> DEFINE Bad == {n \in 1 .. L : ~KeyFound(flat[n], doc, n, k)}
    <2>2. ASSUME Bad # {} PROVE FALSE
      <3>1. PICK n \in Bad : \A j \in Bad : n <= j
        <4>1. Bad \subseteq Nat
          OBVIOUS
        <4> HIDE DEF Bad
        <4> QED BY <2>2, <4>1, LeastNumber
      <3>2. n \in 1 .. L /\ ~KeyFound(flat[n], doc, n, k) /\ parts[n] = MemberText(doc[n])
        BY <1>1, <1>3, <3>1
      <3>3. n \in Nat \ {0} /\ \A j \in 1 .. n : Tame(doc[j])
        BY <1>2, <3>2
      <3>4. CASE n = 1
        <4>1. KeyFound(<<>>, doc, n - 1, k) /\ <<>> \in Seq(Token)
          BY <3>4 DEF KeyFound
        <4>2. KeyFound(<<>> \o parts[n], doc, n, k)
          BY <3>2, <3>3, <4>1, KeyFoundGrows
        <4>3. <<>> \o parts[n] = parts[n]
          BY <1>5, <3>2, ConcatEmptySeq
        <4>4. flat[n] = parts[n]
          BY <2>1, <3>4 DEF Flattens
        <4> QED BY <3>2, <4>2, <4>3, <4>4
      <3>5. CASE n # 1
        <4>1. n - 1 \in 1 .. L /\ n - 1 \notin Bad
          BY <3>1, <3>2, <3>5
        <4>2. KeyFound(flat[n - 1], doc, n - 1, k) /\ flat[n - 1] \in Seq(Token)
          BY <2>1, <4>1
        <4>3. KeyFound(flat[n - 1] \o parts[n], doc, n, k)
          BY <3>2, <3>3, <4>2, KeyFoundGrows
        <4> QED BY <2>1, <3>2, <3>5, <4>3 DEF Flattens
      <3> QED BY <3>4, <3>5
    <2>3. L \in 1 .. L
      BY <1>8
    <2>4. KeyFound(flat[L], doc, L, k) /\ flat[L] \in Seq(Token)
      BY <2>1, <2>2, <2>3
    <2> QED BY <1>1, <1>4, <2>1, <2>4 DEF Flattens
  <1> QED BY <1>7, <1>8

-----------------------------------------------------------------------------
(* What the scanner reads *)

\* A search that meets nothing.
LEMMA FindMisses ==
  ASSUME NEW text, NEW tokens, NEW from, \A p \in from .. Len(text) : text[p] \notin tokens
  PROVE  Find(text, tokens, from) = None
  <1>1. {p \in from .. Len(text) : text[p] \in tokens} = {}
    OBVIOUS
  <1> QED BY <1>1 DEF Find

\* A search that meets something stops at the first of it.
LEMMA FindHits ==
  ASSUME NEW text, NEW tokens, NEW from \in Nat \ {0}, Len(text) \in Nat,
         NEW p \in from .. Len(text), text[p] \in tokens
  PROVE  /\ Find(text, tokens, from) \in from .. Len(text)
         /\ text[Find(text, tokens, from)] \in tokens
         /\ \A q \in from .. Len(text) : text[q] \in tokens => Find(text, tokens, from) <= q
  <1>1. PICK hits : hits = {q \in from .. Len(text) : text[q] \in tokens}
    OBVIOUS
  <1>2. hits # {} /\ hits \subseteq Nat
    BY <1>1
  <1>3. \E q \in hits : \A r \in hits : q <= r
    BY <1>2, LeastNumber
  <1>4. PICK first : first = CHOOSE q \in hits : \A r \in hits : q <= r
    OBVIOUS
  <1>5. first \in hits /\ \A r \in hits : first <= r
    BY <1>3, <1>4
  <1>6. Find(text, tokens, from) = first
    BY <1>1, <1>2, <1>4 DEF Find
  <1> QED BY <1>1, <1>5, <1>6

\* What is sought stands where the search begins.
LEMMA FindHere ==
  ASSUME NEW text, NEW tokens, NEW from \in Nat \ {0}, Len(text) \in Nat,
         from <= Len(text), text[from] \in tokens
  PROVE  Find(text, tokens, from) = from
  <1>1. from \in from .. Len(text)
    OBVIOUS
  <1>2. Find(text, tokens, from) \in from .. Len(text) /\ Find(text, tokens, from) <= from
    BY <1>1, FindHits
  <1> QED BY <1>2

\* A key that no member has is not found.
LEMMA AbsentKey ==
  ASSUME NEW doc \in Document, Plain(doc), NEW k \in Key, \A n \in 1 .. Len(doc) : doc[n].key # k
  PROVE  KeyAt(Text(doc), k) = None
  <1>1. KeyFound(Text(doc), doc, Len(doc), k)
    BY TextFindsKeys
  <1>2. \A p \in 1 .. Len(Text(doc)) : Text(doc)[p] \notin {Quoted(k)}
    BY <1>1 DEF KeyFound
  <1> QED BY <1>2, FindMisses DEF KeyAt

\* A key is found where its member stands, and its value two tokens later.
LEMMA PresentKey ==
  ASSUME NEW doc \in Document, Plain(doc), NEW n \in 1 .. Len(doc), doc[n].key \in Key
  PROVE  \E q \in Nat \ {0} :
           /\ KeyAt(Text(doc), doc[n].key) = q /\ Stands(Text(doc), q, doc[n])
           /\ ValueAt(Text(doc), doc[n].key) = q + 2
           /\ Text(doc) \in Seq(Token) /\ Tame(doc[n])
  <1>1. PICK t, k, m : t = Text(doc) /\ m = doc[n] /\ k = m.key
    OBVIOUS
  <1>2. t \in Seq(Token) /\ KeyFound(t, doc, Len(doc), k) /\ k \in Key
    BY <1>1, TextFindsKeys
  <1>3. PICK len \in Nat : len = Len(t)
    BY <1>2, LenProperties
  <1>4. Tame(m)
    BY <1>1, PlainIsTame
  <1>5. PICK q : q = KeyAt(t, k)
    OBVIOUS
  <1>6. q \in 1 .. len /\ t[q] = Quoted(k)
    <2>1. PICK p \in 1 .. len : t[p] \in {Quoted(k)}
      BY <1>1, <1>2, <1>3 DEF KeyFound
    <2>2. 1 \in Nat \ {0} /\ Len(t) \in Nat /\ p \in 1 .. Len(t)
      BY <1>3, <2>1
    <2>3. Find(t, {Quoted(k)}, 1) \in 1 .. Len(t) /\ t[Find(t, {Quoted(k)}, 1)] \in {Quoted(k)}
      BY <2>1, <2>2, FindHits
    <2> QED BY <1>3, <1>5, <2>3 DEF KeyAt
  <1>7. Stands(t, q, m)
    <2>1. PICK j \in 1 .. Len(doc) : doc[j].key = k /\ Stands(t, q, doc[j])
      BY <1>2, <1>3, <1>6 DEF KeyFound
    <2>2. j = n
      BY <1>1, <2>1 DEF Plain
    <2> QED BY <1>1, <2>1, <2>2
  <1>8. PICK h \in Nat \ {0} : h = Len(ValueText(m)) /\ q + 1 + h <= len
    BY <1>3, <1>4, <1>7, ValueTextFacts DEF Stands
  <1>9. t[q + 1] = Colon /\ t[q + 2] = ValueText(m)[1]
    <2>1. 1 \in 1 .. h /\ q + 1 + 1 = q + 2
      BY <1>6, <1>8
    <2> QED BY <1>7, <1>8, <2>1 DEF Stands
  <1>10. Find(t, {Colon}, q + 1) = q + 1
    <2>1. q + 1 \in Nat \ {0} /\ Len(t) \in Nat /\ q + 1 <= Len(t) /\ t[q + 1] \in {Colon}
      BY <1>3, <1>6, <1>8, <1>9
    <2> QED BY <2>1, FindHere
  <1>11. Find(t, {t[j] : j \in 1 .. Len(t)} \ {NewLine}, q + 2) = q + 2
    <2>1. q + 2 \in Nat \ {0} /\ Len(t) \in Nat /\ q + 2 <= Len(t) /\ q + 2 \in 1 .. Len(t)
      BY <1>3, <1>6, <1>8
    <2>2. t[q + 2] \in {t[j] : j \in 1 .. Len(t)} \ {NewLine}
      BY <1>4, <1>9, <2>1, ValueTextFacts
    <2> QED BY <2>1, <2>2, FindHere
  <1>12. SkipComment(t, q + 2) = q + 2
    BY <1>4, <1>9, ValueTextFacts DEF SkipComment
  <1>13. ValueAt(t, k) = q + 2
    <2>1. q + 1 + 1 = q + 2 /\ q # None /\ q + 1 # None /\ q + 2 # None
      BY <1>6 DEF None
    <2> QED BY <1>5, <1>10, <1>11, <1>12, <2>1 DEF ValueAt
  <1>14. q \in Nat \ {0}
    BY <1>6
  <1> QED BY <1>1, <1>2, <1>4, <1>5, <1>7, <1>13, <1>14

\* The kinds of the keys, and what load_config does for each.
LEMMA AssignedKinds ==
  ASSUME NEW t, NEW k \in Key, NEW old
  PROVE  /\ k = "formats" => Assigned(t, k, old) = IF GetIntArray(t, k) = <<>> THEN old ELSE GetIntArray(t, k)
         /\ k = "verbose" => Assigned(t, k, old) = IF GetString(t, k) = "" THEN "file" ELSE GetString(t, k)
         /\ k = "pitch_width_um" => Assigned(t, k, old) = GetDouble(t, k)
         /\ k \in StringKeys \ {"verbose"} => Assigned(t, k, old) = GetString(t, k)
         /\ k \in IntKeys => Assigned(t, k, old) = GetInt(t, k)
  BY DEF Assigned, IntKeys, StringKeys

\* The kinds of the keys, and what is meant where nothing is said.
LEMMA UnsaidKinds ==
  ASSUME NEW k \in Key
  PROVE  /\ k = "verbose" => Unsaid(k) = "file"
         /\ k \in StringKeys \ {"verbose"} => Unsaid(k) = ""
         /\ k = "formats" => Unsaid(k) = <<>>
         /\ k \in IntKeys \cup {"pitch_width_um"} => Unsaid(k) = Fallback(k)
  BY DEF Unsaid, IntKeys, StringKeys

\* Every key is of one kind.
LEMMA KeyKinds ==
  /\ Key = IntKeys \cup StringKeys \cup {"pitch_width_um", "formats"}
  /\ "verbose" \in StringKeys
  /\ \A k \in IntKeys : k \notin StringKeys /\ k # "pitch_width_um" /\ k # "formats"
  /\ \A k \in StringKeys : k # "pitch_width_um" /\ k # "formats"
  BY DEF Key, IntKeys, StringKeys

\* What is not in the document is read as what is meant.
LEMMA AbsentIsMeant ==
  ASSUME NEW doc \in Document, Plain(doc), NEW k \in Key, \A n \in 1 .. Len(doc) : doc[n].key # k
  PROVE  Assigned(Text(doc), k, StructDefault[k]) = Meant(doc, k)
  <1>1. PICK t, old : t = Text(doc) /\ old = StructDefault[k]
    OBVIOUS
  <1>2. KeyAt(t, k) = None
    BY <1>1, AbsentKey
  <1>3. ValueAt(t, k) = None
    BY <1>2 DEF ValueAt
  <1>4. GetInt(t, k) = Fallback(k) /\ GetDouble(t, k) = Fallback(k) /\ GetString(t, k) = ""
    BY <1>3 DEF GetInt, GetDouble, GetString
  <1>5. GetIntArray(t, k) = <<>>
    BY <1>2 DEF GetIntArray
  <1>6. {n \in 1 .. Len(doc) : doc[n].key = k} = {}
    OBVIOUS
  <1>7. Meant(doc, k) = Unsaid(k)
    BY <1>6 DEF Meant
  <1>8. k = "formats" => old = <<>>
    BY <1>1 DEF StructDefault
  <1>9. CASE k = "formats"
    <2>1. Assigned(t, k, old) = old
      BY <1>5, <1>9, AssignedKinds
    <2>2. Unsaid(k) = <<>>
      BY <1>9, UnsaidKinds
    <2> QED BY <1>1, <1>7, <1>8, <1>9, <2>1, <2>2
  <1>10. CASE k = "verbose"
    <2>1. Assigned(t, k, old) = "file"
      BY <1>4, <1>10, AssignedKinds
    <2>2. Unsaid(k) = "file"
      BY <1>10, UnsaidKinds
    <2> QED BY <1>1, <1>7, <2>1, <2>2
  <1>11. CASE k = "pitch_width_um"
    <2>1. Assigned(t, k, old) = Fallback(k)
      BY <1>4, <1>11, AssignedKinds
    <2>2. Unsaid(k) = Fallback(k)
      BY <1>11, UnsaidKinds
    <2> QED BY <1>1, <1>7, <2>1, <2>2
  <1>12. CASE k \in StringKeys \ {"verbose"}
    <2>1. Assigned(t, k, old) = ""
      BY <1>4, <1>12, AssignedKinds
    <2>2. Unsaid(k) = ""
      BY <1>12, UnsaidKinds
    <2> QED BY <1>1, <1>7, <2>1, <2>2
  <1>13. CASE k \in IntKeys
    <2>1. Assigned(t, k, old) = Fallback(k)
      BY <1>4, <1>13, AssignedKinds
    <2>2. Unsaid(k) = Fallback(k)
      BY <1>13, UnsaidKinds
    <2> QED BY <1>1, <1>7, <2>1, <2>2
  <1> QED BY <1>9, <1>10, <1>11, <1>12, <1>13, KeyKinds

\* What value v says of key k.
Said(k, v) ==
  IF v \in {Quoted(""), List(<<>>)} THEN Unsaid(k)
  ELSE IF k = "pitch_width_um" THEN <<v[2], v[3]>> ELSE v[2]

\* What a member says is what is meant.
LEMMA MeantIsSaid ==
  ASSUME NEW doc \in Document, Plain(doc), NEW n \in 1 .. Len(doc)
  PROVE  Meant(doc, doc[n].key) = Said(doc[n].key, doc[n].value)
  <1>1. PICK at, k, v : at = {j \in 1 .. Len(doc) : doc[j].key = k} /\ k = doc[n].key /\ v = doc[n].value
    OBVIOUS
  <1>2. at = {n}
    BY <1>1 DEF Plain
  <1>3. (CHOOSE j \in at : TRUE) = n /\ at # {}
    BY <1>2
  <1> QED BY <1>1, <1>3 DEF Meant, Said

\* The ids of a list are read one by one.
LEMMA ListIsRead ==
  ASSUME NEW doc \in Document, Plain(doc), NEW n \in 1 .. Len(doc), doc[n].key = "formats"
  PROVE  /\ doc[n].value \in Lists
         /\ GetIntArray(Text(doc), "formats") = doc[n].value[2]
  <1>1. PICK t, m : t = Text(doc) /\ m = doc[n]
    OBVIOUS
  <1>2. "formats" \in Key
    BY KeyKinds
  <1>3. PICK q \in Nat \ {0} : /\ KeyAt(t, "formats") = q /\ Stands(t, q, m)
                               /\ t \in Seq(Token) /\ Tame(m)
    BY <1>1, <1>2, PresentKey
  <1>4. m.value \in Lists /\ \A j \in 1 .. Len(m.value[2]) : m.value[2][j] >= 0
    BY <1>1, <1>3 DEF Tame, OfItsType
  <1>5. PICK v, ids : v = ListText(m) /\ ids = m.value[2]
    OBVIOUS
  <1>6. /\ v \in Seq(Harmless) /\ ids \in Seq(Int) /\ v = ValueText(m)
        /\ \E c \in Nat : IsList(v, ids, c)
    BY <1>3, <1>4, <1>5, ListTextIsList, ValueTextFacts
  <1>7. PICK c \in Nat : IsList(v, ids, c)
    BY <1>6
  <1>8. PICK len, h, L \in Nat : len = Len(t) /\ h = Len(v) /\ L = Len(ids)
    BY <1>3, <1>6, LenProperties
  <1>9. /\ h # 0 /\ q + 1 + h <= len /\ t[q + 1] = Colon
        /\ \A j \in 1 .. h : t[q + 1 + j] = v[j]
    <2>1. h = c + 2 + (L + L)
      BY <1>7, <1>8 DEF IsList
    <2> QED BY <1>3, <1>6, <1>8, <2>1 DEF Stands
  <1>10. Find(t, {Open}, q + 1) = q + 2
    <2>1. t[q + 2] = Open
      <3>1. 1 \in 1 .. h /\ q + 1 + 1 = q + 2
        BY <1>9
      <3> QED BY <1>7, <1>9, <3>1 DEF IsList
    <2>2. q + 2 \in q + 1 .. Len(t) /\ q + 1 \in Nat \ {0} /\ Len(t) \in Nat /\ t[q + 2] \in {Open}
      BY <1>8, <1>9, <2>1
    <2>3. PICK p : p = Find(t, {Open}, q + 1)
      OBVIOUS
    <2>4. p \in q + 1 .. Len(t) /\ t[p] \in {Open} /\ p <= q + 2
      BY <2>2, <2>3, FindHits
    <2>5. p # q + 1
      BY <1>9, <2>4 DEF Open, Colon
    <2> QED BY <2>3, <2>4, <2>5
  <1>11. Find(t, {Close}, q + 2) = q + 1 + h
    <2>1. PICK e : e = q + 1 + h
      OBVIOUS
    <2>2. t[e] = Close
      <3>1. h \in 1 .. h
        BY <1>8, <1>9
      <3> QED BY <1>7, <1>8, <1>9, <2>1, <3>1 DEF IsList
    <2>3. e \in q + 2 .. Len(t) /\ q + 2 \in Nat \ {0} /\ Len(t) \in Nat /\ t[e] \in {Close}
      BY <1>8, <1>9, <2>1, <2>2
    <2>4. PICK p : p = Find(t, {Close}, q + 2)
      OBVIOUS
    <2>5. p \in q + 2 .. Len(t) /\ t[p] \in {Close} /\ p <= e
      BY <2>3, <2>4, FindHits
    <2>6. PICK j : j = p - (q + 1)
      OBVIOUS
    <2>7. j \in 1 .. h /\ q + 1 + j = p
      BY <1>8, <2>1, <2>5, <2>6
    <2>8. v[j] = Close
      BY <1>9, <2>5, <2>7
    <2>9. j = h
      BY <1>7, <1>8, <2>7, <2>8 DEF IsList
    <2> QED BY <2>1, <2>4, <2>7, <2>9
  <1>12. SubSeq(t, q + 2, q + 1 + h) = v
    <2>1. PICK a, b \in Int : a = q + 2 /\ b = q + 1 + h
      BY <1>8
    <2>2. \A p \in a .. b : t[p] \in Token
      <3> TAKE p \in a .. b
      <3>1. p \in 1 .. Len(t)
        BY <1>8, <1>9, <2>1
      <3> QED BY <1>3, <3>1, ElementOfSeq
    <2>3. PICK w : w = SubSeq(t, a, b)
      OBVIOUS
    <2>4. w \in Seq(Token) /\ Len(w) = (IF a <= b THEN b - a + 1 ELSE 0)
          /\ \A p \in 1 .. b - a + 1 : w[p] = t[a + p - 1]
      BY <2>2, <2>3, SubSeqProperties, SMTT(30)
    <2>5. b - a + 1 = h /\ a <= b
      BY <1>8, <1>9, <2>1
    <2>6. \A p \in 1 .. h : w[p] = v[p]
      <3> TAKE p \in 1 .. h
      <3>1. a + p - 1 = q + 1 + p
        BY <2>1
      <3>2. w[p] = t[a + p - 1]
        BY <2>4, <2>5
      <3> QED BY <1>9, <3>1, <3>2
    <2>7. v \in Seq(Token)
      BY <1>6, TokenFacts, SeqMonotonic
    <2>8. w = v
      BY <1>8, <2>4, <2>5, <2>6, <2>7, SeqEqual
    <2> QED BY <2>1, <2>3, <2>8
  <1>13. PICK runs : runs = Only(v, Numbers)
    OBVIOUS
  <1>14. runs = [j \in 1 .. L |-> Number(ids[j])]
    BY <1>6, <1>7, <1>8, <1>13, NumbersOfList
  <1>15. Len(runs) = L /\ \A j \in 1 .. L : runs[j][2] = ids[j] /\ ids[j] \in Int /\ ids[j] >= 0
    <2>1. \A j \in 1 .. L : ids[j] \in Int /\ ids[j] >= 0
      BY <1>4, <1>5, <1>6, <1>8, ElementOfSeq
    <2>2. \A j \in 1 .. L : runs[j] = Number(ids[j])
      BY <1>14
    <2>3. \A j \in 1 .. L : runs[j][2] = ids[j]
      BY <2>1, <2>2, TokenFacts
    <2>4. Len(runs) = L
      BY <1>14
    <2> QED BY <2>1, <2>3, <2>4
  <1>16. [j \in 1 .. Len(runs) |-> IF runs[j][2] < 0 THEN -runs[j][2] ELSE runs[j][2]] = ids
    <2>1. \A j \in 1 .. L : (IF runs[j][2] < 0 THEN -runs[j][2] ELSE runs[j][2]) = ids[j]
      BY <1>15
    <2>2. [j \in 1 .. L |-> IF runs[j][2] < 0 THEN -runs[j][2] ELSE runs[j][2]] = [j \in 1 .. L |-> ids[j]]
      BY <2>1
    <2>3. ids = [j \in 1 .. L |-> ids[j]]
      BY <1>6, <1>8, LenProperties
    <2> QED BY <1>15, <2>2, <2>3
  <1>17. q # None /\ q + 2 # None /\ q + 1 + h # None
    BY DEF None
  <1>18. GetIntArray(t, "formats") = ids
    BY <1>3, <1>10, <1>11, <1>12, <1>13, <1>16, <1>17 DEF GetIntArray
  <1> QED BY <1>1, <1>4, <1>5, <1>18

\* A value says of what kind it is.
LEMMA ValueKinds ==
  /\ \A v \in Numbers : v[1] = "number" /\ v # Quoted("") /\ v # List(<<>>)
  /\ \A v \in Strings : v[1] = "quoted" /\ v # List(<<>>) /\ (v = Quoted("") <=> v[2] = "")
  /\ \A v \in Lists : v # Quoted("") /\ (v = List(<<>>) <=> v[2] = <<>>)
  <1>1. Quoted("")[1] = "quoted" /\ List(<<>>)[1] = "list"
    BY DEF Quoted, List
  <1>2. \A v \in Numbers : v[1] = "number"
    BY DEF Numbers
  <1>3. \A v \in Strings : v[1] = "quoted" /\ v = <<"quoted", v[2]>>
    BY DEF Strings
  <1>4. \A v \in Lists : v[1] = "list" /\ v = <<"list", v[2]>>
    BY DEF Lists
  <1>5. ASSUME NEW v \in Strings PROVE v = Quoted("") <=> v[2] = ""
    <2>1. Quoted("") = <<"quoted", "">> /\ Quoted("")[2] = ""
      BY DEF Quoted
    <2>2. v[2] = "" => v = Quoted("")
      BY <1>3, <2>1
    <2> QED BY <2>1, <2>2
  <1>6. ASSUME NEW v \in Lists PROVE v = List(<<>>) <=> v[2] = <<>>
    BY <1>4 DEF List
  <1> QED BY <1>1, <1>2, <1>3, <1>4, <1>5, <1>6

\* What is in the document is read as what is meant.
LEMMA PresentIsMeant ==
  ASSUME NEW doc \in Document, Plain(doc), NEW n \in 1 .. Len(doc), NEW k \in Key, k = doc[n].key
  PROVE  Assigned(Text(doc), k, StructDefault[k]) = Meant(doc, k)
  <1>1. PICK t, old, m, v : t = Text(doc) /\ old = StructDefault[k] /\ m = doc[n] /\ v = m.value
    OBVIOUS
  <1>2. PICK q \in Nat \ {0} : ValueAt(t, k) = q + 2 /\ Stands(t, q, m) /\ Tame(m)
    BY <1>1, PresentKey
  <1>3. Meant(doc, k) = IF v \in {Quoted(""), List(<<>>)} THEN Unsaid(k)
                        ELSE IF k = "pitch_width_um" THEN <<v[2], v[3]>> ELSE v[2]
    BY <1>1, MeantIsSaid DEF Said
  <1>4. OfItsType(k, v)
    BY <1>1, <1>2 DEF Tame
  <1>5. v \notin Lists => t[q + 2] = v
    <2> SUFFICES ASSUME v \notin Lists PROVE t[q + 2] = v
      OBVIOUS
    <2>1. ValueText(m) = <<v>>
      BY <1>1, <1>2, ValueTextFacts
    <2>2. Len(<<v>>) = 1 /\ <<v>>[1] = v
      OBVIOUS
    <2>3. 1 \in 1 .. Len(ValueText(m)) /\ q + 1 + 1 = q + 2 /\ ValueText(m)[1] = v
      BY <2>1, <2>2
    <2> QED BY <1>2, <2>3 DEF Stands
  <1>6. q + 2 # None
    BY DEF None
  <1>7. v \in Numbers => /\ GetInt(t, k) = v[2] /\ GetDouble(t, k) = <<v[2], v[3]>>
                         /\ v \notin {Quoted(""), List(<<>>)}
    <2> SUFFICES ASSUME v \in Numbers
                 PROVE  /\ GetInt(t, k) = v[2] /\ GetDouble(t, k) = <<v[2], v[3]>>
                        /\ v \notin {Quoted(""), List(<<>>)}
      OBVIOUS
    <2>1. v[1] = "number" /\ v \notin {Quoted(""), List(<<>>)}
      BY ValueKinds
    <2>2. v \notin Lists
      BY <2>1 DEF Lists
    <2> QED BY <1>2, <1>5, <1>6, <2>1, <2>2 DEF GetInt, GetDouble
  <1>8. v \in Strings => GetString(t, k) = v[2]
    <2> SUFFICES ASSUME v \in Strings PROVE GetString(t, k) = v[2]
      OBVIOUS
    <2>1. v[1] = "quoted"
      BY ValueKinds
    <2>2. v \notin Lists
      BY <2>1 DEF Lists
    <2> QED BY <1>2, <1>5, <1>6, <2>1, <2>2 DEF GetString
  <1>9. CASE k = "formats"
    <2>1. v \in Lists /\ GetIntArray(t, k) = v[2]
      BY <1>1, <1>9, ListIsRead
    <2>2. v \in {Quoted(""), List(<<>>)} <=> v[2] = <<>>
      BY <2>1, ValueKinds
    <2>3. Assigned(t, k, old) = IF v[2] = <<>> THEN old ELSE v[2]
      BY <1>9, <2>1, AssignedKinds
    <2>4. Unsaid(k) = <<>> /\ old = <<>>
      <3>1. StructDefault["formats"] = <<>>
        BY DEF StructDefault
      <3> QED BY <1>1, <1>9, <3>1, UnsaidKinds
    <2> QED BY <1>1, <1>3, <1>9, <2>2, <2>3, <2>4
  <1>10. CASE k = "verbose"
    <2>1. v \in Strings
      BY <1>4, <1>10, KeyKinds DEF OfItsType
    <2>2. v \in {Quoted(""), List(<<>>)} <=> v[2] = ""
      BY <2>1, ValueKinds
    <2>3. Assigned(t, k, old) = IF v[2] = "" THEN "file" ELSE v[2]
      BY <1>8, <1>10, <2>1, AssignedKinds
    <2>4. Unsaid(k) = "file"
      BY <1>10, UnsaidKinds
    <2> QED BY <1>1, <1>3, <1>10, <2>2, <2>3, <2>4
  <1>11. CASE k = "pitch_width_um"
    <2>1. v \in Numbers
      BY <1>4, <1>11 DEF OfItsType
    <2>2. Assigned(t, k, old) = <<v[2], v[3]>>
      BY <1>7, <1>11, <2>1, AssignedKinds
    <2> QED BY <1>1, <1>3, <1>7, <1>11, <2>1, <2>2
  <1>12. CASE k \in StringKeys \ {"verbose"}
    <2>1. v \in Strings /\ k # "pitch_width_um"
      BY <1>4, <1>12, KeyKinds DEF OfItsType
    <2>2. v \in {Quoted(""), List(<<>>)} <=> v[2] = ""
      BY <2>1, ValueKinds
    <2>3. Assigned(t, k, old) = v[2]
      BY <1>8, <1>12, <2>1, AssignedKinds
    <2>4. Unsaid(k) = ""
      BY <1>12, UnsaidKinds
    <2> QED BY <1>1, <1>3, <2>1, <2>2, <2>3, <2>4
  <1>13. CASE k \in IntKeys
    <2>1. v \in Numbers /\ k # "pitch_width_um"
      BY <1>4, <1>13, KeyKinds DEF OfItsType
    <2>2. Assigned(t, k, old) = v[2]
      BY <1>7, <1>13, <2>1, AssignedKinds
    <2> QED BY <1>1, <1>3, <1>7, <2>1, <2>2
  <1> QED BY <1>9, <1>10, <1>11, <1>12, <1>13, KeyKinds

\* load_config reads out of a plain document, in whatever order its members stand
\* and whatever its comments say, what its author means by every key that is there;
\* for the others it has its own fallback, which Meant stands for as well.
THEOREM PlainIsRead ==
  ASSUME NEW doc \in Document, Plain(doc), NEW k \in Key
  PROVE  Assigned(Text(doc), k, StructDefault[k]) = Meant(doc, k)
  <1>1. CASE \E n \in 1 .. Len(doc) : doc[n].key = k
    BY <1>1, PresentIsMeant
  <1>2. CASE \A n \in 1 .. Len(doc) : doc[n].key # k
    BY <1>2, AbsentIsMeant
  <1> QED BY <1>1, <1>2

-----------------------------------------------------------------------------
(* What a run has *)

\* A document says nothing of a key that is not there.
LEMMA AbsentMeans ==
  ASSUME NEW doc, NEW k, \A n \in 1 .. Len(doc) : doc[n].key # k
  PROVE  Meant(doc, k) = Unsaid(k)
  <1>1. {n \in 1 .. Len(doc) : doc[n].key = k} = {}
    OBVIOUS
  <1> QED BY <1>1 DEF Meant

\* When all words are read, the places that set a field are all behind.
LEMMA AllPlacesRead ==
  ASSUME CommandInv, stage = "run", NEW k, NEW v, NEW base, IsSet(k, i, v, base)
  PROVE  v = IF Places(k) = {} THEN base ELSE LastSet(k)
  <1>1. PICK L \in Nat : L = Len(argv)
    BY WordsFacts DEF CommandInv, GivenInv
  <1>2. i \in Nat /\ L < i
    BY <1>1 DEF CommandInv, WordInv
  <1>3. \A p \in Places(k) : p \in Nat /\ p < i
    BY <1>1, <1>2 DEF Places, Heads
  <1>4. PICK all : all = Places(k)
    OBVIOUS
  <1>5. {p \in all : p < i} = all
    BY <1>3, <1>4
  <1>6. CASE all = {}
    BY <1>4, <1>5, <1>6 DEF IsSet
  <1>7. CASE all # {}
    <2>1. PICK p \in all : (\A q \in all : q <= p) /\ v = SetTo(k, p)
      BY <1>4, <1>5, <1>7 DEF IsSet
    <2>2. PICK last : last = CHOOSE r \in all : \A q \in all : q <= r
      OBVIOUS
    <2>3. last \in all /\ \A q \in all : q <= last
      BY <2>1, <2>2
    <2>4. last = p
      <3>1. last <= p /\ p <= last /\ p \in Nat /\ last \in Nat
        BY <1>3, <1>4, <2>1, <2>3
      <3> QED BY <3>1
    <2>5. LastSet(k) = SetTo(k, last)
      BY <1>4, <2>2 DEF LastSet
    <2> QED BY <1>4, <1>7, <2>1, <2>4, <2>5
  <1> QED BY <1>6, <1>7

\* A run has every field from the last option or switch for it; else from redcli.json
\* as its author means it, load_config's fallback for a key that is not there; and
\* without a redcli.json the default.
LEMMA StrongestSource == CommandInv => RunUsesStrongestSource
  <1> SUFFICES ASSUME CommandInv, stage = "run"
               PROVE  /\ csv = IF Places("csv") = {} THEN "" ELSE LastSet("csv")
                      /\ \A k \in Key :
                           IF Places(k) # {} THEN cfg[k] = LastSet(k)
                           ELSE IF ~found THEN cfg[k] = StructDefault[k]
                           ELSE Plain(document) =>
                                  cfg[k] = IF Holds(document, k) THEN Meant(document, k) ELSE Unsaid(k)
    BY DEF RunUsesStrongestSource
  <1>1. csv = IF Places("csv") = {} THEN "" ELSE LastSet("csv")
    BY AllPlacesRead DEF CommandInv, FieldInv
  <1>2. pending = <<>>
    BY DEF CommandInv, WordInv
  <1>3. \A k : k \notin {pending[n] : n \in 1 .. Len(pending)}
    <2>1. Len(pending) = 0
      BY <1>2
    <2> QED BY <2>1
  <1>4. ASSUME NEW k \in Key
        PROVE  IF Places(k) # {} THEN cfg[k] = LastSet(k)
               ELSE IF ~found THEN cfg[k] = StructDefault[k]
               ELSE Plain(document) =>
                      cfg[k] = IF Holds(document, k) THEN Meant(document, k) ELSE Unsaid(k)
    <2>1. cfg[k] = IF Places(k) = {} THEN Base(k) ELSE LastSet(k)
      BY AllPlacesRead DEF CommandInv, FieldInv
    <2>2. Base(k) = IF found THEN Assigned(Text(document), k, StructDefault[k]) ELSE StructDefault[k]
      BY <1>3 DEF Base
    <2>3. found /\ Plain(document) => Assigned(Text(document), k, StructDefault[k]) = Meant(document, k)
      BY PlainIsRead DEF CommandInv, GivenInv
    <2>4. ~Holds(document, k) => Meant(document, k) = Unsaid(k)
      BY AbsentMeans DEF Holds
    <2> QED BY <2>1, <2>2, <2>3, <2>4
  <1> QED BY <1>1, <1>4

\* rle4k_cmd_run: the last word for a field wins over redcli.json; a redcli.json
\* leaves nothing of the defaults but what its fallbacks happen to repeat.
THEOREM StrongestSourceWins == Spec => []RunUsesStrongestSource
  BY CommandInvariant, StrongestSource, PTL

-----------------------------------------------------------------------------
(* `redcli init` writes the defaults *)

\* The keys of what `redcli init` writes, in their order.
BuiltinKeys ==
  <<"input", "mode", "output_path", "repeat", "check_enabled", "cache_blocks_min",
    "cache_blocks_max", "pitch_width_um", "oblique_factor", "dmd_resolution_rows",
    "dmd_resolution_cols", "strip_width", "align_mode", "block_line", "raster_threads",
    "encode_threads", "decode_threads", "encode_enabled", "decode_enabled", "formats",
    "gzip_level", "zstd_level", "lzo2_level", "snappy_level", "brotli_level",
    "brotli_window", "verbose">>

\* What stands in the comments of the built-in document.
Remarks == {Colon, Quoted("file"), Quoted("strip")} \cup Numbers

\* m gives k the value v, and its comment misleads nobody.
Written(m, k, v) ==
  /\ m.key = k /\ m.value = v /\ m.comment[1] \notin {"between", "inside"}
  /\ \A t \in ToSet(m.comment[2]) : t \notin {Quoted(j) : j \in Key}

\* Member n of the built-in document is one.
IsMember(n) == BuiltinDocument[n] \in Member

\* Member n of the built-in document is a plain one, and gives k its default.
Default(n, k) ==
  LET v == BuiltinDocument[n].value
  IN  /\ Written(BuiltinDocument[n], k, v) /\ k \in Key
      /\ OfItsType(k, v) /\ v \notin {Quoted(j) : j \in Key}
      /\ k \notin {"formats", "output_path"} => Said(k, v) = StructDefault[k]

\* None of it is a quoted key.
LEMMA RemarksAreNoKeys == \A t \in Remarks : t \notin {Quoted(j) : j \in Key}
  <1>1. \A t \in Numbers : t[1] = "number"
    BY DEF Numbers
  <1>2. \A s : Quoted(s) = <<"quoted", s>> /\ Quoted(s)[1] = "quoted" /\ Quoted(s)[2] = s
    BY DEF Quoted
  <1>3. Colon[1] = "colon"
    BY DEF Colon
  <1>4. "file" \notin Key /\ "strip" \notin Key
    BY DEF Key, IntKeys, StringKeys
  <1> QED BY <1>1, <1>2, <1>3, <1>4 DEF Remarks

\* A member as it is written, with a comment or without.
LEMMA WrittenMember ==
  ASSUME NEW k, NEW v, NEW words \in Seq(Remarks)
  PROVE  Written(Noted(k, v, words), k, v) /\ Written(Bare(k, v), k, v)
  <1>1. \A t \in ToSet(words) : t \in Remarks
    BY DEF ToSet
  <1>2. ToSet(<<>>) = {}
    BY DEF ToSet
  <1>3. Noted(k, v, words).comment = <<"before", words>> /\ Bare(k, v).comment = <<"none", <<>>>>
    BY DEF Noted, Bare
  <1> QED BY <1>1, <1>2, <1>3, RemarksAreNoKeys DEF Noted, Bare, Written

\* A member without a comment.
LEMMA BareMember ==
  ASSUME NEW k, NEW v
  PROVE  Written(Bare(k, v), k, v)
  <1>1. <<>> \in Seq(Remarks)
    OBVIOUS
  <1> QED BY <1>1, WrittenMember

\* A member whose value is a number.
LEMMA NumberWritten ==
  ASSUME NEW n, NEW k \in IntKeys, NEW x \in Int, x = StructDefault[k],
         Written(BuiltinDocument[n], k, Number(x))
  PROVE  Default(n, k)
  <1>1. PICK m, v : m = BuiltinDocument[n] /\ v = Number(x) /\ Written(m, k, v)
    OBVIOUS
  <1>2. m.value = v
    BY <1>1 DEF Written
  <1>3. v \in Numbers /\ v[2] = x
    BY <1>1, TokenFacts
  <1>4. OfItsType(k, v) /\ k \in Key /\ k # "pitch_width_um"
    BY <1>3, KeyKinds DEF OfItsType
  <1>5. v \notin {Quoted(j) : j \in Key}
    <2>1. v[1] = "number" /\ \A j : Quoted(j)[1] = "quoted"
      BY <1>1 DEF Number, Quoted
    <2> QED BY <2>1
  <1>6. Said(k, v) = StructDefault[k]
    <2>1. v \notin {Quoted(""), List(<<>>)}
      BY <1>3, ValueKinds
    <2> QED BY <1>3, <1>4, <2>1 DEF Said
  <1> QED BY <1>1, <1>2, <1>4, <1>5, <1>6 DEF Default

\* What the comments hold.
LEMMA RemarksFacts ==
  /\ Colon \in Remarks /\ Quoted("file") \in Remarks /\ Quoted("strip") \in Remarks
  /\ \A x \in Int : Number(x) \in Remarks
  /\ Decimal(0, 500) \in Remarks
  BY DEF Remarks, Numbers, Number, Decimal

\* A member whose value is a string.
LEMMA StringWritten ==
  ASSUME NEW n, IsMember(n), NEW k \in StringKeys, NEW s, s \notin Key,
         Written(BuiltinDocument[n], k, Quoted(s)),
         k # "output_path" => Said(k, Quoted(s)) = StructDefault[k]
  PROVE  Default(n, k)
  <1>1. PICK m, v : m = BuiltinDocument[n] /\ v = Quoted(s) /\ Written(m, k, v)
    OBVIOUS
  <1>2. m.value = v
    BY <1>1 DEF Written
  <1>3. v \in Strings
    <2>1. v \in Strings \cup Numbers \cup Lists
      BY <1>1, <1>2 DEF IsMember, Member
    <2>2. v[1] = "quoted"
      BY <1>1 DEF Quoted
    <2> QED BY <2>1, <2>2 DEF Numbers, Lists
  <1>4. OfItsType(k, v) /\ k \in Key
    BY <1>3, KeyKinds DEF OfItsType
  <1>5. v \notin {Quoted(j) : j \in Key}
    <2>1. v[2] = s /\ \A j : Quoted(j)[2] = j
      BY <1>1 DEF Quoted
    <2> QED BY <2>1
  <1> QED BY <1>1, <1>2, <1>4, <1>5 DEF Default

\* The built-in document has every key once.
LEMMA BuiltinKeysFacts ==
  /\ Len(BuiltinDocument) = 27
  /\ Key = {BuiltinKeys[n] : n \in 1 .. 27}
  /\ \A a, b \in 1 .. 27 : BuiltinKeys[a] = BuiltinKeys[b] => a = b
  <1>1. Len(BuiltinDocument) = 27
    BY DEF BuiltinDocument
  <1>2. Key = {BuiltinKeys[n] : n \in 1 .. 27}
    BY SMTT(60) DEF BuiltinKeys, Key, IntKeys, StringKeys
  <1>3. \A a, b \in 1 .. 27 : BuiltinKeys[a] = BuiltinKeys[b] => a = b
    BY SMTT(60) DEF BuiltinKeys
  <1> QED BY <1>1, <1>2, <1>3

\* Each of its members is a plain one, and gives its key its default.
LEMMA BuiltinMembers ==
  ASSUME \A n \in 1 .. 27 : IsMember(n)
  PROVE  \A n \in 1 .. 27 : Default(n, BuiltinKeys[n])
  <1>0. IsMember(1) /\ IsMember(3) /\ IsMember(20) /\ IsMember(27)
    OBVIOUS
  <1>1. Default(1, "input")
    <2>1. Written(BuiltinDocument[1], "input", Quoted(""))
      <3>1. PICK words : words = <<Colon, Number(0), Number(1)>>
        OBVIOUS
      <3>2. words \in Seq(Remarks)
        BY <3>1, RemarksFacts
      <3>3. BuiltinDocument[1] = Noted("input", Quoted(""), words)
        BY <3>1 DEF BuiltinDocument
      <3> QED BY <3>2, <3>3, WrittenMember
    <2>2. "input" \in StringKeys /\ "" \notin Key
      BY DEF StringKeys, IntKeys, Key
    <2>3. Said("input", Quoted("")) = StructDefault["input"]
      <3>1. Quoted("")[2] = "" /\ List(<<>>)[1] = "list" /\ Quoted("")[1] = "quoted" /\ Quoted("")[2] = ""
        BY DEF Quoted, List
      <3> QED BY <3>1 DEF Said, Unsaid, StructDefault, StringKeys
    <2> QED BY <1>0, <2>1, <2>2, <2>3, StringWritten
  <1>2. Default(2, "mode")
    <2>1. Written(BuiltinDocument[2], "mode", Number(0))
      <3>1. PICK words : words = <<Number(0), Number(1)>>
        OBVIOUS
      <3>2. words \in Seq(Remarks)
        BY <3>1, RemarksFacts
      <3>3. BuiltinDocument[2] = Noted("mode", Number(0), words)
        BY <3>1 DEF BuiltinDocument
      <3> QED BY <3>2, <3>3, WrittenMember
    <2>2. "mode" \in IntKeys /\ StructDefault["mode"] = 0
      BY DEF IntKeys, StructDefault
    <2> QED BY <2>1, <2>2, NumberWritten
  <1>3. Default(3, "output_path")
    <2>1. Written(BuiltinDocument[3], "output_path", Quoted("build/out"))
      <3>1. PICK words : words = <<Colon>>
        OBVIOUS
      <3>2. words \in Seq(Remarks)
        BY <3>1, RemarksFacts
      <3>3. BuiltinDocument[3] = Noted("output_path", Quoted("build/out"), words)
        BY <3>1 DEF BuiltinDocument
      <3> QED BY <3>2, <3>3, WrittenMember
    <2>2. "output_path" \in StringKeys /\ "build/out" \notin Key
      BY DEF StringKeys, IntKeys, Key
    <2> QED BY <1>0, <2>1, <2>2, StringWritten
  <1>4. Default(4, "repeat")
    <2>1. Written(BuiltinDocument[4], "repeat", Number(3))
      BY BareMember DEF BuiltinDocument
    <2>2. "repeat" \in IntKeys /\ StructDefault["repeat"] = 3
      BY DEF IntKeys, StructDefault
    <2> QED BY <2>1, <2>2, NumberWritten
  <1>5. Default(5, "check_enabled")
    <2>1. Written(BuiltinDocument[5], "check_enabled", Number(0))
      <3>1. PICK words : words = <<Number(0), Number(1)>>
        OBVIOUS
      <3>2. words \in Seq(Remarks)
        BY <3>1, RemarksFacts
      <3>3. BuiltinDocument[5] = Noted("check_enabled", Number(0), words)
        BY <3>1 DEF BuiltinDocument
      <3> QED BY <3>2, <3>3, WrittenMember
    <2>2. "check_enabled" \in IntKeys /\ StructDefault["check_enabled"] = 0
      BY DEF IntKeys, StructDefault
    <2> QED BY <2>1, <2>2, NumberWritten
  <1>6. Default(6, "cache_blocks_min")
    <2>1. Written(BuiltinDocument[6], "cache_blocks_min", Number(32))
      BY BareMember DEF BuiltinDocument
    <2>2. "cache_blocks_min" \in IntKeys /\ StructDefault["cache_blocks_min"] = 32
      BY DEF IntKeys, StructDefault
    <2> QED BY <2>1, <2>2, NumberWritten
  <1>7. Default(7, "cache_blocks_max")
    <2>1. Written(BuiltinDocument[7], "cache_blocks_max", Number(128))
      BY BareMember DEF BuiltinDocument
    <2>2. "cache_blocks_max" \in IntKeys /\ StructDefault["cache_blocks_max"] = 128
      BY DEF IntKeys, StructDefault
    <2> QED BY <2>1, <2>2, NumberWritten
  <1>8. Default(8, "pitch_width_um")
    <2>1. Written(BuiltinDocument[8], "pitch_width_um", Decimal(0, 500))
      <3>1. PICK words : words = <<Number(1000), Colon, Decimal(0, 500)>>
        OBVIOUS
      <3>2. words \in Seq(Remarks)
        BY <3>1, RemarksFacts
      <3>3. BuiltinDocument[8] = Noted("pitch_width_um", Decimal(0, 500), words)
        BY <3>1 DEF BuiltinDocument
      <3> QED BY <3>2, <3>3, WrittenMember
    <2>2. PICK v : v = Decimal(0, 500)
      OBVIOUS
    <2>3. /\ v \in Numbers /\ v[1] = "number" /\ v[2] = 0 /\ v[3] = 500
          /\ \A j : Quoted(j)[1] = "quoted"
      BY <2>2 DEF Decimal, Numbers, Quoted
    <2>4. OfItsType("pitch_width_um", v) /\ "pitch_width_um" \in Key
      BY <2>3, KeyKinds DEF OfItsType
    <2>5. Said("pitch_width_um", v) = StructDefault["pitch_width_um"]
      BY <2>3, ValueKinds, ZenonT(60) DEF Said, StructDefault
    <2> QED BY <2>1, <2>2, <2>3, <2>4, <2>5 DEF Default, Written
  <1>9. Default(9, "oblique_factor")
    <2>1. Written(BuiltinDocument[9], "oblique_factor", Number(32))
      <3>1. PICK words : words = <<Colon, Number(1920), Number(32), Number(512)>>
        BY ZenonT(60)
      <3>2. words \in Seq(Remarks)
        BY <3>1, RemarksFacts
      <3>3. BuiltinDocument[9] = Noted("oblique_factor", Number(32), words)
        BY <3>1 DEF BuiltinDocument
      <3> QED BY <3>2, <3>3, WrittenMember
    <2>2. "oblique_factor" \in IntKeys /\ StructDefault["oblique_factor"] = 32
      BY DEF IntKeys, StructDefault
    <2> QED BY <2>1, <2>2, NumberWritten
  <1>10. Default(10, "dmd_resolution_rows")
    <2>1. Written(BuiltinDocument[10], "dmd_resolution_rows", Number(512))
      BY BareMember DEF BuiltinDocument
    <2>2. "dmd_resolution_rows" \in IntKeys /\ StructDefault["dmd_resolution_rows"] = 512
      BY DEF IntKeys, StructDefault
    <2> QED BY <2>1, <2>2, NumberWritten
  <1>11. Default(11, "dmd_resolution_cols")
    <2>1. Written(BuiltinDocument[11], "dmd_resolution_cols", Number(1920))
      BY BareMember DEF BuiltinDocument
    <2>2. "dmd_resolution_cols" \in IntKeys /\ StructDefault["dmd_resolution_cols"] = 1920
      BY DEF IntKeys, StructDefault
    <2> QED BY <2>1, <2>2, NumberWritten
  <1>12. Default(12, "strip_width")
    <2>1. Written(BuiltinDocument[12], "strip_width", Number(0))
      <3>1. PICK words : words = <<Number(0), Number(0)>>
        OBVIOUS
      <3>2. words \in Seq(Remarks)
        BY <3>1, RemarksFacts
      <3>3. BuiltinDocument[12] = Noted("strip_width", Number(0), words)
        BY <3>1 DEF BuiltinDocument
      <3> QED BY <3>2, <3>3, WrittenMember
    <2>2. "strip_width" \in IntKeys /\ StructDefault["strip_width"] = 0
      BY DEF IntKeys, StructDefault
    <2> QED BY <2>1, <2>2, NumberWritten
  <1>13. Default(13, "align_mode")
    <2>1. Written(BuiltinDocument[13], "align_mode", Number(512))
      <3>1. PICK words : words = <<Colon, Number(512)>>
        OBVIOUS
      <3>2. words \in Seq(Remarks)
        BY <3>1, RemarksFacts
      <3>3. BuiltinDocument[13] = Noted("align_mode", Number(512), words)
        BY <3>1 DEF BuiltinDocument
      <3> QED BY <3>2, <3>3, WrittenMember
    <2>2. "align_mode" \in IntKeys /\ StructDefault["align_mode"] = 512
      BY DEF IntKeys, StructDefault
    <2> QED BY <2>1, <2>2, NumberWritten
  <1>14. Default(14, "block_line")
    <2>1. Written(BuiltinDocument[14], "block_line", Number(512))
      <3>1. PICK words : words = <<Colon, Number(512)>>
        OBVIOUS
      <3>2. words \in Seq(Remarks)
        BY <3>1, RemarksFacts
      <3>3. BuiltinDocument[14] = Noted("block_line", Number(512), words)
        BY <3>1 DEF BuiltinDocument
      <3> QED BY <3>2, <3>3, WrittenMember
    <2>2. "block_line" \in IntKeys /\ StructDefault["block_line"] = 512
      BY DEF IntKeys, StructDefault
    <2> QED BY <2>1, <2>2, NumberWritten
  <1>15. Default(15, "raster_threads")
    <2>1. Written(BuiltinDocument[15], "raster_threads", Number(4))
      BY BareMember DEF BuiltinDocument
    <2>2. "raster_threads" \in IntKeys /\ StructDefault["raster_threads"] = 4
      BY DEF IntKeys, StructDefault
    <2> QED BY <2>1, <2>2, NumberWritten
  <1>16. Default(16, "encode_threads")
    <2>1. Written(BuiltinDocument[16], "encode_threads", Number(0))
      BY BareMember DEF BuiltinDocument
    <2>2. "encode_threads" \in IntKeys /\ StructDefault["encode_threads"] = 0
      BY DEF IntKeys, StructDefault
    <2> QED BY <2>1, <2>2, NumberWritten
  <1>17. Default(17, "decode_threads")
    <2>1. Written(BuiltinDocument[17], "decode_threads", Number(0))
      BY BareMember DEF BuiltinDocument
    <2>2. "decode_threads" \in IntKeys /\ StructDefault["decode_threads"] = 0
      BY DEF IntKeys, StructDefault
    <2> QED BY <2>1, <2>2, NumberWritten
  <1>18. Default(18, "encode_enabled")
    <2>1. Written(BuiltinDocument[18], "encode_enabled", Number(1))
      <3>1. PICK words : words = <<Number(1), Number(0)>>
        OBVIOUS
      <3>2. words \in Seq(Remarks)
        BY <3>1, RemarksFacts
      <3>3. BuiltinDocument[18] = Noted("encode_enabled", Number(1), words)
        BY <3>1 DEF BuiltinDocument
      <3> QED BY <3>2, <3>3, WrittenMember
    <2>2. "encode_enabled" \in IntKeys /\ StructDefault["encode_enabled"] = 1
      BY DEF IntKeys, StructDefault
    <2> QED BY <2>1, <2>2, NumberWritten
  <1>19. Default(19, "decode_enabled")
    <2>1. Written(BuiltinDocument[19], "decode_enabled", Number(1))
      BY BareMember DEF BuiltinDocument
    <2>2. "decode_enabled" \in IntKeys /\ StructDefault["decode_enabled"] = 1
      BY DEF IntKeys, StructDefault
    <2> QED BY <2>1, <2>2, NumberWritten
  <1>20. Default(20, "formats")
    <2>1. Written(BuiltinDocument[20], "formats", List(<<0, 1, 2, 3, 4, 5>>))
      <3>1. PICK words : words = <<Number(0), Number(1), Number(2)>>
        OBVIOUS
      <3>2. words \in Seq(Remarks)
        BY <3>1, RemarksFacts
      <3>3. BuiltinDocument[20] = Noted("formats", List(<<0, 1, 2, 3, 4, 5>>), words)
        BY <3>1 DEF BuiltinDocument
      <3> QED BY <3>2, <3>3, WrittenMember
    <2>2. PICK v : v = List(<<0, 1, 2, 3, 4, 5>>)
      OBVIOUS
    <2>3. v[1] = "list" /\ v[2] = <<0, 1, 2, 3, 4, 5>> /\ \A j : Quoted(j)[1] = "quoted"
      BY <2>2 DEF List, Quoted
    <2>4. v \in Lists
      <3>1. BuiltinDocument[20].value = v /\ BuiltinDocument[20] \in Member
        BY <1>0, <2>1, <2>2 DEF Written, IsMember
      <3>2. v \in Strings \cup Numbers \cup Lists
        BY <3>1 DEF Member
      <3> QED BY <2>3, <3>2 DEF Strings, Numbers
    <2>5. OfItsType("formats", v) /\ "formats" \in Key
      <3>1. Len(v[2]) = 6 /\ \A j \in 1 .. 6 : v[2][j] >= 0
        BY <2>3
      <3> QED BY <2>4, <3>1, KeyKinds DEF OfItsType
    <2> QED BY <2>1, <2>2, <2>3, <2>5 DEF Default, Written
  <1>21. Default(21, "gzip_level")
    <2>1. Written(BuiltinDocument[21], "gzip_level", Number(6))
      BY BareMember DEF BuiltinDocument
    <2>2. "gzip_level" \in IntKeys /\ StructDefault["gzip_level"] = 6
      BY DEF IntKeys, StructDefault
    <2> QED BY <2>1, <2>2, NumberWritten
  <1>22. Default(22, "zstd_level")
    <2>1. Written(BuiltinDocument[22], "zstd_level", Number(3))
      BY BareMember DEF BuiltinDocument
    <2>2. "zstd_level" \in IntKeys /\ StructDefault["zstd_level"] = 3
      BY DEF IntKeys, StructDefault
    <2> QED BY <2>1, <2>2, NumberWritten
  <1>23. Default(23, "lzo2_level")
    <2>1. Written(BuiltinDocument[23], "lzo2_level", Number(1))
      <3>1. PICK words : words = <<Number(1), Number(2), Colon, Number(1)>>
        OBVIOUS
      <3>2. words \in Seq(Remarks)
        BY <3>1, RemarksFacts
      <3>3. BuiltinDocument[23] = Noted("lzo2_level", Number(1), words)
        BY <3>1 DEF BuiltinDocument
      <3> QED BY <3>2, <3>3, WrittenMember
    <2>2. "lzo2_level" \in IntKeys /\ StructDefault["lzo2_level"] = 1
      BY DEF IntKeys, StructDefault
    <2> QED BY <2>1, <2>2, NumberWritten
  <1>24. Default(24, "snappy_level")
    <2>1. Written(BuiltinDocument[24], "snappy_level", Number(0))
      BY BareMember DEF BuiltinDocument
    <2>2. "snappy_level" \in IntKeys /\ StructDefault["snappy_level"] = 0
      BY DEF IntKeys, StructDefault
    <2> QED BY <2>1, <2>2, NumberWritten
  <1>25. Default(25, "brotli_level")
    <2>1. Written(BuiltinDocument[25], "brotli_level", Number(6))
      BY BareMember DEF BuiltinDocument
    <2>2. "brotli_level" \in IntKeys /\ StructDefault["brotli_level"] = 6
      BY DEF IntKeys, StructDefault
    <2> QED BY <2>1, <2>2, NumberWritten
  <1>26. Default(26, "brotli_window")
    <2>1. Written(BuiltinDocument[26], "brotli_window", Number(22))
      BY BareMember DEF BuiltinDocument
    <2>2. "brotli_window" \in IntKeys /\ StructDefault["brotli_window"] = 22
      BY DEF IntKeys, StructDefault
    <2> QED BY <2>1, <2>2, NumberWritten
  <1>27. Default(27, "verbose")
    <2>1. Written(BuiltinDocument[27], "verbose", Quoted("file"))
      <3>1. PICK words : words = <<Quoted("file"), Quoted("strip")>>
        OBVIOUS
      <3>2. words \in Seq(Remarks)
        BY <3>1, RemarksFacts
      <3>3. BuiltinDocument[27] = Noted("verbose", Quoted("file"), words)
        BY <3>1 DEF BuiltinDocument
      <3> QED BY <3>2, <3>3, WrittenMember
    <2>2. "verbose" \in StringKeys /\ "file" \notin Key
      BY DEF StringKeys, IntKeys, Key
    <2>3. Said("verbose", Quoted("file")) = StructDefault["verbose"]
      <3>1. Quoted("file")[2] = "file" /\ List(<<>>)[1] = "list" /\ Quoted("file")[1] = "quoted" /\ Quoted("")[2] = ""
        BY DEF Quoted, List
      <3> QED BY <3>1 DEF Said, Unsaid, StructDefault, StringKeys
    <2> QED BY <1>0, <2>1, <2>2, <2>3, StringWritten
  <1> QED BY <1>1, <1>2, <1>3, <1>4, <1>5, <1>6, <1>7, <1>8, <1>9,
             <1>10, <1>11, <1>12, <1>13, <1>14, <1>15, <1>16, <1>17, <1>18,
             <1>19, <1>20, <1>21, <1>22, <1>23, <1>24, <1>25, <1>26, <1>27
           DEF BuiltinKeys

\* The formats that it names.
LEMMA FormatsWritten ==
  BuiltinDocument[20].key = "formats" /\ BuiltinDocument[20].value = List(<<0, 1, 2, 3, 4, 5>>)
  <1>1. PICK words, v : words = <<Number(0), Number(1), Number(2)>> /\ v = List(<<0, 1, 2, 3, 4, 5>>)
    OBVIOUS
  <1>2. BuiltinDocument[20] = Noted("formats", v, words)
    BY <1>1 DEF BuiltinDocument
  <1> QED BY <1>1, <1>2 DEF Noted

\* The document that `redcli init` writes is one that the scanner can be trusted with.
LEMMA BuiltinIsPlain ==
  ASSUME \A n \in 1 .. 27 : IsMember(n)
  PROVE  Plain(BuiltinDocument)
  <1>1. PICK doc : doc = BuiltinDocument
    OBVIOUS
  <1>2. Len(doc) = 27
    BY <1>1, BuiltinKeysFacts
  <1>3. \A n \in 1 .. 27 : Default(n, BuiltinKeys[n])
    BY BuiltinMembers
  <1>4. ASSUME NEW n \in 1 .. 27
        PROVE  /\ doc[n].key = BuiltinKeys[n] /\ OfItsType(doc[n].key, doc[n].value)
               /\ doc[n].value \notin {Quoted(j) : j \in Key}
               /\ doc[n].comment[1] # "between" /\ doc[n].comment[1] # "inside"
               /\ \A t \in ToSet(doc[n].comment[2]) : t \notin {Quoted(j) : j \in Key}
    <2>1. Default(n, BuiltinKeys[n])
      BY <1>3
    <2> QED BY <1>1, <2>1 DEF Default, Written
  <1>5. \A a, b \in 1 .. Len(doc) : doc[a].key = doc[b].key => a = b
    <2> TAKE a, b \in 1 .. Len(doc)
    <2>1. a \in 1 .. 27 /\ b \in 1 .. 27
      BY <1>2
    <2>2. doc[a].key = BuiltinKeys[a] /\ doc[b].key = BuiltinKeys[b]
      BY <1>4, <2>1
    <2> QED BY <2>1, <2>2, BuiltinKeysFacts
  <1> QED BY <1>1, <1>2, <1>4, <1>5 DEF Plain

\* Its author means the default by every key, and every format by "formats".
LEMMA BuiltinMeans ==
  ASSUME \A n \in 1 .. 27 : IsMember(n), BuiltinDocument \in Document
  PROVE  /\ \A k \in Key \ {"formats", "output_path"} : Meant(BuiltinDocument, k) = StructDefault[k]
         /\ Meant(BuiltinDocument, "formats") = <<0, 1, 2, 3, 4, 5>>
  <1>1. PICK doc : doc = BuiltinDocument
    OBVIOUS
  <1>2. Len(doc) = 27 /\ Plain(doc) /\ doc \in Document
    BY <1>1, BuiltinIsPlain, BuiltinKeysFacts
  <1>3. \A n \in 1 .. 27 : Meant(doc, doc[n].key) = Said(doc[n].key, doc[n].value)
    BY <1>2, MeantIsSaid
  <1>4. \A n \in 1 .. 27 : Default(n, BuiltinKeys[n])
    BY BuiltinMembers
  <1>5. ASSUME NEW k \in Key \ {"formats", "output_path"} PROVE Meant(doc, k) = StructDefault[k]
    <2>1. PICK n \in 1 .. 27 : k = BuiltinKeys[n]
      BY BuiltinKeysFacts
    <2>2. Default(n, k)
      BY <1>4, <2>1
    <2>3. doc[n].key = k /\ Said(k, doc[n].value) = StructDefault[k]
      BY <1>1, <2>2 DEF Default, Written
    <2> QED BY <1>3, <2>3
  <1>6. doc[20].key = "formats" /\ doc[20].value = List(<<0, 1, 2, 3, 4, 5>>)
    BY <1>1, FormatsWritten
  <1>7. Meant(doc, "formats") = <<0, 1, 2, 3, 4, 5>>
    <2>1. Meant(doc, "formats") = Said("formats", List(<<0, 1, 2, 3, 4, 5>>))
      <3>1. 20 \in 1 .. 27
        OBVIOUS
      <3> QED BY <1>3, <1>6, <3>1
    <2>2. PICK ids, v : ids = <<0, 1, 2, 3, 4, 5>> /\ v = List(ids)
      OBVIOUS
    <2>3. v # Quoted("") /\ v # List(<<>>) /\ v[2] = ids
      <3>1. v[1] = "list" /\ v[2] = ids /\ List(<<>>)[2] = <<>> /\ Quoted("")[1] = "quoted"
        BY <2>2 DEF List, Quoted
      <3>2. ids # <<>>
        BY <2>2
      <3> QED BY <3>1, <3>2
    <2> QED BY <2>1, <2>2, <2>3 DEF Said
  <1> QED BY <1>1, <1>5, <1>7

\* All the formats are as good as none.
LEMMA AllFormats == FormatsRun(<<0, 1, 2, 3, 4, 5>>) = FormatsRun(<<>>)
  <1>1. PICK ids : ids = <<0, 1, 2, 3, 4, 5>>
    OBVIOUS
  <1>2. ids \in Seq(Int) /\ Len(ids) = 6 /\ \A n \in 1 .. 6 : ids[n] = n - 1
    BY <1>1
  <1>3. Only(ids, 0 .. 5) = ids
    <2>1. PICK kept \in [0 .. 6 -> Seq(Int)] : Filters(kept, ids, 0 .. 5, 6)
      BY <1>2, OnlyUnrolls
    <2>2. kept[0] = <<>> /\ Only(ids, 0 .. 5) = kept[6]
      BY <2>1 DEF Filters
    <2>3. ASSUME NEW n \in 1 .. 6 PROVE kept[n] = Append(kept[n - 1], n - 1)
      <3>1. ids[n] = n - 1 /\ n - 1 \in 0 .. 5
        BY <1>2
      <3>2. kept[n] = IF ids[n] \in 0 .. 5 THEN Append(kept[n - 1], ids[n]) ELSE kept[n - 1]
        BY <2>1 DEF Filters
      <3> QED BY <3>1, <3>2
    <2> DEFINE Upto(n) == kept[n] \in Seq(Int) /\ Len(kept[n]) = n /\ \A j \in 1 .. n : kept[n][j] = j - 1
    <2>4. ASSUME NEW n \in 1 .. 6, Upto(n - 1) PROVE Upto(n)
      <3>1. PICK before, after : before = kept[n - 1] /\ after = kept[n] /\ after = Append(before, n - 1)
        BY <2>3
      <3>2. before \in Seq(Int) /\ Len(before) = n - 1 /\ \A j \in 1 .. n - 1 : before[j] = j - 1
        BY <2>4, <3>1
      <3>3. /\ after \in Seq(Int) /\ Len(after) = Len(before) + 1
            /\ \A j \in 1 .. Len(before) : after[j] = before[j]
            /\ after[Len(before) + 1] = n - 1
        BY <3>1, <3>2, AppendProperties
      <3>4. Len(before) + 1 = n
        BY <3>2
      <3>5. \A j \in 1 .. n : after[j] = j - 1
        <4> TAKE j \in 1 .. n
        <4>1. CASE j = n
          BY <3>3, <3>4, <4>1
        <4>2. CASE j # n
          <5>1. j \in 1 .. n - 1
            BY <4>2
          <5> QED BY <3>2, <3>3, <5>1
        <4> QED BY <4>1, <4>2
      <3> QED BY <3>1, <3>3, <3>4, <3>5
    <2>5. Upto(0)
      BY <2>2
    <2> HIDE DEF Upto
    <2>6. \A n \in 1 .. 6 : Upto(n - 1) => Upto(n)
      BY <2>4
    <2>7. Upto(1 - 1) => Upto(1)
      BY <2>6
    <2>8. Upto(2 - 1) => Upto(2)
      BY <2>6
    <2>9. Upto(3 - 1) => Upto(3)
      BY <2>6
    <2>10. Upto(4 - 1) => Upto(4)
      BY <2>6
    <2>11. Upto(5 - 1) => Upto(5)
      BY <2>6
    <2>12. Upto(6 - 1) => Upto(6)
      BY <2>6
    <2>13. Upto(6)
      BY <2>5, <2>7, <2>8, <2>9, <2>10, <2>11, <2>12
    <2>14. kept[6] \in Seq(Int) /\ Len(kept[6]) = 6 /\ \A j \in 1 .. 6 : kept[6][j] = j - 1
      BY <2>13 DEF Upto
    <2>15. kept[6] = ids
      <3>1. PICK all : all = kept[6]
        OBVIOUS
      <3>2. all \in Seq(Int) /\ Len(all) = Len(ids) /\ \A j \in 1 .. Len(all) : all[j] = ids[j]
        BY <1>2, <2>14, <3>1
      <3>3. all = ids
        BY <1>2, <3>2, SeqEqual
      <3> QED BY <3>1, <3>3
    <2> QED BY <2>2, <2>15
  <1>4. Only(<<>>, 0 .. 5) = <<>>
    <2>1. <<>> \in Seq(Int) /\ Len(<<>>) = 0
      OBVIOUS
    <2>2. PICK none, L : none = <<>> /\ L = Len(none)
      OBVIOUS
    <2>3. none \in Seq(Int) /\ L = 0 /\ L \in Nat
      BY <2>1, <2>2
    <2>4. PICK kept \in [0 .. L -> Seq(Int)] : Filters(kept, none, 0 .. 5, L)
      BY <2>2, <2>3, OnlyUnrolls
    <2> QED BY <2>2, <2>3, <2>4 DEF Filters
  <1>5. FormatsRun(<<>>) = [n \in 1 .. 6 |-> n - 1]
    BY <1>4 DEF FormatsRun
  <1>6. FormatsRun(ids) = ids
    <2>1. ids # <<>>
      BY <1>2
    <2> QED BY <1>3, <2>1 DEF FormatsRun
  <1>7. ids = [n \in 1 .. 6 |-> n - 1]
    BY <1>2
  <1> QED BY <1>1, <1>5, <1>6, <1>7

\* A run on what `redcli init` writes runs on the defaults.
LEMMA BuiltinRuns == CommandInv => BuiltinIsDefault
  <1> SUFFICES ASSUME CommandInv, stage = "run", found, document = BuiltinDocument,
                      argv = <<Other("run")>>
               PROVE  /\ \A k \in Key \ {"formats", "output_path"} : cfg[k] = StructDefault[k]
                      /\ FormatsRun(cfg["formats"]) = FormatsRun(StructDefault["formats"])
    BY DEF BuiltinIsDefault
  <1>1. \A k : Places(k) = {}
    <2>1. Len(argv) = 1
      OBVIOUS
    <2> QED BY <2>1 DEF Places, Heads
  <1>2. BuiltinDocument \in Document
    BY DEF CommandInv, GivenInv
  <1>3. \A n \in 1 .. 27 : IsMember(n)
    BY <1>2, BuiltinKeysFacts, ElementOfSeq DEF Document, IsMember
  <1>4. Plain(BuiltinDocument)
    BY <1>3, BuiltinIsPlain
  <1>5. \A k \in Key : cfg[k] = Meant(BuiltinDocument, k)
    <2>1. RunUsesStrongestSource
      BY StrongestSource
    <2>2. \A k \in Key : IF Places(k) # {} THEN cfg[k] = LastSet(k)
                         ELSE IF ~found THEN cfg[k] = StructDefault[k]
                         ELSE Plain(document) =>
                                cfg[k] = IF Holds(document, k) THEN Meant(document, k) ELSE Unsaid(k)
      BY <2>1 DEF RunUsesStrongestSource
    <2>3. \A k : ~Holds(BuiltinDocument, k) => Meant(BuiltinDocument, k) = Unsaid(k)
      BY AbsentMeans DEF Holds
    <2> QED BY <1>1, <1>4, <2>2, <2>3
  <1>6. \A k \in Key \ {"formats", "output_path"} : cfg[k] = StructDefault[k]
    BY <1>2, <1>3, <1>5, BuiltinMeans
  <1>7. cfg["formats"] = <<0, 1, 2, 3, 4, 5>>
    BY <1>2, <1>3, <1>5, BuiltinMeans, KeyKinds
  <1>8. StructDefault["formats"] = <<>>
    BY DEF StructDefault
  <1> QED BY <1>6, <1>7, <1>8, AllFormats

\* `redcli init` followed by `redcli run` runs on what `redcli run` alone runs on.
THEOREM BuiltinDocumentIsDefault == Spec => []BuiltinIsDefault
  BY CommandInvariant, BuiltinRuns, PTL
=============================================================================
