------------------------- MODULE StripPipelineProofs -------------------------
(***************************************************************************)
(* Safety of the strip column pipeline, for every set of option records,   *)
(* every column and every content of its blocks: what the slots hold, that *)
(* dropping the bitmaps loses nothing, and that the verdict is the round   *)
(* trip.                                                                   *)
(***************************************************************************)
EXTENDS StripPipeline, RowBlockQueueProofs, WellFoundedInduction

-----------------------------------------------------------------------------
(* Sums over finite sets: what SumFunctionOnSet of the module Functions     *)
(* promises.  Where an induction is meant, a least counterexample is taken, *)
(* which exists because the order of the natural numbers is well-founded.   *)

\* The order of the natural numbers as a relation.
Below == {p \in Nat \X Nat : p[1] < p[2]}

\* Every set of natural numbers that is not empty has a least element.
LEMMA LeastNumber ==
  ASSUME NEW T, T \subseteq Nat, T # {}
  PROVE  \E n \in T : \A m \in T : n <= m
<1>1. IsWellFoundedOn(Below, Nat)
  BY NatLessThanWellFounded DEF OpToRel, Below
<1>2. PICK n \in T : \A m \in T : ~ (<<m, n>> \in Below)
  BY <1>1, WFMin
<1>3. ASSUME NEW m \in T  PROVE n <= m
  <2>1. <<m, n>> \notin Below  BY <1>2
  <2>2. m \in Nat /\ n \in Nat  OBVIOUS
  <2>3. ~ (m < n)  BY <2>1, <2>2 DEF Below
  <2> QED BY <2>2, <2>3
<1> QED BY <1>3

\* Of some subsets of a finite set there is one that contains no other of them.
LEMMA SmallestSet ==
  ASSUME NEW S, IsFiniteSet(S), NEW U \in SUBSET (SUBSET S), U # {}
  PROVE  \E T \in U : IsFiniteSet(T) /\ (\A V \in U : V \subseteq T => V = T)
<1>1. \A T \in U : IsFiniteSet(T) /\ Cardinality(T) \in Nat
  BY FS_Subset, FS_CardinalityType
<1> DEFINE C == {Cardinality(T) : T \in U}
<1>2. PICK n \in C : \A m \in C : n <= m
  <2>1. C \subseteq Nat /\ C # {}  BY <1>1
  <2> HIDE DEF C
  <2> QED BY <2>1, LeastNumber
<1>3. PICK T \in U : Cardinality(T) = n  BY <1>2
<1>4. ASSUME NEW V \in U, V \subseteq T, V # T  PROVE FALSE
  <2>1. Cardinality(V) < Cardinality(T)  BY <1>1, <1>4, FS_Subset
  <2>2. Cardinality(T) <= Cardinality(V)  BY <1>2, <1>3
  <2> QED BY <1>1, <2>1, <2>2
<1> QED BY <1>1, <1>4

\* The element a sum over s takes next.
Choice(s) == CHOOSE x \in s : TRUE

\* g gives the sum of f over every subset of S: the equation of the fold.
IsSum(f, S, g) ==
  g = [s \in SUBSET S |-> IF s = {} THEN 0 ELSE f[Choice(s)] + g[s \ {Choice(s)}]]

\* SumFunctionOnSet, with the folds of its definition expanded.
LEMMA SumIsChosen ==
  ASSUME NEW f, NEW S
  PROVE  SumFunctionOnSet(f, S) = (CHOOSE g : IsSum(f, S, g))[S]
BY DEF SumFunctionOnSet, FoldFunctionOnSet, MapThenFoldSet, IsSum, Choice

\* The element taken next is one of the set.
LEMMA ChoiceIn ==
  ASSUME NEW s, s # {}
  PROVE  Choice(s) \in s
BY DEF Choice

\* Functions that agree on a finite set have the same sums over its subsets.
LEMMA SumsAgree ==
  ASSUME NEW S, NEW V, IsFiniteSet(S), S \subseteq V, NEW e, NEW f, NEW g, NEW h,
         \A x \in S : e[x] = f[x], IsSum(e, S, g), IsSum(f, V, h)
  PROVE  \A s \in SUBSET S : g[s] = h[s]
<1> DEFINE Differ == {s \in SUBSET S : g[s] # h[s]}
<1> SUFFICES ASSUME Differ # {}  PROVE FALSE
  OBVIOUS
<1>1. PICK T \in Differ : \A R \in Differ : R \subseteq T => R = T
  <2> HIDE DEF Differ
  <2>1. Differ \in SUBSET (SUBSET S)  BY DEF Differ
  <2> QED BY <2>1, SmallestSet
<1>2. T # {}
  BY <1>1 DEF IsSum
<1>3. /\ g[T] = e[Choice(T)] + g[T \ {Choice(T)}]
      /\ h[T] = f[Choice(T)] + h[T \ {Choice(T)}]
  BY <1>1, <1>2 DEF IsSum
<1>4. Choice(T) \in T  BY <1>2, ChoiceIn
<1>5. g[T \ {Choice(T)}] = h[T \ {Choice(T)}]
  <2>1. T \ {Choice(T)} \in SUBSET S /\ T \ {Choice(T)} # T  BY <1>4
  <2> QED BY <1>1, <2>1
<1> QED BY <1>1, <1>3, <1>4, <1>5

\* Over a finite set the equation has a solution: a smallest subset without one
\* would have one, made of those of its subsets.
LEMMA SumExists ==
  ASSUME NEW S, IsFiniteSet(S), NEW f
  PROVE  \E g : IsSum(f, S, g)
<1> DEFINE Has(V) == \E g : IsSum(f, V, g)
           Bad == {V \in SUBSET S : ~Has(V)}
           G(V) == CHOOSE g : IsSum(f, V, g)
<1> SUFFICES ASSUME Bad # {}  PROVE FALSE
  <2>1. S \in SUBSET S  OBVIOUS
  <2> QED BY <2>1
<1>1. PICK T \in Bad : IsFiniteSet(T) /\ (\A R \in Bad : R \subseteq T => R = T)
  <2> HIDE DEF Bad
  <2>1. Bad \in SUBSET (SUBSET S)  BY DEF Bad
  <2> QED BY <2>1, SmallestSet
<1>2. \A V \in SUBSET T : V # T => IsFiniteSet(V) /\ IsSum(f, V, G(V))
  <2> TAKE V \in SUBSET T
  <2> HAVE V # T
  <2>1. Has(V)  BY <1>1
  <2>2. IsFiniteSet(V)  BY <1>1, FS_Subset
  <2> QED BY <2>1, <2>2
<1> HIDE DEF G
<1> DEFINE Rest(s) == s \ {Choice(s)}
           g == [s \in SUBSET T |-> IF s = {} THEN 0 ELSE f[Choice(s)] + G(Rest(s))[Rest(s)]]
<1>3. ASSUME NEW s \in SUBSET T, s # {}  PROVE  g[Rest(s)] = G(Rest(s))[Rest(s)]
  <2>1. Rest(s) \in SUBSET T /\ Rest(s) # T  BY <1>3, ChoiceIn
  <2> DEFINE V == Rest(s)
  <2>2. IsFiniteSet(V) /\ IsSum(f, V, G(V))  BY <1>2, <2>1
  <2> HIDE DEF V
  <2>3. V \in SUBSET T /\ V # T  BY <2>1 DEF V
  <2>4. CASE V = {}
    <3>1. G(V)[V] = 0  BY <2>2, <2>4 DEF IsSum
    <3> QED BY <2>3, <2>4, <3>1 DEF V
  <2>5. CASE V # {}
    <3>1. Choice(V) \in V  BY <2>5, ChoiceIn
    <3>2. G(V)[V] = f[Choice(V)] + G(V)[V \ {Choice(V)}]  BY <2>2, <2>5 DEF IsSum
    <3> DEFINE W == V \ {Choice(V)}
    <3>3. W \in SUBSET T /\ W # T /\ W \subseteq V  BY <2>3, <3>1
    <3>4. IsFiniteSet(W) /\ IsSum(f, W, G(W))  BY <1>2, <3>3
    <3>5. G(W)[W] = G(V)[W]
      <4> HIDE DEF W
      <4>1. W \in SUBSET W OBVIOUS
      <4>2. \A s1 \in SUBSET W : G(W)[s1] = G(V)[s1] BY <2>2, <3>3, <3>4, SumsAgree
      <4> QED BY <4>1, <4>2
    <3>6. g[V] = f[Choice(V)] + G(W)[W]  BY <2>3, <2>5
    <3>7. g[V] = G(V)[V] BY <3>2, <3>5, <3>6
    <3> QED BY <3>7 DEF V
  <2> QED BY <2>4, <2>5
<1>4. IsSum(f, T, g)
  <2> SUFFICES ASSUME NEW s \in SUBSET T, s # {}
               PROVE  G(Rest(s))[Rest(s)] = g[Rest(s)]
    BY DEF IsSum
  <2> QED BY <1>3
<1> QED BY <1>1, <1>4

\* Over a finite set the sum satisfies its equation.
LEMMA SumIsSum ==
  ASSUME NEW S, IsFiniteSet(S), NEW f
  PROVE  \E g : IsSum(f, S, g) /\ SumFunctionOnSet(f, S) = g[S]
<1>1. IsSum(f, S, CHOOSE g : IsSum(f, S, g))  BY SumExists
<1> QED BY <1>1, SumIsChosen

\* The sum over no elements.
LEMMA SumEmpty ==
  ASSUME NEW f
  PROVE  SumFunctionOnSet(f, {}) = 0
<1>1. PICK g : IsSum(f, {}, g) /\ SumFunctionOnSet(f, {}) = g[{}]
  BY SumIsSum, FS_EmptySet
<1> QED BY <1>1 DEF IsSum

\* A sum is its next element and the sum of the others.
LEMMA SumStep ==
  ASSUME NEW f, NEW S, IsFiniteSet(S), S # {}
  PROVE  SumFunctionOnSet(f, S) = f[Choice(S)] + SumFunctionOnSet(f, S \ {Choice(S)})
<1>1. PICK R : R = S \ {Choice(S)}  OBVIOUS
<1>2. IsFiniteSet(R) /\ R \subseteq S /\ R \in SUBSET R  BY <1>1, FS_Subset
<1>3. PICK g : IsSum(f, S, g) /\ SumFunctionOnSet(f, S) = g[S]  BY SumIsSum
<1>4. PICK h : IsSum(f, R, h) /\ SumFunctionOnSet(f, R) = h[R]  BY <1>2, SumIsSum
<1>5. g[S] = f[Choice(S)] + g[R]  BY <1>1, <1>3 DEF IsSum
<1>6. \A s \in SUBSET R : h[s] = g[s]  BY <1>2, <1>3, <1>4, SumsAgree
<1> QED BY <1>1, <1>2, <1>3, <1>4, <1>5, <1>6

\* A sum depends on the values at the elements of the set only.
LEMMA SumCongruent ==
  ASSUME NEW S, IsFiniteSet(S), NEW e, NEW f, \A x \in S : e[x] = f[x]
  PROVE  SumFunctionOnSet(e, S) = SumFunctionOnSet(f, S)
<1>1. PICK g : IsSum(e, S, g) /\ SumFunctionOnSet(e, S) = g[S]  BY SumIsSum
<1>2. PICK h : IsSum(f, S, h) /\ SumFunctionOnSet(f, S) = h[S]  BY SumIsSum
<1>3. \A s \in SUBSET S : g[s] = h[s]  BY <1>1, <1>2, SumsAgree
<1> QED BY <1>1, <1>2, <1>3

\* A sum of natural numbers is one.
LEMMA SumNat ==
  ASSUME NEW S, IsFiniteSet(S), NEW f, \A x \in S : f[x] \in Nat
  PROVE  SumFunctionOnSet(f, S) \in Nat
<1> DEFINE Bad == {V \in SUBSET S : SumFunctionOnSet(f, V) \notin Nat}
<1> SUFFICES ASSUME Bad # {}  PROVE FALSE
  OBVIOUS
<1>1. PICK T \in Bad : IsFiniteSet(T) /\ (\A R \in Bad : R \subseteq T => R = T)
  <2> HIDE DEF Bad
  <2>1. Bad \in SUBSET (SUBSET S)  BY DEF Bad
  <2> QED BY <2>1, SmallestSet
<1>2. T # {} /\ T \subseteq S
  <2>1. SumFunctionOnSet(f, {}) = 0  BY SumEmpty
  <2>2. SumFunctionOnSet(f, T) \notin Nat  BY <1>1
  <2> QED BY <2>1, <2>2
<1>3. Choice(T) \in T  BY <1>2, ChoiceIn
<1>4. SumFunctionOnSet(f, T \ {Choice(T)}) \in Nat  BY <1>1, <1>2, <1>3
<1>5. f[Choice(T)] \in Nat  BY <1>2, <1>3
<1> QED BY <1>1, <1>2, <1>4, <1>5, SumStep

\* Whichever element is taken out of a sum, the rest is the sum of the others.
LEMMA SumWithout ==
  ASSUME NEW S, IsFiniteSet(S), NEW f, \A x \in S : f[x] \in Nat, NEW y \in S
  PROVE  SumFunctionOnSet(f, S) = f[y] + SumFunctionOnSet(f, S \ {y})
<1> DEFINE Fine(V) == \A x \in V : SumFunctionOnSet(f, V) = f[x] + SumFunctionOnSet(f, V \ {x})
           Bad == {V \in SUBSET S : ~Fine(V)}
<1> SUFFICES ASSUME Bad # {}  PROVE FALSE
  <2>1. S \in SUBSET S  OBVIOUS
  <2> QED BY <2>1
<1>1. PICK T \in Bad : IsFiniteSet(T) /\ (\A R \in Bad : R \subseteq T => R = T)
  <2> HIDE DEF Bad
  <2>1. Bad \in SUBSET (SUBSET S)  BY DEF Bad
  <2> QED BY <2>1, SmallestSet
<1> HIDE DEF Fine
<1>2. \A V \in SUBSET T : V # T => Fine(V)  BY <1>1
<1> SUFFICES ASSUME NEW x \in T
             PROVE  SumFunctionOnSet(f, T) = f[x] + SumFunctionOnSet(f, T \ {x})
  BY <1>1 DEF Fine
<1> DEFINE c == Choice(T)
<1>3. c \in T  BY ChoiceIn
<1>4. SumFunctionOnSet(f, T) = f[c] + SumFunctionOnSet(f, T \ {c})  BY <1>1, SumStep
<1> HIDE DEF c
<1>5. CASE x = c  BY <1>4, <1>5
<1>6. CASE x # c
  <2>1. SumFunctionOnSet(f, T \ {c}) = f[x] + SumFunctionOnSet(f, (T \ {c}) \ {x})
    BY <1>2, <1>3, <1>6 DEF Fine
  <2>2. SumFunctionOnSet(f, T \ {x}) = f[c] + SumFunctionOnSet(f, (T \ {x}) \ {c})
    BY <1>2, <1>3, <1>6 DEF Fine
  <2>3. (T \ {c}) \ {x} = (T \ {x}) \ {c}  OBVIOUS
  <2>4. f[x] \in Nat /\ f[c] \in Nat  BY <1>1, <1>3
  <2>5. SumFunctionOnSet(f, (T \ {x}) \ {c}) \in Nat
    <3>1. IsFiniteSet((T \ {x}) \ {c})  BY <1>1, FS_Subset
    <3> QED BY <1>1, <3>1, SumNat
  <2> QED BY <1>4, <2>1, <2>2, <2>3, <2>4, <2>5
<1> QED BY <1>5, <1>6

\* The sum over two disjoint sets is the sum of their sums.
LEMMA SumUnion ==
  ASSUME NEW A, NEW B, IsFiniteSet(A), IsFiniteSet(B), A \cap B = {},
         NEW f, \A x \in A \cup B : f[x] \in Nat
  PROVE  SumFunctionOnSet(f, A \cup B) = SumFunctionOnSet(f, A) + SumFunctionOnSet(f, B)
<1> DEFINE Fine(V) == SumFunctionOnSet(f, A \cup V)
                        = SumFunctionOnSet(f, A) + SumFunctionOnSet(f, V)
           Bad == {V \in SUBSET B : ~Fine(V)}
<1> SUFFICES ASSUME Bad # {}  PROVE FALSE
  <2>1. B \in SUBSET B  OBVIOUS
  <2> QED BY <2>1
<1>1. PICK T \in Bad : IsFiniteSet(T) /\ (\A R \in Bad : R \subseteq T => R = T)
  <2> HIDE DEF Bad
  <2>1. Bad \in SUBSET (SUBSET B)  BY DEF Bad
  <2> QED BY <2>1, SmallestSet
<1>2. SumFunctionOnSet(f, A) \in Nat  BY SumNat
<1>3. CASE T = {}
  <2>1. A \cup T = A  BY <1>3
  <2> QED BY <1>1, <1>2, <1>3, <2>1, SumEmpty
<1>4. CASE T # {}
  <2>1. PICK y \in T : TRUE  BY <1>4
  <2> DEFINE R == T \ {y}
  <2>2. Fine(R)  BY <1>1, <2>1
  <2>3. SumFunctionOnSet(f, T) = f[y] + SumFunctionOnSet(f, R)
    BY <1>1, <2>1, SumWithout
  <2>4. SumFunctionOnSet(f, A \cup T) = f[y] + SumFunctionOnSet(f, A \cup R)
    <3>1. IsFiniteSet(A \cup T)  BY <1>1, FS_Union
    <3>2. (A \cup T) \ {y} = A \cup R  BY <1>1, <2>1
    <3>3. y \in A \cup T /\ (\A x \in A \cup T : f[x] \in Nat)  BY <1>1, <2>1
    <3> QED BY <3>1, <3>2, <3>3, SumWithout
  <2>5. f[y] \in Nat /\ SumFunctionOnSet(f, R) \in Nat
    <3>1. IsFiniteSet(R)  BY <1>1, FS_Subset
    <3> QED BY <1>1, <2>1, <3>1, SumNat
  <2> QED BY <1>1, <1>2, <2>2, <2>3, <2>4, <2>5
<1> QED BY <1>3, <1>4

\* An interval without its last element.
LEMMA WithoutLast ==
  ASSUME NEW lo \in Int, NEW hi \in Int, lo <= hi
  PROVE  (lo .. hi) \ {hi} = lo .. hi - 1
OBVIOUS

\* The slots 0 .. n-1 of e hold the numbers of the n rows of f that start at k.
Shifted(e, f, k, n) == \A r \in 0 .. n - 1 : e[r] = f[k + r] /\ f[k + r] \in Nat

\* A sum over the slots 0 .. n-1 is the sum over the n rows that start at k.
LEMMA SumShifted ==
  ASSUME NEW e, NEW f, NEW k \in Nat, NEW n \in Nat, Shifted(e, f, k, n)
  PROVE  SumFunctionOnSet(e, 0 .. n - 1) = SumFunctionOnSet(f, k .. k + n - 1)
<1>0. \A r \in 0 .. n - 1 : e[r] = f[k + r] /\ f[k + r] \in Nat
  BY DEF Shifted
<1> DEFINE Fine(m) == SumFunctionOnSet(e, 0 .. m - 1) = SumFunctionOnSet(f, k .. k + m - 1)
           Bad == {m \in 0 .. n : ~Fine(m)}
<1> SUFFICES ASSUME Bad # {}  PROVE FALSE
  <2>1. n \in 0 .. n  OBVIOUS
  <2> QED BY <2>1
<1>1. PICK m \in Bad : \A j \in Bad : m <= j
  <2>1. Bad \subseteq Nat  OBVIOUS
  <2> HIDE DEF Bad
  <2> QED BY <2>1, LeastNumber
<1>2. m \in 0 .. n /\ ~Fine(m)  OBVIOUS
<1>3. CASE m = 0
  <2>1. 0 .. m - 1 = {} /\ k .. k + m - 1 = {}  BY <1>3
  <2> QED BY <1>2, <2>1, SumEmpty
<1>4. CASE m # 0
  <2>1. PICK j \in 0 .. n - 1 : m = j + 1
    <3>1. m - 1 \in 0 .. n - 1 /\ m = (m - 1) + 1  BY <1>2, <1>4
    <3> QED BY <3>1
  <2>2. Fine(j)
    <3>1. j \in 0 .. n /\ ~ (m <= j)  BY <2>1
    <3> HIDE DEF Fine
    <3> QED BY <1>1, <3>1
  <2>3. SumFunctionOnSet(e, 0 .. j) = e[j] + SumFunctionOnSet(e, 0 .. j - 1)
    <3>1. PICK K : K = 0 .. j  OBVIOUS
    <3>2. j \in K  BY <2>1, <3>1
    <3>3. IsFiniteSet(K)  BY <2>1, <3>1, FS_Interval
    <3>4. \A r \in K : e[r] \in Nat
      <4> TAKE r \in K
      <4>1. r \in 0 .. n - 1  BY <2>1, <3>1
      <4> QED BY <1>0, <4>1
    <3>5. SumFunctionOnSet(e, K) = e[j] + SumFunctionOnSet(e, K \ {j})
      BY <3>2, <3>3, <3>4, SumWithout, ZenonT(60)
    <3>6. K \ {j} = 0 .. j - 1  BY <2>1, <3>1, WithoutLast
    <3> QED BY <3>1, <3>5, <3>6
  <2>4. SumFunctionOnSet(f, k .. k + j)
          = f[k + j] + SumFunctionOnSet(f, k .. k + j - 1)
    <3>1. PICK K, i : K = k .. k + j /\ i = k + j  OBVIOUS
    <3>2. i \in K  BY <2>1, <3>1
    <3>3. IsFiniteSet(K)  BY <2>1, <3>1, FS_Interval
    <3>4. \A r \in K : f[r] \in Nat
      <4> TAKE r \in K
      <4>1. r - k \in 0 .. n - 1 /\ k + (r - k) = r  BY <2>1, <3>1
      <4> QED BY <1>0, <4>1
    <3>5. SumFunctionOnSet(f, K) = f[i] + SumFunctionOnSet(f, K \ {i})
      BY <3>2, <3>3, <3>4, SumWithout
    <3>6. K \ {i} = k .. k + j - 1
      <4>1. k \in Int /\ i \in Int /\ k <= i /\ i - 1 = k + j - 1  BY <2>1, <3>1
      <4> QED BY <3>1, <4>1, WithoutLast
    <3> QED BY <3>1, <3>5, <3>6
  <2>5. e[j] = f[k + j]  BY <1>0
  <2>6. m - 1 = j /\ k + m - 1 = k + j  BY <2>1
  <2> QED BY <1>2, <2>2, <2>3, <2>4, <2>5, <2>6
<1> QED BY <1>3, <1>4

-----------------------------------------------------------------------------
(* The pipeline *)

\* The options a column runs under fit the queue's constants.
LEMMA OptionFacts ==
  ASSUME opt \in Options
  PROVE  /\ opt.nrows \in Nat /\ opt.cache \in 1 .. MaxRows
         /\ opt.rt \in Thread /\ opt.et \in Thread /\ opt.dt \in Thread
         /\ opt.repeat \in Nat \ {0}
         /\ opt.encode \in BOOLEAN /\ opt.decode \in BOOLEAN
         /\ opt.check \in BOOLEAN /\ opt.brotli \in BOOLEAN
  <1>1. opt \in OptionRecord /\ opt.cache <= MaxRows
        /\ opt.rt <= MaxThreads /\ opt.et <= MaxThreads /\ opt.dt <= MaxThreads
    BY OptionsAssumption, OptionsFit
  <1> QED BY <1>1, MaxRowsAssumption, MaxThreadsAssumption DEF OptionRecord, Positive, Thread

\* The window lies within the slots and within the column.
LEMMA WindowFacts ==
  ASSUME QueueInv, StripTypes, PhaseInv, phase \in WindowPhases
  PROVE  /\ total \in 1 .. MaxRows /\ total <= opt.nrows - row0 /\ total <= opt.cache
         /\ Window \subseteq Row
         /\ \A r \in Window : ImageRow(r) \in ImageRows(opt)
  <1>1. total \in 1 .. MaxRows
    BY DEF QueueInv, TypeOK
  <1>2. opt.nrows \in Nat /\ opt.cache \in 1 .. MaxRows /\ row0 \in Nat
    BY OptionFacts DEF StripTypes
  <1>3. total <= opt.nrows - row0 /\ total <= opt.cache
    BY <1>1, <1>2, MaxRowsAssumption DEF PhaseInv, NWin, Smaller
  <1> QED BY <1>1, <1>2, <1>3, MaxRowsAssumption DEF Window, Row, ImageRow, ImageRows

\* The next window is not empty, not larger than the slots, and within the
\* column.
LEMMA NextWindowFits ==
  ASSUME opt \in Options, row0 \in Nat, row0 < opt.nrows
  PROVE  NWin \in 1 .. MaxRows
  BY OptionFacts, MaxRowsAssumption DEF NWin, Smaller

\* A column starts with no slot in use and nothing judged.
LEMMA InitHolds == StripInit => StripInv
  <1> SUFFICES ASSUME StripInit PROVE StripInv
    OBVIOUS
  <1> USE DEF StripInit
  <1>1. QueueInv
    <2>1. TypeOK
      BY MaxRowsAssumption, MaxThreadsAssumption DEF TypeOK, Thread, Row, NoRow
    <2>2. LoopsInv
      BY MaxThreadsAssumption DEF LoopsInv, Thread
    <2>3. CounterInv
      BY MaxThreadsAssumption DEF CounterInv, Working, Thread
    <2>4. RowIssuedOnce
      BY DEF RowIssuedOnce, Working
    <2> QED BY <2>1, <2>2, <2>3, <2>4 DEF QueueInv
  <1>2. StripTypes
    BY DEF StripTypes, Phases, Slots, Kind, Content
  <1>3. PhaseInv
    BY DEF PhaseInv, WindowPhases
  <1>4. SlotsInv
    BY DEF SlotsInv, WindowPhases
  <1>5. VerdictInv
    BY OptionFacts DEF VerdictInv, Judged, Decoded, ImageRows
  <1> QED BY <1>1, <1>2, <1>3, <1>4, <1>5 DEF StripInv

\* While a phase runs, spawning, popping and joining move no data.
LEMMA SchedulingHolds ==
  ASSUME StripInv, InPhase, QueueInv',
         UNCHANGED <<total, finished, opt, image, phase, dataVars, columnVars>>
  PROVE  StripInv'
  <1> USE DEF StripInv, dataVars, columnVars
  <1>1. StripTypes'
    BY DEF StripTypes
  <1>2. PhaseInv'
    BY DEF PhaseInv, InPhase, NWin, DoDecode
  <1>3. SlotsInv'
    BY DEF SlotsInv, Window, ImageRow, Digest
  <1>4. VerdictInv'
    BY DEF VerdictInv, Verifies, DoDecode, Judged, Decoded, GoodSlot
  <1> QED BY <1>1, <1>2, <1>3, <1>4

\* Spawning a thread is a step of the queue only.
LEMMA PhaseSpawnHolds == StripInv /\ PhaseSpawn => StripInv'
  BY SpawnPreserves, SchedulingHolds DEF PhaseSpawn, Spawn, StripInv

\* Joining a thread is a step of the queue only.
LEMMA PhaseJoinHolds == StripInv /\ PhaseJoin => StripInv'
  BY JoinPreserves, SchedulingHolds DEF PhaseJoin, Join, StripInv

\* A pop is a step of the queue only.
LEMMA PhasePopHolds ==
  ASSUME NEW t \in Thread, StripInv, PhasePop(t)
  PROVE  StripInv'
  BY PopPreserves, SchedulingHolds DEF PhasePop, Pop, StripInv

\* A window opens on fresh slots; nothing of it is judged yet.
LEMMA OpenWindowHolds == StripInv /\ OpenWindow => StripInv'
  <1> SUFFICES ASSUME StripInv, OpenWindow PROVE StripInv'
    OBVIOUS
  <1> USE DEF StripInv, OpenWindow, dataVars, columnVars
  <1>1. NWin \in 1 .. MaxRows /\ opt.rt \in Thread
    BY NextWindowFits, OptionFacts DEF StripTypes
  <1>2. QueueInv'
    BY <1>1, StartQueueEstablishes
  <1>3. StripTypes'
    BY DEF StripTypes, Phases, Slots, Kind
  <1>4. PhaseInv'
    BY DEF PhaseInv, WindowPhases, StartQueue, NWin
  <1>5. Window' \subseteq Row /\ finished' = {}
    BY <1>1, MaxRowsAssumption DEF StartQueue, Window, Row
  <1>6. SlotsInv'
    BY <1>5 DEF SlotsInv, Slots
  <1>7. VerdictInv'
    BY DEF VerdictInv, Verifies, DoDecode, Judged, Decoded, GoodSlot
  <1> QED BY <1>2, <1>3, <1>4, <1>6, <1>7

\* The end of the column changes no slot.
LEMMA CloseColumnHolds == StripInv /\ CloseColumn => StripInv'
  <1> SUFFICES ASSUME StripInv, CloseColumn PROVE StripInv'
    OBVIOUS
  <1> USE DEF StripInv, CloseColumn, dataVars, columnVars
  <1>1. QueueInv'
    BY DEF queueVars, QueueInv, TypeOK, LoopsInv, CounterInv, RowIssuedOnce, Working
  <1>2. StripTypes'
    BY DEF StripTypes, Phases
  <1>3. PhaseInv'
    BY OptionFacts DEF PhaseInv, WindowPhases, queueVars, StripTypes
  <1>4. SlotsInv'
    BY DEF SlotsInv, WindowPhases
  <1>5. VerdictInv'
    BY DEF VerdictInv, Verifies, DoDecode, Judged, Decoded, GoodSlot, queueVars
  <1> QED BY <1>1, <1>2, <1>3, <1>4, <1>5

\* A worker's row is a slot of the window that is not finished, and its loop
\* body finishes that row only.
LEMMA BodyFacts ==
  ASSUME NEW t \in Thread, StripInv, Finish(t), phase \in WindowPhases
  PROVE  /\ wrow[t] \in Window /\ wrow[t] \in Row /\ wrow[t] \notin finished
         /\ ImageRow(wrow[t]) \in ImageRows(opt)
         /\ finished' = finished \cup {wrow[t]}
         /\ UNCHANGED <<total, mpc>>
         /\ QueueInv'
  <1> USE DEF StripInv
  <1>1. wrow[t] \in Window /\ wrow[t] \notin finished
    BY DEF Finish, QueueInv, RowIssuedOnce, Working, Window
  <1>2. wrow[t] \in Row /\ ImageRow(wrow[t]) \in ImageRows(opt)
    BY <1>1, WindowFacts
  <1>3. QueueInv'
    BY FinishPreserves
  <1> QED BY <1>1, <1>2, <1>3 DEF Finish

\* A rasterised block fills the slot of its row, and no other.
LEMMA RasterBlockHolds ==
  ASSUME NEW t \in Thread, StripInv, RasterBlock(t)
  PROVE  StripInv'
  <1> USE DEF RasterBlock
  <1>1. phase \in WindowPhases
    BY DEF WindowPhases
  <1>2. /\ wrow[t] \in Window /\ wrow[t] \in Row /\ wrow[t] \notin finished
        /\ ImageRow(wrow[t]) \in ImageRows(opt)
        /\ finished' = finished \cup {wrow[t]}
        /\ UNCHANGED <<total, mpc>>
        /\ QueueInv'
    BY <1>1, BodyFacts
  <1> DEFINE content == image[ImageRow(wrow[t])]
  <1>3. /\ digests' = [digests EXCEPT ![wrow[t]] = Digest(content)]
        /\ raw' = [raw EXCEPT ![wrow[t]] = content]
    BY DEF Rasterized
  <1>4. content \in Kind /\ Digest(content) \in {"invalid", "unhashed"} \cup Content
    BY <1>2 DEF StripInv, StripTypes, Digest
  <1>5. StripTypes'
    BY <1>3, <1>4, ZenonT(60) DEF StripInv, StripTypes, columnVars
  <1>6. PhaseInv'
    BY <1>2 DEF StripInv, PhaseInv, columnVars, NWin
  <1>7. SlotsInv'
    <2> SUFFICES ASSUME NEW r \in Window
                 PROVE  IF r \in finished'
                        THEN raw'[r] = image[ImageRow(r)] /\ digests'[r] = Digest(image[ImageRow(r)])
                        ELSE raw'[r] = "null" /\ digests'[r] = "invalid"
      BY <1>2 DEF SlotsInv, Window, ImageRow, Digest, columnVars
    <2>1. r \in Row
      BY <1>1, WindowFacts DEF StripInv
    <2>2. CASE r = wrow[t]
      BY <1>2, <1>3, <2>2 DEF StripInv, StripTypes
    <2>3. CASE r # wrow[t]
      BY <1>1, <1>2, <1>3, <2>1, <2>3 DEF StripInv, StripTypes, SlotsInv
    <2> QED BY <2>2, <2>3
  <1>8. VerdictInv'
    BY <1>2 DEF StripInv, VerdictInv, Verifies, DoDecode, Judged, Decoded, columnVars
  <1> QED BY <1>2, <1>5, <1>6, <1>7, <1>8 DEF StripInv

\* With the pool joined, the whole window is finished.
LEMMA JoinedWindow ==
  ASSUME StripInv, mpc = "joined"
  PROVE  finished = Window
  BY QueueInvImpliesDone DEF StripInv, JoinedMeansAllDone, Window

\* The next pass gets a queue over the same window.
LEMMA SameWindow ==
  ASSUME StripInv, phase \in WindowPhases, NEW requested \in Thread,
         StartQueue(total, requested)
  PROVE  QueueInv' /\ total' = total /\ finished' = {}
  <1>1. total \in 1 .. MaxRows
    BY WindowFacts DEF StripInv
  <1> QED BY <1>1, StartQueueEstablishes DEF StartQueue

\* Where the queue stays, so does its invariant.
LEMMA QueueUntouched ==
  ASSUME QueueInv, UNCHANGED queueVars
  PROVE  QueueInv' /\ UNCHANGED <<total, mpc, finished>>
  BY DEF queueVars, QueueInv, TypeOK, LoopsInv, CounterInv, RowIssuedOnce, Working

\* After the raster join every slot holds the bitmap and the digest of its row.
LEMMA RasterJoinedHolds == StripInv /\ RasterJoined => StripInv'
  <1> SUFFICES ASSUME StripInv, RasterJoined PROVE StripInv'
    OBVIOUS
  <1> USE DEF RasterJoined
  <1>1. phase \in WindowPhases /\ finished = Window
    BY JoinedWindow DEF WindowPhases
  <1>2. /\ opt.et \in Thread /\ opt.repeat \in Nat \ {0} /\ opt.encode \in BOOLEAN
        /\ Window \subseteq Row
    BY <1>1, OptionFacts, WindowFacts DEF StripInv, StripTypes
  <1>3. /\ QueueInv' /\ total' = total
        /\ \/ opt.encode /\ phase' = "encode" /\ finished' = {}
           \/ ~opt.encode /\ phase' = "drop" /\ mpc' = "joined"
    BY <1>1, <1>2, SameWindow, QueueUntouched DEF StartEncode, StripInv
  <1>4. StripTypes'
    BY <1>3 DEF StripInv, StripTypes, Phases, Slots
  <1>5. PhaseInv'
    BY <1>1, <1>2, <1>3 DEF StripInv, PhaseInv, WindowPhases, NWin
  <1>6. SlotsInv'
    BY <1>1, <1>2, <1>3 DEF StripInv, SlotsInv, WindowPhases, Window, ImageRow, Digest, Slots
  <1>7. VerdictInv'
    BY <1>3 DEF StripInv, VerdictInv, Verifies, DoDecode, Judged, Decoded
  <1> QED BY <1>3, <1>4, <1>5, <1>6, <1>7 DEF StripInv

\* An encoded block is that of the slot's row, in every pass.
LEMMA EncodeBlockHolds ==
  ASSUME NEW t \in Thread, StripInv, EncodeBlock(t)
  PROVE  StripInv'
  <1> USE DEF EncodeBlock
  <1>1. phase \in WindowPhases
    BY DEF WindowPhases
  <1>2. /\ wrow[t] \in Window /\ wrow[t] \in Row /\ wrow[t] \notin finished
        /\ finished' = finished \cup {wrow[t]}
        /\ UNCHANGED <<total, mpc>>
        /\ QueueInv'
    BY <1>1, BodyFacts
  <1>3. raw[wrow[t]] = image[ImageRow(wrow[t])]
    BY <1>1, <1>2 DEF StripInv, SlotsInv
  <1>4. StripTypes'
    BY <1>2 DEF StripInv, StripTypes, columnVars
  <1>5. PhaseInv'
    BY <1>2 DEF StripInv, PhaseInv, columnVars, NWin
  <1>6. SlotsInv'
    <2> SUFFICES ASSUME NEW r \in Window
                 PROVE  /\ enc'[r] \in {"null", image[ImageRow(r)]}
                        /\ (r \in finished' \/ rep > 0) /\ image[ImageRow(r)] # "null"
                             => enc'[r] = image[ImageRow(r)]
      BY <1>1, <1>2 DEF StripInv, SlotsInv, Window, ImageRow, Digest, columnVars
    <2>1. r \in Row
      BY <1>1, WindowFacts DEF StripInv
    <2>2. CASE r = wrow[t]
      BY <1>1, <1>2, <1>3, <2>2 DEF StripInv, StripTypes, SlotsInv
    <2>3. CASE r # wrow[t]
      BY <1>1, <1>2, <2>1, <2>3 DEF StripInv, StripTypes, SlotsInv
    <2> QED BY <2>2, <2>3
  <1>7. VerdictInv'
    BY <1>2 DEF StripInv, VerdictInv, Verifies, DoDecode, Judged, Decoded, columnVars
  <1> QED BY <1>2, <1>4, <1>5, <1>6, <1>7 DEF StripInv

\* An exception ends the program where it is.
LEMMA EncodeThrowsHolds ==
  ASSUME NEW t \in Thread, StripInv, EncodeThrows(t)
  PROVE  StripInv'
  <1> USE DEF EncodeThrows, dataVars, columnVars
  <1>1. QueueInv' /\ UNCHANGED <<total, mpc, finished>>
    BY QueueUntouched DEF StripInv
  <1>2. StripTypes'
    BY DEF StripInv, StripTypes, Phases
  <1>3. PhaseInv' /\ SlotsInv'
    BY DEF PhaseInv, SlotsInv, WindowPhases
  <1>4. VerdictInv'
    BY DEF StripInv, VerdictInv, Verifies, DoDecode, Judged, Decoded
  <1> QED BY <1>1, <1>2, <1>3, <1>4 DEF StripInv

\* After the join of an encode pass every block there is has its encoded form.
LEMMA EncodeJoinedHolds == StripInv /\ EncodeJoined => StripInv'
  <1> SUFFICES ASSUME StripInv, EncodeJoined PROVE StripInv'
    OBVIOUS
  <1> USE DEF EncodeJoined, dataVars
  <1>1. phase \in WindowPhases /\ finished = Window
    BY JoinedWindow DEF WindowPhases
  <1>2. /\ opt.et \in Thread /\ opt.repeat \in Nat \ {0} /\ rep \in Nat
        /\ opt.encode /\ rep < opt.repeat
    BY OptionFacts DEF StripInv, StripTypes, PhaseInv
  <1>3. /\ QueueInv' /\ total' = total /\ rep' = rep + 1
        /\ \/ phase' = "encode" /\ rep' < opt.repeat /\ finished' = {}
           \/ phase' = "drop" /\ mpc' = "joined"
    BY <1>1, <1>2, SameWindow, QueueUntouched DEF StartEncode, StripInv, AnotherPass
  <1>4. StripTypes'
    BY <1>2, <1>3 DEF StripInv, StripTypes, Phases
  <1>5. PhaseInv'
    BY <1>1, <1>2, <1>3 DEF StripInv, PhaseInv, WindowPhases, NWin
  <1>6. SlotsInv'
    BY <1>1, <1>2, <1>3 DEF StripInv, SlotsInv, WindowPhases, Window, ImageRow, Digest
  <1>7. VerdictInv'
    BY <1>3 DEF StripInv, VerdictInv, Verifies, DoDecode, Judged, Decoded
  <1> QED BY <1>3, <1>4, <1>5, <1>6, <1>7 DEF StripInv

\* The bitmaps go when every encoded block is there; a decode pass starts with
\* no row judged in it.
LEMMA DropRawHolds == StripInv /\ DropRaw => StripInv'
  <1> SUFFICES ASSUME StripInv, DropRaw PROVE StripInv'
    OBVIOUS
  <1> USE DEF DropRaw
  <1>1. phase \in WindowPhases /\ mpc = "joined"
    BY DEF StripInv, PhaseInv, WindowPhases
  <1>2. /\ opt.dt \in Thread /\ opt.repeat \in Nat \ {0}
        /\ Window \subseteq Row /\ Window' = 0 .. total' - 1
    BY <1>1, OptionFacts, WindowFacts DEF StripInv, StripTypes, Window
  <1>3. /\ QueueInv' /\ total' = total
        /\ \/ DoDecode(opt) /\ phase' = "decode" /\ finished' = {} /\ ok' = TRUE
           \/ ~DoDecode(opt) /\ phase' = "close" /\ mpc' = "joined"
    BY <1>1, <1>2, SameWindow, QueueUntouched DEF StartDecode, StripInv
  <1>4. StripTypes'
    BY <1>3 DEF StripInv, StripTypes, Phases, Slots, Kind, Released, StartDecode
  <1>5. PhaseInv'
    BY <1>1, <1>2, <1>3 DEF StripInv, PhaseInv, WindowPhases, NWin, DoDecode
  <1>6. SlotsInv'
    BY <1>1, <1>2, <1>3 DEF StripInv, SlotsInv, WindowPhases, Window, ImageRow, Digest,
                            Slots, Released
  <1>7. VerdictInv'
    <2> SUFFICES ASSUME Verifies(opt) PROVE VerdictInv'
      BY DEF VerdictInv, Verifies, DoDecode
    <2>1. phase' = "decode" /\ finished' = {} /\ ok' = TRUE /\ rep' = 0
      BY <1>3 DEF Verifies
    <2>2. \A i \in ImageRows(opt) : Judged(i)' = Judged(i) /\ ~Decoded(i) /\ ~Decoded(i)'
      BY <2>1, <1>3 DEF Judged, Decoded
    <2> QED BY <2>1, <2>2 DEF StripInv, VerdictInv, ImageRows, Verifies, DoDecode
  <1> QED BY <1>3, <1>4, <1>5, <1>6, <1>7 DEF StripInv

\* What a decode call leaves in a zeroed buffer is a content or garbage, and it
\* is the encoded block, without an error, exactly when it restores the block.
LEMMA WrittenFacts ==
  ASSUME NEW o \in Outcome, NEW content \in Content
  PROVE  /\ Written(o, content, "blank") \in {"garbage"} \cup Content
         /\ (o # "error" /\ Written(o, content, "blank") = content) <=> Restores(o, content)
  BY DEF Written, Restores, Outcome, Content

\* A decoded block is judged by its own slot: its flag and buffer say good
\* exactly when this pass has restored it.
LEMMA DecodeBlockHolds ==
  ASSUME NEW t \in Thread, StripInv, DecodeBlock(t)
  PROVE  StripInv'
  <1>1. phase = "decode" /\ phase \in WindowPhases /\ Finish(t)
    BY DEF DecodeBlock, WindowPhases
  <1>2. PICK r \in Row, i \in ImageRows(opt) :
          /\ r = wrow[t] /\ i = ImageRow(r)
          /\ r \in Window /\ r \notin finished
          /\ finished' = finished \cup {r}
          /\ UNCHANGED <<total, mpc>>
          /\ QueueInv'
    BY <1>1, BodyFacts
  <1>3. UNCHANGED <<opt, image, phase, raw, digests, enc, row0, rep, ss, cs, allOk>>
    BY DEF DecodeBlock
  <1>4. /\ digests[r] = Digest(image[i]) /\ enc[r] \in {"null", image[i]}
        /\ opt.encode /\ image[i] # "null" => enc[r] = image[i]
    BY <1>1, <1>2 DEF StripInv, SlotsInv
  <1>5. \/ /\ digests[r] = "invalid" \/ enc[r] = "null" \/ ~opt.check
           /\ UNCHANGED <<bufs, decodedOk, ok, restored>>
        \/ /\ digests[r] # "invalid" /\ enc[r] # "null" /\ opt.check
           /\ \E o \in IF opt.brotli THEN {"silent"} ELSE Outcome :
                /\ bufs' = [bufs EXCEPT ![r] = Written(o, enc[r], "blank")]
                /\ decodedOk' = [decodedOk EXCEPT ![r] = o # "error"]
                /\ ok' = (ok /\ o # "error")
                /\ restored' = IF Restores(o, image[i])
                               THEN [restored EXCEPT ![i] = @ + 1] ELSE restored
    BY <1>2 DEF DecodeBlock
  <1>6. StripTypes'
    <2>1. /\ bufs' \in [Row -> {"none", "garbage"} \cup Content]
          /\ decodedOk' \in [Row -> BOOLEAN] /\ ok' \in BOOLEAN
          /\ restored' \in [ImageRows(opt) -> Nat]
      <3>1. CASE UNCHANGED <<bufs, decodedOk, ok, restored>>
        BY <3>1 DEF StripInv, StripTypes
      <3>2. ASSUME NEW o \in Outcome, enc[r] # "null",
                   bufs' = [bufs EXCEPT ![r] = Written(o, enc[r], "blank")],
                   decodedOk' = [decodedOk EXCEPT ![r] = o # "error"],
                   ok' = (ok /\ o # "error"),
                   restored' = IF Restores(o, image[i])
                               THEN [restored EXCEPT ![i] = @ + 1] ELSE restored
            PROVE  /\ bufs' \in [Row -> {"none", "garbage"} \cup Content]
                   /\ decodedOk' \in [Row -> BOOLEAN] /\ ok' \in BOOLEAN
                   /\ restored' \in [ImageRows(opt) -> Nat]
        <4>1. enc[r] \in Content
          BY <1>2, <3>2 DEF StripInv, StripTypes
        <4>2. Written(o, enc[r], "blank") \in {"garbage"} \cup Content
          BY <4>1, WrittenFacts
        <4> QED BY <1>2, <3>2, <4>2 DEF StripInv, StripTypes
      <3> QED BY <1>5, <3>1, <3>2 DEF Outcome
    <2> QED BY <1>3, <2>1 DEF StripInv, StripTypes
  <1>7. PhaseInv'
    BY <1>2, <1>3 DEF StripInv, PhaseInv, NWin
  <1>8. SlotsInv'
    BY <1>1, <1>2, <1>3 DEF StripInv, SlotsInv, Window, ImageRow, Digest
  <1>9. VerdictInv'
    <2> SUFFICES ASSUME Verifies(opt) PROVE VerdictInv'
      BY <1>3 DEF VerdictInv
    <2>1. opt.check /\ ~opt.brotli /\ opt.encode
      BY DEF Verifies, DoDecode
    <2>2. digests[r] # "invalid" <=> image[i] \in Content
      BY <1>4, <2>1 DEF Digest, Content
    <2>3. \A j \in ImageRows(opt) : /\ Judged(j)' = Judged(j)
                                    /\ Decoded(j)' <=> Decoded(j) \/ j = i
      <3> TAKE j \in ImageRows(opt)
      <3>1. Judged(j)' = Judged(j)
        BY <1>2, <1>3 DEF Judged, DoDecode
      <3>2. j \in Int /\ row0 \in Int /\ r \in Int /\ i = row0 + r
        BY <1>2, OptionFacts, MaxRowsAssumption
           DEF ImageRows, ImageRow, Row, StripInv, StripTypes
      <3>3. j - row0 \in finished' <=> j - row0 \in finished \/ j = i
        BY <1>2, <3>2
      <3>4. phase' = "decode" /\ row0' = row0
        BY <1>1, <1>3
      <3> QED BY <1>1, <3>1, <3>3, <3>4 DEF Decoded
    <2>4. ~Decoded(i)
      BY <1>2 DEF Decoded, ImageRow, Row, StripInv, StripTypes
    <2>5. CASE image[i] \notin Content
      <3>1. UNCHANGED <<bufs, decodedOk, ok, restored, digests>>
        BY <1>3, <1>5, <2>2, <2>5
      <3>2. \A j \in ImageRows(opt) : image[j] \in Content => Decoded(j)' = Decoded(j)
        BY <2>3, <2>5 DEF Decoded
      <3> QED BY <1>2, <1>3, <2>2, <2>3, <2>5, <3>1, <3>2
              DEF StripInv, VerdictInv, GoodSlot, Decoded
    <2>6. CASE image[i] \in Content
      <3>1. enc[r] = image[i] /\ digests[r] = image[i]
        BY <1>4, <2>1, <2>6 DEF Content, Digest
      <3>2. PICK o \in Outcome :
              /\ bufs' = [bufs EXCEPT ![r] = Written(o, image[i], "blank")]
              /\ decodedOk' = [decodedOk EXCEPT ![r] = o # "error"]
              /\ ok' = (ok /\ o # "error")
              /\ restored' = IF Restores(o, image[i])
                             THEN [restored EXCEPT ![i] = @ + 1] ELSE restored
        BY <1>5, <2>1, <2>2, <2>6, <3>1 DEF Content
      <3>3. GoodSlot(r)' <=> Restores(o, image[i])
        BY <1>2, <1>3, <2>6, <3>1, <3>2, WrittenFacts DEF GoodSlot, StripInv, StripTypes
      <3>4. \A k \in finished : /\ k \in Row /\ k # r
                                /\ decodedOk'[k] = decodedOk[k]
                                /\ GoodSlot(k)' <=> GoodSlot(k)
        BY <1>2, <1>3, <3>2 DEF GoodSlot, StripInv, StripTypes, QueueInv, TypeOK
      <3>5. ok' <=> \A k \in finished' : digests'[k] # "invalid" => decodedOk'[k]
        <4>1. decodedOk'[r] <=> o # "error"
          BY <1>2, <3>2 DEF StripInv, StripTypes
        <4>2. digests'[r] # "invalid"
          BY <1>3, <2>2, <2>6
        <4>3. ok <=> \A k \in finished : digests[k] # "invalid" => decodedOk[k]
          BY <1>1 DEF StripInv, VerdictInv
        <4>4. ok' <=> ok /\ o # "error"
          BY <3>2
        <4>5. \A k \in finished : decodedOk'[k] = decodedOk[k] /\ digests'[k] = digests[k]
          BY <1>3, <3>4
        <4>6. (\A k \in finished' : digests'[k] # "invalid" => decodedOk'[k])
                <=> /\ \A k \in finished : digests[k] # "invalid" => decodedOk[k]
                    /\ o # "error"
          <5>1. \A k \in finished' : k \in finished \/ k = r
            BY <1>2
          <5>2. r \in finished' /\ \A k \in finished : k \in finished'
            BY <1>2
          <5> QED BY <4>1, <4>2, <4>5, <5>1, <5>2, Zenon
        <4> QED BY <4>3, <4>4, <4>6, Zenon
      <3>6. \A j \in ImageRows(opt) :
              restored'[j] = restored[j] + (IF j = i /\ Restores(o, image[i]) THEN 1 ELSE 0)
        BY <1>2, <3>2 DEF StripInv, StripTypes
      <3>7. ASSUME allOk, NEW j \in ImageRows(opt), image[j] \in Content
            PROVE  restored'[j] = Judged(j)' +
                     (IF Decoded(j)' /\ GoodSlot(j - row0)' THEN 1 ELSE 0)
        <4>1. restored[j] = Judged(j) + (IF Decoded(j) /\ GoodSlot(j - row0) THEN 1 ELSE 0)
          BY <3>7 DEF StripInv, VerdictInv
        <4>2. Judged(j)' = Judged(j) /\ Judged(j) \in Nat /\ (Decoded(j)' <=> Decoded(j) \/ j = i)
          BY <2>3, <3>7, OptionFacts DEF Judged, StripInv, StripTypes
        <4>3. CASE j = i
          <5>1. GoodSlot(j - row0)' <=> Restores(o, image[i])
            BY <1>2, <1>3, <3>3, <4>3 DEF ImageRow, Row, StripInv, StripTypes
          <5> QED BY <2>4, <3>6, <3>7, <4>1, <4>2, <4>3, <5>1
        <4>4. CASE j # i
          <5>1. ASSUME Decoded(j) PROVE GoodSlot(j - row0)' <=> GoodSlot(j - row0)
            <6>1. PICK k \in finished : k = j - row0
              BY <5>1 DEF Decoded
            <6>2. GoodSlot(k)' <=> GoodSlot(k)
              BY <3>4
            <6>3. k = j - row0'
              BY <1>3, <6>1
            <6> QED BY <6>1, <6>2, <6>3 DEF GoodSlot
          <5> QED BY <3>6, <3>7, <4>1, <4>2, <4>4, <5>1
        <4> QED BY <4>3, <4>4
      <3>8. ASSUME ~allOk
            PROVE  \E j \in ImageRows(opt) :
                     image[j] \in Content
                     /\ restored'[j] < Judged(j)' + (IF Decoded(j)' THEN 1 ELSE 0)
        <4>1. PICK j \in ImageRows(opt) :
                image[j] \in Content
                /\ restored[j] < Judged(j) + (IF Decoded(j) THEN 1 ELSE 0)
          BY <3>8 DEF StripInv, VerdictInv
        <4>2. Judged(j)' = Judged(j) /\ Judged(j) \in Nat /\ (Decoded(j)' <=> Decoded(j) \/ j = i)
          BY <2>3, <4>1, OptionFacts DEF Judged, StripInv, StripTypes
        <4>3. restored[j] \in Nat
          BY <4>1 DEF StripInv, StripTypes
        <4> QED BY <2>4, <3>6, <4>1, <4>2, <4>3
      <3> QED BY <1>3, <3>5, <3>7, <3>8 DEF VerdictInv
    <2> QED BY <2>5, <2>6
  <1> QED BY <1>2, <1>6, <1>7, <1>8, <1>9 DEF StripInv

\* After the join of a decode pass the flag and the verify loop together say
\* whether every slot with a bitmap is good.
LEMMA PassJudgesSlots ==
  ASSUME StripInv, phase = "decode", mpc = "joined", Verifies(opt)
  PROVE  PassOk <=> \A r \in Window : digests[r] # "invalid" => GoodSlot(r)
  <1>1. finished = Window
    BY JoinedWindow
  <1>2. ok <=> \A r \in Window : digests[r] # "invalid" => decodedOk[r]
    BY <1>1 DEF StripInv, VerdictInv
  <1>3. opt.check /\ ~opt.brotli
    BY DEF Verifies
  <1> QED BY <1>2, <1>3 DEF PassOk, Fails, GoodSlot

\* The verdict of a pass is folded into the column's.
LEMMA DecodeJoinedHolds == StripInv /\ DecodeJoined => StripInv'
  <1> SUFFICES ASSUME StripInv, DecodeJoined PROVE StripInv'
    OBVIOUS
  <1>1. /\ phase = "decode" /\ phase \in WindowPhases /\ mpc = "joined" /\ finished = Window
        /\ allOk' = (allOk /\ PassOk) /\ rep' = rep + 1
        /\ UNCHANGED <<opt, image, raw, digests, enc, row0, ss, cs, restored>>
    BY JoinedWindow DEF DecodeJoined, Judgement, WindowPhases
  <1>2. /\ opt.dt \in Thread /\ opt.repeat \in Nat \ {0} /\ rep \in Nat /\ row0 \in Nat
        /\ rep < opt.repeat /\ DoDecode(opt) /\ total \in 1 .. MaxRows
        /\ total <= opt.nrows - row0 /\ opt.nrows \in Nat
    BY <1>1, OptionFacts, WindowFacts DEF StripInv, StripTypes, PhaseInv
  <1>3. /\ QueueInv' /\ total' = total
        /\ \/ /\ phase' = "decode" /\ rep' < opt.repeat /\ finished' = {} /\ ok' = TRUE
              /\ bufs' = Slots("none") /\ decodedOk' = Slots(FALSE)
           \/ /\ phase' = "close" /\ rep' = opt.repeat /\ mpc' = "joined"
              /\ UNCHANGED <<bufs, decodedOk, ok>>
    <2>1. CASE AnotherPass
      <3>1. StartDecode
        BY <2>1 DEF DecodeJoined
      <3>2. StartQueue(total, opt.dt)
        BY <3>1 DEF StartDecode
      <3>3. QueueInv' /\ total' = total /\ finished' = {}
        BY <1>1, <1>2, <3>2, SameWindow
      <3> QED BY <1>1, <2>1, <3>1, <3>3 DEF StartDecode, AnotherPass
    <2>2. CASE ~AnotherPass
      <3>1. phase' = "close" /\ UNCHANGED <<queueVars, bufs, decodedOk, ok>>
        BY <2>2 DEF DecodeJoined
      <3> QED BY <1>1, <1>2, <2>2, <3>1, QueueUntouched DEF AnotherPass, StripInv
    <2> QED BY <2>1, <2>2
  <1>4. StripTypes'
    <2>1. allOk' \in BOOLEAN
      BY <1>1
    <2>2. /\ bufs' \in [Row -> {"none", "garbage"} \cup Content]
          /\ decodedOk' \in [Row -> BOOLEAN] /\ ok' \in BOOLEAN
      BY <1>3 DEF StripInv, StripTypes, Slots
    <2>3. phase' \in Phases
      BY <1>3 DEF Phases
    <2>4. rep' \in Nat
      BY <1>1, <1>2
    <2> QED BY <1>1, <2>1, <2>2, <2>3, <2>4 DEF StripInv, StripTypes
  <1>5. PhaseInv'
    BY <1>1, <1>2, <1>3 DEF StripInv, PhaseInv, WindowPhases, NWin
  <1>6. SlotsInv'
    BY <1>1, <1>3 DEF StripInv, SlotsInv, WindowPhases, Window, ImageRow, Digest
  <1>7. VerdictInv'
    <2> SUFFICES ASSUME Verifies(opt) PROVE VerdictInv'
      BY <1>1 DEF VerdictInv
    <2>1. PassOk <=> \A r \in Window : digests[r] # "invalid" => GoodSlot(r)
      BY <1>1, PassJudgesSlots
    <2>2. \A j \in ImageRows(opt) : /\ Judged(j) \in Nat
                                    /\ Judged(j)' = Judged(j) + (IF Decoded(j) THEN 1 ELSE 0)
                                    /\ ~Decoded(j)'
      <3> TAKE j \in ImageRows(opt)
      <3>1. j \in Nat
        BY <1>2 DEF ImageRows
      <3>2. Decoded(j) <=> j >= row0 /\ j < row0 + total
        BY <1>1, <1>2, <3>1 DEF Decoded, Window
      <3>3. Judged(j) = IF j < row0 THEN opt.repeat ELSE IF j < row0 + total THEN rep ELSE 0
        BY <1>1 DEF Judged
      <3>4. Judged(j)' = IF j < row0 THEN opt.repeat
                         ELSE IF j < row0 + total THEN rep + 1 ELSE 0
        BY <1>1, <1>2, <1>3 DEF Judged, DoDecode
      <3>5. ~Decoded(j)'
        BY <1>3 DEF Decoded
      <3> QED BY <1>2, <3>1, <3>2, <3>3, <3>4, <3>5
    <2>3. \A r \in Window : digests[r] # "invalid" <=> image[ImageRow(r)] \in Content
      BY <1>1 DEF StripInv, SlotsInv, Digest, Content, Verifies
    <2>4. phase' = "decode" => finished' = {} /\ ok' = TRUE
      BY <1>3
    <2>5. ASSUME allOk', NEW j \in ImageRows(opt), image[j] \in Content
          PROVE  restored[j] = Judged(j)'
      <3>1. restored[j] = Judged(j) + (IF Decoded(j) /\ GoodSlot(j - row0) THEN 1 ELSE 0)
        BY <1>1, <2>5 DEF StripInv, VerdictInv
      <3>2. Decoded(j) => GoodSlot(j - row0)
        <4> SUFFICES ASSUME Decoded(j) PROVE GoodSlot(j - row0)
          OBVIOUS
        <4>1. PICK r \in Window : r = j - row0
          BY <1>1 DEF Decoded
        <4>2. ImageRow(r) = j
          BY <1>2, <4>1 DEF ImageRow, ImageRows
        <4> QED BY <1>1, <2>1, <2>3, <2>5, <4>1, <4>2
      <3> QED BY <2>2, <3>1, <3>2
    <2>6. ASSUME ~allOk'
          PROVE  \E j \in ImageRows(opt) : image[j] \in Content /\ restored[j] < Judged(j)'
      <3>1. CASE ~allOk
        <4>1. PICK j \in ImageRows(opt) :
                image[j] \in Content /\ restored[j] < Judged(j) + (IF Decoded(j) THEN 1 ELSE 0)
          BY <3>1 DEF StripInv, VerdictInv
        <4> QED BY <2>2, <4>1
      <3>2. CASE allOk
        <4>1. PICK r \in Window : digests[r] # "invalid" /\ ~GoodSlot(r)
          BY <1>1, <2>1, <2>6, <3>2
        <4>2. ImageRow(r) \in ImageRows(opt) /\ image[ImageRow(r)] \in Content
          BY <1>1, <2>3, <4>1, WindowFacts DEF StripInv
        <4>3. ImageRow(r) - row0 = r
          BY <1>2 DEF ImageRow, Window
        <4>4. Decoded(ImageRow(r))
          BY <1>1, <4>3 DEF Decoded
        <4>5. restored[ImageRow(r)] = Judged(ImageRow(r))
          BY <2>2, <3>2, <4>1, <4>2, <4>3 DEF StripInv, VerdictInv
        <4> QED BY <2>2, <4>2, <4>4, <4>5
      <3> QED BY <3>1, <3>2
    <2> QED BY <1>1, <2>2, <2>4, <2>5, <2>6 DEF VerdictInv
  <1> QED BY <1>3, <1>4, <1>5, <1>6, <1>7 DEF StripInv

\* Passing on to the next window closes the rows of this one.
LEMMA CloseWindowHolds == StripInv /\ CloseWindow => StripInv'
  <1> SUFFICES ASSUME StripInv, CloseWindow PROVE StripInv'
    OBVIOUS
  <1> USE DEF CloseWindow, NextRow0
  <1>1. phase \in WindowPhases /\ mpc = "joined"
    BY DEF StripInv, PhaseInv, WindowPhases
  <1>2. /\ opt.cache \in Nat /\ opt.nrows \in Nat /\ row0 \in Nat
        /\ total = NWin
    BY <1>1, OptionFacts, MaxRowsAssumption DEF StripInv, StripTypes, PhaseInv
  <1>3. QueueInv' /\ UNCHANGED <<total, mpc, finished>>
    BY QueueUntouched DEF StripInv
  <1>4. StripTypes'
    BY <1>2 DEF StripInv, StripTypes, Phases, Slots
  <1>5. PhaseInv' /\ SlotsInv'
    BY <1>1, <1>3 DEF PhaseInv, SlotsInv, WindowPhases
  <1>6. VerdictInv'
    <2> SUFFICES ASSUME Verifies(opt) PROVE VerdictInv'
      BY DEF VerdictInv
    <2>1. \A j \in ImageRows(opt) : Judged(j)' = Judged(j) /\ ~Decoded(j) /\ ~Decoded(j)'
      <3> TAKE j \in ImageRows(opt)
      <3>1. j \in Nat /\ j < opt.nrows
        BY <1>2 DEF ImageRows
      <3>2. j < row0 + opt.cache <=> j < row0 + total
        BY <1>2, <3>1 DEF NWin, Smaller
      <3> QED BY <1>2, <1>3, <3>1, <3>2 DEF Judged, Decoded, Verifies
    <2> QED BY <2>1 DEF StripInv, VerdictInv
  <1> QED BY <1>3, <1>4, <1>5, <1>6 DEF StripInv

\* A step that changes nothing.
LEMMA StutterHolds == StripInv /\ UNCHANGED vars => StripInv'
  <1> SUFFICES ASSUME StripInv, UNCHANGED vars PROVE StripInv'
    OBVIOUS
  <1> USE DEF vars, dataVars, columnVars
  <1>1. QueueInv' /\ UNCHANGED <<total, mpc, finished>>
    BY QueueUntouched DEF StripInv
  <1>2. StripTypes' /\ PhaseInv'
    BY <1>1 DEF StripInv, StripTypes, PhaseInv, NWin
  <1>3. SlotsInv'
    BY <1>1 DEF StripInv, SlotsInv, Window, ImageRow, Digest
  <1>4. VerdictInv'
    BY <1>1 DEF StripInv, VerdictInv, Judged, Decoded, GoodSlot
  <1> QED BY <1>1, <1>2, <1>3, <1>4 DEF StripInv

-----------------------------------------------------------------------------
\* The inductive invariant holds throughout every column, for every option
\* record, window, pool and content of the blocks, whatever codecs do.
THEOREM StripCorrect == StripSafety => []StripInv
  <1>1. StripInit => StripInv
    BY InitHolds
  <1>2. StripInv /\ [StripNext]_vars => StripInv'
    <2> SUFFICES ASSUME StripInv, [StripNext]_vars PROVE StripInv'
      OBVIOUS
    <2>1. CASE MainStep
      BY <2>1, OpenWindowHolds, CloseColumnHolds, PhaseSpawnHolds, PhaseJoinHolds,
         RasterJoinedHolds, EncodeJoinedHolds, DropRawHolds, DecodeJoinedHolds,
         CloseWindowHolds DEF MainStep
    <2>2. ASSUME NEW t \in Thread, WorkerStep(t) PROVE StripInv'
      BY <2>2, PhasePopHolds, RasterBlockHolds, EncodeBlockHolds, EncodeThrowsHolds,
         DecodeBlockHolds DEF WorkerStep
    <2>3. CASE UNCHANGED vars
      BY <2>3, StutterHolds
    <2> QED BY <2>1, <2>2, <2>3 DEF StripNext, Ended
  <1> QED BY <1>1, <1>2, PTL DEF StripSafety

\* Bitmap, digest and encoded block of a slot are always those of the image row
\* it stands for, although every window and every worker reuses the slots.
THEOREM SlotsAreOfTheirRows == StripSafety => []SlotsHoldWindowRows
  <1>1. StripInv => SlotsHoldWindowRows
    <2> SUFFICES ASSUME StripInv, phase \in WindowPhases, NEW r \in Window
                 PROVE  /\ raw[r] \in {"null", image[ImageRow(r)]}
                        /\ digests[r] \in {"invalid", Digest(image[ImageRow(r)])}
                        /\ phase # "raster" => enc[r] \in {"null", image[ImageRow(r)]}
      BY DEF SlotsHoldWindowRows, WindowPhases
    <2>1. r \in Row
      BY WindowFacts DEF StripInv
    <2> QED BY <2>1 DEF StripInv, SlotsInv, WindowPhases
  <1> QED BY <1>1, StripCorrect, PTL

\* When the bitmaps are dropped all blocks are encoded, and no bitmap is left
\* while the blocks are decoded.
THEOREM DroppingIsSafe == StripSafety => []DropLosesNothing
  <1>1. StripInv => DropLosesNothing
    BY DEF StripInv, SlotsInv, DropLosesNothing, WindowPhases
  <1> QED BY <1>1, StripCorrect, PTL

\* A verified column is reported OK if and only if every decode pass restored
\* every block with pixels: no failed comparison is lost in later passes or
\* windows, no stale buffer counts as a success, and no good column is failed.
THEOREM VerdictIsCorrect == StripSafety => []VerdictIsRoundTrip
  <1>1. StripInv => VerdictIsRoundTrip
    <2> SUFFICES ASSUME StripInv, phase = "done", Verifies(opt)
                 PROVE  allOk <=> \A i \in ImageRows(opt) :
                                    image[i] \in Content => restored[i] = opt.repeat
      BY DEF VerdictIsRoundTrip
    <2>1. row0 \in Nat /\ opt.nrows \in Nat /\ row0 >= opt.nrows /\ opt.repeat \in Nat
      BY OptionFacts DEF StripInv, StripTypes, PhaseInv
    <2>2. \A i \in ImageRows(opt) : Judged(i) = opt.repeat /\ ~Decoded(i)
      BY <2>1 DEF ImageRows, Judged, Decoded
    <2>3. allOk => \A i \in ImageRows(opt) : image[i] \in Content => restored[i] = opt.repeat
      BY <2>1, <2>2 DEF StripInv, VerdictInv
    <2>4. ~allOk => \E i \in ImageRows(opt) : image[i] \in Content /\ restored[i] < opt.repeat
      BY <2>1, <2>2 DEF StripInv, VerdictInv
    <2> QED BY <2>1, <2>3, <2>4
  <1> QED BY <1>1, StripCorrect, PTL

-----------------------------------------------------------------------------
(* The byte counts *)

RawOf(S)    == SumFunction([i \in S |-> RawBytes(image[i])])
PackedOf(S) == SumFunction([i \in S |-> PackedBytes(image[i])])

\* The rows of the windows before this one, and those of this one.
Earlier    == 0 .. Smaller(row0, opt.nrows) - 1
WindowRows == row0 .. row0 + total - 1

\* The sums count the rows of the windows before in full, and those of this
\* window from its raster join on, once per encode pass that was joined.
BytesInv ==
  phase # "aborted" =>
    LET inside == phase \in {"encode", "drop", "decode", "close"}
        passes == IF phase = "encode" THEN rep ELSE EncodesDone
    IN  /\ ss = RawOf(Earlier) + (IF inside THEN RawOf(WindowRows) ELSE 0)
        /\ cs = EncodesDone * PackedOf(Earlier)
                  + (IF inside THEN passes * PackedOf(WindowRows) ELSE 0)

\* A block has a number of bytes, as it is and encoded.
LEMMA BytesAreNumbers ==
  ASSUME NEW kind
  PROVE  RawBytes(kind) \in Nat /\ PackedBytes(kind) \in Nat
BY DEF RawBytes, PackedBytes

\* Slots that hold the blocks of the window have the bytes of its rows.
LEMMA WindowBytes ==
  ASSUME row0 \in Nat, total \in Nat, NEW g, \A r \in Window : g[r] = image[ImageRow(r)]
  PROVE  /\ SumFunction([r \in Window |-> RawBytes(g[r])]) = RawOf(WindowRows)
         /\ SumFunction([r \in Window |-> PackedBytes(g[r])]) = PackedOf(WindowRows)
<1>1. \A r \in 0 .. total - 1 : row0 + r \in WindowRows /\ g[r] = image[row0 + r]
  BY DEF WindowRows, Window, ImageRow
<1>2. SumFunction([r \in Window |-> RawBytes(g[r])]) = RawOf(WindowRows)
  <2>1. PICK e, f : /\ e = [r \in 0 .. total - 1 |-> RawBytes(g[r])]
                    /\ f = [i \in WindowRows |-> RawBytes(image[i])]
    OBVIOUS
  <2>2. PICK k \in Nat, n \in Nat : k = row0 /\ n = total
    OBVIOUS
  <2>3. SumFunctionOnSet(e, 0 .. n - 1) = SumFunctionOnSet(f, k .. k + n - 1)
    <3>1. Shifted(e, f, k, n)
      BY <1>1, <2>1, <2>2, BytesAreNumbers DEF Shifted
    <3> QED BY <3>1, SumShifted
  <2>4. DOMAIN e = 0 .. total - 1 /\ DOMAIN f = row0 .. row0 + total - 1
    BY <2>1 DEF WindowRows
  <2>5. SumFunction(e) = SumFunction(f)
    BY <2>2, <2>3, <2>4 DEF SumFunction
  <2>6. Window = 0 .. total - 1
    BY DEF Window
  <2> QED BY <2>1, <2>5, <2>6 DEF RawOf
<1>3. SumFunction([r \in Window |-> PackedBytes(g[r])]) = PackedOf(WindowRows)
  <2>1. PICK e, f : /\ e = [r \in 0 .. total - 1 |-> PackedBytes(g[r])]
                    /\ f = [i \in WindowRows |-> PackedBytes(image[i])]
    OBVIOUS
  <2>2. PICK k \in Nat, n \in Nat : k = row0 /\ n = total
    OBVIOUS
  <2>3. SumFunctionOnSet(e, 0 .. n - 1) = SumFunctionOnSet(f, k .. k + n - 1)
    <3>1. Shifted(e, f, k, n)
      BY <1>1, <2>1, <2>2, BytesAreNumbers DEF Shifted
    <3> QED BY <3>1, SumShifted
  <2>4. DOMAIN e = 0 .. total - 1 /\ DOMAIN f = row0 .. row0 + total - 1
    BY <2>1 DEF WindowRows
  <2>5. SumFunction(e) = SumFunction(f)
    BY <2>2, <2>3, <2>4 DEF SumFunction
  <2>6. Window = 0 .. total - 1
    BY DEF Window
  <2> QED BY <2>1, <2>5, <2>6 DEF PackedOf
<1> QED BY <1>2, <1>3

\* Sums of blocks add up over disjoint sets of rows.
LEMMA BytesUnion ==
  ASSUME NEW A, NEW B, IsFiniteSet(A), IsFiniteSet(B), A \cap B = {}
  PROVE  /\ RawOf(A \cup B) = RawOf(A) + RawOf(B)
         /\ PackedOf(A \cup B) = PackedOf(A) + PackedOf(B)
         /\ RawOf(A) \in Nat /\ PackedOf(A) \in Nat
<1>1. RawOf(A \cup B) = RawOf(A) + RawOf(B) /\ RawOf(A) \in Nat
  <2>1. PICK e, f, g : /\ e = [i \in A |-> RawBytes(image[i])]
                       /\ f = [i \in B |-> RawBytes(image[i])]
                       /\ g = [i \in A \cup B |-> RawBytes(image[i])]
    OBVIOUS
  <2>2. /\ \A i \in A : e[i] = g[i]
        /\ \A i \in B : f[i] = g[i]
        /\ \A i \in A \cup B : g[i] \in Nat
    BY <2>1, BytesAreNumbers
  <2>3. /\ SumFunctionOnSet(e, A) = SumFunctionOnSet(g, A)
        /\ SumFunctionOnSet(f, B) = SumFunctionOnSet(g, B)
    BY <2>2, SumCongruent
  <2>4. SumFunctionOnSet(g, A \cup B) = SumFunctionOnSet(g, A) + SumFunctionOnSet(g, B)
    BY <2>2, SumUnion
  <2>5. SumFunctionOnSet(g, A) \in Nat
    BY <2>2, SumNat
  <2>6. DOMAIN e = A /\ DOMAIN f = B /\ DOMAIN g = A \cup B
    BY <2>1
  <2> QED BY <2>1, <2>3, <2>4, <2>5, <2>6 DEF SumFunction, RawOf
<1>2. /\ PackedOf(A \cup B) = PackedOf(A) + PackedOf(B)
      /\ PackedOf(A) \in Nat
  <2>1. PICK e, f, g : /\ e = [i \in A |-> PackedBytes(image[i])]
                       /\ f = [i \in B |-> PackedBytes(image[i])]
                       /\ g = [i \in A \cup B |-> PackedBytes(image[i])]
    OBVIOUS
  <2>2. /\ \A i \in A : e[i] = g[i]
        /\ \A i \in B : f[i] = g[i]
        /\ \A i \in A \cup B : g[i] \in Nat
    BY <2>1, BytesAreNumbers
  <2>3. /\ SumFunctionOnSet(e, A) = SumFunctionOnSet(g, A)
        /\ SumFunctionOnSet(f, B) = SumFunctionOnSet(g, B)
    BY <2>2, SumCongruent
  <2>4. SumFunctionOnSet(g, A \cup B) = SumFunctionOnSet(g, A) + SumFunctionOnSet(g, B)
    BY <2>2, SumUnion
  <2>5. SumFunctionOnSet(g, A) \in Nat
    BY <2>2, SumNat
  <2>6. DOMAIN e = A /\ DOMAIN f = B /\ DOMAIN g = A \cup B
    BY <2>1
  <2> QED BY <2>1, <2>3, <2>4, <2>5, <2>6 DEF SumFunction, PackedOf
<1> QED BY <1>1, <1>2

\* No rows have no bytes.
LEMMA BytesOfNone == RawOf({}) = 0 /\ PackedOf({}) = 0
<1>1. PICK e, f : /\ e = [i \in {} |-> RawBytes(image[i])]
                  /\ f = [i \in {} |-> PackedBytes(image[i])]
  OBVIOUS
<1>2. DOMAIN e = {} /\ DOMAIN f = {}
  BY <1>1
<1> QED BY <1>1, <1>2, SumEmpty DEF RawOf, PackedOf, SumFunction

\* The bytes of rows are those of the column, whatever the step.
LEMMA BytesOfRowsStay ==
  ASSUME image' = image, NEW S
  PROVE  RawOf(S)' = RawOf(S) /\ PackedOf(S)' = PackedOf(S)
BY DEF RawOf, PackedOf

\* Steps that count nothing: the rows of this window are counted before and
\* after, or neither before nor after.
LEMMA BytesStay ==
  ASSUME BytesInv, phase # "aborted", UNCHANGED <<opt, image, row0, ss, cs>>,
         \/ {phase, phase'} \subseteq {"head", "raster", "done"}
         \/ {phase, phase'} \subseteq {"drop", "decode", "close"} /\ total' = total
         \/ phase' = phase /\ total' = total /\ rep' = rep
         \/ phase' = "aborted"
  PROVE  BytesInv'
<1>1. Earlier' = Earlier /\ EncodesDone' = EncodesDone
  BY DEF Earlier, EncodesDone
<1>2. total' = total => WindowRows' = WindowRows
  BY DEF WindowRows
<1>3. /\ RawOf(Earlier)' = RawOf(Earlier) /\ PackedOf(Earlier)' = PackedOf(Earlier)
      /\ total' = total => /\ RawOf(WindowRows)' = RawOf(WindowRows)
                           /\ PackedOf(WindowRows)' = PackedOf(WindowRows)
  BY <1>1, <1>2 DEF RawOf, PackedOf
<1> QED BY <1>1, <1>3 DEF BytesInv

\* Within a window the earlier rows are those before its first.
LEMMA WindowIsNext ==
  ASSUME StripInv, phase \in WindowPhases
  PROVE  /\ row0 \in Nat /\ total \in Nat /\ opt.repeat \in Nat /\ rep \in Nat
         /\ Earlier = 0 .. row0 - 1
         /\ opt.nrows \in Nat /\ row0 + total = Smaller(row0 + opt.cache, opt.nrows)
<1>1. row0 \in Nat /\ rep \in Nat /\ row0 < opt.nrows /\ total = NWin
  BY DEF StripInv, StripTypes, PhaseInv
<1>2. opt.repeat \in Nat /\ opt.nrows \in Nat /\ opt.cache \in Nat
  BY OptionFacts, MaxRowsAssumption DEF StripInv, StripTypes
<1>3. total \in Nat
  BY WindowFacts, MaxRowsAssumption DEF StripInv
<1> QED BY <1>1, <1>2, <1>3 DEF Earlier, NWin, Smaller

\* The raster join counts the bytes of the window's rows.
LEMMA RasterJoinedCounts ==
  ASSUME StripInv, RasterJoined
  PROVE  ss' = ss + RawOf(WindowRows)
<1>1. phase = "raster" /\ phase \in WindowPhases /\ finished = Window
  BY JoinedWindow DEF RasterJoined, WindowPhases
<1>2. \A r \in Window : raw[r] = image[ImageRow(r)]
  BY <1>1 DEF StripInv, SlotsInv
<1>3. SumFunction([r \in Window |-> RawBytes(raw[r])]) = RawOf(WindowRows)
  BY <1>1, <1>2, WindowBytes, WindowIsNext
<1> QED BY <1>3 DEF RasterJoined

\* The join of an encode pass counts the bytes of the window's encoded rows.
LEMMA EncodeJoinedCounts ==
  ASSUME StripInv, EncodeJoined
  PROVE  cs' = cs + PackedOf(WindowRows)
<1>1. phase = "encode" /\ phase \in WindowPhases /\ finished = Window
  BY JoinedWindow DEF EncodeJoined, WindowPhases
<1>2. \A r \in Window : enc[r] = image[ImageRow(r)]
  BY <1>1 DEF StripInv, SlotsInv
<1>3. SumFunction([r \in Window |-> PackedBytes(enc[r])]) = PackedOf(WindowRows)
  BY <1>1, <1>2, WindowBytes, WindowIsNext
<1> QED BY <1>3 DEF EncodeJoined, CompressedSum

\* The rows of a set have a number of bytes.
LEMMA BytesOfRowsNat ==
  ASSUME NEW S, IsFiniteSet(S)
  PROVE  RawOf(S) \in Nat /\ PackedOf(S) \in Nat
<1>1. S \cap {} = {}
  OBVIOUS
<1> QED BY <1>1, BytesUnion, FS_EmptySet

\* After the raster join the window's rows are counted, with no encode pass yet.
LEMMA RasterJoinedBytes == StripInv /\ BytesInv /\ RasterJoined => BytesInv'
<1> SUFFICES ASSUME StripInv, BytesInv, RasterJoined  PROVE BytesInv'
  OBVIOUS
<1>1. /\ phase = "raster" /\ phase \in WindowPhases
      /\ UNCHANGED <<opt, image, row0, cs>> /\ rep' = 0
      /\ \/ phase' = "encode" /\ StartQueue(total, opt.et)
         \/ phase' = "drop" /\ ~opt.encode /\ UNCHANGED queueVars
  BY DEF RasterJoined, WindowPhases, StartEncode
<1>2. total' = total
  BY <1>1 DEF StartQueue, queueVars
<1>3. Earlier' = Earlier /\ WindowRows' = WindowRows /\ EncodesDone' = EncodesDone
  BY <1>1, <1>2 DEF Earlier, WindowRows, EncodesDone
<1>4. /\ RawOf(Earlier)' = RawOf(Earlier) /\ PackedOf(Earlier)' = PackedOf(Earlier)
      /\ RawOf(WindowRows)' = RawOf(WindowRows) /\ PackedOf(WindowRows)' = PackedOf(WindowRows)
  BY <1>1, <1>3 DEF RawOf, PackedOf
<1>5. IsFiniteSet(Earlier) /\ IsFiniteSet(WindowRows)
  <2>1. row0 \in Nat /\ total \in Nat /\ Earlier = 0 .. row0 - 1
    BY <1>1, WindowIsNext
  <2> QED BY <2>1, FS_Interval DEF WindowRows
<1>6. PackedOf(Earlier) \in Nat /\ PackedOf(WindowRows) \in Nat /\ EncodesDone \in Nat
  BY <1>1, <1>5, BytesOfRowsNat, WindowIsNext DEF EncodesDone
<1>7. ss = RawOf(Earlier) + 0 /\ cs = EncodesDone * PackedOf(Earlier) + 0
  BY <1>1 DEF BytesInv
<1>8. RawOf(Earlier) \in Nat /\ RawOf(WindowRows) \in Nat
  BY <1>5, BytesOfRowsNat
<1>9. ss' = RawOf(Earlier) + RawOf(WindowRows)
  BY <1>7, <1>8, RasterJoinedCounts
<1>10. CASE phase' = "encode"
  <2>1. cs' = EncodesDone * PackedOf(Earlier) + rep' * PackedOf(WindowRows)
    BY <1>1, <1>6, <1>7
  <2> QED BY <1>3, <1>4, <1>9, <1>10, <2>1 DEF BytesInv
<1>11. CASE phase' = "drop"
  <2>1. EncodesDone = 0
    BY <1>1, <1>11 DEF EncodesDone
  <2>2. cs' = EncodesDone * PackedOf(Earlier) + EncodesDone * PackedOf(WindowRows)
    BY <1>1, <1>6, <1>7, <2>1
  <2> QED BY <1>3, <1>4, <1>9, <1>11, <2>2 DEF BytesInv
<1> QED BY <1>1, <1>10, <1>11

\* The join of an encode pass counts one pass of the window's rows.
LEMMA EncodeJoinedBytes == StripInv /\ BytesInv /\ EncodeJoined => BytesInv'
<1> SUFFICES ASSUME StripInv, BytesInv, EncodeJoined  PROVE BytesInv'
  OBVIOUS
<1>1. /\ phase = "encode" /\ phase \in WindowPhases
      /\ UNCHANGED <<opt, image, row0, ss>> /\ rep' = rep + 1
      /\ \/ phase' = "encode" /\ StartQueue(total, opt.et)
         \/ phase' = "drop" /\ ~AnotherPass /\ UNCHANGED queueVars
  BY DEF EncodeJoined, WindowPhases, StartEncode
<1>2. total' = total
  BY <1>1 DEF StartQueue, queueVars
<1>3. Earlier' = Earlier /\ WindowRows' = WindowRows /\ EncodesDone' = EncodesDone
  BY <1>1, <1>2 DEF Earlier, WindowRows, EncodesDone
<1>4. /\ RawOf(Earlier)' = RawOf(Earlier) /\ PackedOf(Earlier)' = PackedOf(Earlier)
      /\ RawOf(WindowRows)' = RawOf(WindowRows) /\ PackedOf(WindowRows)' = PackedOf(WindowRows)
  BY <1>1, <1>3 DEF RawOf, PackedOf
<1>5. /\ row0 \in Nat /\ total \in Nat /\ Earlier = 0 .. row0 - 1
      /\ rep \in Nat /\ opt.repeat \in Nat
  BY <1>1, WindowIsNext
<1>6. IsFiniteSet(Earlier) /\ IsFiniteSet(WindowRows)
  BY <1>5, FS_Interval DEF WindowRows
<1>7. PackedOf(Earlier) \in Nat /\ PackedOf(WindowRows) \in Nat /\ EncodesDone \in Nat
  BY <1>5, <1>6, BytesOfRowsNat DEF EncodesDone
<1>8. /\ ss = RawOf(Earlier) + RawOf(WindowRows)
      /\ cs = EncodesDone * PackedOf(Earlier) + rep * PackedOf(WindowRows)
  BY <1>1 DEF BytesInv
<1>9. cs' = EncodesDone * PackedOf(Earlier) + (rep + 1) * PackedOf(WindowRows)
  <2>1. PICK x \in Nat, y \in Nat : /\ x = EncodesDone * PackedOf(Earlier)
                                    /\ y = PackedOf(WindowRows)
    BY <1>7
  <2>2. cs' = (x + rep * y) + y
    BY <1>8, <2>1, EncodeJoinedCounts
  <2>3. (x + rep * y) + y = x + (rep + 1) * y
    BY <1>5
  <2> QED BY <2>1, <2>2, <2>3
<1>10. CASE phase' = "encode"
  BY <1>1, <1>3, <1>4, <1>8, <1>9, <1>10 DEF BytesInv
<1>11. CASE phase' = "drop"
  <2>1. rep + 1 = opt.repeat /\ opt.encode
    BY <1>1, <1>5, <1>11 DEF AnotherPass, StripInv, PhaseInv
  <2>2. EncodesDone = rep + 1
    BY <2>1 DEF EncodesDone
  <2> QED BY <1>1, <1>3, <1>4, <1>8, <1>9, <1>11, <2>2 DEF BytesInv
<1> QED BY <1>1, <1>10, <1>11

\* With the window closed its rows are earlier rows.
LEMMA CloseWindowBytes == StripInv /\ BytesInv /\ CloseWindow => BytesInv'
<1> SUFFICES ASSUME StripInv, BytesInv, CloseWindow  PROVE BytesInv'
  OBVIOUS
<1>1. /\ phase = "close" /\ phase \in WindowPhases /\ phase' = "head"
      /\ UNCHANGED <<opt, image, ss, cs>> /\ row0' = row0 + opt.cache
  BY DEF CloseWindow, WindowPhases, NextRow0
<1>2. /\ row0 \in Nat /\ total \in Nat /\ Earlier = 0 .. row0 - 1
      /\ row0 + total = Smaller(row0 + opt.cache, opt.nrows) /\ opt.repeat \in Nat
  BY <1>1, WindowIsNext
<1>3. Earlier' = Earlier \cup WindowRows /\ Earlier \cap WindowRows = {}
  <2>1. Earlier' = 0 .. (row0 + total) - 1
    BY <1>1, <1>2 DEF Earlier
  <2> QED BY <1>2, <2>1 DEF WindowRows
<1>4. IsFiniteSet(Earlier) /\ IsFiniteSet(WindowRows)
  BY <1>2, FS_Interval DEF WindowRows
<1>5. PICK S : S = Earlier \cup WindowRows
  OBVIOUS
<1>6. /\ RawOf(Earlier)' = RawOf(S) /\ PackedOf(Earlier)' = PackedOf(S)
      /\ EncodesDone' = EncodesDone
  BY <1>1, <1>3, <1>5 DEF RawOf, PackedOf, EncodesDone
<1>7. /\ RawOf(S) = RawOf(Earlier) + RawOf(WindowRows)
      /\ PackedOf(S) = PackedOf(Earlier) + PackedOf(WindowRows)
  BY <1>3, <1>4, <1>5, BytesUnion
<1>8. /\ RawOf(Earlier) \in Nat /\ RawOf(WindowRows) \in Nat
      /\ PackedOf(Earlier) \in Nat /\ PackedOf(WindowRows) \in Nat /\ EncodesDone \in Nat
  BY <1>2, <1>4, BytesOfRowsNat DEF EncodesDone
<1>9. /\ ss = RawOf(Earlier) + RawOf(WindowRows)
      /\ cs = EncodesDone * PackedOf(Earlier) + EncodesDone * PackedOf(WindowRows)
  BY <1>1 DEF BytesInv
<1>10. cs = EncodesDone * PackedOf(S)
  <2>1. PICK x \in Nat, y \in Nat, z \in Nat :
          x = EncodesDone /\ y = PackedOf(Earlier) /\ z = PackedOf(WindowRows)
    BY <1>8
  <2>2. x * y + x * z = x * (y + z)
    OBVIOUS
  <2> QED BY <1>7, <1>9, <2>1, <2>2
<1>11. ss' = RawOf(Earlier)' + 0 /\ cs' = EncodesDone' * PackedOf(Earlier)' + 0
  <2>1. EncodesDone * PackedOf(S) \in Nat /\ RawOf(S) \in Nat
    BY <1>7, <1>8
  <2> QED BY <1>1, <1>6, <1>7, <1>9, <1>10, <2>1
<1> QED BY <1>1, <1>11 DEF BytesInv

\* No row is counted before the first window.
LEMMA InitCountsNone == StripInit => BytesInv
<1> SUFFICES ASSUME StripInit  PROVE BytesInv
  OBVIOUS
<1>1. opt.nrows \in Nat /\ opt.repeat \in Nat
  BY OptionFacts DEF StripInit
<1>2. Earlier = {}
  BY <1>1 DEF StripInit, Earlier, Smaller
<1>3. RawOf(Earlier) = 0 /\ PackedOf(Earlier) = 0
  BY <1>2, BytesOfNone
<1>4. EncodesDone \in Nat
  BY <1>1 DEF EncodesDone
<1> QED BY <1>3, <1>4 DEF StripInit, BytesInv

\* The sums are right throughout every column.
THEOREM BytesAreCounted == StripSafety => []BytesInv
<1>1. StripInv /\ BytesInv /\ [StripNext]_vars => BytesInv'
  <2> SUFFICES ASSUME StripInv, BytesInv, [StripNext]_vars  PROVE BytesInv'
    OBVIOUS
  <2>1. CASE phase = "aborted"
    <3>1. phase' = "aborted"
      BY <2>1 DEF StripNext, MainStep, WorkerStep, OpenWindow, CloseColumn, PhaseSpawn, PhaseJoin,
         InPhase, RasterJoined, EncodeJoined, DropRaw, DecodeJoined, CloseWindow, PhasePop,
         RasterBlock, EncodeBlock, EncodeThrows, DecodeBlock, Ended, vars
    <3> QED BY <3>1 DEF BytesInv
  <2>2. ASSUME phase # "aborted", OpenWindow \/ CloseColumn  PROVE BytesInv'
    BY <2>2, BytesStay DEF OpenWindow, CloseColumn, columnVars
  <2>3. ASSUME phase # "aborted", PhaseSpawn \/ PhaseJoin  PROVE BytesInv'
    BY <2>3, BytesStay DEF PhaseSpawn, PhaseJoin, Spawn, Join, columnVars
  <2>4. ASSUME phase # "aborted", DropRaw \/ DecodeJoined  PROVE BytesInv'
    <3>1. phase \in {"drop", "decode"} /\ phase' \in {"decode", "close"}
      BY <2>4 DEF DropRaw, DecodeJoined, StartDecode
    <3>2. UNCHANGED <<opt, image, row0, ss, cs>> /\ total' = total
      BY <2>4 DEF DropRaw, DecodeJoined, StartDecode, StartQueue, queueVars
    <3> QED BY <2>4, <3>1, <3>2, BytesStay
  <2>5. ASSUME phase # "aborted", NEW t \in Thread, WorkerStep(t)  PROVE BytesInv'
    <3>1. UNCHANGED <<opt, image, row0, ss, cs>> /\ rep' = rep /\ total' = total
      BY <2>5 DEF WorkerStep, PhasePop, Pop, RasterBlock, EncodeBlock, EncodeThrows, DecodeBlock,
                  Finish, columnVars, queueVars
    <3>2. phase' = phase \/ phase' = "aborted"
      BY <2>5 DEF WorkerStep, PhasePop, RasterBlock, EncodeBlock, EncodeThrows, DecodeBlock
    <3> QED BY <2>5, <3>1, <3>2, BytesStay
  <2>6. ASSUME phase # "aborted", UNCHANGED vars  PROVE BytesInv'
    BY <2>6, BytesStay DEF vars, columnVars, queueVars
  <2> QED BY <2>1, <2>2, <2>3, <2>4, <2>5, <2>6, RasterJoinedBytes, EncodeJoinedBytes,
             CloseWindowBytes DEF StripNext, MainStep, Ended
<1> QED BY <1>1, InitCountsNone, StripCorrect, PTL DEF StripSafety

-----------------------------------------------------------------------------
(* The refinement of StripSpec.  Its instance brings copies of the          *)
(* definitions of Blocks and Functions, which say the same.                 *)

\* What the copies mean.
LEMMA SameWords ==
  /\ \A o : /\ Strip!ImageRows(o) = ImageRows(o)
            /\ Strip!DoDecode(o) = DoDecode(o)
            /\ Strip!Verifies(o) = Verifies(o)
  /\ \A kind : /\ Strip!RawBytes(kind) = RawBytes(kind)
               /\ Strip!PackedBytes(kind) = PackedBytes(kind)
  /\ Strip!Kind = Kind /\ Strip!Content = Content
  /\ \A f : Strip!SumFunction(f) = SumFunction(f)
  /\ Strip!EncodePasses = EncodesDone /\ Strip!DecodePasses = DecodesDone
<1>1. Strip!Kind = Kind /\ Strip!Content = Content
  BY DEF Strip!Kind, Kind, Strip!Content, Content
<1>2. \A o : /\ Strip!ImageRows(o) = ImageRows(o)
             /\ Strip!DoDecode(o) = DoDecode(o)
             /\ Strip!Verifies(o) = Verifies(o)
  BY DEF Strip!ImageRows, ImageRows, Strip!DoDecode, DoDecode, Strip!Verifies, Verifies
<1>3. \A kind : /\ Strip!RawBytes(kind) = RawBytes(kind)
                /\ Strip!PackedBytes(kind) = PackedBytes(kind)
  BY <1>1 DEF Strip!RawBytes, RawBytes, Strip!PackedBytes, PackedBytes
<1>4. \A f : Strip!SumFunction(f) = SumFunction(f)
  BY DEF Strip!SumFunction, SumFunction, Strip!SumFunctionOnSet, SumFunctionOnSet,
         Strip!FoldFunctionOnSet, FoldFunctionOnSet, Strip!MapThenFoldSet, MapThenFoldSet
<1>5. Strip!EncodePasses = EncodesDone /\ Strip!DecodePasses = DecodesDone
  BY <1>2 DEF Strip!EncodePasses, EncodesDone, Strip!DecodePasses, DecodesDone
<1> QED BY <1>1, <1>2, <1>3, <1>4, <1>5

\* The sizes in the report: the source bytes are those of all blocks of the
\* column, and the compressed ones those of all encoded blocks, once per pass.
THEOREM TotalsAreReported == StripSafety => []ReportedTotals
<1>1. StripInv /\ BytesInv => ReportedTotals
  <2> SUFFICES ASSUME StripInv, BytesInv, phase = "done"
               PROVE  /\ ss = Strip!SumFunction([r \in Strip!ImageRows(opt) |->
                                                   Strip!RawBytes(image[r])])
                      /\ cs = Strip!EncodePasses
                                * Strip!SumFunction([r \in Strip!ImageRows(opt) |->
                                                      Strip!PackedBytes(image[r])])
    BY DEF ReportedTotals, Strip!Totals
  <2>1. row0 \in Nat /\ opt.nrows \in Nat /\ row0 >= opt.nrows /\ opt.repeat \in Nat
    BY OptionFacts DEF StripInv, StripTypes, PhaseInv
  <2>2. Earlier = ImageRows(opt) /\ IsFiniteSet(Earlier)
    <3>1. Smaller(row0, opt.nrows) = opt.nrows
      BY <2>1 DEF Smaller
    <3>2. IsFiniteSet(0 .. opt.nrows - 1)
      BY <2>1, FS_Interval, SMTT(30)
    <3> QED BY <3>1, <3>2 DEF Earlier, ImageRows
  <2>3. RawOf(Earlier) \in Nat /\ PackedOf(Earlier) \in Nat /\ EncodesDone \in Nat
    BY <2>1, <2>2, BytesOfRowsNat DEF EncodesDone
  <2>4. ss = RawOf(Earlier) /\ cs = EncodesDone * PackedOf(Earlier)
    BY <2>3 DEF BytesInv
  <2> QED BY <2>2, <2>4, SameWords DEF RawOf, PackedOf
<1> QED BY <1>1, StripCorrect, BytesAreCounted, PTL

\* The state of StripSpec that a state of the pipeline stands for.
RasteredTimes == Progress(1, IF PhaseReached = "raster" THEN 0 ELSE 1)
EncodedTimes == Progress(EncodesDone, CASE PhaseReached = "raster" -> 0
                                        [] PhaseReached = "encode" -> rep
                                        [] OTHER -> EncodesDone)
DecodedTimes == Progress(DecodesDone, CASE PhaseReached = "decode" -> rep
                                        [] PhaseReached = "close" -> DecodesDone
                                        [] OTHER -> 0)
ColumnStatus == IF phase \in {"done", "aborted"} THEN phase ELSE "running"

\* The variables and the actions of StripSpec, said of that state.
LEMMA SpecVars ==
  Strip!specVars = <<opt, image, RasteredTimes, EncodedTimes, DecodedTimes, ss, cs, allOk, ColumnStatus>>
BY DEF Strip!specVars, RasteredTimes, EncodedTimes, DecodedTimes, ColumnStatus

\* Rows are rasterised.
LEMMA SpecRasterRows ==
  ASSUME NEW S, \A r \in S : RasteredTimes[r] = 0, RasteredTimes' = Strip!Advance(RasteredTimes, S),
         ss' = ss + RawOf(S),
         UNCHANGED <<opt, image, EncodedTimes, DecodedTimes, cs, allOk, ColumnStatus>>
  PROVE  Strip!RasterRows(S)
<1>1. Strip!SumFunction([r \in S |-> Strip!RawBytes(image[r])]) = RawOf(S)
  BY SameWords DEF RawOf
<1> QED BY <1>1 DEF Strip!RasterRows, RasteredTimes, EncodedTimes, DecodedTimes, ColumnStatus

\* Rows are encoded once more.
LEMMA SpecEncodeRows ==
  ASSUME NEW S, \A r \in S : RasteredTimes[r] = 1 /\ EncodedTimes[r] < EncodesDone,
         EncodedTimes' = Strip!Advance(EncodedTimes, S),
         cs' = cs + PackedOf(S),
         UNCHANGED <<opt, image, RasteredTimes, DecodedTimes, ss, allOk, ColumnStatus>>
  PROVE  Strip!EncodeRows(S)
<1>1. Strip!SumFunction([r \in S |-> Strip!PackedBytes(image[r])]) = PackedOf(S)
  BY SameWords DEF PackedOf
<1>2. Strip!EncodePasses = EncodesDone
  BY SameWords
<1> QED BY <1>1, <1>2 DEF Strip!EncodeRows, RasteredTimes, EncodedTimes, DecodedTimes, ColumnStatus

\* Rows are decoded once more, and the verdict may turn bad.
LEMMA SpecDecodeRows ==
  ASSUME NEW S, \A r \in S : EncodedTimes[r] = EncodesDone /\ DecodedTimes[r] < DecodesDone,
         DecodedTimes' = Strip!Advance(DecodedTimes, S),
         allOk' = allOk \/ (~allOk' /\ Verifies(opt) /\ \E r \in S : image[r] \in Content),
         allOk' \in BOOLEAN,
         UNCHANGED <<opt, image, RasteredTimes, EncodedTimes, ss, cs, ColumnStatus>>
  PROVE  Strip!DecodeRows(S)
<1>1. /\ Strip!EncodePasses = EncodesDone /\ Strip!DecodePasses = DecodesDone
      /\ Strip!Content = Content /\ Strip!Verifies(opt) = Verifies(opt)
  BY SameWords
<1> QED BY <1>1 DEF Strip!DecodeRows, RasteredTimes, EncodedTimes, DecodedTimes, ColumnStatus

\* With a mapped state that is unchanged, StripSpec stutters.
LEMMA SpecStutters ==
  ASSUME UNCHANGED <<opt, image, RasteredTimes, EncodedTimes, DecodedTimes, ss, cs, allOk,
                     ColumnStatus>>
  PROVE  UNCHANGED Strip!specVars
BY DEF Strip!specVars, RasteredTimes, EncodedTimes, DecodedTimes, ColumnStatus

\* Steps within a phase are invisible to StripSpec.
LEMMA PhaseStepStutters ==
  ASSUME UNCHANGED <<opt, image, row0, total, phase, rep, ss, cs, allOk>>
  PROVE  UNCHANGED Strip!specVars
<1>1. UNCHANGED <<RasteredTimes, EncodedTimes, DecodedTimes, ColumnStatus>>
  BY DEF RasteredTimes, EncodedTimes, DecodedTimes, ColumnStatus, Progress, InWindow,
         PhaseReached, EncodesDone, DecodesDone, ImageRows
<1> QED BY <1>1, SpecStutters

\* How far the rows of a window have come, by phase.
LEMMA InsideWindow ==
  ASSUME NEW i \in ImageRows(opt), phase \in WindowPhases
  PROVE  LET inside == i \in row0 .. row0 + total - 1
         IN  /\ RasteredTimes[i] = IF inside THEN IF phase = "raster" THEN 0 ELSE 1
                                   ELSE IF i < row0 THEN 1 ELSE 0
             /\ EncodedTimes[i] = IF inside
                                  THEN IF phase = "raster" THEN 0
                                       ELSE IF phase = "encode" THEN rep ELSE EncodesDone
                                  ELSE IF i < row0 THEN EncodesDone ELSE 0
             /\ DecodedTimes[i] = IF inside
                                  THEN IF phase = "decode" THEN rep
                                       ELSE IF phase = "close" THEN DecodesDone ELSE 0
                                  ELSE IF i < row0 THEN DecodesDone ELSE 0
<1>1. PhaseReached = phase
  BY DEF PhaseReached, WindowPhases
<1>2. InWindow(i) <=> i \in row0 .. row0 + total - 1
  BY DEF InWindow, WindowPhases
<1>3. phase # "raster" /\ phase # "encode"
        => (CASE phase = "raster" -> 0 [] phase = "encode" -> rep [] OTHER -> EncodesDone)
             = EncodesDone
  OBVIOUS
<1>4. phase # "decode" /\ phase # "close"
        => (CASE phase = "decode" -> rep [] phase = "close" -> DecodesDone [] OTHER -> 0) = 0
  OBVIOUS
<1>5. RasteredTimes[i] = IF InWindow(i) THEN IF phase = "raster" THEN 0 ELSE 1
                         ELSE IF i < row0 THEN 1 ELSE 0
  BY <1>1 DEF RasteredTimes, Progress
<1>6. EncodedTimes[i] = IF InWindow(i)
                        THEN IF phase = "raster" THEN 0
                             ELSE IF phase = "encode" THEN rep ELSE EncodesDone
                        ELSE IF i < row0 THEN EncodesDone ELSE 0
  BY <1>1, <1>3 DEF EncodedTimes, Progress
<1>7. DecodedTimes[i] = IF InWindow(i)
                        THEN IF phase = "decode" THEN rep
                             ELSE IF phase = "close" THEN DecodesDone ELSE 0
                        ELSE IF i < row0 THEN DecodesDone ELSE 0
  BY <1>1, <1>4 DEF DecodedTimes, Progress
<1> QED BY <1>2, <1>5, <1>6, <1>7

\* The mapped counts in the terms of a window, to be compared across a step.
WindowTimes(before, inside) ==
  [i \in ImageRows(opt) |-> IF i \in WindowRows THEN inside ELSE IF i < row0 THEN before ELSE 0]
RasteredInside == IF phase = "raster" THEN 0 ELSE 1
EncodedInside  == IF phase = "raster" THEN 0 ELSE IF phase = "encode" THEN rep ELSE EncodesDone
DecodedInside  == IF phase = "decode" THEN rep ELSE IF phase = "close" THEN DecodesDone ELSE 0

\* The mapped counts between two windows.
EarlierTimes(before) == [i \in ImageRows(opt) |-> IF i < row0 THEN before ELSE 0]

\* Within a window the rows before it are complete, and those of the window
\* have come as far as the main thread has.
LEMMA TimesInWindow ==
  phase \in WindowPhases => /\ RasteredTimes = WindowTimes(1, RasteredInside)
                            /\ EncodedTimes  = WindowTimes(EncodesDone, EncodedInside)
                            /\ DecodedTimes  = WindowTimes(DecodesDone, DecodedInside)
                            /\ ColumnStatus = "running"
<1> SUFFICES ASSUME phase \in WindowPhases
             PROVE  /\ RasteredTimes = WindowTimes(1, RasteredInside)
                    /\ EncodedTimes  = WindowTimes(EncodesDone, EncodedInside)
                    /\ DecodedTimes  = WindowTimes(DecodesDone, DecodedInside)
                    /\ ColumnStatus = "running"
  OBVIOUS
<1>1. \A i \in ImageRows(opt) :
        /\ RasteredTimes[i] = WindowTimes(1, RasteredInside)[i]
        /\ EncodedTimes[i]  = WindowTimes(EncodesDone, EncodedInside)[i]
        /\ DecodedTimes[i]  = WindowTimes(DecodesDone, DecodedInside)[i]
  BY InsideWindow DEF WindowTimes, WindowRows, RasteredInside, EncodedInside, DecodedInside
<1>2. \A b, n : /\ DOMAIN Progress(b, n) = ImageRows(opt) /\ DOMAIN WindowTimes(b, n) = ImageRows(opt)
                /\ Progress(b, n) = [i \in ImageRows(opt) |-> Progress(b, n)[i]]
                /\ WindowTimes(b, n) = [i \in ImageRows(opt) |-> WindowTimes(b, n)[i]]
  BY DEF Progress, WindowTimes
<1>3. /\ RasteredTimes = [i \in ImageRows(opt) |-> RasteredTimes[i]]
      /\ EncodedTimes  = [i \in ImageRows(opt) |-> EncodedTimes[i]]
      /\ DecodedTimes  = [i \in ImageRows(opt) |-> DecodedTimes[i]]
  BY <1>2 DEF RasteredTimes, EncodedTimes, DecodedTimes
<1>4. RasteredTimes = WindowTimes(1, RasteredInside)
  BY <1>1, <1>2, <1>3
<1>5. EncodedTimes = WindowTimes(EncodesDone, EncodedInside)
  BY <1>1, <1>2, <1>3
<1>6. DecodedTimes = WindowTimes(DecodesDone, DecodedInside)
  BY <1>1, <1>2, <1>3
<1>7. ColumnStatus = "running"
  BY DEF ColumnStatus, WindowPhases
<1> QED BY <1>4, <1>5, <1>6, <1>7

\* Between windows the rows before the next one are complete, the others not
\* begun.
LEMMA TimesBetween ==
  phase \in {"head", "done"} => /\ RasteredTimes = EarlierTimes(1)
                                /\ EncodedTimes  = EarlierTimes(EncodesDone)
                                /\ DecodedTimes  = EarlierTimes(DecodesDone)
BY DEF RasteredTimes, EncodedTimes, DecodedTimes, Progress, InWindow, EarlierTimes

\* A join within a window takes its rows one pass further.
LEMMA WindowAdvances ==
  ASSUME NEW b, NEW n \in Nat, NEW W, W = WindowRows, W \subseteq ImageRows(opt),
         row0 \in Nat, total \in Nat
  PROVE  WindowTimes(b, n + 1) = Strip!Advance(WindowTimes(b, n), W)
BY DEF WindowTimes, Strip!Advance

\* The rows of the window are rows of the column, and there is at least one.
LEMMA WindowRowsExist ==
  ASSUME StripInv, phase \in WindowPhases
  PROVE  /\ WindowRows \subseteq Strip!ImageRows(opt) /\ WindowRows # {}
         /\ WindowRows \subseteq ImageRows(opt)
         /\ \A r \in WindowRows : r >= row0
<1>1. row0 \in Nat /\ total \in 1 .. MaxRows /\ total <= opt.nrows - row0 /\ opt.nrows \in Nat
  BY WindowFacts, WindowIsNext DEF StripInv
<1>2. WindowRows \subseteq ImageRows(opt) /\ row0 \in WindowRows
  BY <1>1, MaxRowsAssumption DEF WindowRows, ImageRows
<1>3. \A r \in WindowRows : r >= row0
  BY <1>1 DEF WindowRows
<1> QED BY <1>2, <1>3, SameWords

\* The same of the state after a step.
LEMMA TimesInWindowAfter ==
  (phase \in WindowPhases => /\ RasteredTimes = WindowTimes(1, RasteredInside)
                             /\ EncodedTimes  = WindowTimes(EncodesDone, EncodedInside)
                             /\ DecodedTimes  = WindowTimes(DecodesDone, DecodedInside)
                             /\ ColumnStatus = "running")'
BY TimesInWindow, PTL

\* The progress of the rows when a window is done.
LEMMA TimesBetweenAfter ==
  (phase \in {"head", "done"} => /\ RasteredTimes = EarlierTimes(1)
                                 /\ EncodedTimes  = EarlierTimes(EncodesDone)
                                 /\ DecodedTimes  = EarlierTimes(DecodesDone))'
BY TimesBetween, PTL

\* What the two ends of a step within a window have in common.
LEMMA StepInWindow ==
  ASSUME StripInv, phase \in WindowPhases, phase' \in WindowPhases,
         UNCHANGED <<opt, image, row0, total>>
  PROVE  /\ RasteredTimes = WindowTimes(1, RasteredInside)
         /\ RasteredTimes' = WindowTimes(1, RasteredInside')
         /\ EncodedTimes = WindowTimes(EncodesDone, EncodedInside)
         /\ EncodedTimes' = WindowTimes(EncodesDone, EncodedInside')
         /\ DecodedTimes = WindowTimes(DecodesDone, DecodedInside)
         /\ DecodedTimes' = WindowTimes(DecodesDone, DecodedInside')
         /\ UNCHANGED ColumnStatus /\ ColumnStatus = "running"
         /\ UNCHANGED <<EncodesDone, DecodesDone>>
<1>1. phase' \in WindowPhases' => /\ RasteredTimes' = WindowTimes(1, RasteredInside)'
                                 /\ EncodedTimes'  = WindowTimes(EncodesDone, EncodedInside)'
                                 /\ DecodedTimes'  = WindowTimes(DecodesDone, DecodedInside)'
                                 /\ ColumnStatus' = "running"
  BY TimesInWindowAfter
<1>2. UNCHANGED <<EncodesDone, DecodesDone>> /\ WindowRows' = WindowRows /\ WindowPhases' = WindowPhases
  BY DEF EncodesDone, DecodesDone, WindowRows, WindowPhases
<1>3. /\ WindowTimes(1, RasteredInside)' = WindowTimes(1, RasteredInside')
      /\ WindowTimes(EncodesDone, EncodedInside)' = WindowTimes(EncodesDone, EncodedInside')
      /\ WindowTimes(DecodesDone, DecodedInside)' = WindowTimes(DecodesDone, DecodedInside')
  BY <1>2 DEF WindowTimes
<1> QED BY <1>1, <1>2, <1>3, TimesInWindow

\* The raster join rasterises the rows of the window.
LEMMA RasterJoinedRasters ==
  ASSUME StripInv, RasterJoined
  PROVE  Strip!Next
<1>1. /\ phase = "raster" /\ phase \in WindowPhases /\ phase' \in WindowPhases
      /\ UNCHANGED <<opt, image, row0, cs, allOk>> /\ rep' = 0
      /\ \/ phase' = "encode" /\ StartQueue(total, opt.et)
         \/ phase' = "drop" /\ ~opt.encode /\ UNCHANGED queueVars
  BY DEF RasterJoined, WindowPhases, StartEncode
<1>2. total' = total
  BY <1>1 DEF StartQueue, queueVars
<1>3. PICK W : W = WindowRows
  OBVIOUS
<1>4. /\ W \subseteq Strip!ImageRows(opt) /\ W # {} /\ W \subseteq ImageRows(opt)
      /\ row0 \in Nat /\ total \in Nat
  BY <1>1, <1>3, WindowRowsExist, WindowIsNext
<1>5. RasteredInside = 0 /\ RasteredInside' = 1
  BY <1>1 DEF RasteredInside
<1>6. EncodedInside' = EncodedInside
  BY <1>1 DEF EncodedInside, EncodesDone
<1>7. DecodedInside' = DecodedInside
  BY <1>1 DEF DecodedInside
<1>8. RasteredTimes' = Strip!Advance(RasteredTimes, W)
  <2>1. WindowTimes(1, 0 + 1) = Strip!Advance(WindowTimes(1, 0), W)
    BY <1>3, <1>4, WindowAdvances
  <2> QED BY <1>1, <1>2, <1>5, <2>1, StepInWindow
<1>9. UNCHANGED <<EncodedTimes, DecodedTimes, ColumnStatus>> /\ ColumnStatus = "running"
  BY <1>1, <1>2, <1>6, <1>7, StepInWindow
<1>10. \A r \in W : RasteredTimes[r] = 0
  BY <1>1, <1>2, <1>3, <1>4, <1>5, StepInWindow DEF WindowTimes
<1>11. ss' = ss + RawOf(W)
  BY <1>3, RasterJoinedCounts
<1>12. Strip!RasterRows(W)
  BY <1>1, <1>8, <1>9, <1>10, <1>11, SpecRasterRows
<1> QED BY <1>4, <1>9, <1>12 DEF Strip!Next, ColumnStatus

\* The join of an encode pass encodes the rows of the window once more.
LEMMA EncodeJoinedEncodes ==
  ASSUME StripInv, EncodeJoined
  PROVE  Strip!Next
<1>1. /\ phase = "encode" /\ phase \in WindowPhases /\ phase' \in WindowPhases
      /\ UNCHANGED <<opt, image, row0, ss, allOk>> /\ rep' = rep + 1
      /\ \/ phase' = "encode" /\ StartQueue(total, opt.et)
         \/ phase' = "drop" /\ ~AnotherPass /\ UNCHANGED queueVars
  BY DEF EncodeJoined, WindowPhases, StartEncode
<1>2. total' = total
  BY <1>1 DEF StartQueue, queueVars
<1>3. PICK W : W = WindowRows
  OBVIOUS
<1>4. /\ W \subseteq Strip!ImageRows(opt) /\ W # {} /\ W \subseteq ImageRows(opt)
      /\ row0 \in Nat /\ total \in Nat /\ rep \in Nat /\ opt.repeat \in Nat
  BY <1>1, <1>3, WindowRowsExist, WindowIsNext
<1>5. EncodesDone = opt.repeat /\ rep < opt.repeat /\ opt.encode
  BY <1>1 DEF EncodesDone, StripInv, PhaseInv
<1>6. EncodedInside = rep /\ EncodedInside' = rep + 1
  <2>1. CASE phase' = "encode"
    BY <1>1, <2>1 DEF EncodedInside
  <2>2. CASE phase' = "drop"
    <3>1. rep + 1 = opt.repeat
      BY <1>1, <1>4, <1>5, <2>2 DEF AnotherPass
    <3>2. EncodesDone' = opt.repeat
      BY <1>1, <1>5 DEF EncodesDone
    <3> QED BY <1>1, <2>2, <3>1, <3>2 DEF EncodedInside
  <2> QED BY <1>1, <2>1, <2>2
<1>7. RasteredInside = 1 /\ RasteredInside' = 1 /\ DecodedInside' = DecodedInside
  BY <1>1 DEF RasteredInside, DecodedInside
<1>8. EncodedTimes' = Strip!Advance(EncodedTimes, W)
  <2>1. WindowTimes(EncodesDone, rep + 1) = Strip!Advance(WindowTimes(EncodesDone, rep), W)
    BY <1>3, <1>4, WindowAdvances
  <2> QED BY <1>1, <1>2, <1>6, <2>1, StepInWindow
<1>9. UNCHANGED <<RasteredTimes, DecodedTimes, ColumnStatus>> /\ ColumnStatus = "running"
  BY <1>1, <1>2, <1>7, StepInWindow
<1>10. \A r \in W : RasteredTimes[r] = 1 /\ EncodedTimes[r] < EncodesDone
  BY <1>1, <1>2, <1>3, <1>4, <1>5, <1>6, <1>7, StepInWindow DEF WindowTimes
<1>11. cs' = cs + PackedOf(W)
  BY <1>3, EncodeJoinedCounts
<1>12. Strip!EncodeRows(W)
  BY <1>1, <1>8, <1>9, <1>10, <1>11, SpecEncodeRows
<1> QED BY <1>4, <1>9, <1>12 DEF Strip!Next, ColumnStatus

\* With nothing to verify no decode pass is bad: the decode result is read
\* with --check only, and Brotli's is always true.
OkInv == phase = "decode" /\ ~Verifies(opt) => ok

\* A pass that rle4k_decode_phase does not verify never turns the verdict bad.
THEOREM UnverifiedPassesAreGood == StripSafety => []OkInv
<1>1. StripInit => OkInv
  BY DEF StripInit, OkInv
<1>2. StripInv /\ OkInv /\ [StripNext]_vars => OkInv'
  <2> SUFFICES ASSUME StripInv, OkInv, [StripNext]_vars  PROVE OkInv'
    OBVIOUS
  <2>1. CASE \E t \in Thread : DecodeBlock(t)
    <3>1. PICK t \in Thread : DecodeBlock(t)
      BY <2>1
    <3>2. phase = "decode" /\ UNCHANGED <<phase, opt>>
      BY <3>1 DEF DecodeBlock
    <3>3. CASE Verifies(opt)
      BY <3>2, <3>3 DEF OkInv, Verifies, DoDecode
    <3>4. CASE ~Verifies(opt) /\ ~opt.check
      BY <3>1, <3>2, <3>4 DEF DecodeBlock, OkInv
    <3>5. CASE ~Verifies(opt) /\ opt.check /\ opt.brotli
      BY <3>1, <3>2, <3>5 DEF DecodeBlock, OkInv
    <3>6. CASE ~Verifies(opt) /\ ~DoDecode(opt)
      BY <3>2, <3>6 DEF StripInv, PhaseInv
    <3> QED BY <3>3, <3>4, <3>5, <3>6 DEF Verifies
  <2>2. CASE DropRaw \/ DecodeJoined
    BY <2>2 DEF DropRaw, DecodeJoined, StartDecode, OkInv
  <2>3. CASE OpenWindow \/ CloseColumn \/ RasterJoined \/ EncodeJoined \/ CloseWindow
    BY <2>3 DEF OpenWindow, CloseColumn, RasterJoined, EncodeJoined, StartEncode, CloseWindow, OkInv
  <2>4. CASE PhaseSpawn \/ PhaseJoin \/ UNCHANGED vars
    BY <2>4 DEF PhaseSpawn, PhaseJoin, vars, dataVars, OkInv, Verifies, DoDecode
  <2>5. CASE \E t \in Thread : PhasePop(t) \/ RasterBlock(t) \/ EncodeBlock(t) \/ EncodeThrows(t)
    BY <2>5 DEF PhasePop, RasterBlock, EncodeBlock, EncodeThrows, dataVars, OkInv, Verifies, DoDecode
  <2> QED BY <2>1, <2>2, <2>3, <2>4, <2>5 DEF StripNext, MainStep, WorkerStep, Ended
<1> QED BY <1>1, <1>2, StripCorrect, PTL DEF StripSafety

\* The join of a decode pass decodes the rows of the window once more; the
\* verdict turns bad only by a block that was verified.
LEMMA DecodeJoinedDecodes ==
  ASSUME StripInv, OkInv, DecodeJoined
  PROVE  Strip!Next
<1>1. /\ phase = "decode" /\ phase \in WindowPhases /\ phase' \in WindowPhases /\ mpc = "joined"
      /\ UNCHANGED <<opt, image, row0, ss, cs>> /\ rep' = rep + 1
      /\ \/ phase' = "decode" /\ StartQueue(total, opt.dt)
         \/ phase' = "close" /\ ~AnotherPass /\ UNCHANGED queueVars
  BY DEF DecodeJoined, WindowPhases, StartDecode
<1>2. total' = total
  BY <1>1 DEF StartQueue, queueVars
<1>3. PICK W : W = WindowRows
  OBVIOUS
<1>4. /\ W \subseteq Strip!ImageRows(opt) /\ W # {} /\ W \subseteq ImageRows(opt)
      /\ row0 \in Nat /\ total \in Nat /\ rep \in Nat /\ opt.repeat \in Nat
  BY <1>1, <1>3, WindowRowsExist, WindowIsNext
<1>5. DecodesDone = opt.repeat /\ rep < opt.repeat /\ DoDecode(opt)
  BY <1>1 DEF DecodesDone, StripInv, PhaseInv
<1>6. DecodedInside = rep /\ DecodedInside' = rep + 1
  <2>1. CASE phase' = "decode"
    BY <1>1, <2>1 DEF DecodedInside
  <2>2. CASE phase' = "close"
    <3>1. rep + 1 = opt.repeat
      BY <1>1, <1>4, <1>5, <2>2 DEF AnotherPass
    <3>2. DecodesDone' = opt.repeat
      BY <1>1, <1>5 DEF DecodesDone, DoDecode
    <3> QED BY <1>1, <2>2, <3>1, <3>2 DEF DecodedInside
  <2> QED BY <1>1, <2>1, <2>2
<1>7. /\ RasteredInside = 1 /\ RasteredInside' = 1
      /\ EncodedInside = EncodesDone /\ EncodedInside' = EncodesDone
  <2>1. EncodesDone' = EncodesDone
    BY <1>1 DEF EncodesDone
  <2> QED BY <1>1, <2>1 DEF RasteredInside, EncodedInside
<1>8. DecodedTimes' = Strip!Advance(DecodedTimes, W)
  <2>1. WindowTimes(DecodesDone, rep + 1) = Strip!Advance(WindowTimes(DecodesDone, rep), W)
    BY <1>3, <1>4, WindowAdvances
  <2> QED BY <1>1, <1>2, <1>6, <2>1, StepInWindow
<1>9. UNCHANGED <<RasteredTimes, EncodedTimes, ColumnStatus>> /\ ColumnStatus = "running"
  BY <1>1, <1>2, <1>7, StepInWindow
<1>10. \A r \in W : EncodedTimes[r] = EncodesDone /\ DecodedTimes[r] < DecodesDone
  BY <1>1, <1>2, <1>3, <1>4, <1>5, <1>6, <1>7, StepInWindow DEF WindowTimes
<1>11. allOk \in BOOLEAN /\ allOk' = (allOk /\ PassOk)
  BY DEF StripInv, StripTypes, DecodeJoined, Judgement
<1>12. ASSUME ~PassOk  PROVE Verifies(opt) /\ \E r \in W : image[r] \in Content
  <2>1. Verifies(opt)
    <3>1. ASSUME ~Verifies(opt)  PROVE FALSE
      <4>1. ok
        BY <1>1, <3>1 DEF OkInv
      <4>2. opt.check => opt.brotli
        BY <1>5, <3>1, OptionFacts DEF Verifies, StripInv, StripTypes
      <4> QED BY <1>12, <4>1, <4>2 DEF PassOk, Fails
    <3> QED BY <3>1
  <2>2. PICK r \in Window : digests[r] # "invalid"
    BY <1>1, <1>12, <2>1, PassJudgesSlots
  <2>3. image[ImageRow(r)] \in Content
    BY <1>1, <2>2 DEF StripInv, SlotsInv, Digest
  <2>4. ImageRow(r) \in W
    BY <1>3, <1>4 DEF ImageRow, Window, WindowRows
  <2> QED BY <2>1, <2>3, <2>4
<1>13. /\ allOk' = allOk \/ (~allOk' /\ Verifies(opt) /\ \E r \in W : image[r] \in Content)
       /\ allOk' \in BOOLEAN
  <2>1. CASE PassOk
    BY <1>11, <2>1
  <2>2. CASE ~PassOk
    BY <1>11, <1>12, <2>2
  <2> QED BY <2>1, <2>2
<1>14. Strip!DecodeRows(W)
  BY <1>1, <1>8, <1>9, <1>10, <1>13, SpecDecodeRows
<1> QED BY <1>4, <1>9, <1>14 DEF Strip!Next, ColumnStatus

\* Opening a window, dropping its bitmaps and closing it are invisible: no row
\* has a pass more or less.
LEMMA OpenWindowStutters ==
  ASSUME StripInv, OpenWindow
  PROVE  UNCHANGED Strip!specVars
<1>1. /\ phase = "head" /\ phase' = "raster"
      /\ UNCHANGED <<opt, image, row0, ss, cs, allOk>>
  BY DEF OpenWindow, columnVars
<1>2. row0 \in Nat /\ opt.nrows \in Nat
  BY OptionFacts DEF StripInv, StripTypes
<1>3. UNCHANGED <<EncodesDone, DecodesDone>> /\ ImageRows(opt)' = ImageRows(opt)
  BY <1>1 DEF EncodesDone, DecodesDone
<1>4. \A i \in ImageRows(opt) : i \in WindowRows' => ~(i < row0)
  BY <1>1, <1>2 DEF WindowRows, ImageRows
<1>5. RasteredInside' = 0 /\ EncodedInside' = 0 /\ DecodedInside' = 0 /\ ColumnStatus = ColumnStatus'
  BY <1>1 DEF RasteredInside, EncodedInside, DecodedInside, ColumnStatus
<1>6. \A b : EarlierTimes(b) = [i \in ImageRows(opt) |->
                                  IF i \in WindowRows' THEN 0 ELSE IF i < row0 THEN b ELSE 0]
  BY <1>4 DEF EarlierTimes
<1>7. /\ WindowTimes(1, RasteredInside)' = EarlierTimes(1)
      /\ WindowTimes(EncodesDone, EncodedInside)' = EarlierTimes(EncodesDone)
      /\ WindowTimes(DecodesDone, DecodedInside)' = EarlierTimes(DecodesDone)
  BY <1>1, <1>3, <1>5, <1>6 DEF WindowTimes
<1>8. phase' \in WindowPhases'
  BY <1>1 DEF WindowPhases
<1>9. UNCHANGED <<RasteredTimes, EncodedTimes, DecodedTimes, ColumnStatus>>
  BY <1>1, <1>5, <1>7, <1>8, TimesInWindowAfter, TimesBetween
<1> QED BY <1>1, <1>9, SpecStutters

\* Dropping the bitmaps is invisible.
LEMMA DropRawStutters ==
  ASSUME StripInv, DropRaw
  PROVE  UNCHANGED Strip!specVars
<1>1. /\ phase = "drop" /\ phase \in WindowPhases /\ phase' \in WindowPhases
      /\ UNCHANGED <<opt, image, row0, ss, cs, allOk>> /\ rep' = 0
      /\ \/ phase' = "decode" /\ StartQueue(total, opt.dt)
         \/ phase' = "close" /\ ~DoDecode(opt) /\ UNCHANGED queueVars
  BY DEF DropRaw, WindowPhases, StartDecode
<1>2. total' = total
  BY <1>1 DEF StartQueue, queueVars
<1>3. /\ RasteredInside' = RasteredInside /\ EncodedInside' = EncodedInside
      /\ DecodedInside' = DecodedInside
  BY <1>1 DEF RasteredInside, EncodedInside, DecodedInside, EncodesDone, DecodesDone, DoDecode
<1>4. UNCHANGED <<RasteredTimes, EncodedTimes, DecodedTimes, ColumnStatus>>
  BY <1>1, <1>2, <1>3, StepInWindow
<1> QED BY <1>1, <1>4, SpecStutters

\* Going on to the next window is invisible.
LEMMA CloseWindowStutters ==
  ASSUME StripInv, CloseWindow
  PROVE  UNCHANGED Strip!specVars
<1>1. /\ phase = "close" /\ phase \in WindowPhases /\ phase' = "head"
      /\ UNCHANGED <<opt, image, ss, cs, allOk>> /\ row0' = row0 + opt.cache
  BY DEF CloseWindow, WindowPhases, NextRow0
<1>2. /\ row0 \in Nat /\ total \in Nat /\ opt.nrows \in Nat /\ opt.cache \in Nat
      /\ row0 + total = Smaller(row0 + opt.cache, opt.nrows)
  BY <1>1, WindowIsNext, OptionFacts, MaxRowsAssumption DEF StripInv, StripTypes
<1>3. UNCHANGED <<EncodesDone, DecodesDone>> /\ ImageRows(opt)' = ImageRows(opt)
  BY <1>1 DEF EncodesDone, DecodesDone
<1>4. \A i \in ImageRows(opt) : i < row0' <=> i \in WindowRows \/ i < row0
  BY <1>1, <1>2 DEF WindowRows, ImageRows, Smaller
<1>5. /\ RasteredInside = 1 /\ EncodedInside = EncodesDone /\ DecodedInside = DecodesDone
      /\ ColumnStatus' = ColumnStatus
  BY <1>1 DEF RasteredInside, EncodedInside, DecodedInside, ColumnStatus
<1>6. \A b : WindowTimes(b, b) = [i \in ImageRows(opt) |-> IF i < row0' THEN b ELSE 0]
  BY <1>4 DEF WindowTimes
<1>7. /\ EarlierTimes(1)' = WindowTimes(1, 1)
      /\ EarlierTimes(EncodesDone)' = WindowTimes(EncodesDone, EncodesDone)
      /\ EarlierTimes(DecodesDone)' = WindowTimes(DecodesDone, DecodesDone)
  BY <1>1, <1>3, <1>6 DEF EarlierTimes
<1>8. UNCHANGED <<RasteredTimes, EncodedTimes, DecodedTimes, ColumnStatus>>
  BY <1>1, <1>5, <1>7, TimesInWindow, TimesBetweenAfter
<1> QED BY <1>1, <1>8, SpecStutters

\* The column is reported when every row has all its passes.
LEMMA CloseColumnFinishes ==
  ASSUME StripInv, CloseColumn
  PROVE  Strip!Next
<1>1. /\ phase = "head" /\ phase' = "done" /\ row0 >= opt.nrows
      /\ UNCHANGED <<opt, image, row0, rep, ss, cs, allOk>>
  BY DEF CloseColumn, columnVars
<1>2. row0 \in Nat /\ opt.nrows \in Nat
  BY OptionFacts DEF StripInv, StripTypes
<1>3. UNCHANGED <<EncodesDone, DecodesDone>> /\ ImageRows(opt)' = ImageRows(opt)
  BY <1>1 DEF EncodesDone, DecodesDone
<1>4. /\ EarlierTimes(1)' = EarlierTimes(1)
      /\ EarlierTimes(EncodesDone)' = EarlierTimes(EncodesDone)
      /\ EarlierTimes(DecodesDone)' = EarlierTimes(DecodesDone)
  BY <1>1, <1>3 DEF EarlierTimes
<1>5. /\ UNCHANGED <<RasteredTimes, EncodedTimes, DecodedTimes>>
      /\ RasteredTimes = EarlierTimes(1) /\ EncodedTimes = EarlierTimes(EncodesDone)
      /\ DecodedTimes = EarlierTimes(DecodesDone)
  BY <1>1, <1>4, TimesBetween, TimesBetweenAfter
<1>6. \A r \in ImageRows(opt) :
        RasteredTimes[r] = 1 /\ EncodedTimes[r] = EncodesDone /\ DecodedTimes[r] = DecodesDone
  BY <1>1, <1>2, <1>5 DEF EarlierTimes, ImageRows
<1>7. Strip!Complete
  BY <1>6, SameWords DEF Strip!Complete, RasteredTimes, EncodedTimes, DecodedTimes
<1>8. ColumnStatus = "running" /\ ColumnStatus' = "done"
  BY <1>1 DEF ColumnStatus
<1>9. Strip!Finish
  BY <1>1, <1>5, <1>7, <1>8 DEF Strip!Finish, RasteredTimes, EncodedTimes, DecodedTimes, ColumnStatus
<1> QED BY <1>8, <1>9 DEF Strip!Next, ColumnStatus

\* The program is gone over a block that had an encode pass to come.
LEMMA EncodeThrowsAborts ==
  ASSUME StripInv, NEW t \in Thread, EncodeThrows(t)
  PROVE  Strip!Next
<1>1. /\ phase = "encode" /\ phase \in WindowPhases /\ phase' = "aborted"
      /\ Working(t) /\ raw[wrow[t]] # "null"
      /\ UNCHANGED <<opt, image, row0, rep, total, ss, cs, allOk>>
  BY DEF EncodeThrows, WindowPhases, columnVars, queueVars
<1>2. UNCHANGED <<RasteredTimes, EncodedTimes, DecodedTimes>>
  <2>1. PhaseReached = "encode" /\ PhaseReached' = "encode" /\ \A i : InWindow(i)' <=> InWindow(i)
    BY <1>1 DEF PhaseReached, InWindow
  <2> QED BY <1>1, <2>1 DEF RasteredTimes, EncodedTimes, DecodedTimes, Progress,
                            EncodesDone, DecodesDone
<1>3. PICK r \in Window : r = wrow[t]
  BY <1>1 DEF StripInv, QueueInv, RowIssuedOnce, Window
<1>4. image[ImageRow(r)] = raw[r]
  BY <1>1, <1>3 DEF StripInv, SlotsInv
<1>5. /\ row0 \in Nat /\ total \in Nat /\ rep \in Nat /\ rep < EncodesDone
      /\ opt.repeat \in Nat
  BY <1>1, WindowIsNext DEF EncodesDone, StripInv, PhaseInv
<1>6. PICK i \in WindowRows : i = ImageRow(r)
  BY <1>3, <1>5 DEF ImageRow, Window, WindowRows
<1>7. i \in ImageRows(opt)
  BY <1>1, WindowRowsExist
<1>8. RasteredInside = 1 /\ EncodedInside = rep
  BY <1>1 DEF RasteredInside, EncodedInside
<1>9. RasteredTimes[i] = 1 /\ EncodedTimes[i] < EncodesDone
  BY <1>1, <1>5, <1>6, <1>7, <1>8, TimesInWindow DEF WindowTimes
<1>10. ColumnStatus = "running" /\ ColumnStatus' = "aborted"
  BY <1>1 DEF ColumnStatus
<1>11. i \in Strip!ImageRows(opt) /\ Strip!EncodePasses = EncodesDone /\ image[i] # "null"
  BY <1>1, <1>3, <1>4, <1>6, <1>7, SameWords
<1>12. Strip!Abort
  BY <1>1, <1>2, <1>9, <1>10, <1>11
     DEF Strip!Abort, RasteredTimes, EncodedTimes, DecodedTimes, ColumnStatus
<1> QED BY <1>10, <1>12 DEF Strip!Next, ColumnStatus

\* A column starts with no row begun.
LEMMA InitIsStripInit ==
  ASSUME StripInit
  PROVE  Strip!Init
<1>1. phase = "head" /\ row0 = 0
  BY DEF StripInit
<1>2. \A b : EarlierTimes(b) = [i \in ImageRows(opt) |-> 0]
  BY <1>1 DEF EarlierTimes, ImageRows
<1>3. /\ RasteredTimes = [i \in ImageRows(opt) |-> 0] /\ EncodedTimes = [i \in ImageRows(opt) |-> 0]
      /\ DecodedTimes = [i \in ImageRows(opt) |-> 0]
  BY <1>1, <1>2, TimesBetween
<1>4. Strip!Zero(opt) = [i \in ImageRows(opt) |-> 0] /\ Strip!ImageRows(opt) = ImageRows(opt)
      /\ Strip!Kind = Kind
  BY SameWords DEF Strip!Zero
<1> QED BY <1>3, <1>4
        DEF Strip!Init, StripInit, RasteredTimes, EncodedTimes, DecodedTimes, ColumnStatus

\* The windows, queues, workers and buffers of the pipeline are an
\* implementation of what StripSpec promises of a column: every step of theirs
\* is a step of it, or is invisible.
THEOREM StripImplementsSpec == StripSafety => ImplementsStripSpec
<1>1. StripInit => Strip!Init
  BY InitIsStripInit
<1>2. StripInv /\ OkInv /\ [StripNext]_vars => [Strip!Next]_Strip!specVars
  <2> SUFFICES ASSUME StripInv, OkInv, [StripNext]_vars
               PROVE  Strip!Next \/ UNCHANGED Strip!specVars
    OBVIOUS
  <2>1. CASE PhaseSpawn \/ PhaseJoin \/ UNCHANGED vars
    <3>1. UNCHANGED <<opt, image, row0, total, phase, rep, ss, cs, allOk>>
      BY <2>1 DEF PhaseSpawn, PhaseJoin, Spawn, Join, vars, columnVars, queueVars
    <3> QED BY <3>1, PhaseStepStutters
  <2>2. ASSUME NEW t \in Thread, PhasePop(t) \/ RasterBlock(t) \/ EncodeBlock(t) \/ DecodeBlock(t)
        PROVE  UNCHANGED Strip!specVars
    <3>1. UNCHANGED <<opt, image, row0, total, phase, rep, ss, cs, allOk>>
      BY <2>2 DEF PhasePop, Pop, RasterBlock, EncodeBlock, DecodeBlock, Finish, columnVars, queueVars
    <3> QED BY <3>1, PhaseStepStutters
  <2> QED BY <2>1, <2>2, OpenWindowStutters, DropRawStutters, CloseWindowStutters,
             RasterJoinedRasters, EncodeJoinedEncodes, DecodeJoinedDecodes,
             CloseColumnFinishes, EncodeThrowsAborts
          DEF StripNext, MainStep, WorkerStep, Ended
<1> QED BY <1>1, <1>2, StripCorrect, UnverifiedPassesAreGood, PTL
        DEF StripSafety, ImplementsStripSpec, Strip!Spec
=============================================================================
