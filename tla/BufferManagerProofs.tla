------------------------ MODULE BufferManagerProofs ------------------------
(***************************************************************************)
(* The buffer manager with any number of threads, buffers and sizes: every *)
(* buffer has one owner, none is leaked, what alloc returns is as large as *)
(* was asked for, and no raise of the preferred size is lost.              *)
(***************************************************************************)
EXTENDS BufferManager, SequenceTheorems, TLAPS

\* Every variable has its type, and no stack outgrows its cap.
Types ==
  /\ mem \in [Block -> Memory]
  /\ held \subseteq Block
  /\ cache \in [Kinds -> [Thread -> Seq(Block)]]
  /\ \A k \in Kinds, t \in Thread : Len(cache[k][t]) <= Cap(k)
  /\ poolSize \in Sizes
  /\ initialized \in BOOLEAN
  /\ {Main} \subseteq alive /\ alive \subseteq Thread
  /\ pc \in [Thread -> {"idle", "size", "load", "cas", "new"}]
  /\ want \in [Thread -> Sizes]
  /\ wantKind \in [Thread -> Kinds \cup {"none"}]
  /\ allocSize \in [Thread -> Sizes]
  /\ cur \in [Thread -> Sizes]

\* A buffer is in at most one place of one stack.
OnePlace ==
  \A k, l \in Kinds, t, u \in Thread :
    \A i \in 1 .. Len(cache[k][t]), j \in 1 .. Len(cache[l][u]) :
      cache[k][t][i] = cache[l][u][j] => k = l /\ t = u /\ i = j

\* What is in a stack is of its kind, and not with the client.
StacksInv ==
  \A k \in Kinds, t \in Thread : \A i \in 1 .. Len(cache[k][t]) :
    cache[k][t][i] \notin held /\ mem[cache[k][t][i]].kind = k

\* What the client holds is a buffer, and large enough.
HeldInv == \A b \in held : mem[b].kind \in Kinds /\ mem[b].size >= mem[b].asked

\* What is not the system's is with the client or in the stack of a thread.
NoLeakInv ==
  \A b \in Block :
    mem[b] # System =>
      b \in held \/ \E k \in Kinds, t \in alive : \E i \in 1 .. Len(cache[k][t]) : cache[k][t][i] = b

OwnInv == OnePlace /\ StacksInv /\ HeldInv /\ NoLeakInv

\* Where a thread is in alloc(), and what it wants there.
CallInv(t) ==
  /\ pc[t] # "idle" => t \in alive
  /\ pc[t] \in {"size", "load", "cas"} => wantKind[t] = "normal"
  /\ pc[t] = "new" => wantKind[t] \in Kinds
  /\ pc[t] # "idle" => allocSize[t] >= want[t]
  /\ pc[t] = "cas" => allocSize[t] > cur[t]
  /\ pc[t] = "new" /\ wantKind[t] = "normal" => poolSize >= allocSize[t]

BufferInv == Types /\ OwnInv /\ \A t \in Thread : CallInv(t)

-----------------------------------------------------------------------------
(* The invariant says what the properties say *)

\* What is in a stack is a buffer and not the system's.
LEMMA KindsDiffer ==
  ASSUME BufferInv, NEW k \in Kinds, NEW t \in Thread, NEW i \in 1 .. Len(cache[k][t])
  PROVE  /\ cache[k][t] \in Seq(Block) /\ Len(cache[k][t]) \in Nat
         /\ DOMAIN cache[k][t] = 1 .. Len(cache[k][t])
         /\ cache[k][t][i] \in Block /\ mem[cache[k][t][i]] # System
  <1>1. cache[k][t] \in Seq(Block)
    BY DEF BufferInv, Types
  <1>2. /\ Len(cache[k][t]) \in Nat /\ DOMAIN cache[k][t] = 1 .. Len(cache[k][t])
        /\ cache[k][t][i] \in Block
    BY <1>1, LenProperties, ElementOfSeq
  <1>3. mem[cache[k][t][i]].kind \in Kinds /\ System.kind \notin Kinds
    BY DEF BufferInv, OwnInv, StacksInv, System, Kinds
  <1> QED BY <1>1, <1>2, <1>3

\* The elements of a stack.
LEMMA StackSet ==
  ASSUME Types, NEW k \in Kinds, NEW t \in Thread
  PROVE  ToSet(cache[k][t]) = {cache[k][t][i] : i \in 1 .. Len(cache[k][t])}
  <1>1. cache[k][t] \in Seq(Block)
    BY DEF Types
  <1>2. DOMAIN cache[k][t] = 1 .. Len(cache[k][t])
    BY <1>1, LenProperties
  <1> QED BY <1>2 DEF ToSet

\* A buffer is cached by a thread when it is in one of its stacks.
LEMMA CachedMeans ==
  ASSUME Types, NEW t \in Thread, NEW b
  PROVE  b \in Cached(t) <=> \E k \in Kinds : \E i \in 1 .. Len(cache[k][t]) : cache[k][t][i] = b
  <1>1. b \in Cached(t) <=> \E k \in Kinds : b \in ToSet(cache[k][t])
    BY DEF Cached
  <1>2. \A k \in Kinds : b \in ToSet(cache[k][t]) <=> \E i \in 1 .. Len(cache[k][t]) : cache[k][t][i] = b
    BY StackSet
  <1> QED BY <1>1, <1>2

\* The invariant holds the types.
LEMMA InvMeansTypeOK ==
  ASSUME BufferInv
  PROVE  TypeOK
  <1>1. ASSUME NEW k \in Kinds, NEW t \in Thread, NEW b \in ToSet(cache[k][t])
        PROVE  mem[b].kind = k
    BY StackSet DEF BufferInv, OwnInv, StacksInv
  <1> QED BY <1>1 DEF BufferInv, Types, TypeOK

\* In one place of one stack, and not with the client: one owner.
LEMMA InvMeansOneOwner ==
  ASSUME BufferInv
  PROVE  OneOwner
  <1>0. Types
    BY DEF BufferInv
  <1>1. \A b \in held : mem[b] # System
    BY DEF BufferInv, OwnInv, HeldInv, System, Kinds
  <1>2. ASSUME NEW t \in Thread, NEW b \in Cached(t) PROVE b \notin held
    <2>1. PICK k \in Kinds : \E i \in 1 .. Len(cache[k][t]) : cache[k][t][i] = b
      BY <1>0, CachedMeans
    <2> QED BY <2>1 DEF BufferInv, OwnInv, StacksInv
  <1>3. ASSUME NEW t \in Thread, NEW u \in Thread, t # u, NEW b \in Cached(t) PROVE b \notin Cached(u)
    <2> SUFFICES ASSUME b \in Cached(u) PROVE FALSE
      OBVIOUS
    <2>1. PICK k \in Kinds : \E i \in 1 .. Len(cache[k][t]) : cache[k][t][i] = b
      BY <1>0, CachedMeans
    <2>2. PICK l \in Kinds : \E j \in 1 .. Len(cache[l][u]) : cache[l][u][j] = b
      BY <1>0, CachedMeans
    <2> QED BY <1>3, <2>1, <2>2 DEF BufferInv, OwnInv, OnePlace
  <1>4. ASSUME NEW t \in Thread, NEW k \in Kinds
        PROVE  IsInjective(cache[k][t]) /\ \A b \in ToSet(cache[k][t]) : mem[b] # System
    <2>1. cache[k][t] \in Seq(Block)
      BY <1>0 DEF Types
    <2>2. DOMAIN cache[k][t] = 1 .. Len(cache[k][t])
      BY <2>1, LenProperties
    <2>3. IsInjective(cache[k][t])
      BY <2>2 DEF IsInjective, BufferInv, OwnInv, OnePlace
    <2>4. ASSUME NEW b \in ToSet(cache[k][t]) PROVE mem[b] # System
      <3>1. PICK i \in 1 .. Len(cache[k][t]) : cache[k][t][i] = b
        BY <1>0, StackSet
      <3> QED BY <3>1, KindsDiffer
    <2> QED BY <2>3, <2>4
  <1> QED BY <1>1, <1>2, <1>3, <1>4 DEF OneOwner

\* What is in a stack of a thread is cached by it.
LEMMA InvMeansNothingLeaks ==
  ASSUME BufferInv
  PROVE  NothingLeaks
  <1>0. Types /\ alive \subseteq Thread
    BY DEF BufferInv, Types
  <1> SUFFICES ASSUME NEW b \in Block, mem[b] # System, b \notin held
               PROVE  \E t \in alive : b \in Cached(t)
    BY DEF NothingLeaks
  <1>1. PICK t \in alive : \E k \in Kinds : \E i \in 1 .. Len(cache[k][t]) : cache[k][t][i] = b
    BY DEF BufferInv, OwnInv, NoLeakInv
  <1> QED BY <1>0, <1>1, CachedMeans

-----------------------------------------------------------------------------
(* Steps that move no buffer *)

\* What was said of the owners stays true when only threads are added.
LEMMA OwnersStay ==
  ASSUME OwnInv, UNCHANGED blockVars, alive \subseteq alive'
  PROVE  OwnInv'
  <1> USE DEF OwnInv, blockVars
  <1>1. OnePlace' /\ StacksInv' /\ HeldInv'
    BY DEF OnePlace, StacksInv, HeldInv
  <1>2. NoLeakInv'
    BY DEF NoLeakInv
  <1> QED BY <1>1, <1>2

\* A new thread is idle and has nothing.
LEMMA StartThreadPreserves ==
  ASSUME BufferInv, NEW t \in Thread, StartThread(t)
  PROVE  BufferInv'
  <1> USE DEF StartThread, blockVars, callVars
  <1>1. Types'
    BY DEF BufferInv, Types
  <1>2. OwnInv'
    BY OwnersStay DEF BufferInv
  <1>3. \A u \in Thread : CallInv(u)'
    BY DEF BufferInv, CallInv
  <1> QED BY <1>1, <1>2, <1>3 DEF BufferInv

\* What the system is asked for is no less than the request, nor than the preferred
\* size.
LEMMA ChooseSizePreserves ==
  ASSUME BufferInv, NEW t \in Thread, ChooseSize(t)
  PROVE  BufferInv'
  <1> USE DEF ChooseSize
  <1>1. Types'
    BY DEF BufferInv, Types, blockVars, Sizes
  <1>2. OwnInv'
    BY OwnersStay DEF BufferInv
  <1>3. \A u \in Thread : CallInv(u)'
    <2> SUFFICES ASSUME NEW u \in Thread PROVE CallInv(u)'
      OBVIOUS
    <2>1. CallInv(u) /\ want[u] \in Int /\ allocSize[u] \in Int /\ poolSize \in Int
      BY BufferAssumption DEF BufferInv, Types, Sizes
    <2>2. CASE u = t
      BY <2>1, <2>2 DEF BufferInv, Types, CallInv
    <2>3. CASE u # t
      BY <2>1, <2>3 DEF BufferInv, Types, CallInv
    <2> QED BY <2>2, <2>3
  <1> QED BY <1>1, <1>2, <1>3 DEF BufferInv

\* The exchange is tried only with a value above the one just read.
LEMMA LoadTrackedPreserves ==
  ASSUME BufferInv, NEW t \in Thread, LoadTracked(t)
  PROVE  BufferInv'
  <1> USE DEF LoadTracked
  <1>1. Types'
    BY DEF BufferInv, Types, blockVars
  <1>2. OwnInv'
    BY OwnersStay DEF BufferInv
  <1>3. \A u \in Thread : CallInv(u)'
    <2> SUFFICES ASSUME NEW u \in Thread PROVE CallInv(u)'
      OBVIOUS
    <2>1. CallInv(u) /\ want[u] \in Int /\ allocSize[u] \in Int /\ poolSize \in Int
      BY BufferAssumption DEF BufferInv, Types, Sizes
    <2>2. CASE u = t
      BY <2>1, <2>2 DEF BufferInv, Types, CallInv
    <2>3. CASE u # t
      BY <2>1, <2>3 DEF BufferInv, Types, CallInv
    <2> QED BY <2>2, <2>3
  <1> QED BY <1>1, <1>2, <1>3 DEF BufferInv

\* A store only ever raises the preferred size: it was `cur`, which was too small.
LEMMA CompareExchangeRaises ==
  ASSUME BufferInv, NEW t \in Thread, CompareExchange(t)
  PROVE  /\ poolSize' \in Sizes /\ poolSize' >= poolSize
         /\ pc'[t] = "new" => poolSize' >= allocSize[t]
         /\ pc'[t] = "cas" => allocSize[t] > cur'[t]
         /\ pc'[t] \in {"new", "cas"} /\ wantKind[t] = "normal"
         /\ cur' \in [Thread -> Sizes]
         /\ \A u \in Thread \ {t} : pc'[u] = pc[u] /\ cur'[u] = cur[u]
  <1>0. /\ allocSize[t] \in Sizes /\ poolSize \in Sizes
        /\ allocSize[t] \in Int /\ poolSize \in Int
        /\ pc \in [Thread -> {"idle", "size", "load", "cas", "new"}]
        /\ cur \in [Thread -> Sizes] /\ CallInv(t)
    BY BufferAssumption DEF BufferInv, Types, Sizes
  <1>1. CASE /\ poolSize = cur[t] /\ poolSize' = allocSize[t]
             /\ pc' = [pc EXCEPT ![t] = "new"] /\ cur' = cur
    BY <1>0, <1>1 DEF CompareExchange, CallInv
  <1>2. CASE /\ cur' = [cur EXCEPT ![t] = poolSize] /\ poolSize' = poolSize
             /\ pc' = [pc EXCEPT ![t] = IF allocSize[t] > poolSize THEN "cas" ELSE "new"]
    BY <1>0, <1>2 DEF CompareExchange, CallInv
  <1> QED BY <1>1, <1>2 DEF CompareExchange

\* A raise keeps what the other threads rely on.
LEMMA CompareExchangePreserves ==
  ASSUME BufferInv, NEW t \in Thread, CompareExchange(t)
  PROVE  BufferInv'
  <1>0. UNCHANGED <<blockVars, initialized, alive, want, wantKind, allocSize>>
    BY DEF CompareExchange
  <1>1. Types'
    <2>1. pc' \in [Thread -> {"idle", "size", "load", "cas", "new"}]
      BY DEF CompareExchange, BufferInv, Types
    <2> QED BY <1>0, <2>1, CompareExchangeRaises DEF BufferInv, Types, blockVars
  <1>2. OwnInv'
    BY <1>0, OwnersStay DEF BufferInv
  <1>3. \A u \in Thread : CallInv(u)'
    <2> SUFFICES ASSUME NEW u \in Thread PROVE CallInv(u)'
      OBVIOUS
    <2>1. CallInv(u) /\ CallInv(t) /\ allocSize[u] \in Int /\ poolSize \in Int /\ poolSize' \in Int
      BY <1>1, BufferAssumption DEF BufferInv, Types, Sizes
    <2>2. pc[t] = "cas"
      BY DEF CompareExchange
    <2>3. CASE u = t
      BY <1>0, <2>1, <2>2, <2>3, CompareExchangeRaises DEF CallInv, Kinds
    <2>4. CASE u # t
      BY <1>0, <2>1, <2>4, CompareExchangeRaises DEF CallInv
    <2> QED BY <2>3, <2>4
  <1> QED BY <1>1, <1>2, <1>3 DEF BufferInv

\* get_memory_buffer_size yields a uint32_t.
LEMMA SizeFits ==
  ASSUME NEW width \in Nat, NEW height \in Nat
  PROVE  MemoryBufferSize(width, height) \in Sizes
  <1> DEFINE U(n) == n % UintRange
  <1>0. UintRange \in Nat \ {0}
    BY BufferAssumption
  <1>1. \A n \in Nat : U(n) \in Sizes /\ U(n) \in Nat
    BY <1>0 DEF Sizes
  <1>2. U(width + 511) \div 512 \in Nat
    BY <1>1
  <1>3. U((U(width + 511) \div 512) * 512) \div 8 \in Nat
    BY <1>1, <1>2
  <1>4. U(U((U(width + 511) \div 512) * 512) \div 8) \in Nat
    BY <1>1, <1>3
  <1>5. U(U((U(width + 511) \div 512) * 512) \div 8) * height \in Nat
    BY <1>4
  <1>6. (U((U(width + 511) \div 512) * 512) \div 8) * height \in Nat
    BY <1>3
  <1> QED BY <1>1, <1>5, <1>6 DEF MemoryBufferSize

\* While the main thread is alone and not in alloc(), nobody is in alloc().
LEMMA AlonePreserves ==
  ASSUME BufferInv, MainAlone, poolSize' \in Sizes, initialized' \in BOOLEAN,
         UNCHANGED <<blockVars, alive, callVars>>
  PROVE  BufferInv'
  <1>1. Types'
    BY DEF BufferInv, Types, blockVars, callVars
  <1>2. OwnInv'
    BY OwnersStay DEF BufferInv
  <1>3. \A u \in Thread : CallInv(u)'
    <2>1. \A u \in Thread : pc[u] = "idle"
      BY DEF BufferInv, CallInv, MainAlone
    <2> QED BY <2>1 DEF CallInv, callVars
  <1> QED BY <1>1, <1>2, <1>3 DEF BufferInv

\* clear() forgets the preferred size.
LEMMA ClearPreserves ==
  ASSUME BufferInv, Clear
  PROVE  BufferInv'
  <1>1. 0 \in Sizes
    BY BufferAssumption DEF Sizes
  <1> QED BY <1>1, AlonePreserves DEF Clear

\* initialize() sets it to a uint32_t.
LEMMA InitializePreserves ==
  ASSUME BufferInv, NEW g \in Geometry, Initialize(g[1], g[2])
  PROVE  BufferInv'
  <1>1. MemoryBufferSize(g[1], g[2]) \in Sizes
    BY BufferAssumption, SizeFits
  <1> QED BY <1>1, AlonePreserves DEF Initialize

-----------------------------------------------------------------------------
(* Steps that move buffers *)

\* System memory is memory.
LEMMA SystemFacts ==
  /\ System \in Memory /\ System.kind = "none" /\ System.kind \notin Kinds
  /\ System.size = 0 /\ System.asked = 0
  <1>1. 0 \in Sizes
    BY BufferAssumption DEF Sizes
  <1> QED BY <1>1 DEF System, Memory, Kinds

\* A thread that ends takes no call with it; its buffers go to the system, and
\* no other stack nor the client has any of them.
LEMMA ExitThreadPreserves ==
  ASSUME BufferInv, NEW t \in Thread, ExitThread(t)
  PROVE  BufferInv'
  <1>0. /\ t \in alive \ {Main} /\ pc[t] = "idle" /\ alive' = alive \ {t}
        /\ mem' = Delete(Cached(t))
        /\ cache' = [k \in Kinds |-> [cache[k] EXCEPT ![t] = <<>>]]
        /\ UNCHANGED <<held, poolSize, initialized, pc, want, wantKind, allocSize, cur>>
    BY DEF ExitThread, DestroyCache, callVars
  <1>1. Types
    BY DEF BufferInv
  <1>2. \A k \in Kinds, u \in Thread : cache'[k][u] = IF u = t THEN <<>> ELSE cache[k][u]
    BY <1>0, <1>1 DEF Types
  <1>3. \A b \in Block : mem'[b] = IF b \in Cached(t) THEN System ELSE mem[b]
    BY <1>0 DEF Delete
  <1>4. Len(<<>>) = 0 /\ <<>> \in Seq(Block)
    BY EmptySeq
  <1>5. Types'
    <2>1. mem' \in [Block -> Memory]
      BY <1>0, <1>1, SystemFacts DEF Delete, Types
    <2>2. cache' \in [Kinds -> [Thread -> Seq(Block)]]
      BY <1>0, <1>1, <1>4 DEF Types
    <2>3. \A k \in Kinds, u \in Thread : Len(cache'[k][u]) <= Cap(k)
      BY <1>1, <1>2, <1>4, BufferAssumption DEF Types, Cap
    <2> QED BY <1>0, <1>1, <2>1, <2>2, <2>3 DEF Types
  <1>6. OnePlace'
    <2> SUFFICES ASSUME NEW k \in Kinds, NEW l \in Kinds, NEW u \in Thread, NEW v \in Thread,
                        NEW i \in 1 .. Len(cache'[k][u]), NEW j \in 1 .. Len(cache'[l][v]),
                        cache'[k][u][i] = cache'[l][v][j]
                 PROVE  k = l /\ u = v /\ i = j
      BY DEF OnePlace
    <2>1. u # t /\ v # t
      BY <1>2, <1>4
    <2>2. cache'[k][u] = cache[k][u] /\ cache'[l][v] = cache[l][v]
      BY <1>2, <2>1
    <2> QED BY <2>2 DEF BufferInv, OwnInv, OnePlace
  <1>7. StacksInv'
    <2> SUFFICES ASSUME NEW k \in Kinds, NEW u \in Thread, NEW i \in 1 .. Len(cache'[k][u])
                 PROVE  cache'[k][u][i] \notin held' /\ mem'[cache'[k][u][i]].kind = k
      BY DEF StacksInv
    <2>1. u # t
      BY <1>2, <1>4
    <2>2. cache'[k][u] = cache[k][u]
      BY <1>2, <2>1
    <2>3. cache[k][u][i] \in Block
      BY <2>2, KindsDiffer
    <2>4. cache[k][u][i] \notin Cached(t)
      BY <1>1, <2>1, <2>2, CachedMeans DEF BufferInv, OwnInv, OnePlace
    <2> QED BY <1>0, <1>3, <2>2, <2>3, <2>4 DEF BufferInv, OwnInv, StacksInv
  <1>8. HeldInv'
    <2> SUFFICES ASSUME NEW b \in held PROVE mem'[b] = mem[b]
      BY <1>0 DEF HeldInv, BufferInv, OwnInv
    <2>1. b \in Block
      BY <1>1 DEF Types
    <2>2. b \notin Cached(t)
      <3> SUFFICES ASSUME b \in Cached(t) PROVE FALSE
        OBVIOUS
      <3>1. PICK k \in Kinds : \E i \in 1 .. Len(cache[k][t]) : cache[k][t][i] = b
        BY <1>1, CachedMeans
      <3> QED BY <3>1 DEF BufferInv, OwnInv, StacksInv
    <2> QED BY <1>3, <2>1, <2>2
  <1>9. NoLeakInv'
    <2> SUFFICES ASSUME NEW b \in Block, mem'[b] # System, b \notin held'
                 PROVE  \E k \in Kinds, u \in alive' : \E i \in 1 .. Len(cache'[k][u]) : cache'[k][u][i] = b
      BY DEF NoLeakInv
    <2>1. b \notin Cached(t) /\ mem[b] # System /\ b \notin held
      BY <1>0, <1>3
    <2>2. PICK k \in Kinds, u \in alive : \E i \in 1 .. Len(cache[k][u]) : cache[k][u][i] = b
      BY <2>1 DEF BufferInv, OwnInv, NoLeakInv
    <2>3. u # t /\ u \in Thread
      BY <1>1, <2>1, <2>2, CachedMeans DEF Types
    <2> QED BY <1>0, <1>2, <2>2, <2>3
  <1>10. \A u \in Thread : CallInv(u)'
    BY <1>0 DEF BufferInv, CallInv
  <1> QED BY <1>5, <1>6, <1>7, <1>8, <1>9, <1>10 DEF BufferInv, OwnInv

\* The front of a stack is a stack.
LEMMA FrontOfStack ==
  ASSUME NEW s \in Seq(Block), NEW m \in 0 .. Len(s)
  PROVE  /\ SubSeq(s, 1, m) \in Seq(Block) /\ Len(SubSeq(s, 1, m)) = m
         /\ \A i \in 1 .. m : SubSeq(s, 1, m)[i] = s[i]
  <1>1. Len(s) \in Nat
    BY LenProperties
  <1>2. \A i \in 1 .. m : s[i] \in Block
    BY <1>1, ElementOfSeq
  <1> QED BY <1>1, <1>2, SubSeqProperties

\* A hit takes one buffer out of the thread's stack, and deletes those above it.
LEMMA AllocHitPreserves ==
  ASSUME BufferInv, NEW t \in Thread, NEW k \in Kinds, NEW n \in Request, AllocHit(t, k, n)
  PROVE  BufferInv'
  <1> DEFINE stack == cache[k][t]
  <1>0. /\ t \in alive /\ UNCHANGED <<poolSize, initialized, alive, pc, want, wantKind, allocSize, cur>>
    BY DEF AllocHit, callVars
  <1>1. PICK top \in Fitting(stack, n) :
          /\ cache' = [cache EXCEPT ![k][t] = SubSeq(stack, 1, top - 1)]
          /\ mem' = [Delete({stack[i] : i \in top + 1 .. Len(stack)}) EXCEPT ![stack[top]].asked = n]
          /\ held' = held \cup {stack[top]}
    BY DEF AllocHit, Reuse
  <1>2. /\ Types /\ stack \in Seq(Block) /\ Len(stack) \in Nat /\ DOMAIN stack = 1 .. Len(stack)
        /\ n \in Sizes
    BY LenProperties, BufferAssumption DEF BufferInv, Types, Sizes
  <1>3. top \in 1 .. Len(stack) /\ mem[stack[top]].size >= n /\ stack[top] \in Block
    BY <1>2, ElementOfSeq DEF Fitting
  <1> DEFINE taken == stack[top]
             gone  == {stack[i] : i \in top + 1 .. Len(stack)}
             front == SubSeq(stack, 1, top - 1)
  <1>4. /\ front \in Seq(Block) /\ Len(front) = top - 1
        /\ \A i \in 1 .. top - 1 : front[i] = stack[i]
    <2>1. top - 1 \in 0 .. Len(stack)
      BY <1>2, <1>3
    <2> QED BY <1>2, <2>1, FrontOfStack
  <1>5. \A i, j \in 1 .. Len(stack) : stack[i] = stack[j] => i = j
    BY DEF BufferInv, OwnInv, OnePlace
  <1>6. taken \notin gone
    BY <1>2, <1>3, <1>5
  <1>7. /\ \A b \in Block \ {taken} : mem'[b] = IF b \in gone THEN System ELSE mem[b]
        /\ mem'[taken] = [mem[taken] EXCEPT !.asked = n]
        /\ mem' \in [Block -> Memory]
    <2> DEFINE rest == Delete(gone)
    <2>1. rest \in [Block -> Memory] /\ \A b \in Block : rest[b] = IF b \in gone THEN System ELSE mem[b]
      BY <1>2, SystemFacts DEF Delete, Types
    <2>2. mem' = [rest EXCEPT ![taken] = [rest[taken] EXCEPT !.asked = n]]
      BY <1>1
    <2> HIDE DEF rest
    <2>3. [rest[taken] EXCEPT !.asked = n] \in Memory
      BY <1>2, <1>3, <2>1 DEF Memory
    <2> QED BY <1>3, <1>6, <2>1, <2>2, <2>3
  <1>8. mem'[taken].kind = k /\ mem'[taken].size = mem[taken].size /\ mem'[taken].asked = n
    <2>1. mem[taken] \in Memory /\ mem[taken].kind = k
      BY <1>2, <1>3 DEF Types, BufferInv, OwnInv, StacksInv
    <2> QED BY <1>7, <2>1 DEF Memory
  <1>9. /\ cache' \in [Kinds -> [Thread -> Seq(Block)]] /\ cache'[k][t] = front
        /\ \A l \in Kinds, u \in Thread : l # k \/ u # t => cache'[l][u] = cache[l][u]
    BY <1>1, <1>2, <1>4 DEF Types
  <1> HIDE DEF stack, taken, gone, front
  <1>10. \A l \in Kinds, u \in Thread : \A i \in 1 .. Len(cache'[l][u]) :
           /\ i \in 1 .. Len(cache[l][u]) /\ cache'[l][u][i] = cache[l][u][i]
           /\ cache[l][u][i] # taken /\ cache[l][u][i] \notin gone
    <2> SUFFICES ASSUME NEW l \in Kinds, NEW u \in Thread, NEW i \in 1 .. Len(cache'[l][u])
                 PROVE  /\ i \in 1 .. Len(cache[l][u]) /\ cache'[l][u][i] = cache[l][u][i]
                        /\ \A j \in top .. Len(stack) : cache[l][u][i] # stack[j]
      BY <1>2, <1>3 DEF taken, gone
    <2>1. CASE l = k /\ u = t
      <3>1. i \in 1 .. top - 1 /\ i \in 1 .. Len(stack)
        BY <1>2, <1>3, <1>4, <1>9, <2>1
      <3> QED BY <1>2, <1>3, <1>4, <1>5, <1>9, <2>1, <3>1 DEF stack
    <2>2. CASE l # k \/ u # t
      <3>1. cache'[l][u] = cache[l][u]
        BY <1>9, <2>2
      <3>2. \A j \in top .. Len(stack) : j \in 1 .. Len(stack)
        BY <1>2, <1>3
      <3> QED BY <2>2, <3>1, <3>2 DEF BufferInv, OwnInv, OnePlace, stack
    <2> QED BY <2>1, <2>2
  <1>11. Types'
    <2>1. \A l \in Kinds, u \in Thread : Len(cache'[l][u]) <= Cap(l)
      <3>1. Len(stack) <= Cap(k) /\ Cap(k) \in Nat
        BY <1>2, BufferAssumption DEF Types, stack, Cap
      <3>2. Len(cache'[k][t]) <= Cap(k)
        BY <1>2, <1>3, <1>4, <1>9, <3>1
      <3>3. ASSUME NEW l \in Kinds, NEW u \in Thread PROVE Len(cache'[l][u]) <= Cap(l)
        BY <1>2, <1>9, <3>2, <3>3 DEF Types
      <3> QED BY <3>3
    <2>2. held' \subseteq Block
      BY <1>1, <1>2, <1>3 DEF Types, taken
    <2> QED BY <1>0, <1>2, <1>7, <1>9, <2>1, <2>2 DEF Types
  <1>12. OnePlace'
    BY <1>10 DEF BufferInv, OwnInv, OnePlace
  <1>13. StacksInv'
    <2> SUFFICES ASSUME NEW l \in Kinds, NEW u \in Thread, NEW i \in 1 .. Len(cache'[l][u])
                 PROVE  cache'[l][u][i] \notin held' /\ mem'[cache'[l][u][i]].kind = l
      BY DEF StacksInv
    <2>1. /\ i \in 1 .. Len(cache[l][u]) /\ cache'[l][u][i] = cache[l][u][i]
          /\ cache[l][u][i] # taken /\ cache[l][u][i] \notin gone
      BY <1>10
    <2>2. cache[l][u][i] \in Block /\ cache[l][u][i] \notin held /\ mem[cache[l][u][i]].kind = l
      BY <2>1, KindsDiffer DEF BufferInv, OwnInv, StacksInv
    <2>3. held' = held \cup {taken}
      BY <1>1 DEF taken
    <2> QED BY <1>7, <2>1, <2>2, <2>3
  <1>14. HeldInv'
    <2> SUFFICES ASSUME NEW b \in held' PROVE mem'[b].kind \in Kinds /\ mem'[b].size >= mem'[b].asked
      BY DEF HeldInv
    <2>1. CASE b = taken
      BY <1>3, <1>8, <2>1 DEF taken
    <2>2. CASE b # taken
      <3>1. b \in held /\ b \in Block
        BY <1>1, <1>2, <2>2 DEF taken, Types
      <3>2. b \notin gone
        <4>1. \A i \in top + 1 .. Len(stack) : i \in 1 .. Len(stack)
          BY <1>2, <1>3
        <4> QED BY <3>1, <4>1 DEF gone, stack, BufferInv, OwnInv, StacksInv
      <3> QED BY <1>7, <2>2, <3>1, <3>2 DEF BufferInv, OwnInv, HeldInv
    <2> QED BY <2>1, <2>2
  <1>15. NoLeakInv'
    <2> SUFFICES ASSUME NEW b \in Block, mem'[b] # System, b \notin held'
                 PROVE  \E l \in Kinds, u \in alive : \E i \in 1 .. Len(cache'[l][u]) : cache'[l][u][i] = b
      BY <1>0 DEF NoLeakInv
    <2>1. b # taken /\ b \notin held
      BY <1>1 DEF taken
    <2>2. b \notin gone /\ mem[b] # System
      BY <1>7, <2>1
    <2>3. PICK l \in Kinds, u \in alive : \E i \in 1 .. Len(cache[l][u]) : cache[l][u][i] = b
      BY <2>1, <2>2 DEF BufferInv, OwnInv, NoLeakInv
    <2>4. PICK i \in 1 .. Len(cache[l][u]) : cache[l][u][i] = b
      BY <2>3
    <2>5. CASE l = k /\ u = t
      <3>1. i \in 1 .. top - 1
        <4> SUFFICES ASSUME i >= top PROVE FALSE
          BY <1>2, <1>3, <2>4, <2>5 DEF stack
        <4>1. i = top \/ i \in top + 1 .. Len(stack)
          BY <1>2, <1>3, <2>4, <2>5 DEF stack
        <4> QED BY <2>1, <2>2, <2>4, <2>5, <4>1 DEF stack, taken, gone
      <3>2. i \in 1 .. Len(cache'[l][u]) /\ cache'[l][u][i] = b
        BY <1>4, <1>9, <2>4, <2>5, <3>1 DEF stack
      <3> QED BY <3>2
    <2>6. CASE l # k \/ u # t
      <3>1. cache'[l][u] = cache[l][u]
        BY <1>2, <1>9, <2>6 DEF Types
      <3> QED BY <2>4, <3>1
    <2> QED BY <2>5, <2>6
  <1>16. \A u \in Thread : CallInv(u)'
    BY <1>0 DEF BufferInv, CallInv
  <1> QED BY <1>11, <1>12, <1>13, <1>14, <1>15, <1>16 DEF BufferInv, OwnInv

\* A miss deletes a whole stack of the thread.
LEMMA AllocMissPreserves ==
  ASSUME BufferInv, NEW t \in Thread, NEW k \in Kinds, NEW n \in Request, AllocMiss(t, k, n)
  PROVE  BufferInv'
  <1> DEFINE gone == ToSet(cache[k][t])
  <1>0. /\ t \in alive /\ pc[t] = "idle"
        /\ mem' = Delete(gone) /\ cache' = [cache EXCEPT ![k][t] = <<>>]
        /\ pc' = [pc EXCEPT ![t] = IF k = "normal" THEN "size" ELSE "new"]
        /\ want' = [want EXCEPT ![t] = n] /\ wantKind' = [wantKind EXCEPT ![t] = k]
        /\ allocSize' = [allocSize EXCEPT ![t] = n]
        /\ UNCHANGED <<held, poolSize, initialized, alive, cur>>
    BY DEF AllocMiss
  <1>1. Types /\ n \in Sizes /\ n \in Int /\ k \in Kinds /\ Len(<<>>) = 0 /\ <<>> \in Seq(Block)
    BY EmptySeq, BufferAssumption DEF BufferInv, Sizes
  <1>2. gone = {cache[k][t][i] : i \in 1 .. Len(cache[k][t])}
    BY <1>1, StackSet
  <1>3. /\ mem' \in [Block -> Memory]
        /\ \A b \in Block : mem'[b] = IF b \in gone THEN System ELSE mem[b]
    BY <1>0, <1>1, SystemFacts DEF Delete, Types
  <1>4. /\ cache' \in [Kinds -> [Thread -> Seq(Block)]] /\ cache'[k][t] = <<>>
        /\ \A l \in Kinds, u \in Thread : l # k \/ u # t => cache'[l][u] = cache[l][u]
    BY <1>0, <1>1 DEF Types
  <1> HIDE DEF gone
  <1>5. \A l \in Kinds, u \in Thread : \A i \in 1 .. Len(cache'[l][u]) :
          /\ i \in 1 .. Len(cache[l][u]) /\ cache'[l][u][i] = cache[l][u][i]
          /\ cache[l][u][i] \notin gone
    <2> SUFFICES ASSUME NEW l \in Kinds, NEW u \in Thread, NEW i \in 1 .. Len(cache'[l][u])
                 PROVE  /\ i \in 1 .. Len(cache[l][u]) /\ cache'[l][u][i] = cache[l][u][i]
                        /\ cache[l][u][i] \notin gone
      OBVIOUS
    <2>1. l # k \/ u # t
      BY <1>1, <1>4
    <2>2. cache'[l][u] = cache[l][u]
      BY <1>4, <2>1
    <2> QED BY <1>2, <2>1, <2>2 DEF BufferInv, OwnInv, OnePlace
  <1>6. Types'
    <2>1. \A l \in Kinds, u \in Thread : Len(cache'[l][u]) <= Cap(l)
      <3> SUFFICES ASSUME NEW l \in Kinds, NEW u \in Thread PROVE Len(cache'[l][u]) <= Cap(l)
        OBVIOUS
      <3>1. CASE l = k /\ u = t
        BY <1>1, <1>4, <3>1, BufferAssumption DEF Cap
      <3>2. CASE l # k \/ u # t
        BY <1>1, <1>4, <3>2 DEF Types
      <3> QED BY <3>1, <3>2
    <2> QED BY <1>0, <1>1, <1>3, <1>4, <2>1 DEF Types
  <1>7. OnePlace'
    BY <1>5 DEF BufferInv, OwnInv, OnePlace
  <1>8. StacksInv'
    <2> SUFFICES ASSUME NEW l \in Kinds, NEW u \in Thread, NEW i \in 1 .. Len(cache'[l][u])
                 PROVE  cache'[l][u][i] \notin held /\ mem'[cache'[l][u][i]].kind = l
      BY <1>0 DEF StacksInv
    <2>1. /\ i \in 1 .. Len(cache[l][u]) /\ cache'[l][u][i] = cache[l][u][i]
          /\ cache[l][u][i] \notin gone
      BY <1>5
    <2>2. cache[l][u][i] \in Block /\ cache[l][u][i] \notin held /\ mem[cache[l][u][i]].kind = l
      BY <2>1, KindsDiffer DEF BufferInv, OwnInv, StacksInv
    <2> QED BY <1>3, <2>1, <2>2
  <1>9. HeldInv'
    <2> SUFFICES ASSUME NEW b \in held PROVE mem'[b] = mem[b]
      BY <1>0 DEF HeldInv, BufferInv, OwnInv
    <2>1. b \in Block /\ b \notin gone
      BY <1>1, <1>2 DEF Types, BufferInv, OwnInv, StacksInv
    <2> QED BY <1>3, <2>1
  <1>10. NoLeakInv'
    <2> SUFFICES ASSUME NEW b \in Block, mem'[b] # System, b \notin held
                 PROVE  \E l \in Kinds, u \in alive : \E i \in 1 .. Len(cache'[l][u]) : cache'[l][u][i] = b
      BY <1>0 DEF NoLeakInv
    <2>1. b \notin gone /\ mem[b] # System
      BY <1>3
    <2>2. PICK l \in Kinds, u \in alive : \E i \in 1 .. Len(cache[l][u]) : cache[l][u][i] = b
      BY <2>1 DEF BufferInv, OwnInv, NoLeakInv
    <2>3. l # k \/ u # t
      BY <1>2, <2>1, <2>2
    <2>4. cache'[l][u] = cache[l][u]
      BY <1>1, <1>4, <2>3 DEF Types
    <2> QED BY <2>2, <2>4
  <1>11. \A u \in Thread : CallInv(u)'
    <2> SUFFICES ASSUME NEW u \in Thread PROVE CallInv(u)'
      OBVIOUS
    <2>1. CASE u = t
      BY <1>0, <1>1, <2>1 DEF CallInv, Types, Kinds
    <2>2. CASE u # t
      BY <1>0, <1>1, <2>2 DEF BufferInv, CallInv, Types
    <2> QED BY <2>1, <2>2
  <1> QED BY <1>6, <1>7, <1>8, <1>9, <1>10, <1>11 DEF BufferInv, OwnInv

\* The system gives out memory that nobody has, or nothing.
LEMMA NewFromSystemPreserves ==
  ASSUME BufferInv, NEW t \in Thread, NewFromSystem(t)
  PROVE  BufferInv'
  <1>0. /\ pc[t] = "new" /\ pc' = [pc EXCEPT ![t] = "idle"]
        /\ want' = [want EXCEPT ![t] = 0] /\ wantKind' = [wantKind EXCEPT ![t] = "none"]
        /\ allocSize' = [allocSize EXCEPT ![t] = 0]
        /\ cur' = [cur EXCEPT ![t] = 0]
        /\ UNCHANGED <<cache, poolSize, initialized, alive>>
    BY DEF NewFromSystem
  <1>1. /\ Types /\ 0 \in Sizes /\ want[t] \in Sizes /\ wantKind[t] \in Kinds
        /\ allocSize[t] \in Sizes /\ allocSize[t] >= want[t]
    BY <1>0, BufferAssumption DEF BufferInv, Types, Sizes, CallInv
  <1>2. \A u \in Thread : CallInv(u)'
    BY <1>0, <1>1 DEF BufferInv, CallInv, Types
  <1>3. CASE UNCHANGED <<mem, held>>
    <2>1. Types'
      BY <1>0, <1>1, <1>3 DEF Types
    <2>2. OwnInv'
      BY <1>0, <1>3, OwnersStay DEF BufferInv, blockVars
    <2> QED BY <1>2, <2>1, <2>2 DEF BufferInv
  <1>4. ASSUME NEW b \in Block, mem[b] = System, held' = held \cup {b},
               mem' = [mem EXCEPT ![b] = [size |-> allocSize[t], kind |-> wantKind[t], asked |-> want[t]]]
        PROVE  BufferInv'
    <2> DEFINE new == [size |-> allocSize[t], kind |-> wantKind[t], asked |-> want[t]]
    <2>1. new \in Memory /\ new.kind \in Kinds /\ new.size >= new.asked /\ new # System
      BY <1>1, BufferAssumption, SystemFacts DEF Memory, Sizes
    <2> HIDE DEF new
    <2>2. mem'[b] = new /\ \A c \in Block \ {b} : mem'[c] = mem[c]
      BY <1>1, <1>4 DEF Types, new
    <2>3. \A k \in Kinds, u \in Thread : \A i \in 1 .. Len(cache[k][u]) :
            cache[k][u][i] # b /\ cache[k][u][i] \in Block
      BY <1>4, KindsDiffer
    <2>4. Types'
      <3>1. mem' \in [Block -> Memory]
        BY <1>1, <1>4, <2>1 DEF Types, new
      <3> QED BY <1>0, <1>1, <1>4, <3>1 DEF Types
    <2>5. OnePlace'
      BY <1>0 DEF BufferInv, OwnInv, OnePlace
    <2>6. StacksInv'
      BY <1>0, <1>4, <2>2, <2>3 DEF BufferInv, OwnInv, StacksInv
    <2>7. HeldInv'
      BY <1>1, <1>4, <2>1, <2>2 DEF BufferInv, OwnInv, HeldInv, Types
    <2>8. NoLeakInv'
      <3> SUFFICES ASSUME NEW c \in Block, mem'[c] # System, c \notin held'
                   PROVE  \E k \in Kinds, u \in alive : \E i \in 1 .. Len(cache[k][u]) : cache[k][u][i] = c
        BY <1>0 DEF NoLeakInv
      <3>1. mem[c] # System /\ c \notin held
        BY <1>4, <2>2
      <3> QED BY <3>1 DEF BufferInv, OwnInv, NoLeakInv
    <2> QED BY <1>2, <2>4, <2>5, <2>6, <2>7, <2>8 DEF BufferInv, OwnInv
  <1> QED BY <1>3, <1>4 DEF NewFromSystem

\* The client's buffer goes onto the stack of the thread that frees it, or to
\* the system.
LEMMA FreePreserves ==
  ASSUME BufferInv, NEW t \in Thread, NEW b \in Block, Free(t, b)
  PROVE  BufferInv'
  <1> DEFINE k == mem[b].kind
             stack == cache[k][t]
  <1>0. /\ t \in alive /\ b \in held /\ held' = held \ {b}
        /\ UNCHANGED <<poolSize, initialized, alive, pc, want, wantKind, allocSize, cur>>
        /\ IF HasRoom(k, t)
           THEN cache' = [cache EXCEPT ![k][t] = Append(stack, b)] /\ mem' = [mem EXCEPT ![b].asked = 0]
           ELSE mem' = Delete({b}) /\ cache' = cache
    BY DEF Free, callVars
  <1>1. /\ Types /\ k \in Kinds /\ mem[b] \in Memory /\ 0 \in Sizes
        /\ stack \in Seq(Block) /\ Len(stack) \in Nat
    <2>1. Types /\ k \in Kinds
      BY <1>0 DEF BufferInv, OwnInv, HeldInv
    <2>2. mem[b] \in Memory
      BY <2>1 DEF Types
    <2>3. 0 \in Sizes
      BY BufferAssumption DEF Sizes
    <2>4. stack \in Seq(Block)
      BY <2>1 DEF Types
    <2>5. Len(stack) \in Nat
      BY <2>4, LenProperties
    <2> QED BY <2>1, <2>2, <2>3, <2>4, <2>5
  <1>2. \A l \in Kinds, u \in Thread : \A i \in 1 .. Len(cache[l][u]) :
          cache[l][u][i] # b /\ cache[l][u][i] \in Block /\ Len(cache[l][u]) \in Nat
    BY <1>0, KindsDiffer DEF BufferInv, OwnInv, StacksInv
  <1>3. \A u \in Thread : CallInv(u)'
    BY <1>0 DEF BufferInv, CallInv
  <1> HIDE DEF k, stack
  <1>4. CASE HasRoom(k, t)
    <2>0. /\ cache' = [cache EXCEPT ![k][t] = Append(stack, b)]
          /\ mem' = [mem EXCEPT ![b] = [mem[b] EXCEPT !.asked = 0]]
          /\ Len(stack) < Cap(k)
      BY <1>0, <1>4 DEF HasRoom, stack
    <2>1. /\ Append(stack, b) \in Seq(Block) /\ Len(Append(stack, b)) = Len(stack) + 1
          /\ \A i \in 1 .. Len(stack) : Append(stack, b)[i] = stack[i]
          /\ Append(stack, b)[Len(stack) + 1] = b
      BY <1>1, AppendProperties
    <2> DEFINE new == Append(stack, b)
    <2> HIDE DEF new
    <2>2. /\ cache' \in [Kinds -> [Thread -> Seq(Block)]] /\ cache'[k][t] = new
          /\ \A l \in Kinds, u \in Thread : l # k \/ u # t => cache'[l][u] = cache[l][u]
      BY <1>1, <2>0, <2>1 DEF Types, new
    <2> DEFINE freed == [mem[b] EXCEPT !.asked = 0]
    <2>3. freed \in Memory /\ freed.kind = k
      BY <1>1 DEF Memory, k
    <2> HIDE DEF freed
    <2>4. /\ mem' \in [Block -> Memory] /\ mem'[b] = freed
          /\ \A c \in Block \ {b} : mem'[c] = mem[c]
      BY <1>1, <2>0, <2>3 DEF Types, freed
    <2>5. \A l \in Kinds, u \in Thread : \A i \in 1 .. Len(cache'[l][u]) :
            \/ l = k /\ u = t /\ i = Len(stack) + 1 /\ cache'[l][u][i] = b
            \/ i \in 1 .. Len(cache[l][u]) /\ cache'[l][u][i] = cache[l][u][i]
      <3> SUFFICES ASSUME NEW l \in Kinds, NEW u \in Thread, NEW i \in 1 .. Len(cache'[l][u])
                   PROVE  \/ l = k /\ u = t /\ i = Len(stack) + 1 /\ cache'[l][u][i] = b
                          \/ i \in 1 .. Len(cache[l][u]) /\ cache'[l][u][i] = cache[l][u][i]
        OBVIOUS
      <3>1. CASE l = k /\ u = t
        <4>1. i \in 1 .. Len(stack) + 1
          BY <2>1, <2>2, <3>1 DEF new
        <4>2. i = Len(stack) + 1 \/ i \in 1 .. Len(stack)
          BY <1>1, <4>1
        <4> QED BY <2>1, <2>2, <3>1, <4>2 DEF new, stack
      <3>2. CASE l # k \/ u # t
        BY <2>2, <3>2
      <3> QED BY <3>1, <3>2
    <2>6. Types'
      <3>1. ASSUME NEW l \in Kinds, NEW u \in Thread PROVE Len(cache'[l][u]) <= Cap(l)
        <4>1. CASE l = k /\ u = t
          <5>1. Cap(k) \in Nat
            BY BufferAssumption DEF Cap
          <5> QED BY <1>1, <2>0, <2>1, <2>2, <4>1, <5>1 DEF new
        <4>2. CASE l # k \/ u # t
          BY <1>1, <2>2, <4>2 DEF Types
        <4> QED BY <4>1, <4>2
      <3> QED BY <1>0, <1>1, <2>2, <2>4, <3>1 DEF Types
    <2>7. OnePlace'
      <3> SUFFICES ASSUME NEW l \in Kinds, NEW m \in Kinds, NEW u \in Thread, NEW v \in Thread,
                          NEW i \in 1 .. Len(cache'[l][u]), NEW j \in 1 .. Len(cache'[m][v]),
                          cache'[l][u][i] = cache'[m][v][j]
                   PROVE  l = m /\ u = v /\ i = j
        BY DEF OnePlace
      <3>1. \/ l = k /\ u = t /\ i = Len(stack) + 1 /\ cache'[l][u][i] = b
            \/ i \in 1 .. Len(cache[l][u]) /\ cache'[l][u][i] = cache[l][u][i]
        BY <2>5
      <3>2. \/ m = k /\ v = t /\ j = Len(stack) + 1 /\ cache'[m][v][j] = b
            \/ j \in 1 .. Len(cache[m][v]) /\ cache'[m][v][j] = cache[m][v][j]
        BY <2>5
      <3>3. ASSUME i \in 1 .. Len(cache[l][u]), cache'[l][u][i] = cache[l][u][i],
                   j \in 1 .. Len(cache[m][v]), cache'[m][v][j] = cache[m][v][j]
            PROVE  l = m /\ u = v /\ i = j
        <4>1. cache[l][u][i] = cache[m][v][j]
          BY <3>3
        <4>2. OnePlace
          BY DEF BufferInv, OwnInv
        <4> QED BY <3>3, <4>1, <4>2 DEF OnePlace
      <3> QED BY <1>2, <3>1, <3>2, <3>3
    <2>8. StacksInv'
      <3> SUFFICES ASSUME NEW l \in Kinds, NEW u \in Thread, NEW i \in 1 .. Len(cache'[l][u])
                   PROVE  cache'[l][u][i] \notin held' /\ mem'[cache'[l][u][i]].kind = l
        BY DEF StacksInv
      <3>1. CASE l = k /\ u = t /\ i = Len(stack) + 1 /\ cache'[l][u][i] = b
        BY <1>0, <2>3, <2>4, <3>1
      <3>2. CASE i \in 1 .. Len(cache[l][u]) /\ cache'[l][u][i] = cache[l][u][i]
        BY <1>0, <1>2, <2>4, <3>2 DEF BufferInv, OwnInv, StacksInv
      <3> QED BY <2>5, <3>1, <3>2
    <2>9. HeldInv'
      BY <1>0, <1>1, <2>4 DEF BufferInv, OwnInv, HeldInv, Types
    <2>10. NoLeakInv'
      <3> SUFFICES ASSUME NEW c \in Block, mem'[c] # System, c \notin held'
                   PROVE  \E l \in Kinds, u \in alive : \E i \in 1 .. Len(cache'[l][u]) : cache'[l][u][i] = c
        BY <1>0 DEF NoLeakInv
      <3>1. CASE c = b
        <4>1. Len(stack) + 1 \in 1 .. Len(cache'[k][t]) /\ cache'[k][t][Len(stack) + 1] = b
          BY <1>1, <2>1, <2>2 DEF new
        <4> QED BY <1>0, <1>1, <3>1, <4>1
      <3>2. CASE c # b
        <4>1. mem[c] # System /\ c \notin held
          BY <1>0, <2>4, <3>2
        <4>2. PICK l \in Kinds, u \in alive : \E i \in 1 .. Len(cache[l][u]) : cache[l][u][i] = c
          BY <4>1 DEF BufferInv, OwnInv, NoLeakInv
        <4>3. PICK i \in 1 .. Len(cache[l][u]) : cache[l][u][i] = c
          BY <4>2
        <4>4. i \in 1 .. Len(cache'[l][u]) /\ cache'[l][u][i] = c
          <5>1. CASE l = k /\ u = t
            <6>1. i \in 1 .. Len(stack) /\ stack[i] = c
              BY <4>3, <5>1 DEF stack
            <6>2. i \in 1 .. Len(new) /\ new[i] = c
              BY <1>1, <2>1, <6>1 DEF new
            <6> QED BY <2>2, <5>1, <6>2
          <5>2. CASE l # k \/ u # t
            BY <1>1, <2>2, <4>3, <5>2 DEF Types
          <5> QED BY <5>1, <5>2
        <4> QED BY <4>4
      <3> QED BY <3>1, <3>2
    <2> QED BY <1>3, <2>6, <2>7, <2>8, <2>9, <2>10 DEF BufferInv, OwnInv
  <1>5. CASE ~HasRoom(k, t)
    <2>0. mem' = Delete({b}) /\ cache' = cache
      BY <1>0, <1>5
    <2>1. /\ mem' \in [Block -> Memory] /\ mem'[b] = System
          /\ \A c \in Block \ {b} : mem'[c] = mem[c]
      BY <1>1, <2>0, SystemFacts DEF Delete, Types
    <2>2. Types'
      BY <1>0, <1>1, <2>0, <2>1 DEF Types
    <2>3. OnePlace'
      BY <2>0 DEF BufferInv, OwnInv, OnePlace
    <2>4. StacksInv'
      <3> SUFFICES ASSUME NEW l \in Kinds, NEW u \in Thread, NEW i \in 1 .. Len(cache'[l][u])
                   PROVE  cache'[l][u][i] \notin held' /\ mem'[cache'[l][u][i]].kind = l
        BY DEF StacksInv
      <3>1. i \in 1 .. Len(cache[l][u]) /\ cache'[l][u][i] = cache[l][u][i]
        BY <2>0
      <3>2. cache[l][u][i] # b /\ cache[l][u][i] \in Block
        BY <1>2, <3>1
      <3>3. cache[l][u][i] \notin held /\ mem[cache[l][u][i]].kind = l
        BY <3>1 DEF BufferInv, OwnInv, StacksInv
      <3> QED BY <1>0, <2>1, <3>1, <3>2, <3>3
    <2>5. HeldInv'
      BY <1>0, <1>1, <2>1 DEF BufferInv, OwnInv, HeldInv, Types
    <2>6. NoLeakInv'
      <3> SUFFICES ASSUME NEW c \in Block, mem'[c] # System, c \notin held'
                   PROVE  \E l \in Kinds, u \in alive : \E i \in 1 .. Len(cache[l][u]) : cache[l][u][i] = c
        BY <1>0, <2>0 DEF NoLeakInv
      <3>1. mem[c] # System /\ c \notin held
        BY <1>0, <2>1
      <3> QED BY <3>1 DEF BufferInv, OwnInv, NoLeakInv
    <2> QED BY <1>3, <2>2, <2>3, <2>4, <2>5, <2>6 DEF BufferInv, OwnInv
  <1> QED BY <1>4, <1>5

-----------------------------------------------------------------------------
(* The invariant, and what it gives *)

\* Nothing is cached and nobody has called before the first step.
LEMMA InitHolds ==
  ASSUME Init
  PROVE  BufferInv
  <1>0. 0 \in Sizes /\ Len(<<>>) = 0 /\ <<>> \in Seq(Block)
    BY EmptySeq, BufferAssumption DEF Sizes
  <1>1. \A k \in Kinds, t \in Thread : cache[k][t] = <<>>
    BY DEF Init
  <1>2. Types
    <2>1. mem \in [Block -> Memory]
      BY SystemFacts DEF Init
    <2>2. cache \in [Kinds -> [Thread -> Seq(Block)]]
      BY <1>0 DEF Init
    <2>3. \A k \in Kinds, t \in Thread : Len(cache[k][t]) <= Cap(k)
      BY <1>0, <1>1, BufferAssumption DEF Cap
    <2>4. pc \in [Thread -> {"idle", "size", "load", "cas", "new"}]
      BY DEF Init
    <2>5. want \in [Thread -> Sizes] /\ allocSize \in [Thread -> Sizes] /\ cur \in [Thread -> Sizes]
      BY <1>0 DEF Init
    <2>6. wantKind \in [Thread -> Kinds \cup {"none"}]
      BY DEF Init
    <2> QED BY <1>0, <2>1, <2>2, <2>3, <2>4, <2>5, <2>6 DEF Init, Types, Thread
  <1>3. OnePlace /\ StacksInv
    BY <1>0, <1>1 DEF OnePlace, StacksInv
  <1>4. HeldInv /\ NoLeakInv
    BY DEF Init, HeldInv, NoLeakInv
  <1>5. \A t \in Thread : CallInv(t)
    BY DEF Init, CallInv
  <1> QED BY <1>2, <1>3, <1>4, <1>5 DEF BufferInv, OwnInv

\* Nothing of the state is touched.
LEMMA StutterPreserves ==
  ASSUME BufferInv, UNCHANGED vars
  PROVE  BufferInv'
  <1> USE DEF vars, blockVars, callVars
  <1>1. Types'
    BY DEF BufferInv, Types
  <1>2. OwnInv'
    BY OwnersStay DEF BufferInv
  <1>3. \A u \in Thread : CallInv(u)'
    BY DEF BufferInv, CallInv
  <1> QED BY <1>1, <1>2, <1>3 DEF BufferInv

\* Every step of every thread, and of the main thread alone.
LEMMA NextPreserves ==
  ASSUME BufferInv, [Next]_vars
  PROVE  BufferInv'
  <1>1. ASSUME NEW t \in Thread, ThreadStep(t) PROVE BufferInv'
    <2>1. CASE StartThread(t)
      BY <2>1, StartThreadPreserves
    <2>2. CASE ExitThread(t)
      BY <2>2, ExitThreadPreserves
    <2>3. ASSUME NEW k \in Kinds, NEW n \in Request, AllocHit(t, k, n) PROVE BufferInv'
      BY <2>3, AllocHitPreserves
    <2>4. ASSUME NEW k \in Kinds, NEW n \in Request, AllocMiss(t, k, n) PROVE BufferInv'
      BY <2>4, AllocMissPreserves
    <2>5. CASE ChooseSize(t)
      BY <2>5, ChooseSizePreserves
    <2>6. CASE LoadTracked(t)
      BY <2>6, LoadTrackedPreserves
    <2>7. CASE CompareExchange(t)
      BY <2>7, CompareExchangePreserves
    <2>8. CASE NewFromSystem(t)
      BY <2>8, NewFromSystemPreserves
    <2>9. ASSUME NEW b \in Block, Free(t, b) PROVE BufferInv'
      BY <2>9, FreePreserves
    <2> QED BY <1>1, <2>1, <2>2, <2>3, <2>4, <2>5, <2>6, <2>7, <2>8, <2>9 DEF ThreadStep
  <1>2. CASE Clear
    BY <1>2, ClearPreserves
  <1>3. ASSUME NEW g \in Geometry, Initialize(g[1], g[2]) PROVE BufferInv'
    BY <1>3, InitializePreserves
  <1>4. CASE UNCHANGED vars
    BY <1>4, StutterPreserves
  <1> QED BY <1>1, <1>2, <1>3, <1>4 DEF Next

\* The preferred size falls only when the main thread is alone.
LEMMA NextNeverLowers ==
  ASSUME BufferInv, [Next]_vars, Worker \cap alive # {}
  PROVE  poolSize' >= poolSize
  <1>0. poolSize \in Int
    BY BufferAssumption DEF BufferInv, Types, Sizes
  <1>1. ~MainAlone
    BY BufferAssumption DEF MainAlone
  <1>2. ASSUME NEW t \in Thread, ThreadStep(t) PROVE poolSize' >= poolSize
    <2>1. CASE CompareExchange(t)
      BY <2>1, CompareExchangeRaises
    <2>2. CASE ~CompareExchange(t)
      <3>1. poolSize' = poolSize
        BY <1>2, <2>2 DEF ThreadStep, StartThread, ExitThread, AllocHit, AllocMiss, ChooseSize,
                          LoadTracked, NewFromSystem, Free
      <3> QED BY <1>0, <3>1
    <2> QED BY <2>1, <2>2
  <1>3. CASE UNCHANGED vars
    BY <1>0, <1>3 DEF vars
  <1> QED BY <1>1, <1>2, <1>3 DEF Next, Clear, Initialize

\* Every reachable state of alloc(), free(), clear(), initialize() and of the
\* thread_local caches satisfies the invariant.
THEOREM BufferInvariant == Spec => []BufferInv
  <1>1. Init => BufferInv
    BY InitHolds
  <1>2. BufferInv /\ [Next]_vars => BufferInv'
    BY NextPreserves
  <1> QED BY <1>1, <1>2, PTL DEF Spec

\* The manager's variables have their types; no stack outgrows its cap and a
\* stack holds buffers of its own kind.
THEOREM BuffersHaveTheirTypes == Spec => []TypeOK
  <1>1. BufferInv => TypeOK
    BY InvMeansTypeOK
  <1> QED BY <1>1, BufferInvariant, PTL

\* alloc() never hands the same memory to two owners, and nothing cached has
\* been deleted, however many threads free each other's buffers.
THEOREM BuffersHaveOneOwner == Spec => []OneOwner
  <1>1. BufferInv => OneOwner
    BY InvMeansOneOwner
  <1> QED BY <1>1, BufferInvariant, PTL

\* Every allocation is with the client or in the cache of a running thread:
\* ~tls_buffer_cache leaves nothing behind.
THEOREM NoBufferLeaks == Spec => []NothingLeaks
  <1>1. BufferInv => NothingLeaks
    BY InvMeansNothingLeaks
  <1> QED BY <1>1, BufferInvariant, PTL

\* What alloc() returns holds at least the bytes its caller asked for: a cached
\* buffer, and one of alloc_size bytes from the system, also when
\* get_memory_buffer_size has wrapped around.
THEOREM BuffersAreLargeEnough == Spec => []LargeEnough
  <1>1. BufferInv => LargeEnough
    BY DEF BufferInv, OwnInv, HeldInv, LargeEnough
  <1> QED BY <1>1, BufferInvariant, PTL

\* atomic_raise_size returns only when the preferred size has reached the
\* request, whichever threads raced and however often the exchange failed.
THEOREM RaisesTakeEffect == Spec => []RaiseTookEffect
  <1>1. BufferInv => RaiseTookEffect
    BY DEF BufferInv, CallInv, RaiseTookEffect
  <1> QED BY <1>1, BufferInvariant, PTL

\* No step lowers the preferred size while a worker exists: a stale `cur` never
\* overwrites a larger value.
THEOREM SizeNeverFalls == Spec => NeverLowered
  <1>1. BufferInv /\ [Next]_vars => [Worker \cap alive # {} => poolSize' >= poolSize]_vars
    BY NextNeverLowers
  <1> QED BY <1>1, BufferInvariant, PTL DEF Spec, NeverLowered

=============================================================================
