--------------------------- MODULE BufferManager ---------------------------
(***************************************************************************)
(* The global buffer manager (src/redcli/rle4k_buffer_mgr.h and .cpp): one *)
(* atomic preferred size shared by all threads, and per thread a LIFO      *)
(* cache of freed buffers for each of the two kinds.  Everything but the   *)
(* preferred size is touched without synchronisation, so a buffer must     *)
(* never have two owners.                                                  *)
(*                                                                         *)
(* The client is whoever calls alloc and free: it frees a buffer once, on  *)
(* any thread.  As the comment in clear() has it, initialize() and clear() *)
(* run on the main thread while no worker exists.  The system allocator is *)
(* external: it returns memory nobody uses, or fails.                      *)
(***************************************************************************)
EXTENDS Integers, SequencesExt

CONSTANTS
  Main, Worker,   \* the threads
  Block,          \* addresses the system allocator hands out
  Request,        \* sizes asked for
  Geometry,       \* pairs <<strip_width, block_height>> of initialize()
  CapNormal,      \* kMaxNormal
  CapBig,         \* kMaxBig
  UintRange       \* 2^32: where uint32_t wraps

ASSUME BufferAssumption ==
  /\ Main \notin Worker
  /\ Request \subseteq Nat \ {0}
  /\ Geometry \subseteq Nat \X Nat
  /\ CapNormal \in Nat /\ CapBig \in Nat
  /\ UintRange \in Nat \ {0}
  /\ \A n \in Request : n < UintRange

Thread == {Main} \cup Worker
Kinds  == {"normal", "big"}
Cap(kind) == IF kind = "normal" THEN CapNormal ELSE CapBig

VARIABLES
  mem,          \* per block: buffer_size, big_buffer, and as history the
                \* request the client holds it for
  held,         \* blocks in the hands of the client
  cache,        \* cache[k][t]: the stack of thread t for kind k
  poolSize,     \* current_buffer_size
  initialized,
  alive,        \* the threads there are
  pc,           \* "idle", or where in alloc() the thread is
  want,         \* the size and the kind it was asked for
  wantKind,
  allocSize,    \* alloc_size: what it will ask of the system
  cur           \* the local `cur` of atomic_raise_size

blockVars == <<mem, held, cache>>
callVars  == <<pc, want, wantKind, allocSize, cur>>
vars == <<blockVars, poolSize, initialized, alive, callVars>>

\* A block the system owns.
System == [size |-> 0, kind |-> "none", asked |-> 0]
Sizes  == 0 .. UintRange - 1
Memory == [size : Sizes, kind : Kinds \cup {"none"}, asked : Sizes]

Cached(t) == UNION {ToSet(cache[k][t]) : k \in Kinds}

\* delete_to_system
Delete(blocks) == [b \in Block |-> IF b \in blocks THEN System ELSE mem[b]]

\* get_memory_buffer_size, in uint32_t arithmetic.
MemoryBufferSize(width, height) ==
  LET U(n) == n % UintRange
  IN  U((U((U(width + 511) \div 512) * 512) \div 8) * height)

-----------------------------------------------------------------------------
Init ==
  /\ mem = [b \in Block |-> System]
  /\ held = {}
  /\ cache = [k \in Kinds |-> [t \in Thread |-> <<>>]]
  /\ poolSize = 0
  /\ initialized = FALSE
  /\ alive = {Main}
  /\ pc = [t \in Thread |-> "idle"]
  /\ want = [t \in Thread |-> 0]
  /\ wantKind = [t \in Thread |-> "none"]
  /\ allocSize = [t \in Thread |-> 0]
  /\ cur = [t \in Thread |-> 0]

StartThread(t) ==
  /\ t \notin alive
  /\ alive' = alive \cup {t}
  /\ UNCHANGED <<blockVars, poolSize, initialized, callVars>>

\* Faulty: the cache has no destructor.
DestroyCache_Leaks(t) == mem

\* ~tls_buffer_cache: both stacks go back to the system.
DestroyCache(t) == Delete(Cached(t))

ExitThread(t) ==
  /\ t \in alive \ {Main} /\ pc[t] = "idle"
  /\ alive' = alive \ {t}
  /\ mem' = DestroyCache(t)
  /\ cache' = [k \in Kinds |-> [cache[k] EXCEPT ![t] = <<>>]]
  /\ UNCHANGED <<held, poolSize, initialized, callVars>>

-----------------------------------------------------------------------------
\* pop_reusable: from the top of the stack down, what is too small is deleted
\* and the first buffer that fits is taken.
Fitting(stack, n) == {i \in DOMAIN stack : mem[stack[i]].size >= n}

\* Faulty: pop_back is missing on the way out.
Reuse_Peek(t, k, n) ==
  LET stack == cache[k][t]
  IN  \E top \in Fitting(stack, n) :
        /\ \A i \in Fitting(stack, n) : i <= top
        /\ cache' = [cache EXCEPT ![k][t] = SubSeq(stack, 1, top)]
        /\ mem'   = [Delete({stack[i] : i \in top + 1 .. Len(stack)}) EXCEPT ![stack[top]].asked = n]
        /\ held'  = held \cup {stack[top]}

\* Faulty: the top of the stack is taken whatever its size.
Reuse_AnySize(t, k, n) ==
  LET stack == cache[k][t]
  IN  /\ stack # <<>>
      /\ cache' = [cache EXCEPT ![k][t] = Front(stack)]
      /\ mem'   = [mem EXCEPT ![Last(stack)].asked = n]
      /\ held'  = held \cup {Last(stack)}

Reuse(t, k, n) ==
  LET stack == cache[k][t]
  IN  \E top \in Fitting(stack, n) :
        /\ \A i \in Fitting(stack, n) : i <= top
        /\ cache' = [cache EXCEPT ![k][t] = SubSeq(stack, 1, top - 1)]
        /\ mem'   = [Delete({stack[i] : i \in top + 1 .. Len(stack)}) EXCEPT ![stack[top]].asked = n]
        /\ held'  = held \cup {stack[top]}

\* alloc(n, big), a hit: the thread's own cache has a buffer that fits.
AllocHit(t, k, n) ==
  /\ t \in alive /\ pc[t] = "idle"
  /\ Reuse(t, k, n)
  /\ UNCHANGED <<poolSize, initialized, alive, callVars>>

\* A miss: the whole stack was too small and is gone.  A normal buffer goes on
\* to the preferred size, a big one straight to the system.
AllocMiss(t, k, n) ==
  /\ t \in alive /\ pc[t] = "idle"
  /\ Fitting(cache[k][t], n) = {}
  /\ mem' = Delete(ToSet(cache[k][t]))
  /\ cache' = [cache EXCEPT ![k][t] = <<>>]
  /\ pc' = [pc EXCEPT ![t] = IF k = "normal" THEN "size" ELSE "new"]
  /\ want' = [want EXCEPT ![t] = n]
  /\ wantKind' = [wantKind EXCEPT ![t] = k]
  /\ allocSize' = [allocSize EXCEPT ![t] = n]
  /\ UNCHANGED <<held, poolSize, initialized, alive, cur>>

\* Faulty: an initialised manager asks for its preferred size, whatever the request.
ChooseSize_Preferred(t) ==
  /\ pc[t] = "size"
  /\ allocSize' = [allocSize EXCEPT ![t] = IF initialized THEN poolSize ELSE want[t]]
  /\ pc' = [pc EXCEPT ![t] = IF want[t] > poolSize THEN "load" ELSE "new"]
  /\ UNCHANGED <<blockVars, poolSize, initialized, alive, want, wantKind, cur>>

\* normal_alloc loads the preferred size once: alloc_size is the larger of it and
\* the request, and raises it only when it is larger.
ChooseSize(t) ==
  /\ pc[t] = "size"
  /\ allocSize' = [allocSize EXCEPT ![t] = IF poolSize > want[t] THEN poolSize ELSE want[t]]
  /\ pc' = [pc EXCEPT ![t] = IF want[t] > poolSize THEN "load" ELSE "new"]
  /\ UNCHANGED <<blockVars, poolSize, initialized, alive, want, wantKind, cur>>

\* atomic_raise_size: the first load, and the test of the while loop.
LoadTracked(t) ==
  /\ pc[t] = "load"
  /\ cur' = [cur EXCEPT ![t] = poolSize]
  /\ pc' = [pc EXCEPT ![t] = IF allocSize[t] > poolSize THEN "cas" ELSE "new"]
  /\ UNCHANGED <<blockVars, poolSize, initialized, alive, want, wantKind, allocSize>>

\* Faulty: a plain store in place of the compare-exchange.
CompareExchange_Store(t) ==
  /\ pc[t] = "cas"
  /\ poolSize' = allocSize[t]
  /\ pc' = [pc EXCEPT ![t] = "new"]
  /\ UNCHANGED <<blockVars, initialized, alive, want, wantKind, allocSize, cur>>

\* Faulty: one attempt, no loop.
CompareExchange_Once(t) ==
  /\ pc[t] = "cas"
  /\ poolSize' \in {poolSize} \cup (IF poolSize = cur[t] THEN {allocSize[t]} ELSE {})
  /\ pc' = [pc EXCEPT ![t] = "new"]
  /\ UNCHANGED <<blockVars, initialized, alive, want, wantKind, allocSize, cur>>

\* compare_exchange_weak: it stores when the value is still `cur`, or fails
\* (for another value, or spuriously), reloads `cur` and the loop tests again.
CompareExchange(t) ==
  /\ pc[t] = "cas"
  /\ \/ /\ poolSize = cur[t]
        /\ poolSize' = allocSize[t]
        /\ pc' = [pc EXCEPT ![t] = "new"]
        /\ cur' = cur
     \/ /\ cur' = [cur EXCEPT ![t] = poolSize]
        /\ pc' = [pc EXCEPT ![t] = IF allocSize[t] > poolSize THEN "cas" ELSE "new"]
        /\ poolSize' = poolSize
  /\ UNCHANGED <<blockVars, initialized, alive, want, wantKind, allocSize>>

\* new_from_system: a block of the system's, or nullptr.  alloc() returns.
NewFromSystem(t) ==
  /\ pc[t] = "new"
  /\ \/ \E b \in Block :
          /\ mem[b] = System
          /\ mem'  = [mem EXCEPT ![b] = [size |-> allocSize[t], kind |-> wantKind[t],
                                        asked |-> want[t]]]
          /\ held' = held \cup {b}
     \/ UNCHANGED <<mem, held>>
  /\ pc' = [pc EXCEPT ![t] = "idle"]
  /\ want' = [want EXCEPT ![t] = 0]
  /\ wantKind' = [wantKind EXCEPT ![t] = "none"]
  /\ allocSize' = [allocSize EXCEPT ![t] = 0]
  /\ cur' = [cur EXCEPT ![t] = 0]
  /\ UNCHANGED <<cache, poolSize, initialized, alive>>

\* Faulty: the cap is compared with <=.
HasRoom_OneTooMany(k, t) == Len(cache[k][t]) <= Cap(k)

\* push_or_delete: stack.size() < cap
HasRoom(k, t) == Len(cache[k][t]) < Cap(k)

\* free(buffer): to the stack of the thread that calls it, whoever allocated
\* the buffer, or back to the system when that stack is full.
Free(t, b) ==
  /\ t \in alive /\ pc[t] = "idle" /\ b \in held
  /\ held' = held \ {b}
  /\ LET k == mem[b].kind
     IN  IF HasRoom(k, t)
         THEN /\ cache' = [cache EXCEPT ![k][t] = Append(@, b)]
              /\ mem' = [mem EXCEPT ![b].asked = 0]
         ELSE mem' = Delete({b}) /\ cache' = cache
  /\ UNCHANGED <<poolSize, initialized, alive, callVars>>

\* No worker exists and the main thread is not inside alloc().
MainAlone == alive = {Main} /\ pc[Main] = "idle"

\* clear(): the caches stay, the preferred size is forgotten.
Clear ==
  /\ MainAlone
  /\ poolSize' = 0
  /\ initialized' = FALSE
  /\ UNCHANGED <<blockVars, alive, callVars>>

\* initialize(): nothing happens when the manager is initialised and its
\* preferred size is not below the new one.
Initialize(width, height) ==
  /\ MainAlone
  /\ ~(initialized /\ MemoryBufferSize(width, height) <= poolSize)
  /\ poolSize' = MemoryBufferSize(width, height)
  /\ initialized' = TRUE
  /\ UNCHANGED <<blockVars, alive, callVars>>

-----------------------------------------------------------------------------
ThreadStep(t) ==
  \/ StartThread(t) \/ ExitThread(t)
  \/ \E k \in Kinds, n \in Request : AllocHit(t, k, n) \/ AllocMiss(t, k, n)
  \/ ChooseSize(t) \/ LoadTracked(t) \/ CompareExchange(t) \/ NewFromSystem(t)
  \/ \E b \in Block : Free(t, b)

Next ==
  \/ \E t \in Thread : ThreadStep(t)
  \/ Clear
  \/ \E g \in Geometry : Initialize(g[1], g[2])

Spec == Init /\ [][Next]_vars

-----------------------------------------------------------------------------
\* Every variable has its type; a stack never outgrows its cap and holds
\* buffers of its kind only.
TypeOK ==
  /\ mem \in [Block -> Memory]
  /\ held \subseteq Block
  /\ cache \in [Kinds -> [Thread -> Seq(Block)]]
  /\ \A k \in Kinds, t \in Thread :
       /\ Len(cache[k][t]) <= Cap(k)
       /\ \A b \in ToSet(cache[k][t]) : mem[b].kind = k
  /\ poolSize \in Sizes
  /\ initialized \in BOOLEAN
  /\ {Main} \subseteq alive /\ alive \subseteq Thread
  /\ pc \in [Thread -> {"idle", "size", "load", "cas", "new"}]
  /\ want \in [Thread -> Sizes]
  /\ wantKind \in [Thread -> Kinds \cup {"none"}]
  /\ allocSize \in [Thread -> Sizes]
  /\ cur \in [Thread -> Sizes]

\* A buffer is with the client, or once in one stack of one thread, or with
\* the system: no two threads are handed the same memory and no cached buffer
\* has been deleted.
OneOwner ==
  /\ \A b \in held : mem[b] # System
  /\ \A t \in Thread : Cached(t) \cap held = {}
  /\ \A t, u \in Thread : t # u => Cached(t) \cap Cached(u) = {}
  /\ \A t \in Thread, k \in Kinds :
       IsInjective(cache[k][t]) /\ \A b \in ToSet(cache[k][t]) : mem[b] # System

\* Memory the system gave out is with the client or in the cache of a thread
\* that still runs: a finished worker leaves nothing behind, whoever allocated
\* and whoever freed.
NothingLeaks ==
  \A b \in Block : mem[b] # System => b \in held \/ \E t \in alive : b \in Cached(t)

\* The client always gets at least what it asked for: from the cache, and from the
\* system, which is asked for alloc_size and not for the request, also when
\* initialize() has wrapped around to a small preferred size or has run since.
LargeEnough == \A b \in held : mem[b].size >= mem[b].asked

\* When a normal buffer is about to be requested from the system, the preferred
\* size has reached it, whichever threads raced to raise it.
RaiseTookEffect ==
  \A t \in Thread : pc[t] = "new" /\ wantKind[t] = "normal" => poolSize >= allocSize[t]

\* While workers exist the preferred size never falls.
NeverLowered == [][Worker \cap alive # {} => poolSize' >= poolSize]_vars

=============================================================================
