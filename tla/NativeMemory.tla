---------------------------- MODULE NativeMemory ----------------------------
(***************************************************************************)
(* The memory native libraries run on: NativeMemoryPool with the allocator *)
(* of adapters/internal/arena_memory.hpp over a BoundedArena, and the      *)
(* adapter sessions that use it (RegexPattern, CodecStream, Http3Session,  *)
(* QuicSession).  A session pins the arena for its life, keeps its state   *)
(* and the library's allocations in blocks of the pool, and gives them     *)
(* back when it is released, the pin last.                                 *)
(*                                                                         *)
(* A block is its header and `capacity` bytes after it; the header holds   *)
(* the free list's link, so a free list that survives a reset would read   *)
(* memory that was handed out again.                                       *)
(***************************************************************************)
EXTENDS BoundedArena, Sequences, Functions

CONSTANTS
    HeaderSize,         \* sizeof(ArenaAllocation)
    NativeAlignment,    \* alignof(std::max_align_t)
    NativeSizes,        \* sizes native libraries ask for
    MaxBlocks,          \* blocks a session holds at a time
    Sessions            \* sessions, each with an ArenaPin of its own

ASSUME NativeAssumption ==
    /\ HeaderSize \in Nat \ {0}
    /\ NativeAlignment \in Nat \ {0}
    /\ NativeSizes \subseteq Nat
    /\ MaxBlocks \in Nat
    /\ Sessions \subseteq Holders

VARIABLES
    poolGeneration,     \* NativeMemoryPool::generation_
    freeList,           \* NativeMemoryPool::free_list_, first block first
    sessionGeneration,  \* generation_ of each session, 0 when it is inactive
    blocks              \* the blocks each session holds

poolVars == <<poolGeneration, freeList>>
sessionVars == <<sessionGeneration, blocks>>
nativeVars == <<vars, poolVars, sessionVars>>

Blocks == [gen : 1 .. MaxGeneration, start : 0 .. MaximumCapacity,
           capacity : NativeSizes \cup {1}]

Active(s) == sessionGeneration[s] # 0

NativeTypeOK ==
    /\ TypeOK
    /\ poolGeneration \in 1 .. MaxGeneration
    /\ freeList \in Seq(Blocks)
    /\ sessionGeneration \in [Sessions -> 0 .. MaxGeneration]
    /\ blocks \in [Sessions -> SUBSET Blocks]

NativeInit ==
    /\ Init
    /\ poolGeneration = 1
    /\ freeList = <<>>
    /\ sessionGeneration = [s \in Sessions |-> 0]
    /\ blocks = [s \in Sessions |-> {}]
-----------------------------------------------------------------------------
(* The allocator.                                                          *)

\* Variant that keeps the free list of an earlier generation.
KeepFreeList == freeList

\* The free list after synchronize(): empty once the arena was reset.
SyncFreeList == IF poolGeneration = generation THEN freeList ELSE <<>>

Synchronize == poolGeneration' = generation

BlockSize(size) == IF size = 0 THEN 1 ELSE size

Fits(size) == {i \in DOMAIN SyncFreeList : SyncFreeList[i].capacity >= BlockSize(size)}

FirstFit(size) == CHOOSE i \in Fits(size) : \A j \in Fits(size) : i <= j

\* The block arena_malloc returns when it succeeds.
Malloced(size) ==
    IF Fits(size) # {}
    THEN SyncFreeList[FirstFit(size)]
    ELSE [gen |-> generation, start |-> AlignedOffset(NativeAlignment),
          capacity |-> BlockSize(size)]

\* The list with its i-th block unlinked.
Without(list, i) == SubSeq(list, 1, i - 1) \o SubSeq(list, i + 1, Len(list))

\* The free list arena_malloc leaves behind.
Unlinked(size) ==
    IF Fits(size) # {} THEN Without(SyncFreeList, FirstFit(size)) ELSE SyncFreeList

\* arena_malloc succeeds: first fit from the free list, else from the arena.
Malloc(size) ==
    /\ Synchronize
    /\ IF Fits(size) # {}
       THEN UNCHANGED arenaVars
       ELSE Allocate(HeaderSize + BlockSize(size), NativeAlignment)

\* arena_free pushes in front; `order` is the order of the calls, last first.
FreedInto(order) == order \o SyncFreeList

-----------------------------------------------------------------------------
(* Sessions.                                                               *)

\* A session is created: pin, then its state from the pool.
Create(s, size) ==
    /\ Running
    /\ ~Active(s)
    /\ pins < MaxPins
    /\ Malloc(size)
    /\ pins' = pins + 1
    /\ holders' = holders \cup {s}
    /\ sessionGeneration' = [sessionGeneration EXCEPT ![s] = generation]
    /\ blocks' = [blocks EXCEPT ![s] = {Malloced(size)}]
    /\ freeList' = Unlinked(size)
    /\ UNCHANGED <<others, views, boundaries, status>>

\* Variant that returns the error without giving the pin back.
CreateFailsPinned(s, size) ==
    /\ Running
    /\ ~Active(s)
    /\ pins < MaxPins
    /\ Malloc(size)
    /\ freeList' = <<Malloced(size)>> \o Unlinked(size)
    /\ pins' = pins + 1
    /\ UNCHANGED <<others, holders, views, boundaries, status, sessionVars>>

\* The native constructor fails after the state was allocated: the state goes
\* back to the pool and the local pin is destroyed.
CreateFails(s, size) ==
    /\ Running
    /\ ~Active(s)
    /\ pins < MaxPins
    /\ Malloc(size)
    /\ freeList' = <<Malloced(size)>> \o Unlinked(size)
    /\ UNCHANGED <<others, pinVars, views, boundaries, status, sessionVars>>

\* The state could not be allocated: only the pool was synchronized.
CreateExhausted ==
    /\ Running
    /\ Synchronize
    /\ freeList' = SyncFreeList
    /\ UNCHANGED <<vars, sessionVars>>

\* A native library allocates, or frees one of its blocks, during a call.
NativeMalloc(s, size) ==
    /\ Running
    /\ sessionGeneration[s] = generation
    /\ Cardinality(blocks[s]) < MaxBlocks
    /\ Malloc(size)
    /\ blocks' = [blocks EXCEPT ![s] = @ \cup {Malloced(size)}]
    /\ freeList' = Unlinked(size)
    /\ UNCHANGED <<others, pinVars, views, boundaries, status, sessionGeneration>>

NativeFree(s, b) ==
    /\ Running
    /\ sessionGeneration[s] = generation
    /\ Cardinality(blocks[s]) > 1
    /\ Synchronize
    /\ blocks' = [blocks EXCEPT ![s] = @ \ {b}]
    /\ freeList' = FreedInto(<<b>>)
    /\ UNCHANGED <<vars, sessionGeneration>>

\* arena_realloc beyond the block's capacity: allocate, copy, free the old one.
NativeRealloc(s, b, size) ==
    /\ Running
    /\ sessionGeneration[s] = generation
    /\ size > b.capacity
    /\ Malloc(size)
    /\ blocks' = [blocks EXCEPT ![s] = (@ \ {b}) \cup {Malloced(size)}]
    /\ freeList' = <<b>> \o Unlinked(size)
    /\ UNCHANGED <<others, pinVars, views, boundaries, status, sessionGeneration>>

\* Variant that drops the session without freeing its blocks.
ReleaseForgets(s, order) == /\ poolGeneration' = poolGeneration
                            /\ freeList' = freeList

\* The orders in which the blocks of s may be freed.
FreeOrders(s) == Bijection(1 .. Cardinality(blocks[s]), blocks[s])

\* What release() does to the pool: the native state and then the session's
\* own are freed, unless the arena was reset under them.
ReleaseBlocks(s, order) ==
    IF Active(s) /\ sessionGeneration[s] = generation
    THEN Synchronize /\ freeList' = FreedInto(order)
    ELSE UNCHANGED poolVars

Release(s, order) ==
    /\ Running
    /\ Active(s)
    /\ ReleaseBlocks(s, order)
    /\ pins' = PinsLess(s)
    /\ holders' = holders \ {s}
    /\ sessionGeneration' = [sessionGeneration EXCEPT ![s] = 0]
    /\ blocks' = [blocks EXCEPT ![s] = {}]
    /\ UNCHANGED <<arenaVars, others, views, boundaries, status>>

\* Move assignment: dst is released, then takes everything src has.
MoveSession(dst, src, order) ==
    /\ Running
    /\ dst # src
    /\ Active(src)
    /\ ReleaseBlocks(dst, order)
    /\ pins' = PinsLess(dst)
    /\ holders' = (holders \ {src}) \cup {dst}
    /\ sessionGeneration' =
          [sessionGeneration EXCEPT ![dst] = sessionGeneration[src], ![src] = 0]
    /\ blocks' = [blocks EXCEPT ![dst] = blocks[src], ![src] = {}]
    /\ UNCHANGED <<arenaVars, others, views, boundaries, status>>

\* What other code does with the same arena and budget.
ArenaStep == ArenaNext(Holders \ Sessions) /\ UNCHANGED <<poolVars, sessionVars>>

NativeNext ==
    \/ \E s \in Sessions, size \in NativeSizes :
          Create(s, size) \/ CreateFails(s, size) \/ NativeMalloc(s, size)
    \/ CreateExhausted
    \/ \E s \in Sessions : \E b \in blocks[s] :
          NativeFree(s, b) \/ \E size \in NativeSizes : NativeRealloc(s, b, size)
    \/ \E s \in Sessions : \E order \in FreeOrders(s) :
          Release(s, order) \/ \E src \in Sessions : MoveSession(s, src, order)
    \/ ArenaStep

NativeSpec == NativeInit /\ [][NativeNext]_nativeVars
-----------------------------------------------------------------------------
(* Properties.                                                             *)

Extent(b) == b.start .. (b.start + HeaderSize + b.capacity - 1)

SessionBlocks == UNION {blocks[s] : s \in Sessions}

\* A session never outlives its memory: the arena is not reset while the
\* session exists, so every require_valid check on the generation passes and
\* release() always reaches the library's own cleanup.
SessionMemoryIntact ==
    \A s \in Sessions : Active(s) =>
        /\ s \in holders
        /\ sessionGeneration[s] = generation
        /\ \A b \in blocks[s] : b.gen = generation

\* No pin is leaked or given back twice, so the arena can be reset and destroyed
\* as soon as nobody uses it: live_pins_ counts exactly the ArenaPin objects that
\* hold one, and of the sessions only active ones do, after failed creations,
\* releases and moves over pins and sessions that are live.
NoPinLeaked ==
    /\ pins = Cardinality(holders)
    /\ \A s \in Sessions \cap holders : Active(s)

\* Memory is never handed out twice: a block of one session, a block of
\* another, a block on the free list the next call will walk and the views that
\* ArenaView::bytes still hands out share no byte, headers included, and lie in
\* the used part of the arena; a view of an old generation is refused before its
\* bytes are allocated again.
NoAliasing ==
    LET free == {SyncFreeList[i] : i \in DOMAIN SyncFreeList}
        readable == {v \in views : Readable(v)}
    IN
    /\ \A s, t \in Sessions : s # t => blocks[s] \cap blocks[t] = {}
    /\ Cardinality(free) = Len(SyncFreeList)
    /\ SessionBlocks \cap free = {}
    /\ \A b \in SessionBlocks \cup free :
          /\ Extent(b) \subseteq 0 .. (offset - 1)
          /\ \A c \in (SessionBlocks \cup free) \ {b} : Extent(b) \cap Extent(c) = {}
          /\ \A v \in readable : Extent(b) \cap Span(v) = {}
    /\ \A v \in readable :
          /\ Span(v) \subseteq 0 .. (offset - 1)
          /\ \A w \in readable \ {v} : Span(v) \cap Span(w) = {}

\* No byte the arena gave out since its last reset is lost: each is in a view,
\* in a session's block, on the free list, or padding before a start aligned as
\* its caller asked, also after failed creations, reallocations and moves over
\* live sessions; and the budget is charged for exactly the capacity these bytes
\* come from.
NoBlockLost ==
    /\ CapacityCharged
    /\ LET free == {SyncFreeList[i] : i \in DOMAIN SyncFreeList}
           current == {v \in views : Readable(v)}
           covered == (UNION {Extent(b) : b \in SessionBlocks \cup free})
                          \cup (UNION {Span(v) : v \in current})
           starts == {b.start : b \in SessionBlocks \cup free} \cup {v.start : v \in current}
       IN  \A byte \in 0 .. (offset - 1) :
               byte \notin covered =>
                   \E start \in starts, alignment \in Alignments \cup {NativeAlignment} :
                       /\ start % alignment = 0
                       /\ byte < start /\ start < byte + alignment

=============================================================================
