---------------------------- MODULE BoundedBuffer ----------------------------
(***************************************************************************)
(* core/bounded_buffer.hpp: BoundedBuffer, a byte queue in one block of    *)
(* memory that is charged to a budget, compacted, and replaced by a larger *)
(* block when it has to grow.  The block source is external.               *)
(*                                                                         *)
(* Bytes are numbered in the order the caller writes them, 0 is a byte     *)
(* nobody wrote.  `region` is what the last reserve() handed out; calls    *)
(* that move the write position take it away, so the caller fills and      *)
(* commits only a region that is still current.                            *)
(***************************************************************************)
EXTENDS Integers, Sequences, FiniteSets

CONSTANTS
    InitialCapacity, MaximumCapacity,
    BudgetLimit,    \* limit of the budget the buffer is charged to
    OtherSizes,     \* charges of others to the same budget
    Blocks,         \* blocks of the source
    MaxBytes        \* bytes written in a behaviour

ASSUME BufferAssumption ==
    /\ InitialCapacity \in Nat \ {0}
    /\ MaximumCapacity \in Nat /\ InitialCapacity <= MaximumCapacity
    /\ BudgetLimit \in Nat /\ MaxBytes \in Nat
    /\ OtherSizes \subseteq 0 .. BudgetLimit
    /\ Blocks \subseteq Nat \ {0}

VARIABLES
    memory,         \* the bytes of every block
    block,          \* block_, 0 for none
    lent,           \* blocks the source has lent and not got back
    capacity, readOffset, writeOffset,
    charged,        \* bytes of reservation_
    others,         \* bytes others have charged
    target,         \* the capacity grow() is acquiring, 0 outside of grow()
    wanted,         \* minimum_writable of the reserve() that grows
    region,         \* bytes handed out at writeOffset and not committed yet
    produced        \* bytes committed so far

vars == <<memory, block, lent, capacity, readOffset, writeOffset, charged,
          others, target, wanted, region, produced>>

Offsets == 0 .. MaximumCapacity - 1
Size == writeOffset - readOffset

TypeOK ==
    /\ memory \in [Blocks -> [Offsets -> 0 .. MaxBytes]]
    /\ block \in Blocks \cup {0}
    /\ lent \subseteq Blocks
    /\ capacity \in 0 .. MaximumCapacity
    /\ readOffset \in 0 .. writeOffset
    /\ writeOffset \in 0 .. capacity
    /\ charged \in 0 .. BudgetLimit
    /\ others \in 0 .. BudgetLimit
    /\ charged + others <= BudgetLimit
    /\ target \in 0 .. MaximumCapacity
    /\ wanted \in 0 .. MaximumCapacity
    /\ region \in 0 .. capacity - writeOffset
    /\ produced \in 0 .. MaxBytes

Blank == [o \in Offsets |-> 0]

Init ==
    /\ memory = [b \in Blocks |-> Blank]
    /\ block = 0
    /\ lent = {}
    /\ capacity = 0 /\ readOffset = 0 /\ writeOffset = 0
    /\ charged = 0
    /\ others \in OtherSizes
    /\ target = 0 /\ wanted = 0 /\ region = 0
    /\ produced = 0

Idle == target = 0

\* The readable bytes copied one by one, from the first up, to the front of b.
Moved(b) ==
    LET after[k \in 0 .. Size] ==
          IF k = 0 THEN memory[b]
          ELSE LET source == IF b = block THEN after[k - 1] ELSE memory[block]
               IN  [after[k - 1] EXCEPT ![k - 1] = source[readOffset + k - 1]]
    IN  [memory EXCEPT ![b] = after[Size]]

\* What block b held is gone once the source has it back.
Returned(contents, b) == [c \in Blocks |-> IF c = b THEN Blank ELSE contents[c]]

Unwritten == capacity - writeOffset
-----------------------------------------------------------------------------
(* Room for more bytes.                                                    *)

\* One round of the loop of next_capacity.
Doubled(size) == IF size > MaximumCapacity - size THEN MaximumCapacity ELSE size * 2

\* next_capacity: doubled until it holds `required` bytes.
NextCapacity(required) ==
    LET start == IF capacity = 0 THEN InitialCapacity ELSE capacity
        after[k \in 0 .. MaximumCapacity] == IF k = 0 THEN start ELSE Doubled(after[k - 1])
        rounds == CHOOSE k \in 0 .. MaximumCapacity :
                     /\ after[k] >= required
                     /\ \A j \in 0 .. k - 1 : after[j] < required
    IN  after[rounds]

ReserveInPlace(n) ==
    /\ Idle
    /\ n <= MaximumCapacity - Size
    /\ n <= Unwritten
    /\ region' = n
    /\ UNCHANGED <<memory, block, lent, capacity, readOffset, writeOffset, charged,
                   others, target, wanted, produced>>

\* Variant that is one byte short when bytes move.
CompactShort ==
    /\ memory' = Moved(block)
    /\ readOffset' = 0
    /\ writeOffset' = IF readOffset = 0 \/ Size = 0 THEN Size ELSE Size - 1

\* With read_offset_ at 0, before the first block too, nothing moves.
CompactUnchecked ==
    /\ memory' = Moved(block)
    /\ readOffset' = 0
    /\ writeOffset' = Size

ReserveCompacts(n) ==
    /\ Idle
    /\ n <= MaximumCapacity - Size
    /\ n > Unwritten
    /\ Size + n <= capacity
    /\ CompactUnchecked
    /\ region' = n
    /\ UNCHANGED <<block, lent, capacity, charged, others, target, wanted, produced>>

\* grow() charges the budget for the larger capacity, then asks the source.
ReserveGrows(n) ==
    /\ Idle
    /\ n <= MaximumCapacity - Size
    /\ Size + n > capacity
    /\ LET larger == NextCapacity(Size + n)
       IN  /\ larger <= MaximumCapacity
           /\ charged + (larger - capacity) + others <= BudgetLimit
           /\ charged' = charged + (larger - capacity)
           /\ target' = larger
    /\ wanted' = n
    /\ region' = 0
    /\ UNCHANGED <<memory, block, lent, capacity, readOffset, writeOffset, others, produced>>

\* Variant that keeps the charge when the source fails.
ChargeKept == charged

ChargeRolledBack == charged - (target - capacity)

\* The source has no block.
AcquireFails ==
    /\ ~Idle
    /\ charged' = ChargeRolledBack
    /\ target' = 0 /\ wanted' = 0
    /\ UNCHANGED <<memory, block, lent, capacity, readOffset, writeOffset, others,
                   region, produced>>

LentAfterReturn(b) == lent

\* The source's block b is smaller than asked for and goes back at once.
AcquireTooSmall(b) ==
    /\ ~Idle
    /\ b \notin lent
    /\ lent' = LentAfterReturn(b)
    /\ charged' = ChargeRolledBack
    /\ target' = 0 /\ wanted' = 0
    /\ UNCHANGED <<memory, block, capacity, readOffset, writeOffset, others, region, produced>>

\* The bytes are copied, the old block goes back, the new one takes its place.
AcquireSucceeds(b) ==
    /\ ~Idle
    /\ b \notin lent
    /\ memory' = Returned(Moved(b), block)
    /\ lent' = (lent \ {block}) \cup {b}
    /\ block' = b
    /\ capacity' = target
    /\ readOffset' = 0
    /\ writeOffset' = Size
    /\ region' = wanted
    /\ target' = 0 /\ wanted' = 0
    /\ UNCHANGED <<charged, others, produced>>
-----------------------------------------------------------------------------
(* Bytes in, bytes out.                                                    *)

\* The caller fills n bytes of the region and commits them; what it did not
\* commit it may still fill.
Commit(n) ==
    /\ Idle
    /\ n <= Unwritten
    /\ n <= region
    /\ n <= MaxBytes - produced
    /\ memory' = [memory EXCEPT ![block] =
          [o \in Offsets |-> IF o \in writeOffset .. writeOffset + n - 1
                             THEN produced + (o - writeOffset) + 1 ELSE @[o]]]
    /\ writeOffset' = writeOffset + n
    /\ region' = region - n
    /\ produced' = produced + n
    /\ UNCHANGED <<block, lent, capacity, readOffset, charged, others, target, wanted>>

Consume(n) ==
    /\ Idle
    /\ n <= Size
    /\ IF readOffset + n = writeOffset
       THEN readOffset' = 0 /\ writeOffset' = 0 /\ region' = 0
       ELSE readOffset' = readOffset + n /\ UNCHANGED <<writeOffset, region>>
    /\ UNCHANGED <<memory, block, lent, capacity, charged, others, target, wanted, produced>>

Compact ==
    /\ Idle
    /\ readOffset # 0
    /\ CompactUnchecked
    /\ region' = 0
    /\ UNCHANGED <<block, lent, capacity, charged, others, target, wanted, produced>>

Release ==
    /\ Idle
    /\ block # 0
    /\ lent' = lent \ {block}
    /\ block' = 0
    /\ capacity' = 0 /\ readOffset' = 0 /\ writeOffset' = 0
    /\ charged' = 0
    /\ region' = 0
    /\ memory' = Returned(memory, block)
    /\ UNCHANGED <<others, target, wanted, produced>>

\* Others charge the same budget, the block source included.
OthersCharge(bytes) ==
    /\ charged + bytes <= BudgetLimit
    /\ others' = bytes
    /\ UNCHANGED <<memory, block, lent, capacity, readOffset, writeOffset, charged,
                   target, wanted, region, produced>>

-----------------------------------------------------------------------------
(* Properties.                                                             *)

\* Outside of grow() the budget is charged with the capacity and nothing else, and
\* only the block in use is lent by the source: through failed growth, undersized
\* blocks, rollback and release.
ResourcesExact ==
    /\ Idle => charged = capacity
    /\ lent = (IF block = 0 THEN {} ELSE {block})

\* The readable bytes.
Queue == [i \in 1 .. Size |-> memory[block][readOffset + i - 1]]

Bytes == INSTANCE ByteQueue WITH queue <- Queue, MaxQueued <- MaximumCapacity

\* The buffer is a byte queue: reserving, growing into another block, compacting
\* and failing leave the readable bytes alone, commit appends, consume removes.
RefinesByteQueue == Bytes!Spec
=============================================================================
