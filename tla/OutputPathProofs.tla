-------------------------- MODULE OutputPathProofs --------------------------
(***************************************************************************)
(* Proofs about a bounded buffer and the I/O slices that write it out, for *)
(* every capacity, every source of blocks, any number of slices and        *)
(* vectors, and a kernel that writes any part of what it is given.         *)
(***************************************************************************)
EXTENDS OutputPath, SequenceTheorems, WellFoundedInduction, TLAPS

\* A leaf may take either prover 30 seconds and is given to Z3 a second time: no
\* proof depends on how busy the machine is.
USE SMTT(30), ZenonT(30), Z3T(30)

-----------------------------------------------------------------------------
(* Loops.                                                                  *)

\* A set of numbers that is not empty has a least one.
LEMMA LeastNumber ==
    ASSUME NEW S \in SUBSET Nat, S # {}
    PROVE  \E n \in S : \A m \in S : n <= m
<1> DEFINE less == {ss \in Nat \X Nat : ss[1] < ss[2]}
<1>1. IsWellFoundedOn(less, Nat)
    BY NatLessThanWellFounded DEF OpToRel
<1> HIDE DEF less
<1>2. PICK n \in S : \A m \in S : <<m, n>> \notin less
    BY <1>1, WFMin, Zenon
<1>3. ASSUME NEW m \in S PROVE n <= m
  <2>1. <<m, n>> \notin less
      BY <1>2
  <2> QED BY <2>1 DEF less
<1> QED BY <1>2, <1>3

\* A loop of n rounds has a run: round k takes what round k - 1 left to step[k].
Runs(f, D, start, step, n) ==
    f \in [0 .. n -> D] /\ f[0] = start /\ \A k \in 1 .. n : f[k] = step[k][f[k - 1]]

\* Every loop of N rounds has such a run.
LEMMA LoopRuns ==
    ASSUME NEW D, NEW N \in Nat, NEW start \in D, NEW step \in [1 .. N -> [D -> D]]
    PROVE  \E f : Runs(f, D, start, step, N)
<1> DEFINE missing == {n \in 0 .. N : ~\E f : Runs(f, D, start, step, n)}
<1>0. N \in 0 .. N
    OBVIOUS
<1> SUFFICES ASSUME missing # {} PROVE FALSE
    BY <1>0, Zenon
<1>1. PICK n \in missing : \A m \in missing : n <= m
  <2>1. missing \in SUBSET Nat
      OBVIOUS
  <2> HIDE DEF missing
  <2> QED BY <2>1, LeastNumber
<1>2. n # 0
  <2>1. Runs([k \in 0 .. 0 |-> start], D, start, step, 0)
      BY DEF Runs
  <2> QED BY <1>1, <2>1
<1>3. n \in 1 .. N /\ n - 1 \in 0 .. N /\ n - 1 \notin missing
    BY <1>1, <1>2
<1>4. PICK f : Runs(f, D, start, step, n - 1)
    BY <1>3
<1> DEFINE g == [k \in 0 .. n |-> IF k = n THEN step[n][f[n - 1]] ELSE f[k]]
<1>5. f[n - 1] \in D /\ step[n] \in [D -> D]
    BY <1>3, <1>4 DEF Runs
<1>6. g \in [0 .. n -> D] /\ g[0] = start
    BY <1>3, <1>4, <1>5 DEF Runs
<1>7. ASSUME NEW k \in 1 .. n PROVE g[k] = step[k][g[k - 1]]
    BY <1>3, <1>4 DEF Runs
<1> HIDE DEF g
<1>8. Runs(g, D, start, step, n)
    BY <1>6, <1>7, Zenon DEF Runs
<1> QED BY <1>1, <1>8

-----------------------------------------------------------------------------
(* The operators of the buffer.                                            *)

\* The doubling ends with a capacity that suffices.
LEMMA NextCapacitySuffices ==
    ASSUME TypeOK, NEW required \in 0 .. MaximumCapacity
    PROVE  NextCapacity(required) \in required .. MaximumCapacity
<1> DEFINE start == IF capacity = 0 THEN InitialCapacity ELSE capacity
           after[k \in 0 .. MaximumCapacity] == IF k = 0 THEN start ELSE Doubled(after[k - 1])
           rounds == CHOOSE k \in 0 .. MaximumCapacity :
                        /\ after[k] >= required
                        /\ \A j \in 0 .. k - 1 : after[j] < required
           Sizes == 1 .. MaximumCapacity
           step == [k \in 1 .. MaximumCapacity |-> [s \in Sizes |-> Doubled(s)]]
<1>1. NextCapacity(required) = after[rounds]
    BY Zenon DEF NextCapacity
<1>2. start \in Sizes /\ MaximumCapacity \in Nat
    BY BufferAssumption DEF TypeOK
<1>3. \A s \in Sizes : Doubled(s) \in Sizes /\ (Doubled(s) > s \/ Doubled(s) = MaximumCapacity)
    BY <1>2 DEF Doubled
<1>4. step \in [1 .. MaximumCapacity -> [Sizes -> Sizes]]
    BY <1>3
<1> HIDE DEF start
<1>5. PICK f : Runs(f, Sizes, start, step, MaximumCapacity)
  <2> HIDE DEF step, Sizes
  <2> QED BY <1>2, <1>4, LoopRuns
<1>6. f = [k \in 0 .. MaximumCapacity |-> IF k = 0 THEN start ELSE Doubled(f[k - 1])]
  <2>1. ASSUME NEW k \in 1 .. MaximumCapacity PROVE f[k] = Doubled(f[k - 1])
    <3>1. k - 1 \in 0 .. MaximumCapacity
        BY <1>2
    <3>2. f[k - 1] \in Sizes
        BY <1>5, <3>1 DEF Runs
    <3>3. f[k] = step[k][f[k - 1]]
        BY <1>5 DEF Runs
    <3> QED BY <3>2, <3>3
  <2> QED BY <1>5, <2>1 DEF Runs
<1>7. \A k \in 0 .. MaximumCapacity : after[k] = IF k = 0 THEN start ELSE Doubled(after[k - 1])
  <2>1. after = [k \in 0 .. MaximumCapacity |-> IF k = 0 THEN start ELSE Doubled(after[k - 1])]
      BY <1>6, Zenon
  <2> HIDE DEF after
  <2> QED BY <2>1, Zenon
<1> HIDE DEF after
<1> DEFINE Far(k) == after[k] \in Sizes /\ (after[k] >= k + 1 \/ after[k] = MaximumCapacity)
           short == {k \in 0 .. MaximumCapacity : ~Far(k)}
<1>8. short = {}
  <2> SUFFICES ASSUME short # {} PROVE FALSE
      OBVIOUS
  <2>1. PICK k \in short : \A m \in short : k <= m
    <3>1. short \in SUBSET Nat
        OBVIOUS
    <3> HIDE DEF short
    <3> QED BY <3>1, LeastNumber
  <2>2. k # 0
      BY <1>2, <1>7, <2>1
  <2>3. k - 1 \in 0 .. MaximumCapacity /\ ~(k <= k - 1) /\ k \in Nat
      BY <1>2, <2>2
  <2>4. Far(k - 1)
      BY <2>1, <2>3
  <2>5. after[k] = Doubled(after[k - 1])
      BY <1>7, <2>2
  <2>6. Far(k)
      BY <1>2, <1>3, <2>3, <2>4, <2>5
  <2> QED BY <2>6
<1> DEFINE enough == {k \in 0 .. MaximumCapacity : after[k] >= required}
<1>9. MaximumCapacity \in enough
  <2>1. Far(MaximumCapacity)
      BY <1>2, <1>8
  <2> QED BY <1>2, <2>1
<1>10. PICK k \in enough : \A m \in enough : k <= m
  <2>1. enough \in SUBSET Nat
      OBVIOUS
  <2> HIDE DEF enough
  <2> QED BY <1>9, <2>1, LeastNumber
<1>11. ASSUME NEW j \in 0 .. k - 1 PROVE after[j] < required
  <2>1. j \in 0 .. MaximumCapacity /\ ~(k <= j)
      BY <1>2
  <2>2. Far(j) /\ j \notin enough
      BY <1>8, <1>10, <2>1
  <2> QED BY <1>2, <2>1, <2>2
<1>12. rounds \in 0 .. MaximumCapacity /\ after[rounds] >= required
    BY <1>10, <1>11, Zenon
<1> HIDE DEF rounds
<1>13. Far(rounds)
    BY <1>8, <1>12
<1> QED BY <1>1, <1>2, <1>12, <1>13

\* Copying to the front of a block leaves the other blocks alone, and no byte is
\* overwritten before it is copied.
LEMMA MovedBytes ==
    ASSUME TypeOK, NEW b \in Blocks, Size # 0 => block \in Blocks
    PROVE  /\ Moved(b) \in [Blocks -> [Offsets -> 0 .. MaxBytes]]
           /\ \A o \in 0 .. Size - 1 : Moved(b)[b][o] = memory[block][readOffset + o]
           /\ \A c \in Blocks \ {b} : Moved(b)[c] = memory[c]
<1> DEFINE Source(row) == IF b = block THEN row ELSE memory[block]
           Next1(row, k) == [row EXCEPT ![k - 1] = Source(row)[readOffset + k - 1]]
           after[k \in 0 .. Size] ==
              IF k = 0 THEN memory[b]
              ELSE LET source == IF b = block THEN after[k - 1] ELSE memory[block]
                   IN  [after[k - 1] EXCEPT ![k - 1] = source[readOffset + k - 1]]
           Row(k) == [o \in Offsets |->
                        IF o < k THEN memory[block][readOffset + o] ELSE memory[b][o]]
<1>1. Moved(b) = [memory EXCEPT ![b] = after[Size]]
    BY Zenon DEF Moved
<1>2. /\ Size \in 0 .. MaximumCapacity /\ readOffset \in Nat /\ MaximumCapacity \in Nat
      /\ \A o \in 0 .. Size - 1 : o \in Offsets /\ readOffset + o \in Offsets
      /\ \A o \in Offsets : o \in Nat
      /\ memory \in [Blocks -> [Offsets -> 0 .. MaxBytes]]
    BY BufferAssumption DEF TypeOK, Size, Offsets
<1> HIDE DEF Size, Offsets
<1>3. Row(0) = memory[b]
    BY <1>2
<1>4. ASSUME NEW k \in 1 .. Size
      PROVE  Row(k) = Next1(Row(k - 1), k)
  <2>1. k - 1 \in 0 .. Size - 1 /\ k - 1 \in Offsets /\ readOffset + k - 1 \in Offsets
        /\ readOffset + k - 1 = readOffset + (k - 1)
      BY <1>2
  <2>2. block \in Blocks
      BY <1>2
  <2>3. Source(Row(k - 1))[readOffset + k - 1] = memory[block][readOffset + k - 1]
      BY <1>2, <2>1, <2>2
  <2>4. ASSUME NEW o \in Offsets
        PROVE  Row(k)[o] = Next1(Row(k - 1), k)[o]
    <3>1. o < k <=> (o < k - 1 \/ o = k - 1)
        BY <1>2
    <3>2. CASE o = k - 1
        BY <2>1, <2>3, <3>1, <3>2
    <3>3. CASE o # k - 1
        BY <2>1, <3>1, <3>3
    <3> QED BY <3>2, <3>3
  <2> QED BY <2>4
<1> DEFINE rows == [k \in 0 .. Size |-> Row(k)]
<1>5. rows = [k \in 0 .. Size |-> IF k = 0 THEN memory[b] ELSE Next1(rows[k - 1], k)]
  <2>1. \A k \in 1 .. Size : k - 1 \in 0 .. Size
      BY <1>2
  <2> HIDE DEF Row, Next1
  <2> QED BY <1>3, <1>4, <2>1
<1> HIDE DEF rows
<1>6. after = [k \in 0 .. Size |-> IF k = 0 THEN memory[b] ELSE Next1(after[k - 1], k)]
    BY <1>5, Zenon
<1> HIDE DEF after, Row, Next1
<1>7. \A k \in 0 .. Size : after[k] = IF k = 0 THEN memory[b] ELSE Next1(after[k - 1], k)
    BY <1>6, Zenon
<1>8. \A k \in 1 .. Size : after[k] = Next1(after[k - 1], k)
    BY <1>2, <1>7
<1> DEFINE wrong == {k \in 0 .. Size : after[k] # Row(k)}
<1>9. wrong = {}
  <2> SUFFICES ASSUME wrong # {} PROVE FALSE
      OBVIOUS
  <2>1. PICK k \in wrong : \A m \in wrong : k <= m
    <3>1. wrong \in SUBSET Nat
        BY <1>2
    <3> HIDE DEF wrong
    <3> QED BY <3>1, LeastNumber
  <2>2. k # 0
      BY <1>3, <1>7, <2>1
  <2>3. k \in 1 .. Size /\ k - 1 \in 0 .. Size /\ ~(k <= k - 1)
      BY <1>2, <2>2
  <2>4. after[k - 1] = Row(k - 1)
      BY <2>1, <2>3
  <2> QED BY <1>4, <1>8, <2>3, <2>4
<1>10. Moved(b) = [memory EXCEPT ![b] = Row(Size)]
  <2>1. Size \in 0 .. Size
      BY <1>2
  <2>2. after[Size] = Row(Size)
      BY <1>9, <2>1
  <2> QED BY <1>1, <2>2, Zenon
<1>11. Row(Size) \in [Offsets -> 0 .. MaxBytes]
  <2>1. ASSUME NEW o \in Offsets, o < Size PROVE memory[block][readOffset + o] \in 0 .. MaxBytes
    <3>1. o \in 0 .. Size - 1 /\ block \in Blocks
        BY <1>2, <2>1
    <3> QED BY <1>2, <3>1
  <2> QED BY <1>2, <2>1 DEF Row
<1>12. \A o \in 0 .. Size - 1 : Row(Size)[o] = memory[block][readOffset + o]
    BY <1>2 DEF Row
<1> QED BY <1>2, <1>10, <1>11, <1>12

-----------------------------------------------------------------------------
(* The buffer.                                                             *)

\* Inside of grow() the larger capacity is charged already and suffices for what
\* reserve() was asked for; without a block there is no capacity.
BufferInv ==
    /\ TypeOK
    /\ charged = IF Idle THEN capacity ELSE target
    /\ ~Idle => Size + wanted <= target /\ capacity < target /\ region = 0
    /\ lent = IF block = 0 THEN {} ELSE {block}
    /\ block = 0 => capacity = 0

\* A step of the slices leaves the buffer as it is.
LEMMA BufferStutters ==
    ASSUME BufferInv, UNCHANGED vars
    PROVE  /\ BufferInv' /\ Size' = Size /\ Idle' = Idle /\ readOffset' = readOffset
           /\ Queue' = Queue /\ produced' = produced
<1>1. /\ memory' = memory /\ block' = block /\ lent' = lent /\ capacity' = capacity
      /\ readOffset' = readOffset /\ writeOffset' = writeOffset /\ charged' = charged
      /\ others' = others /\ target' = target /\ wanted' = wanted /\ region' = region
      /\ produced' = produced
    BY Zenon DEF vars
<1>2. Size' = Size /\ Idle' = Idle /\ Queue' = Queue
    BY <1>1, Zenon DEF Size, Idle, Queue
<1>3. BufferInv'
    BY <1>1, <1>2, Zenon DEF BufferInv, TypeOK
<1> QED BY <1>1, <1>2, <1>3

\* A buffer starts without block, charge or bytes.
LEMMA BufferInitial == Init => BufferInv
BY BufferAssumption DEF Init, BufferInv, TypeOK, Idle, Size, Blank, Offsets

ReserveStep(n) == ReserveInPlace(n) \/ ReserveCompacts(n) \/ ReserveGrows(n)

\* reserve() in place, by compacting, or by starting to grow.
LEMMA BufferReserves ==
    ASSUME BufferInv, NEW n \in 1 .. MaximumCapacity, ReserveStep(n)
    PROVE  BufferInv'
<1> USE BufferAssumption DEF BufferInv, TypeOK, Idle, Size, Unwritten
<1>1. CASE ReserveInPlace(n)
    BY <1>1 DEF ReserveInPlace
<1>2. CASE ReserveCompacts(n)
  <2>1. block \in Blocks
      BY <1>2 DEF ReserveCompacts
  <2>2. memory' \in [Blocks -> [Offsets -> 0 .. MaxBytes]]
      BY <1>2, <2>1, MovedBytes DEF ReserveCompacts, CompactUnchecked
  <2> QED BY <1>2, <2>2 DEF ReserveCompacts, CompactUnchecked
<1>3. CASE ReserveGrows(n)
  <2>1. NextCapacity(Size + n) \in Size + n .. MaximumCapacity
    <3>1. Size + n \in 0 .. MaximumCapacity
        BY <1>3 DEF ReserveGrows
    <3> QED BY <3>1, NextCapacitySuffices
  <2> QED BY <1>3, <2>1 DEF ReserveGrows
<1> QED BY <1>1, <1>2, <1>3 DEF ReserveStep

\* grow() with each answer of the source.
LEMMA BufferGrows ==
    ASSUME BufferInv, AcquireFails \/ \E b \in Blocks : AcquireTooSmall(b) \/ AcquireSucceeds(b)
    PROVE  BufferInv'
<1> USE BufferAssumption DEF BufferInv, TypeOK, Idle, Size
<1>1. CASE AcquireFails
    BY <1>1 DEF AcquireFails, ChargeRolledBack
<1>2. ASSUME NEW b \in Blocks, AcquireTooSmall(b) PROVE BufferInv'
    BY <1>2 DEF AcquireTooSmall, ChargeRolledBack, LentAfterReturn
<1>3. ASSUME NEW b \in Blocks, AcquireSucceeds(b) PROVE BufferInv'
  <2>1. Size # 0 => block \in Blocks
      OBVIOUS
  <2>2. Moved(b) \in [Blocks -> [Offsets -> 0 .. MaxBytes]]
      BY <2>1, MovedBytes
  <2>3. memory' \in [Blocks -> [Offsets -> 0 .. MaxBytes]]
      BY <1>3, <2>2 DEF AcquireSucceeds, Returned, Blank
  <2> QED BY <1>3, <2>3 DEF AcquireSucceeds
<1> QED BY <1>1, <1>2, <1>3

\* commit, consume, compact and release, and other clients of the budget.
LEMMA BufferMoves ==
    ASSUME BufferInv,
           \/ \E n \in 1 .. MaximumCapacity : Commit(n) \/ Consume(n)
           \/ Compact \/ Release
           \/ \E size \in OtherSizes : OthersCharge(size)
    PROVE  BufferInv'
<1> USE BufferAssumption DEF BufferInv, TypeOK, Idle, Size, Unwritten
<1>1. ASSUME NEW n \in 1 .. MaximumCapacity, Commit(n) PROVE BufferInv'
  <2>1. block \in Blocks /\ produced + n <= MaxBytes
      BY <1>1 DEF Commit
  <2>2. \A o \in writeOffset .. writeOffset + n - 1 :
           produced + (o - writeOffset) + 1 \in 0 .. MaxBytes
      BY <2>1
  <2>3. memory' \in [Blocks -> [Offsets -> 0 .. MaxBytes]]
      BY <1>1, <2>1, <2>2 DEF Commit
  <2> QED BY <1>1, <2>1, <2>3 DEF Commit
<1>2. ASSUME NEW n \in 1 .. MaximumCapacity, Consume(n) PROVE BufferInv'
    BY <1>2 DEF Consume
<1>3. CASE Compact
  <2>1. block \in Blocks
      BY <1>3 DEF Compact
  <2>2. memory' \in [Blocks -> [Offsets -> 0 .. MaxBytes]]
      BY <1>3, <2>1, MovedBytes DEF Compact, CompactUnchecked
  <2> QED BY <1>3, <2>2 DEF Compact, CompactUnchecked
<1>4. CASE Release
  <2>1. memory' \in [Blocks -> [Offsets -> 0 .. MaxBytes]]
      BY <1>4 DEF Release, Returned, Blank
  <2> QED BY <1>4, <2>1 DEF Release
<1>5. ASSUME NEW size \in OtherSizes, OthersCharge(size) PROVE BufferInv'
    BY <1>5 DEF OthersCharge
<1> QED BY <1>1, <1>2, <1>3, <1>4, <1>5

-----------------------------------------------------------------------------
(* The queue of readable bytes.                                            *)

\* A function on 1 .. n is a sequence of length n.
LEMMA FunctionIsSeq ==
    ASSUME NEW S, NEW n \in Nat, NEW f \in [1 .. n -> S]
    PROVE  f \in Seq(S) /\ Len(f) = n /\ DOMAIN f = 1 .. n
OBVIOUS

\* The readable bytes are a sequence as long as readable().size().
LEMMA QueueFacts ==
    ASSUME BufferInv
    PROVE  /\ Size \in 0 .. MaximumCapacity /\ MaximumCapacity \in Nat
           /\ Queue \in Seq(0 .. MaxBytes) /\ Len(Queue) = Size /\ DOMAIN Queue = 1 .. Size
           /\ \A i \in 1 .. Size : Queue[i] = memory[block][readOffset + i - 1]
           /\ Size # 0 => block \in Blocks
<1>1. Size \in 0 .. MaximumCapacity /\ MaximumCapacity \in Nat /\ (Size # 0 => block \in Blocks)
    BY BufferAssumption DEF BufferInv, TypeOK, Size
<1>2. ASSUME NEW i \in 1 .. Size PROVE memory[block][readOffset + i - 1] \in 0 .. MaxBytes
  <2>1. block \in Blocks /\ readOffset + i - 1 \in Offsets
      BY <1>1 DEF BufferInv, TypeOK, Size, Offsets
  <2> QED BY <2>1 DEF BufferInv, TypeOK
<1>3. Queue \in [1 .. Size -> 0 .. MaxBytes]
    BY <1>2 DEF Queue
<1> QED BY <1>1, <1>3, FunctionIsSeq DEF Queue

\* The same bytes at other places are the same queue.
LEMMA QueueKept ==
    ASSUME Size' = Size,
           \A i \in 1 .. Size :
              memory'[block'][readOffset' + i - 1] = memory[block][readOffset + i - 1]
    PROVE  Queue' = Queue
BY DEF Queue

\* Compacting.
LEMMA CompactKeeps ==
    ASSUME BufferInv, CompactUnchecked, block' = block, block \in Blocks
    PROVE  Queue' = Queue
<1>1. Size' = Size
    BY DEF CompactUnchecked, Size, BufferInv, TypeOK
<1>2. ASSUME NEW i \in 1 .. Size
      PROVE  memory'[block'][readOffset' + i - 1] = memory[block][readOffset + i - 1]
  <2>1. i - 1 \in 0 .. Size - 1 /\ readOffset' + i - 1 = i - 1
        /\ readOffset + (i - 1) = readOffset + i - 1
      BY QueueFacts DEF CompactUnchecked, BufferInv, TypeOK
  <2>2. Moved(block)[block][i - 1] = memory[block][readOffset + (i - 1)]
      BY <2>1, MovedBytes DEF BufferInv
  <2> QED BY <2>1, <2>2 DEF CompactUnchecked
<1> QED BY <1>1, <1>2, QueueKept

\* Reserving, growing, compacting and the charges of others.
LEMMA QueueStays ==
    ASSUME BufferInv,
           \/ \E n \in 1 .. MaximumCapacity : ReserveStep(n)
           \/ AcquireFails
           \/ \E b \in Blocks : AcquireTooSmall(b) \/ AcquireSucceeds(b)
           \/ Compact
           \/ \E size \in OtherSizes : OthersCharge(size)
    PROVE  Queue' = Queue /\ produced' = produced
<1>1. ASSUME UNCHANGED <<memory, block, readOffset, writeOffset>>
      PROVE  Queue' = Queue
    BY <1>1, QueueKept DEF Size
<1>2. ASSUME NEW n \in 1 .. MaximumCapacity, ReserveStep(n)
      PROVE  Queue' = Queue /\ produced' = produced
  <2>1. CASE ReserveInPlace(n)
      BY <1>1, <2>1 DEF ReserveInPlace
  <2>2. CASE ReserveGrows(n)
      BY <1>1, <2>2 DEF ReserveGrows
  <2>3. CASE ReserveCompacts(n)
    <3>1. block \in Blocks
        BY <2>3, QueueFacts DEF ReserveCompacts, BufferInv, TypeOK
    <3> QED BY <2>3, <3>1, CompactKeeps DEF ReserveCompacts
  <2> QED BY <1>2, <2>1, <2>2, <2>3 DEF ReserveStep
<1>3. CASE AcquireFails
    BY <1>1, <1>3 DEF AcquireFails
<1>4. ASSUME NEW b \in Blocks, AcquireTooSmall(b)
      PROVE  Queue' = Queue /\ produced' = produced
    BY <1>1, <1>4 DEF AcquireTooSmall
<1>5. ASSUME NEW b \in Blocks, AcquireSucceeds(b)
      PROVE  Queue' = Queue /\ produced' = produced
  <2>1. Size' = Size /\ b # block /\ produced' = produced
      BY <1>5, QueueFacts, BufferAssumption DEF AcquireSucceeds, Size, BufferInv, TypeOK
  <2>2. ASSUME NEW i \in 1 .. Size
        PROVE  memory'[block'][readOffset' + i - 1] = memory[block][readOffset + i - 1]
    <3>1. i - 1 \in 0 .. Size - 1 /\ readOffset' + i - 1 = i - 1
          /\ readOffset + (i - 1) = readOffset + i - 1
        BY <1>5, QueueFacts DEF AcquireSucceeds, BufferInv, TypeOK
    <3>2. Moved(b)[b][i - 1] = memory[block][readOffset + (i - 1)]
        BY <3>1, MovedBytes, QueueFacts DEF BufferInv
    <3>3. memory'[b] = Moved(b)[b]
        BY <1>5, <2>1 DEF AcquireSucceeds, Returned
    <3> QED BY <1>5, <3>1, <3>2, <3>3 DEF AcquireSucceeds
  <2> QED BY <2>1, <2>2, QueueKept
<1>6. CASE Compact
  <2>1. block \in Blocks
      BY <1>6, QueueFacts DEF Compact, BufferInv, TypeOK
  <2> QED BY <1>6, <2>1, CompactKeeps DEF Compact
<1>7. ASSUME NEW size \in OtherSizes, OthersCharge(size)
      PROVE  Queue' = Queue /\ produced' = produced
    BY <1>1, <1>7 DEF OthersCharge
<1> QED BY <1>2, <1>3, <1>4, <1>5, <1>6, <1>7

\* commit(n) puts the n bytes written last behind the readable ones.
LEMMA CommitAppends ==
    ASSUME BufferInv, BufferInv', NEW n \in 1 .. MaximumCapacity, Commit(n)
    PROVE  /\ Queue' = Queue \o [i \in 1 .. n |-> produced + i]
           /\ produced' = produced + n /\ n <= MaxBytes - produced
           /\ Size' = Size + n /\ Size + n <= MaximumCapacity
<1> DEFINE new == [i \in 1 .. n |-> produced + i]
<1>0. Size \in Nat /\ MaxBytes \in Nat /\ MaximumCapacity \in Nat
    BY QueueFacts, BufferAssumption
<1>1. /\ Size' = Size + n /\ block \in Blocks /\ produced \in 0 .. MaxBytes
      /\ readOffset' = readOffset /\ block' = block /\ produced' = produced + n
      /\ n <= MaxBytes - produced /\ readOffset \in Nat /\ writeOffset = readOffset + Size
    BY BufferAssumption DEF Commit, Size, BufferInv, TypeOK, Unwritten
<1>2. new \in Seq(0 .. MaxBytes) /\ Len(new) = n /\ \A i \in 1 .. n : new[i] = produced + i
  <2>1. new \in [1 .. n -> 0 .. MaxBytes]
      BY <1>1, BufferAssumption
  <2> QED BY <2>1, FunctionIsSeq
<1> HIDE DEF new
<1> DEFINE B == 0 .. MaxBytes
           all == Queue \o new
           at(i) == readOffset + i - 1
<1>q. Queue \in Seq(B) /\ Len(Queue) = Size /\ \A i \in 1 .. Size : Queue[i] = memory[block][at(i)]
    BY QueueFacts
<1>3. /\ Queue' \in Seq(B) /\ Len(Queue') = Size + n
      /\ \A i \in 1 .. Size + n : Queue'[i] = memory'[block][at(i)]
  <2>1. /\ (Queue \in Seq(0 .. MaxBytes))' /\ (Len(Queue) = Size)'
        /\ (\A i \in 1 .. Size : Queue[i] = memory[block][readOffset + i - 1])'
      BY QueueFacts, PTL
  <2> QED BY <1>1, <2>1
<1>a. /\ all \in Seq(B) /\ Len(all) = Size + n
      /\ \A i \in 1 .. Size + n : all[i] = IF i <= Size THEN Queue[i] ELSE new[i - Size]
  <2> HIDE DEF Queue, Size, B
  <2>1. /\ all \in Seq(B) /\ Len(all) = Len(Queue) + Len(new)
        /\ \A i \in 1 .. Len(Queue) + Len(new) :
              all[i] = IF i <= Len(Queue) THEN Queue[i] ELSE new[i - Len(Queue)]
    <3>1. Queue \in Seq(B) /\ new \in Seq(B)
        BY <1>2, <1>q, Zenon DEF B
    <3> QED BY <3>1, ConcatProperties, ZenonT(30)
  <2> HIDE DEF all
  <2> QED BY <1>2, <1>q, <2>1, Zenon
<1> HIDE DEF all, Queue
<1>4. ASSUME NEW i \in 1 .. Size + n PROVE Queue'[i] = all[i]
  <2>1. at(i) \in Offsets
    <3>1. writeOffset + n <= MaximumCapacity /\ writeOffset \in Nat
        BY <1>0 DEF Commit, BufferInv, TypeOK, Unwritten
    <3> HIDE DEF Size
    <3> QED BY <1>0, <1>1, <3>1 DEF Offsets
  <2>2. memory'[block][at(i)] = IF at(i) \in writeOffset .. writeOffset + n - 1
                                THEN produced + (at(i) - writeOffset) + 1
                                ELSE memory[block][at(i)]
    <3>1. memory \in [Blocks -> [Offsets -> B]] /\ block \in Blocks
        BY <1>1 DEF BufferInv, TypeOK
    <3>2. memory' = [memory EXCEPT ![block] =
             [o \in Offsets |-> IF o \in writeOffset .. writeOffset + n - 1
                                THEN produced + (o - writeOffset) + 1 ELSE @[o]]]
        BY Zenon DEF Commit
    <3>3. memory'[block] =
             [o \in Offsets |-> IF o \in writeOffset .. writeOffset + n - 1
                                THEN produced + (o - writeOffset) + 1 ELSE memory[block][o]]
      <4> HIDE DEF Offsets, B
      <4> QED BY <3>1, <3>2
    <3> HIDE DEF Offsets, at
    <3> QED BY <2>1, <3>3, Zenon
  <2> HIDE DEF Size
  <2>3. CASE i <= Size
    <3>1. i \in 1 .. Size /\ at(i) \notin writeOffset .. writeOffset + n - 1
        BY <1>0, <1>1, <2>3
    <3>2. all[i] = Queue[i]
        BY <1>a, <2>3
    <3> HIDE DEF at
    <3> QED BY <1>3, <1>q, <2>2, <3>1, <3>2, Zenon
  <2>4. CASE ~(i <= Size)
    <3>1. /\ i - Size \in 1 .. n /\ at(i) \in writeOffset .. writeOffset + n - 1
          /\ produced + (at(i) - writeOffset) + 1 = produced + (i - Size)
        BY <1>0, <1>1, <2>4
    <3>2. all[i] = new[i - Size]
        BY <1>a, <2>4
    <3>3. new[i - Size] = produced + (i - Size)
        BY <1>2, <3>1
    <3> HIDE DEF at
    <3> QED BY <1>3, <2>2, <3>1, <3>2, <3>3, Zenon
  <2> QED BY <2>3, <2>4, Zenon
<1>5. Queue' = Queue \o new
  <2>1. Queue' = all
    <3> HIDE DEF Size, B
    <3> QED BY <1>3, <1>4, <1>a, SeqEqual
  <2> QED BY <2>1, Zenon DEF all
<1>6. Size + n <= MaximumCapacity
    BY <1>1, BufferAssumption DEF Commit, Unwritten, Size, BufferInv, TypeOK
<1> QED BY <1>1, <1>5, <1>6 DEF new

\* consume(n) takes n bytes from the front of the readable ones.
LEMMA ConsumeTakes ==
    ASSUME BufferInv, NEW n \in 1 .. MaximumCapacity, Consume(n)
    PROVE  /\ Queue' = SubSeq(Queue, n + 1, Size) /\ produced' = produced
           /\ n <= Size /\ Size' = Size - n
<1>1. n <= Size /\ Size' = Size - n /\ produced' = produced /\ memory' = memory /\ block' = block
    BY QueueFacts DEF Consume, Size, BufferInv, TypeOK
<1>2. \A i \in n + 1 .. Size : Queue[i] \in 0 .. MaxBytes
  <2>1. \A i \in n + 1 .. Size : i \in 1 .. Len(Queue)
      BY QueueFacts
  <2> QED BY <2>1, QueueFacts, ElementOfSeq, Zenon
<1>3. /\ SubSeq(Queue, n + 1, Size) \in Seq(0 .. MaxBytes)
      /\ Len(SubSeq(Queue, n + 1, Size)) = Size - n
      /\ \A i \in 1 .. Size - n : SubSeq(Queue, n + 1, Size)[i] = Queue[n + i]
    BY <1>1, <1>2, QueueFacts, SubSeqProperties
<1>4. ASSUME NEW i \in 1 .. Size - n
      PROVE  memory[block][readOffset' + i - 1] = Queue[n + i]
  <2>1. readOffset' = readOffset + n /\ n + i \in 1 .. Size
      BY <1>1, QueueFacts DEF Consume, Size, BufferInv, TypeOK
  <2>2. readOffset' + i - 1 = readOffset + (n + i) - 1
      BY <2>1, QueueFacts DEF BufferInv, TypeOK
  <2> QED BY <2>1, <2>2, QueueFacts
<1>5. Queue' = [i \in 1 .. Size - n |-> Queue[n + i]]
  <2>1. Queue' = [i \in 1 .. Size - n |-> memory[block][readOffset' + i - 1]]
      BY <1>1, Zenon DEF Queue
  <2> QED BY <1>4, <2>1
<1>6. Queue' \in Seq(0 .. MaxBytes) /\ Len(Queue') = Size - n
  <2>1. Size - n \in Nat /\ Queue' \in [1 .. Size - n -> 0 .. MaxBytes]
    <3>1. Size - n \in Nat /\ \A i \in 1 .. Size - n : n + i \in n + 1 .. Size
        BY <1>1, QueueFacts
    <3> QED BY <1>2, <1>5, <3>1
  <2> QED BY <2>1, FunctionIsSeq, Zenon
<1>7. Queue' = SubSeq(Queue, n + 1, Size)
    BY <1>3, <1>5, <1>6, SeqEqual
<1> QED BY <1>1, <1>7

\* release() leaves nothing to read.
LEMMA ReleaseClears ==
    ASSUME BufferInv, Release
    PROVE  Queue' = <<>> /\ produced' = produced
BY DEF Release, Queue, Size

-----------------------------------------------------------------------------
(* The slices.                                                             *)

Segments == [first : Nat, size : Nat]

\* The slices lie one behind the other, from offset `from` on, and have `total`
\* bytes in all.
Tiled(ss, from, total) ==
    /\ ss \in Seq(Segments)
    /\ ss = <<>> => total = 0
    /\ ss # <<>> => /\ ss[1].first = from
                    /\ ss[Len(ss)].first + ss[Len(ss)].size = from + total
    /\ \A k \in 2 .. Len(ss) : ss[k].first = ss[k - 1].first + ss[k - 1].size
    /\ \A j, k \in 1 .. Len(ss) : j < k => ss[j].first + ss[j].size <= ss[k].first

\* Joining gives the last of the sequences that collect the first i.
Collects(g, seqs, n) ==
    g[0] = <<>> /\ \A i \in 1 .. n : g[i] = g[i - 1] \o seqs[i]

\* What is collected in n rounds is what Joined returns.
LEMMA JoinedIsLast ==
    ASSUME NEW seqs, NEW n \in Nat, Len(seqs) = n, NEW g, Collects(g, seqs, n)
    PROVE  Joined(seqs) = g[n]
<1>c. g[0] = <<>> /\ \A i \in 1 .. n : g[i] = g[i - 1] \o seqs[i]
    BY Zenon DEF Collects
<1> DEFINE front[k \in 0 .. Len(seqs)] == IF k = 0 THEN <<>> ELSE front[k - 1] \o seqs[k]
           f == [k \in 0 .. Len(seqs) |-> g[k]]
<1>1. Joined(seqs) = front[Len(seqs)]
    BY Zenon DEF Joined
<1>2. \A k \in 0 .. n : k # 0 => k \in 1 .. n /\ k - 1 \in 0 .. n
    OBVIOUS
<1>3. f = [k \in 0 .. Len(seqs) |-> IF k = 0 THEN <<>> ELSE f[k - 1] \o seqs[k]]
  <2>1. \A k \in 0 .. n : f[k] = g[k]
      OBVIOUS
  <2> HIDE DEF f
  <2>2. \A k \in 0 .. n : g[k] = IF k = 0 THEN <<>> ELSE f[k - 1] \o seqs[k]
    <3> SUFFICES ASSUME NEW k \in 0 .. n
                 PROVE  g[k] = IF k = 0 THEN <<>> ELSE f[k - 1] \o seqs[k]
        OBVIOUS
    <3>1. CASE k = 0
        BY <1>c, <3>1
    <3>2. CASE k # 0
      <4>1. k \in 1 .. n /\ f[k - 1] = g[k - 1]
          BY <1>2, <2>1, <3>2
      <4> QED BY <1>c, <3>2, <4>1, Zenon
    <3> QED BY <3>1, <3>2
  <2> QED BY <2>2, Zenon DEF f
<1> HIDE DEF f
<1>4. \A k \in 0 .. n : front[k] = IF k = 0 THEN <<>> ELSE front[k - 1] \o seqs[k]
  <2>1. front = [k \in 0 .. Len(seqs) |-> IF k = 0 THEN <<>> ELSE front[k - 1] \o seqs[k]]
      BY <1>3, Zenon
  <2> HIDE DEF front
  <2> QED BY <2>1, Zenon
<1> HIDE DEF front
<1> DEFINE wrong == {k \in 0 .. n : front[k] # g[k]}
<1>5. wrong = {}
  <2> SUFFICES ASSUME wrong # {} PROVE FALSE
      OBVIOUS
  <2>1. PICK k \in wrong : \A m \in wrong : k <= m
    <3>1. wrong \in SUBSET Nat
        OBVIOUS
    <3> HIDE DEF wrong
    <3> QED BY <3>1, LeastNumber, Zenon
  <2>2. k \in 0 .. n /\ k # 0
      BY <1>4, <1>c, <2>1
  <2>3. k \in 1 .. n /\ k - 1 \in 0 .. n /\ ~(k <= k - 1)
      BY <1>2, <2>2
  <2>4. front[k - 1] = g[k - 1]
      BY <2>1, <2>3
  <2>5. front[k] = g[k]
      BY <1>4, <1>c, <2>2, <2>3, <2>4, Zenon
  <2> QED BY <2>5
<1>6. n \in 0 .. n
    OBVIOUS
<1> QED BY <1>1, <1>5, <1>6

\* A piece of a sequence, picked out one by one.
LEMMA SubSeqFacts ==
    ASSUME NEW V, NEW q \in Seq(V), NEW a \in Nat, NEW b \in Nat, a <= b, b <= Len(q)
    PROVE  /\ SubSeq(q, a + 1, b) \in Seq(V) /\ Len(SubSeq(q, a + 1, b)) = b - a
           /\ \A i \in 1 .. b - a : SubSeq(q, a + 1, b)[i] = q[a + i]
<1> DEFINE sub == SubSeq(q, a + 1, b)
<1>1. \A i \in 1 .. Len(q) : q[i] \in V
    BY ElementOfSeq, Zenon
<1>2. Len(q) \in Nat
    BY LenProperties, Zenon
<1>3. \A i \in a + 1 .. b : q[i] \in V
    BY <1>1, <1>2
<1>4. /\ sub \in Seq(V)
      /\ Len(sub) = (IF a + 1 <= b THEN b - (a + 1) + 1 ELSE 0)
      /\ \A i \in 1 .. b - (a + 1) + 1 : sub[i] = q[a + 1 + i - 1]
    BY <1>3, SubSeqProperties
<1>5. b - (a + 1) + 1 = b - a /\ \A i \in 1 .. b - a : a + 1 + i - 1 = a + i
    OBVIOUS
<1> HIDE DEF sub
<1>6. /\ sub \in Seq(V) /\ Len(sub) = b - a
      /\ \A i \in 1 .. b - a : sub[i] = q[a + i]
    BY <1>4, <1>5
<1> QED BY <1>6, Zenon DEF sub

Cut(q, a, b) == [i \in 1 .. b - a |-> q[a + i]]

\* The bytes from a up to b are a subsequence.
LEMMA CutIsSubSeq ==
    ASSUME NEW V, NEW q \in Seq(V), NEW a \in Nat, NEW b \in Nat, a <= b, b <= Len(q)
    PROVE  Cut(q, a, b) \in Seq(V) /\ Cut(q, a, b) = SubSeq(q, a + 1, b)
<1> DEFINE row == Cut(q, a, b)
           sub == SubSeq(q, a + 1, b)
<1>1. \A i \in 1 .. Len(q) : q[i] \in V
    BY ElementOfSeq, Zenon
<1>2. Len(q) \in Nat
    BY LenProperties, Zenon
<1>4. b - a \in Nat /\ \A i \in 1 .. b - a : q[a + i] \in V
    BY <1>1, <1>2
<1>5. row \in Seq(V) /\ Len(row) = b - a
  <2>1. row \in [1 .. b - a -> V]
      BY <1>4 DEF Cut
  <2> HIDE DEF row
  <2> QED BY <1>4, <2>1, FunctionIsSeq, Zenon
<1>6. /\ sub \in Seq(V) /\ Len(sub) = b - a
      /\ \A i \in 1 .. b - a : sub[i] = q[a + i]
    BY SubSeqFacts, Zenon
<1>7. \A i \in 1 .. b - a : row[i] = q[a + i]
    BY DEF Cut
<1> HIDE DEF row, sub
<1>8. row = sub
    BY <1>5, <1>6, <1>7, SeqEqual
<1> QED BY <1>5, <1>8 DEF row, sub

\* Pieces that lie one behind the other, joined.
LEMMA JoinedCuts ==
    ASSUME NEW V, NEW q \in Seq(V), NEW N \in Nat \ {0}, NEW E \in [0 .. N -> 0 .. Len(q)],
           E[0] = 0, \A k \in 1 .. N : E[k - 1] <= E[k]
    PROVE  Joined([k \in 1 .. N |-> Cut(q, E[k - 1], E[k])]) = SubSeq(q, 1, E[N])
<1> DEFINE rows == [k \in 1 .. N |-> Cut(q, E[k - 1], E[k])]
           g == [k \in 0 .. N |-> SubSeq(q, 1, E[k])]
<1>1. Len(q) \in Nat
    BY LenProperties, Zenon
<1>2. ASSUME NEW k \in 1 .. N
      PROVE  /\ k - 1 \in 0 .. N /\ E[k - 1] \in Nat /\ E[k] \in Nat /\ E[k] <= Len(q)
             /\ E[k - 1] <= E[k]
    BY <1>1
<1>3. ASSUME NEW k \in 1 .. N
      PROVE  rows[k] \in Seq(V) /\ rows[k] = SubSeq(q, E[k - 1] + 1, E[k])
  <2>1. rows[k] = Cut(q, E[k - 1], E[k])
      OBVIOUS
  <2>2. Cut(q, E[k - 1], E[k]) \in Seq(V)
        /\ Cut(q, E[k - 1], E[k]) = SubSeq(q, E[k - 1] + 1, E[k])
    <3>1. PICK a \in Nat, b \in Nat : a = E[k - 1] /\ b = E[k]
        BY <1>2
    <3>2. a <= b /\ b <= Len(q)
        BY <1>2, <3>1
    <3>3. Cut(q, a, b) \in Seq(V) /\ Cut(q, a, b) = SubSeq(q, a + 1, b)
        BY <3>2, CutIsSubSeq, ZenonT(30)
    <3> QED BY <3>1, <3>3, Zenon
  <2> QED BY <2>1, <2>2, Zenon
<1>4. rows \in Seq(Seq(V)) /\ Len(rows) = N /\ rows # <<>>
  <2>1. rows \in [1 .. N -> Seq(V)]
      BY <1>3
  <2> HIDE DEF rows
  <2>2. rows \in Seq(Seq(V)) /\ Len(rows) = N
      BY <2>1, FunctionIsSeq, Zenon
  <2>3. Len(<<>>) = 0
      OBVIOUS
  <2> QED BY <2>2, <2>3
<1>5. \A k \in 0 .. N : g[k] = SubSeq(q, 1, E[k])
    OBVIOUS
<1> HIDE DEF g, rows
<1>6. g[0] = <<>>
  <2>1. 0 \in 0 .. N
      OBVIOUS
  <2>2. g[0] = SubSeq(q, 1, 0)
      BY <1>5, <2>1, Zenon
  <2> QED BY <2>2, SubSeqEmpty
<1>7. ASSUME NEW k \in 1 .. N PROVE g[k] = g[k - 1] \o rows[k]
  <2>1. k \in 0 .. N /\ k - 1 \in 0 .. N
      OBVIOUS
  <2>2. /\ rows[k] = SubSeq(q, E[k - 1] + 1, E[k])
        /\ g[k] = SubSeq(q, 1, E[k]) /\ g[k - 1] = SubSeq(q, 1, E[k - 1])
      BY <1>3, <1>5, <2>1, Zenon
  <2>3. /\ 1 \in 1 .. Len(q) + 1 /\ E[k - 1] \in 1 - 1 .. Len(q)
        /\ E[k] \in E[k - 1] .. Len(q)
      BY <1>1, <1>2
  <2>4. SubSeq(q, 1, E[k - 1]) \o SubSeq(q, E[k - 1] + 1, E[k]) = SubSeq(q, 1, E[k])
      BY <2>3, ConcatAdjacentSubSeq, Zenon
  <2> QED BY <2>2, <2>4, Zenon
<1>8. Joined(rows) = g[N]
  <2>1. N \in Nat
      OBVIOUS
  <2>2. Len(rows) = N
      BY <1>4
  <2>3. Collects(g, rows, N)
      BY <1>6, <1>7, Zenon DEF Collects
  <2> QED BY <2>1, <2>2, <2>3, JoinedIsLast, Zenon
<1>9. Joined(rows) = SubSeq(q, 1, E[N])
  <2>1. N \in 0 .. N
      OBVIOUS
  <2> QED BY <1>5, <1>8, <2>1, Zenon
<1> QED BY <1>9, Zenon DEF rows

\* Slices that lie one behind the other show the front of the queue.
LEMMA ShownIsFront ==
    ASSUME BufferInv, NEW ss, NEW total \in 0 .. Size, Tiled(ss, readOffset, total)
    PROVE  Shown(ss) = SubSeq(Queue, 1, total)
<1> DEFINE rows == [k \in DOMAIN ss |->
                      [i \in 1 .. ss[k].size |-> memory[block][ss[k].first + i - 1]]]
<1>1. Shown(ss) = Joined(rows)
    BY Zenon DEF Shown
<1>2. ss \in Seq(Segments) /\ DOMAIN ss = 1 .. Len(ss) /\ Len(ss) \in Nat /\ readOffset \in Nat
    BY LenProperties DEF Tiled, BufferInv, TypeOK
<1>3. Size \in Nat /\ Queue \in Seq(0 .. MaxBytes) /\ Len(Queue) = Size
    BY QueueFacts
<1>4. CASE ss = <<>>
  <2>1. rows = <<>> /\ total = 0
      BY <1>4 DEF Tiled
  <2>2. Joined(<<>>) = <<>>
    <3> DEFINE g == [k \in {0} |-> <<>>]
    <3>1. g[0] = <<>>
        OBVIOUS
    <3> HIDE DEF g
    <3>2. PICK z \in Nat : z = 0
        OBVIOUS
    <3>3. Len(<<>>) = z /\ Collects(g, <<>>, z)
        BY <3>1, <3>2 DEF Collects
    <3>4. Joined(<<>>) = g[z]
        BY <3>3, JoinedIsLast, Zenon
    <3> QED BY <3>1, <3>2, <3>4
  <2>3. SubSeq(Queue, 1, 0) = <<>>
      BY SubSeqEmpty
  <2> QED BY <1>1, <2>1, <2>2, <2>3, Zenon
<1>5. CASE ss # <<>>
  <2> DEFINE N == Len(ss)
             E == [k \in 0 .. N |->
                     IF k = 0 THEN 0 ELSE ss[k].first + ss[k].size - readOffset]
  <2>1. N \in Nat \ {0} /\ N \in 1 .. N /\ 1 \in 1 .. N
      BY <1>2, <1>5, EmptySeq
  <2>2. \A k \in 1 .. N : ss[k].first \in Nat /\ ss[k].size \in Nat
    <3>1. \A k \in 1 .. N : ss[k] \in Segments
        BY <1>2, ElementOfSeq
    <3> QED BY <3>1 DEF Segments
  <2>3. ss[1].first = readOffset /\ ss[N].first + ss[N].size = readOffset + total
      BY <1>5 DEF Tiled
  <2> HIDE DEF N
  <2>r. readOffset \in Nat /\ Size \in Nat /\ total \in Nat /\ total <= Size
      BY <1>2, <1>3
  <2>e. E[0] = 0 /\ \A k \in 1 .. N : E[k] = ss[k].first + ss[k].size - readOffset
      BY <2>1
  <2>4. ASSUME NEW k \in 1 .. N
        PROVE  /\ E[k - 1] = ss[k].first - readOffset
               /\ E[k] \in 0 .. Size /\ E[k - 1] \in Nat
    <3> HIDE DEF E
    <3>1. ss[k].first \in Nat /\ ss[k].size \in Nat /\ ss[1].first \in Nat /\ ss[1].size \in Nat
          /\ ss[N].first \in Nat /\ ss[N].size \in Nat
        BY <2>1, <2>2
    <3>2. k = 1 \/ ss[1].first + ss[1].size <= ss[k].first
        BY <2>1 DEF Tiled, N
    <3>3. k = N \/ ss[k].first + ss[k].size <= ss[N].first
        BY <2>1 DEF Tiled, N
    <3>4. k # 1 => ss[k].first = ss[k - 1].first + ss[k - 1].size
        BY <2>1 DEF Tiled, N
    <3>5. E[k - 1] = ss[k].first - readOffset
      <4>1. CASE k = 1
          BY <2>r, <2>3, <2>e, <4>1
      <4>2. CASE k # 1
        <5>1. k - 1 \in 1 .. N
            BY <2>1, <4>2
        <5>2. ss[k - 1].first \in Nat /\ ss[k - 1].size \in Nat
            BY <2>2, <5>1
        <5>3. E[k - 1] = ss[k - 1].first + ss[k - 1].size - readOffset
            BY <2>e, <5>1
        <5> QED BY <2>r, <3>1, <3>4, <4>2, <5>2, <5>3
      <4> QED BY <4>1, <4>2
    <3>6. E[k] = ss[k].first + ss[k].size - readOffset
        BY <2>e
    <3> QED BY <2>r, <2>3, <3>1, <3>2, <3>3, <3>5, <3>6
  <2>5. E[N] = total
    <3>1. E[N] = ss[N].first + ss[N].size - readOffset
        BY <2>1, <2>e
    <3>2. ss[N].first \in Nat /\ ss[N].size \in Nat
        BY <2>1, <2>2
    <3> HIDE DEF E
    <3> QED BY <2>r, <2>3, <3>1, <3>2
  <2>6. E \in [0 .. N -> 0 .. Len(Queue)]
    <3>1. ASSUME NEW k \in 0 .. N PROVE E[k] \in 0 .. Size
      <4>1. k = 0 \/ k \in 1 .. N
          BY <2>1
      <4> HIDE DEF E
      <4> QED BY <1>3, <2>4, <2>e, <4>1
    <3> QED BY <1>3, <3>1
  <2> HIDE DEF E
  <2>7. ASSUME NEW k \in 1 .. N
        PROVE  /\ E[k - 1] <= E[k]
               /\ [i \in 1 .. ss[k].size |-> memory[block][ss[k].first + i - 1]]
                     = Cut(Queue, E[k - 1], E[k])
    <3>1. /\ ss[k].size \in Nat /\ ss[k].first \in Nat
          /\ E[k] - E[k - 1] = ss[k].size /\ E[k - 1] <= E[k]
      <4>1. /\ ss[k].size \in Nat /\ ss[k].first \in Nat
            /\ E[k - 1] = ss[k].first - readOffset
            /\ E[k] = ss[k].first + ss[k].size - readOffset
          BY <2>2, <2>4, <2>e
      <4> QED BY <2>r, <4>1
    <3>2. ASSUME NEW i \in 1 .. ss[k].size
          PROVE  memory[block][ss[k].first + i - 1] = Queue[E[k - 1] + i]
      <4>1. E[k - 1] + i \in 1 .. Size /\ readOffset + (E[k - 1] + i) - 1 = ss[k].first + i - 1
        <5>1. E[k - 1] = ss[k].first - readOffset /\ E[k - 1] \in Nat /\ E[k] \in 0 .. Size
            BY <2>4
        <5> QED BY <2>r, <3>1, <5>1
      <4> QED BY <4>1, QueueFacts
    <3> QED BY <3>1, <3>2 DEF Cut
  <2>8. rows = [k \in 1 .. N |-> Cut(Queue, E[k - 1], E[k])]
    <3>1. DOMAIN ss = 1 .. N
        BY <1>2 DEF N
    <3> QED BY <2>7, <3>1, Zenon
  <2>9. Joined(rows) = SubSeq(Queue, 1, E[N])
    <3> HIDE DEF rows
    <3>1. Joined([k \in 1 .. N |-> Cut(Queue, E[k - 1], E[k])]) = SubSeq(Queue, 1, E[N])
      <4>1. \A k \in 1 .. N : E[k - 1] <= E[k]
          BY <2>7, Zenon
      <4>2. E[0] = 0 /\ Queue \in Seq(0 .. MaxBytes) /\ N \in Nat \ {0}
          BY <1>3, <2>1, <2>e
      <4> HIDE DEF Queue
      <4> QED BY <2>6, <4>1, <4>2, JoinedCuts, Zenon
    <3> QED BY <2>8, <3>1, Zenon
  <2> QED BY <1>1, <2>5, <2>9, Zenon
<1> QED BY <1>4, <1>5

\* IoSliceList::consume removes the slices that end within the n bytes, and what
\* remains of the n bytes ends in the next slice.
LEMMA ConsumedFacts ==
    ASSUME NEW from \in Nat, NEW total \in Nat, Tiled(slices, from, total), NEW n \in 1 .. total
    PROVE  /\ Consumed(n).removed \in 0 .. Len(slices) /\ Consumed(n).remaining \in Nat
           /\ Consumed(n).removed = Len(slices) => Consumed(n).remaining = 0 /\ n = total
           /\ Consumed(n).removed # Len(slices) =>
                 LET next == slices[Consumed(n).removed + 1]
                 IN  next.first + Consumed(n).remaining = from + n
                     /\ Consumed(n).remaining < next.size
<1> DEFINE N == Len(slices)
           D == [removed : Nat, remaining : Nat]
           start == [removed |-> 0, remaining |-> n]
           Turn(d, k) == IF d.removed = k - 1 /\ Removes(d.remaining, slices[k])
                         THEN [removed |-> k, remaining |-> d.remaining - slices[k].size]
                         ELSE d
           at[k \in 0 .. Len(slices)] ==
              IF k = 0 THEN [removed |-> 0, remaining |-> n]
              ELSE IF at[k - 1].removed = k - 1 /\ Removes(at[k - 1].remaining, slices[k])
              THEN [removed |-> k, remaining |-> at[k - 1].remaining - slices[k].size]
              ELSE at[k - 1]
           step == [k \in 1 .. N |-> [d \in D |-> Turn(d, k)]]
<1>1. Consumed(n) = at[N]
    BY Zenon DEF Consumed
<1>2. /\ N \in Nat /\ start \in D /\ n \in Nat
      /\ \A k \in 1 .. N : slices[k].first \in Nat /\ slices[k].size \in Nat
  <2>1. N \in Nat /\ \A k \in 1 .. N : slices[k] \in Segments
      BY LenProperties, ElementOfSeq DEF Tiled
  <2> QED BY <2>1 DEF Segments
<1>3. ASSUME NEW k \in 1 .. N, NEW d \in D PROVE Turn(d, k) \in D
    BY <1>2 DEF Removes
<1>4. PICK f : Runs(f, D, start, step, N)
  <2>1. step \in [1 .. N -> [D -> D]]
      BY <1>3
  <2> HIDE DEF step, D, start, N
  <2> QED BY <1>2, <2>1, LoopRuns, ZenonT(30)
<1>5. f = [k \in 0 .. N |-> IF k = 0 THEN start ELSE Turn(f[k - 1], k)]
  <2>1. ASSUME NEW k \in 1 .. N PROVE f[k] = Turn(f[k - 1], k)
    <3>1. k - 1 \in 0 .. N
        BY <1>2
    <3>2. f[k - 1] \in D /\ f[k] = step[k][f[k - 1]]
      <4> HIDE DEF step, D, N, start
      <4> QED BY <1>4, <3>1, Zenon DEF Runs
    <3> HIDE DEF Turn, D
    <3> QED BY <3>2
  <2> HIDE DEF Turn, D, start
  <2> QED BY <1>4, <2>1 DEF Runs
<1>6. \A k \in 0 .. N : at[k] = IF k = 0 THEN start ELSE Turn(at[k - 1], k)
  <2>1. at = [k \in 0 .. N |-> IF k = 0 THEN start ELSE Turn(at[k - 1], k)]
      BY <1>5, Zenon
  <2> HIDE DEF at, Turn, start
  <2> QED BY <2>1, Zenon
<1> HIDE DEF at
<1> DEFINE Before(r) == IF r = 0 THEN 0 ELSE slices[r].first + slices[r].size - from
           Good(k) == /\ at[k] \in D /\ at[k].removed <= k
                      /\ at[k].remaining = n - Before(at[k].removed)
                      /\ at[k].removed < k => at[k].remaining < slices[at[k].removed + 1].size
           bad == {k \in 0 .. N : ~Good(k)}
<1>7. ASSUME NEW k \in 1 .. N
      PROVE  slices[k].first = from + Before(k - 1) /\ Before(k) = Before(k - 1) + slices[k].size
             /\ Before(k - 1) \in Int
  <2>1. CASE k = 1
    <3>1. slices # <<>>
        BY <1>2, EmptySeq
    <3> QED BY <1>2, <2>1, <3>1 DEF Tiled
  <2>2. CASE k # 1
    <3>1. k \in 2 .. N /\ k - 1 \in 1 .. N
        BY <1>2, <2>2
    <3>2. slices[k].first = slices[k - 1].first + slices[k - 1].size
        BY <3>1 DEF Tiled
    <3>3. /\ slices[k].first \in Nat /\ slices[k].size \in Nat
          /\ slices[k - 1].first \in Nat /\ slices[k - 1].size \in Nat
        BY <1>2, <3>1
    <3>4. /\ Before(k) = slices[k].first + slices[k].size - from
          /\ Before(k - 1) = slices[k - 1].first + slices[k - 1].size - from
        BY <3>1
    <3> HIDE DEF Before
    <3> DEFINE a == slices[k - 1].first
               z == slices[k - 1].size
               b == slices[k].first
               y == slices[k].size
               p == Before(k - 1)
               q == Before(k)
    <3>5. /\ a \in Nat /\ z \in Nat /\ b \in Nat /\ y \in Nat
          /\ b = a + z /\ q = b + y - from /\ p = a + z - from
        BY <3>2, <3>3, <3>4, Zenon
    <3> HIDE DEF a, z, b, y, p, q
    <3>6. b = from + p /\ q = p + y /\ p \in Int
        BY <3>5
    <3> QED BY <3>6, Zenon DEF b, p, q, y
  <2> QED BY <2>1, <2>2
<1>8. bad = {}
  <2> SUFFICES ASSUME bad # {} PROVE FALSE
      OBVIOUS
  <2>1. PICK k \in bad : \A m \in bad : k <= m
    <3>1. bad \in SUBSET Nat
        BY <1>2
    <3> HIDE DEF bad
    <3> QED BY <3>1, LeastNumber
  <2>2. k # 0
    <3>1. 0 \in 0 .. N
        BY <1>2
    <3>2. at[0] = start
        BY <1>6, <3>1, ZenonT(30)
    <3>3. Good(0)
        BY <1>2, <3>2
    <3> QED BY <2>1, <3>3, ZenonT(30)
  <2>3. k \in 1 .. N /\ k - 1 \in 0 .. N /\ ~(k <= k - 1)
      BY <1>2, <2>2
  <2>4. Good(k - 1) /\ at[k] = Turn(at[k - 1], k)
    <3>1. at[k] = Turn(at[k - 1], k)
        BY <1>6, <2>2, <2>3, ZenonT(30)
    <3> HIDE DEF Good, Turn
    <3> QED BY <2>1, <2>3, <3>1
  <2> HIDE DEF bad
  <2>5. PICK a \in Nat, b \in Nat : at[k - 1] = [removed |-> a, remaining |-> b]
    <3>1. at[k - 1] \in D
      <4> HIDE DEF D, Before, Turn
      <4> QED BY <2>4
    <3> QED BY <3>1
  <2>6. PICK size \in Nat : size = slices[k].size
      BY <1>2, <2>3
  <2>7. at[k] = IF a = k - 1 /\ b >= size
                THEN [removed |-> k, remaining |-> b - size]
                ELSE [removed |-> a, remaining |-> b]
      BY <2>4, <2>5, <2>6 DEF Removes
  <2>8. a <= k - 1 /\ b = n - Before(a) /\ (a < k - 1 => b < slices[a + 1].size)
    <3> HIDE DEF Before, D
    <3> QED BY <2>4, <2>5
  <2>9. Before(k) = Before(k - 1) + size /\ Before(k - 1) \in Int
    <3> HIDE DEF Before
    <3> QED BY <1>7, <2>3, <2>6, Zenon
  <2> HIDE DEF Before
  <2>10. PICK c \in Nat, d \in Nat : /\ at[k] = [removed |-> c, remaining |-> d]
                                     /\ c <= k /\ d = n - Before(c)
                                     /\ c < k => d < slices[c + 1].size
    <3>1. CASE a = k - 1 /\ b >= size
      <4>1. at[k] = [removed |-> k, remaining |-> b - size]
          BY <2>7, <3>1, ZenonT(30)
      <4>2. k \in Nat /\ b - size \in Nat /\ b - size = n - Before(k) /\ k <= k /\ ~(k < k)
          BY <1>2, <2>3, <2>8, <2>9, <3>1
      <4> QED BY <4>1, <4>2, Zenon
    <3>2. CASE ~(a = k - 1 /\ b >= size)
      <4>1. at[k] = [removed |-> a, remaining |-> b]
          BY <2>7, <3>2, Zenon
      <4>2. a <= k /\ (a < k - 1 \/ (a + 1 = k /\ b < size))
          BY <1>2, <2>3, <2>8, <3>2
      <4>3. b < slices[a + 1].size
          BY <2>6, <2>8, <4>2, Zenon
      <4>4. a <= k /\ b = n - Before(a) /\ (a < k => b < slices[a + 1].size)
          BY <2>8, <4>2, <4>3
      <4> QED BY <4>1, <4>4, Zenon
    <3> QED BY <3>1, <3>2, Zenon
  <2>11. at[k] \in D /\ at[k].removed = c /\ at[k].remaining = d
      BY <2>10
  <2>12. Good(k)
    <3> HIDE DEF D
    <3> QED BY <2>10, <2>11, Zenon
  <2> HIDE DEF Good
  <2> QED BY <2>1, <2>12 DEF bad
<1>9. Good(N) /\ N \in 0 .. N
  <2>1. N \in 0 .. N
      BY <1>2
  <2> HIDE DEF Good
  <2> QED BY <1>8, <2>1
<1> DEFINE r == at[N].removed
<1>10. r \in 0 .. N /\ at[N].remaining \in Nat
    BY <1>2, <1>9
<1>11. CASE r = N
  <2>1. Before(N) = total
    <3>1. CASE N = 0
      <4>1. slices = <<>>
          BY <3>1, EmptySeq DEF Tiled
      <4> QED BY <3>1, <4>1 DEF Tiled
    <3>2. CASE N # 0
      <4>1. slices # <<>>
          BY <3>2, EmptySeq
      <4>2. slices[N].first + slices[N].size = from + total
          BY <4>1 DEF Tiled
      <4>3. slices[N].first \in Nat /\ slices[N].size \in Nat
          BY <1>2, <3>2
      <4> QED BY <3>2, <4>2, <4>3
    <3> QED BY <3>1, <3>2
  <2> HIDE DEF Before
  <2> QED BY <1>1, <1>2, <1>9, <1>10, <1>11, <2>1
<1>12. CASE r # N
  <2>1. PICK k \in 1 .. N : k = r + 1 /\ k - 1 = r
    <3>1. r + 1 \in 1 .. N /\ (r + 1) - 1 = r
        BY <1>2, <1>10, <1>12
    <3> QED BY <3>1
  <2>2. slices[k].first = from + Before(k - 1) /\ Before(k - 1) \in Int
      BY <1>7
  <2> HIDE DEF Before
  <2>3. at[N].remaining = n - Before(k - 1) /\ at[N].remaining < slices[k].size
      BY <1>2, <1>9, <1>10, <1>12, <2>1
  <2> QED BY <1>1, <1>2, <1>10, <1>12, <2>1, <2>2, <2>3
<1> QED BY <1>11, <1>12

\* The first of some slices.
LEMMA PrefixTiled ==
    ASSUME NEW ss, NEW from \in Nat, NEW total \in Nat, Tiled(ss, from, total),
           NEW vs \in Seq(Segments), Len(vs) <= Len(ss), \A k \in 1 .. Len(vs) : vs[k] = ss[k]
    PROVE  \E t \in 0 .. total : Tiled(vs, from, t)
<1>1. ss \in Seq(Segments) /\ Len(ss) \in Nat /\ Len(vs) \in Nat
    BY LenProperties DEF Tiled
<1>2. CASE vs = <<>>
  <2>1. Tiled(vs, from, 0)
      BY <1>2 DEF Tiled
  <2> QED BY <2>1
<1>3. CASE vs # <<>>
  <2>0. PICK m \in Nat : m = Len(vs)
      BY <1>1
  <2> DEFINE t == ss[m].first + ss[m].size - from
  <2>1. m \in 1 .. Len(ss) /\ m \in 1 .. m /\ 1 \in 1 .. m /\ ss # <<>>
        /\ Len(ss) \in 1 .. Len(ss) /\ 1 \in 1 .. Len(ss)
      BY <1>1, <1>3, <2>0, EmptySeq
  <2>2. \A k \in 1 .. Len(ss) : ss[k].first \in Nat /\ ss[k].size \in Nat
    <3>1. \A k \in 1 .. Len(ss) : ss[k] \in Segments
        BY <1>1, ElementOfSeq
    <3> QED BY <3>1 DEF Segments
  <2>3. /\ ss[m].first \in Nat /\ ss[m].size \in Nat /\ ss[1].first \in Nat /\ ss[1].size \in Nat
        /\ ss[Len(ss)].first \in Nat /\ ss[Len(ss)].size \in Nat
      BY <2>1, <2>2
  <2>4. /\ ss[1].first = from /\ ss[Len(ss)].first + ss[Len(ss)].size = from + total
        /\ \A j, k \in 1 .. Len(ss) : j < k => ss[j].first + ss[j].size <= ss[k].first
      BY <2>1 DEF Tiled
  <2>5. t \in 0 .. total /\ ss[m].first + ss[m].size = from + t
    <3>1. from <= ss[m].first
      <4>1. CASE m = 1
          BY <2>3, <2>4, <4>1
      <4>2. CASE m # 1
        <5>2. 1 < m
          <6>1. m >= 1
              BY <2>1
          <6> QED BY <4>2, <6>1
        <5>3. ss[1].first + ss[1].size <= ss[m].first
            BY <2>1, <2>4, <5>2
        <5> QED BY <2>3, <2>4, <5>3
      <4> QED BY <4>1, <4>2
    <3>2. ss[m].first + ss[m].size <= from + total
      <4>1. CASE m = Len(ss)
          BY <2>3, <2>4, <4>1
      <4>2. CASE m # Len(ss)
        <5>1. m < Len(ss)
            BY <1>1, <2>1, <4>2
        <5>2. ss[m].first + ss[m].size <= ss[Len(ss)].first
            BY <2>1, <2>4, <5>1
        <5> QED BY <2>3, <2>4, <5>2
      <4> QED BY <4>1, <4>2
    <3>3. PICK a \in Nat, b \in Nat : a = ss[m].first /\ b = ss[m].size
        BY <2>3
    <3>4. from <= a /\ a + b <= from + total
        BY <3>1, <3>2, <3>3, Zenon
    <3>5. a + b - from \in 0 .. total /\ a + b = from + (a + b - from)
        BY <3>4
    <3> QED BY <3>3, <3>5, Zenon
  <2>6. vs[1] = ss[1] /\ vs[m] = ss[m]
      BY <2>0, <2>1
  <2>7. \A k \in 2 .. m : vs[k].first = vs[k - 1].first + vs[k - 1].size
    <3> SUFFICES ASSUME NEW k \in 2 .. m
                 PROVE  vs[k].first = vs[k - 1].first + vs[k - 1].size
        OBVIOUS
    <3>1. k \in 1 .. m /\ k - 1 \in 1 .. m /\ k \in 2 .. Len(ss)
        BY <1>1, <2>0
    <3>2. vs[k] = ss[k] /\ vs[k - 1] = ss[k - 1]
        BY <2>0, <3>1
    <3>3. ss[k].first = ss[k - 1].first + ss[k - 1].size
        BY <3>1 DEF Tiled
    <3> QED BY <3>2, <3>3
  <2>8. \A j, k \in 1 .. m : j < k => vs[j].first + vs[j].size <= vs[k].first
    <3> SUFFICES ASSUME NEW j \in 1 .. m, NEW k \in 1 .. m, j < k
                 PROVE  vs[j].first + vs[j].size <= vs[k].first
        OBVIOUS
    <3>1. j \in 1 .. Len(ss) /\ k \in 1 .. Len(ss) /\ vs[j] = ss[j] /\ vs[k] = ss[k]
        BY <1>1, <2>0
    <3>2. ss[j].first + ss[j].size <= ss[k].first
        BY <3>1 DEF Tiled
    <3> QED BY <3>1, <3>2
  <2>9. Tiled(vs, from, t)
    <3> HIDE DEF t
    <3> QED BY <1>3, <2>0, <2>4, <2>5, <2>6, <2>7, <2>8 DEF Tiled
  <2> QED BY <2>5, <2>9
<1> QED BY <1>2, <1>3

\* A slice appended where the last one ends keeps the slices without a gap.
LEMMA AppendTiled ==
    ASSUME NEW ss, NEW from \in Nat, NEW total \in Nat, Tiled(ss, from, total), NEW n \in Nat
    PROVE  Tiled(Append(ss, [first |-> from + total, size |-> n]), from, total + n)
<1> DEFINE e == [first |-> from + total, size |-> n]
           more == Append(ss, e)
           m == Len(ss)
<1>1. ss \in Seq(Segments) /\ m \in Nat
    BY LenProperties DEF Tiled
<1>2. e \in Segments /\ e.first = from + total /\ e.size = n
    BY DEF Segments
<1> HIDE DEF e
<1>3. /\ more \in Seq(Segments) /\ Len(more) = m + 1 /\ more # <<>>
      /\ more[m + 1] = e /\ \A i \in 1 .. m : more[i] = ss[i]
    BY <1>1, <1>2, AppendProperties
<1> HIDE DEF more
<1>4. ASSUME NEW j \in 1 .. m PROVE ss[j].first + ss[j].size <= from + total
  <2>1. ss # <<>> /\ m \in 1 .. m
      BY <1>1
  <2>2. ss[j] \in Segments /\ ss[m] \in Segments
      BY <1>1, <2>1, ElementOfSeq
  <2>3. ss[j].first \in Nat /\ ss[j].size \in Nat /\ ss[m].first \in Nat /\ ss[m].size \in Nat
      BY <2>2 DEF Segments
  <2>4. /\ ss[m].first + ss[m].size = from + total
        /\ j = m \/ ss[j].first + ss[j].size <= ss[m].first
      BY <1>1, <2>1 DEF Tiled
  <2> QED BY <2>3, <2>4
<1>5. more[1].first = from
  <2>1. CASE m = 0
    <3>1. ss = <<>>
        BY <1>1, <2>1, EmptySeq
    <3> QED BY <1>2, <1>3, <2>1, <3>1 DEF Tiled
  <2>2. CASE m # 0
    <3>1. ss # <<>> /\ 1 \in 1 .. m
        BY <1>1, <2>2
    <3> QED BY <1>3, <3>1 DEF Tiled
  <2> QED BY <2>1, <2>2
<1>6. ASSUME NEW k \in 2 .. m + 1 PROVE more[k].first = more[k - 1].first + more[k - 1].size
  <2>1. CASE k = m + 1
    <3>1. ss # <<>> /\ m \in 1 .. m /\ k - 1 = m
        BY <1>1, <2>1
    <3> QED BY <1>2, <1>3, <2>1, <3>1 DEF Tiled
  <2>2. CASE k # m + 1
    <3>1. k \in 2 .. m /\ k \in 1 .. m /\ k - 1 \in 1 .. m
        BY <1>1, <2>2
    <3> QED BY <1>3, <3>1 DEF Tiled
  <2> QED BY <2>1, <2>2
<1>7. ASSUME NEW j \in 1 .. m + 1, NEW k \in 1 .. m + 1, j < k
      PROVE  more[j].first + more[j].size <= more[k].first
  <2>1. j \in 1 .. m
      BY <1>1, <1>7
  <2>2. CASE k = m + 1
      BY <1>2, <1>3, <1>4, <2>1, <2>2
  <2>3. CASE k # m + 1
    <3>1. k \in 1 .. m
        BY <1>1, <2>3
    <3> QED BY <1>3, <1>7, <2>1, <3>1 DEF Tiled
  <2> QED BY <2>2, <2>3
<1>8. more[Len(more)].first + more[Len(more)].size = from + (total + n)
    BY <1>2, <1>3
<1>9. Tiled(more, from, total + n)
    BY <1>3, <1>5, <1>6, <1>7, <1>8 DEF Tiled
<1> QED BY <1>9 DEF more, e

\* After consume() the slices lie one behind the other from the first byte on that
\* was not consumed.
LEMMA ConsumeTiled ==
    ASSUME NEW from \in Nat, NEW total \in Nat, Tiled(slices, from, total), NEW n \in 1 .. total,
           ConsumeSlices(n)
    PROVE  Tiled(slices', from + n, total - n) /\ (n = total => slices' = <<>>)
<1> DEFINE N == Len(slices)
           r == Consumed(n).removed
           x == Consumed(n).remaining
           trimmed == IF x = 0 THEN slices
                      ELSE [slices EXCEPT ![r + 1] = Trimmed(@, x)]
           rest == SubSeq(trimmed, r + 1, N)
<1>1. slices' = rest
    BY Zenon DEF ConsumeSlices
<1>2. /\ r \in 0 .. N /\ x \in Nat /\ N \in Nat /\ slices \in Seq(Segments)
      /\ r = N => x = 0 /\ n = total
      /\ r # N => slices[r + 1].first + x = from + n /\ x < slices[r + 1].size
    BY ConsumedFacts, LenProperties DEF Tiled
<1>3. \A k \in 1 .. N : slices[k] \in Segments /\ slices[k].first \in Nat /\ slices[k].size \in Nat
  <2>1. \A k \in 1 .. N : slices[k] \in Segments
      BY <1>2, ElementOfSeq
  <2> QED BY <2>1 DEF Segments
<1> HIDE DEF r, x
<1>4. CASE r = N
  <2>1. slices' = <<>> /\ n = total
    <3>1. r + 1 \in Int /\ N \in Int /\ N < r + 1
        BY <1>2, <1>4
    <3> QED BY <1>1, <1>2, <1>4, <3>1, SubSeqEmpty
  <2> QED BY <2>1 DEF Tiled
<1>5. CASE r # N
  <2> DEFINE e == Trimmed(slices[r + 1], x)
             m == N - r
  <2>1. r + 1 \in 1 .. N /\ m \in Nat /\ m # 0
      BY <1>2, <1>5
  <2>2. /\ e \in Segments /\ e.first = from + n
        /\ e.first + e.size = slices[r + 1].first + slices[r + 1].size
        /\ x = 0 => slices[r + 1] = e
    <3>1. /\ slices[r + 1] \in Segments
          /\ slices[r + 1].first \in Nat /\ slices[r + 1].size \in Nat
        BY <1>3, <2>1
    <3>2. PICK s \in Segments : s = slices[r + 1]
        BY <3>1
    <3>3. s.first \in Nat /\ s.size \in Nat /\ s = [first |-> s.first, size |-> s.size]
        BY DEF Segments
    <3>4. e = [first |-> s.first + x, size |-> s.size - x]
        BY <3>2 DEF Trimmed
    <3> HIDE DEF e
    <3>5. s.first + x = from + n /\ x < s.size
        BY <1>2, <1>5, <3>2
    <3>6. s.size - x \in Nat /\ s.first + x \in Nat
        BY <1>2, <3>3, <3>5
    <3>7. e \in Segments /\ e.first = s.first + x /\ e.size = s.size - x
        BY <3>4, <3>6 DEF Segments
    <3>8. x = 0 => s.first + x = s.first /\ s.size - x = s.size
        BY <3>3
    <3>9. x = 0 => e = s
        BY <3>3, <3>4, <3>8
    <3>10. e.first + e.size = s.first + s.size
        BY <1>2, <3>3, <3>7
    <3> QED BY <3>2, <3>5, <3>7, <3>9, <3>10
  <2> HIDE DEF e
  <2>3. /\ trimmed \in Seq(Segments) /\ Len(trimmed) = N
        /\ \A k \in 1 .. N : trimmed[k] = IF k = r + 1 THEN e ELSE slices[k]
    <3>1. CASE x = 0
        BY <1>2, <2>2, <3>1
    <3>2. CASE x # 0
      <4>1. trimmed = [slices EXCEPT ![r + 1] = e]
          BY <3>2 DEF e
      <4> QED BY <1>2, <2>1, <2>2, <4>1, ExceptSeq
    <3> QED BY <3>1, <3>2
  <2> HIDE DEF trimmed
  <2>4. /\ rest \in Seq(Segments) /\ Len(rest) = m
        /\ \A k \in 1 .. m : rest[k] = IF k = 1 THEN e ELSE slices[r + k]
    <3>1. \A k \in r + 1 .. N : trimmed[k] \in Segments
      <4>1. \A k \in r + 1 .. N : k \in 1 .. N
          BY <1>2
      <4> QED BY <1>3, <2>2, <2>3, <4>1
    <3>2. /\ rest \in Seq(Segments)
          /\ Len(rest) = (IF r + 1 <= N THEN N - (r + 1) + 1 ELSE 0)
          /\ \A k \in 1 .. N - (r + 1) + 1 : rest[k] = trimmed[r + 1 + k - 1]
        BY <1>2, <3>1, SubSeqProperties
    <3>3. /\ N - (r + 1) + 1 = m /\ r + 1 <= N
          /\ \A k \in 1 .. m : r + 1 + k - 1 = r + k /\ r + k \in 1 .. N /\ (r + k = r + 1 <=> k = 1)
        BY <1>2, <2>1
    <3> HIDE DEF rest
    <3>4. Len(rest) = m
        BY <3>2, <3>3
    <3>5. ASSUME NEW k \in 1 .. m PROVE rest[k] = IF k = 1 THEN e ELSE slices[r + k]
      <4>1. rest[k] = trimmed[r + k]
          BY <3>2, <3>3
      <4>2. trimmed[r + k] = IF r + k = r + 1 THEN e ELSE slices[r + k]
          BY <2>3, <3>3
      <4> QED BY <3>3, <4>1, <4>2
    <3> QED BY <3>2, <3>4, <3>5, ZenonT(30)
  <2> HIDE DEF rest
  <2>5. rest # <<>>
      BY <2>1, <2>4
  <2>6. ASSUME NEW k \in 1 .. m
        PROVE  /\ r + k \in 1 .. N
               /\ rest[k].first + rest[k].size = slices[r + k].first + slices[r + k].size
               /\ k # 1 => rest[k].first = slices[r + k].first
    <3>1. r + k \in 1 .. N
        BY <1>2
    <3> QED BY <2>2, <2>4, <3>1
  <2>7. slices # <<>> /\ slices[N].first + slices[N].size = from + total
    <3>1. slices # <<>>
        BY <2>1
    <3> QED BY <3>1 DEF Tiled
  <2>8. rest[1].first = from + n /\ rest[m].first + rest[m].size = from + total
    <3>1. 1 \in 1 .. m /\ m \in 1 .. m /\ r + m = N
        BY <1>2, <2>1
    <3> QED BY <2>2, <2>4, <2>6, <2>7, <3>1
  <2>9. ASSUME NEW k \in 2 .. m PROVE rest[k].first = rest[k - 1].first + rest[k - 1].size
    <3>1. k \in 1 .. m /\ k - 1 \in 1 .. m /\ k # 1 /\ r + k \in 2 .. N /\ r + (k - 1) = r + k - 1
        BY <1>2, <2>1
    <3>2. PICK p \in 2 .. N : p = r + k
        BY <3>1
    <3>3. slices[p].first = slices[p - 1].first + slices[p - 1].size
        BY DEF Tiled
    <3>4. p - 1 = r + (k - 1)
        BY <1>2, <3>2
    <3>5. slices[r + k].first = slices[r + (k - 1)].first + slices[r + (k - 1)].size
        BY <3>2, <3>3, <3>4
    <3> QED BY <2>6, <3>1, <3>5
  <2>10. ASSUME NEW j \in 1 .. m, NEW k \in 1 .. m, j < k
         PROVE  rest[j].first + rest[j].size <= rest[k].first
    <3>1. k # 1 /\ r + j \in 1 .. N /\ r + k \in 1 .. N /\ r + j < r + k
        BY <1>2, <2>6, <2>10
    <3>2. slices[r + j].first + slices[r + j].size <= slices[r + k].first
        BY <3>1 DEF Tiled
    <3> QED BY <2>6, <3>1, <3>2
  <2>11. Tiled(rest, from + n, total - n)
    <3>1. from + n + (total - n) = from + total
        OBVIOUS
    <3> QED BY <2>4, <2>5, <2>8, <2>9, <2>10, <3>1 DEF Tiled
  <2>12. n # total
    <3>1. r + 1 = N \/ slices[r + 1].first + slices[r + 1].size <= slices[N].first
        BY <1>2, <2>1 DEF Tiled
    <3>2. N \in 1 .. N
        BY <1>2, <2>1
    <3>3. /\ slices[r + 1].first \in Nat /\ slices[r + 1].size \in Nat
          /\ slices[N].first \in Nat /\ slices[N].size \in Nat
        BY <1>3, <2>1, <3>2
    <3>4. slices[r + 1].first + slices[r + 1].size <= slices[N].first + slices[N].size
      <4>1. CASE r + 1 = N
          BY <3>3, <4>1
      <4>2. CASE slices[r + 1].first + slices[r + 1].size <= slices[N].first
          BY <3>3, <4>2
      <4> QED BY <3>1, <4>1, <4>2
    <3>5. slices[r + 1].first + x = from + n /\ x < slices[r + 1].size /\ x \in Nat
        BY <1>2, <1>5
    <3> QED BY <2>7, <3>3, <3>4, <3>5
  <2> QED BY <1>1, <2>11, <2>12
<1> QED BY <1>4, <1>5

-----------------------------------------------------------------------------
(* What is still to be written.                                            *)

\* Strictly rising numbers, none above `top`.
Rising(s, top) ==
    /\ s \in Seq(Nat)
    /\ \A i \in 1 .. Len(s) : s[i] <= top
    /\ \A i \in 1 .. Len(s) - 1 : s[i] < s[i + 1]

\* The next n numbers go behind.
LEMMA RisingOn ==
    ASSUME NEW s, NEW top \in Nat, Rising(s, top), NEW n \in Nat
    PROVE  Rising(s \o [i \in 1 .. n |-> top + i], top + n)
<1> DEFINE new == [i \in 1 .. n |-> top + i]
           m == Len(s)
           all == s \o new
<1>1. s \in Seq(Nat) /\ m \in Nat
    BY LenProperties DEF Rising
<1>2. new \in Seq(Nat) /\ Len(new) = n /\ \A i \in 1 .. n : new[i] = top + i
    BY FunctionIsSeq
<1> HIDE DEF new
<1>3. /\ all \in Seq(Nat) /\ Len(all) = m + n
      /\ \A i \in 1 .. m + n : all[i] = IF i <= m THEN s[i] ELSE new[i - m]
  <2>1. /\ all \in Seq(Nat) /\ Len(all) = m + Len(new)
        /\ \A i \in 1 .. m + Len(new) : all[i] = IF i <= m THEN s[i] ELSE new[i - m]
      BY <1>1, <1>2, ConcatProperties, Zenon
  <2> HIDE DEF all
  <2> QED BY <1>2, <2>1
<1> HIDE DEF all
<1>4. \A i \in 1 .. m : s[i] \in Nat /\ s[i] <= top
    BY <1>1, ElementOfSeq DEF Rising
<1>5. ASSUME NEW i \in 1 .. m + n, i > m PROVE all[i] = top + (i - m)
  <2>1. i - m \in 1 .. n /\ ~(i <= m)
      BY <1>1, <1>5
  <2> QED BY <1>2, <1>3, <2>1
<1>6. ASSUME NEW i \in 1 .. m + n, i <= m PROVE i \in 1 .. m /\ all[i] = s[i]
    BY <1>1, <1>3, <1>6
<1>7. ASSUME NEW i \in 1 .. m + n PROVE all[i] <= top + n
  <2>1. CASE i <= m
      BY <1>4, <1>6, <2>1
  <2>2. CASE i > m
      BY <1>1, <1>5, <2>2
  <2> QED BY <1>1, <2>1, <2>2
<1>8. ASSUME NEW i \in 1 .. m + n - 1 PROVE all[i] < all[i + 1]
  <2>1. i \in 1 .. m + n /\ i + 1 \in 1 .. m + n
      BY <1>1
  <2>2. CASE i + 1 <= m
    <3>1. i \in 1 .. m - 1 /\ i <= m
        BY <1>1, <2>2
    <3>2. s[i] < s[i + 1]
        BY <3>1 DEF Rising
    <3> QED BY <1>6, <2>1, <2>2, <3>1, <3>2
  <2>3. CASE i = m
    <3>1. all[i] \in Nat /\ all[i] <= top
        BY <1>1, <1>4, <1>6, <2>1, <2>3
    <3>2. all[i + 1] = top + (i + 1 - m) /\ i + 1 - m = 1
        BY <1>1, <1>5, <2>1, <2>3
    <3> QED BY <3>1, <3>2
  <2>4. CASE i > m
    <3>1. all[i] = top + (i - m) /\ i + 1 > m
        BY <1>1, <1>5, <2>1, <2>4
    <3>2. all[i + 1] = top + (i + 1 - m)
        BY <1>5, <2>1, <3>1
    <3> QED BY <1>1, <3>1, <3>2
  <2> QED BY <1>1, <2>2, <2>3, <2>4
<1>9. Rising(all, top + n)
    BY <1>3, <1>7, <1>8 DEF Rising
<1> QED BY <1>9 DEF all, new

\* A prefix of it.
LEMMA RisingPrefix ==
    ASSUME NEW s \in Seq(Nat), NEW u \in Seq(Nat), NEW top, Rising(s \o u, top)
    PROVE  Rising(s, top)
<1> DEFINE m == Len(s)
           k == Len(u)
           all == s \o u
<1>1. /\ m \in Nat /\ k \in Nat /\ Len(all) = m + k
      /\ \A i \in 1 .. m + k : all[i] = IF i <= m THEN s[i] ELSE u[i - m]
    BY LenProperties, ConcatProperties
<1> HIDE DEF all
<1>2. Rising(all, top)
    BY DEF all
<1>3. ASSUME NEW i \in 1 .. m PROVE i \in 1 .. m + k /\ all[i] = s[i]
    BY <1>1
<1>4. ASSUME NEW i \in 1 .. m PROVE s[i] <= top
    BY <1>1, <1>2, <1>3 DEF Rising
<1>5. ASSUME NEW i \in 1 .. m - 1 PROVE s[i] < s[i + 1]
  <2>1. i \in 1 .. m /\ i + 1 \in 1 .. m /\ i \in 1 .. m + k - 1
      BY <1>1
  <2>2. all[i] < all[i + 1]
      BY <1>1, <1>2, <2>1 DEF Rising
  <2> QED BY <1>3, <2>1, <2>2
<1> QED BY <1>4, <1>5 DEF Rising

\* The end of a queue to which more is appended.
LEMMA TailAppends ==
    ASSUME NEW S, NEW q \in Seq(S), NEW new \in Seq(S), NEW u \in 0 .. Len(q)
    PROVE  SubSeq(q \o new, u + 1, Len(q \o new)) = SubSeq(q, u + 1, Len(q)) \o new
<1> DEFINE m == Len(q)
           n == Len(new)
           all == q \o new
           tail == SubSeq(q, u + 1, m)
           left == SubSeq(all, u + 1, m + n)
           right == tail \o new
<1>1. /\ m \in Nat /\ n \in Nat /\ all \in Seq(S) /\ Len(all) = m + n
      /\ \A i \in 1 .. m + n : all[i] = IF i <= m THEN q[i] ELSE new[i - m]
    BY LenProperties, ConcatProperties
<1> HIDE DEF all
<1>2. /\ tail \in Seq(S) /\ Len(tail) = m - u
      /\ \A i \in 1 .. m - u : tail[i] = q[u + i]
  <2>1. u \in Nat /\ m \in Nat /\ u <= m /\ m <= Len(q)
      BY <1>1
  <2> QED BY <2>1, SubSeqFacts, Zenon
<1> HIDE DEF tail
<1>3. /\ left \in Seq(S) /\ Len(left) = m + n - u
      /\ \A i \in 1 .. m + n - u : left[i] = all[u + i]
  <2>1. PICK w \in Nat : w = m + n
      BY <1>1
  <2>2. all \in Seq(S) /\ u \in Nat /\ u <= w /\ w <= Len(all)
      BY <1>1, <2>1
  <2>3. /\ SubSeq(all, u + 1, w) \in Seq(S) /\ Len(SubSeq(all, u + 1, w)) = w - u
        /\ \A i \in 1 .. w - u : SubSeq(all, u + 1, w)[i] = all[u + i]
      BY <2>2, SubSeqFacts, Zenon
  <2> QED BY <2>1, <2>3
<1> HIDE DEF left
<1>4. /\ right \in Seq(S) /\ Len(right) = m - u + n
      /\ \A i \in 1 .. m - u + n : right[i] = IF i <= m - u THEN tail[i] ELSE new[i - (m - u)]
  <2>1. /\ right \in Seq(S) /\ Len(right) = Len(tail) + n
        /\ \A i \in 1 .. Len(tail) + n :
              right[i] = IF i <= Len(tail) THEN tail[i] ELSE new[i - Len(tail)]
      BY <1>2, ConcatProperties, Zenon
  <2> HIDE DEF right
  <2> QED BY <1>2, <2>1
<1> HIDE DEF right
<1>5. ASSUME NEW i \in 1 .. m + n - u PROVE left[i] = right[i]
  <2>1. /\ u + i \in 1 .. m + n /\ i \in 1 .. m - u + n
        /\ u + i <= m <=> i <= m - u
        /\ u + i - m = i - (m - u)
        /\ i <= m - u => i \in 1 .. m - u
      BY <1>1
  <2>2. left[i] = IF i <= m - u THEN q[u + i] ELSE new[i - (m - u)]
    <3>1. all[u + i] = IF u + i <= m THEN q[u + i] ELSE new[u + i - m]
        BY <1>1, <2>1
    <3> QED BY <1>3, <2>1, <3>1
  <2>3. right[i] = IF i <= m - u THEN tail[i] ELSE new[i - (m - u)]
      BY <1>4, <2>1
  <2> QED BY <1>2, <2>1, <2>2, <2>3
<1>6. Len(left) = Len(right)
    BY <1>1, <1>3, <1>4
<1>7. left = right
    BY <1>3, <1>4, <1>5, <1>6, SeqEqual, ZenonT(30)
<1>8. left = SubSeq(q \o new, u + 1, Len(q \o new))
    BY <1>1, Zenon DEF left, all
<1> QED BY <1>7, <1>8, Zenon DEF right, tail

-----------------------------------------------------------------------------
(* The invariant.  The slices lie at the front of the readable bytes, the  *)
(* vectors are a prefix of them until they are written, and a block is     *)
(* awaited only while no slice is held.                                    *)

SliceInv ==
    /\ bytes \in 0 .. Size
    /\ Tiled(slices, readOffset, bytes)
    /\ ~Idle => slices = <<>>
    /\ unconsumed \in 0 .. bytes
    /\ vectors \in Seq(Segments)
    /\ Len(vectors) <= Len(slices)
    /\ \A k \in 1 .. Len(vectors) : vectors[k] = slices[k]
    /\ unconsumed # 0 => vectors = <<>>

\* The wire, and behind it what is still to be written.
Ahead == wire \o SubSeq(Queue, unconsumed + 1, Len(Queue))

AheadInv == wire \in Seq(0 .. MaxBytes) /\ Rising(Ahead, produced)

OutputInv == BufferInv /\ SliceInv /\ AheadInv

\* What the two invariants promise.
LEMMA OutputInvSuffices == OutputInv => ResourcesExact /\ OutputInOrder
<1> SUFFICES ASSUME OutputInv PROVE ResourcesExact /\ OutputInOrder
    OBVIOUS
<1>1. ResourcesExact
    BY DEF OutputInv, BufferInv, ResourcesExact
<1>2. Shown(slices) = SubSeq(Queue, 1, bytes)
    BY ShownIsFront, Zenon DEF OutputInv, SliceInv
<1>3. Ahead = wire \o SubSeq(Queue, unconsumed + 1, Size)
  <2>1. Len(Queue) = Size
      BY QueueFacts DEF OutputInv
  <2> QED BY <2>1, Zenon DEF Ahead
<1>4. \A i \in 1 .. Len(Ahead) - 1 : Ahead[i] < Ahead[i + 1]
    BY Zenon DEF OutputInv, AheadInv, Rising
<1> HIDE DEF Ahead
<1>5. OutputInOrder
    BY <1>2, <1>3, <1>4, Zenon DEF OutputInOrder
<1> QED BY <1>1, <1>5

\* No slice, no byte on the wire.
LEMMA OutputInitial == OutputInit => OutputInv
<1> SUFFICES ASSUME OutputInit PROVE OutputInv
    OBVIOUS
<1>1. BufferInv
    BY BufferInitial DEF OutputInit
<1>2. SliceInv
  <2>1. slices = <<>> /\ bytes = 0 /\ vectors = <<>> /\ unconsumed = 0 /\ Size = 0 /\ Idle
      BY DEF OutputInit, Init, Size, Idle
  <2> QED BY <2>1 DEF SliceInv, Tiled
<1>3. AheadInv
  <2>1. wire = <<>> /\ unconsumed = 0 /\ Size = 0
      BY DEF OutputInit, Init, Size
  <2>2. Queue = <<>>
      BY <2>1 DEF Queue
  <2>3. SubSeq(Queue, unconsumed + 1, Len(Queue)) = <<>>
      BY <2>1, <2>2
  <2>4. Ahead = <<>>
      BY <2>1, <2>3 DEF Ahead
  <2> QED BY <2>1, <2>4 DEF AheadInv, Rising
<1> QED BY <1>1, <1>2, <1>3 DEF OutputInv

\* Steps that leave the readable bytes alone.
LEMMA AheadStays ==
    ASSUME AheadInv, Queue' = Queue, produced' = produced, UNCHANGED <<wire, unconsumed>>
    PROVE  AheadInv'
<1>1. Ahead' = Ahead
    BY Zenon DEF Ahead
<1> HIDE DEF Ahead
<1> QED BY <1>1 DEF AheadInv

\* The number of readable bytes is a number.
LEMMA SizeIsNat == BufferInv => Size \in Nat
BY QueueFacts

\* The readable bytes are a sequence of committed bytes.
LEMMA QueueIsSeq == BufferInv => Queue \in Seq(0 .. MaxBytes)
BY QueueFacts

\* Steps of the buffer keep what the slices show where it is.
LEMMA SlicesStay ==
    ASSUME SliceInv, BufferInv', UNCHANGED sliceVars,
           \/ slices = <<>>
           \/ readOffset' = readOffset /\ Size' \in Nat /\ Size <= Size' /\ Size \in Nat
              /\ Idle' = Idle
    PROVE  SliceInv'
<1>1. CASE slices = <<>>
  <2>1. bytes = 0
      BY <1>1 DEF SliceInv, Tiled
  <2>2. slices' = <<>> /\ bytes' = 0 /\ unconsumed' = unconsumed /\ vectors' = vectors
      BY <1>1, <2>1 DEF sliceVars
  <2>3. Tiled(slices', readOffset', bytes')
      BY <2>2 DEF Tiled
  <2>4. bytes' \in 0 .. Size'
    <3>3. (Size \in Nat)'
        BY SizeIsNat, PTL
    <3>4. PICK w \in Nat : w = Size'
        BY <3>3
    <3>5. bytes' \in 0 .. w
        BY <2>2
    <3> QED BY <3>4, <3>5
  <2> QED BY <1>1, <2>1, <2>2, <2>3, <2>4 DEF SliceInv
<1>2. CASE slices # <<>>
  <2>1. readOffset' = readOffset /\ Size' \in Nat /\ Size <= Size' /\ Size \in Nat
        /\ Idle' = Idle
      BY <1>2
  <2>2. slices' = slices /\ bytes' = bytes /\ unconsumed' = unconsumed /\ vectors' = vectors
      BY DEF sliceVars
  <2>3. Tiled(slices', readOffset', bytes')
      BY <2>1, <2>2 DEF SliceInv
  <2>4. bytes' \in 0 .. Size'
      BY <2>1, <2>2 DEF SliceInv
  <2> HIDE DEF Size, Idle
  <2> QED BY <1>2, <2>1, <2>2, <2>3, <2>4 DEF SliceInv
<1> QED BY <1>1, <1>2

\* A front, a front of a front, and a queue cut in two.
LEMMA FrontFacts ==
    ASSUME NEW V, NEW q \in Seq(V), NEW t \in Nat, t <= Len(q)
    PROVE  /\ SubSeq(q, 1, t) \in Seq(V) /\ Len(SubSeq(q, 1, t)) = t
           /\ \A i \in 1 .. t : SubSeq(q, 1, t)[i] = q[i]
<1>1. PICK z \in Nat : z = 0
    OBVIOUS
<1>2. z <= t
    BY <1>1
<1>3. z + 1 = 1 /\ t - z = t /\ \A i \in 1 .. t : z + i = i
    BY <1>1
<1>4. /\ SubSeq(q, z + 1, t) \in Seq(V) /\ Len(SubSeq(q, z + 1, t)) = t - z
      /\ \A i \in 1 .. t - z : SubSeq(q, z + 1, t)[i] = q[z + i]
    BY <1>2, SubSeqFacts, Zenon
<1> QED BY <1>3, <1>4

\* The front of a longer front.
LEMMA FrontOfFront ==
    ASSUME NEW V, NEW q \in Seq(V), NEW t \in Nat, t <= Len(q), NEW n \in Nat, n <= t
    PROVE  SubSeq(SubSeq(q, 1, t), 1, n) = SubSeq(q, 1, n)
<1> DEFINE front == SubSeq(q, 1, t)
           left == SubSeq(front, 1, n)
           right == SubSeq(q, 1, n)
<1>1. n <= Len(q) /\ \A i \in 1 .. n : i \in 1 .. t
    BY LenProperties
<1>2. front \in Seq(V) /\ Len(front) = t /\ \A i \in 1 .. t : front[i] = q[i]
    BY FrontFacts, Zenon
<1>3. right \in Seq(V) /\ Len(right) = n /\ \A i \in 1 .. n : right[i] = q[i]
    BY <1>1, FrontFacts, Zenon
<1> HIDE DEF front
<1>4. left \in Seq(V) /\ Len(left) = n /\ \A i \in 1 .. n : left[i] = front[i]
  <2>1. n <= Len(front)
      BY <1>2
  <2> QED BY <1>2, <2>1, FrontFacts, Zenon
<1> HIDE DEF left, right
<1>5. left = right
    BY <1>1, <1>2, <1>3, <1>4, SeqEqual
<1> QED BY <1>5, Zenon DEF left, right, front

\* A sequence is its front and the rest.
LEMMA FrontAndTail ==
    ASSUME NEW V, NEW q \in Seq(V), NEW n \in Nat, n <= Len(q)
    PROVE  /\ SubSeq(q, 1, n) \o SubSeq(q, n + 1, Len(q)) = SubSeq(q, 1, Len(q))
           /\ SubSeq(q, 1, n) \in Seq(V) /\ SubSeq(q, n + 1, Len(q)) \in Seq(V)
<1> DEFINE front == SubSeq(q, 1, n)
           tail == SubSeq(q, n + 1, Len(q))
           left == front \o tail
<1>1. Len(q) \in Nat
    BY LenProperties
<1>2. PICK m \in Nat : m = Len(q)
    BY <1>1
<1>3. n <= m /\ m <= Len(q)
    BY <1>2
<1>4. front \in Seq(V) /\ Len(front) = n /\ \A i \in 1 .. n : front[i] = q[i]
    BY FrontFacts, Zenon
<1>5. tail \in Seq(V) /\ Len(tail) = m - n /\ \A i \in 1 .. m - n : tail[i] = q[n + i]
  <2>1. /\ SubSeq(q, n + 1, m) \in Seq(V) /\ Len(SubSeq(q, n + 1, m)) = m - n
        /\ \A i \in 1 .. m - n : SubSeq(q, n + 1, m)[i] = q[n + i]
      BY <1>3, SubSeqFacts, Zenon
  <2>2. tail = SubSeq(q, n + 1, m)
      BY <1>2
  <2> HIDE DEF tail
  <2> QED BY <2>1, <2>2, Zenon
<1> HIDE DEF front, tail
<1>6. /\ left \in Seq(V) /\ Len(left) = n + (m - n)
      /\ \A i \in 1 .. n + (m - n) : left[i] = IF i <= n THEN front[i] ELSE tail[i - n]
  <2>1. /\ left \in Seq(V) /\ Len(left) = Len(front) + Len(tail)
        /\ \A i \in 1 .. Len(front) + Len(tail) :
              left[i] = IF i <= Len(front) THEN front[i] ELSE tail[i - Len(front)]
      BY <1>4, <1>5, ConcatProperties, Zenon
  <2> HIDE DEF left
  <2> QED BY <1>4, <1>5, <2>1
<1> HIDE DEF left
<1>7. ASSUME NEW i \in 1 .. m PROVE left[i] = q[i]
  <2>1. i \in 1 .. n + (m - n)
      BY <1>3
  <2>2. CASE i <= n
    <3>1. i \in 1 .. n
        BY <2>2
    <3> QED BY <1>4, <1>6, <2>1, <2>2, <3>1
  <2>3. CASE ~(i <= n)
    <3>1. i - n \in 1 .. m - n /\ n + (i - n) = i
        BY <1>3, <2>3
    <3>2. tail[i - n] = q[n + (i - n)]
        BY <1>5, <3>1
    <3>3. left[i] = tail[i - n]
        BY <1>6, <2>1, <2>3
    <3> QED BY <3>1, <3>2, <3>3
  <2> QED BY <2>2, <2>3
<1>8. Len(left) = Len(q)
    BY <1>2, <1>3, <1>6
<1>9. left = q
    BY <1>2, <1>6, <1>7, <1>8, SeqEqual
<1>10. SubSeq(q, 1, Len(q)) = q
    BY SubSeqFull, Zenon
<1> QED BY <1>4, <1>5, <1>9, <1>10, Zenon DEF left, front, tail

\* A larger queue: the new bytes go behind what is ahead.
LEMMA CommitKeepsAhead ==
    ASSUME OutputInv, BufferInv', NEW n \in 1 .. MaximumCapacity, Commit(n), UNCHANGED sliceVars
    PROVE  AheadInv'
<1> DEFINE new == [i \in 1 .. n |-> produced + i]
           B == 0 .. MaxBytes
           tail == SubSeq(Queue, unconsumed + 1, Len(Queue))
<1>1. /\ Queue' = Queue \o new /\ produced' = produced + n /\ n <= MaxBytes - produced
      /\ wire' = wire /\ unconsumed' = unconsumed
  <2>1. BufferInv
      BY DEF OutputInv
  <2>2. Queue' = Queue \o new /\ produced' = produced + n /\ n <= MaxBytes - produced
      BY <2>1, CommitAppends, Zenon
  <2>3. wire' = wire /\ unconsumed' = unconsumed
      BY DEF sliceVars
  <2> QED BY <2>2, <2>3, Zenon
<1>2. /\ Queue \in Seq(B) /\ Len(Queue) = Size /\ Size \in Nat /\ produced \in Nat /\ MaxBytes \in Nat
      /\ unconsumed \in 0 .. Len(Queue) /\ unconsumed \in Nat /\ wire \in Seq(B) /\ n \in Nat
  <2>1. Queue \in Seq(B) /\ Len(Queue) = Size /\ Size \in Nat
      BY QueueFacts DEF OutputInv
  <2>2. produced \in Nat /\ MaxBytes \in Nat /\ n \in Nat /\ wire \in Seq(B)
      BY BufferAssumption DEF OutputInv, BufferInv, TypeOK, AheadInv
  <2>3. unconsumed \in 0 .. Len(Queue) /\ unconsumed \in Nat
      BY <2>1 DEF OutputInv, SliceInv
  <2> QED BY <2>1, <2>2, <2>3
<1>3. new \in Seq(B)
  <2>1. new \in [1 .. n -> B]
      BY <1>1, <1>2
  <2> HIDE DEF new
  <2> QED BY <1>2, <2>1, FunctionIsSeq, Zenon
<1>4. tail \in Seq(B)
  <2>1. unconsumed <= Len(Queue) /\ Len(Queue) <= Len(Queue) /\ Len(Queue) \in Nat
      BY <1>2
  <2> QED BY <1>2, <2>1, SubSeqFacts, Zenon
<1>5. Ahead' = Ahead \o new
  <2>1. SubSeq(Queue \o new, unconsumed + 1, Len(Queue \o new)) = tail \o new
    <3> HIDE DEF new
    <3> QED BY <1>2, <1>3, TailAppends, Zenon
  <2>2. Ahead' = wire \o (tail \o new)
    <3> HIDE DEF new, tail
    <3> QED BY <1>1, <2>1, Zenon DEF Ahead
  <2>3. Ahead = wire \o tail
      BY Zenon DEF Ahead
  <2> HIDE DEF new, tail
  <2>4. (wire \o tail) \o new = wire \o (tail \o new)
    <3>1. wire \in Seq(B)
        BY <1>2
    <3> HIDE DEF B
    <3>2. \A a, b, c \in Seq(B) : (a \o b) \o c = a \o (b \o c)
        BY ConcatAssociative
    <3> QED BY <1>3, <1>4, <3>1, <3>2, Zenon
  <2> QED BY <2>2, <2>3, <2>4, Zenon
<1>6. Rising(Ahead \o new, produced + n)
    BY <1>2, RisingOn, Zenon DEF OutputInv, AheadInv
<1> HIDE DEF new, Ahead
<1>7. Rising(Ahead', produced')
    BY <1>1, <1>5, <1>6, Zenon
<1> QED BY <1>1, <1>2, <1>7, Zenon DEF AheadInv

\* What release() drops was not written: the wire stays in order.
LEMMA ReleaseKeepsAhead ==
    ASSUME OutputInv, slices = <<>>, Release, UNCHANGED sliceVars
    PROVE  AheadInv'
<1> DEFINE B == 0 .. MaxBytes
           tail == SubSeq(Queue, unconsumed + 1, Len(Queue))
<1>1. Queue' = <<>> /\ produced' = produced /\ wire' = wire /\ unconsumed' = 0 /\ unconsumed = 0
  <2>1. Queue' = <<>> /\ produced' = produced
      BY ReleaseClears DEF OutputInv
  <2>2. wire' = wire /\ unconsumed' = unconsumed
      BY DEF sliceVars
  <2>3. unconsumed = 0
      BY DEF OutputInv, SliceInv, Tiled
  <2> QED BY <2>1, <2>2, <2>3
<1>2. Queue \in Seq(B) /\ Len(Queue) \in Nat /\ wire \in Seq(B) /\ MaxBytes \in Nat
    BY QueueFacts, BufferAssumption DEF OutputInv, AheadInv
<1>3. B \subseteq Nat
    BY <1>2
<1>4. tail \in Seq(B)
  <2>1. unconsumed \in Nat /\ unconsumed <= Len(Queue) /\ Len(Queue) <= Len(Queue)
      BY <1>1, <1>2
  <2> QED BY <1>2, <2>1, SubSeqFacts, Zenon
<1>5. wire \in Seq(Nat) /\ tail \in Seq(Nat)
  <2> HIDE DEF tail
  <2> QED BY <1>2, <1>3, <1>4
<1>6. Rising(wire \o tail, produced)
    BY Zenon DEF OutputInv, AheadInv, Ahead
<1>7. Rising(wire, produced)
  <2> HIDE DEF tail
  <2> QED BY <1>5, <1>6, RisingPrefix, Zenon
<1>8. Ahead' = wire
  <2>1. SubSeq(<<>>, 1, 0) = <<>> /\ Len(<<>>) = 0 /\ 0 + 1 = 1
      OBVIOUS
  <2>2. Ahead' = wire \o <<>>
    <3>1. Ahead' = wire' \o SubSeq(Queue', unconsumed' + 1, Len(Queue'))
        BY Zenon DEF Ahead
    <3> HIDE DEF Queue, Ahead
    <3> QED BY <1>1, <2>1, <3>1, Zenon
  <2>3. wire \o <<>> = wire
      BY <1>2, ConcatEmptySeq, Zenon
  <2> QED BY <2>2, <2>3, Zenon
<1> HIDE DEF Ahead
<1> QED BY <1>1, <1>2, <1>7, <1>8 DEF AheadInv

\* The buffer's own steps.
LEMMA BufferStepKeeps == ASSUME OutputInv, BufferStep PROVE OutputInv'
<1> DEFINE free == \/ \E n \in 1 .. MaximumCapacity : ReserveCompacts(n) \/ ReserveGrows(n)
                   \/ Compact \/ Release
           kept == \/ \E n \in 1 .. MaximumCapacity : ReserveInPlace(n) \/ Commit(n)
                   \/ \E size \in OtherSizes : OthersCharge(size)
<1>1. UNCHANGED sliceVars /\ (kept \/ (slices = <<>> /\ free))
    BY Zenon DEF BufferStep
<1>2. BufferInv /\ SliceInv /\ AheadInv
    BY DEF OutputInv
<1>3. BufferInv'
  <2>1. ASSUME NEW n \in 1 .. MaximumCapacity, ReserveStep(n) PROVE BufferInv'
      BY <1>2, <2>1, BufferReserves, Zenon
  <2>2. ASSUME \/ \E n \in 1 .. MaximumCapacity : Commit(n) \/ Consume(n)
               \/ Compact \/ Release
               \/ \E size \in OtherSizes : OthersCharge(size)
        PROVE  BufferInv'
      BY <1>2, <2>2, BufferMoves, Zenon
  <2> QED BY <1>1, <2>1, <2>2, Zenon DEF ReserveStep
<1>4. SliceInv'
  <2>1. CASE slices = <<>>
      BY <1>1, <1>2, <1>3, <2>1, SlicesStay, Zenon
  <2>2. CASE kept
    <3>1. readOffset' = readOffset /\ Size' \in Nat /\ Size <= Size' /\ Size \in Nat /\ Idle' = Idle
      <4>1. CASE \E n \in 1 .. MaximumCapacity : ReserveInPlace(n)
          BY <1>2, <4>1 DEF BufferInv, TypeOK, Size, Idle, ReserveInPlace
      <4>2. CASE \E n \in 1 .. MaximumCapacity : Commit(n)
        <5>1. PICK n \in 1 .. MaximumCapacity : Commit(n)
            BY <4>2
        <5>2. /\ readOffset' = readOffset /\ writeOffset' = writeOffset + n /\ target' = target
              /\ n \in Nat /\ MaximumCapacity \in Nat
            BY <5>1, BufferAssumption DEF Commit
        <5> QED BY <1>2, <5>2 DEF BufferInv, TypeOK, Size, Idle
      <4>3. CASE \E size \in OtherSizes : OthersCharge(size)
          BY <1>2, <4>3 DEF BufferInv, TypeOK, Size, Idle, OthersCharge
      <4> QED BY <2>2, <4>1, <4>2, <4>3, Zenon
    <3> QED BY <1>1, <1>2, <1>3, <3>1, SlicesStay, Zenon
  <2> QED BY <1>1, <2>1, <2>2, Zenon
<1>5. AheadInv'
  <2>1. ASSUME NEW n \in 1 .. MaximumCapacity, Commit(n) PROVE AheadInv'
      BY <1>1, <1>3, <2>1, CommitKeepsAhead, Zenon
  <2>2. ASSUME slices = <<>>, Release PROVE AheadInv'
      BY <1>1, <2>2, ReleaseKeepsAhead, Zenon
  <2>3. ASSUME \/ \E n \in 1 .. MaximumCapacity : ReserveStep(n)
               \/ Compact
               \/ \E size \in OtherSizes : OthersCharge(size)
        PROVE  AheadInv'
    <3>1. Queue' = Queue /\ produced' = produced
        BY <1>2, <2>3, QueueStays, Zenon
    <3>2. UNCHANGED <<wire, unconsumed>>
        BY <1>1 DEF sliceVars
    <3> QED BY <1>2, <3>1, <3>2, AheadStays, Zenon
  <2> QED BY <1>1, <2>1, <2>2, <2>3, Zenon DEF ReserveStep
<1> QED BY <1>3, <1>4, <1>5 DEF OutputInv

\* Growing into another block keeps the bytes that the slices show.
LEMMA AcquiresKeeps == ASSUME OutputInv, Acquires PROVE OutputInv'
<1>1. BufferInv /\ SliceInv /\ AheadInv /\ UNCHANGED sliceVars
    BY DEF OutputInv, Acquires
<1>2. AcquireFails \/ \E b \in Blocks : AcquireTooSmall(b) \/ AcquireSucceeds(b)
    BY Zenon DEF Acquires
<1>3. BufferInv'
    BY <1>1, <1>2, BufferGrows, Zenon
<1>4. slices = <<>>
  <2>1. ~Idle
      BY <1>2, Zenon DEF AcquireFails, AcquireTooSmall, AcquireSucceeds
  <2> QED BY <1>1, <2>1, Zenon DEF SliceInv
<1>5. SliceInv'
    BY <1>1, <1>3, <1>4, SlicesStay, Zenon
<1>6. AheadInv'
  <2>1. Queue' = Queue /\ produced' = produced
      BY <1>1, <1>2, QueueStays, Zenon
  <2>2. UNCHANGED <<wire, unconsumed>>
      BY <1>1 DEF sliceVars
  <2> QED BY <1>1, <2>1, <2>2, AheadStays, Zenon
<1> QED BY <1>3, <1>5, <1>6 DEF OutputInv

\* The writer appends a view of the next bytes.
LEMMA AppendKeeps == ASSUME OutputInv, Appends PROVE OutputInv'
<1>1. PICK n \in 1 .. MaximumCapacity : AppendSlice(n)
    BY DEF Appends
<1>2. BufferInv /\ SliceInv /\ AheadInv
    BY DEF OutputInv
<1>3. UNCHANGED vars /\ UNCHANGED <<vectors, unconsumed, wire>>
    BY <1>1 DEF AppendSlice
<1>4. BufferInv' /\ Size' = Size /\ Idle' = Idle /\ readOffset' = readOffset
      /\ Queue' = Queue /\ produced' = produced
    BY <1>2, <1>3, BufferStutters, Zenon
<1>5. AheadInv'
    BY <1>2, <1>3, <1>4, AheadStays, Zenon
<1>6. /\ n \in Nat /\ readOffset \in Nat /\ Size \in Nat /\ bytes \in Nat /\ bytes <= Size
      /\ n <= Size - bytes /\ Idle
      /\ bytes' = bytes + n
      /\ slices' = Append(slices, [first |-> readOffset + bytes, size |-> n])
  <2>1. n \in Nat /\ readOffset \in Nat
      BY <1>2, BufferAssumption DEF BufferInv, TypeOK
  <2>2. Size \in Nat
      BY <1>2, SizeIsNat
  <2>3. bytes \in Nat /\ bytes <= Size
      BY <1>2, <2>2 DEF SliceInv
  <2>4. /\ n <= Size - bytes /\ Idle /\ bytes' = bytes + n
        /\ slices' = Append(slices, [first |-> readOffset + bytes, size |-> n])
      BY <1>1, Zenon DEF AppendSlice
  <2> QED BY <2>1, <2>2, <2>3, <2>4, Zenon
<1>7. Tiled(slices', readOffset', bytes')
  <2>1. Tiled(slices, readOffset, bytes)
      BY <1>2, Zenon DEF SliceInv
  <2>2. Tiled(Append(slices, [first |-> readOffset + bytes, size |-> n]), readOffset, bytes + n)
      BY <1>6, <2>1, AppendTiled, Zenon
  <2> QED BY <1>4, <1>6, <2>2, Zenon
<1>8. bytes' \in 0 .. Size' /\ unconsumed' \in 0 .. bytes'
  <2>1. unconsumed \in 0 .. bytes
      BY <1>2 DEF SliceInv
  <2> HIDE DEF Size
  <2> QED BY <1>3, <1>4, <1>6, <2>1
<1>9. Len(slices') = Len(slices) + 1 /\ Len(slices) \in Nat
      /\ \A k \in 1 .. Len(slices) : slices'[k] = slices[k]
  <2>1. slices \in Seq(Segments)
      BY <1>2 DEF SliceInv, Tiled
  <2>2. [first |-> readOffset + bytes, size |-> n] \in Segments
      BY <1>6 DEF Segments
  <2>3. PICK e \in Segments : e = [first |-> readOffset + bytes, size |-> n]
      BY <2>2
  <2>4. slices' = Append(slices, e)
      BY <1>6, <2>3, Zenon
  <2> QED BY <2>1, <2>4, AppendProperties, LenProperties
<1>10. vectors \in Seq(Segments) /\ Len(vectors) \in Nat /\ Len(vectors) <= Len(slices)
       /\ (\A k \in 1 .. Len(vectors) : vectors[k] = slices[k])
       /\ (unconsumed # 0 => vectors = <<>>)
    BY <1>2, LenProperties DEF SliceInv
<1>11. Len(vectors) <= Len(slices') /\ \A k \in 1 .. Len(vectors) : vectors[k] = slices'[k]
    BY <1>9, <1>10
<1>12. SliceInv'
  <2>1. vectors' = vectors /\ unconsumed' = unconsumed
      BY <1>3
  <2> HIDE DEF Size, Idle
  <2> QED BY <1>4, <1>6, <1>7, <1>8, <1>10, <1>11, <2>1 DEF SliceInv
<1> QED BY <1>4, <1>5, <1>12 DEF OutputInv

\* translate_iovecs changes no slice.
LEMMA TranslateKeeps == ASSUME OutputInv, TranslateIovecs PROVE OutputInv'
<1>1. BufferInv /\ SliceInv /\ AheadInv
    BY DEF OutputInv
<1>2. /\ UNCHANGED vars /\ UNCHANGED <<slices, bytes, unconsumed, wire>>
      /\ vectors' = slices /\ unconsumed = 0
    BY DEF TranslateIovecs, Translation
<1>3. BufferInv' /\ Size' = Size /\ Idle' = Idle /\ readOffset' = readOffset
      /\ Queue' = Queue /\ produced' = produced
    BY <1>1, <1>2, BufferStutters, Zenon
<1>4. AheadInv'
    BY <1>1, <1>2, <1>3, AheadStays, Zenon
<1>5. SliceInv'
  <2>1. slices \in Seq(Segments) /\ Len(slices) \in Nat
      BY <1>1, LenProperties DEF SliceInv, Tiled
  <2> HIDE DEF Size, Idle
  <2> QED BY <1>1, <1>2, <1>3, <2>1 DEF SliceInv
<1> QED BY <1>3, <1>4, <1>5 DEF OutputInv

\* The kernel writes the front of what is ahead.
LEMMA WrittenKeeps == ASSUME OutputInv, Writes PROVE OutputInv'
<1> DEFINE B == 0 .. MaxBytes
<1>1. PICK n \in 1 .. MaximumCapacity : Written(n)
    BY DEF Writes
<1>2. BufferInv /\ SliceInv /\ AheadInv
    BY DEF OutputInv
<1>3. /\ UNCHANGED vars /\ UNCHANGED <<slices, bytes>> /\ vectors' = <<>> /\ unconsumed' = n
      /\ n <= Len(Shown(vectors)) /\ wire' = wire \o SubSeq(Shown(vectors), 1, n)
    BY <1>1, Zenon DEF Written
<1>4. BufferInv' /\ Size' = Size /\ Idle' = Idle /\ readOffset' = readOffset
      /\ Queue' = Queue /\ produced' = produced
    BY <1>2, <1>3, BufferStutters, Zenon
<1>5. /\ n \in Nat /\ n # 0 /\ Size \in Nat /\ readOffset \in Nat /\ bytes \in Nat /\ bytes <= Size
      /\ Queue \in Seq(B) /\ Len(Queue) = Size /\ wire \in Seq(B)
  <2>1. n \in Nat /\ n # 0 /\ readOffset \in Nat
      BY <1>2, BufferAssumption DEF BufferInv, TypeOK
  <2>2. Size \in Nat /\ Queue \in Seq(B) /\ Len(Queue) = Size
      BY <1>2, QueueFacts
  <2>3. bytes \in Nat /\ bytes <= Size
      BY <1>2, <2>2 DEF SliceInv
  <2>4. wire \in Seq(B)
      BY <1>2 DEF AheadInv
  <2> QED BY <2>1, <2>2, <2>3, <2>4
<1>6. PICK t \in 0 .. bytes : Tiled(vectors, readOffset, t)
  <2>1. /\ Tiled(slices, readOffset, bytes) /\ vectors \in Seq(Segments)
        /\ Len(vectors) <= Len(slices) /\ \A k \in 1 .. Len(vectors) : vectors[k] = slices[k]
      BY <1>2, Zenon DEF SliceInv
  <2> QED BY <1>5, <2>1, PrefixTiled, Zenon
<1>7. t \in Nat /\ t <= bytes /\ t \in 0 .. Size
    BY <1>5
<1>8. Shown(vectors) = SubSeq(Queue, 1, t)
    BY <1>2, <1>6, <1>7, ShownIsFront, Zenon
<1>9. /\ SubSeq(Queue, 1, t) \in Seq(B) /\ Len(SubSeq(Queue, 1, t)) = t
      /\ \A i \in 1 .. t : SubSeq(Queue, 1, t)[i] = Queue[i]
  <2>1. t <= Len(Queue)
      BY <1>5, <1>7
  <2> HIDE DEF B, Queue
  <2> QED BY <1>5, <1>7, <2>1, FrontFacts, Zenon
<1>10. n <= t /\ n <= bytes /\ n <= Len(Queue)
    BY <1>3, <1>5, <1>7, <1>8, <1>9
<1>11. SubSeq(Shown(vectors), 1, n) = SubSeq(Queue, 1, n)
  <2>1. t <= Len(Queue)
      BY <1>5, <1>7
  <2> HIDE DEF B, Queue
  <2>2. SubSeq(SubSeq(Queue, 1, t), 1, n) = SubSeq(Queue, 1, n)
      BY <1>5, <1>7, <1>10, <2>1, FrontOfFront, Zenon
  <2> QED BY <1>8, <2>2, Zenon
<1>12. Ahead' = Ahead
  <2> DEFINE tail == SubSeq(Queue, n + 1, Len(Queue))
  <2>1. SubSeq(Queue, 1, n) \o tail = SubSeq(Queue, 1, Len(Queue))
        /\ SubSeq(Queue, 1, n) \in Seq(B) /\ tail \in Seq(B)
      BY <1>5, <1>10, FrontAndTail, Zenon
  <2>2. unconsumed = 0
    <3>1. vectors # <<>>
      <4>1. t # 0
          BY <1>5, <1>7, <1>10
      <4> QED BY <1>6, <4>1 DEF Tiled
    <3> QED BY <1>2, <3>1 DEF SliceInv
  <2>3. Ahead = wire \o SubSeq(Queue, 1, Len(Queue))
    <3>1. Ahead = wire \o SubSeq(Queue, unconsumed + 1, Len(Queue))
        BY Zenon DEF Ahead
    <3>2. unconsumed + 1 = 1
        BY <2>2
    <3> QED BY <3>1, <3>2, Zenon
  <2>4. Ahead' = (wire \o SubSeq(Queue, 1, n)) \o tail
    <3>1. Ahead' = wire' \o SubSeq(Queue', unconsumed' + 1, Len(Queue'))
        BY Zenon DEF Ahead
    <3> HIDE DEF Queue, Ahead
    <3> QED BY <1>3, <1>4, <1>11, <3>1, Zenon
  <2>5. (wire \o SubSeq(Queue, 1, n)) \o tail = wire \o (SubSeq(Queue, 1, n) \o tail)
    <3> HIDE DEF B, tail, Queue
    <3>1. \A a, b, c \in Seq(B) : (a \o b) \o c = a \o (b \o c)
        BY ConcatAssociative
    <3> QED BY <1>5, <2>1, <3>1, Zenon
  <2> HIDE DEF tail, Ahead, Queue
  <2> QED BY <2>1, <2>3, <2>4, <2>5, Zenon
<1>13. wire' \in Seq(B)
  <2>1. SubSeq(Queue, 1, n) \in Seq(B)
      BY <1>5, <1>10, FrontAndTail, Zenon
  <2> HIDE DEF Queue, B
  <2>2. \A a, b \in Seq(B) : a \o b \in Seq(B)
      BY ConcatProperties
  <2> QED BY <1>3, <1>5, <1>11, <2>1, <2>2, Zenon
<1>14. AheadInv'
  <2> HIDE DEF Ahead
  <2> QED BY <1>2, <1>4, <1>12, <1>13 DEF AheadInv
<1>15. SliceInv'
  <2>1. slices \in Seq(Segments) /\ Len(slices) \in Nat
      BY <1>2, LenProperties DEF SliceInv, Tiled
  <2> HIDE DEF Size, Idle
  <2> QED BY <1>2, <1>3, <1>4, <1>5, <1>10, <2>1 DEF SliceInv
<1> QED BY <1>4, <1>14, <1>15 DEF OutputInv

\* What was written leaves the list and the buffer, and what is ahead stays.
LEMMA ConsumeKeeps == ASSUME OutputInv, ConsumeWritten PROVE OutputInv'
<1> DEFINE B == 0 .. MaxBytes
           n == unconsumed
<1>1. BufferInv /\ SliceInv /\ AheadInv
    BY DEF OutputInv
<1>2. /\ n # 0 /\ ConsumeSlices(n) /\ Consume(n) /\ unconsumed' = 0
      /\ vectors' = vectors /\ wire' = wire
    BY DEF ConsumeWritten
<1>3. /\ Size \in Nat /\ Size <= MaximumCapacity /\ MaximumCapacity \in Nat
      /\ Queue \in Seq(B) /\ Len(Queue) = Size
    BY <1>1, QueueFacts
<1>4. /\ n \in 1 .. bytes /\ n \in 1 .. MaximumCapacity /\ n \in Nat
      /\ bytes \in Nat /\ bytes <= Size
    BY <1>1, <1>2, <1>3 DEF SliceInv
<1>5. BufferInv'
    BY <1>1, <1>2, <1>4, BufferMoves, Zenon
<1>6. /\ Queue' = SubSeq(Queue, n + 1, Size) /\ produced' = produced
      /\ n <= Size /\ Size' = Size - n
    BY <1>1, <1>2, <1>4, ConsumeTakes, Zenon
<1>7. AheadInv'
  <2>1. (Queue \in Seq(B))'
      BY <1>5, QueueIsSeq, PTL
  <2>2. SubSeq(Queue', 1, Len(Queue')) = Queue'
    <3> HIDE DEF Queue, B
    <3> QED BY <2>1, SubSeqFull, Zenon
  <2>3. Ahead' = wire \o Queue'
    <3>1. Ahead' = wire' \o SubSeq(Queue', unconsumed' + 1, Len(Queue'))
        BY Zenon DEF Ahead
    <3>2. unconsumed' + 1 = 1
        BY <1>2
    <3> HIDE DEF Queue, Ahead
    <3> QED BY <1>2, <2>2, <3>1, <3>2, Zenon
  <2>4. Ahead = wire \o SubSeq(Queue, n + 1, Size)
    <3>1. Ahead = wire \o SubSeq(Queue, n + 1, Len(Queue))
        BY Zenon DEF Ahead
    <3> HIDE DEF Queue, Ahead
    <3> QED BY <1>3, <3>1, Zenon
  <2> HIDE DEF Queue, Ahead, Size
  <2>5. Ahead' = Ahead
      BY <1>6, <2>3, <2>4, Zenon
  <2> QED BY <1>1, <1>2, <1>6, <2>5 DEF AheadInv
<1>8. SliceInv'
  <2>1. Tiled(slices, readOffset, bytes) /\ readOffset \in Nat
      BY <1>1 DEF SliceInv, BufferInv, TypeOK
  <2>2. Tiled(slices', readOffset + n, bytes - n) /\ (n = bytes => slices' = <<>>)
      BY <1>2, <1>4, <2>1, ConsumeTiled, Zenon
  <2>3. bytes' = bytes - n /\ Idle /\ target' = target
        /\ readOffset' = IF readOffset + n = writeOffset THEN 0 ELSE readOffset + n
      BY <1>2 DEF ConsumeSlices, Consume
  <2>4. Tiled(slices', readOffset', bytes')
    <3>1. CASE readOffset + n = writeOffset
      <4>1. n = Size
        <5>1. n \in Nat /\ readOffset \in Nat /\ writeOffset \in Int
            BY <1>1, <1>4 DEF BufferInv, TypeOK
        <5>2. writeOffset - readOffset = n
            BY <3>1, <5>1
        <5> QED BY <5>2 DEF Size
      <4>2. n = bytes /\ bytes' = 0
        <5> HIDE DEF Size
        <5> QED BY <1>3, <1>4, <2>3, <4>1
      <4> QED BY <2>2, <4>2 DEF Tiled
    <3>2. CASE readOffset + n # writeOffset
        BY <2>2, <2>3, <3>2
    <3> QED BY <3>1, <3>2
  <2>5. bytes' \in 0 .. Size'
    <3> HIDE DEF Size
    <3> QED BY <1>3, <1>4, <1>6, <2>3
  <2>6. Idle'
      BY <2>3 DEF Idle
  <2>7. vectors' = <<>> /\ slices' \in Seq(Segments)
      BY <1>1, <1>2, <2>4 DEF SliceInv, Tiled
  <2>8. Len(slices') \in Nat /\ Len(vectors') = 0
      BY <2>7, LenProperties
  <2>9. unconsumed' \in 0 .. bytes'
      BY <1>2, <1>4, <2>3
  <2> HIDE DEF Size, Idle
  <2> QED BY <1>2, <2>4, <2>5, <2>6, <2>7, <2>8, <2>9 DEF SliceInv
<1> QED BY <1>5, <1>7, <1>8 DEF OutputInv

\* Every step keeps the invariant: one case per action.
LEMMA OutputStep == OutputInv /\ [OutputNext]_outputVars => OutputInv'
<1> SUFFICES ASSUME OutputInv, [OutputNext]_outputVars PROVE OutputInv'
    OBVIOUS
<1>1. CASE UNCHANGED outputVars
  <2>1. UNCHANGED vars /\ UNCHANGED sliceVars
      BY <1>1 DEF outputVars
  <2>2. BufferInv /\ SliceInv /\ AheadInv
      BY DEF OutputInv
  <2>3. BufferInv' /\ Size' = Size /\ Idle' = Idle /\ readOffset' = readOffset
        /\ Queue' = Queue /\ produced' = produced
      BY <2>1, <2>2, BufferStutters, Zenon
  <2>4. AheadInv'
    <3>1. UNCHANGED <<wire, unconsumed>>
        BY <2>1 DEF sliceVars
    <3> QED BY <2>2, <2>3, <3>1, AheadStays, Zenon
  <2>5. SliceInv'
    <3>1. Size \in Nat
        BY <2>2, SizeIsNat
    <3> HIDE DEF Size, Idle
    <3>2. Size' \in Nat /\ Size <= Size'
        BY <2>3, <3>1
    <3> QED BY <2>1, <2>2, <2>3, <3>1, <3>2, SlicesStay, Zenon
  <2> QED BY <2>3, <2>4, <2>5 DEF OutputInv
<1>2. CASE BufferStep
    BY <1>2, BufferStepKeeps
<1>3. CASE Acquires
    BY <1>3, AcquiresKeeps
<1>4. CASE Appends
    BY <1>4, AppendKeeps
<1>5. CASE TranslateIovecs
    BY <1>5, TranslateKeeps
<1>6. CASE Writes
    BY <1>6, WrittenKeeps
<1>7. CASE ConsumeWritten
    BY <1>7, ConsumeKeeps
<1> QED BY <1>1, <1>2, <1>3, <1>4, <1>5, <1>6, <1>7, Zenon DEF OutputNext

\* The invariant holds in every reachable state.
LEMMA OutputInductive == OutputSpec => []OutputInv
BY OutputInitial, OutputStep, PTL DEF OutputSpec

\* Outside of grow() the budget is charged with the capacity and nothing else, and
\* only the block in use is lent by the source.
THEOREM ChargeAndBlockExact == OutputSpec => []ResourcesExact
BY OutputInductive, OutputInvSuffices, PTL

\* The slices show the front of the readable bytes, and the wire followed by what
\* is still to be written has every byte at most once, in the order of the commits.
THEOREM WrittenInOrder == OutputSpec => []OutputInOrder
BY OutputInductive, OutputInvSuffices, PTL

-----------------------------------------------------------------------------
(* The buffer as a byte queue.                                             *)

\* Every step of the buffer and its slices is one of the byte queue, or none.
LEMMA ByteQueueStep ==
    OutputInv /\ OutputInv' /\ [OutputNext]_outputVars => [Bytes!Next]_(Bytes!vars)
<1> SUFFICES ASSUME OutputInv, OutputInv', [OutputNext]_outputVars
             PROVE  [Bytes!Next]_(Bytes!vars)
    OBVIOUS
<1>1. BufferInv /\ BufferInv'
    BY DEF OutputInv
<1>2. Len(Queue) = Size /\ Size \in 0 .. MaximumCapacity /\ MaximumCapacity \in Nat
    BY <1>1, QueueFacts
<1>3. ASSUME Queue' = Queue, produced' = produced PROVE UNCHANGED Bytes!vars
  <2> HIDE DEF Queue
  <2> QED BY <1>3 DEF Bytes!vars
<1>4. ASSUME UNCHANGED vars PROVE UNCHANGED Bytes!vars
  <2>1. Queue' = Queue /\ produced' = produced
      BY <1>1, <1>4, BufferStutters, Zenon
  <2> QED BY <1>3, <2>1
<1>5. CASE BufferStep
  <2>1. ASSUME NEW n \in 1 .. MaximumCapacity, Commit(n) PROVE Bytes!Next
    <3>1. /\ Queue' = Queue \o [i \in 1 .. n |-> produced + i]
          /\ produced' = produced + n /\ n <= MaxBytes - produced
          /\ Size + n <= MaximumCapacity
        BY <1>1, <2>1, CommitAppends, Zenon
    <3> HIDE DEF Queue, Size
    <3>2. Bytes!Put(n)
        BY <1>2, <3>1, Zenon DEF Bytes!Put
    <3> QED BY <3>2, Zenon DEF Bytes!Next
  <2>2. ASSUME Release PROVE Bytes!Next
    <3>1. Queue' = <<>> /\ produced' = produced
        BY <1>1, <2>2, ReleaseClears, Zenon
    <3> HIDE DEF Queue
    <3> QED BY <3>1, Zenon DEF Bytes!Next, Bytes!Clear
  <2>3. ASSUME \/ \E n \in 1 .. MaximumCapacity : ReserveStep(n)
               \/ Compact
               \/ \E size \in OtherSizes : OthersCharge(size)
        PROVE  UNCHANGED Bytes!vars
    <3>1. Queue' = Queue /\ produced' = produced
        BY <1>1, <2>3, QueueStays, Zenon
    <3> QED BY <1>3, <3>1
  <2> QED BY <1>5, <2>1, <2>2, <2>3, Zenon DEF BufferStep, ReserveStep
<1>6. CASE Acquires
  <2>1. AcquireFails \/ \E b \in Blocks : AcquireTooSmall(b) \/ AcquireSucceeds(b)
      BY <1>6, Zenon DEF Acquires
  <2>2. Queue' = Queue /\ produced' = produced
      BY <1>1, <2>1, QueueStays, Zenon
  <2> QED BY <1>3, <2>2
<1>7. CASE ConsumeWritten
  <2>1. unconsumed \in 1 .. MaximumCapacity /\ Consume(unconsumed)
      BY <1>2, <1>7 DEF OutputInv, SliceInv, ConsumeWritten
  <2>2. PICK n \in 1 .. MaximumCapacity : Consume(n)
      BY <2>1
  <2>3. Queue' = SubSeq(Queue, n + 1, Size) /\ produced' = produced /\ n <= Size
      BY <1>1, <2>2, ConsumeTakes, Zenon
  <2> HIDE DEF Queue, Size
  <2>4. Bytes!Take(n)
      BY <1>2, <2>3, Zenon DEF Bytes!Take
  <2> QED BY <2>4, Zenon DEF Bytes!Next
<1>8. CASE Appends \/ TranslateIovecs \/ Writes \/ UNCHANGED outputVars
  <2>1. UNCHANGED vars
      BY <1>8, Zenon DEF Appends, AppendSlice, TranslateIovecs, Writes, Written, outputVars
  <2> QED BY <1>4, <2>1
<1> QED BY <1>5, <1>6, <1>7, <1>8, Zenon DEF OutputNext

\* The buffer is a byte queue: reserving, growing into another block, compacting and
\* failing leave the readable bytes alone, commit appends, consume removes.
THEOREM ImplementsByteQueue == OutputSpec => RefinesByteQueue
<1>1. OutputInit => Bytes!Init
  <2> SUFFICES ASSUME OutputInit PROVE Bytes!Init
      OBVIOUS
  <2>1. Size = 0 /\ produced = 0
      BY DEF OutputInit, Init, Size
  <2>2. Queue = <<>>
      BY <2>1 DEF Queue
  <2> QED BY <2>1, <2>2 DEF Bytes!Init
<1> QED BY <1>1, ByteQueueStep, OutputInductive, PTL DEF OutputSpec, Bytes!Spec, RefinesByteQueue
=============================================================================
