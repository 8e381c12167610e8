----------------------------- MODULE OutputPath -----------------------------
(***************************************************************************)
(* A BoundedBuffer that is written out through an IoSliceList (both of     *)
(* core/bounded_buffer.hpp) and os/io_slices.cpp: the writer appends views *)
(* of the readable bytes, translates them to I/O vectors, the kernel       *)
(* (external) writes a prefix, and what it wrote is consumed from the list *)
(* and from the buffer.  A slice is a range of offsets into the block, so  *)
(* the buffer is grown, compacted or released only while none is held.     *)
(***************************************************************************)
EXTENDS BoundedBuffer, Functions

CONSTANTS
    SliceCapacity,  \* slices the caller's storage holds
    VectorCapacity  \* I/O vectors of the writer

ASSUME SliceAssumption == SliceCapacity \in Nat \ {0} /\ VectorCapacity \in Nat \ {0}

VARIABLES
    slices,         \* the slices of the IoSliceList
    bytes,          \* its bytes_
    vectors,        \* the I/O vectors last translated
    unconsumed,     \* bytes the kernel wrote and the list still holds
    wire            \* bytes the kernel has written

sliceVars == <<slices, bytes, vectors, unconsumed, wire>>
outputVars == <<vars, sliceVars>>

Slice == [first : Offsets, size : 0 .. MaximumCapacity]

OutputTypeOK ==
    /\ TypeOK
    /\ slices \in Seq(Slice) /\ Len(slices) <= SliceCapacity
    /\ bytes \in 0 .. MaximumCapacity
    /\ vectors \in Seq(Slice)
    /\ unconsumed \in 0 .. bytes
    /\ wire \in Seq(1 .. MaxBytes)

OutputInit ==
    /\ Init
    /\ slices = <<>> /\ bytes = 0
    /\ vectors = <<>>
    /\ unconsumed = 0
    /\ wire = <<>>

\* One sequence after the other.
Joined(seqs) ==
    LET front[k \in 0 .. Len(seqs)] == IF k = 0 THEN <<>> ELSE front[k - 1] \o seqs[k]
    IN  front[Len(seqs)]

\* The bytes some slices show.
Shown(some) ==
    Joined([k \in DOMAIN some |->
              [i \in 1 .. some[k].size |-> memory[block][some[k].first + i - 1]]])

-----------------------------------------------------------------------------
HasRoom == Len(slices) < SliceCapacity

\* The writer appends the next n readable bytes that no slice shows yet.
AppendSlice(n) ==
    /\ Idle
    /\ n <= Size - bytes
    /\ HasRoom
    /\ slices' = Append(slices, [first |-> readOffset + bytes, size |-> n])
    /\ bytes' = bytes + n
    /\ UNCHANGED <<vars, vectors, unconsumed, wire>>

\* Variant that refuses a list that just fits.
VectorsToSpare == Len(slices) < VectorCapacity

VectorsSuffice == Len(slices) <= VectorCapacity

Translation == slices

TranslateIovecs ==
    /\ slices # <<>>
    /\ VectorsSuffice
    /\ unconsumed = 0
    /\ vectors' = Translation
    /\ UNCHANGED <<vars, slices, bytes, unconsumed, wire>>

\* The kernel writes the first n bytes of the vectors.
Written(n) ==
    /\ n <= Len(Shown(vectors))
    /\ wire' = wire \o SubSeq(Shown(vectors), 1, n)
    /\ unconsumed' = n
    /\ vectors' = <<>>
    /\ UNCHANGED <<vars, slices, bytes>>

\* The slice is used up by the remaining bytes and leaves the list.
Removes(remaining, slice) == remaining >= slice.size

\* The loop of consume(): how many slices go, and what is left for the next.
Consumed(n) ==
    LET at[k \in 0 .. Len(slices)] ==
          IF k = 0 THEN [removed |-> 0, remaining |-> n]
          ELSE IF at[k - 1].removed = k - 1 /\ Removes(at[k - 1].remaining, slices[k])
          THEN [removed |-> k, remaining |-> at[k - 1].remaining - slices[k].size]
          ELSE at[k - 1]
    IN  at[Len(slices)]

\* Variant that drops the end of the slice and not its start.
TrimmedAtEnd(slice, n) == [slice EXCEPT !.size = @ - n]

Trimmed(slice, n) == [first |-> slice.first + n, size |-> slice.size - n]

\* IoSliceList::consume: the slices after the removed ones move to the front.
ConsumeSlices(n) ==
    LET done == Consumed(n)
        trimmed == IF done.remaining = 0 THEN slices
                   ELSE [slices EXCEPT ![done.removed + 1] = Trimmed(@, done.remaining)]
    IN  /\ slices' = SubSeq(trimmed, done.removed + 1, Len(slices))
        /\ bytes' = bytes - n

\* What was written leaves the list and then the buffer.
ConsumeWritten ==
    /\ unconsumed # 0
    /\ ConsumeSlices(unconsumed)
    /\ Consume(unconsumed)
    /\ unconsumed' = 0
    /\ UNCHANGED <<vectors, wire>>

\* What moves or frees the bytes happens while no slice shows them.
BufferStep ==
    /\ \/ \E n \in 1 .. MaximumCapacity : ReserveInPlace(n) \/ Commit(n)
       \/ /\ slices = <<>>
          /\ \/ \E n \in 1 .. MaximumCapacity : ReserveCompacts(n) \/ ReserveGrows(n)
             \/ Compact \/ Release
       \/ \E size \in OtherSizes : OthersCharge(size)
    /\ UNCHANGED sliceVars

\* grow() hears from the source.
Acquires ==
    /\ AcquireFails \/ \E b \in Blocks : AcquireTooSmall(b) \/ AcquireSucceeds(b)
    /\ UNCHANGED sliceVars

Appends == \E n \in 1 .. MaximumCapacity : AppendSlice(n)
Writes == \E n \in 1 .. MaximumCapacity : Written(n)

OutputNext ==
    \/ BufferStep \/ Acquires
    \/ Appends \/ TranslateIovecs \/ Writes \/ ConsumeWritten

\* Calls return, and the writer goes on while there is something to write.
Fairness ==
    /\ WF_outputVars(Acquires)
    /\ SF_outputVars(Appends)
    /\ WF_outputVars(TranslateIovecs)
    /\ WF_outputVars(Writes)
    /\ WF_outputVars(ConsumeWritten)

OutputSpec == OutputInit /\ [][OutputNext]_outputVars /\ Fairness
-----------------------------------------------------------------------------
(* Properties.                                                             *)

\* The slices show exactly the front of the buffer's readable bytes, and the wire
\* followed by what is still to be written has every byte at most once and in the
\* order it was committed: through short writes that end in or between slices,
\* appends between translation and consume, growth and compaction.
OutputInOrder ==
    LET ahead == wire \o SubSeq(Queue, unconsumed + 1, Size)
    IN  /\ Shown(slices) = SubSeq(Queue, 1, bytes)
        /\ \A i \in 1 .. Len(ahead) - 1 : ahead[i] < ahead[i + 1]

\* Every readable byte reaches the wire in the end, unless the caller
\* releases the buffer, if the vectors are as many as the slices.
EverythingWritten ==
    \A n \in 1 .. MaxBytes : n \in Range(Queue) ~> n \notin Range(Queue)
=============================================================================
