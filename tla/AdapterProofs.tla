---------------------------- MODULE AdapterProofs -----------------------------
(***************************************************************************)
(* Proofs about two protocol adapters that share no state: a compression   *)
(* stream, for data of every length and every expansion, every limit, and  *)
(* input and output cut in every way; and an HTTP/2 session, for any       *)
(* number of streams, header blocks of every size, every limit and every   *)
(* answer of the sink.                                                     *)
(***************************************************************************)
EXTENDS CodecStream, Http2Session, TLAPS

\* A leaf may take either prover 30 seconds and is given to Z3 a second time: no
\* proof depends on how busy the machine is.
USE SMTT(30), ZenonT(30), Z3T(30)

(***************************************************************************)
(* A compression stream.                                                   *)
(***************************************************************************)

-----------------------------------------------------------------------------
(* The inductive invariant.                                                *)

Types ==
    /\ kind \in Kinds /\ direction \in {"encode", "decode"}
    /\ limits \in Limits
    /\ supply \in Nat /\ bad \in Nat
    /\ inputBytes \in Nat /\ outputBytes \in Nat /\ workCalls \in Nat
    /\ finished \in BOOLEAN /\ cancelled \in BOOLEAN /\ failed \in BOOLEAN
    /\ finalizing \in BOOLEAN
    /\ consumed \in Nat /\ produced \in Nat /\ left \in Nat

\* A stream that did not fail has no cause for failing, and the library has read
\* what the caller has and no more.
CodecInv ==
    /\ Types
    /\ FailsForCause
    /\ NothingLost
    /\ FinishedIsWhole
    /\ consumed <= supply

-----------------------------------------------------------------------------
(* The libraries.                                                          *)

\* A decoder puts out no more than the whole body decodes to, and all of it is
\* determined once the last unit has been read.
LEMMA DecoderBound ==
    ASSUME direction = "decode", NEW i \in Nat, NEW finishing \in BOOLEAN
    PROVE  /\ Producible(i, finishing) \in Nat
           /\ Producible(i, finishing) <= OutLen
           /\ i = InLen => Producible(i, finishing) = OutLen
           /\ OutLen \in Nat
<1>1. Body \in Nat /\ Expand \in Nat
    BY CodecAssumption
<1>2. CASE i = 0
  <2>1. Producible(i, finishing) = 0 /\ i # InLen
      BY <1>1, <1>2 DEF Producible, InLen
  <2>2. OutLen \in Nat
      BY <1>1 DEF OutLen
  <2> QED BY <2>1, <2>2
<1>3. CASE i # 0
  <2> DEFINE m == Least(Body, i - 1)
  <2>1. m \in Nat /\ m <= Body /\ (i = InLen => m = Body)
      BY <1>1, <1>3 DEF Least, InLen
  <2>2. Producible(i, finishing) = Expand * m
      BY <1>3 DEF Producible
  <2> HIDE DEF m
  <2>3. Expand * m \in Nat /\ Expand * m <= Expand * Body /\ Expand * Body = Body * Expand
      BY <1>1, <2>1
  <2> QED BY <1>1, <2>1, <2>2, <2>3 DEF OutLen
<1> QED BY <1>2, <1>3

LEMMA EncoderBound ==
    ASSUME direction = "encode", NEW i \in Nat, NEW finishing \in BOOLEAN
    PROVE  Producible(i, finishing) = i + (IF finishing THEN 2 ELSE 1)
BY DEF Producible

\* What a library's report says, and what the data make of it.
LEMMA RunFacts ==
    ASSUME Types, NEW size \in Nat, NEW room \in Nat, NEW finishing \in BOOLEAN,
           NEW r \in Runs(size, room, finishing)
    PROVE  /\ r.c \in 0 .. size /\ r.p \in 0 .. room /\ r.end \in BOOLEAN
           /\ r.pending \in BOOLEAN
           /\ r.pending <=> produced + r.p < Producible(consumed + r.c, finishing)
           /\ produced + r.p <= Producible(consumed + r.c, finishing)
           /\ direction = "decode" => consumed + r.c <= InLen
           /\ r.end => AtEnd(consumed + r.c, produced + r.p)
           /\ AtEnd(consumed + r.c, produced + r.p) /\ (r.p < room \/ kind = "brotli") => r.end
           /\ \/ r.end
              \/ r.p = room /\ (kind = "brotli" => r.pending)
              \/ r.c = size /\ (r.pending => direction = "encode" /\ ~finishing)
<1>1. r \in Reports(size, room, finishing)
    BY DEF Runs
<1>2. PICK c \in 0 .. size, p \in 0 .. room, end \in BOOLEAN :
         r = [c |-> c, p |-> p, end |-> end,
              pending |-> produced + p < Producible(consumed + c, finishing)]
    BY <1>1 DEF Reports
<1>3. /\ r.c = c /\ r.p = p /\ r.end = end
      /\ r.pending = (produced + p < Producible(consumed + c, finishing))
    BY <1>2
<1>4. r.pending \in BOOLEAN
    BY <1>3
<1> QED BY <1>2, <1>3, <1>4, Zenon DEF Runs

-----------------------------------------------------------------------------
(* One call.                                                               *)

\* The output that a call offers to the library.
Room(offered) ==
    IF Probing(BoundedOutputSize(offered)) THEN 1 ELSE BoundedOutputSize(offered)

\* A stream that still runs: what is counted is what the library did.
LEMMA Running ==
    ASSUME CodecInv, NEW size \in Nat, Preflight(size), NEW offered \in Nat
    PROVE  /\ ~failed /\ ~finished
           /\ produced = outputBytes /\ consumed = inputBytes
           /\ limits.output \in Nat /\ limits.input \in Nat
           /\ outputBytes <= limits.output /\ inputBytes + size <= limits.input
           /\ BoundedOutputSize(offered) \in Nat
           /\ BoundedOutputSize(offered) <= limits.output - outputBytes
           /\ BoundedOutputSize(offered) = 0 =>
                 offered = 0 \/ outputBytes = limits.output
           /\ Room(offered) \in Nat
<1>1. ~failed /\ ~finished /\ size <= limits.input - inputBytes
    BY DEF Preflight
<1>2. produced = outputBytes /\ consumed = inputBytes /\ outputBytes <= limits.output
    BY <1>1 DEF CodecInv, NothingLost
<1>3. limits.output \in Nat /\ limits.input \in Nat
    BY CodecAssumption, Zenon DEF CodecInv, Types, Limits
<1>4. inputBytes \in Nat /\ outputBytes \in Nat
    BY DEF CodecInv, Types
<1>5. /\ BoundedOutputSize(offered) \in Nat
      /\ BoundedOutputSize(offered) <= limits.output - outputBytes
      /\ BoundedOutputSize(offered) = 0 => offered = 0 \/ outputBytes = limits.output
    BY <1>2, <1>3, <1>4 DEF BoundedOutputSize, Least
<1> QED BY <1>1, <1>2, <1>3, <1>4, <1>5 DEF Room

\* The call's complaint holds of the data.
LEMMA ComplaintHolds ==
    ASSUME CodecInv, NEW size \in Nat, size <= supply - consumed, NEW offered \in Nat,
           NEW finishing \in BOOLEAN, finishing => size = 0,
           Preflight(size), ~(offered = 0 /\ OutputCapacityRemains),
           NEW r \in Runs(size, Room(offered), finishing),
           NEW why, why = Complaint(size, Room(offered), BoundedOutputSize(offered), finishing, r)
    PROVE  /\ why \in {"none", "limit", "trailing", "truncated"}
           /\ why # "none" => direction = "decode"
           /\ why = "limit" => OutLen > limits.output
           /\ why = "trailing" => supply > InLen
           /\ why = "truncated" => finishing /\ consumed + r.c < InLen
<1> DEFINE room == Room(offered)
           outputSize == BoundedOutputSize(offered)
           i == consumed + r.c
           o == produced + r.p
<1>1. /\ produced = outputBytes /\ limits.output \in Nat /\ outputBytes <= limits.output
      /\ room \in Nat /\ (outputSize = 0 => outputBytes = limits.output)
  <2>1. outputBytes \in Nat
      BY DEF CodecInv, Types
  <2> QED BY <2>1, Running DEF OutputCapacityRemains
<1>2. /\ consumed \in Nat /\ produced \in Nat /\ supply \in Nat /\ InLen \in Nat
      /\ kind \in Kinds /\ direction \in {"encode", "decode"}
    BY CodecAssumption DEF CodecInv, Types, InLen
<1>3. /\ r.c \in 0 .. size /\ r.p \in 0 .. room /\ r.end \in BOOLEAN /\ r.pending \in BOOLEAN
      /\ r.pending <=> o < Producible(i, finishing)
      /\ o <= Producible(i, finishing)
      /\ direction = "decode" => i <= InLen
      /\ r.end => AtEnd(i, o)
      /\ AtEnd(i, o) /\ (r.p < room \/ kind = "brotli") => r.end
      /\ \/ r.end
         \/ r.p = room /\ (kind = "brotli" => r.pending)
         \/ r.c = size /\ (r.pending => direction = "encode" /\ ~finishing)
    BY <1>1, RunFacts DEF CodecInv
<1>4. i \in Nat /\ o \in Nat /\ r.c \in Nat /\ r.p \in Nat
    BY <1>1, <1>2, <1>3
<1>5. /\ why \in {"none", "limit", "trailing", "truncated"}
      /\ why # "none" => direction = "decode"
      /\ why = "limit" => OverLimit(outputSize, r)
      /\ why = "trailing" => Trailing(size, r)
      /\ why = "truncated" => finishing /\ Truncated(size, room, r)
  <2> HIDE DEF room, outputSize, i, o
  <2>1. why = Complaint(size, room, outputSize, finishing, r)
      BY DEF room, outputSize
  <2> QED BY <1>2, <2>1 DEF Complaint
<1> HIDE DEF room, outputSize, i, o
<1>6. ASSUME why = "limit" PROVE OutLen > limits.output
  <2>1. direction = "decode" /\ OverLimit(outputSize, r)
      BY <1>5, <1>6
  <2>2. Producible(i, finishing) \in Nat /\ Producible(i, finishing) <= OutLen /\ OutLen \in Nat
      BY <1>4, <2>1, DecoderBound
  <2>3. outputSize = 0 /\ (r.pending \/ r.p # 0)
      BY <2>1 DEF OverLimit
  <2>4. o > limits.output \/ (o >= limits.output /\ r.pending)
      BY <1>1, <1>2, <1>3, <1>4, <2>3 DEF o
  <2> QED BY <1>1, <1>3, <1>4, <2>2, <2>4
<1>7. ASSUME why = "trailing" PROVE supply > InLen
  <2>1. direction = "decode" /\ r.end /\ r.c # size
      BY <1>5, <1>7 DEF Trailing
  <2>2. i = InLen
      BY <1>3, <2>1 DEF AtEnd
  <2> QED BY <1>2, <1>3, <1>4, <2>1, <2>2 DEF i
<1>8. ASSUME why = "truncated" PROVE finishing /\ i < InLen
  <2>1. direction = "decode" /\ finishing /\ Truncated(size, room, r)
      BY <1>5, <1>8
  <2>2. ~r.end /\ (kind = "brotli" => ~r.pending) /\ (kind # "brotli" => r.p # room)
      BY <1>2, <2>1, Zenon DEF Truncated, Kinds
  <2>3. SUFFICES ASSUME i = InLen PROVE FALSE
      BY <1>2, <1>3, <1>4, <2>1
  <2>4. Producible(i, finishing) = OutLen /\ OutLen \in Nat
      BY <1>4, <2>1, <2>3, DecoderBound, Zenon
  <2>5. ~AtEnd(i, o)
      BY <1>1, <1>3, <1>4, <2>2
  <2>6. r.pending
    <3>1. o # OutLen
        BY <2>1, <2>3, <2>5 DEF AtEnd
    <3>2. o < Producible(i, finishing)
        BY <1>3, <1>4, <2>4, <3>1
    <3> QED BY <1>3, <3>2
  <2> QED BY <1>3, <2>1, <2>2, <2>6
<1> QED BY <1>5, <1>6, <1>7, <1>8 DEF i

\* A call that leaves the stream as it was, the mark that it is ending apart.
LEMMA NothingStep ==
    ASSUME CodecInv, UNCHANGED <<given, accounting, moved, left>>,
           finalizing' \in BOOLEAN, finalizing => finalizing'
    PROVE  CodecInv'
<1>1. UNCHANGED <<kind, direction, limits, supply, bad, inputBytes, outputBytes, workCalls,
                  finished, cancelled, failed, cause, consumed, produced, left>>
    BY DEF given, accounting, moved
<1>2. Types'
    BY <1>1 DEF CodecInv, Types
<1>3. NothingLost' /\ consumed' <= supply'
    BY <1>1 DEF CodecInv, NothingLost
<1>4. FailsForCause'
    BY <1>1 DEF CodecInv, FailsForCause
<1>5. FinishedIsWhole'
    BY <1>1 DEF CodecInv, FinishedIsWhole, AtEnd
<1> QED BY <1>2, <1>3, <1>4, <1>5 DEF CodecInv

\* A call that fails.
LEMMA FailStep ==
    ASSUME CodecInv, ~failed, ~finished, NEW why, RecordFailure(why),
           UNCHANGED given, finalizing' \in BOOLEAN, finalizing => finalizing',
           consumed' \in Nat, produced' \in Nat, left' \in Nat, consumed' <= supply,
           \/ why = "native" /\ bad # 0
           \/ why = "limit" /\ direction = "decode" /\ OutLen > limits.output
           \/ why = "trailing" /\ direction = "decode" /\ supply > InLen
           \/ why = "truncated" /\ direction = "decode" /\ finalizing' /\ consumed' < InLen
    PROVE  CodecInv'
<1>1. UNCHANGED <<kind, direction, limits, supply, bad, inputBytes, outputBytes, finished,
                  cancelled>>
    BY DEF given, RecordFailure
<1>2. failed' = TRUE /\ cause' = why /\ workCalls' = workCalls + 1
    BY DEF RecordFailure
<1>3. Types'
    BY <1>1, <1>2 DEF CodecInv, Types
<1>4. NothingLost' /\ FinishedIsWhole' /\ consumed' <= supply'
    BY <1>1, <1>2 DEF NothingLost, FinishedIsWhole
<1>5. FailsForCause'
    BY <1>1, <1>2 DEF FailsForCause, OutLen, InLen
<1> QED BY <1>3, <1>4, <1>5 DEF CodecInv

\* A call that is counted.
LEMMA RecordStep ==
    ASSUME CodecInv, ~failed, ~finished, NEW c \in Nat, NEW p \in Nat, NEW done \in BOOLEAN,
           Record(c, p, done),
           UNCHANGED given, finalizing' \in BOOLEAN, finalizing => finalizing',
           consumed' = consumed + c, produced' = produced + p, left' \in Nat,
           consumed + c <= supply, inputBytes + c <= limits.input,
           outputBytes + p <= limits.output,
           done => /\ AtEnd(inputBytes + c, outputBytes + p)
                   /\ left' = 0
                   /\ direction = "encode" => finalizing'
    PROVE  CodecInv'
<1>1. UNCHANGED <<kind, direction, limits, supply, bad, cancelled, failed, cause>>
    BY DEF given, Record
<1>2. /\ inputBytes' = inputBytes + c /\ outputBytes' = outputBytes + p
      /\ workCalls' = workCalls + 1 /\ finished' = done
    BY DEF Record
<1>3. produced = outputBytes /\ consumed = inputBytes
    BY DEF CodecInv, NothingLost
<1>4. Types'
    BY <1>1, <1>2 DEF CodecInv, Types
<1>5. NothingLost' /\ consumed' <= supply'
    BY <1>1, <1>2, <1>3 DEF NothingLost
<1>6. FailsForCause'
    BY <1>1 DEF FailsForCause
<1>7. FinishedIsWhole'
    BY <1>1, <1>2 DEF FinishedIsWhole, AtEnd, InLen, OutLen
<1> QED BY <1>4, <1>5, <1>6, <1>7 DEF CodecInv

\* Every call preserves the invariant.
LEMMA OperateStep ==
    ASSUME CodecInv, NEW size \in Nat, size <= supply - consumed, NEW offered \in Nat,
           NEW finishing \in BOOLEAN, finishing => size = 0,
           Operate(size, offered, finishing), UNCHANGED given,
           finalizing' \in BOOLEAN, finalizing => finalizing', finishing => finalizing'
    PROVE  CodecInv'
<1> DEFINE outputSize == BoundedOutputSize(offered)
           room == Room(offered)
<1>1. /\ consumed \in Nat /\ produced \in Nat /\ supply \in Nat /\ left \in Nat
      /\ inputBytes \in Nat /\ outputBytes \in Nat /\ consumed <= supply
      /\ bad \in Nat /\ direction \in {"encode", "decode"}
    BY DEF CodecInv, Types
<1>2. CASE UNCHANGED <<accounting, moved, left>>
    BY <1>2, NothingStep
<1>3. CASE Preflight(size) /\ Record(0, 0, FALSE) /\ left' = size /\ UNCHANGED moved
  <2>1. ~failed /\ ~finished /\ outputBytes <= limits.output /\ inputBytes + size <= limits.input
        /\ limits.input \in Nat
      BY <1>3, Running
  <2>2. consumed' = consumed + 0 /\ produced' = produced + 0
      BY <1>1, <1>3 DEF moved
  <2>3. /\ consumed + 0 <= supply /\ inputBytes + 0 <= limits.input
        /\ outputBytes + 0 <= limits.output /\ left' \in Nat
      BY <1>1, <1>3, <2>1
  <2>4. Record(0, 0, FALSE) /\ FALSE \in BOOLEAN /\ 0 \in Nat
      BY <1>3, Zenon
  <2> QED BY <2>1, <2>2, <2>3, <2>4, RecordStep, Zenon
<1>4. CASE Preflight(size) /\ Errs(size) /\ RecordFailure("native") /\ UNCHANGED <<moved, left>>
  <2>1. ~failed /\ ~finished
      BY <1>4, Running
  <2>2. bad # 0
      BY <1>1, <1>4 DEF Errs
  <2> QED BY <1>1, <1>4, <2>1, <2>2, FailStep DEF moved
<1>5. ASSUME Preflight(size), ~(offered = 0 /\ OutputCapacityRemains),
             ~(outputSize = 0 /\ direction = "encode"),
             NEW r \in Runs(size, room, finishing),
             consumed' = consumed + r.c, produced' = produced + r.p, left' = size - r.c,
             LET why == Complaint(size, room, outputSize, finishing, r)
             IN  IF why # "none" THEN RecordFailure(why)
                 ELSE Record(r.c, IF Probing(outputSize) THEN 0 ELSE r.p, r.end)
      PROVE  CodecInv'
  <2>1. /\ ~failed /\ ~finished /\ limits.output \in Nat /\ limits.input \in Nat
        /\ inputBytes + size <= limits.input /\ outputSize \in Nat
        /\ outputSize <= limits.output - outputBytes /\ room \in Nat
        /\ produced = outputBytes /\ consumed = inputBytes
      BY <1>5, Running
  <2>2. /\ r.c \in 0 .. size /\ r.p \in 0 .. room /\ r.end \in BOOLEAN
        /\ r.end => AtEnd(consumed + r.c, produced + r.p)
        /\ produced + r.p <= Producible(consumed + r.c, finishing)
      BY <2>1, RunFacts DEF CodecInv
  <2>3. r.c \in Nat /\ r.p \in Nat /\ size - r.c \in Nat /\ consumed + r.c <= supply
      BY <1>1, <2>1, <2>2
  <2>4. CASE Complaint(size, room, outputSize, finishing, r) # "none"
    <3> DEFINE why == Complaint(size, room, outputSize, finishing, r)
    <3>1. /\ why \in {"none", "limit", "trailing", "truncated"}
          /\ why # "none" => direction = "decode"
          /\ why = "limit" => OutLen > limits.output
          /\ why = "trailing" => supply > InLen
          /\ why = "truncated" => finishing /\ consumed + r.c < InLen
        BY <1>5, ComplaintHolds
    <3>2. RecordFailure(why)
        BY <1>5, <2>4
    <3>3. why # "none"
        BY <2>4
    <3>4. consumed' \in Nat /\ produced' \in Nat /\ left' \in Nat /\ consumed' <= supply
        BY <1>1, <1>5, <2>3
    <3> HIDE DEF why
    <3> QED BY <1>5, <2>1, <3>1, <3>2, <3>3, <3>4, FailStep
  <2>5. CASE Complaint(size, room, outputSize, finishing, r) = "none"
    <3>1. (direction = "decode" => ~OverLimit(outputSize, r) /\ ~Trailing(size, r))
        BY <2>5 DEF Complaint
    <3>2. (IF Probing(outputSize) THEN 0 ELSE r.p) = r.p
        BY <1>1, <1>5, <3>1 DEF Probing, OverLimit
    <3>3. Record(r.c, r.p, r.end)
        BY <1>5, <2>5, <3>2
    <3>4. r.p <= outputSize
        BY <1>1, <1>5, <2>1, <2>2, <2>3, <3>1 DEF room, Room, Probing, OverLimit
    <3>5. outputBytes + r.p <= limits.output /\ inputBytes + r.c <= limits.input
        BY <1>1, <2>1, <2>2, <2>3, <3>4
    <3>6. ASSUME r.end
          PROVE  /\ AtEnd(inputBytes + r.c, outputBytes + r.p)
                 /\ left' = 0
                 /\ direction = "encode" => finalizing'
      <4>1. AtEnd(inputBytes + r.c, outputBytes + r.p)
          BY <2>1, <2>2, <3>6
      <4>2. CASE direction = "decode"
          BY <1>5, <2>2, <3>1, <3>6, <4>1, <4>2 DEF Trailing
      <4>3. CASE direction = "encode"
        <5>1. produced + r.p = consumed + r.c + 2
            BY <2>1, <4>1, <4>3 DEF AtEnd
        <5>2. consumed + r.c \in Nat
            BY <1>1, <2>3
        <5>3. Producible(consumed + r.c, finishing) = consumed + r.c + (IF finishing THEN 2 ELSE 1)
            BY <4>3, <5>2, EncoderBound
        <5>4. finishing
            BY <1>1, <2>2, <2>3, <5>1, <5>3
        <5> QED BY <1>5, <2>2, <4>1, <5>4
      <4> QED BY <1>1, <4>2, <4>3
    <3> QED BY <1>5, <2>1, <2>2, <2>3, <3>3, <3>5, <3>6, RecordStep
  <2> QED BY <2>4, <2>5
<1> QED BY <1>2, <1>3, <1>4, <1>5, Zenon DEF Operate, Room

-----------------------------------------------------------------------------
(* The invariant is inductive.                                             *)

LEMMA CodecInitial == CodecInit => CodecInv
<1> SUFFICES ASSUME CodecInit PROVE CodecInv
    OBVIOUS
<1>1. Types
    BY CodecAssumption, Zenon DEF CodecInit, Types
<1>2. NothingLost
  <2>1. limits.output \in Nat /\ limits.input \in Nat
      BY CodecAssumption, Zenon DEF CodecInit, Limits
  <2> QED BY <2>1 DEF CodecInit, NothingLost
<1>3. FailsForCause /\ FinishedIsWhole /\ consumed <= supply
    BY <1>1 DEF CodecInit, FailsForCause, FinishedIsWhole, Types
<1> QED BY <1>1, <1>2, <1>3 DEF CodecInv

LEMMA CodecStep == CodecInv /\ [CodecNext]_codecVars => CodecInv'
<1> SUFFICES ASSUME CodecInv, [CodecNext]_codecVars PROVE CodecInv'
    OBVIOUS
<1>1. consumed \in Nat /\ supply \in Nat /\ consumed <= supply /\ finalizing \in BOOLEAN
    BY DEF CodecInv, Types
<1>2. 0 .. MaxOffer \subseteq Nat /\ 0 .. supply \subseteq Nat
    BY <1>1, CodecAssumption
<1>3. ASSUME NEW size \in 0 .. supply, NEW offered \in 0 .. MaxOffer, Process(size, offered)
      PROVE  CodecInv'
  <2>1. /\ size \in Nat /\ offered \in Nat /\ size <= supply - consumed
        /\ Operate(size, offered, FALSE) /\ UNCHANGED given /\ finalizing' = finalizing
      BY <1>2, <1>3, Zenon DEF Process
  <2> QED BY <1>1, <2>1, OperateStep, Zenon
<1>4. ASSUME NEW offered \in 0 .. MaxOffer, Finish(offered) PROVE CodecInv'
  <2>1. Operate(0, offered, TRUE) /\ UNCHANGED given /\ finalizing' = TRUE
      BY <1>4, Zenon DEF Finish
  <2>2. offered \in Nat /\ 0 \in Nat /\ 0 <= supply - consumed
      BY <1>1, <1>2
  <2> QED BY <2>1, <2>2, OperateStep, Zenon
<1>5. CASE Cancel
  <2>1. UNCHANGED <<kind, direction, limits, supply, bad, inputBytes, outputBytes, workCalls,
                    finished, failed, cause, consumed, produced, finalizing, left>>
        /\ cancelled' = TRUE
      BY <1>5 DEF Cancel, given, moved
  <2>2. Types'
      BY <2>1 DEF CodecInv, Types
  <2>3. NothingLost' /\ consumed' <= supply'
      BY <2>1 DEF CodecInv, NothingLost
  <2>4. FailsForCause' /\ FinishedIsWhole'
      BY <2>1 DEF CodecInv, FailsForCause, FinishedIsWhole, AtEnd
  <2> QED BY <2>2, <2>3, <2>4 DEF CodecInv
<1>6. CASE UNCHANGED codecVars
    BY <1>1, <1>6, NothingStep DEF codecVars
<1> QED BY <1>3, <1>4, <1>5, <1>6 DEF CodecNext

LEMMA CodecInductive == CodecSpec => []CodecInv
BY CodecInitial, CodecStep, PTL DEF CodecSpec

-----------------------------------------------------------------------------
(* The results.                                                            *)

\* zlib_process, brotli_process and zstd_process fail a stream only for the
\* reason they record, and that reason holds of the data and of the caller's
\* conduct, for data of every length and pieces of every size.
THEOREM FailureHasCause == CodecSpec => []FailsForCause
<1>1. CodecInv => FailsForCause
    BY DEF CodecInv
<1> QED BY <1>1, CodecInductive, PTL

\* CodecAccounting::record counts every byte that the library took in and put
\* out, also the byte of the probe at the output limit, within the limits.
THEOREM NoByteLost == CodecSpec => []NothingLost
<1>1. CodecInv => NothingLost
    BY DEF CodecInv
<1> QED BY <1>1, CodecInductive, PTL

\* A stream reported finished is whole, and nothing of its last input is left.
THEOREM FinishedStreamIsWhole == CodecSpec => []FinishedIsWhole
<1>1. CodecInv => FinishedIsWhole
    BY DEF CodecInv
<1> QED BY <1>1, CodecInductive, PTL

\* A call that has room for output and brings input, or says that there is no
\* more, moves a byte or settles the stream.
LEMMA CallGetsOn ==
    ASSUME CodecInv, NEW size \in Nat, size <= supply - consumed, NEW offered \in Nat \ {0},
           NEW finishing \in BOOLEAN, finishing <=> size = 0,
           Preflight(size), direction = "encode" => OutputCapacityRemains,
           Operate(size, offered, finishing)
    PROVE  consumed' + produced' > consumed + produced \/ finished' \/ failed'
<1> DEFINE outputSize == BoundedOutputSize(offered)
           room == Room(offered)
<1>1. /\ consumed \in Nat /\ produced \in Nat /\ outputBytes \in Nat
      /\ direction \in {"encode", "decode"} /\ kind \in Kinds
    BY DEF CodecInv, Types
<1>2. /\ limits.output \in Nat /\ outputSize \in Nat /\ room \in Nat
      /\ outputSize = 0 => outputBytes = limits.output
    BY Running
<1>3. ~(outputSize = 0 /\ direction = "encode")
    BY <1>1, <1>2 DEF OutputCapacityRemains
<1>4. \/ RecordFailure("native")
      \/ \E r \in Runs(size, room, finishing) :
           /\ consumed' = consumed + r.c
           /\ produced' = produced + r.p
           /\ LET why == Complaint(size, room, outputSize, finishing, r)
              IN  IF why # "none" THEN RecordFailure(why)
                  ELSE Record(r.c, IF Probing(outputSize) THEN 0 ELSE r.p, r.end)
    BY <1>3 DEF Operate, Room
<1>5. CASE RecordFailure("native")
    BY <1>5 DEF RecordFailure
<1>6. ASSUME NEW r \in Runs(size, room, finishing),
             consumed' = consumed + r.c, produced' = produced + r.p,
             LET why == Complaint(size, room, outputSize, finishing, r)
             IN  IF why # "none" THEN RecordFailure(why)
                 ELSE Record(r.c, IF Probing(outputSize) THEN 0 ELSE r.p, r.end)
      PROVE  consumed' + produced' > consumed + produced \/ finished' \/ failed'
  <2> DEFINE i == consumed + r.c
             o == produced + r.p
  <2>1. /\ r.c \in 0 .. size /\ r.p \in 0 .. room /\ r.end \in BOOLEAN /\ r.pending \in BOOLEAN
        /\ r.pending <=> o < Producible(i, finishing)
        /\ o <= Producible(i, finishing)
        /\ AtEnd(i, o) /\ (r.p < room \/ kind = "brotli") => r.end
        /\ \/ r.end
           \/ r.p = room /\ (kind = "brotli" => r.pending)
           \/ r.c = size /\ (r.pending => direction = "encode" /\ ~finishing)
      BY <1>2, RunFacts DEF CodecInv
  <2>2. CASE Complaint(size, room, outputSize, finishing, r) # "none"
      BY <1>6, <2>2 DEF RecordFailure
  <2>3. CASE Complaint(size, room, outputSize, finishing, r) = "none" /\ r.end
      BY <1>6, <2>3 DEF Record
  <2>4. CASE r.c # 0 \/ r.p # 0
      BY <1>1, <1>2, <1>6, <2>1, <2>4
  <2>5. CASE Complaint(size, room, outputSize, finishing, r) = "none" /\ ~r.end
             /\ r.c = 0 /\ r.p = 0
    <3>1. direction = "decode" => /\ ~OverLimit(outputSize, r)
                                  /\ ~(finishing /\ Truncated(size, room, r))
      <4> HIDE DEF outputSize, room
      <4> QED BY <2>5 DEF Complaint
    <3>2. ~(r.p = room /\ (kind = "brotli" => r.pending))
      <4>1. SUFFICES ASSUME room = 0, kind = "brotli" => r.pending PROVE FALSE
          BY <2>5
      <4>2. outputSize = 0 /\ kind = "brotli"
          BY <1>2, <4>1 DEF Room, Probing
      <4> QED BY <1>1, <1>3, <3>1, <4>1, <4>2 DEF OverLimit
    <3>3. r.c = size /\ (r.pending => direction = "encode" /\ ~finishing)
        BY <2>1, <2>5, <3>2
    <3>4. size = 0 /\ finishing /\ ~r.pending
        BY <2>5, <3>3
    <3>5. room # 0 \/ kind = "brotli"
        BY <2>5, <3>2
    <3>6. direction = "encode"
      <4> SUFFICES ASSUME direction = "decode" PROVE FALSE
          BY <1>1
      <4> HIDE DEF outputSize, room
      <4> QED BY <1>1, <2>5, <3>1, <3>3, <3>4, <3>5, Zenon DEF Truncated, Kinds
    <3>7. i \in Nat /\ o \in Nat
        BY <1>1, <2>5
    <3> HIDE DEF i, o
    <3>8. o = i + 2
      <4>1. Producible(i, finishing) = i + 2
          BY <3>4, <3>6, <3>7, EncoderBound, Zenon
      <4>2. ~(o < i + 2) /\ o <= i + 2
          BY <2>1, <3>4, <4>1, Zenon
      <4> QED BY <3>7, <4>2
    <3>9. AtEnd(i, o)
        BY <3>6, <3>8 DEF AtEnd
    <3> QED BY <1>2, <2>1, <2>5, <3>5, <3>9
  <2> QED BY <2>1, <2>2, <2>3, <2>4, <2>5
<1> QED BY <1>4, <1>5, <1>6

\* No stream keeps its caller in circles: CodecStream::process with input and
\* CodecStream::finish, with room for output, move a byte, finish or fail.
THEOREM CallsAlwaysGetOn == CodecSpec => CallsGetOn
<1>1. ASSUME CodecInv, NEW offered \in 1 .. MaxOffer, Preflight(0),
             direction = "encode" => OutputCapacityRemains,
             \/ Finish(offered)
             \/ \E size \in 1 .. supply - consumed : Preflight(size) /\ Process(size, offered)
      PROVE  consumed' + produced' > consumed + produced \/ finished' \/ failed'
  <2>1. consumed \in Nat /\ supply \in Nat /\ consumed <= supply /\ offered \in Nat \ {0}
      BY <1>1, CodecAssumption DEF CodecInv, Types
  <2>2. CASE Finish(offered)
    <3>1. Operate(0, offered, TRUE)
        BY <2>2, Zenon DEF Finish
    <3>2. 0 <= supply - consumed
        BY <2>1
    <3> QED BY <1>1, <2>1, <3>1, <3>2, CallGetsOn, Zenon
  <2>3. ASSUME NEW size \in 1 .. supply - consumed, Preflight(size), Process(size, offered)
        PROVE  consumed' + produced' > consumed + produced \/ finished' \/ failed'
    <3>1. size \in Nat /\ size # 0 /\ size <= supply - consumed
        BY <2>1
    <3>2. Operate(size, offered, FALSE)
        BY <2>3, Zenon DEF Process
    <3> QED BY <1>1, <2>1, <2>3, <3>1, <3>2, CallGetsOn, Zenon
  <2> QED BY <1>1, <2>2, <2>3
<1> DEFINE GetsOn ==
      \A offered \in 1 .. MaxOffer :
          /\ Preflight(0)
          /\ direction = "encode" => OutputCapacityRemains
          /\ \/ Finish(offered)
             \/ \E size \in 1 .. supply - consumed : Preflight(size) /\ Process(size, offered)
          => consumed' + produced' > consumed + produced \/ finished' \/ failed'
<1>2. CodecInv => GetsOn
    BY <1>1
<1> QED BY <1>2, CodecInductive, PTL DEF CallsGetOn

(***************************************************************************)
(* An HTTP/2 session.                                                      *)
(***************************************************************************)

-----------------------------------------------------------------------------
(* The inductive invariant.                                                *)

Blocks == [stream : Streams \cup {NoStream}, bytes : Nat, fields : Nat]

CallbackTypes ==
    /\ headerBytes \in Nat /\ headerFields \in Nat
    /\ pendingResets \in Seq(Streams)
    /\ inputLimitFailed \in BOOLEAN /\ pendingResetOverflow \in BOOLEAN

PeerTypes ==
    /\ phase \in [Streams -> {"idle", "open", "closed"}]
    /\ submitted \in SUBSET Streams
    /\ block \in Blocks
    /\ rejected \in SUBSET Streams /\ exceeded \in BOOLEAN

OutgoingTypes ==
    /\ provider \in [Streams -> {"none", "sending", "deferred"}]
    /\ dataProviderFailed \in BOOLEAN /\ faulted \in BOOLEAN

\* The library is entered only on a session whose memory is there, and one that
\* has failed is not entered at all.
PlaceInv ==
    /\ generation \in Nat /\ session \in Nat
    /\ pc \in {"idle", "parsing", "returned", "sending", "sent"}
    /\ library \in {"good", "failed"}
    /\ pc # "idle" => session # 0 /\ session = generation
    /\ pc \in {"parsing", "sending"} => library = "good"
    /\ session <= generation

\* The counters are those of the block that is being parsed, and the flag says
\* what happened in this call.
LimitInv ==
    /\ pc \in {"parsing", "returned"} => inputLimitFailed = exceeded
    /\ pc \notin {"parsing", "returned"} /\ RequireValid => ~inputLimitFailed
    /\ block.stream = NoStream => block = NoBlock
    /\ block # NoBlock => /\ block.bytes = headerBytes /\ block.fields = headerFields
                          /\ ~OverLimits(block.bytes, block.fields)

\* A provider's failure ends the library's run and is known until the call ends.
ProviderInv ==
    /\ pc = "sending" => ~dataProviderFailed /\ ~faulted
    /\ pc = "sent" => dataProviderFailed = faulted
    /\ pc \notin {"sending", "sent"} /\ RequireValid => ~dataProviderFailed

\* A rejected stream is open, and its reset is submitted or recorded.
RejectInv ==
    /\ \A s \in rejected : phase[s] # "closed"
    /\ library = "good" => rejected \subseteq submitted \cup Range(pendingResets)
    /\ Len(pendingResets) <= MaxPendingResets

IInv ==
    /\ CallbackTypes /\ PeerTypes /\ OutgoingTypes
    /\ PlaceInv /\ LimitInv /\ ProviderInv /\ RejectInv

-----------------------------------------------------------------------------
(* Sequences of streams, blocks and answers.                               *)

LEMMA RangeOfAppend ==
    ASSUME NEW q \in Seq(Streams), NEW s \in Streams
    PROVE  Range(Append(q, s)) = Range(q) \cup {s}
<1>1. DOMAIN q = 1 .. Len(q) /\ DOMAIN Append(q, s) = 1 .. Len(q) + 1 /\ Len(q) \in Nat
    OBVIOUS
<1>2. \A i \in 1 .. Len(q) : Append(q, s)[i] = q[i]
    OBVIOUS
<1>3. Append(q, s)[Len(q) + 1] = s
    OBVIOUS
<1>4. \A x \in Range(Append(q, s)) : x \in Range(q) \cup {s}
    BY <1>1, <1>2, <1>3 DEF Range
<1>5. \A x \in Range(q) : x \in Range(Append(q, s))
    BY <1>1, <1>2 DEF Range
<1>6. s \in Range(Append(q, s))
    BY <1>1, <1>3 DEF Range
<1> QED BY <1>4, <1>5, <1>6

LEMMA NoBlockFacts ==
    /\ NoBlock \in Blocks /\ NoBlock.stream = NoStream
    /\ NoBlock.bytes = 0 /\ NoBlock.fields = 0
BY DEF NoBlock, Blocks

\* What a callback may answer, and to what.
LEMMA Answered ==
    ASSUME NEW callback, NEW s, NEW action \in Actions
    PROVE  /\ CallbackResult(callback, s, action) \in {"go", "pause", "temporal", "fail"}
           /\ callback = "data" /\ action = "reject_stream" =>
                 /\ s \in Range(pendingResets) => CallbackResult(callback, s, action) = "go"
                 /\ s \notin Range(pendingResets) =>
                       CallbackResult(callback, s, action) =
                          IF Len(pendingResets) = MaxPendingResets THEN "fail" ELSE "pause"
BY DEF CallbackResult, Actions

LEMMA ObeysPlaces ==
    ASSUME PlaceInv, pc = "parsing", NEW answer, Obeys(answer),
           UNCHANGED <<generation, session>>
    PROVE  /\ PlaceInv' /\ pc' \in {"parsing", "returned"}
           /\ library' = "good" => answer # "fail"
           /\ library = "good"
BY DEF PlaceInv, Obeys

-----------------------------------------------------------------------------
(* The session and its arena.                                              *)

LEMMA CreateStep ==
    ASSUME IInv, Create
    PROVE  IInv'
<1>1. /\ session = 0 /\ session' = generation /\ library' = "good"
      /\ headerBytes' = 0 /\ headerFields' = 0 /\ pendingResets' = <<>>
      /\ inputLimitFailed' = FALSE /\ pendingResetOverflow' = FALSE
      /\ dataProviderFailed' = FALSE /\ faulted' = FALSE
      /\ provider' = [s \in Streams |-> "none"] /\ phase' = [s \in Streams |-> "idle"]
      /\ submitted' = {} /\ block' = NoBlock /\ rejected' = {} /\ exceeded' = FALSE
      /\ UNCHANGED <<generation, pc>>
    BY DEF Create
<1>2. pc = "idle"
    BY <1>1 DEF IInv, PlaceInv
<1>3. pendingResets' \in Seq(Streams) /\ Len(pendingResets') = 0
    BY <1>1
<1>4. CallbackTypes' /\ PeerTypes' /\ OutgoingTypes'
    BY <1>1, <1>3, NoBlockFacts, Zenon DEF CallbackTypes, PeerTypes, OutgoingTypes
<1>5. PlaceInv' /\ ProviderInv'
    BY <1>1, <1>2 DEF IInv, PlaceInv, ProviderInv
<1>6. LimitInv'
    BY <1>1, <1>2, NoBlockFacts DEF LimitInv
<1>7. RejectInv'
    BY <1>1, <1>3, Http2Assumption DEF RejectInv
<1> QED BY <1>4, <1>5, <1>6, <1>7 DEF IInv

\* Steps that leave the streams, the flags and the place alone.
LEMMA QuietStep ==
    ASSUME IInv, PlaceInv', UNCHANGED <<pc, library, callbackState, peer, ghosts>>,
           UNCHANGED <<dataProviderFailed, faulted>>, OutgoingTypes',
           RequireValid' => RequireValid
    PROVE  IInv'
<1>1. UNCHANGED <<pc, library, headerBytes, headerFields, pendingResets, inputLimitFailed,
                  pendingResetOverflow, phase, submitted, block, rejected, exceeded,
                  dataProviderFailed, faulted>>
    BY DEF callbackState, peer, ghosts
<1>2. CallbackTypes' /\ PeerTypes'
    BY <1>1 DEF IInv, CallbackTypes, PeerTypes
<1>3. LimitInv' /\ ProviderInv' /\ RejectInv'
    BY <1>1 DEF IInv, LimitInv, ProviderInv, RejectInv
<1> QED BY <1>2, <1>3 DEF IInv

LEMMA ReleaseStep ==
    ASSUME IInv, Release
    PROVE  IInv'
<1>1. /\ UNCHANGED <<outgoing, generation, pc, library, callbackState, peer, ghosts>>
      /\ pc = "idle" /\ session' = 0
    BY DEF Release
<1>2. PlaceInv'
    BY <1>1 DEF IInv, PlaceInv
<1>3. OutgoingTypes' /\ UNCHANGED <<dataProviderFailed, faulted>>
    BY <1>1 DEF IInv, OutgoingTypes, outgoing
<1>4. RequireValid' => RequireValid
    BY <1>1 DEF RequireValid
<1> QED BY <1>1, <1>2, <1>3, <1>4, QuietStep

LEMMA ArenaResetStep ==
    ASSUME IInv, ArenaReset
    PROVE  IInv'
<1>1. /\ UNCHANGED <<session, library, callbackState, peer, ghosts, outgoing>>
      /\ pc' = "idle" /\ generation' = generation + 1
    BY DEF ArenaReset
<1>2. PlaceInv' /\ ~RequireValid'
    BY <1>1 DEF IInv, PlaceInv, RequireValid
<1>3. UNCHANGED <<headerBytes, headerFields, pendingResets, inputLimitFailed,
                  pendingResetOverflow, phase, submitted, block, rejected, exceeded,
                  provider, dataProviderFailed, faulted>>
    BY <1>1 DEF callbackState, peer, ghosts, outgoing
<1>4. CallbackTypes' /\ PeerTypes' /\ OutgoingTypes'
    BY <1>3 DEF IInv, CallbackTypes, PeerTypes, OutgoingTypes
<1>5. LimitInv' /\ ProviderInv'
    BY <1>1, <1>2, <1>3 DEF IInv, LimitInv, ProviderInv
<1>6. RejectInv'
    BY <1>1, <1>3 DEF IInv, RejectInv
<1> QED BY <1>2, <1>4, <1>5, <1>6 DEF IInv

-----------------------------------------------------------------------------
(* Callbacks.                                                              *)

\* While the library parses, no provider is asked.
LEMMA ParsingProviders ==
    ASSUME IInv, pc = "parsing", pc' \in {"parsing", "returned"},
           UNCHANGED <<dataProviderFailed, faulted>>
    PROVE  ProviderInv'
BY DEF IInv, ProviderInv, PlaceInv, RequireValid

LEMMA OnBeginHeadersStep ==
    ASSUME IInv, NEW s \in Streams, NEW action \in Actions, OnBeginHeaders(s, action)
    PROVE  IInv'
<1> DEFINE answer == CallbackResult("headers_begin", s, action)
<1>1. /\ pc = "parsing" /\ block = NoBlock
      /\ phase' = [phase EXCEPT ![s] = "open"]
      /\ headerBytes' = 0 /\ headerFields' = 0
      /\ block' = IF answer = "go" THEN [NoBlock EXCEPT !.stream = s] ELSE NoBlock
      /\ submitted' = IF answer = "temporal" THEN submitted \cup {s} ELSE submitted
      /\ Obeys(answer)
      /\ UNCHANGED <<generation, session, pendingResets, inputLimitFailed,
                     pendingResetOverflow, rejected, exceeded>>
      /\ UNCHANGED <<provider, dataProviderFailed, faulted>>
    BY DEF OnBeginHeaders, CountersCleared, ghosts, outgoing
<1> HIDE DEF answer
<1>2. PlaceInv' /\ pc' \in {"parsing", "returned"} /\ library = "good"
    BY <1>1, ObeysPlaces DEF IInv
<1>3. /\ block' \in Blocks /\ (block'.stream = NoStream => block' = NoBlock)
      /\ block'.bytes = 0 /\ block'.fields = 0
    BY <1>1, NoBlockFacts, Http2Assumption DEF Blocks
<1>4. ~OverLimits(0, 0)
    BY Http2Assumption DEF OverLimits
<1>5. CallbackTypes' /\ OutgoingTypes'
    BY <1>1 DEF IInv, CallbackTypes, OutgoingTypes
<1>6. PeerTypes'
    BY <1>1, <1>3 DEF IInv, PeerTypes
<1>7. LimitInv'
    BY <1>1, <1>2, <1>3, <1>4 DEF IInv, LimitInv
<1>8. ProviderInv'
    BY <1>1, <1>2, ParsingProviders
<1>9. RejectInv'
    BY <1>1, <1>2 DEF IInv, PeerTypes, RejectInv
<1> QED BY <1>2, <1>5, <1>6, <1>7, <1>8, <1>9 DEF IInv

LEMMA OnHeaderStep ==
    ASSUME IInv, NEW n \in HeaderSizes, NEW action \in Actions, OnHeader(n, action)
    PROVE  IInv'
<1> DEFINE s == block.stream
           over == OverLimits(headerBytes + n, headerFields + 1)
           answer == IF over THEN "temporal" ELSE CallbackResult("header", s, action)
           real == [block EXCEPT !.bytes = @ + n, !.fields = @ + 1]
<1>1. /\ pc = "parsing" /\ s # NoStream
      /\ headerBytes' = headerBytes + n /\ headerFields' = headerFields + 1
      /\ inputLimitFailed' = (inputLimitFailed \/ over)
      /\ exceeded' = (exceeded \/ OverLimits(real.bytes, real.fields))
      /\ block' = IF answer = "temporal" THEN NoBlock ELSE real
      /\ submitted' = IF answer = "temporal" THEN submitted \cup {s} ELSE submitted
      /\ Obeys(answer)
      /\ UNCHANGED <<generation, session, pendingResets, pendingResetOverflow, phase, rejected>>
      /\ UNCHANGED <<provider, dataProviderFailed, faulted>>
    BY DEF OnHeader, outgoing
<1>2. /\ block \in Blocks /\ headerBytes \in Nat /\ headerFields \in Nat /\ n \in Nat
      /\ inputLimitFailed \in BOOLEAN /\ exceeded \in BOOLEAN
    BY Http2Assumption DEF IInv, PeerTypes, CallbackTypes
<1>3. /\ block # NoBlock /\ block.bytes = headerBytes /\ block.fields = headerFields
      /\ s \in Streams
    BY <1>1, <1>2, NoBlockFacts DEF IInv, LimitInv, Blocks
<1>4. /\ real \in Blocks /\ real.stream = s /\ real.bytes = headerBytes + n
      /\ real.fields = headerFields + 1
  <2>1. PICK r \in Streams \cup {NoStream}, b \in Nat, f \in Nat :
          block = [stream |-> r, bytes |-> b, fields |-> f]
      BY <1>2 DEF Blocks
  <2>2. real = [stream |-> r, bytes |-> b + n, fields |-> f + 1]
    <3>1. real = [block EXCEPT !.bytes = block.bytes + n, !.fields = block.fields + 1]
        BY <2>1
    <3>2. block.bytes = b /\ block.fields = f
        BY <2>1
    <3> HIDE DEF real
    <3> QED BY <2>1, <3>1, <3>2, Zenon
  <2>3. b + n \in Nat /\ f + 1 \in Nat
      BY <1>2, <2>1
  <2>4. r = s /\ b = headerBytes /\ f = headerFields
      BY <1>3, <2>1
  <2> HIDE DEF real, s
  <2>5. real \in Blocks
      BY <2>2, <2>3 DEF Blocks
  <2> QED BY <2>2, <2>4, <2>5
<1>5. over \in BOOLEAN /\ (OverLimits(real.bytes, real.fields) = over)
    BY <1>4 DEF OverLimits
<1>6. over => answer = "temporal"
    OBVIOUS
<1> HIDE DEF answer, real, s
<1>7. PlaceInv' /\ pc' \in {"parsing", "returned"} /\ library = "good"
    BY <1>1, ObeysPlaces DEF IInv
<1>8. CallbackTypes' /\ OutgoingTypes'
  <2>1. headerBytes' \in Nat /\ headerFields' \in Nat
      BY <1>1, <1>2
  <2>2. inputLimitFailed' \in BOOLEAN
      BY <1>1
  <2> QED BY <1>1, <2>1, <2>2 DEF IInv, CallbackTypes, OutgoingTypes
<1>9. PeerTypes'
  <2>1. exceeded' \in BOOLEAN
      BY <1>1
  <2>2. block' \in Blocks
      BY <1>1, <1>4, NoBlockFacts
  <2> QED BY <1>1, <1>3, <2>1, <2>2 DEF IInv, PeerTypes
<1>10. LimitInv'
  <2>1. inputLimitFailed' = exceeded'
    <3>1. inputLimitFailed = exceeded
        BY <1>1 DEF IInv, LimitInv
    <3> HIDE DEF over
    <3> QED BY <1>1, <1>5, <3>1
  <2>2. CASE answer = "temporal"
      BY <1>1, <1>7, <2>1, <2>2, ZenonT(30) DEF LimitInv
  <2>3. CASE answer # "temporal"
    <3>1. block' = real /\ block'.stream # NoStream
        BY <1>1, <1>3, <1>4, <2>3, Http2Assumption
    <3>2. ~OverLimits(block'.bytes, block'.fields)
        BY <1>5, <1>6, <2>3, <3>1
    <3> QED BY <1>1, <1>4, <1>7, <2>1, <3>1, <3>2 DEF LimitInv
  <2> QED BY <2>2, <2>3
<1>11. ProviderInv'
    BY <1>1, <1>7, ParsingProviders
<1>12. RejectInv'
    BY <1>1, <1>7 DEF IInv, RejectInv
<1> QED BY <1>7, <1>8, <1>9, <1>10, <1>11, <1>12 DEF IInv

LEMMA OnFrameReceivedStep ==
    ASSUME IInv, NEW action \in Actions, OnFrameReceived(action)
    PROVE  IInv'
<1>1. /\ pc = "parsing" /\ block' = NoBlock
      /\ Obeys(CallbackResult("frame_received", NoStream, action))
      /\ UNCHANGED <<generation, session, phase, submitted>>
      /\ UNCHANGED <<headerBytes, headerFields, pendingResets, inputLimitFailed,
                     pendingResetOverflow>>
      /\ UNCHANGED <<provider, dataProviderFailed, faulted, rejected, exceeded>>
    BY DEF OnFrameReceived, callbackState, ghosts, outgoing
<1>2. PlaceInv' /\ pc' \in {"parsing", "returned"} /\ library = "good"
    BY <1>1, ObeysPlaces DEF IInv
<1>3. CallbackTypes' /\ OutgoingTypes' /\ PeerTypes'
    BY <1>1, NoBlockFacts DEF IInv, CallbackTypes, OutgoingTypes, PeerTypes
<1>4. LimitInv'
    BY <1>1, <1>2 DEF IInv, LimitInv
<1>5. ProviderInv'
    BY <1>1, <1>2, ParsingProviders
<1>6. RejectInv'
    BY <1>1, <1>2 DEF IInv, RejectInv
<1> QED BY <1>2, <1>3, <1>4, <1>5, <1>6 DEF IInv

LEMMA OnLongGoawayStep ==
    ASSUME IInv, OnLongGoaway
    PROVE  IInv'
<1>1. /\ pc = "parsing" /\ inputLimitFailed' = TRUE /\ exceeded' = TRUE /\ Obeys("fail")
      /\ UNCHANGED <<generation, session, headerBytes, headerFields, pendingResets,
                     pendingResetOverflow, rejected>>
      /\ UNCHANGED <<provider, dataProviderFailed, faulted, phase, submitted, block>>
    BY DEF OnLongGoaway, outgoing, peer
<1>2. PlaceInv' /\ pc' \in {"parsing", "returned"} /\ library = "good"
    BY <1>1, ObeysPlaces DEF IInv
<1>3. CallbackTypes' /\ OutgoingTypes' /\ PeerTypes'
    BY <1>1 DEF IInv, CallbackTypes, OutgoingTypes, PeerTypes
<1>4. LimitInv'
    BY <1>1, <1>2 DEF IInv, LimitInv
<1>5. ProviderInv'
    BY <1>1, <1>2, ParsingProviders
<1>6. RejectInv'
    BY <1>1, <1>2 DEF IInv, RejectInv
<1> QED BY <1>2, <1>3, <1>4, <1>5, <1>6 DEF IInv

LEMMA OnDataStep ==
    ASSUME IInv, NEW s \in Streams, NEW action \in Actions, OnData(s, action)
    PROVE  IInv'
<1> DEFINE answer == CallbackResult("data", s, action)
           new == action = "reject_stream" /\ s \notin Range(pendingResets)
<1>1. /\ pc = "parsing" /\ phase[s] = "open"
      /\ pendingResets' = IF new /\ answer = "pause" THEN Append(pendingResets, s)
                          ELSE pendingResets
      /\ pendingResetOverflow' = (pendingResetOverflow \/ (new /\ answer = "fail"))
      /\ rejected' = IF action = "reject_stream" THEN rejected \cup {s} ELSE rejected
      /\ Obeys(answer)
      /\ UNCHANGED <<generation, session, headerBytes, headerFields, inputLimitFailed, exceeded>>
      /\ UNCHANGED <<provider, dataProviderFailed, faulted, phase, submitted, block>>
    BY DEF OnData, outgoing, peer
<1>2. /\ PlaceInv' /\ pc' \in {"parsing", "returned"} /\ library = "good"
      /\ library' = "good" => answer # "fail"
    BY <1>1, ObeysPlaces DEF IInv
<1>3. action = "reject_stream" =>
         /\ s \in Range(pendingResets) => answer = "go"
         /\ s \notin Range(pendingResets) =>
               answer = IF Len(pendingResets) = MaxPendingResets THEN "fail" ELSE "pause"
    BY Answered
<1> HIDE DEF answer
<1>4. pendingResets \in Seq(Streams) /\ Len(pendingResets) \in Nat
      /\ Len(pendingResets) <= MaxPendingResets /\ MaxPendingResets \in Nat
    BY Http2Assumption DEF IInv, CallbackTypes, RejectInv
<1>5. /\ pendingResets' \in Seq(Streams) /\ Range(pendingResets) \subseteq Range(pendingResets')
      /\ Len(pendingResets') <= MaxPendingResets
      /\ new /\ answer = "pause" => s \in Range(pendingResets')
  <2>1. CASE new /\ answer = "pause"
    <3>1. pendingResets' = Append(pendingResets, s)
        BY <1>1, <2>1
    <3>2. Len(pendingResets) # MaxPendingResets
        BY <1>3, <2>1
    <3>3. Range(pendingResets') = Range(pendingResets) \cup {s}
        BY <1>4, <3>1, RangeOfAppend
    <3>4. pendingResets' \in Seq(Streams) /\ Len(pendingResets') = Len(pendingResets) + 1
        BY <1>4, <3>1
    <3>5. Len(pendingResets') <= MaxPendingResets
        BY <1>4, <3>2, <3>4
    <3> QED BY <3>3, <3>4, <3>5
  <2>2. CASE ~(new /\ answer = "pause")
      BY <1>1, <1>4, <2>2
  <2> QED BY <2>1, <2>2
<1>6. CallbackTypes' /\ OutgoingTypes'
    BY <1>1, <1>5 DEF IInv, CallbackTypes, OutgoingTypes
<1>7. PeerTypes'
    BY <1>1 DEF IInv, PeerTypes
<1>8. LimitInv'
    BY <1>1, <1>2 DEF IInv, LimitInv
<1>9. ProviderInv'
    BY <1>1, <1>2, ParsingProviders
<1>10. RejectInv'
  <2>1. \A x \in rejected' : phase'[x] # "closed"
      BY <1>1 DEF IInv, RejectInv
  <2>2. ASSUME library' = "good" PROVE rejected' \subseteq submitted' \cup Range(pendingResets')
    <3>1. rejected \subseteq submitted' \cup Range(pendingResets')
        BY <1>1, <1>2, <1>5 DEF IInv, RejectInv
    <3>2. action = "reject_stream" => s \in Range(pendingResets')
        BY <1>2, <1>3, <1>5, <2>2
    <3> QED BY <1>1, <3>1, <3>2
  <2> QED BY <1>5, <2>1, <2>2 DEF RejectInv
<1> QED BY <1>2, <1>6, <1>7, <1>8, <1>9, <1>10 DEF IInv

\* What the end of a stream changes.
LEMMA ClosedStep ==
    ASSUME IInv, NEW s \in Streams, Closed(s), library = "good",
           UNCHANGED <<callbackState, block, exceeded, dataProviderFailed, faulted>>
    PROVE  /\ CallbackTypes' /\ PeerTypes' /\ OutgoingTypes' /\ RejectInv'
<1>1. /\ phase' = [phase EXCEPT ![s] = "closed"]
      /\ submitted' = submitted \ {s} /\ rejected' = rejected \ {s}
      /\ provider' = [provider EXCEPT ![s] = "none"]
      /\ UNCHANGED <<headerBytes, headerFields, pendingResets, inputLimitFailed,
                     pendingResetOverflow, block, exceeded, dataProviderFailed, faulted>>
    BY DEF Closed, callbackState
<1>2. CallbackTypes' /\ OutgoingTypes'
    BY <1>1 DEF IInv, CallbackTypes, OutgoingTypes
<1>3. PeerTypes'
    BY <1>1 DEF IInv, PeerTypes
<1>4. RejectInv'
    BY <1>1 DEF IInv, PeerTypes, RejectInv
<1> QED BY <1>2, <1>3, <1>4

LEMMA OnStreamClosedStep ==
    ASSUME IInv, NEW s \in Streams, NEW action \in Actions, OnStreamClosed(s, action)
    PROVE  IInv'
<1>1. /\ pc = "parsing" /\ Closed(s) /\ Obeys(CallbackResult("stream_closed", s, action))
      /\ UNCHANGED <<generation, session, callbackState, block, exceeded, dataProviderFailed,
                     faulted>>
    BY DEF OnStreamClosed
<1>2. PlaceInv' /\ pc' \in {"parsing", "returned"} /\ library = "good"
    BY <1>1, ObeysPlaces DEF IInv
<1>3. CallbackTypes' /\ PeerTypes' /\ OutgoingTypes' /\ RejectInv'
    BY <1>1, <1>2, ClosedStep
<1>4. LimitInv'
    BY <1>1, <1>2 DEF IInv, LimitInv, callbackState
<1>5. ProviderInv'
    BY <1>1, <1>2, ParsingProviders
<1> QED BY <1>2, <1>3, <1>4, <1>5 DEF IInv

-----------------------------------------------------------------------------
(* receive                                                                 *)

LEMMA ReceiveStep ==
    ASSUME IInv, Receive
    PROVE  IInv'
<1>1. /\ pc = "idle" /\ session # 0 /\ session = generation
      /\ pc' = IF library = "good" THEN "parsing" ELSE "returned"
      /\ exceeded' = FALSE
      /\ UNCHANGED <<generation, session, library, callbackState, peer, rejected, outgoing>>
    BY DEF Receive, RequireValid
<1>2. PlaceInv'
    BY <1>1, Zenon DEF IInv, PlaceInv
<1>3. CallbackTypes' /\ PeerTypes' /\ OutgoingTypes'
    BY <1>1, Zenon DEF IInv, CallbackTypes, PeerTypes, OutgoingTypes, callbackState, peer, outgoing
<1>4. LimitInv'
    BY <1>1, Zenon DEF IInv, CallbackTypes, LimitInv, callbackState, peer, PlaceInv, RequireValid
<1>5. ProviderInv'
    BY <1>1 DEF IInv, ProviderInv, outgoing, PlaceInv, RequireValid
<1>6. RejectInv'
    BY <1>1 DEF IInv, RejectInv, callbackState, peer
<1> QED BY <1>2, <1>3, <1>4, <1>5, <1>6 DEF IInv

LEMMA InputEndsStep ==
    ASSUME IInv, InputEnds
    PROVE  IInv'
<1>1. /\ pc = "parsing" /\ pc' = "returned"
      /\ UNCHANGED <<generation, session, library, callbackState, peer, ghosts, outgoing>>
    BY DEF InputEnds
<1>2. PlaceInv'
    BY <1>1 DEF IInv, PlaceInv
<1>3. CallbackTypes' /\ PeerTypes' /\ OutgoingTypes'
    BY <1>1 DEF IInv, CallbackTypes, PeerTypes, OutgoingTypes, callbackState, peer, ghosts,
                outgoing
<1>4. LimitInv'
    BY <1>1 DEF IInv, LimitInv, callbackState, peer, ghosts
<1>5. ProviderInv'
    BY <1>1 DEF IInv, ProviderInv, outgoing, PlaceInv, RequireValid
<1>6. RejectInv'
    BY <1>1 DEF IInv, RejectInv, callbackState, peer, ghosts
<1> QED BY <1>2, <1>3, <1>4, <1>5, <1>6 DEF IInv

\* Every way receive() ends.
LEMMA ReceiveEnds ==
    ASSUME IInv, pc = "returned", pc' = "idle", ~inputLimitFailed',
           inputLimitFailed' \in BOOLEAN, pendingResetOverflow' \in BOOLEAN,
           pendingResets' \in {pendingResets, <<>>},
           submitted' \in SUBSET Streams, rejected' \subseteq rejected,
           library = "good" => rejected' \subseteq submitted' \cup Range(pendingResets'),
           UNCHANGED <<outgoing, generation, session, library, headerBytes, headerFields,
                       phase, block, exceeded>>
    PROVE  IInv'
<1>1. PlaceInv'
    BY DEF IInv, PlaceInv
<1>2. /\ pendingResets' \in Seq(Streams)
      /\ Len(pendingResets') <= MaxPendingResets
  <2>1. CASE pendingResets' = pendingResets
      BY <2>1 DEF IInv, CallbackTypes, RejectInv
  <2>2. CASE pendingResets' = <<>>
    <3>1. <<>> \in Seq(Streams) /\ Len(<<>>) = 0
        OBVIOUS
    <3> QED BY <2>2, <3>1, Http2Assumption
  <2> QED BY <2>1, <2>2
<1>3. CallbackTypes' /\ OutgoingTypes'
    BY <1>2 DEF IInv, CallbackTypes, OutgoingTypes, outgoing
<1>4. PeerTypes'
    BY DEF IInv, PeerTypes
<1>5. LimitInv'
    BY DEF IInv, LimitInv
<1>6. ProviderInv'
    BY DEF IInv, ProviderInv, outgoing, PlaceInv, RequireValid
<1>7. RejectInv'
    BY <1>2 DEF IInv, RejectInv
<1> QED BY <1>1, <1>3, <1>4, <1>5, <1>6, <1>7 DEF IInv

LEMMA ReceiveReportsLimitStep ==
    ASSUME IInv, ReceiveReportsLimit
    PROVE  IInv'
<1>1. /\ pc = "returned" /\ pc' = "idle" /\ inputLimitFailed' = FALSE
      /\ pendingResets' = pendingResets
      /\ UNCHANGED <<outgoing, generation, session, library, headerBytes, headerFields,
                     pendingResetOverflow, phase, submitted, block, rejected, exceeded>>
    BY DEF ReceiveReportsLimit, ResetsAfterLimit, peer, ghosts
<1>2. /\ pendingResetOverflow' \in BOOLEAN /\ submitted' \in SUBSET Streams
      /\ library = "good" => rejected' \subseteq submitted' \cup Range(pendingResets')
    BY <1>1 DEF IInv, CallbackTypes, PeerTypes, RejectInv
<1> QED BY <1>1, <1>2, ReceiveEnds, Zenon

LEMMA ReceiveReportsOverflowStep ==
    ASSUME IInv, ReceiveReportsOverflow
    PROVE  IInv'
<1>1. /\ pc = "returned" /\ pc' = "idle" /\ ~inputLimitFailed
      /\ pendingResetOverflow' = FALSE /\ pendingResets' = <<>>
      /\ rejected' = rejected \cap submitted
      /\ UNCHANGED <<outgoing, generation, session, library, headerBytes, headerFields,
                     inputLimitFailed, phase, submitted, block, exceeded>>
    BY DEF ReceiveReportsOverflow, peer
<1>2. inputLimitFailed' \in BOOLEAN /\ submitted' \in SUBSET Streams
    BY <1>1 DEF IInv, CallbackTypes, PeerTypes
<1> QED BY <1>1, <1>2, ReceiveEnds, Zenon

LEMMA ReceiveFailsStep ==
    ASSUME IInv, ReceiveFails
    PROVE  IInv'
<1>1. /\ pc = "returned" /\ pc' = "idle" /\ ~inputLimitFailed /\ library = "failed"
      /\ UNCHANGED <<outgoing, generation, session, library, headerBytes, headerFields,
                     pendingResets, inputLimitFailed, pendingResetOverflow,
                     phase, submitted, block, rejected, exceeded>>
    BY DEF ReceiveFails, callbackState, peer, ghosts
<1>2. /\ inputLimitFailed' \in BOOLEAN /\ pendingResetOverflow' \in BOOLEAN
      /\ submitted' \in SUBSET Streams
    BY <1>1 DEF IInv, CallbackTypes, PeerTypes
<1> QED BY <1>1, <1>2, ReceiveEnds

LEMMA ReceiveSucceedsStep ==
    ASSUME IInv, NEW n \in Nat, ReceiveSucceeds(n)
    PROVE  IInv'
<1> DEFINE taken == {pendingResets[i] : i \in 1 .. n}
<1>1. /\ pc = "returned" /\ pc' = "idle" /\ ~inputLimitFailed /\ library = "good"
      /\ n <= Len(pendingResets)
      /\ submitted' = submitted \cup {s \in taken : phase[s] # "closed"}
      /\ pendingResets' = <<>>
      /\ rejected' = rejected \ (Range(pendingResets) \ taken)
      /\ UNCHANGED <<outgoing, generation, session, library, headerBytes, headerFields,
                     inputLimitFailed, pendingResetOverflow, phase, block, exceeded>>
    BY DEF ReceiveSucceeds
<1>2. taken \subseteq Streams
  <2>0. pendingResets \in Seq(Streams) /\ n <= Len(pendingResets)
      BY <1>1, Zenon DEF IInv, CallbackTypes
  <2>1. \A i \in 1 .. n : pendingResets[i] \in Streams
      BY <2>0
  <2> QED BY <2>1, Zenon
<1> HIDE DEF taken
<1>3. /\ inputLimitFailed' \in BOOLEAN /\ pendingResetOverflow' \in BOOLEAN
      /\ submitted' \in SUBSET Streams
  <2>1. /\ inputLimitFailed \in BOOLEAN /\ pendingResetOverflow \in BOOLEAN
        /\ submitted \in SUBSET Streams
      BY Zenon DEF IInv, CallbackTypes, PeerTypes
  <2> QED BY <1>1, <1>2, <2>1, Zenon
<1>4. rejected' \subseteq submitted'
    BY <1>1 DEF IInv, RejectInv
<1> QED BY <1>1, <1>3, <1>4, ReceiveEnds, ZenonT(30)

-----------------------------------------------------------------------------
(* Submissions and output.                                                 *)

\* Calls that submit something change at most the phase of a stream that is not
\* closed, what is submitted, and the providers.
LEMMA SubmissionStep ==
    ASSUME IInv, May,
           phase' \in [Streams -> {"idle", "open", "closed"}],
           \A s \in Streams : phase'[s] = "closed" => phase[s] = "closed",
           submitted' \in SUBSET Streams, submitted \subseteq submitted',
           provider' \in [Streams -> {"none", "sending", "deferred"}],
           UNCHANGED <<generation, session, pc, library, callbackState, block, ghosts,
                       dataProviderFailed, faulted>>
    PROVE  IInv'
<1>1. PlaceInv'
    BY Zenon DEF IInv, PlaceInv, May, RequireValid
<1>2. CallbackTypes' /\ PeerTypes' /\ OutgoingTypes'
    BY DEF IInv, CallbackTypes, PeerTypes, OutgoingTypes, callbackState, ghosts
<1>3. LimitInv'
    BY DEF IInv, LimitInv, callbackState, ghosts, PlaceInv, RequireValid
<1>4. ProviderInv'
    BY DEF IInv, ProviderInv, PlaceInv, RequireValid
<1>5. RejectInv'
    BY DEF IInv, PeerTypes, RejectInv, callbackState, ghosts
<1> QED BY <1>1, <1>2, <1>3, <1>4, <1>5 DEF IInv

LEMMA SubmitSteps ==
    ASSUME IInv,
           \/ \E s \in Streams :
                  SubmitHeaders(s) \/ SubmitReset(s) \/ SubmitData(s) \/ ResumeData(s)
           \/ Passes
    PROVE  IInv'
<1>1. /\ phase \in [Streams -> {"idle", "open", "closed"}] /\ submitted \in SUBSET Streams
      /\ provider \in [Streams -> {"none", "sending", "deferred"}]
    BY DEF IInv, PeerTypes, OutgoingTypes
<1>2. ASSUME NEW s \in Streams, SubmitHeaders(s) PROVE IInv'
  <2>1. /\ phase' \in [Streams -> {"idle", "open", "closed"}]
        /\ \A x \in Streams : phase'[x] = "closed" => phase[x] = "closed"
      BY <1>1, <1>2 DEF SubmitHeaders
  <2> QED BY <1>1, <1>2, <2>1, SubmissionStep DEF SubmitHeaders, outgoing
<1>3. ASSUME NEW s \in Streams, SubmitReset(s) PROVE IInv'
    BY <1>1, <1>3, SubmissionStep DEF SubmitReset, outgoing
<1>4. ASSUME NEW s \in Streams, SubmitData(s) \/ ResumeData(s) PROVE IInv'
    BY <1>1, <1>4, SubmissionStep DEF SubmitData, ResumeData, peer
<1>5. ASSUME Passes PROVE IInv'
    BY <1>1, <1>5, SubmissionStep DEF Passes, peer, outgoing
<1> QED BY <1>2, <1>3, <1>4, <1>5

LEMMA NextOutputStep ==
    ASSUME IInv, NextOutput
    PROVE  IInv'
<1>1. /\ pc = "idle" /\ session # 0 /\ session = generation
      /\ pc' = IF library = "good" THEN "sending" ELSE "sent"
      /\ faulted' = FALSE
      /\ UNCHANGED <<generation, session, library, callbackState, peer, ghosts, provider,
                     dataProviderFailed>>
    BY DEF NextOutput, May, RequireValid
<1>2. PlaceInv'
    BY <1>1, Zenon DEF IInv, PlaceInv
<1>3. CallbackTypes' /\ PeerTypes' /\ OutgoingTypes'
    BY <1>1, Zenon DEF IInv, CallbackTypes, PeerTypes, OutgoingTypes, callbackState, peer, ghosts
<1>4. LimitInv'
    BY <1>1 DEF IInv, LimitInv, callbackState, peer, ghosts, PlaceInv, RequireValid
<1>5. ProviderInv'
    BY <1>1, Zenon DEF IInv, OutgoingTypes, ProviderInv, PlaceInv, RequireValid
<1>6. RejectInv'
    BY <1>1 DEF IInv, RejectInv, callbackState, peer, ghosts
<1> QED BY <1>2, <1>3, <1>4, <1>5, <1>6 DEF IInv

LEMMA OnDataSourceReadStep ==
    ASSUME IInv, NEW s \in Streams, NEW answer \in Answers, OnDataSourceRead(s, answer)
    PROVE  IInv'
<1> DEFINE good == Acceptable(answer)
           next == IF good /\ answer.state = "end" THEN "none"
                   ELSE IF good /\ answer.state = "deferred" THEN "deferred"
                   ELSE provider[s]
<1>1. /\ pc = "sending"
      /\ dataProviderFailed' = (dataProviderFailed \/ ~good) /\ faulted' = ~good
      /\ provider' = [provider EXCEPT ![s] = next]
      /\ pc' = IF good /\ answer.state = "deferred" THEN "sending" ELSE "sent"
      /\ library' = IF good THEN library ELSE "failed"
      /\ UNCHANGED <<generation, session, callbackState, peer, ghosts>>
    BY DEF OnDataSourceRead
<1>2. /\ good \in BOOLEAN
      /\ next \in {"none", "sending", "deferred"}
    BY DEF Acceptable, IInv, OutgoingTypes
<1> HIDE DEF good, next
<1>3. dataProviderFailed' = ~good /\ dataProviderFailed' \in BOOLEAN /\ faulted' \in BOOLEAN
    BY <1>1, <1>2 DEF IInv, ProviderInv
<1>4. PlaceInv'
    BY <1>1, <1>2 DEF IInv, PlaceInv
<1>5. CallbackTypes' /\ PeerTypes'
    BY <1>1 DEF IInv, CallbackTypes, PeerTypes, callbackState, peer, ghosts
<1>6. OutgoingTypes'
    BY <1>1, <1>2, <1>3 DEF IInv, OutgoingTypes
<1>7. LimitInv'
    BY <1>1 DEF IInv, LimitInv, callbackState, peer, ghosts, PlaceInv, RequireValid
<1>8. ProviderInv'
    BY <1>1, <1>2, <1>3, Zenon DEF ProviderInv
<1>9. RejectInv'
    BY <1>1, <1>2 DEF IInv, PlaceInv, RejectInv, callbackState, peer, ghosts
<1> QED BY <1>4, <1>5, <1>6, <1>7, <1>8, <1>9 DEF IInv

LEMMA SendsResetStep ==
    ASSUME IInv, NEW s \in Streams, NEW action \in Actions, SendsReset(s, action)
    PROVE  IInv'
<1>1. /\ pc = "sending" /\ Closed(s) /\ pc' = "sent" /\ library' \in {"good", "failed"}
      /\ UNCHANGED <<generation, session, callbackState, block, exceeded, dataProviderFailed,
                     faulted>>
    BY DEF SendsReset
<1>2. PlaceInv' /\ library = "good"
    BY <1>1 DEF IInv, PlaceInv
<1>3. CallbackTypes' /\ PeerTypes' /\ OutgoingTypes' /\ RejectInv'
    BY <1>1, <1>2, ClosedStep
<1>4. LimitInv'
    BY <1>1 DEF IInv, LimitInv, callbackState, PlaceInv, RequireValid
<1>5. ProviderInv'
    BY <1>1 DEF IInv, OutgoingTypes, ProviderInv
<1> QED BY <1>2, <1>3, <1>4, <1>5 DEF IInv

LEMMA SendsOtherStep ==
    ASSUME IInv, SendsOther
    PROVE  IInv'
<1>1. /\ pc = "sending" /\ pc' = "sent"
      /\ UNCHANGED <<generation, session, library, callbackState, peer, ghosts, outgoing>>
    BY DEF SendsOther
<1>2. PlaceInv'
    BY <1>1 DEF IInv, PlaceInv
<1>3. CallbackTypes' /\ PeerTypes' /\ OutgoingTypes'
    BY <1>1 DEF IInv, CallbackTypes, PeerTypes, OutgoingTypes, callbackState, peer, ghosts,
                outgoing
<1>4. LimitInv'
    BY <1>1 DEF IInv, LimitInv, callbackState, peer, ghosts, PlaceInv, RequireValid
<1>5. ProviderInv'
    BY <1>1 DEF IInv, OutgoingTypes, ProviderInv, outgoing
<1>6. RejectInv'
    BY <1>1 DEF IInv, RejectInv, callbackState, peer, ghosts
<1> QED BY <1>2, <1>3, <1>4, <1>5, <1>6 DEF IInv

LEMMA NextOutputReturnsStep ==
    ASSUME IInv, NextOutputReturns
    PROVE  IInv'
<1>1. /\ pc = "sent" /\ pc' = "idle" /\ dataProviderFailed' = FALSE /\ faulted' = FALSE
      /\ UNCHANGED <<generation, session, library, callbackState, peer, ghosts, provider>>
    BY DEF NextOutputReturns
<1>2. PlaceInv'
    BY <1>1 DEF IInv, PlaceInv
<1>3. CallbackTypes' /\ PeerTypes' /\ OutgoingTypes'
    BY <1>1, Zenon DEF IInv, CallbackTypes, PeerTypes, OutgoingTypes, callbackState, peer, ghosts
<1>4. LimitInv'
    BY <1>1 DEF IInv, LimitInv, callbackState, peer, ghosts, PlaceInv, RequireValid
<1>5. ProviderInv'
    BY <1>1 DEF ProviderInv
<1>6. RejectInv'
    BY <1>1 DEF IInv, RejectInv, callbackState, peer, ghosts
<1> QED BY <1>2, <1>3, <1>4, <1>5, <1>6 DEF IInv

-----------------------------------------------------------------------------
(* The invariant holds in every reachable state.                           *)

LEMMA InitInv == Init => IInv
<1> SUFFICES ASSUME Init PROVE IInv
    OBVIOUS
<1>1. pendingResets \in Seq(Streams) /\ Len(pendingResets) = 0
    BY DEF Init
<1>2. CallbackTypes /\ PeerTypes /\ OutgoingTypes
    BY <1>1, NoBlockFacts, Zenon DEF Init, CallbackTypes, PeerTypes, OutgoingTypes
<1>3. PlaceInv /\ ProviderInv
    BY DEF Init, PlaceInv, ProviderInv
<1>4. LimitInv
    BY NoBlockFacts DEF Init, LimitInv
<1>5. RejectInv
    BY <1>1, Http2Assumption DEF Init, RejectInv
<1> QED BY <1>2, <1>3, <1>4, <1>5 DEF IInv

LEMMA NextInv == IInv /\ [Next]_vars => IInv'
<1> SUFFICES ASSUME IInv, [Next]_vars PROVE IInv'
    OBVIOUS
<1>1. CASE Create \/ Release \/ ArenaReset
    BY <1>1, CreateStep, ReleaseStep, ArenaResetStep
<1>2. CASE Receive \/ InputEnds \/ OnLongGoaway
    BY <1>2, ReceiveStep, InputEndsStep, OnLongGoawayStep
<1>3. ASSUME NEW action \in Actions, Parses(action) PROVE IInv'
    BY <1>3, OnBeginHeadersStep, OnDataStep, OnStreamClosedStep, OnHeaderStep,
       OnFrameReceivedStep DEF Parses
<1>4. CASE ReceiveReportsLimit \/ ReceiveReportsOverflow \/ ReceiveFails
    BY <1>4, ReceiveReportsLimitStep, ReceiveReportsOverflowStep, ReceiveFailsStep
<1>5. ASSUME NEW n \in 0 .. MaxPendingResets, ReceiveSucceeds(n) PROVE IInv'
  <2>1. n \in Nat
      BY Http2Assumption
  <2> QED BY <1>5, <2>1, ReceiveSucceedsStep
<1>6. CASE \/ \E s \in Streams :
                SubmitHeaders(s) \/ SubmitReset(s) \/ SubmitData(s) \/ ResumeData(s)
           \/ SubmitSettings \/ SubmitGoaway \/ SubmitWindowUpdate
    BY <1>6, SubmitSteps DEF SubmitSettings, SubmitGoaway, SubmitWindowUpdate
<1>7. CASE NextOutput \/ SendsOther \/ NextOutputReturns
    BY <1>7, NextOutputStep, SendsOtherStep, NextOutputReturnsStep
<1>8. ASSUME NEW s \in Streams, NEW answer \in Answers, OnDataSourceRead(s, answer)
      PROVE  IInv'
    BY <1>8, OnDataSourceReadStep
<1>9. ASSUME NEW s \in Streams, NEW action \in Actions, SendsReset(s, action)
      PROVE  IInv'
    BY <1>9, SendsResetStep
<1>10. CASE UNCHANGED vars
  <2>1. PlaceInv' /\ OutgoingTypes' /\ UNCHANGED <<pc, library, callbackState, peer, ghosts>>
        /\ UNCHANGED <<dataProviderFailed, faulted>>
      BY <1>10 DEF vars, outgoing, IInv, PlaceInv, OutgoingTypes
  <2>2. RequireValid' => RequireValid
      BY <1>10 DEF vars, RequireValid
  <2> QED BY <2>1, <2>2, QuietStep, Zenon
<1> QED BY <1>1, <1>2, <1>3, <1>4, <1>5, <1>6, <1>7, <1>8, <1>9, <1>10 DEF Next

LEMMA Invariance == Spec => []IInv
BY InitInv, NextInv, PTL DEF Spec

-----------------------------------------------------------------------------
(* Theorems.                                                               *)

\* The data of a stream that the sink rejects in on_data leads to a reset of the
\* stream: whenever the session can be called and the library has not failed, its
\* RST_STREAM is submitted or the stream waits in pending_resets, whatever limits,
\* pauses and errors receive() reported in between.
THEOREM RejectionsKept == Spec => []NoRejectionLost
<1>1. IInv => NoRejectionLost
    BY DEF IInv, RejectInv, NoRejectionLost
<1> QED BY <1>1, Invariance, PTL

\* receive() and next_output() report a limit or a provider's failure in exactly
\* the calls in which it happened, and the headers that on_header hands to the
\* sink stay within max_header_bytes and max_header_fields, for every limit and
\* every sequence of blocks and headers.
THEOREM ErrorsReportedExactly == Spec => []ReportsExact
<1>1. IInv => ReportsExact
    BY DEF IInv, LimitInv, ProviderInv, ReportsExact, May
<1> QED BY <1>1, Invariance, PTL

\* on_data never records more streams in pending_resets than the array holds,
\* although a reported limit leaves them there for the next call of receive().
THEOREM PendingResetsFit == Spec => [](Len(pendingResets) <= MaxPendingResets)
<1>1. IInv => Len(pendingResets) <= MaxPendingResets
    BY DEF IInv, RejectInv
<1> QED BY <1>1, Invariance, PTL

=============================================================================
