----------------------------- MODULE CodecStream -----------------------------
(***************************************************************************)
(* adapters/codecs.cpp with codec_zlib_ng.cpp, codec_brotli.cpp and        *)
(* codec_zstd.cpp: one compression stream that is fed piece by piece, with *)
(* limits on its input, its output and the calls it may take.              *)
(*                                                                         *)
(* The three libraries are external.  A compressed stream is a header, a   *)
(* body each unit of which decodes to Expand bytes, and a trailer; it may  *)
(* be cut short, have more behind it, or have a bad unit.  An encoder      *)
(* turns n units into n + 2, and fails at a bad unit for want of memory.   *)
(* The libraries stop when their input is used up, their output is full or *)
(* the stream ends.                                                        *)
(***************************************************************************)
EXTENDS Integers

CONSTANTS
    Body, Expand,       \* units of the body, bytes each decodes to
    Supplies,           \* how many units the caller may have
    BadUnits,           \* which unit may be bad, 0 for none
    InputLimits, OutputLimits, CallLimits,
    MaxOffer            \* output bytes offered in one call

ASSUME CodecAssumption ==
    /\ Body \in Nat /\ Expand \in Nat \ {0} /\ MaxOffer \in Nat \ {0}
    /\ Supplies \subseteq Nat /\ BadUnits \subseteq Nat
    /\ InputLimits \subseteq Nat \ {0}
    /\ OutputLimits \subseteq Nat \ {0}
    /\ CallLimits \subseteq Nat \ {0}

VARIABLES
    kind, direction, limits,
    supply, bad,        \* the data of this behaviour
    inputBytes, outputBytes, workCalls,     \* CodecAccounting
    finished, cancelled, failed,
    cause,              \* why the stream failed
    finalizing,         \* CodecStream::finalizing_
    consumed, produced, \* what the library has really read and written
    left                \* input the last call gave back to the caller

accounting == <<inputBytes, outputBytes, workCalls, finished, cancelled, failed, cause>>
moved == <<consumed, produced>>
given == <<kind, direction, limits, supply, bad>>
codecVars == <<given, accounting, moved, finalizing, left>>

Kinds == {"zlib", "brotli", "zstd"}
Causes == {"none", "native", "limit", "trailing", "truncated"}

Limits == [input : InputLimits, output : OutputLimits, calls : CallLimits]

\* Length of a whole compressed stream, and of what it decodes to.
InLen == Body + 2
OutLen == Body * Expand

CodecInit ==
    /\ kind \in Kinds /\ direction \in {"encode", "decode"}
    /\ limits \in Limits
    /\ supply \in Supplies /\ bad \in BadUnits
    /\ inputBytes = 0 /\ outputBytes = 0 /\ workCalls = 0
    /\ finished = FALSE /\ cancelled = FALSE /\ failed = FALSE
    /\ cause = "none"
    /\ finalizing = FALSE
    /\ consumed = 0 /\ produced = 0
    /\ left = 0
-----------------------------------------------------------------------------
(* The libraries.                                                          *)

Least(a, b) == IF a < b THEN a ELSE b

\* The bytes of output that the first i units of input determine.
Producible(i, finishing) ==
    IF direction = "encode" THEN i + (IF finishing THEN 2 ELSE 1)
    ELSE IF i = 0 THEN 0
    ELSE Expand * Least(Body, i - 1)

AtEnd(i, o) == IF direction = "decode" THEN i = InLen /\ o = OutLen ELSE o = i + 2

\* What a library reports of one call: c units taken in, p bytes put out, the
\* end of the stream seen or not, and whether it holds output back.
Reports(size, room, finishing) ==
    {[c |-> c, p |-> p, end |-> end,
      pending |-> produced + p < Producible(consumed + c, finishing)] :
        c \in 0 .. size, p \in 0 .. room, end \in BOOLEAN}

\* The reports that the data allow.  A library that fills the output may notice
\* the end of the stream only in its next call; brotli looks at once.
Runs(size, room, finishing) ==
    {r \in Reports(size, room, finishing) :
        LET i == consumed + r.c
            o == produced + r.p
        IN  /\ o <= Producible(i, finishing)
            /\ direction = "decode" => i <= InLen
            /\ bad # 0 => i < bad
            /\ r.end => AtEnd(i, o)
            /\ AtEnd(i, o) /\ (r.p < room \/ kind = "brotli") => r.end
            /\ \/ r.end
               \/ r.p = room /\ (kind = "brotli" => r.pending)
               \/ r.c = size /\ (r.pending => direction = "encode" /\ ~finishing)}

\* The library meets the bad unit.
Errs(size) == bad \in consumed + 1 .. consumed + size
-----------------------------------------------------------------------------
(* Limits and accounting.                                                  *)

\* preflight: the stream is active, within its calls, and so is the input.
Preflight(size) ==
    /\ ~(cancelled \/ finished \/ failed)
    /\ workCalls < limits.calls
    /\ size <= limits.input - inputBytes

BoundedOutputSize(offered) == Least(offered, limits.output - outputBytes)

OutputCapacityRemains == outputBytes < limits.output

Record(c, p, done) ==
    /\ inputBytes' = inputBytes + c
    /\ outputBytes' = outputBytes + p
    /\ workCalls' = workCalls + 1
    /\ finished' = done
    /\ UNCHANGED <<cancelled, failed, cause>>

RecordFailure(why) ==
    /\ workCalls' = workCalls + 1
    /\ failed' = TRUE
    /\ cause' = why
    /\ UNCHANGED <<inputBytes, outputBytes, finished, cancelled>>
-----------------------------------------------------------------------------
(* One call.  With no room left under the limit zlib and zstd get one byte *)
(* that nobody reads, to find out whether the stream ends here; brotli can *)
(* tell without.                                                           *)

Probing(outputSize) == outputSize = 0 /\ kind # "brotli"

\* Variant that takes a full output for one that is too small.
FullIsOver(outputSize, r) == outputSize = 0

\* Variant that lets the byte of the probe go.
NeverOver(outputSize, r) == FALSE

OverLimit(outputSize, r) ==
    outputSize = 0 /\ IF kind = "brotli" THEN r.pending ELSE r.p # 0

\* Variant that ignores what follows the end of the stream.
AcceptsTrailing(size, r) == FALSE

Trailing(size, r) == r.end /\ r.c # size

\* Variant that takes the end of the input for the end of the stream.
AcceptsTruncated(size, room, r) == FALSE

\* The library wants more input, as each of the three says it.
Truncated(size, room, r) ==
    /\ ~r.end
    /\ CASE kind = "zlib" -> r.c = size /\ r.p # room
         [] kind = "brotli" -> ~r.pending
         [] kind = "zstd" -> r.c = size /\ r.p # room

\* What is wrong with a call the library had no objection to.
Complaint(size, room, outputSize, finishing, r) ==
    IF direction = "encode" THEN "none"
    ELSE IF OverLimit(outputSize, r) THEN "limit"
    ELSE IF Trailing(size, r) THEN "trailing"
    ELSE IF finishing /\ Truncated(size, room, r) THEN "truncated"
    ELSE "none"

\* zlib_process, brotli_process, zstd_process
Operate(size, offered, finishing) ==
    LET outputSize == BoundedOutputSize(offered)
        room == IF Probing(outputSize) THEN 1 ELSE outputSize
    IN  IF ~Preflight(size) THEN UNCHANGED <<accounting, moved, left>>
        ELSE IF offered = 0 /\ OutputCapacityRemains
        THEN Record(0, 0, FALSE) /\ left' = size /\ UNCHANGED moved
        ELSE IF outputSize = 0 /\ direction = "encode"
        THEN UNCHANGED <<accounting, moved, left>>
        ELSE \/ /\ Errs(size)
                /\ RecordFailure("native")
                /\ UNCHANGED <<moved, left>>
             \/ \E r \in Runs(size, room, finishing) :
                  /\ consumed' = consumed + r.c
                  /\ produced' = produced + r.p
                  /\ left' = size - r.c
                  /\ LET why == Complaint(size, room, outputSize, finishing, r)
                     IN  IF why # "none" THEN RecordFailure(why)
                         ELSE Record(r.c, IF Probing(outputSize) THEN 0 ELSE r.p, r.end)

Process(size, offered) ==
    /\ size <= supply - consumed
    /\ ~finalizing
    /\ Operate(size, offered, FALSE)
    /\ UNCHANGED <<given, finalizing>>

Finish(offered) ==
    /\ finalizing' = TRUE
    /\ Operate(0, offered, TRUE)
    /\ UNCHANGED given

Cancel ==
    /\ cancelled' = TRUE
    /\ UNCHANGED <<given, inputBytes, outputBytes, workCalls, finished, failed, cause,
                   moved, finalizing, left>>

CodecNext ==
    \/ \E size \in 0 .. supply, offered \in 0 .. MaxOffer : Process(size, offered)
    \/ \E offered \in 0 .. MaxOffer : Finish(offered)
    \/ Cancel

CodecSpec == CodecInit /\ [][CodecNext]_codecVars
-----------------------------------------------------------------------------
(* Properties.                                                             *)

\* A stream fails only for a reason that is in the data or in the caller's
\* conduct, and says which: decoding to exactly the output limit is not over
\* it, input that ends where the stream ends is not truncated, and an encoder
\* never fails but for memory.
FailsForCause ==
    failed =>
        CASE cause = "native" -> bad # 0
          [] cause = "limit" -> direction = "decode" /\ OutLen > limits.output
          [] cause = "trailing" -> direction = "decode" /\ supply > InLen
          [] cause = "truncated" -> direction = "decode" /\ finalizing /\ consumed < InLen
          [] OTHER -> FALSE

\* Unless the stream failed, every byte the library put out has reached the
\* caller and is counted, the probe's byte included, and so is every byte of
\* input it took; the totals stay within the limits.
NothingLost ==
    ~failed =>
        /\ produced = outputBytes /\ outputBytes <= limits.output
        /\ consumed = inputBytes /\ inputBytes <= limits.input

\* A stream is reported finished only when it is whole: the library has seen
\* its end, all of its output was delivered, no bad unit was passed, and no
\* input of that call is left over that the caller might take for more of it.
FinishedIsWhole ==
    finished =>
        /\ AtEnd(inputBytes, outputBytes)
        /\ left = 0
        /\ direction = "encode" => finalizing

\* Every call that may run with room for output, and that brings input or says
\* there is no more, gets on: it moves a byte or settles the stream.  So no
\* stream, truncated ones included, keeps a caller going in circles.
CallsGetOn ==
    [][\A offered \in 1 .. MaxOffer :
          /\ Preflight(0)
          /\ direction = "encode" => OutputCapacityRemains
          /\ \/ Finish(offered)
             \/ \E size \in 1 .. supply - consumed : Preflight(size) /\ Process(size, offered)
          => consumed' + produced' > consumed + produced \/ finished' \/ failed']_codecVars
=============================================================================
