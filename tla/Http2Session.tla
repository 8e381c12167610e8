---------------------------- MODULE Http2Session ----------------------------
(***************************************************************************)
(* adapters/http2.cpp: an HTTP/2 session on nghttp2.  receive() lets the   *)
(* library (external) parse a piece of input; the library calls back for   *)
(* every header block, header, DATA chunk and other frame, and the         *)
(* session's sink answers each event.  What the callbacks cannot do inside *)
(* the library they leave in the session's state, and receive() does it    *)
(* when the library has returned: report an exceeded limit, report an      *)
(* overflow, reset the streams whose data the sink rejected.  next_output  *)
(* does the same for providers of outgoing data that failed.               *)
(*                                                                         *)
(* The peer's input is made up as it is parsed.  The sink answers anything *)
(* at any event; it does not call the session, but it may reset the arena. *)
(***************************************************************************)
EXTENDS Integers, Sequences, Functions

CONSTANTS
    Streams,
    NoStream,
    MaxFields, MaxBytes,    \* Http2Limits of a header block
    HeaderSizes,            \* name and value of one header
    MaxPendingResets,       \* maximum_pending_resets
    Chunk,                  \* bytes a provider is asked for
    MaxGeneration           \* the arena is not reset more often than this

ASSUME Http2Assumption ==
    /\ NoStream \notin Streams
    /\ MaxFields \in Nat \ {0} /\ MaxBytes \in Nat \ {0}
    /\ HeaderSizes \subseteq Nat
    /\ MaxPendingResets \in Nat \ {0} /\ Chunk \in Nat
    /\ MaxGeneration \in Nat

VARIABLES
    generation,         \* of the arena
    session,            \* arena_generation_ of the session, 0 if there is none
    pc,                 \* "idle"; "parsing" or "sending" in the library; "returned" from
                        \* it to receive, "sent" to next_output
    library,            \* "good", or "failed" once it has returned a fatal error
    headerBytes, headerFields, pendingResets, inputLimitFailed, pendingResetOverflow,
    dataProviderFailed,
    provider,           \* of each stream: none, sending or deferred
    phase,              \* of each stream: idle, open or closed
    submitted,          \* streams whose RST_STREAM waits to be sent
    block,              \* the header block being parsed: its stream and true size
    rejected,           \* open streams whose data the sink rejected and whose reset no
                        \* error has called off
    exceeded,           \* in this call the peer really went past a limit
    faulted             \* in this call a provider really failed

callbackState == <<headerBytes, headerFields, pendingResets, inputLimitFailed,
                   pendingResetOverflow>>
peer == <<phase, submitted, block>>
ghosts == <<rejected, exceeded>>
outgoing == <<provider, dataProviderFailed, faulted>>
vars == <<generation, session, pc, library, callbackState, peer, ghosts, outgoing>>

NoBlock == [stream |-> NoStream, bytes |-> 0, fields |-> 0]

Actions == {"continue", "pause", "reject_stream", "fail_session"}

Init ==
    /\ generation = 1
    /\ session = 0
    /\ pc = "idle" /\ library = "good"
    /\ headerBytes = 0 /\ headerFields = 0
    /\ pendingResets = <<>>
    /\ inputLimitFailed = FALSE /\ pendingResetOverflow = FALSE
    /\ dataProviderFailed = FALSE /\ faulted = FALSE
    /\ provider = [s \in Streams |-> "none"]
    /\ phase = [s \in Streams |-> "idle"]
    /\ submitted = {}
    /\ block = NoBlock
    /\ rejected = {} /\ exceeded = FALSE
-----------------------------------------------------------------------------
(* The session and its arena, which it does not pin.                       *)

Create ==
    /\ session = 0
    /\ session' = generation
    /\ library' = "good"
    /\ headerBytes' = 0 /\ headerFields' = 0
    /\ pendingResets' = <<>>
    /\ inputLimitFailed' = FALSE /\ pendingResetOverflow' = FALSE
    /\ dataProviderFailed' = FALSE /\ faulted' = FALSE
    /\ provider' = [s \in Streams |-> "none"]
    /\ phase' = [s \in Streams |-> "idle"]
    /\ submitted' = {}
    /\ block' = NoBlock
    /\ rejected' = {} /\ exceeded' = FALSE
    /\ UNCHANGED <<generation, pc>>

RequireValid == session # 0 /\ session = generation

\* release(); the library's session is deleted too if its memory is still there.
Release ==
    /\ pc = "idle"
    /\ session # 0
    /\ session' = 0
    /\ UNCHANGED <<outgoing, generation, pc, library, callbackState, peer, ghosts>>

\* Between calls by the caller, or within one by the sink or a provider.  The rest
\* of such a call runs on memory that is no longer the session's, so what it does
\* and returns is undefined; no later call reads that state.
ArenaReset ==
    /\ pc \in {"idle", "parsing", "sending"}
    /\ generation < MaxGeneration
    /\ generation' = generation + 1
    /\ pc' = "idle"
    /\ UNCHANGED <<session, library, callbackState, peer, ghosts, outgoing>>
-----------------------------------------------------------------------------
(* Callbacks.                                                              *)

\* The library is told to go on, to stop after this event, to reset the stream
\* itself, or to fail.
CallbackResult(kind, s, action) ==
    CASE action = "continue" -> "go"
      [] action = "pause" /\ kind \in {"header", "data"} -> "pause"
      [] action = "reject_stream" /\ kind \in {"headers_begin", "header"} -> "temporal"
      [] action = "reject_stream" /\ kind = "data" ->
            IF s \in Range(pendingResets) THEN "go"
            ELSE IF Len(pendingResets) = MaxPendingResets THEN "fail"
            ELSE "pause"
      [] OTHER -> "fail"

\* What the library does with the answer.
Obeys(answer) ==
    /\ pc' = IF answer \in {"pause", "fail"} THEN "returned" ELSE "parsing"
    /\ library' = IF answer = "fail" THEN "failed" ELSE library

\* Variant that carries the counters over from the block before.
CountersKept == UNCHANGED <<headerBytes, headerFields>>

CountersCleared == headerBytes' = 0 /\ headerFields' = 0

\* on_begin_headers: a request, a response or trailers.
OnBeginHeaders(s, action) ==
    LET answer == CallbackResult("headers_begin", s, action) IN
    /\ pc = "parsing"
    /\ block = NoBlock /\ phase[s] # "closed"
    /\ phase' = [phase EXCEPT ![s] = "open"]
    /\ CountersCleared
    /\ block' = IF answer = "go" THEN [NoBlock EXCEPT !.stream = s] ELSE NoBlock
    /\ submitted' = IF answer = "temporal" THEN submitted \cup {s} ELSE submitted
    /\ Obeys(answer)
    /\ UNCHANGED <<outgoing, generation, session, pendingResets, inputLimitFailed,
                   pendingResetOverflow, ghosts>>

OverLimits(bytes, fields) == bytes > MaxBytes \/ fields > MaxFields

\* on_header.  After a refusal the library resets the stream and skips the rest
\* of the block.
OnHeader(n, action) ==
    LET s == block.stream
        over == OverLimits(headerBytes + n, headerFields + 1)
        answer == IF over THEN "temporal" ELSE CallbackResult("header", s, action)
        real == [block EXCEPT !.bytes = @ + n, !.fields = @ + 1]
    IN  /\ pc = "parsing"
        /\ s # NoStream
        /\ headerBytes' = headerBytes + n
        /\ headerFields' = headerFields + 1
        /\ inputLimitFailed' = (inputLimitFailed \/ over)
        /\ exceeded' = (exceeded \/ OverLimits(real.bytes, real.fields))
        /\ block' = IF answer = "temporal" THEN NoBlock ELSE real
        /\ submitted' = IF answer = "temporal" THEN submitted \cup {s} ELSE submitted
        /\ Obeys(answer)
        /\ UNCHANGED <<outgoing, generation, session, pendingResets, pendingResetOverflow,
                       phase, rejected>>

\* on_frame_received for the end of a header block, and for frames that only
\* pass through.
OnFrameReceived(action) ==
    /\ pc = "parsing"
    /\ block' = NoBlock
    /\ Obeys(CallbackResult("frame_received", NoStream, action))
    /\ UNCHANGED <<outgoing, generation, session, callbackState, phase, submitted,
                   ghosts>>

\* on_frame_received for a GOAWAY with too much debug data.
OnLongGoaway ==
    /\ pc = "parsing" /\ block = NoBlock
    /\ inputLimitFailed' = TRUE
    /\ exceeded' = TRUE
    /\ Obeys("fail")
    /\ UNCHANGED <<outgoing, generation, session, headerBytes, headerFields, pendingResets,
                   pendingResetOverflow, peer, rejected>>

\* on_data
OnData(s, action) ==
    LET answer == CallbackResult("data", s, action)
        new == action = "reject_stream" /\ s \notin Range(pendingResets)
    IN  /\ pc = "parsing"
        /\ block = NoBlock /\ phase[s] = "open"
        /\ pendingResets' = IF new /\ answer = "pause" THEN Append(pendingResets, s)
                            ELSE pendingResets
        /\ pendingResetOverflow' = (pendingResetOverflow \/ (new /\ answer = "fail"))
        /\ rejected' = IF action = "reject_stream" THEN rejected \cup {s} ELSE rejected
        /\ Obeys(answer)
        /\ UNCHANGED <<outgoing, generation, session, headerBytes, headerFields,
                       inputLimitFailed, peer, exceeded>>

\* The stream is over: nothing of it waits any more.
Closed(s) ==
    /\ phase' = [phase EXCEPT ![s] = "closed"]
    /\ submitted' = submitted \ {s}
    /\ rejected' = rejected \ {s}
    /\ provider' = [provider EXCEPT ![s] = "none"]

\* The peer ends a stream: on_frame_received, then on_stream_closed.
OnStreamClosed(s, action) ==
    /\ pc = "parsing"
    /\ block = NoBlock /\ phase[s] = "open"
    /\ Closed(s)
    /\ Obeys(CallbackResult("stream_closed", s, action))
    /\ UNCHANGED <<generation, session, callbackState, block, exceeded,
                   dataProviderFailed, faulted>>
-----------------------------------------------------------------------------
(* receive                                                                 *)

\* A library that has failed does not parse.
Receive ==
    /\ pc = "idle"
    /\ RequireValid
    /\ pc' = IF library = "good" THEN "parsing" ELSE "returned"
    /\ exceeded' = FALSE
    /\ UNCHANGED <<outgoing, generation, session, library, callbackState, peer, rejected>>

\* The input is used up.
InputEnds ==
    /\ pc = "parsing"
    /\ pc' = "returned"
    /\ UNCHANGED <<outgoing, generation, session, library, callbackState, peer, ghosts>>

\* Variant that forgets the rejected streams when it reports a limit.
ResetsForgotten == <<>>

ResetsAfterLimit == pendingResets

ReceiveReportsLimit ==
    /\ pc = "returned" /\ inputLimitFailed
    /\ inputLimitFailed' = FALSE
    /\ pendingResets' = ResetsAfterLimit
    /\ pc' = "idle"
    /\ UNCHANGED <<outgoing, generation, session, library, headerBytes, headerFields,
                   pendingResetOverflow, peer, ghosts>>

ReceiveReportsOverflow ==
    /\ pc = "returned" /\ ~inputLimitFailed /\ pendingResetOverflow
    /\ pendingResetOverflow' = FALSE
    /\ pendingResets' = <<>>
    /\ rejected' = rejected \cap submitted
    /\ pc' = "idle"
    /\ UNCHANGED <<outgoing, generation, session, library, headerBytes, headerFields,
                   inputLimitFailed, peer, exceeded>>

ReceiveFails ==
    /\ pc = "returned" /\ ~inputLimitFailed /\ ~pendingResetOverflow
    /\ library = "failed"
    /\ pc' = "idle"
    /\ UNCHANGED <<outgoing, generation, session, library, callbackState, peer, ghosts>>

\* The loop over the rejected streams; the library takes n of them and may then
\* run out of memory.  A stream that has closed in the meantime needs no reset.
ReceiveSucceeds(n) ==
    LET taken == {pendingResets[i] : i \in 1 .. n} IN
    /\ pc = "returned" /\ ~inputLimitFailed /\ ~pendingResetOverflow
    /\ library = "good"
    /\ n <= Len(pendingResets)
    /\ submitted' = submitted \cup {s \in taken : phase[s] # "closed"}
    /\ pendingResets' = <<>>
    /\ rejected' = rejected \ (Range(pendingResets) \ taken)
    /\ pc' = "idle"
    /\ UNCHANGED <<outgoing, generation, session, library, headerBytes, headerFields,
                   inputLimitFailed, pendingResetOverflow,
                   phase, block, exceeded>>
-----------------------------------------------------------------------------
(* Output and submissions.                                                 *)

May == pc = "idle" /\ RequireValid

\* submit_headers_impl without a stream: the library opens one.
SubmitHeaders(s) ==
    /\ May
    /\ library = "good" /\ phase[s] = "idle"
    /\ phase' = [phase EXCEPT ![s] = "open"]
    /\ UNCHANGED <<generation, session, pc, library, callbackState, submitted,
                   block, ghosts, outgoing>>

SubmitReset(s) ==
    /\ May
    /\ library = "good" /\ phase[s] = "open"
    /\ submitted' = submitted \cup {s}
    /\ UNCHANGED <<generation, session, pc, library, callbackState, phase,
                   block, ghosts, outgoing>>

\* Calls that only queue a frame: submit_headers for a stream, interest.
Passes ==
    /\ May
    /\ UNCHANGED <<generation, session, pc, library, callbackState, peer, ghosts, outgoing>>

\* The sizes of what is queued are bounded; the frames are not followed further.
SubmitSettings == Passes
SubmitGoaway == Passes
SubmitWindowUpdate == Passes

\* A stream has one provider at a time.
SubmitData(s) ==
    /\ May
    /\ library = "good" /\ phase[s] = "open" /\ provider[s] = "none"
    /\ provider' = [provider EXCEPT ![s] = "sending"]
    /\ UNCHANGED <<generation, session, pc, library, callbackState, peer, ghosts,
                   dataProviderFailed, faulted>>

ResumeData(s) ==
    /\ May
    /\ provider[s] = "deferred"
    /\ provider' = [provider EXCEPT ![s] = "sending"]
    /\ UNCHANGED <<generation, session, pc, library, callbackState, peer, ghosts,
                   dataProviderFailed, faulted>>

NextOutput ==
    /\ May
    /\ pc' = IF library = "good" THEN "sending" ELSE "sent"
    /\ faulted' = FALSE
    /\ UNCHANGED <<generation, session, library, callbackState, peer, ghosts,
                   provider, dataProviderFailed>>

\* What a provider may answer, an error included.
Answers == [bytes : 0 .. Chunk + 1, state : {"more", "end", "deferred", "error"}]

Acceptable(produced) ==
    /\ produced.state # "error"
    /\ produced.bytes <= Chunk
    /\ produced.state = "deferred" => produced.bytes = 0

\* The library asks the provider of a stream for data.
OnDataSourceRead(s, produced) ==
    LET good == Acceptable(produced) IN
    /\ pc = "sending"
    /\ provider[s] = "sending"
    /\ dataProviderFailed' = (dataProviderFailed \/ ~good)
    /\ faulted' = ~good
    /\ provider' = [provider EXCEPT ![s] = IF good /\ produced.state = "end" THEN "none"
                                          ELSE IF good /\ produced.state = "deferred"
                                          THEN "deferred" ELSE @]
    /\ pc' = IF good /\ produced.state = "deferred" THEN "sending" ELSE "sent"
    /\ library' = IF good THEN library ELSE "failed"
    /\ UNCHANGED <<generation, session, callbackState, peer, ghosts>>

\* The library sends a reset; the stream closes and the sink hears of it.
SendsReset(s, action) ==
    /\ pc = "sending" /\ s \in submitted
    /\ Closed(s)
    /\ pc' = "sent"
    /\ library' = IF action = "continue" THEN "good" ELSE "failed"
    /\ UNCHANGED <<generation, session, callbackState, block, exceeded,
                   dataProviderFailed, faulted>>

\* Another frame, or none.
SendsOther ==
    /\ pc = "sending"
    /\ pc' = "sent"
    /\ UNCHANGED <<generation, session, library, callbackState, peer, ghosts, outgoing>>

\* A provider's error is reported before the library's.
NextOutputReturns ==
    /\ pc = "sent"
    /\ pc' = "idle"
    /\ dataProviderFailed' = FALSE
    /\ faulted' = FALSE
    /\ UNCHANGED <<generation, session, library, callbackState, peer, ghosts, provider>>

Parses(action) ==
    \/ \E s \in Streams : \/ OnBeginHeaders(s, action)
                          \/ OnData(s, action)
                          \/ OnStreamClosed(s, action)
    \/ \E n \in HeaderSizes : OnHeader(n, action)
    \/ OnFrameReceived(action)

Next ==
    \/ Create \/ Release \/ ArenaReset
    \/ Receive \/ InputEnds \/ OnLongGoaway
    \/ \E action \in Actions : Parses(action)
    \/ ReceiveReportsLimit \/ ReceiveReportsOverflow \/ ReceiveFails
    \/ \E n \in 0 .. MaxPendingResets : ReceiveSucceeds(n)
    \/ \E s \in Streams : SubmitHeaders(s) \/ SubmitReset(s) \/ SubmitData(s) \/ ResumeData(s)
    \/ SubmitSettings \/ SubmitGoaway \/ SubmitWindowUpdate
    \/ NextOutput \/ SendsOther \/ NextOutputReturns
    \/ \E s \in Streams, produced \in Answers : OnDataSourceRead(s, produced)
    \/ \E s \in Streams, action \in Actions : SendsReset(s, action)

Spec == Init /\ [][Next]_vars
-----------------------------------------------------------------------------
(* Properties.                                                             *)

\* When the sink rejects the data of a stream, the stream is reset: between
\* calls its RST_STREAM is with the library or the stream waits for the next
\* receive(), unless the session's arena was reset, the library has failed or an
\* error told the caller that resets are missing.  A limit that is reported first does not lose it.
NoRejectionLost ==
    May /\ library = "good"
        => rejected \subseteq submitted \cup Range(pendingResets)

\* receive() reports an exceeded limit exactly when the peer went past it in the
\* input of that call: no counter or flag of an earlier block or call makes it
\* complain, and no pause, rejection or failure later in the input hides it.
\* The headers of a block that reach the sink stay within the limits.  Likewise
\* next_output() reports a provider's error in the call it happened in only.
ReportsExact ==
    /\ pc = "returned" => inputLimitFailed = exceeded
    /\ pc = "sent" => dataProviderFailed = faulted
    /\ May => ~inputLimitFailed /\ ~dataProviderFailed
    /\ block # NoBlock => ~OverLimits(block.bytes, block.fields)

=============================================================================
