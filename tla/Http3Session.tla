---------------------------- MODULE Http3Session ----------------------------
(***************************************************************************)
(* adapters/http3.cpp: an Http3Session around an nghttp3 connection.  The  *)
(* library (external) holds the bytes of every stream from the time they   *)
(* are submitted until they are acknowledged or the stream is closed.      *)
(* Bytes of a stream are numbered; queued, written and released count them.*)
(***************************************************************************)
EXTENDS ConnectionStreams, Functions

CONSTANTS
    Control,        \* the control stream among them
    MaxFields,      \* NativeHeaders::capacity
    SectionLimit,   \* maximum_field_section_bytes
    HeaderLists     \* lists of <<size of name, size of value>>

VARIABLE http3      \* the session, its State and the library's connection

None == [active |-> FALSE, terminal |-> FALSE, dead |-> FALSE,
         queued |-> [s \in Streams |-> 0], written |-> [s \in Streams |-> 0],
         released |-> [s \in Streams |-> 0], closed |-> {}]

Http3Init == http3 = None

Http3Create(result) ==
    /\ ~http3.active
    /\ http3' = IF result = "ok" THEN [None EXCEPT !.active = TRUE] ELSE http3

Http3RequireValid == http3.active /\ ~http3.terminal

\* An error of the library, whether fatal or not, is only returned.
Queue(stream, n, result) ==
    IF result = "ok"
    THEN /\ n <= MaxBytes[stream] - http3.queued[stream]
         /\ http3' = [http3 EXCEPT !.queued[stream] = @ + n]
    ELSE UNCHANGED http3

\* Settings are queued on the control stream, which stays bound when binding the
\* QPACK streams fails: `result` is that of the first of the two calls.
BindStreams(control, n, result) == Http3RequireValid /\ Queue(control, n, result)

\* Adds a header to the total, unless its name is empty or the rest is too small.
\* The sum, or that there is none, does not depend on the order of the headers.
AddHeader(header, total) ==
    IF total < 0 THEN total
    ELSE IF header[1] = 0 \/ header[1] > SectionLimit - total THEN -1
    ELSE IF header[2] > SectionLimit - total - header[1] THEN -1
    ELSE total + header[1] + header[2]

NativeHeaders(headers) ==
    IF Len(headers) \in 1 .. MaxFields THEN FoldFunction(AddHeader, 0, headers) ELSE -1

\* submit_request and submit_response: a section of n encoded bytes is queued.
Submit(stream, headers, n, result) ==
    /\ Http3RequireValid
    /\ NativeHeaders(headers) >= 0
    /\ result = "ok" => stream \notin http3.closed
    /\ Queue(stream, n, result)

\* shutdown() queues a GOAWAY.
Shutdown(n, result) == Http3RequireValid /\ Queue(Control, n, result)

\* The sink refuses an event (header, data, end of a stream...) of the input.
Http3Emit(result, accepted) == IF accepted THEN result ELSE "callback_failure"

\* Bytes of a stream arrive.  Any error ends the session.
Http3Receive(result) ==
    http3' = IF result = "ok" THEN http3 ELSE [http3 EXCEPT !.terminal = TRUE, !.dead = TRUE]

\* The next bytes to write, up to n of them; an error ends the session.
NextOutput(stream, n) ==
    [stream |-> stream, first |-> http3.written[stream] + 1, size |-> n]

HasOutput(stream, n) ==
    stream \notin http3.closed /\ n \in 1 .. http3.queued[stream] - http3.written[stream]

NextOutputFails ==
    /\ Http3RequireValid
    /\ http3' = [http3 EXCEPT !.terminal = TRUE, !.dead = TRUE]

\* Variant that takes what was written for acknowledged.
MarkAcknowledged(stream, n, result) ==
    /\ Http3RequireValid
    /\ http3' = IF result = "ok"
                THEN [http3 EXCEPT !.written[stream] = @ + n, !.released[stream] = @ + n]
                ELSE http3

MarkOutputWritten(stream, n, result) ==
    /\ Http3RequireValid
    /\ http3' = IF result = "ok" THEN [http3 EXCEPT !.written[stream] = @ + n] ELSE http3

\* Acknowledged bytes are released; more than was written is an error.
AcknowledgeStreamData(stream, n, result) ==
    IF /\ Http3RequireValid /\ result = "ok" /\ stream \notin http3.closed
       /\ n <= http3.written[stream] - http3.released[stream]
    THEN http3' = [http3 EXCEPT !.released[stream] = @ + n]
    ELSE UNCHANGED http3

\* The stream and all it holds are gone.
CloseStream(stream, result) ==
    IF Http3RequireValid /\ result = "ok"
    THEN http3' = [http3 EXCEPT !.closed = @ \cup {stream}]
    ELSE UNCHANGED http3

Http3Release == http3.active /\ http3' = None

\* The library still holds that byte of the stream.
Holds(stream, byte) ==
    /\ http3.active
    /\ stream \notin http3.closed
    /\ byte \in http3.released[stream] + 1 .. http3.queued[stream]
=============================================================================
