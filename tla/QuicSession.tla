---------------------------- MODULE QuicSession ----------------------------
(***************************************************************************)
(* adapters/quic.cpp: a QuicSession around an ngtcp2 connection.  A call   *)
(* enters the library, which calls back (for random bytes, keys, packet    *)
(* protection and events) before it returns; what a callback cannot return *)
(* it leaves in the session's flags for the call to report.  The library,  *)
(* the crypto provider and the peer are external.  The session's memory    *)
(* and its pin are those of a session of NativeMemory.                     *)
(***************************************************************************)
EXTENDS ConnectionStreams

VARIABLES
    quic,       \* the session and its State
    native,     \* the connection of the library
    call,       \* the call that is inside of the library
    outcome     \* what the last call reported and what it should have

quicVars == <<quic, native, call, outcome>>

NoCall == [op |-> "none"]
Inactive == [active |-> FALSE, terminal |-> FALSE, randomFailed |-> FALSE,
             pending |-> FALSE, applicationIv |-> FALSE]
NoConnection == [accepted |-> [s \in Streams |-> 0], acked |-> [s \in Streams |-> 0],
                 open |-> {}, reset |-> {}, closed |-> {}, dead |-> FALSE]
NoOutcome == [reported |-> FALSE, deserved |-> FALSE, failed |-> FALSE]

QuicInit ==
    /\ quic = Inactive
    /\ native = NoConnection
    /\ call = NoCall
    /\ outcome = NoOutcome

\* Arguments, the pin and the state's memory were in order.  The library's
\* constructor may ask for random bytes, and a failure of theirs undoes it.
QuicCreate(result, randomOk) ==
    /\ ~quic.active
    /\ IF result = "ok" /\ randomOk
       THEN quic' = [Inactive EXCEPT !.active = TRUE] /\ native' = NoConnection
       ELSE UNCHANGED <<quic, native>>
    /\ UNCHANGED <<call, outcome>>

QuicRequireValid == quic.active /\ ~quic.terminal

\* A call passes its checks and enters the library.
Enter(op, stream, offered) ==
    /\ call = NoCall
    /\ QuicRequireValid
    /\ call' = [op |-> op, stream |-> stream, offered |-> offered,
                failed |-> FALSE, random |-> FALSE]
    /\ outcome' = NoOutcome
    /\ UNCHANGED <<quic, native>>

ReceivePacket == Enter("receive", "none", 0)

\* One packet at a time: the last one has been transmitted.
WritePacket(stream, offered) == ~quic.pending /\ Enter("write", stream, offered)

OpenStream(stream) == Enter("open", stream, 0)

HandleExpiry == Enter("expiry", "none", 0)

-----------------------------------------------------------------------------
(* Callbacks.  After one has failed the library calls no other.            *)

\* A callback returns: `failed` is NGTCP2_ERR_CALLBACK_FAILURE, `random` that
\* random bytes were missing.
Callback(ops, failed, random) ==
    /\ call.op \in ops
    /\ ~call.failed
    /\ call' = [call EXCEPT !.failed = failed, !.random = @ \/ random]
    /\ quic' = [quic EXCEPT !.randomFailed = @ \/ random]
    /\ UNCHANGED outcome

\* The library cannot be told that there are no random bytes and goes on.
RandomFill(ok) ==
    /\ Callback({"receive", "write", "open", "expiry"}, FALSE, ~ok)
    /\ UNCHANGED native

NewConnectionId(randomOk, sinkOk) ==
    /\ Callback({"receive", "write"}, ~randomOk \/ ~sinkOk, ~randomOk)
    /\ UNCHANGED native

PathChallenge(randomOk) ==
    /\ Callback({"receive", "write"}, ~randomOk, ~randomOk)
    /\ UNCHANGED native

\* client_initial and recv_client_initial start the crypto provider, which
\* installs keys in turn.
StartCrypto(ok) ==
    /\ Callback({"receive", "write"}, ~ok, FALSE)
    /\ UNCHANGED native

RecvRetry(ok) ==
    /\ Callback({"receive"}, ~ok, FALSE)
    /\ UNCHANGED native

VersionNegotiation(ok) ==
    /\ Callback({"receive", "write"}, ~ok, FALSE)
    /\ UNCHANGED native

\* Handshake data go to the crypto provider and then to the sink.
RecvCrypto(cryptoOk, sinkOk) ==
    /\ Callback({"receive"}, ~cryptoOk \/ ~sinkOk, FALSE)
    /\ UNCHANGED native

\* The provider installs an application key: the size of its IV is noted before
\* the library has taken the key.
InstallApplication ==
    /\ call.op \in {"receive", "write"} /\ ~call.failed
    /\ quic' = [quic EXCEPT !.applicationIv = TRUE]
    /\ UNCHANGED <<native, call, outcome>>

\* New keys are asked for only when the size of an IV is known.
UpdateKey(ok) ==
    /\ Callback({"receive", "write"}, ~quic.applicationIv \/ ~ok, FALSE)
    /\ UNCHANGED native

\* encrypt and header_mask; a packet that decrypt refuses is dropped, as if it
\* had not come.
Protect(ok) ==
    /\ Callback({"receive", "write", "expiry"}, ~ok, FALSE)
    /\ UNCHANGED native

\* handshake_completed and stream_opened.
EmitEvent(accepted) ==
    /\ Callback({"receive", "write"}, ~accepted, FALSE)
    /\ UNCHANGED native

\* stream_reset and stop_sending_received: what the peer asks for changes nothing
\* until the driver resets or closes the stream itself.
PeerStops(accepted) ==
    /\ Callback({"receive"}, ~accepted, FALSE)
    /\ UNCHANGED native

AckedEvent(stream, size) == [kind |-> "acked", stream |-> stream, size |-> size]

\* The peer has acknowledged the next bytes of a stream.
StreamDataAcked(stream, size, accepted) ==
    /\ stream \in native.open \ native.reset
    /\ size <= native.accepted[stream] - native.acked[stream]
    /\ Callback({"receive"}, ~accepted, FALSE)
    /\ native' = [native EXCEPT !.acked[stream] = @ + size]

ClosedEvent(stream) == [kind |-> "closed", stream |-> stream, size |-> 0]

\* The library forgets a stream and its outstanding data.
StreamClosed(stream, accepted) ==
    /\ stream \in native.open
    /\ Callback({"receive", "expiry"}, ~accepted, FALSE)
    /\ native' = [native EXCEPT !.open = @ \ {stream}, !.reset = @ \ {stream},
                                !.closed = @ \cup {stream}]

-----------------------------------------------------------------------------
(* The library returns.                                                    *)

\* Variant that takes only fatal errors for the end.
TerminalFatalOnly(result) == result = "fatal"

\* NGTCP2_ERR_RETRY, DROP_CONN, DRAINING, CLOSING, and whatever is fatal.
TerminalError(result) == result \in {"draining", "fatal"}

\* Variant that leaves the flag for the next call.
RandomKept(session) == session

\* require_random clears the flag it reports.
RequireRandom(session) == [session EXCEPT !.randomFailed = FALSE]

\* A callback's failure is the library's; otherwise it has reasons of its own.
MayReturn(op, result) == call.op = op /\ (call.failed => result = "fatal")

\* What the caller is told: missing random bytes first.
Reported(result) == quic.randomFailed \/ result # "ok"

\* The end of a call: the terminal flag, the random flag, the result.
Returns(session, result) ==
    /\ quic' = RequireRandom(session)
    /\ call' = NoCall
    /\ outcome' = [reported |-> Reported(result),
                   deserved |-> call.random \/ call.failed \/ result # "ok",
                   failed |-> call.failed]

ReceiveReturns(result) ==
    /\ MayReturn("receive", result)
    /\ Returns([quic EXCEPT !.terminal = @ \/ TerminalError(result)], result)
    /\ native' = [native EXCEPT !.dead = result \in {"draining", "fatal"}]

\* The library has taken n bytes and made a packet, or neither.  Without random
\* bytes the packet and the count are lost to the caller.
WriteReturns(result, n, packet) ==
    /\ MayReturn("write", result)
    /\ result # "ok" => ~packet
    /\ n > 0 => packet /\ call.stream \in native.open \ native.reset
    /\ Returns([quic EXCEPT !.terminal = @ \/ TerminalError(result),
                            !.pending = packet /\ ~quic.randomFailed], result)
    /\ native' = [native EXCEPT !.dead = result \in {"draining", "fatal"},
                                !.accepted = [s \in Streams |->
                                                @[s] + IF s = call.stream THEN n ELSE 0]]

\* Variant that reports all that was offered.
OfferedBytes(n) == call.offered

\* The stream_bytes of the QuicPacketWrite.
StreamBytes(n) == n

\* No error makes the session terminal, not even one that is fatal (no memory).
\* Without random bytes the stream is open and its number is lost to the caller.
OpenReturns(result) ==
    /\ MayReturn("open", result)
    /\ result \in {"ok", "blocked", "fatal"}
    /\ Returns(quic, result)
    /\ native' = [native EXCEPT !.open = IF result = "ok" THEN @ \cup {call.stream} ELSE @]

\* An idle connection is closed without a packet.
ExpiryReturns(result) ==
    /\ MayReturn("expiry", result)
    /\ Returns([quic EXCEPT !.terminal = @ \/ result = "idle_close" \/ TerminalError(result)],
               result)
    /\ native' = [native EXCEPT !.dead = result \in {"draining", "fatal", "idle_close"}]

-----------------------------------------------------------------------------
(* Calls without callbacks.                                                *)

PacketTransmitted ==
    /\ call = NoCall
    /\ QuicRequireValid
    /\ quic.pending
    /\ quic' = [quic EXCEPT !.pending = FALSE]
    /\ UNCHANGED <<native, call, outcome>>

\* Data of a stream that is reset are not sent again.  An error, whether fatal or
\* not, is only returned.
ResetStream(stream, result) ==
    /\ call = NoCall
    /\ QuicRequireValid
    /\ result = "ok" => stream \in native.open
    /\ native' = [native EXCEPT !.reset = IF result = "ok" THEN @ \cup {stream} ELSE @]
    /\ UNCHANGED <<quic, call, outcome>>

\* The peer is asked to send no more; what this side sends goes on.
StopSending(stream, result) ==
    /\ call = NoCall
    /\ QuicRequireValid
    /\ result = "ok" => stream \in native.open
    /\ UNCHANGED quicVars

QuicRelease ==
    /\ call = NoCall
    /\ quic.active
    /\ quic' = Inactive
    /\ native' = NoConnection
    /\ outcome' = NoOutcome
    /\ UNCHANGED call
=============================================================================
