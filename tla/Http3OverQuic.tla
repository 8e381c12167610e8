--------------------------- MODULE Http3OverQuic ---------------------------
(***************************************************************************)
(* An HTTP/3 session over a QUIC session, driven the way the headers of    *)
(* both ask for: output of HTTP/3 is offered to write_packet, what that    *)
(* took is marked as written, packets are transmitted one at a time, and   *)
(* QUIC's events go to HTTP/3, data at once, acknowledgements and closes   *)
(* through a bounded queue that the sink refuses to overfill.  The driver  *)
(* may go on after an error that does not make the session terminal: it    *)
(* then offers again what it believes was not taken.  It destroys the      *)
(* sessions at any time, QUIC first.                                       *)
(***************************************************************************)
EXTENDS QuicSession, Http3Session, FiniteSets

CONSTANTS
    QueueCapacity,  \* events the driver queues
    MaxLost         \* bound: bytes of each stream taken in calls that failed

ASSUME DriverAssumption ==
    /\ Control \in Streams
    /\ MaxBytes \in [Streams -> Nat] /\ MaxFields \in Nat \ {0} /\ SectionLimit \in Nat
    /\ QueueCapacity \in Nat /\ MaxLost \in [Streams -> Nat]

VARIABLES
    events,     \* events queued for HTTP/3
    view,       \* the output that is being written, if any
    owed,       \* what write_packet took and HTTP/3 has not been told, if any
    packet,     \* the driver has a packet to transmit
    opened,     \* streams whose number the driver was given
    lost        \* bytes QUIC took of each stream while the driver was told of an error

driverVars == <<events, view, owed, packet, opened, lost>>
vars == <<quicVars, http3, driverVars>>

NothingLost == [s \in Streams |-> 0]

Init ==
    /\ QuicInit
    /\ Http3Init
    /\ events = <<>> /\ view = <<>> /\ owed = <<>>
    /\ packet = FALSE /\ opened = {} /\ lost = NothingLost

\* The driver is between two calls and has nothing to finish.
Ready == call = NoCall /\ owed = <<>> /\ view = <<>>

Bool == BOOLEAN
Results == {"ok", "blocked", "draining", "fatal"}
Replies == {"ok", "error"}

-----------------------------------------------------------------------------
(* Setting up and submitting.                                              *)

CreateSessions ==
    \/ /\ \E result \in {"ok", "fatal"}, randomOk \in Bool : QuicCreate(result, randomOk)
       /\ ~http3.active
       /\ UNCHANGED <<http3, driverVars>>
    \/ /\ quic.active /\ Ready
       /\ \E result \in {"ok", "fatal"} : Http3Create(result)
       /\ UNCHANGED <<quicVars, driverVars>>

OpensStream ==
    /\ Ready /\ http3.active
    /\ \E s \in Streams \ (native.open \cup native.closed) : OpenStream(s)
    /\ UNCHANGED <<http3, driverVars>>

\* Requests, responses, the settings and a GOAWAY: one byte each.
Submits ==
    /\ Ready
    /\ \E result \in Replies :
          \/ /\ Control \in opened
             /\ BindStreams(Control, 1, result) \/ Shutdown(1, result)
          \/ \E s \in opened \ {Control}, headers \in HeaderLists : Submit(s, headers, 1, result)
    /\ UNCHANGED <<quicVars, driverVars>>

-----------------------------------------------------------------------------
(* Writing.                                                                *)

\* A packet with stream data, or one without (acknowledgements, handshake).
Writes ==
    \/ /\ Ready
       /\ Http3RequireValid
       /\ \E s \in Streams : \E n \in 1 .. MaxBytes[s] :
             /\ HasOutput(s, n)
             /\ WritePacket(s, n)
             /\ view' = <<NextOutput(s, n)>>
       /\ UNCHANGED <<http3, events, owed, packet, opened, lost>>
    \/ /\ Ready
       /\ WritePacket("none", 0)
       /\ UNCHANGED <<http3, driverVars>>
    \/ /\ Ready
       /\ NextOutputFails
       /\ UNCHANGED <<quicVars, driverVars>>

\* n bytes of a stream were taken, and the driver believes they were not.
Loses(s, n) ==
    /\ lost[s] + n <= MaxLost[s]
    /\ lost' = [lost EXCEPT ![s] = @ + n]

\* An error tells the driver neither what was taken nor that there is a packet.
WriteEnds(result, n, made) ==
    /\ WriteReturns(result, n, made)
    /\ view' = <<>>
    /\ packet' = (made /\ ~Reported(result))
    /\ IF view = <<>> THEN owed' = <<>> /\ UNCHANGED lost
       ELSE IF Reported(result) THEN owed' = <<>> /\ Loses(view[1].stream, n)
       ELSE /\ owed' = << [stream |-> view[1].stream, size |-> StreamBytes(n)] >>
            /\ UNCHANGED lost
    /\ UNCHANGED <<http3, events, opened>>

MarksWritten ==
    /\ owed # <<>>
    /\ \E result \in Replies :
          /\ MarkOutputWritten(owed[1].stream, owed[1].size, result)
          /\ IF result = "ok" THEN UNCHANGED lost ELSE Loses(owed[1].stream, owed[1].size)
    /\ owed' = <<>>
    /\ UNCHANGED <<quicVars, events, view, packet, opened>>

Transmits ==
    /\ Ready /\ packet
    /\ PacketTransmitted
    /\ packet' = FALSE
    /\ UNCHANGED <<http3, events, view, owed, opened, lost>>

-----------------------------------------------------------------------------
(* Receiving, and time.                                                    *)

Receives == Ready /\ (ReceivePacket \/ HandleExpiry) /\ UNCHANGED <<http3, driverVars>>

\* Callbacks that concern QUIC alone.
OwnCallback ==
    /\ \/ \E ok \in Bool : RandomFill(ok) \/ PathChallenge(ok) \/ StartCrypto(ok) \/ RecvRetry(ok)
                             \/ VersionNegotiation(ok)
                             \/ UpdateKey(ok) \/ Protect(ok) \/ EmitEvent(ok) \/ PeerStops(ok)
       \/ \E first, second \in Bool : NewConnectionId(first, second) \/ RecvCrypto(first, second)
       \/ InstallApplication
    /\ UNCHANGED <<http3, driverVars>>

HasSpace == Len(events) < QueueCapacity

Queued(event) == events' = IF HasSpace THEN Append(events, event) ELSE events

\* stream_data: the bytes are passed on before the callback returns.
StreamData ==
    /\ \E result \in {"ok", "malformed"}, accepted \in Bool :
          LET heard == Http3Emit(result, accepted) IN
          /\ Callback({"receive"}, ~(Http3RequireValid /\ heard = "ok"), FALSE)
          /\ IF Http3RequireValid THEN Http3Receive(heard) ELSE UNCHANGED http3
    /\ UNCHANGED <<native, driverVars>>

StreamEvent ==
    /\ \/ \E s \in native.open : \E n \in 1 .. native.accepted[s] - native.acked[s] :
             /\ StreamDataAcked(s, n, HasSpace)
             /\ Queued(AckedEvent(s, n))
       \/ \E s \in native.open : StreamClosed(s, HasSpace) /\ Queued(ClosedEvent(s))
    /\ UNCHANGED <<http3, view, owed, packet, opened, lost>>

ReceiveEnds(result) == ReceiveReturns(result) /\ UNCHANGED <<http3, driverVars>>

ExpiryEnds(result) == ExpiryReturns(result) /\ UNCHANGED <<http3, driverVars>>

OpenEnds(result) ==
    /\ OpenReturns(result)
    /\ opened' = IF Reported(result) THEN opened ELSE opened \cup {call.stream}
    /\ UNCHANGED <<http3, events, view, owed, packet, lost>>

\* Queued events reach HTTP/3 in their order.
AppliesEvent ==
    /\ Ready /\ events # <<>>
    /\ LET event == Head(events)
       IN  \E result \in Replies :
             IF event.kind = "acked" THEN AcknowledgeStreamData(event.stream, event.size, result)
             ELSE CloseStream(event.stream, result)
    /\ events' = Tail(events)
    /\ UNCHANGED <<quicVars, view, owed, packet, opened, lost>>

\* The driver abandons a request, or what the peer sends of it.
Abandons ==
    /\ Ready
    /\ \E s \in opened, result \in Replies : ResetStream(s, result) \/ StopSending(s, result)
    /\ UNCHANGED <<http3, driverVars>>

\* The sessions are destroyed, QUIC first.
Releases ==
    \/ /\ QuicRelease
       /\ view' = <<>> /\ owed' = <<>> /\ events' = <<>> /\ packet' = FALSE
       /\ opened' = {} /\ lost' = NothingLost
       /\ UNCHANGED http3
    \/ /\ ~quic.active /\ Http3Release
       /\ UNCHANGED <<quicVars, driverVars>>

Next ==
    \/ CreateSessions \/ OpensStream \/ Submits \/ Writes \/ MarksWritten \/ Transmits
    \/ Receives \/ OwnCallback \/ StreamData \/ StreamEvent
    \/ \E result \in Results : ReceiveEnds(result) \/ OpenEnds(result)
    \/ /\ call.op = "write"
       /\ \E result \in Results, n \in 0 .. call.offered, made \in Bool : WriteEnds(result, n, made)
    \/ \E result \in Results \cup {"idle_close"} : ExpiryEnds(result)
    \/ AppliesEvent \/ Abandons \/ Releases

Spec == Init /\ [][Next]_vars
-----------------------------------------------------------------------------
(* Properties.                                                             *)

\* FailuresReported: a call reports an error exactly when something failed during
\* it: what a callback could not return is neither lost nor left for a later call,
\* and a session whose callback failed takes no further calls (require_random and
\* the terminal flag in adapters/quic.cpp).
FailuresReported ==
    /\ outcome.reported <=> outcome.deserved
    /\ call = NoCall => ~quic.randomFailed
    /\ outcome.failed => quic.terminal /\ call = NoCall

\* DeadNotEntered: a connection that ngtcp2 gave up in receive_packet, write_packet
\* or handle_expiry is neither entered nor changed again, it is only destroyed, and
\* so is one that nghttp3 gave up in receive or next_output, whatever the other
\* layer, its events and its timers do (require_valid of both sessions and
\* terminal_error).  A fatal error of the other calls, which make neither session
\* terminal, is no such end.
DeadNotEntered ==
    [][/\ native.dead => UNCHANGED <<quic, native, call>> \/ quic' = Inactive
       /\ http3.dead => UNCHANGED http3 \/ http3' = None]_vars

\* CallerInformed: between two calls QUIC has taken exactly the bytes that HTTP/3
\* counts as written, those the driver is about to mark, and those of calls that
\* failed (write_packet without random bytes, a mark that HTTP/3 refuses); and a
\* packet waits to be transmitted exactly when the driver has it.  This is so
\* through blocked streams, packets without stream data, short takes and output
\* offered again (write_packet's stream_bytes and packet_pending_transmit).
CallerInformed ==
    call = NoCall /\ quic.active =>
      /\ \A s \in Streams :
           native.accepted[s] = http3.written[s] + lost[s] +
                                  (IF owed # <<>> /\ owed[1].stream = s THEN owed[1].size ELSE 0)
      /\ quic.pending <=> packet

\* RetransmissionBacked: every byte QUIC may have to send again, of a stream none of
\* whose bytes were taken in a call that failed, is still held by HTTP/3, which
\* releases on acknowledgement or close and must do neither before QUIC has
\* (stream_data_acked and stream_closed of adapters/quic.cpp).
RetransmissionBacked ==
    quic.active =>
      \A s \in {t \in native.open \ native.reset : lost[t] = 0} :
        \A byte \in native.acked[s] + 1 .. native.accepted[s] : Holds(s, byte)
=============================================================================
