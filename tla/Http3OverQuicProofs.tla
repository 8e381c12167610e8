------------------------ MODULE Http3OverQuicProofs ------------------------
(***************************************************************************)
(* Proofs about an HTTP/3 session over a QUIC session, for any number of   *)
(* streams, every amount of data and an event queue of every size.         *)
(***************************************************************************)
EXTENDS Http3OverQuic, TLAPS

\* A leaf may take either prover 30 seconds and is given to Z3 a second time: no
\* proof depends on how busy the machine is.
USE SMTT(30), ZenonT(30), Z3T(30)

-----------------------------------------------------------------------------
(* The inductive invariant, one part for each layer.                       *)

Ops == {"receive", "write", "open", "expiry"}

Calls == [op : Ops, stream : Streams \cup {"none"}, offered : Nat,
          failed : BOOLEAN, random : BOOLEAN]

Counts == [Streams -> Nat]

Sessions == [active : BOOLEAN, terminal : BOOLEAN, randomFailed : BOOLEAN,
             pending : BOOLEAN, applicationIv : BOOLEAN]

Connections == [accepted : Counts, acked : Counts, open : SUBSET Streams,
                reset : SUBSET Streams, closed : SUBSET Streams, dead : BOOLEAN]

Outcomes == [reported : BOOLEAN, deserved : BOOLEAN, failed : BOOLEAN]

QuicTypes ==
    /\ quic \in Sessions
    /\ native \in Connections
    /\ call = NoCall \/ call \in Calls
    /\ outcome \in Outcomes

\* The session's flags say what happened in the call that is under way, the end
\* of a connection is known, and a stream is not opened twice.
QuicInv ==
    /\ QuicTypes
    /\ ~quic.active => quic = Inactive /\ native = NoConnection /\ call = NoCall
    /\ native.dead => quic.terminal
    /\ outcome.failed => quic.terminal
    /\ outcome.reported <=> outcome.deserved
    /\ call = NoCall => ~quic.randomFailed
    /\ call # NoCall => (quic.randomFailed <=> call.random) /\ ~quic.terminal
    /\ native.open \cap native.closed = {}
    /\ call.op = "open" =>
          call.stream \in Streams \ (native.open \cup native.closed) /\ ~call.failed

Http3Inv ==
    /\ http3 \in [active : BOOLEAN, terminal : BOOLEAN, dead : BOOLEAN, queued : Counts,
                  written : Counts, released : Counts, closed : SUBSET Streams]
    /\ ~http3.active => http3 = None
    /\ http3.dead => http3.terminal

Events == [kind : {"acked", "closed"}, stream : Streams, size : Nat]

DriverTypes ==
    /\ events \in Seq(Events)
    /\ view = <<>> \/ \E v \in [stream : Streams, first : Nat, size : Nat] : view = <<v>>
    /\ owed = <<>> \/ \E o \in [stream : Streams, size : Nat] : owed = <<o>>
    /\ packet \in BOOLEAN /\ opened \subseteq Streams /\ lost \in Counts

\* The driver makes one call at a time and knows what that call writes.
DriverInv ==
    /\ DriverTypes
    /\ ~quic.active => /\ events = <<>> /\ view = <<>> /\ owed = <<>> /\ packet = FALSE
                       /\ lost = NothingLost
    /\ call # NoCall => owed = <<>>
    /\ call.op = "write" =>
          \/ view = <<>> /\ call.offered = 0
          \/ /\ view # <<>> /\ view[1].stream = call.stream /\ call.stream \in Streams
             /\ call.offered <= http3.queued[call.stream] - http3.written[call.stream]

Owed(s) == IF owed # <<>> /\ owed[1].stream = s THEN owed[1].size ELSE 0

\* What the two libraries have counted.
Accounts ==
    /\ \A s \in Streams : http3.written[s] + Owed(s) <= http3.queued[s]
    /\ quic.active =>
          \A s \in Streams : native.accepted[s] = http3.written[s] + lost[s] + Owed(s)
    /\ quic.pending <=> packet

Share(event, s) == IF event.kind = "acked" /\ event.stream = s THEN event.size ELSE 0

\* f[i] bounds what HTTP/3 has released once it has heard of i - 1 more events.
Through(f) ==
    /\ f \in [1 .. Len(events) + 1 -> Counts]
    /\ \A s \in Streams : http3.released[s] <= f[1][s]
    /\ \A i \in 1 .. Len(events), s \in Streams : f[i + 1][s] = f[i][s] + Share(events[i], s)
    /\ \A i \in 1 .. Len(events) + 1, s \in Streams : f[i][s] <= native.acked[s]

\* HTTP/3 has heard, and will hear from the queue, only of what QUIC was told.
Backing ==
    quic.active =>
      /\ http3.closed \subseteq native.closed
      /\ \A i \in 1 .. Len(events) :
            events[i].kind = "closed" => events[i].stream \in native.closed
      /\ \E f : Through(f)

IInv == QuicInv /\ Http3Inv /\ DriverInv /\ Accounts /\ Backing

-----------------------------------------------------------------------------
(* QUIC.                                                                   *)

LEMMA CallKinds ==
    ASSUME QuicTypes
    PROVE  /\ call # NoCall <=> call \in Calls
           /\ call # NoCall <=> call.op \in Ops
           /\ call = NoCall => call.op = "none"
<1>1. NoCall.op = "none" /\ "none" \notin Ops
    BY DEF NoCall, Ops
<1>2. \A c \in Calls : c.op \in Ops
    BY DEF Calls
<1> QED BY <1>1, <1>2 DEF QuicTypes

LEMMA CreateQuic ==
    ASSUME QuicInv, NEW result, NEW randomOk \in BOOLEAN, QuicCreate(result, randomOk)
    PROVE  /\ QuicInv' /\ ~quic.active /\ UNCHANGED <<native, call, outcome>>
           /\ UNCHANGED quic \/ (quic'.active /\ ~quic'.pending)
<1>1. ~quic.active /\ quic = Inactive /\ native = NoConnection /\ call = NoCall
    BY DEF QuicInv, QuicCreate
<1>2. UNCHANGED <<native, call, outcome>>
    BY <1>1 DEF QuicCreate
<1>3. CASE UNCHANGED quic
    BY <1>1, <1>2, <1>3 DEF QuicInv, QuicTypes
<1>4. CASE quic' = [Inactive EXCEPT !.active = TRUE]
  <2>1. quic' \in Sessions /\ quic'.active /\ ~quic'.pending /\ ~quic'.randomFailed
      BY <1>4, Zenon DEF Inactive, Sessions
  <2>2. native.dead = FALSE /\ ~outcome.failed
      BY <1>1 DEF NoConnection, QuicInv, Inactive
  <2> QED BY <1>1, <1>2, <2>1, <2>2 DEF QuicInv, QuicTypes
<1> QED BY <1>3, <1>4 DEF QuicCreate

LEMMA EnterStep ==
    ASSUME QuicInv, NEW op \in Ops, NEW stream \in Streams \cup {"none"}, NEW offered \in Nat,
           Enter(op, stream, offered),
           op = "open" => stream \in Streams \ (native.open \cup native.closed)
    PROVE  /\ QuicInv' /\ call = NoCall /\ UNCHANGED <<quic, native>>
           /\ call' # NoCall /\ call'.op = op /\ call'.stream = stream /\ call'.offered = offered
           /\ quic.active /\ ~native.dead
<1>1. /\ call = NoCall /\ quic.active /\ ~quic.terminal /\ UNCHANGED <<quic, native>>
      /\ outcome' = NoOutcome
    BY DEF Enter, QuicRequireValid
<1>2. call' = [op |-> op, stream |-> stream, offered |-> offered, failed |-> FALSE, random |-> FALSE]
    BY DEF Enter
<1>3. /\ call' \in Calls /\ call'.op = op /\ call'.stream = stream /\ call'.offered = offered
      /\ call'.random = FALSE /\ call'.failed = FALSE
    BY <1>2 DEF Calls
<1>4. call' # NoCall
    BY <1>3 DEF NoCall, Ops
<1>5. /\ outcome' \in Outcomes /\ outcome'.failed = FALSE
      /\ outcome'.reported = FALSE /\ outcome'.deserved = FALSE
    BY <1>1 DEF NoOutcome, Outcomes
<1>6. QuicTypes'
    BY <1>1, <1>3, <1>5 DEF QuicInv, QuicTypes
<1>7. QuicInv'
    BY <1>1, <1>3, <1>4, <1>5, <1>6 DEF QuicInv
<1> QED BY <1>1, <1>3, <1>4, <1>7 DEF QuicInv

LEMMA CallbackStep ==
    ASSUME QuicInv, NEW ops \in SUBSET Ops, NEW failed \in BOOLEAN, NEW random \in BOOLEAN,
           Callback(ops, failed, random), "open" \in ops => ~failed,
           native' \in Connections, native'.dead = native.dead,
           native'.open \cap native'.closed = {},
           native'.open \cup native'.closed = native.open \cup native.closed
    PROVE  /\ QuicInv' /\ call # NoCall /\ call' # NoCall
           /\ call'.op = call.op /\ call'.stream = call.stream /\ call'.offered = call.offered
           /\ quic.active /\ quic'.active /\ quic'.pending = quic.pending
           /\ call.op \in ops
<1>1. /\ call.op \in Ops /\ call.op \in ops
      /\ call' = [call EXCEPT !.failed = failed, !.random = @ \/ random]
      /\ quic' = [quic EXCEPT !.randomFailed = @ \/ random]
      /\ UNCHANGED outcome
    BY DEF Callback
<1>2. call \in Calls /\ call # NoCall
    BY <1>1, CallKinds DEF QuicInv
<1>3. /\ call' \in Calls /\ call'.op = call.op /\ call'.stream = call.stream
      /\ call'.offered = call.offered /\ call'.random = (call.random \/ random)
      /\ call'.failed = failed
    BY <1>1, <1>2, Zenon DEF Calls
<1>4. call' # NoCall
    BY <1>1, <1>3, Zenon DEF NoCall, Ops
<1>5. /\ quic'.active = quic.active /\ quic'.pending = quic.pending
      /\ quic'.terminal = quic.terminal /\ quic'.randomFailed = (quic.randomFailed \/ random)
      /\ quic' \in Sessions
    BY <1>1 DEF QuicInv, QuicTypes, Sessions
<1>6. QuicTypes'
    BY <1>1, <1>3, <1>5 DEF QuicInv, QuicTypes
<1>7. QuicInv'
    BY <1>1, <1>2, <1>3, <1>4, <1>5, <1>6 DEF QuicInv
<1> QED BY <1>1, <1>2, <1>3, <1>4, <1>5, <1>7 DEF QuicInv

\* A callback that leaves the connection alone.
LEMMA PlainCallbackStep ==
    ASSUME QuicInv, NEW ops \in SUBSET Ops, NEW failed \in BOOLEAN, NEW random \in BOOLEAN,
           Callback(ops, failed, random), "open" \in ops => ~failed, native' = native
    PROVE  /\ QuicInv' /\ call # NoCall /\ call' # NoCall
           /\ call'.op = call.op /\ call'.stream = call.stream /\ call'.offered = call.offered
           /\ quic.active /\ quic'.active /\ quic'.pending = quic.pending
           /\ call.op \in ops
BY CallbackStep, Zenon DEF QuicInv, QuicTypes

\* A call returns.
LEMMA ReturnStep ==
    ASSUME QuicInv, call # NoCall, NEW session \in Sessions, session.active = quic.active,
           NEW result, call.failed => result = "fatal" /\ session.terminal,
           Returns(session, result),
           native' \in Connections, native'.dead => session.terminal,
           native'.open \cap native'.closed = {}
    PROVE  /\ QuicInv' /\ call' = NoCall /\ call'.op = "none"
           /\ quic.active /\ quic'.active /\ quic'.pending = session.pending
<1>1. quic.active /\ call \in Calls
    BY CallKinds DEF QuicInv
<1>2. /\ call' = NoCall
      /\ quic' = [session EXCEPT !.randomFailed = FALSE]
      /\ outcome' = [reported |-> quic.randomFailed \/ result # "ok",
                     deserved |-> call.random \/ call.failed \/ result # "ok",
                     failed |-> call.failed]
    BY DEF Returns, RequireRandom, Reported
<1>3. /\ quic' \in Sessions /\ quic'.active = quic.active /\ quic'.randomFailed = FALSE
      /\ quic'.terminal = session.terminal /\ quic'.pending = session.pending
    BY <1>2, Zenon DEF Sessions
<1>4. /\ quic.randomFailed \in BOOLEAN /\ call.random \in BOOLEAN /\ call.failed \in BOOLEAN
      /\ quic.randomFailed <=> call.random
    BY <1>1 DEF QuicInv, QuicTypes, Sessions, Calls
<1>5. /\ outcome'.reported = (quic.randomFailed \/ result # "ok")
      /\ outcome'.deserved = (call.random \/ call.failed \/ result # "ok")
      /\ outcome'.failed = call.failed
      /\ outcome' \in Outcomes
    BY <1>2, <1>4 DEF Outcomes
<1>6. /\ outcome'.reported <=> outcome'.deserved
      /\ outcome'.failed => quic'.terminal
    BY <1>3, <1>4, <1>5
<1>7. NoCall.op = "none"
    BY DEF NoCall
<1>8. QuicTypes'
    BY <1>2, <1>3, <1>5 DEF QuicTypes
<1>9. QuicInv'
    BY <1>1, <1>2, <1>3, <1>6, <1>7, <1>8, Zenon DEF QuicInv
<1> QED BY <1>1, <1>2, <1>3, <1>7, <1>9, Zenon

\* The ends of calls that do not write.
LEMMA ReceiveReturnsStep ==
    ASSUME QuicInv, NEW result, ReceiveReturns(result)
    PROVE  /\ QuicInv' /\ call # NoCall /\ call' = NoCall /\ call'.op = "none"
           /\ quic.active /\ quic'.active /\ quic'.pending = quic.pending
           /\ native' = [native EXCEPT !.dead = native'.dead]
<1> DEFINE session == [quic EXCEPT !.terminal = @ \/ TerminalError(result)]
<1>1. /\ call.op = "receive" /\ (call.failed => result = "fatal") /\ Returns(session, result)
      /\ native' = [native EXCEPT !.dead = result \in {"draining", "fatal"}]
    BY DEF ReceiveReturns, MayReturn
<1>2. call # NoCall
    BY <1>1, CallKinds DEF QuicInv, Ops
<1>3. quic \in Sessions /\ native \in Connections
    BY DEF QuicInv, QuicTypes
<1>4. /\ session \in Sessions /\ session.active = quic.active /\ session.pending = quic.pending
      /\ session.terminal = (quic.terminal \/ TerminalError(result))
    BY <1>3, Zenon DEF Sessions, TerminalError
<1>5. /\ native' \in Connections /\ native'.open = native.open /\ native'.closed = native.closed
      /\ native'.dead = (result \in {"draining", "fatal"})
  <2> DEFINE over == result \in {"draining", "fatal"}
  <2>1. over \in BOOLEAN /\ native' = [native EXCEPT !.dead = over]
      BY <1>1
  <2> HIDE DEF over
  <2>2. /\ native' \in Connections /\ native'.open = native.open
        /\ native'.closed = native.closed /\ native'.dead = over
      BY <1>3, <2>1 DEF Connections
  <2> QED BY <2>2 DEF over
<1> HIDE DEF session
<1> QED BY <1>1, <1>2, <1>4, <1>5, ReturnStep, Zenon DEF QuicInv, TerminalError

LEMMA ExpiryReturnsStep ==
    ASSUME QuicInv, NEW result, ExpiryReturns(result)
    PROVE  /\ QuicInv' /\ call # NoCall /\ call' = NoCall /\ call'.op = "none"
           /\ quic.active /\ quic'.active /\ quic'.pending = quic.pending
           /\ native' = [native EXCEPT !.dead = native'.dead]
<1> DEFINE session == [quic EXCEPT !.terminal = @ \/ result = "idle_close" \/ TerminalError(result)]
<1>1. /\ call.op = "expiry" /\ (call.failed => result = "fatal") /\ Returns(session, result)
      /\ native' = [native EXCEPT !.dead = result \in {"draining", "fatal", "idle_close"}]
    BY DEF ExpiryReturns, MayReturn
<1>2. call # NoCall
    BY <1>1, CallKinds DEF QuicInv, Ops
<1>3. quic \in Sessions /\ native \in Connections
    BY DEF QuicInv, QuicTypes
<1>4. /\ session \in Sessions /\ session.active = quic.active /\ session.pending = quic.pending
      /\ session.terminal = (quic.terminal \/ result = "idle_close" \/ TerminalError(result))
    BY <1>3, Zenon DEF Sessions, TerminalError
<1>5. /\ native' \in Connections /\ native'.open = native.open /\ native'.closed = native.closed
      /\ native'.dead = (result \in {"draining", "fatal", "idle_close"})
  <2> DEFINE over == result \in {"draining", "fatal", "idle_close"}
  <2>1. over \in BOOLEAN /\ native' = [native EXCEPT !.dead = over]
      BY <1>1
  <2> HIDE DEF over
  <2>2. /\ native' \in Connections /\ native'.open = native.open
        /\ native'.closed = native.closed /\ native'.dead = over
      BY <1>3, <2>1 DEF Connections
  <2> QED BY <2>2 DEF over
<1> HIDE DEF session
<1> QED BY <1>1, <1>2, <1>4, <1>5, ReturnStep, Zenon DEF QuicInv, TerminalError

LEMMA OpenReturnsStep ==
    ASSUME QuicInv, NEW result, OpenReturns(result)
    PROVE  /\ QuicInv' /\ call # NoCall /\ call' = NoCall /\ call'.op = "none"
           /\ quic.active /\ quic'.active /\ quic'.pending = quic.pending
           /\ native' = [native EXCEPT !.open = native'.open]
<1>1. /\ call.op = "open" /\ Returns(quic, result)
      /\ native' = [native EXCEPT !.open = IF result = "ok" THEN @ \cup {call.stream} ELSE @]
    BY DEF OpenReturns, MayReturn
<1>2. call # NoCall
    BY <1>1, CallKinds DEF QuicInv, Ops
<1>3. /\ quic \in Sessions /\ native \in Connections /\ ~call.failed
      /\ call.stream \in Streams \ (native.open \cup native.closed)
    BY <1>1 DEF QuicInv, QuicTypes
<1>4. /\ native' \in Connections /\ native'.dead = native.dead /\ native'.closed = native.closed
      /\ native'.open = IF result = "ok" THEN native.open \cup {call.stream} ELSE native.open
    BY <1>1, <1>3 DEF Connections
<1>5. native'.open \cap native'.closed = {}
    BY <1>3, <1>4 DEF QuicInv
<1> QED BY <1>1, <1>2, <1>3, <1>4, <1>5, ReturnStep DEF QuicInv

LEMMA WriteReturnsStep ==
    ASSUME QuicInv, NEW result, NEW n \in Nat, NEW made \in BOOLEAN,
           WriteReturns(result, n, made)
    PROVE  /\ QuicInv' /\ call # NoCall /\ call.op = "write"
           /\ call' = NoCall /\ call'.op = "none"
           /\ quic.active /\ quic'.active /\ quic'.pending = (made /\ ~quic.randomFailed)
           /\ result # "ok" => ~made
           /\ n > 0 => made
           /\ n > 0 => call.stream \in native.open
           /\ native'.open = native.open /\ native'.reset = native.reset
           /\ native'.closed = native.closed /\ native'.acked = native.acked
           /\ native'.accepted = [s \in Streams |->
                                    native.accepted[s] + IF s = call.stream THEN n ELSE 0]
<1> DEFINE pending == made /\ ~quic.randomFailed
           terminal == quic.terminal \/ TerminalError(result)
           over == result \in {"draining", "fatal"}
           taken == [s \in Streams |-> native.accepted[s] + IF s = call.stream THEN n ELSE 0]
           session == [quic EXCEPT !.terminal = terminal, !.pending = pending]
<1>1. /\ call.op = "write" /\ (call.failed => result = "fatal") /\ Returns(session, result)
      /\ result # "ok" => ~made
      /\ n > 0 => made /\ call.stream \in native.open \ native.reset
      /\ native' = [native EXCEPT !.dead = over, !.accepted = taken]
  <2>1. /\ call.op = "write" /\ (call.failed => result = "fatal")
        /\ result # "ok" => ~made
        /\ n > 0 => made /\ call.stream \in native.open \ native.reset
      BY DEF WriteReturns, MayReturn
  <2>2. Returns(session, result)
      BY DEF WriteReturns
  <2>3. native' = [native EXCEPT !.dead = over, !.accepted = taken]
      BY DEF WriteReturns
  <2> QED BY <2>1, <2>2, <2>3
<1>2. call # NoCall
    BY <1>1, CallKinds DEF QuicInv, Ops
<1>3. quic \in Sessions /\ native \in Connections
    BY DEF QuicInv, QuicTypes
<1>4. /\ pending \in BOOLEAN /\ terminal \in BOOLEAN /\ over \in BOOLEAN /\ (over => terminal)
      /\ result = "fatal" => terminal
    BY <1>3 DEF Sessions, TerminalError
<1>5. taken \in Counts
  <2>1. native.accepted \in Counts
      BY <1>3 DEF Connections
  <2> QED BY <2>1 DEF Counts
<1> HIDE DEF pending, terminal, over, taken
<1>6. /\ session \in Sessions /\ session.active = quic.active /\ session.pending = pending
      /\ session.terminal = terminal
    BY <1>3, <1>4, Zenon DEF Sessions
<1>7. /\ native' \in Connections /\ native'.open = native.open /\ native'.closed = native.closed
      /\ native'.reset = native.reset /\ native'.acked = native.acked
      /\ native'.dead = over /\ native'.accepted = taken
    BY <1>1, <1>3, <1>4, <1>5, Zenon DEF Connections
<1> HIDE DEF session
<1>8. /\ QuicInv' /\ call' = NoCall /\ call'.op = "none"
      /\ quic.active /\ quic'.active /\ quic'.pending = pending
    BY <1>1, <1>2, <1>4, <1>6, <1>7, ReturnStep DEF QuicInv
<1> QED BY <1>1, <1>2, <1>7, <1>8 DEF pending, taken

LEMMA DataAckedStep ==
    ASSUME QuicInv, NEW stream \in Streams, NEW size \in Nat, NEW accepted \in BOOLEAN,
           StreamDataAcked(stream, size, accepted)
    PROVE  /\ QuicInv' /\ call # NoCall /\ call' # NoCall /\ call.op = "receive"
           /\ call'.op = call.op /\ call'.stream = call.stream /\ call'.offered = call.offered
           /\ quic.active /\ quic'.active /\ quic'.pending = quic.pending
           /\ native'.open = native.open /\ native'.reset = native.reset
           /\ native'.closed = native.closed /\ native'.accepted = native.accepted
           /\ native'.acked = [native.acked EXCEPT ![stream] = @ + size]
<1>1. /\ Callback({"receive"}, ~accepted, FALSE)
      /\ native' = [native EXCEPT !.acked[stream] = @ + size]
    BY Zenon DEF StreamDataAcked
<1>2. native \in Connections /\ native.acked \in Counts
    BY DEF QuicInv, QuicTypes, Connections
<1>3. [native.acked EXCEPT ![stream] = @ + size] \in Counts
    BY <1>2 DEF Counts
<1>4. /\ native' \in Connections /\ native'.dead = native.dead
      /\ native'.open = native.open /\ native'.reset = native.reset
      /\ native'.closed = native.closed /\ native'.accepted = native.accepted
      /\ native'.acked = [native.acked EXCEPT ![stream] = @ + size]
    BY <1>1, <1>2, <1>3 DEF Connections
<1>5. native.open \cap native.closed = {}
    BY DEF QuicInv
<1>6. {"receive"} \in SUBSET Ops /\ (~accepted) \in BOOLEAN /\ "open" \notin {"receive"}
    BY DEF Ops
<1>7. /\ QuicInv' /\ call # NoCall /\ call' # NoCall /\ call.op \in {"receive"}
      /\ call'.op = call.op /\ call'.stream = call.stream /\ call'.offered = call.offered
      /\ quic.active /\ quic'.active /\ quic'.pending = quic.pending
    BY <1>1, <1>4, <1>5, <1>6, CallbackStep, Zenon
<1> QED BY <1>4, <1>7

LEMMA ClosedStep ==
    ASSUME QuicInv, NEW stream \in Streams, NEW accepted \in BOOLEAN,
           StreamClosed(stream, accepted)
    PROVE  /\ QuicInv' /\ call # NoCall /\ call' # NoCall /\ call.op \in {"receive", "expiry"}
           /\ call'.op = call.op /\ call'.stream = call.stream /\ call'.offered = call.offered
           /\ quic.active /\ quic'.active /\ quic'.pending = quic.pending
           /\ native'.open = native.open \ {stream} /\ native'.closed = native.closed \cup {stream}
           /\ native'.accepted = native.accepted /\ native'.acked = native.acked
<1>1. /\ Callback({"receive", "expiry"}, ~accepted, FALSE) /\ stream \in native.open
      /\ native' = [native EXCEPT !.open = @ \ {stream}, !.reset = @ \ {stream},
                                  !.closed = @ \cup {stream}]
    BY Zenon DEF StreamClosed
<1>2. native \in Connections
    BY DEF QuicInv, QuicTypes
<1>3. /\ native' \in Connections /\ native'.dead = native.dead
      /\ native'.open = native.open \ {stream} /\ native'.closed = native.closed \cup {stream}
      /\ native'.accepted = native.accepted /\ native'.acked = native.acked
    BY <1>1, <1>2, Zenon DEF Connections
<1>4. /\ native'.open \cap native'.closed = {}
      /\ native'.open \cup native'.closed = native.open \cup native.closed
    BY <1>1, <1>3 DEF QuicInv
<1>5. /\ {"receive", "expiry"} \in SUBSET Ops /\ (~accepted) \in BOOLEAN
      /\ "open" \notin {"receive", "expiry"}
    BY DEF Ops
<1>6. /\ QuicInv' /\ call # NoCall /\ call' # NoCall /\ call.op \in {"receive", "expiry"}
      /\ call'.op = call.op /\ call'.stream = call.stream /\ call'.offered = call.offered
      /\ quic.active /\ quic'.active /\ quic'.pending = quic.pending
    BY <1>1, <1>3, <1>4, <1>5, CallbackStep, Zenon
<1> QED BY <1>3, <1>6

-----------------------------------------------------------------------------
(* HTTP/3.                                                                 *)

Http3Types == [active : BOOLEAN, terminal : BOOLEAN, dead : BOOLEAN, queued : Counts,
               written : Counts, released : Counts, closed : SUBSET Streams]

LEMMA NoneType == None \in Http3Types /\ ~None.active /\ ~None.dead
<1>1. [s \in Streams |-> 0] \in Counts
    BY DEF Counts
<1> QED BY <1>1 DEF None, Http3Types

\* What a step leaves of the bytes that HTTP/3 holds.
KeepsBytes ==
    /\ \A s \in Streams : http3.queued[s] <= http3'.queued[s]
    /\ http3'.written = http3.written /\ http3'.released = http3.released
    /\ http3'.closed = http3.closed

LEMMA QueueStep ==
    ASSUME Http3Inv, Http3RequireValid, NEW stream \in Streams, NEW n \in Nat,
           Queue(stream, n, "ok")
    PROVE  Http3Inv' /\ KeepsBytes
<1>1. /\ http3 \in Http3Types /\ http3.active /\ ~http3.terminal /\ ~http3.dead
      /\ http3' = [http3 EXCEPT !.queued[stream] = @ + n]
    BY DEF Http3Inv, Http3Types, Http3RequireValid, Queue
<1>2. http3.queued \in [Streams -> Nat]
    BY <1>1 DEF Http3Types, Counts
<1> DEFINE more == [http3.queued EXCEPT ![stream] = @ + n]
<1>3. more \in Counts /\ \A s \in Streams : http3.queued[s] <= more[s]
    BY <1>2 DEF Counts
<1>4. http3' = [http3 EXCEPT !.queued = more]
    BY <1>1
<1> HIDE DEF more
<1>5. /\ http3' \in Http3Types /\ http3'.active = http3.active /\ http3'.dead = http3.dead
      /\ http3'.terminal = http3.terminal /\ http3'.queued = more
      /\ http3'.written = http3.written /\ http3'.released = http3.released
      /\ http3'.closed = http3.closed
    BY <1>1, <1>3, <1>4, Zenon DEF Http3Types
<1> QED BY <1>1, <1>3, <1>5, Zenon DEF Http3Inv, Http3Types, KeepsBytes

\* An error ends the session.
LEMMA Http3EndStep ==
    ASSUME Http3Inv, Http3RequireValid, http3' = [http3 EXCEPT !.terminal = TRUE, !.dead = TRUE]
    PROVE  Http3Inv' /\ KeepsBytes
<1>1. http3 \in Http3Types /\ http3.active
    BY DEF Http3Inv, Http3Types, Http3RequireValid
<1>2. /\ http3' \in Http3Types /\ http3'.active = http3.active /\ http3'.terminal = TRUE
      /\ http3'.queued = http3.queued
      /\ http3'.written = http3.written /\ http3'.released = http3.released
      /\ http3'.closed = http3.closed
    BY <1>1, Zenon DEF Http3Types
<1>3. \A s \in Streams : http3.queued[s] <= http3.queued[s]
    BY <1>1 DEF Http3Types, Counts
<1> QED BY <1>1, <1>2, <1>3 DEF Http3Inv, Http3Types, KeepsBytes

LEMMA Http3Keeps ==
    ASSUME Http3Inv, UNCHANGED http3
    PROVE  Http3Inv' /\ KeepsBytes
<1>1. \A s \in Streams : http3.queued[s] <= http3.queued[s]
    BY DEF Http3Inv, Counts
<1> QED BY <1>1 DEF Http3Inv, KeepsBytes

-----------------------------------------------------------------------------
(* The driver.                                                             *)

\* Steps that move no byte between the layers.
LEMMA PassiveStep ==
    ASSUME IInv, QuicInv', Http3Inv', KeepsBytes,
           UNCHANGED <<events, view, owed, packet, lost>>, opened' \subseteq Streams,
           quic'.active = quic.active, quic'.pending = quic.pending,
           native'.accepted = native.accepted, native'.acked = native.acked,
           native.closed \subseteq native'.closed,
           call' # NoCall => owed = <<>>,
           call'.op = "write" => /\ call.op = "write" /\ call'.stream = call.stream
                                 /\ call'.offered = call.offered
    PROVE  IInv'
<1>1. /\ http3.queued \in [Streams -> Nat] /\ http3.written \in [Streams -> Nat]
      /\ http3'.queued \in [Streams -> Nat]
    BY DEF IInv, Http3Inv, Counts
<1>2. /\ native.accepted \in [Streams -> Nat] /\ (call # NoCall => call.offered \in Nat)
    BY CallKinds DEF IInv, QuicInv, QuicTypes, Connections, Counts, Calls
<1>3. DriverInv'
  <2>1. DriverTypes'
      BY DEF IInv, DriverInv, DriverTypes
  <2>2. ASSUME call'.op = "write"
        PROVE  \/ view' = <<>> /\ call'.offered = 0
               \/ /\ view' # <<>> /\ view'[1].stream = call'.stream /\ call'.stream \in Streams
                  /\ call'.offered <= http3'.queued[call'.stream] - http3'.written[call'.stream]
    <3>1. /\ call.op = "write" /\ call'.stream = call.stream /\ call'.offered = call.offered
          /\ call # NoCall
        BY <2>2, CallKinds DEF IInv, QuicInv
    <3>2. CASE view = <<>> /\ call.offered = 0
        BY <3>1, <3>2
    <3>3. CASE /\ view # <<>> /\ view[1].stream = call.stream /\ call.stream \in Streams
               /\ call.offered <= http3.queued[call.stream] - http3.written[call.stream]
      <4>1. call.offered <= http3'.queued[call.stream] - http3'.written[call.stream]
          BY <1>1, <1>2, <3>1, <3>3 DEF KeepsBytes
      <4> QED BY <3>1, <3>3, <4>1
    <3> QED BY <3>1, <3>2, <3>3 DEF IInv, DriverInv
  <2> QED BY <2>1, <2>2 DEF IInv, DriverInv
<1>4. Accounts'
  <2>1. \A s \in Streams : Owed(s)' = Owed(s) /\ Owed(s) \in Nat
      BY DEF Owed, IInv, DriverInv, DriverTypes
  <2>2. ASSUME NEW s \in Streams PROVE http3'.written[s] + Owed(s)' <= http3'.queued[s]
      BY <1>1, <2>1 DEF IInv, Accounts, KeepsBytes
  <2> QED BY <2>1, <2>2 DEF IInv, Accounts, KeepsBytes
<1>5. Backing'
    BY DEF IInv, Backing, Through, KeepsBytes, Share
<1> QED BY <1>3, <1>4, <1>5 DEF IInv

LEMMA OpensStreamStep ==
    ASSUME IInv, OpensStream
    PROVE  IInv'
<1>1. PICK stream \in Streams \ (native.open \cup native.closed) : OpenStream(stream)
    BY DEF OpensStream
<1>2. owed = <<>> /\ UNCHANGED <<http3, events, view, owed, packet, opened, lost>>
    BY DEF OpensStream, Ready, driverVars
<1>3. /\ QuicInv' /\ UNCHANGED <<quic, native>> /\ call'.op = "open"
    BY <1>1, EnterStep DEF IInv, OpenStream, Ops
<1> QED BY <1>2, <1>3, Http3Keeps, PassiveStep, Zenon
       DEF IInv, DriverInv, DriverTypes

LEMMA ReceivesStep ==
    ASSUME IInv, Receives
    PROVE  IInv'
<1>1. owed = <<>> /\ UNCHANGED <<http3, events, view, owed, packet, opened, lost>>
    BY DEF Receives, Ready, driverVars
<1>2. PICK op \in {"receive", "expiry"} : Enter(op, "none", 0)
    BY DEF Receives, ReceivePacket, HandleExpiry
<1>3. QuicInv' /\ UNCHANGED <<quic, native>> /\ call'.op \in {"receive", "expiry"}
    BY <1>2, EnterStep DEF IInv, Ops
<1> QED BY <1>1, <1>3, Http3Keeps, PassiveStep, Zenon
       DEF IInv, DriverInv, DriverTypes

LEMMA SubmitsStep ==
    ASSUME IInv, Submits
    PROVE  IInv'
<1>1. /\ call = NoCall /\ UNCHANGED <<quic, native, call, outcome>>
      /\ UNCHANGED <<events, view, owed, packet, opened, lost>>
    BY DEF Submits, Ready, quicVars, driverVars
<1>2. Http3RequireValid /\ \E stream \in Streams, result \in Replies : Queue(stream, 1, result)
  <2>1. Control \in Streams /\ opened \subseteq Streams
      BY DriverAssumption DEF IInv, DriverInv, DriverTypes
  <2> QED BY <2>1 DEF Submits, BindStreams, Shutdown, Submit
<1>3. Http3Inv' /\ KeepsBytes
  <2>1. PICK stream \in Streams, result \in Replies : Queue(stream, 1, result)
      BY <1>2
  <2>2. CASE result = "ok"
      BY <1>2, <2>1, <2>2, QueueStep DEF IInv
  <2>3. CASE result # "ok"
      BY <2>1, <2>3, Http3Keeps DEF IInv, Queue
  <2> QED BY <2>2, <2>3
<1>4. QuicInv'
    BY <1>1 DEF IInv, QuicInv, QuicTypes
<1>5. call'.op # "write"
    BY <1>1 DEF NoCall
<1> QED BY <1>1, <1>3, <1>4, <1>5, PassiveStep, Zenon DEF IInv, DriverInv, DriverTypes

LEMMA OwnCallbackStep ==
    ASSUME IInv, OwnCallback
    PROVE  IInv'
<1>1. UNCHANGED <<http3, events, view, owed, packet, opened, lost>>
    BY DEF OwnCallback, driverVars
<1>2. CASE InstallApplication
  <2>1. /\ call.op \in {"receive", "write"} /\ UNCHANGED <<native, call, outcome>>
        /\ quic' = [quic EXCEPT !.applicationIv = TRUE]
      BY <1>2 DEF InstallApplication
  <2>2. call # NoCall
      BY <2>1, CallKinds DEF IInv, QuicInv, Ops
  <2>3. /\ quic' \in Sessions /\ quic'.active = quic.active /\ quic'.pending = quic.pending
        /\ quic'.terminal = quic.terminal /\ quic'.randomFailed = quic.randomFailed
      BY <2>1, Zenon DEF IInv, QuicInv, QuicTypes, Sessions
  <2>4. QuicTypes'
      BY <2>1, <2>3 DEF IInv, QuicInv, QuicTypes
  <2>5. QuicInv'
      BY <2>1, <2>2, <2>3, <2>4 DEF IInv, QuicInv
  <2> QED BY <1>1, <2>1, <2>2, <2>3, <2>5, Http3Keeps, PassiveStep, Zenon
       DEF IInv, DriverInv, DriverTypes
<1>3. CASE ~InstallApplication
  <2>1. \E ops \in SUBSET Ops, failed \in BOOLEAN, random \in BOOLEAN :
           Callback(ops, failed, random) /\ ("open" \in ops => ~failed) /\ UNCHANGED native
    <3>1. /\ {"receive"} \in SUBSET Ops /\ {"receive", "write"} \in SUBSET Ops
          /\ {"receive", "write", "expiry"} \in SUBSET Ops
          /\ {"receive", "write", "open", "expiry"} \in SUBSET Ops
          /\ "open" \notin {"receive"} /\ "open" \notin {"receive", "write"}
          /\ "open" \notin {"receive", "write", "expiry"}
        BY DEF Ops
    <3>2. /\ \A a \in BOOLEAN : (~a) \in BOOLEAN
          /\ \A a, b \in BOOLEAN : (~a \/ ~b) \in BOOLEAN
          /\ \A a \in BOOLEAN : (~quic.applicationIv \/ ~a) \in BOOLEAN
        OBVIOUS
    <3>3. CASE \E ok \in BOOLEAN :
                 RandomFill(ok) \/ PathChallenge(ok) \/ StartCrypto(ok) \/ RecvRetry(ok)
      <4>1. CASE \E ok \in BOOLEAN : RandomFill(ok)
          BY <3>1, <3>2, <4>1, Zenon DEF RandomFill
      <4>2. CASE \E ok \in BOOLEAN : PathChallenge(ok) \/ StartCrypto(ok) \/ RecvRetry(ok)
          BY <3>1, <3>2, <4>2, Zenon DEF PathChallenge, StartCrypto, RecvRetry
      <4> QED BY <3>3, <4>1, <4>2, Zenon
    <3>4. CASE \E ok \in BOOLEAN : VersionNegotiation(ok) \/ UpdateKey(ok) \/ Protect(ok)
                                      \/ EmitEvent(ok) \/ PeerStops(ok)
        BY <3>1, <3>2, <3>4, Zenon DEF VersionNegotiation, UpdateKey, Protect, EmitEvent, PeerStops
    <3>5. CASE \E first, second \in BOOLEAN :
                 NewConnectionId(first, second) \/ RecvCrypto(first, second)
        BY <3>1, <3>2, <3>5, Zenon DEF NewConnectionId, RecvCrypto
    <3> QED BY <1>3, <3>3, <3>4, <3>5 DEF OwnCallback, Bool
  <2>2. /\ QuicInv' /\ call # NoCall /\ UNCHANGED native
        /\ call'.op = call.op /\ call'.stream = call.stream /\ call'.offered = call.offered
        /\ quic.active /\ quic'.active /\ quic'.pending = quic.pending
      BY <2>1, PlainCallbackStep DEF IInv
  <2>3. quic'.active = quic.active
      BY <2>2 DEF IInv, QuicInv, QuicTypes, Sessions
  <2> QED BY <1>1, <2>2, <2>3, Http3Keeps, PassiveStep DEF IInv, DriverInv, DriverTypes
<1> QED BY <1>2, <1>3

LEMMA StreamDataStep ==
    ASSUME IInv, StreamData
    PROVE  IInv'
<1>1. UNCHANGED <<native, events, view, owed, packet, opened, lost>>
    BY DEF StreamData, driverVars
<1>2. PICK result \in {"ok", "malformed"}, accepted \in BOOLEAN :
         LET heard == Http3Emit(result, accepted) IN
         /\ Callback({"receive"}, ~(Http3RequireValid /\ heard = "ok"), FALSE)
         /\ IF Http3RequireValid THEN Http3Receive(heard) ELSE UNCHANGED http3
    BY Zenon DEF StreamData, Bool
<1> DEFINE failed == ~(Http3RequireValid /\ Http3Emit(result, accepted) = "ok")
<1>3. /\ Callback({"receive"}, failed, FALSE) /\ failed \in BOOLEAN
      /\ {"receive"} \in SUBSET Ops /\ "open" \notin {"receive"}
    BY <1>2, Zenon DEF Ops
<1>4. Http3Inv' /\ KeepsBytes
  <2>1. \/ UNCHANGED http3
        \/ Http3RequireValid /\ http3' = [http3 EXCEPT !.terminal = TRUE, !.dead = TRUE]
      BY <1>2 DEF Http3Receive
  <2> QED BY <2>1, Http3Keeps, Http3EndStep DEF IInv
<1> HIDE DEF failed
<1>5. /\ QuicInv' /\ call # NoCall
      /\ call'.op = call.op /\ call'.stream = call.stream /\ call'.offered = call.offered
      /\ quic.active /\ quic'.active /\ quic'.pending = quic.pending
    BY <1>1, <1>3, PlainCallbackStep, Zenon DEF IInv
<1>6. quic'.active = quic.active
    BY <1>5 DEF IInv, QuicInv, QuicTypes, Sessions
<1> QED BY <1>1, <1>4, <1>5, <1>6, PassiveStep DEF IInv, DriverInv, DriverTypes

LEMMA EndsStep ==
    ASSUME IInv, NEW result, ReceiveEnds(result) \/ OpenEnds(result) \/ ExpiryEnds(result)
    PROVE  IInv'
<1>1. UNCHANGED <<http3, events, view, owed, packet, lost>>
    BY DEF ReceiveEnds, OpenEnds, ExpiryEnds, driverVars
<1>2. opened' \subseteq Streams
  <2>1. CASE ReceiveEnds(result) \/ ExpiryEnds(result)
      BY <2>1 DEF ReceiveEnds, ExpiryEnds, driverVars, IInv, DriverInv, DriverTypes
  <2>2. CASE OpenEnds(result)
    <3>1. call.stream \in Streams /\ opened \subseteq Streams
        BY <2>2 DEF OpenEnds, OpenReturns, MayReturn, IInv, QuicInv, DriverInv, DriverTypes
    <3> QED BY <2>2, <3>1 DEF OpenEnds
  <2> QED BY <2>1, <2>2
<1>3. /\ QuicInv' /\ call' = NoCall /\ call'.op = "none"
      /\ quic.active /\ quic'.active /\ quic'.pending = quic.pending
      /\ \/ native' = [native EXCEPT !.dead = native'.dead]
         \/ native' = [native EXCEPT !.open = native'.open]
    BY ReceiveReturnsStep, OpenReturnsStep, ExpiryReturnsStep
    DEF IInv, ReceiveEnds, OpenEnds, ExpiryEnds
<1>4. /\ native'.accepted = native.accepted /\ native'.acked = native.acked
      /\ native'.closed = native.closed
    BY <1>3 DEF IInv, QuicInv, QuicTypes, Connections
<1>5. quic'.active = quic.active
    BY <1>3 DEF IInv, QuicInv, QuicTypes, Sessions
<1> QED BY <1>1, <1>2, <1>3, <1>4, <1>5, Http3Keeps, PassiveStep DEF IInv

LEMMA AbandonsStep ==
    ASSUME IInv, Abandons
    PROVE  IInv'
<1>1. UNCHANGED <<http3, events, view, owed, packet, opened, lost>>
    BY DEF Abandons, driverVars
<1>2. PICK stream \in Streams, result \in Replies :
         ResetStream(stream, result) \/ StopSending(stream, result)
    BY DEF Abandons, IInv, DriverInv, DriverTypes
<1>3. /\ call = NoCall /\ quic.active /\ UNCHANGED <<quic, call, outcome>>
      /\ \/ native' = [native EXCEPT !.reset = @ \cup {stream}]
         \/ native' = [native EXCEPT !.reset = @]
         \/ native' = native
    BY <1>2 DEF ResetStream, StopSending, QuicRequireValid, quicVars
<1>4. /\ native' \in Connections /\ native'.accepted = native.accepted
      /\ native'.acked = native.acked /\ native'.closed = native.closed
      /\ native'.open = native.open /\ native'.dead = native.dead
    BY <1>3 DEF IInv, QuicInv, QuicTypes, Connections
<1>5. QuicTypes'
    BY <1>3, <1>4 DEF IInv, QuicInv, QuicTypes
<1>6. QuicInv'
    BY <1>3, <1>4, <1>5 DEF IInv, QuicInv
<1>7. call'.op # "write"
    BY <1>3 DEF NoCall
<1> QED BY <1>1, <1>3, <1>4, <1>6, <1>7, Http3Keeps, PassiveStep, Zenon
       DEF IInv, DriverInv, DriverTypes

LEMMA WritesStep ==
    ASSUME IInv, Writes
    PROVE  IInv'
<1>1. call = NoCall /\ owed = <<>> /\ view = <<>>
    BY DEF Writes, Ready
<1>2. CASE NextOutputFails /\ UNCHANGED <<quicVars, driverVars>>
  <2>1. Http3Inv' /\ KeepsBytes
      BY <1>2, Http3EndStep DEF IInv, NextOutputFails
  <2>2. /\ UNCHANGED <<quic, native, call, outcome>>
        /\ UNCHANGED <<events, view, owed, packet, opened, lost>>
      BY <1>2 DEF quicVars, driverVars
  <2>3. QuicInv'
      BY <2>2 DEF IInv, QuicInv, QuicTypes
  <2>4. call'.op # "write"
      BY <1>1, <2>2 DEF NoCall
  <2> QED BY <1>1, <2>1, <2>2, <2>3, <2>4, PassiveStep DEF IInv, DriverInv, DriverTypes
<1>3. ASSUME NEW stream \in Streams \cup {"none"}, NEW n \in Nat, WritePacket(stream, n),
             UNCHANGED <<http3, events, owed, packet, opened, lost>>,
             \/ n = 0 /\ view' = view
             \/ stream \in Streams /\ HasOutput(stream, n) /\ view' = <<NextOutput(stream, n)>>
      PROVE  IInv'
  <2>1. /\ QuicInv' /\ UNCHANGED <<quic, native>> /\ call' # NoCall
        /\ call'.op = "write" /\ call'.stream = stream /\ call'.offered = n
        /\ quic.active
      BY <1>3, EnterStep DEF IInv, WritePacket, Ops
  <2>2. CASE n = 0 /\ view' = view
    <3>1. DriverInv'
        BY <1>1, <1>3, <2>1, <2>2 DEF IInv, DriverInv, DriverTypes
    <3>2. Accounts' /\ Backing' /\ Http3Inv'
        BY <1>3, <2>1 DEF IInv, Accounts, Owed, Backing, Through, Share, Http3Inv
    <3> QED BY <2>1, <3>1, <3>2 DEF IInv
  <2>3. CASE stream \in Streams /\ HasOutput(stream, n) /\ view' = <<NextOutput(stream, n)>>
    <3>1. NextOutput(stream, n) \in [stream : Streams, first : Nat, size : Nat]
          /\ NextOutput(stream, n).stream = stream
      <4>1. http3.written[stream] + 1 \in Nat
          BY <2>3 DEF IInv, Http3Inv, Counts
      <4> QED BY <2>3, <4>1 DEF NextOutput
    <3>2. view' # <<>> /\ view'[1].stream = stream
        BY <2>3, <3>1
    <3>3. n <= http3.queued[stream] - http3.written[stream]
      <4>1. http3.queued[stream] \in Nat /\ http3.written[stream] \in Nat
          BY <2>3 DEF IInv, Http3Inv, Counts
      <4> QED BY <2>3, <4>1 DEF HasOutput
    <3>4. DriverTypes'
        BY <1>3, <2>3, <3>1 DEF IInv, DriverInv, DriverTypes
    <3>5. DriverInv'
        BY <1>1, <1>3, <2>1, <2>3, <3>2, <3>3, <3>4 DEF IInv, DriverInv
    <3>6. Accounts' /\ Backing' /\ Http3Inv'
        BY <1>3, <2>1 DEF IInv, Accounts, Owed, Backing, Through, Share, Http3Inv
    <3> QED BY <2>1, <3>5, <3>6 DEF IInv
  <2> QED BY <1>3, <2>2, <2>3
<1>4. CASE /\ \E s \in Streams : \E n \in 1 .. MaxBytes[s] :
                 HasOutput(s, n) /\ WritePacket(s, n) /\ view' = <<NextOutput(s, n)>>
           /\ UNCHANGED <<http3, events, owed, packet, opened, lost>>
  <2>1. PICK s \in Streams : \E n \in 1 .. MaxBytes[s] :
           HasOutput(s, n) /\ WritePacket(s, n) /\ view' = <<NextOutput(s, n)>>
      BY <1>4
  <2>2. PICK n \in 1 .. MaxBytes[s] :
           HasOutput(s, n) /\ WritePacket(s, n) /\ view' = <<NextOutput(s, n)>>
      BY <2>1
  <2>3. n \in Nat
      BY DriverAssumption
  <2> QED BY <1>3, <1>4, <2>2, <2>3
<1>5. CASE WritePacket("none", 0) /\ UNCHANGED <<http3, driverVars>>
    BY <1>3, <1>5 DEF driverVars
<1> QED BY <1>2, <1>4, <1>5, Zenon DEF Writes

LEMMA WriteEndsStep ==
    ASSUME IInv, NEW result \in Results, call.op = "write", NEW n \in 0 .. call.offered,
           NEW made \in BOOLEAN, WriteEnds(result, n, made)
    PROVE  IInv'
<1>1. call # NoCall /\ call.offered \in Nat /\ n \in Nat /\ n <= call.offered
  <2>1. call # NoCall /\ call.offered \in Nat
      BY CallKinds DEF IInv, QuicInv, QuicTypes, Calls, Ops
  <2> QED BY <2>1
<1>2. /\ QuicInv' /\ call' = NoCall /\ call'.op = "none"
      /\ quic.active /\ quic'.active /\ quic'.pending = (made /\ ~quic.randomFailed)
      /\ result # "ok" => ~made
      /\ n > 0 => made
      /\ native'.closed = native.closed /\ native'.acked = native.acked
      /\ native'.accepted = [s \in Streams |->
                               native.accepted[s] + IF s = call.stream THEN n ELSE 0]
    BY <1>1, WriteReturnsStep DEF IInv, WriteEnds
<1>3. /\ view' = <<>> /\ packet' = (made /\ ~Reported(result))
      /\ UNCHANGED <<http3, events, opened>>
      /\ \/ view = <<>> /\ owed' = <<>> /\ UNCHANGED lost
         \/ view # <<>> /\ Reported(result) /\ owed' = <<>> /\ Loses(view[1].stream, n)
         \/ /\ view # <<>> /\ owed' = << [stream |-> view[1].stream, size |-> n] >>
            /\ UNCHANGED lost
    BY DEF WriteEnds, StreamBytes
<1>4. owed = <<>>
    BY <1>1 DEF IInv, DriverInv
<1>5. \/ view = <<>> /\ n = 0
      \/ /\ view # <<>> /\ view[1].stream = call.stream /\ call.stream \in Streams
         /\ call.offered <= http3.queued[call.stream] - http3.written[call.stream]
    BY <1>1 DEF IInv, DriverInv
<1>6. /\ native.accepted \in [Streams -> Nat] /\ http3.queued \in [Streams -> Nat]
      /\ http3.written \in [Streams -> Nat] /\ lost \in [Streams -> Nat]
    BY DEF IInv, QuicInv, QuicTypes, Connections, Http3Inv, DriverInv, DriverTypes, Counts
<1> DEFINE taken(s) == IF s = call.stream THEN n ELSE 0
<1>7. \A s \in Streams : /\ native.accepted[s] = http3.written[s] + lost[s]
                         /\ http3.written[s] <= http3.queued[s]
  <2>1. \A s \in Streams : Owed(s) = 0
      BY <1>4 DEF Owed
  <2>2. /\ \A s \in Streams : native.accepted[s] = http3.written[s] + lost[s] + Owed(s)
        /\ \A s \in Streams : http3.written[s] + Owed(s) <= http3.queued[s]
      BY <1>2, Zenon DEF IInv, Accounts
  <2>3. ASSUME NEW s \in Streams
        PROVE  native.accepted[s] = http3.written[s] + lost[s] /\ http3.written[s] <= http3.queued[s]
      BY <1>6, <2>1, <2>2
  <2> QED BY <2>3, Zenon
<1>8. /\ lost' \in Counts
      /\ owed' = <<>> \/ \E o \in [stream : Streams, size : Nat] : owed' = <<o>>
      /\ \A s \in Streams : /\ lost'[s] + Owed(s)' = lost[s] + taken(s)
                            /\ http3.written[s] + Owed(s)' <= http3.queued[s]
                            /\ Owed(s)' \in Nat
  <2>1. CASE view = <<>> /\ owed' = <<>> /\ UNCHANGED lost
    <3>1. n = 0 /\ \A s \in Streams : Owed(s)' = 0 /\ taken(s) = 0
        BY <1>5, <2>1 DEF Owed
    <3> QED BY <1>6, <1>7, <2>1, <3>1 DEF Counts
  <2>2. CASE view # <<>> /\ owed' = <<>> /\ Loses(view[1].stream, n)
    <3>1. lost' = [lost EXCEPT ![call.stream] = @ + n] /\ call.stream \in Streams
        BY <1>5, <2>2 DEF Loses
    <3>2. lost' \in [Streams -> Nat] /\ \A s \in Streams : lost'[s] = lost[s] + taken(s)
        BY <1>1, <1>6, <3>1
    <3>3. \A s \in Streams : Owed(s)' = 0
        BY <2>2 DEF Owed
    <3> QED BY <1>6, <1>7, <2>2, <3>2, <3>3 DEF Counts
  <2>3. CASE /\ view # <<>> /\ owed' = << [stream |-> view[1].stream, size |-> n] >>
             /\ UNCHANGED lost
    <3>1. /\ call.stream \in Streams /\ owed' = << [stream |-> call.stream, size |-> n] >>
          /\ call.offered <= http3.queued[call.stream] - http3.written[call.stream]
        BY <1>5, <2>3
    <3>2. /\ [stream |-> call.stream, size |-> n] \in [stream : Streams, size : Nat]
          /\ \A s \in Streams : Owed(s)' = taken(s)
        BY <1>1, <3>1 DEF Owed
    <3>3. \A s \in Streams : http3.written[s] + taken(s) <= http3.queued[s]
        BY <1>1, <1>6, <1>7, <3>1
    <3> QED BY <1>1, <1>6, <2>3, <3>1, <3>2, <3>3 DEF Counts
  <2> QED BY <1>3, <2>1, <2>2, <2>3
<1>9. /\ DriverInv' /\ Accounts'
  <2>1. DriverTypes'
      BY <1>3, <1>8 DEF IInv, DriverInv, DriverTypes
  <2>2. quic'.pending <=> packet'
      BY <1>2, <1>3 DEF Reported
  <2>3. \A s \in Streams : native'.accepted[s] = http3'.written[s] + lost'[s] + Owed(s)'
    <3>1. ASSUME NEW s \in Streams
          PROVE  native'.accepted[s] = http3.written[s] + lost'[s] + Owed(s)'
      <4>1. /\ native'.accepted[s] = http3.written[s] + lost[s] + taken(s)
            /\ lost'[s] \in Nat /\ lost[s] \in Nat /\ http3.written[s] \in Nat
            /\ taken(s) \in Nat /\ Owed(s)' \in Nat
          BY <1>1, <1>2, <1>6, <1>7, <1>8 DEF Counts
      <4>2. lost'[s] + Owed(s)' = lost[s] + taken(s)
          BY <1>8
      <4> HIDE DEF taken
      <4> QED BY <4>1, <4>2
    <3> QED BY <1>3, <3>1
  <2>4. \A s \in Streams : http3'.written[s] + Owed(s)' <= http3'.queued[s]
      BY <1>3, <1>8
  <2>5. DriverInv'
      BY <1>2, <2>1 DEF DriverInv
  <2> QED BY <2>2, <2>3, <2>4, <2>5, Zenon DEF Accounts
<1>10. Backing'
    BY <1>2, <1>3 DEF IInv, Backing, Through, Share
<1>11. Http3Inv'
    BY <1>3 DEF IInv, Http3Inv
<1> QED BY <1>2, <1>9, <1>10, <1>11 DEF IInv

LEMMA MarksWrittenStep ==
    ASSUME IInv, MarksWritten
    PROVE  IInv'
<1>1. PICK result \in Replies :
         /\ MarkOutputWritten(owed[1].stream, owed[1].size, result)
         /\ IF result = "ok" THEN UNCHANGED lost ELSE Loses(owed[1].stream, owed[1].size)
    BY DEF MarksWritten
<1>2. /\ owed # <<>> /\ owed' = <<>> /\ UNCHANGED <<events, view, packet, opened>>
      /\ UNCHANGED <<quic, native, call, outcome>>
    BY DEF MarksWritten, quicVars
<1>3. PICK o \in [stream : Streams, size : Nat] : owed = <<o>>
    BY <1>2 DEF IInv, DriverInv, DriverTypes
<1>4. owed[1] = o /\ o.stream \in Streams /\ o.size \in Nat
    BY <1>3
<1>5. /\ http3 \in Http3Types /\ http3.written \in [Streams -> Nat]
      /\ http3.queued \in [Streams -> Nat]
      /\ native.accepted \in [Streams -> Nat] /\ lost \in [Streams -> Nat]
    BY DEF IInv, Http3Inv, Http3Types, Counts, QuicInv, QuicTypes, Connections,
           DriverInv, DriverTypes
<1>6. \A s \in Streams : Owed(s) = (IF s = o.stream THEN o.size ELSE 0) /\ Owed(s)' = 0
    BY <1>2, <1>4 DEF Owed
<1>7. QuicInv' /\ quic.active
  <2>1. quic.active
      BY <1>2 DEF IInv, DriverInv
  <2> QED BY <1>2, <2>1 DEF IInv, QuicInv, QuicTypes
<1>8. call = NoCall /\ call.op # "write"
  <2>1. call = NoCall
      BY <1>2 DEF IInv, DriverInv
  <2> QED BY <2>1 DEF NoCall
<1>9. \A s \in Streams : /\ native.accepted[s] = http3.written[s] + lost[s] + Owed(s)
                         /\ http3.written[s] + Owed(s) <= http3.queued[s]
    BY <1>7 DEF IInv, Accounts
<1>10. CASE result = "ok"
  <2>1. /\ http3.active /\ ~http3.terminal
        /\ http3' = [http3 EXCEPT !.written[o.stream] = @ + o.size]
        /\ UNCHANGED lost
      BY <1>1, <1>4, <1>10 DEF MarkOutputWritten, Http3RequireValid
  <2> DEFINE more == [http3.written EXCEPT ![o.stream] = @ + o.size]
  <2>2. more \in Counts /\ http3' = [http3 EXCEPT !.written = more]
      BY <1>4, <1>5, <2>1 DEF Counts
  <2>3. \A s \in Streams : more[s] = http3.written[s] + Owed(s) /\ more[s] \in Nat
      BY <1>4, <1>5, <1>6
  <2> HIDE DEF more
  <2>4. /\ http3' \in Http3Types /\ http3'.active = http3.active /\ http3'.dead = http3.dead
        /\ http3'.terminal = http3.terminal /\ http3'.queued = http3.queued
        /\ http3'.written = more /\ http3'.released = http3.released
        /\ http3'.closed = http3.closed
      BY <1>5, <2>2 DEF Http3Types
  <2>5. Http3Inv'
      BY <2>1, <2>4 DEF IInv, Http3Inv, Http3Types
  <2>6. DriverInv'
      BY <1>2, <1>8, <2>1 DEF IInv, DriverInv, DriverTypes
  <2>7. ASSUME NEW s \in Streams
        PROVE  /\ native'.accepted[s] = http3'.written[s] + lost'[s] + Owed(s)'
               /\ http3'.written[s] + Owed(s)' <= http3'.queued[s]
    <3>1. /\ native.accepted[s] = http3.written[s] + lost[s] + Owed(s)
          /\ http3.written[s] + Owed(s) <= http3.queued[s]
          /\ more[s] = http3.written[s] + Owed(s) /\ more[s] \in Nat
          /\ http3.written[s] \in Nat /\ lost[s] \in Nat /\ Owed(s) \in Nat /\ Owed(s)' = 0
        BY <1>4, <1>5, <1>6, <1>9, <2>3
    <3>2. /\ native'.accepted[s] = native.accepted[s] /\ http3'.written[s] = more[s]
          /\ lost'[s] = lost[s] /\ http3'.queued[s] = http3.queued[s]
        BY <1>2, <2>1, <2>4
    <3> QED BY <3>1, <3>2
  <2>8. Accounts'
      BY <1>2, <2>7 DEF IInv, Accounts
  <2>9. Backing'
      BY <1>2, <2>4 DEF IInv, Backing, Through, Share
  <2> QED BY <1>7, <2>5, <2>6, <2>8, <2>9 DEF IInv
<1>11. CASE result # "ok"
  <2>1. UNCHANGED http3 /\ lost' = [lost EXCEPT ![o.stream] = @ + o.size]
      BY <1>1, <1>4, <1>11 DEF MarkOutputWritten, Loses
  <2>2. lost' \in [Streams -> Nat] /\ \A s \in Streams : lost'[s] = lost[s] + Owed(s)
      BY <1>4, <1>5, <1>6, <2>1
  <2>3. Http3Inv' /\ Backing'
      BY <1>2, <2>1 DEF IInv, Http3Inv, Backing, Through, Share
  <2>4. DriverInv'
      BY <1>2, <1>7, <1>8, <2>1, <2>2 DEF IInv, DriverInv, DriverTypes, Counts
  <2>5. ASSUME NEW s \in Streams
        PROVE  /\ native'.accepted[s] = http3'.written[s] + lost'[s] + Owed(s)'
               /\ http3'.written[s] + Owed(s)' <= http3'.queued[s]
    <3>1. /\ native.accepted[s] = http3.written[s] + lost[s] + Owed(s)
          /\ http3.written[s] + Owed(s) <= http3.queued[s] /\ http3.queued[s] \in Nat
          /\ http3.written[s] \in Nat /\ lost[s] \in Nat /\ Owed(s) \in Nat /\ Owed(s)' = 0
        BY <1>4, <1>5, <1>6, <1>9
    <3> QED BY <1>2, <2>1, <2>2, <3>1
  <2>6. Accounts'
      BY <1>2, <2>5 DEF IInv, Accounts
  <2> QED BY <1>7, <2>3, <2>4, <2>6 DEF IInv
<1> QED BY <1>10, <1>11

LEMMA TransmitsStep ==
    ASSUME IInv, Transmits
    PROVE  IInv'
<1>1. /\ call = NoCall /\ packet' = FALSE /\ UNCHANGED <<http3, events, view, owed, opened, lost>>
      /\ quic' = [quic EXCEPT !.pending = FALSE] /\ UNCHANGED <<native, call, outcome>>
      /\ quic.active
    BY DEF Transmits, Ready, PacketTransmitted, QuicRequireValid
<1>2. /\ quic' \in Sessions /\ quic'.active = quic.active /\ quic'.pending = FALSE
      /\ quic'.terminal = quic.terminal /\ quic'.randomFailed = quic.randomFailed
    BY <1>1, Zenon DEF IInv, QuicInv, QuicTypes, Sessions
<1>3. QuicTypes'
    BY <1>1, <1>2 DEF IInv, QuicInv, QuicTypes
<1>4. QuicInv'
    BY <1>1, <1>2, <1>3 DEF IInv, QuicInv
<1>5. DriverInv' /\ Http3Inv'
    BY <1>1, <1>2, Zenon DEF IInv, DriverInv, DriverTypes, Http3Inv
<1>6. Accounts' /\ Backing'
    BY <1>1, <1>2 DEF IInv, Accounts, Owed, Backing, Through, Share
<1> QED BY <1>4, <1>5, <1>6 DEF IInv

\* The parts of the invariant that the event queue does not concern.
LEMMA EventsOnly ==
    ASSUME IInv, UNCHANGED <<http3, view, owed, packet, opened, lost>>,
           quic.active, quic'.active, quic'.pending = quic.pending,
           native'.accepted = native.accepted,
           call # NoCall, call.op # "write", call'.op = call.op, events' \in Seq(Events)
    PROVE  DriverInv' /\ Accounts' /\ Http3Inv'
<1>1. DriverTypes'
    BY DEF IInv, DriverInv, DriverTypes
<1>2. DriverInv'
    BY <1>1 DEF IInv, DriverInv
<1>3. Accounts' /\ Http3Inv'
    BY DEF IInv, Accounts, Owed, Http3Inv
<1> QED BY <1>2, <1>3

LEMMA DataAckedEventStep ==
    ASSUME IInv, NEW stream \in Streams, NEW n \in Nat,
           StreamDataAcked(stream, n, HasSpace),
           Queued(AckedEvent(stream, n)),
           UNCHANGED <<http3, view, owed, packet, opened, lost>>
    PROVE  IInv'
<1> DEFINE event == AckedEvent(stream, n)
<1>1. /\ QuicInv' /\ call # NoCall /\ call.op = "receive" /\ call'.op = call.op
      /\ quic.active /\ quic'.active /\ quic'.pending = quic.pending
      /\ native'.closed = native.closed /\ native'.accepted = native.accepted
      /\ native'.acked = [native.acked EXCEPT ![stream] = @ + n]
  <2>1. HasSpace \in BOOLEAN
      BY DEF HasSpace
  <2> HIDE DEF event
  <2> QED BY <2>1, DataAckedStep DEF IInv
<1>2. /\ event \in Events /\ event.kind = "acked" /\ event.stream = stream /\ event.size = n
    BY DEF AckedEvent, Events
<1>3. events' = IF HasSpace THEN Append(events, event) ELSE events
    BY DEF Queued
<1> HIDE DEF event
<1>4. events \in Seq(Events) /\ events' \in Seq(Events) /\ Len(events) \in Nat
    BY <1>2, <1>3 DEF IInv, DriverInv, DriverTypes
<1>5. DriverInv' /\ Accounts' /\ Http3Inv'
    BY <1>1, <1>4, EventsOnly
<1>6. native.acked \in [Streams -> Nat]
    BY DEF IInv, QuicInv, QuicTypes, Connections, Counts
<1>7. \A s \in Streams : native'.acked[s] = native.acked[s] + IF s = stream THEN n ELSE 0
    BY <1>1, <1>6
<1>8. PICK f : Through(f)
    BY <1>1 DEF IInv, Backing
<1>9. /\ http3.closed \subseteq native.closed
      /\ \A i \in 1 .. Len(events) :
            events[i].kind = "closed" => events[i].stream \in native.closed
    BY <1>1 DEF IInv, Backing
<1>10. f \in [1 .. Len(events) + 1 -> [Streams -> Nat]]
    BY <1>8 DEF Through, Counts
<1>11. CASE ~HasSpace
  <2>1. events' = events
      BY <1>3, <1>11
  <2>2. \A i \in 1 .. Len(events) + 1, s \in Streams : f[i][s] <= native'.acked[s]
    <3>1. ASSUME NEW i \in 1 .. Len(events) + 1, NEW s \in Streams
          PROVE  f[i][s] <= native'.acked[s]
      <4>1. f[i][s] \in Nat /\ native.acked[s] \in Nat /\ f[i][s] <= native.acked[s]
          BY <1>6, <1>8, <1>10 DEF Through
      <4> QED BY <1>7, <4>1
    <3> QED BY <3>1
  <2>3. Through(f)'
      BY <1>8, <2>1, <2>2 DEF Through, Share
  <2>4. Backing'
      BY <1>1, <1>9, <2>1, <2>3 DEF Backing
  <2> QED BY <1>1, <1>5, <2>4 DEF IInv
<1>12. CASE HasSpace
  <2>1. /\ events' = Append(events, event) /\ Len(events') = Len(events) + 1
        /\ \A i \in 1 .. Len(events) : events'[i] = events[i]
        /\ events'[Len(events) + 1] = event
      BY <1>2, <1>3, <1>4, <1>12
  <2> DEFINE last == [s \in Streams |-> f[Len(events) + 1][s] + IF s = stream THEN n ELSE 0]
  <2>0. PICK g : g = [i \in 1 .. Len(events) + 2 |-> IF i <= Len(events) + 1 THEN f[i] ELSE last]
      BY Zenon
  <2>2. last \in Counts
      BY <1>4, <1>10 DEF Counts
  <2>3. g \in [1 .. Len(events') + 1 -> Counts]
    <3>1. Len(events') + 1 = Len(events) + 2
        BY <1>4, <2>1
    <3>2. ASSUME NEW i \in 1 .. Len(events) + 2
          PROVE  (IF i <= Len(events) + 1 THEN f[i] ELSE last) \in Counts
        BY <1>4, <1>10, <2>2 DEF Counts
    <3> QED BY <2>0, <3>1, <3>2
  <2>4. /\ \A i \in 1 .. Len(events) + 1 : g[i] = f[i]
        /\ g[Len(events) + 2] = last
      BY <1>4, <2>0
  <2>5. \A s \in Streams : http3'.released[s] <= g[1][s]
      BY <1>4, <1>8, <2>4 DEF Through
  <2>6. ASSUME NEW i \in 1 .. Len(events'), NEW s \in Streams
        PROVE  g[i + 1][s] = g[i][s] + Share(events'[i], s)
    <3>1. CASE i \in 1 .. Len(events)
      <4>1. i + 1 \in 1 .. Len(events) + 1 /\ i \in 1 .. Len(events) + 1
          BY <1>4, <3>1
      <4>2. f[i + 1][s] = f[i][s] + Share(events[i], s)
          BY <1>8, <3>1 DEF Through
      <4>3. events'[i] = events[i]
          BY <2>1, <3>1
      <4> QED BY <2>4, <4>1, <4>2, <4>3
    <3>2. CASE i = Len(events) + 1
      <4>1. g[i + 1] = last /\ g[i] = f[i]
          BY <1>4, <2>4, <3>2
      <4>2. Share(events'[i], s) = IF s = stream THEN n ELSE 0
          BY <1>2, <2>1, <3>2 DEF Share
      <4> QED BY <3>2, <4>1, <4>2
    <3> QED BY <1>4, <2>1, <3>1, <3>2
  <2>7. ASSUME NEW i \in 1 .. Len(events') + 1, NEW s \in Streams
        PROVE  g[i][s] <= native'.acked[s]
    <3>1. \A j \in 1 .. Len(events) + 1 : f[j][s] \in Nat /\ f[j][s] <= native.acked[s]
        BY <1>8, <1>10 DEF Through
    <3>2. native.acked[s] \in Nat
        BY <1>6
    <3>3. CASE i \in 1 .. Len(events) + 1
        BY <1>7, <2>4, <3>1, <3>2, <3>3
    <3>4. CASE i = Len(events) + 2
      <4>1. g[i][s] = f[Len(events) + 1][s] + IF s = stream THEN n ELSE 0
          BY <2>4, <3>4
      <4>2. Len(events) + 1 \in 1 .. Len(events) + 1
          BY <1>4
      <4> QED BY <1>7, <3>1, <3>2, <4>1, <4>2
    <3> QED BY <1>4, <2>1, <3>3, <3>4
  <2>8. Through(g)'
      BY <2>3, <2>5, <2>6, <2>7 DEF Through, Share
  <2>9. \A i \in 1 .. Len(events') :
           events'[i].kind = "closed" => events'[i].stream \in native'.closed
      BY <1>1, <1>2, <1>4, <1>9, <2>1
  <2>10. Backing'
      BY <1>1, <1>9, <2>8, <2>9 DEF Backing
  <2> QED BY <1>1, <1>5, <2>10 DEF IInv
<1> QED BY <1>11, <1>12

LEMMA ClosedEventStep ==
    ASSUME IInv, NEW stream \in Streams, StreamClosed(stream, HasSpace),
           Queued(ClosedEvent(stream)),
           UNCHANGED <<http3, view, owed, packet, opened, lost>>
    PROVE  IInv'
<1> DEFINE event == ClosedEvent(stream)
<1>1. /\ QuicInv' /\ call # NoCall /\ call.op \in {"receive", "expiry"} /\ call'.op = call.op
      /\ quic.active /\ quic'.active /\ quic'.pending = quic.pending
      /\ native'.closed = native.closed \cup {stream} /\ native'.accepted = native.accepted
      /\ native'.acked = native.acked
  <2>1. HasSpace \in BOOLEAN
      BY DEF HasSpace
  <2> HIDE DEF event
  <2> QED BY <2>1, ClosedStep DEF IInv
<1>2. event \in Events /\ event.kind = "closed" /\ event.stream = stream
    BY DEF ClosedEvent, Events
<1>3. events' = IF HasSpace THEN Append(events, event) ELSE events
    BY DEF Queued
<1> HIDE DEF event
<1>4. events \in Seq(Events) /\ events' \in Seq(Events) /\ Len(events) \in Nat
    BY <1>2, <1>3 DEF IInv, DriverInv, DriverTypes
<1>5. DriverInv' /\ Accounts' /\ Http3Inv'
    BY <1>1, <1>4, EventsOnly
<1>6. PICK f : Through(f)
    BY <1>1 DEF IInv, Backing
<1>7. /\ http3.closed \subseteq native.closed
      /\ \A i \in 1 .. Len(events) :
            events[i].kind = "closed" => events[i].stream \in native.closed
    BY <1>1 DEF IInv, Backing
<1>8. f \in [1 .. Len(events) + 1 -> [Streams -> Nat]]
    BY <1>6 DEF Through, Counts
<1>9. CASE ~HasSpace
  <2>1. events' = events
      BY <1>3, <1>9
  <2>2. Through(f)'
      BY <1>1, <1>6, <2>1 DEF Through, Share
  <2>3. Backing'
      BY <1>1, <1>7, <2>1, <2>2 DEF Backing
  <2> QED BY <1>1, <1>5, <2>3 DEF IInv
<1>10. CASE HasSpace
  <2>1. /\ events' = Append(events, event) /\ Len(events') = Len(events) + 1
        /\ \A i \in 1 .. Len(events) : events'[i] = events[i]
        /\ events'[Len(events) + 1] = event
      BY <1>2, <1>3, <1>4, <1>10
  <2>0. PICK g : g = [i \in 1 .. Len(events) + 2 |->
                       IF i <= Len(events) + 1 THEN f[i] ELSE f[Len(events) + 1]]
      BY Zenon
  <2>2. g \in [1 .. Len(events') + 1 -> Counts]
    <3>1. Len(events') + 1 = Len(events) + 2 /\ Len(events) + 1 \in 1 .. Len(events) + 1
        BY <1>4, <2>1
    <3>2. ASSUME NEW i \in 1 .. Len(events) + 2
          PROVE  (IF i <= Len(events) + 1 THEN f[i] ELSE f[Len(events) + 1]) \in Counts
        BY <1>4, <1>8, <3>1 DEF Counts
    <3> QED BY <2>0, <3>1, <3>2
  <2>3. /\ \A i \in 1 .. Len(events) + 1 : g[i] = f[i]
        /\ g[Len(events) + 2] = f[Len(events) + 1]
      BY <1>4, <2>0
  <2>4. \A s \in Streams : http3'.released[s] <= g[1][s]
      BY <1>4, <1>6, <2>3 DEF Through
  <2>5. ASSUME NEW i \in 1 .. Len(events'), NEW s \in Streams
        PROVE  g[i + 1][s] = g[i][s] + Share(events'[i], s)
    <3>1. CASE i \in 1 .. Len(events)
      <4>1. i + 1 \in 1 .. Len(events) + 1 /\ i \in 1 .. Len(events) + 1
          BY <1>4, <3>1
      <4>2. f[i + 1][s] = f[i][s] + Share(events[i], s)
          BY <1>6, <3>1 DEF Through
      <4>3. events'[i] = events[i]
          BY <2>1, <3>1
      <4> QED BY <2>3, <4>1, <4>2, <4>3
    <3>2. CASE i = Len(events) + 1
      <4>1. g[i + 1] = f[i] /\ g[i] = f[i] /\ f[i][s] \in Nat
          BY <1>4, <1>8, <2>3, <3>2
      <4>2. Share(events'[i], s) = 0
          BY <1>2, <2>1, <3>2 DEF Share
      <4> QED BY <4>1, <4>2
    <3> QED BY <1>4, <2>1, <3>1, <3>2
  <2>6. ASSUME NEW i \in 1 .. Len(events') + 1, NEW s \in Streams
        PROVE  g[i][s] <= native'.acked[s]
    <3>1. \A j \in 1 .. Len(events) + 1 : f[j][s] <= native'.acked[s]
        BY <1>1, <1>6 DEF Through
    <3>2. CASE i \in 1 .. Len(events) + 1
        BY <2>3, <3>1, <3>2
    <3>3. CASE i = Len(events) + 2
        BY <1>4, <2>3, <3>1, <3>3
    <3> QED BY <1>4, <2>1, <3>2, <3>3
  <2>7. Through(g)'
      BY <2>2, <2>4, <2>5, <2>6 DEF Through, Share
  <2>8. \A i \in 1 .. Len(events') :
           events'[i].kind = "closed" => events'[i].stream \in native'.closed
      BY <1>1, <1>2, <1>4, <1>7, <2>1
  <2>9. Backing'
      BY <1>1, <1>7, <2>7, <2>8 DEF Backing
  <2> QED BY <1>1, <1>5, <2>9 DEF IInv
<1> QED BY <1>9, <1>10

LEMMA StreamEventStep ==
    ASSUME IInv, StreamEvent
    PROVE  IInv'
<1>1. native.open \subseteq Streams
    BY DEF IInv, QuicInv, QuicTypes, Connections
<1>2. ASSUME NEW s \in native.open, NEW n \in 1 .. native.accepted[s] - native.acked[s],
             StreamDataAcked(s, n, HasSpace), Queued(AckedEvent(s, n))
      PROVE  IInv'
  <2>1. s \in Streams /\ native.accepted[s] \in Nat /\ native.acked[s] \in Nat
      BY <1>1 DEF IInv, QuicInv, QuicTypes, Connections, Counts
  <2>2. n \in Nat
      BY <2>1
  <2> QED BY <1>2, <2>1, <2>2, DataAckedEventStep DEF StreamEvent
<1>3. ASSUME NEW s \in native.open, StreamClosed(s, HasSpace), Queued(ClosedEvent(s))
      PROVE  IInv'
    BY <1>1, <1>3, ClosedEventStep, Zenon DEF StreamEvent
<1> QED BY <1>2, <1>3 DEF StreamEvent

\* What the head of the queue does to HTTP/3.
LEMMA AppliedEvent ==
    ASSUME Http3Inv, NEW event \in Events, NEW result,
           IF event.kind = "acked" THEN AcknowledgeStreamData(event.stream, event.size, result)
           ELSE CloseStream(event.stream, result)
    PROVE  /\ Http3Inv'
           /\ http3'.queued = http3.queued /\ http3'.written = http3.written
           /\ \A s \in Streams : http3'.released[s] <= http3.released[s] + Share(event, s)
           /\ http3'.closed \subseteq http3.closed \cup
                 (IF event.kind = "closed" THEN {event.stream} ELSE {})
<1>1. /\ http3 \in Http3Types /\ http3.released \in [Streams -> Nat] /\ http3.closed \subseteq Streams
      /\ event.kind \in {"acked", "closed"} /\ event.stream \in Streams /\ event.size \in Nat
    BY DEF Http3Inv, Http3Types, Counts, Events
<1>2. CASE UNCHANGED http3
  <2>1. ASSUME NEW s \in Streams PROVE http3.released[s] <= http3.released[s] + Share(event, s)
      BY <1>1 DEF Share
  <2> QED BY <1>2, <2>1 DEF Http3Inv
<1>3. CASE /\ event.kind = "acked" /\ Http3RequireValid
           /\ http3' = [http3 EXCEPT !.released[event.stream] = @ + event.size]
  <2> DEFINE more == [http3.released EXCEPT ![event.stream] = @ + event.size]
  <2>1. more \in Counts /\ http3' = [http3 EXCEPT !.released = more]
      BY <1>1, <1>3 DEF Counts
  <2>2. \A s \in Streams : more[s] <= http3.released[s] + Share(event, s)
      BY <1>1, <1>3 DEF Share
  <2> HIDE DEF more
  <2>3. /\ http3' \in Http3Types /\ http3'.active = http3.active /\ http3'.dead = http3.dead
        /\ http3'.terminal = http3.terminal /\ http3'.queued = http3.queued
        /\ http3'.written = http3.written /\ http3'.released = more
        /\ http3'.closed = http3.closed
      BY <1>1, <2>1 DEF Http3Types
  <2> QED BY <1>3, <2>2, <2>3, Zenon DEF Http3Inv, Http3Types, Http3RequireValid
<1>4. CASE /\ event.kind = "closed" /\ Http3RequireValid
           /\ http3' = [http3 EXCEPT !.closed = @ \cup {event.stream}]
  <2>1. /\ http3' \in Http3Types /\ http3'.active = http3.active /\ http3'.dead = http3.dead
        /\ http3'.terminal = http3.terminal /\ http3'.queued = http3.queued
        /\ http3'.written = http3.written /\ http3'.released = http3.released
        /\ http3'.closed = http3.closed \cup {event.stream}
      BY <1>1, <1>4 DEF Http3Types
  <2>2. ASSUME NEW s \in Streams PROVE http3.released[s] <= http3.released[s] + Share(event, s)
      BY <1>1 DEF Share
  <2> QED BY <1>4, <2>1, <2>2 DEF Http3Inv, Http3Types, Http3RequireValid
<1> QED BY <1>1, <1>2, <1>3, <1>4 DEF AcknowledgeStreamData, CloseStream

LEMMA AppliesEventStep ==
    ASSUME IInv, AppliesEvent
    PROVE  IInv'
<1> DEFINE event == Head(events)
<1>1. /\ call = NoCall /\ events # <<>> /\ events' = Tail(events)
      /\ UNCHANGED <<quic, native, call, outcome>>
      /\ UNCHANGED <<view, owed, packet, opened, lost>>
      /\ \E result \in Replies :
            IF event.kind = "acked" THEN AcknowledgeStreamData(event.stream, event.size, result)
            ELSE CloseStream(event.stream, result)
    BY DEF AppliesEvent, Ready, quicVars
<1>2. /\ events \in Seq(Events) /\ Len(events) \in Nat /\ Len(events) >= 1
      /\ event \in Events /\ event = events[1] /\ events' \in Seq(Events)
      /\ Len(events') = Len(events) - 1
      /\ \A i \in 1 .. Len(events) - 1 : events'[i] = events[i + 1]
    BY <1>1 DEF IInv, DriverInv, DriverTypes
<1> HIDE DEF event
<1>3. /\ Http3Inv'
      /\ http3'.queued = http3.queued /\ http3'.written = http3.written
      /\ \A s \in Streams : http3'.released[s] <= http3.released[s] + Share(event, s)
      /\ http3'.closed \subseteq http3.closed \cup
            (IF event.kind = "closed" THEN {event.stream} ELSE {})
    BY <1>1, <1>2, AppliedEvent DEF IInv
<1>4. call.op # "write"
    BY <1>1 DEF NoCall
<1>5. quic.active
    BY <1>1 DEF IInv, DriverInv
<1>6. QuicInv'
    BY <1>1 DEF IInv, QuicInv, QuicTypes
<1>7. DriverInv'
    BY <1>1, <1>2, <1>4, <1>5 DEF IInv, DriverInv, DriverTypes
<1>8. Accounts'
    BY <1>1, <1>3 DEF IInv, Accounts, Owed
<1>9. PICK f : Through(f)
    BY <1>5 DEF IInv, Backing
<1>10. f \in [1 .. Len(events) + 1 -> [Streams -> Nat]]
    BY <1>9 DEF Through, Counts
<1>11. PICK g : g = [i \in 1 .. Len(events) |-> f[i + 1]]
    BY Zenon
<1>12. Through(g)'
  <2>1. g \in [1 .. Len(events') + 1 -> Counts]
    <3>1. Len(events') + 1 = Len(events)
        BY <1>2
    <3>2. ASSUME NEW i \in 1 .. Len(events) PROVE f[i + 1] \in Counts
      <4>1. Len(events) \in Nat
          BY <3>1, <1>2
      <4>2. i + 1 \in 1 .. Len(events) + 1
          BY <4>1
      <4> QED BY <1>10, <4>2 DEF Counts
    <3> QED BY <1>11, <3>1, <3>2
  <2>2. ASSUME NEW s \in Streams PROVE http3'.released[s] <= g[1][s]
    <3>1. http3.released[s] <= f[1][s] /\ f[2][s] = f[1][s] + Share(event, s)
        BY <1>2, <1>9 DEF Through
    <3>2. http3'.released[s] <= http3.released[s] + Share(event, s)
        BY <1>3
    <3>3. http3.released[s] \in Nat /\ http3'.released[s] \in Nat
        BY <1>3 DEF IInv, Http3Inv, Counts
    <3>4. Share(event, s) \in Nat
        BY <1>2 DEF Share, Events
    <3>6. f[1][s] \in Nat
      <4>1. 1 \in 1 .. Len(events) + 1
          BY <1>2
      <4> QED BY <1>10, <4>1
    <3>5. g[1] = f[2]
        BY <1>2, <1>11
    <3> QED BY <3>1, <3>2, <3>3, <3>4, <3>5, <3>6
  <2>3. ASSUME NEW i \in 1 .. Len(events'), NEW s \in Streams
        PROVE  g[i + 1][s] = g[i][s] + Share(events'[i], s)
    <3>1. i \in 1 .. Len(events) - 1 /\ i + 1 \in 1 .. Len(events) /\ i \in 1 .. Len(events)
        BY <1>2
    <3>2. g[i + 1] = f[i + 2] /\ g[i] = f[i + 1] /\ events'[i] = events[i + 1]
        BY <1>2, <1>11, <3>1
    <3>3. f[i + 2][s] = f[i + 1][s] + Share(events[i + 1], s)
      <4>1. \A j \in 1 .. Len(events) : f[j + 1][s] = f[j][s] + Share(events[j], s)
          BY <1>9 DEF Through
      <4>2. (i + 1) + 1 = i + 2
          BY <3>1
      <4> QED BY <3>1, <4>1, <4>2
    <3> QED BY <3>2, <3>3
  <2>4. ASSUME NEW i \in 1 .. Len(events') + 1, NEW s \in Streams
        PROVE  g[i][s] <= native'.acked[s]
    <3>1. i + 1 \in 1 .. Len(events) + 1 /\ g[i] = f[i + 1]
        BY <1>2, <1>11
    <3> QED BY <1>1, <1>9, <3>1 DEF Through
  <2> QED BY <2>1, <2>2, <2>3, <2>4 DEF Through, Share
<1>13. Backing'
  <2>1. /\ http3.closed \subseteq native.closed
        /\ \A i \in 1 .. Len(events) :
              events[i].kind = "closed" => events[i].stream \in native.closed
      BY <1>5 DEF IInv, Backing
  <2>2. http3'.closed \subseteq native'.closed
      BY <1>1, <1>2, <1>3, <2>1
  <2>3. \A i \in 1 .. Len(events') :
           events'[i].kind = "closed" => events'[i].stream \in native'.closed
    <3>1. ASSUME NEW i \in 1 .. Len(events')
          PROVE  i + 1 \in 1 .. Len(events) /\ events'[i] = events[i + 1]
        BY <1>2
    <3> QED BY <1>1, <2>1, <3>1
  <2> QED BY <1>12, <2>2, <2>3 DEF Backing
<1> QED BY <1>3, <1>6, <1>7, <1>8, <1>13 DEF IInv

LEMMA CreateSessionsStep ==
    ASSUME IInv, CreateSessions
    PROVE  IInv'
<1>1. ASSUME NEW result, NEW randomOk \in BOOLEAN, QuicCreate(result, randomOk),
             ~http3.active, UNCHANGED <<http3, driverVars>>
      PROVE  IInv'
  <2>1. UNCHANGED <<http3, events, view, owed, packet, opened, lost>>
      BY <1>1 DEF driverVars
  <2>2. /\ QuicInv' /\ ~quic.active /\ UNCHANGED <<native, call, outcome>>
        /\ UNCHANGED quic \/ (quic'.active /\ ~quic'.pending)
      BY <1>1, CreateQuic DEF IInv
  <2>3. /\ http3 = None /\ events = <<>> /\ packet = FALSE /\ owed = <<>> /\ call = NoCall
        /\ quic = Inactive /\ native = NoConnection /\ view = <<>> /\ lost = NothingLost
      BY <1>1, <2>2 DEF IInv, Http3Inv, DriverInv, QuicInv
  <2>4. DriverInv' /\ Http3Inv'
    <3>1. call.op # "write"
        BY <2>3 DEF NoCall
    <3> QED BY <2>1, <2>2, <2>3, <3>1 DEF IInv, DriverInv, DriverTypes, Http3Inv
  <2>5. quic'.pending <=> quic.pending
      BY <2>2, <2>3 DEF Inactive
  <2>6. Accounts'
    <3>1. \A s \in Streams : /\ native'.accepted[s] = 0 /\ http3'.written[s] = 0
                             /\ http3'.queued[s] = 0 /\ lost'[s] = 0 /\ Owed(s)' = 0
        BY <2>1, <2>2, <2>3 DEF None, NoConnection, NothingLost, Owed
    <3> QED BY <2>1, <2>2, <2>5, <3>1 DEF IInv, Accounts
  <2>7. Backing'
    <3>1. PICK f : f = [i \in 1 .. 1 |-> [s \in Streams |-> 0]]
        BY Zenon
    <3>2. http3'.closed = {} /\ http3'.released = [s \in Streams |-> 0]
        BY <2>1, <2>3 DEF None
    <3>3. native'.acked = [s \in Streams |-> 0]
        BY <2>2, <2>3 DEF NoConnection
    <3>4. Len(events') = 0
        BY <2>1, <2>3
    <3>5. f \in [1 .. 1 -> Counts] /\ \A s \in Streams : f[1][s] = 0
        BY <3>1 DEF Counts
    <3>6. Through(f)'
        BY <3>2, <3>3, <3>4, <3>5 DEF Through
    <3> QED BY <3>2, <3>4, <3>6 DEF Backing
  <2> QED BY <2>2, <2>4, <2>6, <2>7 DEF IInv
<1>2. ASSUME NEW result, quic.active, Ready, Http3Create(result), UNCHANGED <<quicVars, driverVars>>
      PROVE  IInv'
  <2>1. UNCHANGED <<quic, native, call, outcome, events, view, owed, packet, opened, lost>>
      BY <1>2 DEF quicVars, driverVars
  <2>2. /\ ~http3.active /\ http3 = None
        /\ UNCHANGED http3 \/ http3' = [None EXCEPT !.active = TRUE]
      BY <1>2 DEF Http3Create, IInv, Http3Inv
  <2>3. Http3Inv' /\ KeepsBytes
    <3>1. CASE UNCHANGED http3
        BY <3>1, Http3Keeps DEF IInv
    <3>2. CASE http3' = [None EXCEPT !.active = TRUE]
      <4>1. /\ http3' \in Http3Types /\ http3'.active /\ ~http3'.dead
            /\ http3'.queued = http3.queued /\ http3'.written = http3.written
            /\ http3'.released = http3.released /\ http3'.closed = http3.closed
          BY <2>2, <3>2, NoneType, Zenon DEF Http3Types
      <4>2. \A s \in Streams : http3.queued[s] <= http3.queued[s]
          BY DEF IInv, Http3Inv, Counts
      <4> QED BY <4>1, <4>2 DEF Http3Inv, Http3Types, KeepsBytes
    <3> QED BY <2>2, <3>1, <3>2
  <2>4. QuicInv'
      BY <2>1 DEF IInv, QuicInv, QuicTypes
  <2>5. call = NoCall /\ call'.op # "write"
      BY <1>2, <2>1 DEF Ready, NoCall
  <2> QED BY <2>1, <2>3, <2>4, <2>5, PassiveStep, Zenon DEF IInv, DriverInv, DriverTypes
<1> QED BY <1>1, <1>2 DEF CreateSessions, Bool

LEMMA ReleasesStep ==
    ASSUME IInv, Releases
    PROVE  IInv'
<1>1. NoCall.op = "none" /\ ~Inactive.active /\ ~NoConnection.dead /\ ~Inactive.randomFailed
    BY DEF NoCall, Inactive, NoConnection
<1>2. NoConnection \in Connections /\ Inactive \in Sessions
  <2>1. [s \in Streams |-> 0] \in Counts
      BY DEF Counts
  <2> QED BY <2>1 DEF NoConnection, Connections, Inactive, Sessions
<1>3. \A s \in Streams : NoConnection.accepted[s] = 0
    BY DEF NoConnection
<1>4. http3.queued \in [Streams -> Nat] /\ http3.written \in [Streams -> Nat]
    BY DEF IInv, Http3Inv, Counts
<1>7. NothingLost \in Counts /\ \A s \in Streams : NothingLost[s] = 0
    BY DEF NothingLost, Counts
<1>5. CASE /\ QuicRelease /\ UNCHANGED http3
           /\ view' = <<>> /\ owed' = <<>> /\ events' = <<>> /\ packet' = FALSE
           /\ opened' = {} /\ lost' = NothingLost
  <2>1. /\ call = NoCall /\ quic' = Inactive /\ native' = NoConnection
        /\ UNCHANGED call /\ outcome' = NoOutcome
      BY <1>5 DEF QuicRelease
  <2>0. /\ outcome' \in Outcomes /\ outcome'.failed = FALSE
        /\ outcome'.reported = FALSE /\ outcome'.deserved = FALSE
      BY <2>1 DEF NoOutcome, Outcomes
  <2>2. QuicTypes'
      BY <1>2, <2>0, <2>1 DEF IInv, QuicInv, QuicTypes
  <2>3. QuicInv'
    <3>1. NoConnection.open = {}
        BY DEF NoConnection
    <3> QED BY <1>1, <2>0, <2>1, <2>2, <3>1 DEF IInv, QuicInv
  <2>4. DriverInv'
    <3>1. events' \in Seq(Events)
        BY <1>5
    <3>2. DriverTypes'
        BY <1>5, <1>7, <3>1, Zenon DEF DriverTypes
    <3> QED BY <1>1, <1>5, <2>1, <3>2 DEF DriverInv
  <2>5. Http3Inv' /\ Backing'
      BY <1>1, <1>5, <2>1, Zenon DEF IInv, Http3Inv, Backing
  <2>6. Accounts'
    <3>1. \A s \in Streams : http3.written[s] <= http3.queued[s] /\ Owed(s)' = 0
      <4>1. ASSUME NEW s \in Streams
            PROVE  http3.written[s] <= http3.queued[s]
        <5>1. http3.written[s] + Owed(s) <= http3.queued[s] /\ Owed(s) \in Nat
            BY DEF IInv, Accounts, DriverInv, DriverTypes, Owed
        <5> QED BY <1>4, <5>1
      <4> QED BY <1>5, <4>1 DEF Owed
    <3>2. ~Inactive.pending
        BY DEF Inactive
    <3>3. \A s \in Streams : http3'.written[s] + Owed(s)' <= http3'.queued[s]
        BY <1>4, <1>5, <3>1
    <3> QED BY <1>1, <1>5, <2>1, <3>2, <3>3 DEF Accounts
  <2> QED BY <2>3, <2>4, <2>5, <2>6 DEF IInv
<1>6. CASE ~quic.active /\ Http3Release /\ UNCHANGED <<quicVars, driverVars>>
  <2>1. /\ UNCHANGED <<quic, native, call, outcome>>
        /\ UNCHANGED <<events, view, owed, packet, opened, lost>>
      BY <1>6 DEF quicVars, driverVars
  <2>2. /\ quic = Inactive /\ native = NoConnection /\ call = NoCall
        /\ events = <<>> /\ view = <<>> /\ owed = <<>> /\ packet = FALSE
      BY <1>6 DEF IInv, QuicInv, DriverInv
  <2>3. http3' = None
      BY <1>6 DEF Http3Release
  <2>4. QuicInv'
      BY <2>1 DEF IInv, QuicInv, QuicTypes
  <2>5. Http3Inv'
      BY <2>3, NoneType DEF Http3Inv, Http3Types
  <2>6. DriverInv'
      BY <1>1, <2>1, <2>2 DEF IInv, DriverInv, DriverTypes
  <2>7. Accounts'
    <3>1. \A s \in Streams : None.queued[s] = 0 /\ None.written[s] = 0
        BY DEF None
    <3>2. \A s \in Streams : Owed(s)' = 0
        BY <2>1, <2>2 DEF Owed
    <3>3. Inactive.pending = FALSE
        BY DEF Inactive
    <3> QED BY <1>1, <2>1, <2>2, <2>3, <3>1, <3>2, <3>3 DEF Accounts
  <2>8. Backing'
      BY <1>1, <2>1, <2>2 DEF Backing
  <2> QED BY <2>4, <2>5, <2>6, <2>7, <2>8 DEF IInv
<1> QED BY <1>5, <1>6, Zenon DEF Releases

-----------------------------------------------------------------------------
(* The invariant is inductive.                                             *)

LEMMA InitInv == Init => IInv
<1> SUFFICES ASSUME Init PROVE IInv
    OBVIOUS
<1>1. /\ quic = Inactive /\ native = NoConnection /\ call = NoCall
      /\ outcome = NoOutcome /\ opened = {} /\ lost = NothingLost
      /\ http3 = None /\ events = <<>> /\ view = <<>> /\ owed = <<>>
      /\ packet = FALSE
    BY DEF Init, QuicInit, Http3Init
<1>2. [s \in Streams |-> 0] \in Counts
    BY DEF Counts
<1>3. NoConnection \in Connections /\ Inactive \in Sessions /\ NoCall.op = "none"
    BY <1>2 DEF NoConnection, Connections, Inactive, Sessions, NoCall
<1>4. QuicTypes /\ outcome.failed = FALSE /\ outcome.reported = outcome.deserved
    BY <1>1, <1>3 DEF QuicTypes, Outcomes, NoOutcome
<1>5. QuicInv
    BY <1>1, <1>3, <1>4, Zenon DEF QuicInv, NoConnection, Inactive
<1>6. Http3Inv
    BY <1>1, NoneType DEF Http3Inv, Http3Types
<1>7. DriverInv
  <2>1. events \in Seq(Events)
      BY <1>1
  <2>2. lost \in Counts /\ opened \subseteq Streams
      BY <1>1, <1>2 DEF NothingLost
  <2> QED BY <1>1, <1>3, <2>1, <2>2, Zenon DEF DriverInv, DriverTypes
<1>8. Accounts
    BY <1>1 DEF Accounts, Owed, None, Inactive
<1>9. Backing
    BY <1>1 DEF Backing, Inactive
<1> QED BY <1>5, <1>6, <1>7, <1>8, <1>9 DEF IInv

LEMMA NextInv == IInv /\ [Next]_vars => IInv'
<1> SUFFICES ASSUME IInv, [Next]_vars PROVE IInv'
    OBVIOUS
<1>1. CASE CreateSessions \/ OpensStream \/ Submits \/ Writes \/ MarksWritten \/ Transmits
    BY <1>1, CreateSessionsStep, OpensStreamStep, SubmitsStep, WritesStep, MarksWrittenStep,
       TransmitsStep
<1>2. CASE Receives \/ OwnCallback \/ StreamData \/ StreamEvent
    BY <1>2, ReceivesStep, OwnCallbackStep, StreamDataStep, StreamEventStep
<1>3. CASE \E result \in Results : ReceiveEnds(result) \/ OpenEnds(result)
    BY <1>3, EndsStep
<1>4. CASE \E result \in Results \cup {"idle_close"} : ExpiryEnds(result)
    BY <1>4, EndsStep
<1>5. CASE /\ call.op = "write"
           /\ \E result \in Results, n \in 0 .. call.offered, made \in Bool :
                WriteEnds(result, n, made)
    BY <1>5, WriteEndsStep DEF Bool
<1>6. CASE AppliesEvent \/ Abandons \/ Releases
    BY <1>6, AppliesEventStep, AbandonsStep, ReleasesStep
<1>7. CASE UNCHANGED vars
  <2>1. /\ UNCHANGED <<quic, native, call, outcome>> /\ UNCHANGED http3
        /\ UNCHANGED <<events, view, owed, packet, opened, lost>>
      BY <1>7 DEF vars, quicVars, driverVars
  <2>2. QuicInv'
      BY <2>1, Zenon DEF IInv, QuicInv, QuicTypes
  <2> QED BY <2>1, <2>2, Http3Keeps, PassiveStep, Zenon DEF IInv, DriverInv, DriverTypes
<1> QED BY <1>1, <1>2, <1>3, <1>4, <1>5, <1>6, <1>7 DEF Next

LEMMA Invariance == Spec => []IInv
BY InitInv, NextInv, PTL DEF Spec

-----------------------------------------------------------------------------
(* The results.                                                            *)

\* QuicSession's calls report an error exactly when a callback failed, random
\* bytes were missing or the library had a reason of its own, the flag of a
\* missing random byte is never left for a later call (require_random), and after
\* a failed callback there is no later call (the terminal flag).
THEOREM CallsReportFailures == Spec => []FailuresReported
<1>1. IInv => FailuresReported
    BY DEF IInv, QuicInv, FailuresReported
<1> QED BY <1>1, Invariance, PTL

\* write_packet's stream_bytes, mark_output_written and packet_transmitted keep
\* the two layers in step, but for the bytes that a call took and then failed.
THEOREM LayersInStep == Spec => []CallerInformed
<1>1. IInv => CallerInformed
    BY DEF IInv, Accounts, Owed, CallerInformed
<1> QED BY <1>1, Invariance, PTL

\* Every byte QUIC may have to send again is held by HTTP/3, however the events
\* queue up, are refused or come late.
THEOREM NothingReleasedEarly == Spec => []RetransmissionBacked
<1>1. IInv => RetransmissionBacked
  <2> SUFFICES ASSUME IInv, quic.active, NEW s \in native.open \ native.reset, lost[s] = 0,
                      NEW byte \in native.acked[s] + 1 .. native.accepted[s]
               PROVE  Holds(s, byte)
      BY DEF RetransmissionBacked
  <2>1. s \in Streams /\ s \notin native.closed
      BY DEF IInv, QuicInv, QuicTypes, Connections
  <2>2. PICK f : Through(f)
      BY DEF IInv, Backing
  <2>3. /\ native.acked[s] \in Nat /\ native.accepted[s] \in Nat
        /\ http3.released[s] \in Nat /\ http3.queued[s] \in Nat
      BY <2>1 DEF IInv, QuicInv, QuicTypes, Connections, Http3Inv, Counts
  <2>4. http3.released[s] <= f[1][s] /\ f[1][s] <= native.acked[s] /\ f[1][s] \in Nat
    <3>1. events \in Seq(Events)
        BY DEF IInv, DriverInv, DriverTypes
    <3>2. 1 \in 1 .. Len(events) + 1
        BY <3>1
    <3> QED BY <2>1, <2>2, <3>2 DEF Through, Counts
  <2>5. native.accepted[s] <= http3.queued[s]
    <3>1. /\ native.accepted[s] = http3.written[s] + lost[s] + Owed(s)
          /\ http3.written[s] + Owed(s) <= http3.queued[s]
        BY <2>1 DEF IInv, Accounts
    <3>2. http3.written[s] \in Nat /\ Owed(s) \in Nat
        BY <2>1 DEF IInv, Http3Inv, Counts, DriverInv, DriverTypes, Owed
    <3> QED BY <3>1, <3>2
  <2>6. byte \in http3.released[s] + 1 .. http3.queued[s] /\ http3.queued[s] # 0
      BY <2>3, <2>4, <2>5
  <2>7. http3.active
    <3>1. None.queued[s] = 0
        BY <2>1 DEF None
    <3> QED BY <2>6, <3>1 DEF IInv, Http3Inv
  <2>8. s \notin http3.closed
      BY <2>1 DEF IInv, Backing
  <2> QED BY <2>6, <2>7, <2>8 DEF Holds
<1> QED BY <1>1, Invariance, PTL

\* A connection that ngtcp2 or nghttp3 has given up is neither entered nor changed
\* again: it is only destroyed (require_valid of both sessions).
THEOREM DeadStaysOut == Spec => DeadNotEntered
<1> DEFINE Left == /\ native.dead => UNCHANGED <<quic, native, call>> \/ quic' = Inactive
                   /\ http3.dead => UNCHANGED http3 \/ http3' = None
<1>1. ASSUME IInv, Next, native.dead
      PROVE  UNCHANGED <<quic, native, call>> \/ quic' = Inactive
  <2>1. quic.terminal /\ call = NoCall /\ quic.active
    <3>1. quic.terminal /\ (call # NoCall => ~quic.terminal) /\ (~quic.active => quic = Inactive)
        BY <1>1, Zenon DEF IInv, QuicInv
    <3> QED BY <3>1 DEF Inactive
  <2>2. ~QuicRequireValid /\ call.op = "none"
      BY <2>1 DEF QuicRequireValid, NoCall
  <2>3. CASE OpensStream \/ Writes \/ Receives \/ Transmits \/ Abandons
      BY <2>2, <2>3 DEF OpensStream, OpenStream, Writes, WritePacket, Receives, ReceivePacket,
         HandleExpiry, Enter, Transmits, PacketTransmitted, Abandons, ResetStream, StopSending,
         quicVars
  <2>4. CASE CreateSessions \/ Submits \/ MarksWritten \/ AppliesEvent \/ Releases
      BY <2>1, <2>4 DEF CreateSessions, QuicCreate, Submits, MarksWritten, AppliesEvent, Releases,
         QuicRelease, quicVars
  <2>5. CASE OwnCallback \/ StreamData \/ StreamEvent
      BY <2>2, <2>5 DEF OwnCallback, StreamData, StreamEvent, Callback, RandomFill,
         PathChallenge, StartCrypto, RecvRetry, VersionNegotiation, UpdateKey, Protect, EmitEvent,
         PeerStops, NewConnectionId, RecvCrypto, InstallApplication, StreamDataAcked,
         StreamClosed
  <2>6. CASE \E result \in Results \cup {"idle_close"} :
               ReceiveEnds(result) \/ OpenEnds(result) \/ ExpiryEnds(result)
      BY <2>2, <2>6 DEF ReceiveEnds, OpenEnds, ExpiryEnds, ReceiveReturns, OpenReturns,
         ExpiryReturns, MayReturn
  <2>7. CASE call.op = "write"
      BY <2>2, <2>7
  <2> QED BY <1>1, <2>3, <2>4, <2>5, <2>6, <2>7 DEF Next
<1>2. ASSUME IInv, Next PROVE http3.dead => UNCHANGED http3 \/ http3' = None
  <2> SUFFICES ASSUME http3.dead, http3' # http3 PROVE http3' = None
      OBVIOUS
  <2>1. http3.terminal /\ http3.active
      BY <1>2, NoneType DEF IInv, Http3Inv
  <2>2. ~Http3RequireValid
      BY <2>1 DEF Http3RequireValid
  <2>3. CASE CreateSessions \/ OpensStream \/ Submits \/ Writes \/ MarksWritten \/ Transmits
      BY <2>1, <2>2, <2>3 DEF CreateSessions, Http3Create, OpensStream, Submits, BindStreams,
         Shutdown, Submit, Writes, NextOutputFails, MarksWritten, MarkOutputWritten, Transmits,
         driverVars
  <2>4. CASE Receives \/ OwnCallback \/ StreamData \/ StreamEvent
      BY <2>2, <2>4, Zenon DEF Receives, OwnCallback, StreamData, StreamEvent
  <2>5. CASE AppliesEvent \/ Abandons \/ Releases
      BY <2>2, <2>5 DEF AppliesEvent, AcknowledgeStreamData, CloseStream, Abandons, Releases,
         Http3Release
  <2>6. CASE \/ \E result \in Results \cup {"idle_close"} :
                  ReceiveEnds(result) \/ OpenEnds(result) \/ ExpiryEnds(result)
             \/ \E result \in Results, n \in 0 .. call.offered, made \in Bool :
                  WriteEnds(result, n, made)
      BY <2>6 DEF ReceiveEnds, OpenEnds, ExpiryEnds, WriteEnds
  <2> QED BY <1>2, <2>3, <2>4, <2>5, <2>6 DEF Next
<1>3. IInv /\ [Next]_vars => [Left]_vars
    BY <1>1, <1>2
<1> QED BY <1>3, Invariance, PTL DEF Spec, DeadNotEntered
=============================================================================
