----------------------------- MODULE DnsResolver -----------------------------
(***************************************************************************)
(* adapters/dns.cpp: the resolver over c-ares, one channel per query.      *)
(* Completions are recorded inside the c-ares callback and handed to the   *)
(* caller's sink afterwards, when the channel is gone; the sink may call   *)
(* the resolver again, destroy it, or put a new one in its place.          *)
(*                                                                         *)
(* `stack` holds the calls in progress, innermost last: a loop over        *)
(* queries that still has to look at `rest`, or a sink that is running.    *)
(* The caller acts when no call is in progress or from inside a sink.      *)
(*                                                                         *)
(* c-ares is external: while it runs on a channel it may open and close    *)
(* sockets and complete the query, and destroying a channel closes its     *)
(* sockets.  `due` is a query it would complete when it is run next.       *)
(***************************************************************************)
EXTENDS Integers, Sequences, FiniteSets

CONSTANTS
    Capacity,       \* slots: maximum_query_capacity
    Limit,          \* limits.maximum_outstanding_queries
    Descriptors,    \* socket descriptors
    MaxSockets,     \* maximum_socket_capacity
    MaxToken,       \* last value of next_token before it wraps to 0
    MaxInstance,    \* resolvers created in a behaviour
    MaxNesting      \* sinks inside sinks

ASSUME DnsAssumption ==
    /\ Capacity \in Nat /\ Limit \in 1 .. Capacity
    /\ IsFiniteSet(Descriptors) /\ MaxSockets \in Nat
    /\ MaxToken \in Nat \ {0}
    /\ MaxInstance \in Nat /\ MaxNesting \in Nat

VARIABLES
    library,        \* DnsDependencyLifecycle::initialized_
    liveResolvers,  \* DnsDependencyLifecycle::live_resolvers_
    instance,       \* which State the resolver points to, 0 for none
    created,        \* resolvers created so far
    slots,          \* State::queries
    outstanding,    \* State::outstanding
    nextToken,      \* State::next_token
    sockets,        \* State::sockets: the slot a registered descriptor is for
    due,            \* slots whose query c-ares would complete now
    stack,          \* calls in progress
    delivered       \* how often the sink was called for each token

resolverVars == <<slots, outstanding, nextToken, sockets, due>>
vars == <<library, liveResolvers, instance, created, resolverVars, stack, delivered>>

Slots == 1 .. Capacity
Tokens == (1 .. MaxInstance) \X (1 .. MaxToken)
Callers == {"resolve", "cancel", "process_events", "process_timeout"}

EmptySlot == [active |-> FALSE, token |-> 0]

NoSockets == [d \in Descriptors |-> 0]

Frames ==
    [kind : {"loop"}, caller : Callers, instance : 1 .. MaxInstance,
     rest : Seq([slot : Slots, token : 1 .. MaxToken])]
    \cup [kind : {"sink"}, caller : Callers, instance : 1 .. MaxInstance, token : 1 .. MaxToken]

TypeOK ==
    /\ library \in BOOLEAN
    /\ liveResolvers \in 0 .. 1
    /\ instance \in 0 .. MaxInstance
    /\ created \in 0 .. MaxInstance
    /\ slots \in [Slots -> [active : BOOLEAN, token : 0 .. MaxToken]]
    /\ outstanding \in 0 .. Limit
    /\ nextToken \in 0 .. MaxToken
    /\ sockets \in [Descriptors -> 0 .. Capacity]
    /\ Cardinality({d \in Descriptors : sockets[d] # 0}) <= MaxSockets
    /\ due \subseteq Slots
    /\ stack \in Seq(Frames)
    /\ delivered \in [Tokens -> Nat]

Init ==
    /\ library = FALSE
    /\ liveResolvers = 0
    /\ instance = 0
    /\ created = 0
    /\ slots = [s \in Slots |-> EmptySlot]
    /\ outstanding = 0
    /\ nextToken = 1
    /\ sockets = NoSockets
    /\ due = {}
    /\ stack = <<>>
    /\ delivered = [t \in Tokens |-> 0]

Top == stack[Len(stack)]
Popped == SubSeq(stack, 1, Len(stack) - 1)

\* The owner may call: outside of any call, or in its sink.
MayCall == stack # <<>> => Top.kind = "sink"

MayNest == Len(SelectSeq(stack, LAMBDA f : f.kind = "sink")) < MaxNesting
-----------------------------------------------------------------------------
(* The c-ares library in this worker.                                      *)

WorkerInitialize ==
    /\ MayCall
    /\ liveResolvers = 0
    /\ library' = TRUE
    /\ UNCHANGED <<liveResolvers, instance, created, resolverVars, stack, delivered>>

CleanupAllowed == liveResolvers = 0

WorkerCleanup ==
    /\ MayCall
    /\ CleanupAllowed
    /\ library' = FALSE
    /\ UNCHANGED <<liveResolvers, instance, created, resolverVars, stack, delivered>>

Create ==
    /\ MayCall
    /\ library
    /\ instance = 0
    /\ created < MaxInstance
    /\ created' = created + 1
    /\ instance' = created + 1
    /\ liveResolvers' = liveResolvers + 1
    /\ slots' = [s \in Slots |-> EmptySlot]
    /\ outstanding' = 0
    /\ nextToken' = 1
    /\ sockets' = NoSockets
    /\ due' = {}
    /\ UNCHANGED <<library, stack, delivered>>

\* release(): every channel is destroyed with no completion, then the State.
Release ==
    /\ MayCall
    /\ instance # 0
    /\ instance' = 0
    /\ liveResolvers' = liveResolvers - 1
    /\ slots' = [s \in Slots |-> EmptySlot]
    /\ outstanding' = 0
    /\ sockets' = NoSockets
    /\ due' = {}
    /\ UNCHANGED <<library, created, nextToken, stack, delivered>>
-----------------------------------------------------------------------------
(* What c-ares does to one channel while it runs.                          *)

SocketsOf(s) == {d \in Descriptors : sockets[d] = s}
Registered == {d \in Descriptors : sockets[d] # 0}

\* Closed descriptors leave the table; opened ones enter while there is room.
\* Opened is a set of descriptors no query uses.
SocketsAfter(s, opened, closed) ==
    [d \in Descriptors |->
        IF d \in closed THEN 0 ELSE IF d \in opened THEN s ELSE sockets[d]]

\* The registrations a native run asks for, and whether they fit.
NativeSockets(s, opened, closed) ==
    opened \subseteq Descriptors \ Registered /\ closed \subseteq SocketsOf(s)

Fits(opened, closed) ==
    Cardinality((Registered \ closed) \cup opened) <= MaxSockets

\* Variant that keeps the sockets of a destroyed channel in the table.
SocketsStay(s) == sockets

\* The channel of slot s is destroyed: its sockets are closed, the slot is free
\* and keeps its token.
Retired(s) == [slots EXCEPT ![s].active = FALSE]
SocketsWithout(s) == [d \in Descriptors |-> IF sockets[d] = s THEN 0 ELSE sockets[d]]

\* address_complete counts the query down however it ended.
OutstandingLess(capacityFailed) == outstanding - 1

\* dispatch_completion and fail_socket_capacity: the channel is retired first,
\* then the sink runs on copies.
Dispatch(s, token, caller, below, capacityFailed) ==
    /\ slots' = Retired(s)
    /\ sockets' = SocketsWithout(s)
    /\ due' = due \ {s}
    /\ outstanding' = OutstandingLess(capacityFailed)
    /\ stack' = Append(below, [kind |-> "sink", caller |-> caller,
                               instance |-> instance, token |-> token])
    /\ delivered' = [delivered EXCEPT ![<<instance, token>>] = @ + 1]

-----------------------------------------------------------------------------
(* resolve and cancel.                                                     *)

FreeSlots == {s \in Slots : ~slots[s].active}
FirstFreeSlot == CHOOSE s \in FreeSlots : \A u \in FreeSlots : s <= u

AfterToken(n) == IF n = MaxToken THEN 0 ELSE n + 1

MayResolve ==
    /\ MayCall
    /\ instance # 0
    /\ outstanding < Limit
    /\ FreeSlots # {}
    /\ nextToken # 0

\* The channel cannot be set up: the token is used up, the slot stays free.
ResolveFails ==
    /\ MayResolve
    /\ slots' = [slots EXCEPT ![FirstFreeSlot].token = nextToken]
    /\ nextToken' = AfterToken(nextToken)
    /\ UNCHANGED <<library, liveResolvers, instance, created, outstanding,
                   sockets, due, stack, delivered>>

\* The query is started and waits for c-ares.
ResolvePending(opened) ==
    /\ MayResolve
    /\ NativeSockets(FirstFreeSlot, opened, {})
    /\ Fits(opened, {})
    /\ slots' = [slots EXCEPT ![FirstFreeSlot] = [active |-> TRUE, token |-> nextToken]]
    /\ sockets' = SocketsAfter(FirstFreeSlot, opened, {})
    /\ outstanding' = outstanding + 1
    /\ nextToken' = AfterToken(nextToken)
    /\ UNCHANGED <<library, liveResolvers, instance, created, due, stack, delivered>>

\* c-ares answers, or runs out of sockets, before ares_getaddrinfo returns: the
\* slot is taken, retired, and the sink runs before resolve() returns.
ResolveImmediately ==
    /\ MayResolve
    /\ MayNest
    /\ slots' = [slots EXCEPT ![FirstFreeSlot].token = nextToken]
    /\ nextToken' = AfterToken(nextToken)
    /\ stack' = Append(stack, [kind |-> "sink", caller |-> "resolve",
                               instance |-> instance, token |-> nextToken])
    /\ delivered' = [delivered EXCEPT ![<<instance, nextToken>>] = @ + 1]
    /\ UNCHANGED <<library, liveResolvers, instance, created, outstanding, sockets, due>>

\* Variant that takes any active query for the one that is asked for.
FindAnyQuery(token) == {s \in Slots : slots[s].active}

FindQuery(token) == {s \in Slots : slots[s].active /\ slots[s].token = token}

\* The caller names a query by any token it may have kept, of one that ended long
\* ago or of another resolver.
Cancel(token) ==
    /\ MayCall
    /\ MayNest
    /\ instance # 0
    /\ \E s \in FindQuery(token) : Dispatch(s, token, "cancel", stack, FALSE)
    /\ UNCHANGED <<library, liveResolvers, instance, created, nextToken>>
-----------------------------------------------------------------------------
(* process_events and process_timeout: remember slots and tokens, then run *)
(* one channel after the other until one completes.                        *)

Pending(s) == [slot |-> s, token |-> slots[s].token]

ProcessEvents(first, second) ==
    /\ MayCall
    /\ MayNest
    /\ instance # 0
    /\ {first, second} \subseteq Registered
    /\ stack' = Append(stack,
          [kind |-> "loop", caller |-> "process_events", instance |-> instance,
           rest |-> IF first = second THEN <<Pending(sockets[first])>>
                    ELSE <<Pending(sockets[first]), Pending(sockets[second])>>])
    /\ UNCHANGED <<library, liveResolvers, instance, created, resolverVars, delivered>>

\* Variant that leaves out the last slot.
AllButLast == Capacity - 1

\* The slots the loop of process_timeout looks at.
ServedSlots == Capacity

\* What it has remembered after the first n slots.
Collected[n \in 0 .. Capacity] ==
    IF n = 0 THEN <<>>
    ELSE IF slots[n].active THEN Append(Collected[n - 1], Pending(n))
    ELSE Collected[n - 1]

PendingQueries == Collected[ServedSlots]

ProcessTimeout ==
    /\ MayCall
    /\ MayNest
    /\ instance # 0
    /\ stack' = Append(stack,
          [kind |-> "loop", caller |-> "process_timeout", instance |-> instance,
           rest |-> PendingQueries])
    /\ UNCHANGED <<library, liveResolvers, instance, created, resolverVars, delivered>>

InLoop == stack # <<>> /\ Top.kind = "loop"

\* The slot the loop comes to is still the query it remembered.
StillThere(entry) == slots[entry.slot].active /\ slots[entry.slot].token = entry.token

Rest == Append(Popped, [Top EXCEPT !.rest = Tail(@)])

\* The query is no longer there and is passed over, or ares_process_fd leaves it
\* waiting, with other sockets perhaps.
LoopMoves(opened, closed) ==
    /\ InLoop
    /\ Top.rest # <<>>
    /\ IF StillThere(Head(Top.rest))
       THEN /\ Head(Top.rest).slot \notin due
            /\ NativeSockets(Head(Top.rest).slot, opened, closed)
            /\ Fits(opened, closed)
            /\ sockets' = SocketsAfter(Head(Top.rest).slot, opened, closed)
       ELSE sockets' = sockets
    /\ stack' = Rest
    /\ UNCHANGED <<library, liveResolvers, instance, created, slots, outstanding,
                   nextToken, due, delivered>>

\* Variant that goes on with the loop after the sink returned.
LoopGoesOn == Rest

\* After a dispatch the loop returns: the sink may have destroyed everything.
LoopReturns == Popped

\* ares_process_fd completes the query.
LoopCompletes ==
    /\ InLoop
    /\ Top.rest # <<>>
    /\ StillThere(Head(Top.rest))
    /\ Dispatch(Head(Top.rest).slot, Head(Top.rest).token, Top.caller, LoopReturns, FALSE)
    /\ UNCHANGED <<library, liveResolvers, instance, created, nextToken>>

\* ares_process_fd asks for more sockets than the table holds: the query is
\* cancelled and its sink is told.
LoopRunsOutOfSockets(opened) ==
    /\ InLoop
    /\ Top.rest # <<>>
    /\ StillThere(Head(Top.rest))
    /\ Head(Top.rest).slot \notin due
    /\ NativeSockets(Head(Top.rest).slot, opened, {})
    /\ ~Fits(opened, {})
    /\ Dispatch(Head(Top.rest).slot, Head(Top.rest).token, Top.caller, LoopReturns, TRUE)
    /\ UNCHANGED <<library, liveResolvers, instance, created, nextToken>>

LoopEnds ==
    /\ InLoop
    /\ Top.rest = <<>>
    /\ stack' = Popped
    /\ UNCHANGED <<library, liveResolvers, instance, created, resolverVars, delivered>>

SinkReturns ==
    /\ stack # <<>>
    /\ Top.kind = "sink"
    /\ stack' = Popped
    /\ UNCHANGED <<library, liveResolvers, instance, created, resolverVars, delivered>>

\* An answer arrives, or the last attempt of a query times out.
BecomesDue(s) ==
    /\ slots[s].active
    /\ s \notin due
    /\ due' = due \cup {s}
    /\ UNCHANGED <<library, liveResolvers, instance, created, slots, outstanding,
                   nextToken, sockets, stack, delivered>>

Loop ==
    \/ \E opened, closed \in SUBSET Descriptors : LoopMoves(opened, closed)
    \/ \E opened \in SUBSET Descriptors : LoopRunsOutOfSockets(opened)
    \/ LoopCompletes
    \/ LoopEnds

Next ==
    \/ WorkerInitialize \/ WorkerCleanup \/ Create \/ Release
    \/ \E opened \in SUBSET Descriptors : ResolvePending(opened)
    \/ ResolveFails \/ ResolveImmediately
    \/ \E token \in 1 .. MaxToken : Cancel(token)
    \/ \E s \in Slots : BecomesDue(s)
    \/ \E first, second \in Descriptors : ProcessEvents(first, second)
    \/ ProcessTimeout
    \/ Loop
    \/ SinkReturns

\* Calls and sinks return, answers or timeouts come in the end, and the event
\* loop keeps calling process_timeout when it is not inside a call.
Fairness ==
    /\ WF_vars(Loop)
    /\ SF_vars(SinkReturns)
    /\ \A s \in Slots : WF_vars(BecomesDue(s))
    /\ SF_vars(ProcessTimeout /\ stack = <<>>)

Spec == Init /\ [][Next]_vars /\ Fairness
-----------------------------------------------------------------------------
(* Properties.                                                             *)

\* The sink hears of every query at most once, and never while the query is
\* active: slots are reused by calls from inside the sink, callers cancel by
\* tokens of queries that have ended, and an answer, a cancel and a lack of
\* sockets all end a query.
AtMostOnce ==
    /\ \A t \in Tokens : delivered[t] <= 1
    /\ \A s \in Slots : slots[s].active => delivered[<<instance, slots[s].token>>] = 0

\* outstanding counts the active queries exactly, so the limit means what it
\* says, whether queries end by an answer, a cancel or a lack of sockets.
\* Every socket the event loop is told to watch belongs to one of them.
OutstandingExact ==
    /\ outstanding = Cardinality({s \in Slots : slots[s].active})
    /\ \A d \in Registered : slots[sockets[d]].active

\* A loop that will still touch the State finds the State it started on, not
\* deleted or replaced by a sink, and the queries it remembered in their slots.
NoUseAfterRelease ==
    \A i \in DOMAIN stack : stack[i].kind = "loop" =>
        /\ stack[i].instance = instance
        /\ \A k \in DOMAIN stack[i].rest : StillThere(stack[i].rest[k])

\* "Its callbacks are synchronous with process_events(), process_timeout(), or
\* cancel()" (dns.hpp): the sink never runs inside resolve().
SinkOnlyInDocumentedCalls ==
    \A i \in DOMAIN stack : stack[i].kind = "sink" => stack[i].caller # "resolve"

\* Every query is answered in the end, or its resolver is destroyed, as long
\* as the event loop keeps serving timeouts.
QueriesEnd ==
    \A t \in Tokens :
        (instance = t[1] /\ \E s \in Slots : slots[s].active /\ slots[s].token = t[2])
            ~> (instance # t[1] \/ delivered[t] = 1)

=============================================================================
