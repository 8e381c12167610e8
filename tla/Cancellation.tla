---------------------------- MODULE Cancellation ----------------------------
(***************************************************************************)
(* core/deadlines_cancellation.hpp: cancellation states shared by threads. *)
(* Each CancellationState is one atomic; finish() is one compare-exchange  *)
(* followed by a load, and CancellationToken::outcome() loads the states   *)
(* of its chain one after the other.  Every atomic access and every clock  *)
(* read is a step of its own, so calls of different threads interleave at  *)
(* each of them.                                                           *)
(*                                                                         *)
(* The accesses are acquire/release on single atomics; the model gives     *)
(* them one total order.                                                   *)
(***************************************************************************)
EXTENDS Integers, Sequences

CONSTANTS
    States,         \* CancellationState objects
    NoState,        \* the state of a call that names none
    Writers,        \* threads that hold sources
    Observers,      \* threads that hold tokens
    MaxDepth,       \* CancellationToken::maximum_parent_depth
    Deadlines,      \* the instants deadlines are made for
    MaxTime         \* the clock stops here

ASSUME CancellationAssumption ==
    /\ MaxDepth \in Nat
    /\ MaxTime \in Nat
    /\ Deadlines \subseteq Nat

VARIABLES
    stored,     \* terminal_ of each state
    clock,      \* the monotonic clock
    token,      \* states_[0 .. state_count_) of the token each thread holds
    call        \* the call each thread is in, or the result of its last one

vars == <<stored, clock, token, call>>

Threads == Writers \cup Observers

Terminal == {"completed", "explicit", "deadline"}
Cancelled == {"explicit", "deadline"}
Outcomes == {"pending"} \cup Terminal

\* Calls that end with a compare-exchange on one state, and calls that look.
Finishing == {"complete", "cancel", "expire", "expire_operations"}
Looking == {"outcome", "require_active"}
Operations == Finishing \cup Looking \cup {"none"}

\* pc is the next access; `begun` is what the call cannot miss because it was so
\* when the call began: the outcome a look's chain stood for, or the one that a
\* finishing call asks for; `result` is what the call returned.
Call(op, pc, s, begun, d) ==
    [op |-> op, pc |-> pc, state |-> s, index |-> 1, begun |-> begun,
     deadline |-> d, result |-> "none"]

\* No call yet, or none since the thread took its token.
NoCall == Call("none", "done", NoState, "pending", 0)

Chains == {c \in UNION {[1 .. n -> States] : n \in 1 .. MaxDepth + 1} :
              \A i, j \in DOMAIN c : c[i] = c[j] => i = j}

Calls == [op : Operations,
          pc : {"check", "clock", "swap", "reload", "own", "parent", "due", "done"},
          state : States \cup {NoState}, index : 1 .. MaxDepth + 1,
          begun : Outcomes, deadline : Deadlines \cup {0},
          result : Outcomes \cup {"none", "active", "clock_error"}]

TypeOK ==
    /\ stored \in [States -> Outcomes]
    /\ clock \in 0 .. MaxTime
    /\ token \in [Observers -> Chains]
    /\ call \in [Threads -> Calls]

Idle(t) == call[t].pc = "done"

Returns(t, r) ==
    call' = [call EXCEPT ![t] =
                [@ EXCEPT !.pc = "done", !.index = 1, !.deadline = 0, !.result = r]]

Continues(t, pc) == call' = [call EXCEPT ![t].pc = pc]

Init ==
    /\ stored = [s \in States |-> "pending"]
    /\ clock = 0
    /\ token \in [Observers -> {<<s>> : s \in States}]
    /\ call = [t \in Threads |-> NoCall]

-----------------------------------------------------------------------------
(* Tokens.                                                                 *)

\* CancellationSource::token()
Token(t, s) ==
    /\ Idle(t)
    /\ token' = [token EXCEPT ![t] = <<s>>]
    /\ call' = [call EXCEPT ![t] = NoCall]
    /\ UNCHANGED <<stored, clock>>

\* The checks of child(): no cycle, at most MaxDepth parents.
ChildAllowed(c, s) ==
    /\ \A i \in DOMAIN c : c[i] # s
    /\ Len(c) <= MaxDepth

Child(t, s) ==
    /\ Idle(t)
    /\ ChildAllowed(token[t], s)
    /\ token' = [token EXCEPT ![t] = <<s>> \o token[t]]
    /\ call' = [call EXCEPT ![t] = NoCall]
    /\ UNCHANGED <<stored, clock>>

\* What outcome() of the chain would return if nothing moved meanwhile.
ChainOutcome(c) ==
    LET cancelled == {i \in DOMAIN c : stored[c[i]] \in Cancelled} IN
    IF stored[c[1]] # "pending" \/ cancelled = {} THEN stored[c[1]]
    ELSE stored[c[CHOOSE i \in cancelled : \A j \in cancelled : i <= j]]
-----------------------------------------------------------------------------
(* The finishing calls.                                                    *)

\* Where each call starts.
FirstAccess(op) ==
    CASE op \in {"complete", "cancel"} -> "swap"
      [] op = "expire" -> "clock"
      [] op = "expire_operations" -> "check"

\* Deadline::expired
Expired(d) == clock >= d

Requested(op) ==
    CASE op = "complete" -> "completed"
      [] op = "cancel" -> "explicit"
      [] op \in {"expire", "expire_operations"} -> "deadline"

\* What the call asks for, whatever happens until its exchange.
Asks(op, d) ==
    IF op \in {"complete", "cancel"} \/ Expired(d) THEN Requested(op) ELSE "pending"

Start(t, op, s, d) ==
    /\ Idle(t)
    /\ call' = [call EXCEPT ![t] = Call(op, FirstAccess(op), s, Asks(op, d), d)]
    /\ UNCHANGED <<stored, clock, token>>

\* cancel_if_expired(operations) looks at the state before it reads the clock.
CheckExisting(t) ==
    /\ call[t].pc = "check"
    /\ IF stored[call[t].state] # "pending"
       THEN Returns(t, stored[call[t].state])
       ELSE Continues(t, "clock")
    /\ UNCHANGED <<stored, clock, token>>

ReadClock(t) ==
    /\ call[t].pc = "clock"
    /\ Continues(t, IF Expired(call[t].deadline) THEN "swap" ELSE "reload")
    /\ UNCHANGED <<stored, clock, token>>

\* read_monotonic_clock fails; only the ClockOperations overload can see it.
ClockFails(t) ==
    /\ \/ call[t].pc = "clock" /\ call[t].op = "expire_operations"
       \/ call[t].pc = "due"
    /\ Returns(t, "clock_error")
    /\ UNCHANGED <<stored, clock, token>>

\* compare_exchange_strong(pending, requested)
Exchanged(old, requested) == IF old = "pending" THEN requested ELSE old

\* finish() goes on to load the outcome whether it won or not.
AfterSwap(t) == "reload"

Swap(t) ==
    /\ call[t].pc = "swap"
    /\ stored' = [stored EXCEPT ![call[t].state] = Exchanged(@, Requested(call[t].op))]
    /\ Continues(t, AfterSwap(t))
    /\ UNCHANGED <<clock, token>>

\* Variant that tells a deadline that lost the exchange that it won.
ReloadedAsRequested(t) ==
    IF stored[call[t].state] = "pending" THEN "pending"
    ELSE IF call[t].op \in {"expire", "expire_operations"} THEN Requested(call[t].op)
    ELSE stored[call[t].state]

\* CancellationState::outcome
Reloaded(t) == stored[call[t].state]

Reload(t) ==
    /\ call[t].pc = "reload"
    /\ Returns(t, Reloaded(t))
    /\ UNCHANGED <<stored, clock, token>>
-----------------------------------------------------------------------------
(* CancellationToken::outcome and require_active.                          *)

Look(t, op, d) ==
    /\ Idle(t)
    /\ call' = [call EXCEPT ![t] =
                  Call(op, "own", NoState, ChainOutcome(token[t]), d)]
    /\ UNCHANGED <<stored, clock, token>>

\* outcome() returns r; require_active goes on to the deadline if it is pending.
Observed(t, r) ==
    IF call[t].op = "require_active" /\ r = "pending"
    THEN Continues(t, "due")
    ELSE Returns(t, r)

\* Variant that misses a chain of two.
HasGrandparents(t) == Len(token[t]) > 2

HasParents(t) == Len(token[t]) > 1

LoadOwn(t) ==
    /\ call[t].pc = "own"
    /\ LET own == stored[token[t][1]] IN
       IF own # "pending" \/ ~HasParents(t)
       THEN Observed(t, own)
       ELSE call' = [call EXCEPT ![t].pc = "parent", ![t].index = 2]
    /\ UNCHANGED <<stored, clock, token>>

IsLastParent(t) == call[t].index = Len(token[t])

\* Variant that takes over any terminal outcome of a parent.
InheritsTerminal(outcome) == outcome \in Terminal

\* Only a parent's cancellation reaches the child, not its completion.
Inherits(outcome) == outcome \in Cancelled

LoadParent(t) ==
    /\ call[t].pc = "parent"
    /\ LET inherited == stored[token[t][call[t].index]] IN
       IF Inherits(inherited) THEN Returns(t, inherited)
       ELSE IF IsLastParent(t) THEN Observed(t, "pending")
       ELSE call' = [call EXCEPT ![t].index = @ + 1]
    /\ UNCHANGED <<stored, clock, token>>

\* Deadline::require_not_expired
CheckDue(t) ==
    /\ call[t].pc = "due"
    /\ Returns(t, IF Expired(call[t].deadline) THEN "deadline" ELSE "active")
    /\ UNCHANGED <<stored, clock, token>>

Tick ==
    /\ clock < MaxTime
    /\ clock' = clock + 1
    /\ UNCHANGED <<stored, token, call>>

Access(t) ==
    \/ CheckExisting(t) \/ ReadClock(t) \/ ClockFails(t) \/ Swap(t) \/ Reload(t)
    \/ LoadOwn(t) \/ LoadParent(t) \/ CheckDue(t)

Next ==
    \/ \E t \in Observers, s \in States : Token(t, s) \/ Child(t, s)
    \/ \E t \in Writers, op \in Finishing, s \in States, d \in Deadlines : Start(t, op, s, d)
    \/ \E t \in Observers, op \in Looking, d \in Deadlines : Look(t, op, d)
    \/ \E t \in Threads : Access(t)
    \/ Tick

Spec == Init /\ [][Next]_vars
-----------------------------------------------------------------------------
(* Properties.                                                             *)

\* All callers agree: an outcome that complete, cancel or either cancel_if_expired
\* returned is the one the state has from then on, whoever won and whatever the
\* caller asked for.  A call that asks for one when it begins (a deadline that has
\* passed does) returns one; only a clock that failed keeps it from knowing.
CallersAgree ==
    \A t \in Writers :
        Idle(t) /\ call[t].op \in Finishing =>
            /\ call[t].result \in Terminal => call[t].result = stored[call[t].state]
            /\ call[t].result \notin Terminal =>
                  \/ call[t].result = "pending" /\ call[t].begun = "pending"
                  \/ call[t].result = "clock_error" /\ call[t].op = "expire_operations"

\* A cancellation anywhere in the chain that came before the call is seen: an
\* operation is told to go on only if its chain stood for no outcome when
\* it asked, although the states are loaded one by one.
NoMissedCancellation ==
    \A t \in Observers :
        Idle(t) /\ call[t].op \in Looking /\ call[t].result \in {"pending", "active"}
            => call[t].begun = "pending"

\* What outcome() reports happened: a completion is the operation's own, a
\* cancellation is stored in a state of its chain with that cause, and a
\* deadline is the cause only once the clock has reached one.
ReportsAreReal ==
    /\ \A s \in States : stored[s] = "deadline" => \E d \in Deadlines : d <= clock
    /\ \A t \in Observers :
          Idle(t) /\ call[t].op = "outcome" =>
              /\ call[t].result = "completed" => stored[token[t][1]] = "completed"
              /\ call[t].result \in Cancelled =>
                    \E i \in DOMAIN token[t] : stored[token[t][i]] = call[t].result

=============================================================================
