------------------------------ MODULE CoreProofs ------------------------------
(***************************************************************************)
(* Proofs about two parts of the runtime core that share no state:         *)
(* cancellation, for every set of states, any number of threads, chains of *)
(* any permitted depth and every clock; and the slab pool, for every       *)
(* capacity and every nesting of constructors and destructors.             *)
(***************************************************************************)
EXTENDS Cancellation, SlabPool, FiniteSetTheorems, WellFoundedInduction, TLAPS

\* A leaf may take either prover 30 seconds and is given to Z3 a second time: no
\* proof depends on how busy the machine is.
USE SMTT(30), ZenonT(30), Z3T(30)

(***************************************************************************)
(* Cancellation.                                                           *)
(***************************************************************************)

-----------------------------------------------------------------------------
(* The inductive invariant.                                                *)

\* A finishing call names a state.  A deadline's exchange is tried only when the
\* clock has reached it, and is not left out if it had when the call began.  Once
\* an exchange has been tried the state is settled; what was returned is its outcome.
FinishingInv(t) ==
    /\ call[t].pc \in {"check", "clock", "swap", "reload", "done"}
    /\ call[t].state \in States
    /\ call[t].op \in {"complete", "cancel"} => call[t].pc \in {"swap", "reload", "done"}
    /\ call[t].op \notin {"complete", "cancel"} =>
          /\ call[t].pc \in {"check", "clock", "swap"} => call[t].deadline \in Deadlines
          /\ call[t].pc = "swap" \/ (call[t].pc \in {"check", "clock"} /\ call[t].begun # "pending")
                => call[t].deadline <= clock
    /\ call[t].pc = "reload" /\ call[t].begun # "pending" => stored[call[t].state] \in Terminal
    /\ call[t].pc = "done" =>
          /\ call[t].result \in Terminal => call[t].result = stored[call[t].state]
          /\ call[t].result \notin Terminal =>
                \/ call[t].result = "pending" /\ call[t].begun = "pending"
                \/ call[t].result = "clock_error" /\ call[t].op = "expire_operations"

\* A cancellation sits at place k of the chain or further up.
CancelledFrom(c, k) == \E i \in DOMAIN c : i >= k /\ stored[c[i]] \in Cancelled

\* What a look has still to find: if the chain was not pending when it began,
\* then the own state is settled or a cancellation is still ahead of it.
LookingInv(t) ==
    /\ t \in Observers
    /\ call[t].pc \in {"own", "parent", "due", "done"}
    /\ call[t].pc = "own" /\ call[t].begun # "pending" =>
          stored[token[t][1]] # "pending" \/ CancelledFrom(token[t], 1)
    /\ call[t].pc = "parent" =>
          /\ call[t].index \in 2 .. Len(token[t])
          /\ call[t].begun # "pending" => CancelledFrom(token[t], call[t].index)
    /\ call[t].pc = "due" => call[t].op = "require_active" /\ call[t].begun = "pending"
    /\ call[t].pc = "done" =>
          /\ call[t].result \in {"pending", "active"} => call[t].begun = "pending"
          /\ call[t].op = "outcome" =>
                /\ call[t].result = "completed" => stored[token[t][1]] = "completed"
                /\ call[t].result \in Cancelled =>
                      \E i \in DOMAIN token[t] : stored[token[t][i]] = call[t].result

CallInv(t) ==
    /\ call[t].op = "none" => call[t].pc = "done"
    /\ call[t].op \in Finishing => FinishingInv(t)
    /\ call[t].op \in Looking => LookingInv(t)

\* A deadline is stored only once one has passed.
DeadlinesPassed == \A s \in States : stored[s] = "deadline" => \E d \in Deadlines : d <= clock

IInv ==
    /\ TypeOK
    /\ DeadlinesPassed
    /\ \A t \in Threads : CallInv(t)

-----------------------------------------------------------------------------
(* Chains.                                                                 *)

\* A chain is a sequence of at least one state.
LEMMA ChainIsSequence ==
    ASSUME NEW c \in Chains
    PROVE  /\ c \in Seq(States) /\ Len(c) \in 1 .. MaxDepth + 1
           /\ DOMAIN c = 1 .. Len(c)
           /\ c[1] \in States
<1>1. PICK n \in 1 .. MaxDepth + 1 : c \in [1 .. n -> States]
    BY DEF Chains
<1>2. n \in Nat /\ n >= 1
    BY <1>1, CancellationAssumption
<1>3. c \in Seq(States) /\ Len(c) = n
    BY <1>1, <1>2
<1> QED BY <1>1, <1>2, <1>3, CancellationAssumption

\* token() makes a chain of one.
LEMMA SingleChain ==
    ASSUME NEW s \in States
    PROVE  <<s>> \in Chains
<1>1. <<s>> \in [1 .. 1 -> States] /\ 1 \in 1 .. MaxDepth + 1
    BY CancellationAssumption
<1>2. \A i, j \in DOMAIN <<s>> : i = j
    OBVIOUS
<1> QED BY <1>1, <1>2 DEF Chains

\* child() puts its own state in front of a chain that has room.
LEMMA ChildChain ==
    ASSUME NEW c \in Chains, NEW s \in States, ChildAllowed(c, s)
    PROVE  <<s>> \o c \in Chains
<1> DEFINE d == <<s>> \o c
<1>1. c \in Seq(States) /\ Len(c) \in Nat /\ Len(c) <= MaxDepth /\ DOMAIN c = 1 .. Len(c)
    BY ChainIsSequence, CancellationAssumption DEF ChildAllowed
<1>2. /\ d \in Seq(States) /\ Len(d) = Len(c) + 1
      /\ DOMAIN d = 1 .. Len(c) + 1
      /\ d[1] = s /\ \A i \in 2 .. Len(c) + 1 : d[i] = c[i - 1]
    BY <1>1
<1> HIDE DEF d
<1>3. d \in [1 .. Len(c) + 1 -> States] /\ Len(c) + 1 \in 1 .. MaxDepth + 1
    BY <1>1, <1>2, CancellationAssumption
<1>4. ASSUME NEW i \in DOMAIN d, NEW j \in DOMAIN d, d[i] = d[j]
      PROVE  i = j
  <2>1. \A k, l \in DOMAIN c : c[k] = c[l] => k = l
      BY DEF Chains
  <2>2. \A k \in DOMAIN c : c[k] # s
      BY DEF ChildAllowed
  <2>3. (i = 1 \/ i - 1 \in DOMAIN c) /\ (j = 1 \/ j - 1 \in DOMAIN c)
      BY <1>1, <1>2
  <2>4. CASE i = 1 /\ j # 1
      BY <1>1, <1>2, <1>4, <2>2, <2>3, <2>4
  <2>5. CASE i # 1 /\ j = 1
      BY <1>1, <1>2, <1>4, <2>2, <2>3, <2>5
  <2>6. CASE i # 1 /\ j # 1
    <3>1. c[i - 1] = c[j - 1] /\ i - 1 \in DOMAIN c /\ j - 1 \in DOMAIN c
        BY <1>1, <1>2, <1>4, <2>3, <2>6
    <3>2. i - 1 = j - 1
        BY <2>1, <3>1
    <3> QED BY <1>1, <1>2, <3>2
  <2> QED BY <2>4, <2>5, <2>6
<1>5. d \in Chains
    BY <1>3, <1>4 DEF Chains
<1> QED BY <1>5 DEF d
-----------------------------------------------------------------------------
(* Steps.                                                                  *)

\* What every step does to the states: a settled one stays as it is.
Settled == \A s \in States : stored[s] # "pending" => stored'[s] = stored[s]

\* What is known of a call survives the steps of other threads.
LEMMA OthersKeep ==
    ASSUME TypeOK, NEW u \in Threads, CallInv(u),
           call'[u] = call[u],
           u \in Observers => token'[u] = token[u],
           Settled, clock' \in Nat, clock <= clock'
    PROVE  CallInv(u)'
<1>1. call[u] \in Calls /\ clock \in Nat
    BY CancellationAssumption DEF TypeOK
<1>2. CASE call[u].op = "none"
    BY <1>2 DEF CallInv, Finishing, Looking
<1>3. CASE call[u].op \in Finishing
  <2>1. FinishingInv(u) /\ call[u].op \notin Looking /\ call[u].op # "none"
      BY <1>3 DEF CallInv, Finishing, Looking
  <2>2. stored[call[u].state] \in Terminal => stored'[call[u].state] = stored[call[u].state]
      BY <2>1 DEF FinishingInv, Settled, Terminal
  <2>3. call[u].deadline \in Deadlines /\ call[u].deadline <= clock => call[u].deadline <= clock'
    <3>1. ASSUME NEW d \in Deadlines, d <= clock PROVE d <= clock'
        BY <1>1, <3>1, CancellationAssumption
    <3> QED BY <3>1
  <2>4. FinishingInv(u)'
      BY <2>1, <2>2, <2>3 DEF FinishingInv
  <2> QED BY <2>1, <2>4 DEF CallInv
<1>4. CASE call[u].op \in Looking
  <2>1. LookingInv(u) /\ call[u].op \notin Finishing /\ call[u].op # "none"
      BY <1>4 DEF CallInv, Finishing, Looking
  <2>2. u \in Observers /\ token'[u] = token[u] /\ token[u] \in Chains
      BY <2>1 DEF LookingInv, TypeOK
  <2>3. \A i \in DOMAIN token[u] : token[u][i] \in States
      BY <2>2, ChainIsSequence
  <2>4. \A i \in DOMAIN token[u] :
           stored[token[u][i]] # "pending" => stored'[token[u][i]] = stored[token[u][i]]
      BY <2>3 DEF Settled
  <2>5. 1 \in DOMAIN token[u]
      BY <2>2, ChainIsSequence
  <2>6. \A k \in Int : CancelledFrom(token[u], k) => CancelledFrom(token[u], k)'
      BY <2>2, <2>4 DEF CancelledFrom, Cancelled
  <2>7. call[u].index \in Int
      BY <1>1 DEF Calls
  <2>8. call[u].result \in Cancelled /\ (\E i \in DOMAIN token[u] : stored[token[u][i]] = call[u].result)
          => \E i \in DOMAIN token[u] : stored'[token[u][i]] = call[u].result
      BY <2>4 DEF Cancelled
  <2>9. LookingInv(u)'
      BY <2>1, <2>2, <2>4, <2>5, <2>6, <2>7, <2>8 DEF LookingInv
  <2> QED BY <2>1, <2>9 DEF CallInv
<1> QED BY <1>1, <1>2, <1>3, <1>4 DEF Calls, Operations

\* A step of one thread: its call is well formed again, and the rest follows.
LEMMA ThreadStep ==
    ASSUME IInv, NEW t \in Threads, NEW r \in Calls,
           call' = [call EXCEPT ![t] = r],
           stored' \in [States -> Outcomes], token' \in [Observers -> Chains],
           \A u \in Observers \ {t} : token'[u] = token[u],
           clock' = clock, Settled, DeadlinesPassed', CallInv(t)'
    PROVE  IInv'
<1>1. TypeOK /\ clock \in Nat
    BY CancellationAssumption DEF IInv, TypeOK
<1>2. TypeOK'
    BY <1>1 DEF TypeOK
<1>3. ASSUME NEW u \in Threads, u # t
      PROVE  CallInv(u)'
  <2>1. call'[u] = call[u] /\ (u \in Observers => token'[u] = token[u])
      BY <1>1, <1>3 DEF TypeOK
  <2> QED BY <1>1, <2>1, OthersKeep DEF IInv
<1> QED BY <1>2, <1>3 DEF IInv

\* Steps that only move a call.
LEMMA CallStep ==
    ASSUME IInv, NEW t \in Threads, NEW r \in Calls,
           call' = [call EXCEPT ![t] = r],
           UNCHANGED <<stored, clock, token>>, CallInv(t)'
    PROVE  IInv'
<1>1. /\ stored' \in [States -> Outcomes] /\ token' \in [Observers -> Chains]
      /\ \A u \in Observers \ {t} : token'[u] = token[u]
    BY DEF IInv, TypeOK
<1>2. Settled /\ DeadlinesPassed' /\ clock' = clock
    BY DEF Settled, IInv, DeadlinesPassed
<1> QED BY <1>1, <1>2, ThreadStep, Zenon

-----------------------------------------------------------------------------
(* The finishing calls.                                                    *)

LEMMA StartStep ==
    ASSUME IInv, NEW t \in Writers, NEW op \in Finishing, NEW s \in States,
           NEW d \in Deadlines, Start(t, op, s, d)
    PROVE  IInv'
<1> DEFINE asked == Asks(op, d)
           r == Call(op, FirstAccess(op), s, asked, d)
<1>1. t \in Threads /\ call \in [Threads -> Calls]
    BY DEF Threads, IInv, TypeOK
<1>0. /\ asked \in Outcomes
      /\ op \notin {"complete", "cancel"} /\ asked # "pending" => d <= clock
  <2>1. d \in Nat /\ clock \in Nat
      BY CancellationAssumption DEF IInv, TypeOK
  <2> QED BY <2>1 DEF Asks, Requested, Expired, Finishing, Outcomes, Terminal
<1>2. /\ FirstAccess(op) \in {"check", "clock", "swap"}
      /\ op \in {"complete", "cancel"} <=> FirstAccess(op) = "swap"
    BY DEF Finishing, FirstAccess
<1>4. call' = [call EXCEPT ![t] = r] /\ UNCHANGED <<stored, clock, token>>
    BY DEF Start
<1> HIDE DEF asked
<1>3. r \in Calls
    BY <1>0, <1>2, CancellationAssumption DEF Call, Calls, Operations, Outcomes
<1>5. call'[t] = r
    BY <1>1, <1>4
<1>6. /\ r.op = op /\ r.pc = FirstAccess(op) /\ r.state = s /\ r.deadline = d /\ r.begun = asked
    BY DEF Call
<1> HIDE DEF r
<1>7. CallInv(t)'
    BY <1>0, <1>2, <1>4, <1>5, <1>6 DEF CallInv, FinishingInv, Finishing, Looking
<1> QED BY <1>1, <1>3, <1>4, <1>7, CallStep, Zenon

\* A call that returns x.
Returned(t, x) == [call[t] EXCEPT !.pc = "done", !.index = 1, !.deadline = 0, !.result = x]

LEMMA ReturnedType ==
    ASSUME IInv, NEW t \in Threads, NEW x \in Outcomes \cup {"none", "active", "clock_error"}
    PROVE  /\ Returned(t, x) \in Calls
           /\ Returned(t, x).op = call[t].op
           /\ Returned(t, x).pc = "done"
           /\ Returned(t, x).state = call[t].state
           /\ Returned(t, x).begun = call[t].begun
           /\ Returned(t, x).result = x
<1>1. call[t] \in Calls
    BY DEF IInv, TypeOK
<1>2. 1 \in 1 .. MaxDepth + 1
    BY CancellationAssumption
<1> QED BY <1>1, <1>2, Zenon DEF Calls, Returned

\* A call that goes on at another place.
MovedTo(t, place) == [call[t] EXCEPT !.pc = place]

LEMMA MovedToType ==
    ASSUME IInv, NEW t \in Threads, NEW place \in {"clock", "swap", "reload", "parent", "due"}
    PROVE  /\ MovedTo(t, place) \in Calls
           /\ MovedTo(t, place).op = call[t].op
           /\ MovedTo(t, place).pc = place
           /\ MovedTo(t, place).state = call[t].state
           /\ MovedTo(t, place).begun = call[t].begun
           /\ MovedTo(t, place).deadline = call[t].deadline
           /\ MovedTo(t, place).index = call[t].index
<1>1. call[t] \in Calls
    BY DEF IInv, TypeOK
<1> QED BY <1>1 DEF Calls, MovedTo

\* At these places a finishing call is, and none that looks.
LEMMA FinishingPlaces ==
    ASSUME IInv, NEW t \in Threads, call[t].pc \in {"check", "clock", "swap", "reload"}
    PROVE  /\ call[t].op \in Finishing /\ call[t].op \notin Looking /\ call[t].op # "none"
           /\ FinishingInv(t)
           /\ call[t].state \in States /\ stored[call[t].state] \in Outcomes
<1>1. call[t] \in Calls /\ CallInv(t)
    BY DEF IInv, TypeOK
<1>2. call[t].op \in Finishing
    BY <1>1 DEF CallInv, LookingInv, Calls, Operations
<1>3. FinishingInv(t)
    BY <1>1, <1>2 DEF CallInv
<1>4. call[t].state \in States
    BY <1>3 DEF FinishingInv
<1> QED BY <1>2, <1>3, <1>4 DEF Finishing, Looking, IInv, TypeOK

LEMMA CheckExistingStep ==
    ASSUME IInv, NEW t \in Threads, CheckExisting(t)
    PROVE  IInv'
<1> DEFINE o == stored[call[t].state]
<1>1. call \in [Threads -> Calls] /\ call[t].pc = "check" /\ UNCHANGED <<stored, clock, token>>
    BY DEF IInv, TypeOK, CheckExisting
<1>2. /\ call[t].op \in Finishing \ {"complete", "cancel"}
      /\ call[t].op \notin Looking /\ call[t].op # "none"
      /\ FinishingInv(t) /\ o \in Outcomes
    BY <1>1, FinishingPlaces DEF FinishingInv
<1>3. CASE o # "pending"
  <2>1. call' = [call EXCEPT ![t] = Returned(t, o)]
      BY <1>1, <1>3 DEF CheckExisting, Returns, Returned
  <2>2. call'[t] = Returned(t, o) /\ o \in Terminal
      BY <1>1, <1>2, <1>3, <2>1, ZenonT(30) DEF Outcomes
  <2>3. /\ call'[t].op = call[t].op /\ call'[t].pc = "done" /\ call'[t].state = call[t].state
        /\ call'[t].result = o /\ o = stored'[call'[t].state]
      BY <1>1, <1>2, <2>2, ReturnedType
  <2>4. CallInv(t)'
      BY <1>2, <2>2, <2>3 DEF CallInv, FinishingInv
  <2> QED BY <1>1, <1>2, <2>1, <2>4, ReturnedType, CallStep, Zenon
<1>4. CASE o = "pending"
  <2>1. call' = [call EXCEPT ![t] = MovedTo(t, "clock")]
      BY <1>1, <1>4 DEF CheckExisting, Continues, MovedTo
  <2>2. call'[t] = MovedTo(t, "clock")
      BY <1>1, <2>1
  <2>3. CallInv(t)'
      BY <1>1, <1>2, <2>2, MovedToType DEF CallInv, FinishingInv
  <2> QED BY <1>1, <2>1, <2>3, MovedToType, CallStep, Zenon
<1> QED BY <1>3, <1>4

LEMMA ReadClockStep ==
    ASSUME IInv, NEW t \in Threads, ReadClock(t)
    PROVE  IInv'
<1> DEFINE place == IF Expired(call[t].deadline) THEN "swap" ELSE "reload"
<1>1. call \in [Threads -> Calls] /\ call[t].pc = "clock" /\ UNCHANGED <<stored, clock, token>>
    BY DEF IInv, TypeOK, ReadClock
<1>2. /\ call[t].op \in Finishing \ {"complete", "cancel"}
      /\ call[t].op \notin Looking /\ call[t].op # "none"
      /\ FinishingInv(t) /\ call[t].deadline \in Deadlines
    BY <1>1, FinishingPlaces DEF FinishingInv
<1>3. place = "swap" <=> call[t].deadline <= clock
  <2>1. call[t].deadline \in Nat
      BY <1>2, CancellationAssumption, Zenon
  <2>2. clock \in Nat
      BY CancellationAssumption DEF IInv, TypeOK
  <2> QED BY <2>1, <2>2 DEF Expired
<1>4. call' = [call EXCEPT ![t] = MovedTo(t, place)]
    BY <1>1 DEF ReadClock, Continues, MovedTo
<1>5. place \in {"swap", "reload"}
    OBVIOUS
<1> HIDE DEF place
<1>6. call'[t] = MovedTo(t, place)
    BY <1>1, <1>4
<1>7. CallInv(t)'
    BY <1>1, <1>2, <1>3, <1>5, <1>6, MovedToType DEF CallInv, FinishingInv
<1> QED BY <1>1, <1>4, <1>5, <1>7, MovedToType, CallStep, Zenon

LEMMA ClockFailsStep ==
    ASSUME IInv, NEW t \in Threads, ClockFails(t)
    PROVE  IInv'
<1>1. call \in [Threads -> Calls] /\ UNCHANGED <<stored, clock, token>> /\ CallInv(t)
    BY DEF IInv, TypeOK, ClockFails
<1>2. call' = [call EXCEPT ![t] = Returned(t, "clock_error")]
    BY <1>1 DEF ClockFails, Returns, Returned
<1>3. call'[t] = Returned(t, "clock_error")
    BY <1>1, <1>2
<1>4. CallInv(t)'
  <2>1. CASE call[t].pc = "clock"
    <3>1. call[t].op \in {"expire_operations"} /\ FinishingInv(t)
        BY <2>1, FinishingPlaces DEF ClockFails
    <3>2. "clock_error" \notin Terminal
        BY DEF Terminal
    <3> QED BY <1>1, <1>3, <3>1, <3>2, ReturnedType DEF CallInv, FinishingInv, Looking
  <2>2. CASE call[t].pc = "due"
    <3>1. call[t] \in Calls
        BY <1>1
    <3>2. call[t].op \in Looking
        BY <1>1, <2>2, <3>1 DEF CallInv, FinishingInv, Calls, Operations
    <3>3. LookingInv(t)
        BY <1>1, <3>2 DEF CallInv
    <3> QED BY <1>1, <1>3, <2>2, <3>3, ReturnedType DEF CallInv, LookingInv, Finishing, Cancelled
  <2> QED BY <2>1, <2>2 DEF ClockFails
<1> QED BY <1>1, <1>2, <1>4, ReturnedType, CallStep, Zenon

\* The exchange settles a state that was pending and leaves the others alone.
LEMMA SwapStep ==
    ASSUME IInv, NEW t \in Threads, Swap(t)
    PROVE  IInv'
<1> DEFINE s == call[t].state
           won == Requested(call[t].op)
<1>1. /\ call \in [Threads -> Calls] /\ stored \in [States -> Outcomes]
      /\ call[t].pc = "swap" /\ UNCHANGED <<clock, token>>
    BY DEF IInv, TypeOK, Swap
<1>2. /\ call[t].op \in Finishing
      /\ call[t].op \notin Looking /\ call[t].op # "none"
      /\ FinishingInv(t) /\ s \in States
    BY <1>1, FinishingPlaces DEF FinishingInv
<1>3. /\ won \in Terminal
      /\ won = "deadline" => \E d \in Deadlines : d <= clock
    BY <1>1, <1>2 DEF Finishing, Requested, Terminal, FinishingInv
<1>4. stored' = [stored EXCEPT ![s] = Exchanged(stored[s], won)]
    BY DEF Swap
<1> HIDE DEF won, s
<1>5. /\ stored'[s] \in Terminal
      /\ stored[s] # "pending" => stored'[s] = stored[s]
      /\ stored[s] = "pending" => stored'[s] = won
      /\ \A u \in States \ {s} : stored'[u] = stored[u]
      /\ stored' \in [States -> Outcomes]
    BY <1>1, <1>2, <1>3, <1>4 DEF Exchanged, Outcomes, Terminal
<1>6. Settled
    BY <1>5 DEF Settled
<1>7. DeadlinesPassed'
    BY <1>1, <1>2, <1>3, <1>5 DEF IInv, DeadlinesPassed
<1>8. call' = [call EXCEPT ![t] = MovedTo(t, "reload")]
    BY <1>1 DEF Swap, Continues, MovedTo, AfterSwap
<1>9. call'[t] = MovedTo(t, "reload")
    BY <1>1, <1>8
<1>10. CallInv(t)'
    BY <1>1, <1>2, <1>5, <1>9, MovedToType DEF CallInv, FinishingInv, s
<1>11. token' \in [Observers -> Chains] /\ \A u \in Observers \ {t} : token'[u] = token[u]
    BY <1>1 DEF IInv, TypeOK
<1> QED BY <1>1, <1>5, <1>6, <1>7, <1>8, <1>10, <1>11, MovedToType, ThreadStep, Zenon

LEMMA ReloadStep ==
    ASSUME IInv, NEW t \in Threads, Reload(t)
    PROVE  IInv'
<1> DEFINE o == stored[call[t].state]
<1>1. call \in [Threads -> Calls] /\ call[t].pc = "reload" /\ UNCHANGED <<stored, clock, token>>
    BY DEF IInv, TypeOK, Reload
<1>2. /\ call[t].op \in Finishing
      /\ call[t].op \notin Looking /\ call[t].op # "none"
      /\ FinishingInv(t) /\ o \in Outcomes
    BY <1>1, FinishingPlaces DEF FinishingInv
<1>3. call' = [call EXCEPT ![t] = Returned(t, o)]
    BY <1>1 DEF Reload, Reloaded, Returns, Returned
<1>4. call'[t] = Returned(t, o)
    BY <1>1, <1>3, ZenonT(30)
<1>5. /\ o \in Terminal \/ o = "pending"
      /\ call[t].begun # "pending" => o \in Terminal
    BY <1>1, <1>2 DEF FinishingInv, Outcomes
<1>6. /\ call'[t].op = call[t].op /\ call'[t].pc = "done" /\ call'[t].state = call[t].state
      /\ call'[t].begun = call[t].begun /\ call'[t].result = o /\ o = stored'[call'[t].state]
    BY <1>1, <1>2, <1>4, ReturnedType
<1>7. CallInv(t)'
    BY <1>2, <1>5, <1>6 DEF CallInv, FinishingInv
<1> QED BY <1>1, <1>2, <1>3, <1>7, ReturnedType, CallStep, Zenon

-----------------------------------------------------------------------------
(* Looking.                                                                *)

\* Every set of natural numbers has a least element.
LEMMA LeastElement ==
    ASSUME NEW S \in SUBSET Nat, S # {}
    PROVE  \E n \in S : \A m \in S : n <= m
<1> DEFINE less == {ss \in Nat \X Nat : ss[1] < ss[2]}
<1>1. IsWellFoundedOn(less, Nat)
    BY NatLessThanWellFounded DEF OpToRel
<1> HIDE DEF less
<1>2. PICK n \in S : \A m \in S : <<m, n>> \notin less
    BY <1>1, WFMin, Zenon
<1>3. ASSUME NEW m \in S PROVE n <= m
  <2>1. <<m, n>> \notin less
      BY <1>2
  <2> QED BY <2>1 DEF less
<1> QED BY <1>2, <1>3

\* What a chain stands for is the outcome of one of its states: of the first one,
\* or of one that is cancelled.
LEMMA ChainOutcomeReal ==
    ASSUME TypeOK, NEW c \in Chains
    PROVE  /\ ChainOutcome(c) \in Outcomes
           /\ ChainOutcome(c) # "pending" =>
                 stored[c[1]] # "pending" \/ CancelledFrom(c, 1)
<1> DEFINE cancelled == {i \in DOMAIN c : stored[c[i]] \in Cancelled}
           first == CHOOSE i \in cancelled : \A j \in cancelled : i <= j
<1>1. c \in Seq(States) /\ DOMAIN c = 1 .. Len(c) /\ Len(c) \in Nat /\ c[1] \in States
    BY ChainIsSequence
<1>2. CASE stored[c[1]] # "pending" \/ cancelled = {}
  <2>1. ChainOutcome(c) = stored[c[1]]
      BY <1>2 DEF ChainOutcome
  <2> QED BY <1>1, <2>1 DEF TypeOK
<1>3. CASE stored[c[1]] = "pending" /\ cancelled # {}
  <2>1. ChainOutcome(c) = stored[c[first]]
      BY <1>3 DEF ChainOutcome
  <2>2. cancelled \in SUBSET Nat
      BY <1>1
  <2>3. first \in cancelled
    <3>1. \E i \in cancelled : \A j \in cancelled : i <= j
        BY <1>3, <2>2, LeastElement, Zenon
    <3> HIDE DEF cancelled
    <3> QED BY <3>1
  <2>4. first \in DOMAIN c /\ stored[c[first]] \in Cancelled
      BY <2>3
  <2> HIDE DEF first, cancelled
  <2>5. first >= 1 /\ c[first] \in States
      BY <1>1, <2>4
  <2>6. CancelledFrom(c, 1)
      BY <2>4, <2>5 DEF CancelledFrom
  <2> QED BY <2>1, <2>5, <2>6 DEF TypeOK
<1> QED BY <1>2, <1>3

\* A thread takes another token and starts anew.
LEMMA TokenStep ==
    ASSUME IInv, NEW t \in Observers, NEW c \in Chains,
           token' = [token EXCEPT ![t] = c],
           call' = [call EXCEPT ![t] = NoCall],
           UNCHANGED <<stored, clock>>
    PROVE  IInv'
<1>1. /\ t \in Threads /\ call \in [Threads -> Calls] /\ token \in [Observers -> Chains]
      /\ stored' \in [States -> Outcomes] /\ clock' = clock
    BY DEF Threads, IInv, TypeOK
<1>2. NoCall \in Calls /\ NoCall.op = "none" /\ NoCall.pc = "done"
  <2>1. 1 \in 1 .. MaxDepth + 1
      BY CancellationAssumption
  <2> QED BY <2>1 DEF NoCall, Call, Calls, Operations, Outcomes
<1>3. call'[t] = NoCall
    BY <1>1
<1>4. CallInv(t)'
    BY <1>2, <1>3 DEF CallInv, Finishing, Looking
<1>5. token' \in [Observers -> Chains] /\ \A u \in Observers \ {t} : token'[u] = token[u]
    BY <1>1
<1>6. Settled /\ DeadlinesPassed'
    BY DEF Settled, IInv, DeadlinesPassed
<1> QED BY <1>1, <1>2, <1>4, <1>5, <1>6, ThreadStep, Zenon

LEMMA LookStep ==
    ASSUME IInv, NEW t \in Observers, NEW op \in Looking, NEW d \in Deadlines, Look(t, op, d)
    PROVE  IInv'
<1> DEFINE b == ChainOutcome(token[t])
           r == Call(op, "own", NoState, b, d)
<1>1. /\ t \in Threads /\ call \in [Threads -> Calls] /\ token[t] \in Chains
      /\ UNCHANGED <<stored, clock, token>>
    BY DEF Threads, IInv, TypeOK, Look
<1>2. b \in Outcomes /\ (b # "pending" => stored[token[t][1]] # "pending"
                                             \/ CancelledFrom(token[t], 1))
    BY <1>1, ChainOutcomeReal DEF IInv
<1>3. call' = [call EXCEPT ![t] = r]
    BY DEF Look
<1> HIDE DEF b
<1>4. r.op = op /\ r.pc = "own" /\ r.begun = b
    BY DEF Call
<1>5. r \in Calls
  <2>1. 1 \in 1 .. MaxDepth + 1
      BY CancellationAssumption
  <2> QED BY <1>2, <2>1 DEF Call, Calls, Operations
<1> HIDE DEF r
<1>6. call'[t] = r
    BY <1>1, <1>3
<1>7. CallInv(t)'
    BY <1>1, <1>2, <1>4, <1>6 DEF CallInv, LookingInv, CancelledFrom, Looking, Finishing
<1> QED BY <1>1, <1>3, <1>5, <1>7, CallStep, Zenon

\* At these places a look is.
LEMMA LookingPlaces ==
    ASSUME IInv, NEW t \in Threads, call[t].pc \in {"own", "parent", "due"}
    PROVE  /\ call[t].op \in Looking /\ call[t].op \notin Finishing /\ call[t].op # "none"
           /\ LookingInv(t)
           /\ t \in Observers /\ token[t] \in Chains
<1>1. call[t] \in Calls /\ CallInv(t)
    BY DEF IInv, TypeOK
<1>2. call[t].op \in Looking
    BY <1>1 DEF CallInv, FinishingInv, Calls, Operations
<1>3. LookingInv(t)
    BY <1>1, <1>2 DEF CallInv
<1>4. t \in Observers
    BY <1>3 DEF LookingInv
<1> QED BY <1>2, <1>3, <1>4 DEF Finishing, Looking, IInv, TypeOK

\* outcome() has found o, which is what it may report.
LEMMA ObservedStep ==
    ASSUME IInv, NEW t \in Threads, call[t].pc \in {"own", "parent"},
           NEW o \in Outcomes, Observed(t, o), UNCHANGED <<stored, clock, token>>,
           o = "pending" => call[t].begun = "pending",
           o = "completed" => stored[token[t][1]] = "completed",
           o \in Cancelled => \E i \in DOMAIN token[t] : stored[token[t][i]] = o
    PROVE  IInv'
<1>1. call \in [Threads -> Calls]
    BY DEF IInv, TypeOK
<1>2. /\ call[t].op \in Looking /\ call[t].op \notin Finishing /\ call[t].op # "none"
      /\ LookingInv(t) /\ t \in Observers
    BY LookingPlaces
<1>3. CASE call[t].op = "require_active" /\ o = "pending"
  <2>1. call' = [call EXCEPT ![t] = MovedTo(t, "due")]
      BY <1>1, <1>3 DEF Observed, Continues, MovedTo
  <2>2. call'[t] = MovedTo(t, "due")
      BY <1>1, <2>1, ZenonT(30)
  <2>3. CallInv(t)'
      BY <1>2, <1>3, <2>2, MovedToType DEF CallInv, LookingInv
  <2> QED BY <2>1, <2>3, MovedToType, CallStep, Zenon
<1>4. CASE ~(call[t].op = "require_active" /\ o = "pending")
  <2>1. call' = [call EXCEPT ![t] = Returned(t, o)]
      BY <1>1, <1>4 DEF Observed, Returns, Returned
  <2>2. call'[t] = Returned(t, o)
      BY <1>1, <2>1, ZenonT(30)
  <2>3. /\ call'[t].op = call[t].op /\ call'[t].pc = "done"
        /\ call'[t].begun = call[t].begun /\ call'[t].result = o
      BY <2>2, ReturnedType
  <2>4. o # "active"
      BY DEF Outcomes, Terminal
  <2>5. LookingInv(t)'
      BY <1>2, <2>3, <2>4 DEF LookingInv
  <2>6. CallInv(t)'
      BY <1>2, <2>3, <2>5 DEF CallInv
  <2> QED BY <2>1, <2>6, ReturnedType, CallStep, Zenon
<1> QED BY <1>3, <1>4

LEMMA LoadOwnStep ==
    ASSUME IInv, NEW t \in Threads, LoadOwn(t)
    PROVE  IInv'
<1> DEFINE own == stored[token[t][1]]
<1>1. call[t].pc = "own" /\ UNCHANGED <<stored, clock, token>> /\ call \in [Threads -> Calls]
    BY DEF LoadOwn, IInv, TypeOK
<1>2. /\ call[t].op \in Looking /\ call[t].op \notin Finishing /\ call[t].op # "none"
      /\ LookingInv(t) /\ t \in Observers /\ token[t] \in Chains
    BY <1>1, LookingPlaces
<1>3. /\ own \in Outcomes /\ 1 \in DOMAIN token[t] /\ DOMAIN token[t] = 1 .. Len(token[t])
      /\ Len(token[t]) \in 1 .. MaxDepth + 1
  <2>1. Len(token[t]) \in 1 .. MaxDepth + 1 /\ DOMAIN token[t] = 1 .. Len(token[t])
      BY <1>2, ChainIsSequence
  <2>2. token[t][1] \in States
      BY <1>2, ChainIsSequence
  <2> QED BY <2>1, <2>2, CancellationAssumption DEF IInv, TypeOK
<1>4. CASE own # "pending" \/ ~HasParents(t)
  <2>1. Observed(t, own)
      BY <1>4 DEF LoadOwn
  <2>2. own = "pending" => call[t].begun = "pending"
    <3> SUFFICES ASSUME own = "pending", call[t].begun # "pending" PROVE FALSE
        OBVIOUS
    <3>1. PICK i \in DOMAIN token[t] : stored[token[t][i]] \in Cancelled
        BY <1>1, <1>2 DEF LookingInv, CancelledFrom
    <3>2. i = 1
        BY <1>3, <1>4, CancellationAssumption DEF HasParents
    <3> QED BY <3>1, <3>2 DEF Cancelled
  <2> QED BY <1>1, <1>3, <2>1, <2>2, ObservedStep DEF Cancelled
<1>5. CASE own = "pending" /\ HasParents(t)
  <2> DEFINE r == [call[t] EXCEPT !.pc = "parent", !.index = 2]
  <2>1. call' = [call EXCEPT ![t] = r]
      BY <1>1, <1>5, Zenon DEF LoadOwn
  <2>2. 2 \in 2 .. Len(token[t]) /\ 2 \in 1 .. MaxDepth + 1
      BY <1>3, <1>5, CancellationAssumption DEF HasParents
  <2>3. call[t] \in Calls
      BY <1>1
  <2>4. /\ r \in Calls /\ r.op = call[t].op /\ r.pc = "parent" /\ r.index = 2
        /\ r.begun = call[t].begun
      BY <2>2, <2>3, Zenon DEF Calls
  <2> HIDE DEF r
  <2>5. call'[t] = r
      BY <1>1, <2>1
  <2>6. call[t].begun # "pending" => CancelledFrom(token[t], 2)
    <3> SUFFICES ASSUME call[t].begun # "pending" PROVE CancelledFrom(token[t], 2)
        OBVIOUS
    <3>1. PICK i \in DOMAIN token[t] : stored[token[t][i]] \in Cancelled
        BY <1>1, <1>2, <1>5 DEF LookingInv, CancelledFrom
    <3>2. i # 1
        BY <1>5, <3>1 DEF Cancelled
    <3>3. i >= 2
        BY <1>3, <3>2, CancellationAssumption
    <3> QED BY <3>1, <3>3 DEF CancelledFrom
  <2>7. CallInv(t)'
      BY <1>1, <1>2, <2>2, <2>4, <2>5, <2>6, ZenonT(30) DEF CallInv, LookingInv, CancelledFrom
  <2> QED BY <1>1, <2>1, <2>4, <2>7, CallStep, Zenon
<1> QED BY <1>4, <1>5

LEMMA LoadParentStep ==
    ASSUME IInv, NEW t \in Threads, LoadParent(t)
    PROVE  IInv'
<1> DEFINE k == call[t].index
           inherited == stored[token[t][k]]
<1>1. call[t].pc = "parent" /\ UNCHANGED <<stored, clock, token>> /\ call \in [Threads -> Calls]
    BY DEF LoadParent, IInv, TypeOK
<1>2. /\ call[t].op \in Looking /\ call[t].op \notin Finishing /\ call[t].op # "none"
      /\ LookingInv(t) /\ t \in Observers /\ token[t] \in Chains
    BY <1>1, LookingPlaces
<1>3. /\ Len(token[t]) \in 1 .. MaxDepth + 1 /\ DOMAIN token[t] = 1 .. Len(token[t])
      /\ token[t] \in Seq(States)
    BY <1>2, ChainIsSequence
<1>4. k \in 2 .. Len(token[t]) /\ (call[t].begun # "pending" => CancelledFrom(token[t], k))
    BY <1>1, <1>2 DEF LookingInv
<1>5. k \in DOMAIN token[t] /\ k \in Nat /\ Len(token[t]) \in Nat
    BY <1>3, <1>4, CancellationAssumption
<1>6. inherited \in Outcomes
    BY <1>3, <1>5 DEF IInv, TypeOK
<1>7. CASE Inherits(inherited)
  <2>1. call' = [call EXCEPT ![t] = Returned(t, inherited)]
      BY <1>1, <1>7 DEF LoadParent, Returns, Returned
  <2>2. call'[t] = Returned(t, inherited)
      BY <1>1, <2>1
  <2>3. CallInv(t)'
    <3>1. \E i \in DOMAIN token[t] : stored[token[t][i]] = inherited
        BY <1>5
    <3>2. inherited \notin {"pending", "active", "completed"}
        BY <1>7 DEF Inherits, Cancelled
    <3> HIDE DEF inherited
    <3>3. /\ call'[t].op = call[t].op /\ call'[t].pc = "done"
          /\ call'[t].begun = call[t].begun /\ call'[t].result = inherited
        BY <1>6, <2>2, ReturnedType
    <3>4. LookingInv(t)'
        BY <1>1, <1>2, <3>1, <3>2, <3>3 DEF LookingInv
    <3> QED BY <1>2, <3>3, <3>4 DEF CallInv
  <2> QED BY <1>1, <1>6, <2>1, <2>3, ReturnedType, CallStep, Zenon
<1>8. CASE ~Inherits(inherited) /\ IsLastParent(t)
  <2>1. Observed(t, "pending")
      BY <1>8 DEF LoadParent
  <2>2. call[t].begun = "pending"
    <3> SUFFICES ASSUME call[t].begun # "pending" PROVE FALSE
        OBVIOUS
    <3>1. PICK i \in DOMAIN token[t] : i >= k /\ stored[token[t][i]] \in Cancelled
        BY <1>4 DEF CancelledFrom
    <3>2. i = k
        BY <1>3, <1>5, <1>8, <3>1 DEF IsLastParent
    <3> QED BY <1>8, <3>1, <3>2 DEF Inherits
  <2> QED BY <1>1, <2>1, <2>2, ObservedStep DEF Outcomes, Cancelled
<1>9. CASE ~Inherits(inherited) /\ ~IsLastParent(t)
  <2> DEFINE r == [call[t] EXCEPT !.index = k + 1]
  <2>1. call' = [call EXCEPT ![t] = r]
      BY <1>1, <1>9 DEF LoadParent
  <2>2. k + 1 \in 2 .. Len(token[t]) /\ k + 1 \in 1 .. MaxDepth + 1
      BY <1>3, <1>4, <1>5, <1>9, CancellationAssumption DEF IsLastParent
  <2>3. call[t] \in Calls
      BY <1>1
  <2>4. /\ r \in Calls /\ r.op = call[t].op /\ r.pc = call[t].pc /\ r.index = k + 1
        /\ r.begun = call[t].begun
      BY <2>2, <2>3 DEF Calls
  <2> HIDE DEF r
  <2>5. call'[t] = r
      BY <1>1, <2>1
  <2>6. call[t].begun # "pending" => CancelledFrom(token[t], k + 1)
    <3> SUFFICES ASSUME call[t].begun # "pending" PROVE CancelledFrom(token[t], k + 1)
        OBVIOUS
    <3>1. PICK i \in DOMAIN token[t] : i >= k /\ stored[token[t][i]] \in Cancelled
        BY <1>4 DEF CancelledFrom
    <3>2. i # k
        BY <1>9, <3>1 DEF Inherits
    <3>3. i >= k + 1
        BY <1>3, <1>5, <3>1, <3>2
    <3> QED BY <3>1, <3>3 DEF CancelledFrom
  <2>7. CallInv(t)'
      BY <1>1, <1>2, <2>2, <2>4, <2>5, <2>6 DEF CallInv, LookingInv, CancelledFrom
  <2> QED BY <1>1, <2>1, <2>4, <2>7, CallStep, Zenon
<1> QED BY <1>7, <1>8, <1>9

LEMMA CheckDueStep ==
    ASSUME IInv, NEW t \in Threads, CheckDue(t)
    PROVE  IInv'
<1> DEFINE o == IF Expired(call[t].deadline) THEN "deadline" ELSE "active"
<1>1. call[t].pc = "due" /\ UNCHANGED <<stored, clock, token>> /\ call \in [Threads -> Calls]
    BY DEF CheckDue, IInv, TypeOK
<1>2. /\ call[t].op \in Looking /\ call[t].op \notin Finishing /\ call[t].op # "none"
      /\ LookingInv(t) /\ t \in Observers
    BY <1>1, LookingPlaces
<1>3. call' = [call EXCEPT ![t] = Returned(t, o)]
    BY <1>1 DEF CheckDue, Returns, Returned
<1>4. call'[t] = Returned(t, o)
    BY <1>1, <1>3
<1>5. o \in Outcomes \cup {"none", "active", "clock_error"}
    BY ZenonT(30) DEF Outcomes, Cancelled, Terminal
<1> HIDE DEF o
<1>6. CallInv(t)'
    BY <1>1, <1>2, <1>4, <1>5, ReturnedType DEF CallInv, LookingInv
<1> QED BY <1>1, <1>3, <1>5, <1>6, ReturnedType, CallStep, Zenon

-----------------------------------------------------------------------------
(* The invariant is inductive.                                             *)

LEMMA TickStep ==
    ASSUME IInv, Tick
    PROVE  IInv'
<1>1. TypeOK /\ clock \in Nat /\ clock' \in 0 .. MaxTime /\ clock' \in Nat /\ clock <= clock'
    BY CancellationAssumption DEF IInv, TypeOK, Tick
<1>2. UNCHANGED <<stored, token, call>>
    BY DEF Tick
<1>3. TypeOK'
    BY <1>1, <1>2 DEF TypeOK
<1>4. DeadlinesPassed'
  <2>1. ASSUME NEW d \in Deadlines, d <= clock PROVE d <= clock'
      BY <1>1, <2>1, CancellationAssumption
  <2> QED BY <1>2, <2>1 DEF IInv, DeadlinesPassed
<1>5. Settled
    BY <1>2 DEF Settled
<1>6. ASSUME NEW u \in Threads PROVE CallInv(u)'
    BY <1>1, <1>2, <1>5, OthersKeep DEF IInv
<1> QED BY <1>3, <1>4, <1>6 DEF IInv

LEMMA InitInv == Init => IInv
<1> SUFFICES ASSUME Init PROVE IInv
    OBVIOUS
<1>1. NoCall \in Calls /\ NoCall.op = "none" /\ NoCall.pc = "done"
  <2>1. 1 \in 1 .. MaxDepth + 1
      BY CancellationAssumption
  <2> QED BY <2>1 DEF NoCall, Call, Calls, Operations, Outcomes
<1>2. token \in [Observers -> Chains]
  <2>1. {<<s>> : s \in States} \subseteq Chains
      BY SingleChain
  <2> QED BY <2>1 DEF Init
<1>3. TypeOK
    BY <1>1, <1>2, CancellationAssumption DEF Init, TypeOK, Outcomes
<1>4. DeadlinesPassed
    BY DEF Init, DeadlinesPassed
<1>5. \A t \in Threads : CallInv(t)
    BY <1>1 DEF Init, CallInv, Finishing, Looking
<1> QED BY <1>3, <1>4, <1>5 DEF IInv

LEMMA NextInv == IInv /\ [Next]_vars => IInv'
<1> SUFFICES ASSUME IInv, [Next]_vars PROVE IInv'
    OBVIOUS
<1>1. ASSUME NEW t \in Observers, NEW s \in States, Token(t, s) PROVE IInv'
    BY <1>1, SingleChain, TokenStep, Zenon DEF Token
<1>2. ASSUME NEW t \in Observers, NEW s \in States, Child(t, s) PROVE IInv'
  <2>1. token[t] \in Chains
      BY DEF IInv, TypeOK
  <2>2. <<s>> \o token[t] \in Chains
      BY <1>2, <2>1, ChildChain DEF Child
  <2> QED BY <1>2, <2>2, TokenStep, Zenon DEF Child
<1>3. ASSUME NEW t \in Writers, NEW op \in Finishing, NEW s \in States, NEW d \in Deadlines,
             Start(t, op, s, d)
      PROVE  IInv'
    BY <1>3, StartStep
<1>4. ASSUME NEW t \in Observers, NEW op \in Looking, NEW d \in Deadlines, Look(t, op, d)
      PROVE  IInv'
    BY <1>4, LookStep
<1>5. ASSUME NEW t \in Threads, Access(t) PROVE IInv'
    BY <1>5, CheckExistingStep, ReadClockStep, ClockFailsStep, SwapStep, ReloadStep,
       LoadOwnStep, LoadParentStep, CheckDueStep DEF Access
<1>6. CASE Tick
    BY <1>6, TickStep
<1>7. CASE UNCHANGED vars
  <2>1. UNCHANGED <<stored, clock, token, call>>
      BY <1>7 DEF vars
  <2>2. TypeOK' /\ DeadlinesPassed' /\ Settled /\ clock \in Nat
      BY <2>1, CancellationAssumption DEF IInv, TypeOK, DeadlinesPassed, Settled
  <2>3. ASSUME NEW u \in Threads PROVE CallInv(u)'
      BY <2>1, <2>2, OthersKeep DEF IInv
  <2> QED BY <2>2, <2>3 DEF IInv
<1> QED BY <1>1, <1>2, <1>3, <1>4, <1>5, <1>6, <1>7 DEF Next

LEMMA Invariance == Spec => []IInv
BY InitInv, NextInv, PTL DEF Spec

-----------------------------------------------------------------------------
(* The results.                                                            *)

\* The model is well typed whatever the threads do.
THEOREM CancellationTypes == Spec => []TypeOK
<1>1. IInv => TypeOK
    BY DEF IInv
<1> QED BY <1>1, Invariance, PTL

\* CancellationState::finish: whatever the interleaving of the compare-exchanges,
\* the clock reads and the loads after them, complete(), cancel() and both
\* cancel_if_expired() give the one outcome the state has, and give one whenever
\* they asked for one and could read the clock.
THEOREM Agreement == Spec => []CallersAgree
<1>1. IInv => CallersAgree
    BY DEF IInv, CallInv, FinishingInv, CallersAgree, Idle, Finishing, Threads
<1> QED BY <1>1, Invariance, PTL

\* CancellationToken::outcome and require_active: although the chain is loaded
\* state by state while others write, no look that began on a cancelled or
\* finished chain says that the operation may go on.
THEOREM CancellationSeen == Spec => []NoMissedCancellation
<1>1. IInv => NoMissedCancellation
    BY DEF IInv, CallInv, LookingInv, NoMissedCancellation, Idle, Threads
<1> QED BY <1>1, Invariance, PTL

\* What outcome() reports is stored, with that cause, in the operation's own state
\* or in a state of its chain, and no deadline is stored before one has passed.
THEOREM ReportsReal == Spec => []ReportsAreReal
<1>1. IInv => ReportsAreReal
    BY DEF IInv, CallInv, LookingInv, DeadlinesPassed, ReportsAreReal, Idle, Threads, Looking
<1> QED BY <1>1, Invariance, PTL

\* A terminal outcome is final: no step of any thread changes a settled state.
THEOREM OutcomeIsFinal == Spec => [][Settled]_vars
<1>1. IInv /\ [Next]_vars => Settled \/ UNCHANGED vars
  <2> SUFFICES ASSUME IInv, Next PROVE Settled
      BY DEF vars
  <2>1. CASE UNCHANGED stored
      BY <2>1 DEF Settled
  <2>2. ASSUME NEW t \in Threads, Swap(t) PROVE Settled
      BY <2>2 DEF Swap, Exchanged, Settled, IInv, TypeOK
  <2> QED BY <2>1, <2>2, Zenon DEF Next, Token, Child, Start, Look, Access, CheckExisting, ReadClock,
             ClockFails, Reload, LoadOwn, LoadParent, CheckDue, Tick
<1> QED BY <1>1, Invariance, PTL DEF Spec

(***************************************************************************)
(* The slab pool.                                                          *)
(***************************************************************************)

-----------------------------------------------------------------------------
(* What an object owns, for any leases l.                                  *)

Leases == [index : Slots \cup {NoSlot}, active : BOOLEAN]

\* Objects lease slots.
Sound(l) == \A u \in Slots : l[u].active => l[u].index \in Slots

\* m has the leases of l, or fewer, and perhaps one of h on y.
Regranted(l, m, h, y) ==
    \A u \in Slots : m[u].active =>
       \/ l[u].active /\ m[u].index = l[u].index
       \/ u = h /\ m[u].index = y

Together(l, set) == \A u \in set : l[u].active => l[u].index \in set

OwnedIn(l, s) ==
    {t \in Slots : \A set \in SUBSET Slots : s \in set /\ Together(l, set) => t \in set}

\* A slot counts as owned by the object in it.
LEMMA OwnedSelf ==
    ASSUME NEW l, NEW s \in Slots
    PROVE  s \in OwnedIn(l, s) /\ OwnedIn(l, s) \subseteq Slots
BY DEF OwnedIn

\* Nothing is owned outside of a set that holds the slot and what its members lease.
LEMMA OwnedLeast ==
    ASSUME NEW l, NEW s \in Slots, NEW set \in SUBSET Slots, s \in set, Together(l, set)
    PROVE  OwnedIn(l, s) \subseteq set
BY DEF OwnedIn

\* What an owned object leases is owned.
LEMMA OwnedClosed ==
    ASSUME NEW l, Sound(l), NEW s \in Slots
    PROVE  Together(l, OwnedIn(l, s))
<1> SUFFICES ASSUME NEW u \in OwnedIn(l, s), l[u].active
             PROVE  l[u].index \in OwnedIn(l, s)
    BY DEF Together
<1>1. u \in Slots /\ l[u].index \in Slots
    BY OwnedSelf DEF Sound
<1>2. ASSUME NEW set \in SUBSET Slots, s \in set, Together(l, set)
      PROVE  l[u].index \in set
  <2>1. u \in set
      BY <1>2, OwnedLeast
  <2> QED BY <2>1, <1>2 DEF Together
<1> QED BY <1>1, <1>2 DEF OwnedIn

\* An object owns what the object it leases owns.
LEMMA OwnedOfMember ==
    ASSUME NEW l, Sound(l),
           NEW s \in Slots, l[s].active
    PROVE  OwnedIn(l, l[s].index) \subseteq OwnedIn(l, s)
<1>1. l[s].index \in OwnedIn(l, s)
    BY OwnedSelf, OwnedClosed DEF Together
<1> QED BY <1>1, OwnedSelf, OwnedClosed, OwnedLeast DEF Sound

\* It owns nothing else but its own slot.
LEMMA OwnedOnlyBy ==
    ASSUME NEW l, Sound(l),
           NEW s \in Slots, NEW t \in OwnedIn(l, s), t # s
    PROVE  l[s].active /\ t \in OwnedIn(l, l[s].index)
<1>1. CASE ~l[s].active
  <2>1. Together(l, {s})
      BY <1>1 DEF Together
  <2> QED BY <2>1, OwnedLeast
<1>2. CASE l[s].active
  <2> DEFINE set == {s} \cup OwnedIn(l, l[s].index)
  <2>1. l[s].index \in Slots /\ l[s].index \in OwnedIn(l, l[s].index) /\ set \subseteq Slots
      BY <1>2, OwnedSelf DEF Sound
  <2>2. Together(l, set)
      BY <2>1, OwnedClosed DEF Together
  <2> QED BY <1>2, <2>1, <2>2, OwnedLeast
<1> QED BY <1>1, <1>2

\* A rank that falls along the leases: no object owns itself.
Falls(l, rank) ==
    /\ rank \in [Slots -> Nat]
    /\ \A s \in Slots : l[s].active => rank[l[s].index] < rank[s]

Acyclic(l) == \E rank : Falls(l, rank)

\* An object owns only objects of at most its rank.
LEMMA OwnedRanks ==
    ASSUME NEW l, Sound(l),
           NEW rank, Falls(l, rank), NEW s \in Slots, NEW t \in OwnedIn(l, s)
    PROVE  rank[t] <= rank[s]
<1> DEFINE set == {u \in Slots : rank[u] <= rank[s]}
<1>1. s \in set /\ set \subseteq Slots
    BY DEF Falls
<1>2. Together(l, set)
    BY DEF Together, Falls, Sound
<1>3. OwnedIn(l, s) \subseteq set
  <2> HIDE DEF set
  <2> QED BY <1>1, <1>2, OwnedLeast
<1> QED BY <1>3

\* When only h gets a new lease, on y, an object owns at most what it owned and,
\* if it owned h, what the object in y owned.
LEMMA OwnedAfter ==
    ASSUME NEW l, Sound(l),
           NEW m, NEW h, NEW y \in Slots,
           Regranted(l, m, h, y),
           NEW x \in Slots
    PROVE  /\ OwnedIn(m, x) \subseteq OwnedIn(l, x) \cup OwnedIn(l, y)
           /\ h \notin OwnedIn(l, x) => OwnedIn(m, x) \subseteq OwnedIn(l, x)
<1>1. /\ x \in OwnedIn(l, x) /\ y \in OwnedIn(l, y)
      /\ OwnedIn(l, x) \subseteq Slots /\ OwnedIn(l, y) \subseteq Slots
    BY OwnedSelf
<1>2. Together(l, OwnedIn(l, x)) /\ Together(l, OwnedIn(l, y))
    BY OwnedClosed
<1>3. Together(m, OwnedIn(l, x) \cup OwnedIn(l, y))
    BY <1>1, <1>2 DEF Together, Regranted
<1>4. ASSUME h \notin OwnedIn(l, x)
      PROVE  Together(m, OwnedIn(l, x))
    BY <1>1, <1>2, <1>4 DEF Together, Regranted
<1> QED BY <1>1, <1>3, <1>4, OwnedLeast

\* A new lease of h on y leaves the leases free of cycles if y does not own h.
LEMMA AcyclicAfter ==
    ASSUME NEW l, Sound(l), Acyclic(l),
           NEW m, NEW h, NEW y \in Slots, h \notin OwnedIn(l, y),
           Regranted(l, m, h, y)
    PROVE  Acyclic(m)
<1>1. PICK rank : Falls(l, rank)
    BY DEF Acyclic
<1> DEFINE new == [s \in Slots |-> IF h \in OwnedIn(l, s) THEN rank[s] + rank[y] + 1 ELSE rank[s]]
<1>2. new \in [Slots -> Nat]
    BY <1>1 DEF Falls
<1>3. ASSUME NEW s \in Slots, m[s].active
      PROVE  new[m[s].index] < new[s]
  <2>0. rank \in [Slots -> Nat]
      BY <1>1 DEF Falls
  <2>1. CASE l[s].active /\ m[s].index = l[s].index
    <3>1. l[s].index \in Slots /\ rank[l[s].index] < rank[s]
        BY <1>1, <2>1 DEF Falls, Sound
    <3>2. h \in OwnedIn(l, l[s].index) => h \in OwnedIn(l, s)
        BY <2>1, OwnedOfMember
    <3> QED BY <2>0, <2>1, <3>1, <3>2
  <2>2. CASE s = h /\ m[s].index = y
    <3>1. h \in OwnedIn(l, s)
        BY <2>2, OwnedSelf
    <3> QED BY <2>0, <2>2, <3>1
  <2> QED BY <1>3, <2>1, <2>2 DEF Regranted
<1>4. Falls(m, new)
  <2> HIDE DEF new
  <2> QED BY <1>2, <1>3 DEF Falls
<1> QED BY <1>4 DEF Acyclic

-----------------------------------------------------------------------------
(* The free list, for any head, links and set of free slots.               *)

Listed(head, links, free) ==
    LET n == Cardinality(free)
    IN  \E path \in Bijection(1 .. n, free) :
           /\ head = IF n = 0 THEN NoSlot ELSE path[1]
           /\ \A i \in 1 .. n : links[path[i]] = IF i = n THEN NoSlot ELSE path[i + 1]

\* There are Capacity slots, and a set of them is finite.
LEMMA SlotSets ==
    ASSUME NEW set \in SUBSET Slots
    PROVE  /\ IsFiniteSet(set) /\ Cardinality(set) \in Nat /\ Cardinality(set) <= Capacity
           /\ Cardinality(Slots) = Capacity
<1>1. IsFiniteSet(Slots) /\ Cardinality(Slots) = Capacity
    BY SlabAssumption, FS_Interval DEF Slots
<1>2. IsFiniteSet(set) /\ Cardinality(set) <= Cardinality(Slots)
    BY <1>1, FS_Subset
<1> QED BY <1>1, <1>2, FS_CardinalityType

\* The head is free, and without it the rest of the list holds the rest.
LEMMA ListTakes ==
    ASSUME NEW free \in SUBSET Slots, NEW head, NEW links, Listed(head, links, free),
           head # NoSlot
    PROVE  head \in free /\ Listed(links[head], links, free \ {head})
<1> DEFINE n == Cardinality(free)
<1>1. PICK path \in Bijection(1 .. n, free) :
           /\ head = IF n = 0 THEN NoSlot ELSE path[1]
           /\ \A i \in 1 .. n : links[path[i]] = IF i = n THEN NoSlot ELSE path[i + 1]
    BY DEF Listed
<1>2. n \in Nat /\ n # 0 /\ IsFiniteSet(free)
    BY <1>1, SlotSets
<1>3. /\ path \in [1 .. n -> free]
      /\ \A i, j \in 1 .. n : path[i] = path[j] => i = j
      /\ \A s \in free : \E i \in 1 .. n : path[i] = s
    BY <1>1 DEF Bijection, Injection, Surjection, IsInjective
<1>4. head = path[1] /\ head \in free
    BY <1>1, <1>2, <1>3
<1>5. Cardinality(free \ {head}) = n - 1
    BY <1>2, <1>4, FS_RemoveElement, Zenon
<1> HIDE DEF n
<1> DEFINE rest == [i \in 1 .. n - 1 |-> path[i + 1]]
<1>6. rest \in Bijection(1 .. n - 1, free \ {head})
  <2>1. \A i \in 1 .. n - 1 : rest[i] = path[i + 1] /\ i + 1 \in 1 .. n /\ i + 1 # 1
      BY <1>2
  <2>2. rest \in [1 .. n - 1 -> free \ {head}]
      BY <1>2, <1>3, <1>4, <2>1
  <2>3. \A i, j \in 1 .. n - 1 : rest[i] = rest[j] => i = j
      BY <1>2, <1>3, <2>1
  <2>4. ASSUME NEW s \in free \ {head} PROVE \E i \in 1 .. n - 1 : rest[i] = s
    <3>1. PICK i \in 1 .. n : path[i] = s
        BY <1>3
    <3>2. i # 1 /\ i - 1 \in 1 .. n - 1 /\ rest[i - 1] = s
        BY <1>2, <1>4, <3>1
    <3> QED BY <3>2
  <2> HIDE DEF rest
  <2> QED BY <2>2, <2>3, <2>4 DEF Bijection, Injection, Surjection, IsInjective
<1>7. links[head] = IF n - 1 = 0 THEN NoSlot ELSE rest[1]
    BY <1>1, <1>2, <1>4
<1>8. ASSUME NEW i \in 1 .. n - 1
      PROVE  links[rest[i]] = IF i = n - 1 THEN NoSlot ELSE rest[i + 1]
  <2>1. i + 1 \in 1 .. n /\ rest[i] = path[i + 1]
      BY <1>2
  <2>2. links[path[i + 1]] = IF i + 1 = n THEN NoSlot ELSE path[(i + 1) + 1]
      BY <1>1, <2>1
  <2>3. i # n - 1 => i + 1 \in 1 .. n - 1 /\ rest[i + 1] = path[(i + 1) + 1]
      BY <1>2
  <2> QED BY <1>2, <2>1, <2>2, <2>3
<1>9. Listed(links[head], links, free \ {head})
  <2> HIDE DEF rest
  <2> DEFINE k == n - 1
  <2>1. /\ links[head] = IF k = 0 THEN NoSlot ELSE rest[1]
        /\ \A i \in 1 .. k : links[rest[i]] = IF i = k THEN NoSlot ELSE rest[i + 1]
        /\ rest \in Bijection(1 .. k, free \ {head})
        /\ k = Cardinality(free \ {head})
      BY <1>5, <1>6, <1>7, <1>8
  <2> HIDE DEF k
  <2> QED BY <2>1, Zenon DEF Listed
<1> QED BY <1>4, <1>9

\* A slot that was not free becomes the head of the list.
LEMMA ListGains ==
    ASSUME NEW free \in SUBSET Slots, NEW head, NEW links, DOMAIN links = Slots,
           Listed(head, links, free), NEW x \in Slots \ free
    PROVE  Listed(x, [links EXCEPT ![x] = head], free \cup {x})
<1> DEFINE n == Cardinality(free)
<1>1. PICK path \in Bijection(1 .. n, free) :
           /\ head = IF n = 0 THEN NoSlot ELSE path[1]
           /\ \A i \in 1 .. n : links[path[i]] = IF i = n THEN NoSlot ELSE path[i + 1]
    BY DEF Listed
<1>2. n \in Nat /\ IsFiniteSet(free)
    BY SlotSets
<1>3. /\ path \in [1 .. n -> free]
      /\ \A i, j \in 1 .. n : path[i] = path[j] => i = j
      /\ \A s \in free : \E i \in 1 .. n : path[i] = s
    BY <1>1 DEF Bijection, Injection, Surjection, IsInjective
<1>4. Cardinality(free \cup {x}) = n + 1
    BY <1>2, FS_AddElement, Zenon
<1> HIDE DEF n
<1> DEFINE more == [i \in 1 .. n + 1 |-> IF i = 1 THEN x ELSE path[i - 1]]
           after == [links EXCEPT ![x] = head]
<1>5. \A i \in 1 .. n + 1 : i # 1 => i - 1 \in 1 .. n /\ more[i] = path[i - 1]
    BY <1>2
<1>6. 1 \in 1 .. n + 1 /\ more[1] = x
    BY <1>2
<1>7. more \in Bijection(1 .. n + 1, free \cup {x})
  <2>1. more \in [1 .. n + 1 -> free \cup {x}]
      BY <1>2, <1>3, <1>5
  <2>2. ASSUME NEW i \in 1 .. n + 1, NEW j \in 1 .. n + 1, more[i] = more[j] PROVE i = j
    <3>1. CASE i = 1 \/ j = 1
        BY <1>3, <1>5, <1>6, <2>2, <3>1
    <3>2. CASE i # 1 /\ j # 1
      <4>1. i - 1 = j - 1
          BY <1>3, <1>5, <2>2, <3>2
      <4> QED BY <4>1, <1>2
    <3> QED BY <3>1, <3>2
  <2>3. ASSUME NEW s \in free \cup {x} PROVE \E i \in 1 .. n + 1 : more[i] = s
    <3>1. CASE s \in free
      <4>1. PICK i \in 1 .. n : path[i] = s
          BY <1>3, <3>1
      <4>2. i + 1 \in 1 .. n + 1 /\ more[i + 1] = s
          BY <1>2, <4>1
      <4> QED BY <4>2
    <3> QED BY <1>6, <3>1
  <2> HIDE DEF more
  <2> QED BY <2>1, <2>2, <2>3 DEF Bijection, Injection, Surjection, IsInjective
<1>8. ASSUME NEW i \in 1 .. n + 1
      PROVE  after[more[i]] = IF i = n + 1 THEN NoSlot ELSE more[i + 1]
  <2>1. CASE i = 1
    <3>1. after[x] = head
        OBVIOUS
    <3>2. n # 0 => 2 \in 1 .. n + 1 /\ more[2] = path[1]
        BY <1>2, <1>5
    <3> QED BY <1>1, <1>2, <1>6, <2>1, <3>1, <3>2
  <2>2. CASE i # 1
    <3>1. i - 1 \in 1 .. n /\ more[i] = path[i - 1] /\ path[i - 1] \in free
        BY <1>3, <1>5, <2>2
    <3>2. after[more[i]] = links[path[i - 1]]
        BY <3>1
    <3>3. links[path[i - 1]] = IF i - 1 = n THEN NoSlot ELSE path[(i - 1) + 1]
        BY <1>1, <3>1
    <3>4. i # n + 1 => more[i + 1] = path[i]
        BY <1>2, <1>5, <2>2
    <3> QED BY <1>2, <3>2, <3>3, <3>4
  <2> QED BY <2>1, <2>2
<1>9. x = IF n + 1 = 0 THEN NoSlot ELSE more[1]
    BY <1>2, <1>6
<1> HIDE DEF more, after
<1>10. Listed(x, after, free \cup {x})
  <2> DEFINE k == n + 1
             all == free \cup {x}
  <2>1. /\ x = IF k = 0 THEN NoSlot ELSE more[1]
        /\ \A i \in 1 .. k : after[more[i]] = IF i = k THEN NoSlot ELSE more[i + 1]
        /\ more \in Bijection(1 .. k, all)
        /\ k = Cardinality(all)
      BY <1>4, <1>7, <1>8, <1>9
  <2> HIDE DEF k, all
  <2>2. Listed(x, after, all)
      BY <2>1, Zenon DEF Listed
  <2> QED BY <2>2 DEF all
<1> QED BY <1>10 DEF after

-----------------------------------------------------------------------------
(* The inductive invariant.                                                *)

\* Active leases and occupied slots match one to one, only an object that is
\* there has a member that leases, and no object owns itself.
LeaseInv(l, occ) ==
    /\ \A h \in Handles : l[h].active => l[h].index \in Slots /\ occ[l[h].index]
    /\ \A g, h \in Handles : l[g].active /\ l[h].active /\ l[g].index = l[h].index => g = h
    /\ \A s \in Slots : occ[s] => \E h \in Handles : l[h].active /\ l[h].index = s
    /\ \A s \in Slots : l[s].active => occ[s]
    /\ Acyclic(l)

\* A call in progress works on a handle that is there and that no other call
\* works on; a constructor has a slot of its own, a destructor the slot its
\* handle leases.
FrameInv(st, l, occ) ==
    /\ \A i \in DOMAIN st :
          /\ st[i].handle \in Slots => occ[st[i].handle]
          /\ st[i].op = "construct" => ~occ[st[i].index] /\ ~l[st[i].handle].active
          /\ st[i].op = "destroy" => l[st[i].handle].active /\ l[st[i].handle].index = st[i].index
    /\ \A i, j \in DOMAIN st : i # j =>
          /\ st[i].handle # st[j].handle
          /\ st[i].op = "construct" /\ st[j].op = "construct" => st[i].index # st[j].index

\* A destructor destroys nothing that a call below it works on.
NestInv(st, l) ==
    \A i, j \in DOMAIN st :
       i < j /\ st[j].op = "destroy" => st[i].handle \notin OwnedIn(l, st[j].index)

Building(st) == {st[i].index : i \in {j \in DOMAIN st : st[j].op = "construct"}}

SlabTypes ==
    /\ initialized \in BOOLEAN
    /\ freeHead \in Slots \cup {NoSlot}
    /\ next \in [Slots -> Slots \cup {NoSlot}]
    /\ occupied \in [Slots -> BOOLEAN]
    /\ lease \in [Handles -> Leases]
    /\ stack \in Seq(Frames)

\* Before the first try_acquire nothing is leased.
StartInv ==
    ~initialized => /\ stack = <<>>
                    /\ \A s \in Slots : ~occupied[s]
                    /\ \A h \in Handles : ~lease[h].active

ListInv == initialized => Listed(freeHead, next, FreeSlots)

CountInv == liveLeases = Cardinality({s \in Slots : occupied[s]})

SlabInv ==
    /\ SlabTypes /\ StartInv /\ ListInv /\ CountInv
    /\ LeaseInv(lease, occupied) /\ FrameInv(stack, lease, occupied) /\ NestInv(stack, lease)

-----------------------------------------------------------------------------
(* Calls start and end.                                                    *)

\* A handle is a variable or the member of an object, never both.
LEMMA HandleKinds ==
    /\ Slots \subseteq Handles /\ Variables \subseteq Handles
    /\ \A h \in Handles : h \in Slots \/ (h \in Variables /\ h \notin Slots)
    /\ Variables \cap Slots = {} /\ NoSlot \notin Slots
BY SlabAssumption DEF Handles, Slots, NoSlot

\* The model's names for what is owned and under construction.
LEMMA Names ==
    /\ \A s : Owned(s) = OwnedIn(lease, s)
    /\ \A s : (Owned(s))' = OwnedIn(lease', s)
    /\ InConstruction = Building(stack) /\ InConstruction' = Building(stack')
BY DEF Owned, OwnedIn, OwnedTogether, Together, InConstruction, Building

\* A frame is pushed.
LEMMA FramePushed ==
    ASSUME NEW st \in Seq(Frames), NEW f \in Frames
    PROVE  LET more == Append(st, f) IN
           /\ more \in Seq(Frames) /\ DOMAIN more = DOMAIN st \cup {Len(st) + 1}
           /\ Len(st) + 1 \notin DOMAIN st /\ \A i \in DOMAIN st : i < Len(st) + 1
           /\ more[Len(st) + 1] = f /\ \A i \in DOMAIN st : more[i] = st[i]
           /\ Building(more) = IF f.op = "construct" THEN Building(st) \cup {f.index} ELSE Building(st)
<1> DEFINE more == Append(st, f)
<1>1. /\ more \in Seq(Frames) /\ DOMAIN more = DOMAIN st \cup {Len(st) + 1}
      /\ Len(st) + 1 \notin DOMAIN st /\ \A i \in DOMAIN st : i < Len(st) + 1
      /\ more[Len(st) + 1] = f /\ \A i \in DOMAIN st : more[i] = st[i]
    OBVIOUS
<1> HIDE DEF more
<1>2. Building(more) = IF f.op = "construct" THEN Building(st) \cup {f.index} ELSE Building(st)
    BY <1>1 DEF Building
<1> QED BY <1>1, <1>2 DEF more

\* The last frame is popped.
LEMMA FramePopped ==
    ASSUME NEW st \in Seq(Frames), st # <<>>
    PROVE  LET n == Len(st)
               less == SubSeq(st, 1, n - 1) IN
           /\ less \in Seq(Frames) /\ n \in DOMAIN st /\ st[n] \in Frames
           /\ DOMAIN less = DOMAIN st \ {n} /\ \A i \in DOMAIN less : less[i] = st[i] /\ i < n
           /\ Building(st) = IF st[n].op = "construct" THEN Building(less) \cup {st[n].index}
                            ELSE Building(less)
<1> DEFINE n == Len(st)
           less == SubSeq(st, 1, n - 1)
<1>1. /\ less \in Seq(Frames) /\ n \in DOMAIN st /\ st[n] \in Frames
      /\ DOMAIN less = DOMAIN st \ {n} /\ \A i \in DOMAIN less : less[i] = st[i] /\ i < n
    OBVIOUS
<1> HIDE DEF n, less
<1>2. Building(st) = IF st[n].op = "construct" THEN Building(less) \cup {st[n].index}
                            ELSE Building(less)
    BY <1>1, ZenonT(30) DEF Building
<1> QED BY <1>1, <1>2 DEF n, less

\* try_acquire takes the head of the free list for the constructor.
LEMMA AcquireStep ==
    ASSUME SlabInv, NEW h \in Handles, TryAcquire(h)
    PROVE  SlabInv'
<1> DEFINE f == [op |-> "construct", handle |-> h, index |-> freeHead]
<1>1. /\ initialized /\ (h \in Slots => occupied[h]) /\ h \notin InUse /\ ~lease[h].active
      /\ freeHead # NoSlot /\ freeHead' = next[freeHead] /\ stack' = Append(stack, f)
      /\ UNCHANGED <<initialized, liveLeases, next, occupied, lease>>
  <2>1. h \in Slots => occupied[h]
      BY HandleKinds, ZenonT(30) DEF TryAcquire, Exists
  <2> QED BY <2>1, Zenon DEF TryAcquire, HeadAfterAcquire
<1>2. FreeSlots \subseteq Slots /\ Listed(freeHead, next, FreeSlots)
    BY <1>1 DEF SlabInv, ListInv, FreeSlots
<1>3. freeHead \in FreeSlots /\ Listed(freeHead', next', FreeSlots \ {freeHead})
  <2>1. freeHead \in FreeSlots /\ Listed(next[freeHead], next, FreeSlots \ {freeHead})
      BY <1>1, <1>2, ListTakes, Zenon
  <2> QED BY <1>1, <2>1, Zenon
<1>4. freeHead \in Slots /\ ~occupied[freeHead] /\ freeHead \notin Building(stack)
    BY <1>3, Names DEF FreeSlots
<1>5. stack \in Seq(Frames) /\ f \in Frames
    BY <1>4 DEF SlabInv, SlabTypes, Frames
<1>6. /\ stack' \in Seq(Frames) /\ DOMAIN stack' = DOMAIN stack \cup {Len(stack) + 1}
      /\ Len(stack) + 1 \notin DOMAIN stack /\ \A i \in DOMAIN stack : i < Len(stack) + 1
      /\ stack'[Len(stack) + 1] = f /\ \A i \in DOMAIN stack : stack'[i] = stack[i]
      /\ Building(stack') = Building(stack) \cup {freeHead}
  <2> HIDE DEF f
  <2>1. f.op = "construct" /\ f.index = freeHead
      BY DEF f
  <2> QED BY <1>1, <1>5, <2>1, FramePushed
<1> HIDE DEF f
<1>7. f.op = "construct" /\ f.index = freeHead /\ f.handle = h
    BY DEF f
<1>8. SlabTypes'
    BY <1>1, <1>4, <1>6 DEF SlabInv, SlabTypes
<1>9. ListInv'
  <2>1. FreeSlots' = FreeSlots \ {freeHead}
      BY <1>1, <1>6, Names DEF FreeSlots
  <2> QED BY <1>3, <2>1, ZenonT(30) DEF ListInv
<1>10. FrameInv(stack', lease', occupied')
  <2>1. FrameInv(stack, lease, occupied) /\ \A i \in DOMAIN stack : stack[i].handle # h
      BY <1>1, ZenonT(30) DEF SlabInv, InUse
  <2>2. \A i \in DOMAIN stack : stack[i].op = "construct" => stack[i].index # freeHead
      BY <1>4, ZenonT(30) DEF Building
  <2>3. ASSUME NEW i \in DOMAIN stack'
        PROVE  /\ stack'[i].handle \in Slots => occupied'[stack'[i].handle]
               /\ stack'[i].op = "construct" =>
                     ~occupied'[stack'[i].index] /\ ~lease'[stack'[i].handle].active
               /\ stack'[i].op = "destroy" =>
                     lease'[stack'[i].handle].active /\ lease'[stack'[i].handle].index = stack'[i].index
    <3>1. CASE i = Len(stack) + 1
      <4>1. stack'[i] = f
          BY <1>6, <3>1, ZenonT(30)
      <4> QED BY <1>1, <1>4, <1>7, <4>1, ZenonT(30)
    <3>2. CASE i \in DOMAIN stack
      <4>1. stack'[i] = stack[i]
          BY <1>6, <3>2, ZenonT(30)
      <4>2. /\ stack[i].handle \in Slots => occupied[stack[i].handle]
            /\ stack[i].op = "construct" => ~occupied[stack[i].index] /\ ~lease[stack[i].handle].active
            /\ stack[i].op = "destroy" =>
                  lease[stack[i].handle].active /\ lease[stack[i].handle].index = stack[i].index
          BY <2>1, <3>2, ZenonT(30) DEF FrameInv
      <4> QED BY <1>1, <4>1, <4>2, ZenonT(30)
    <3> QED BY <1>6, <3>1, <3>2, ZenonT(30)
  <2>4. ASSUME NEW i \in DOMAIN stack', NEW j \in DOMAIN stack', i # j
        PROVE  /\ stack'[i].handle # stack'[j].handle
               /\ stack'[i].op = "construct" /\ stack'[j].op = "construct" => stack'[i].index # stack'[j].index
    <3>1. CASE i \in DOMAIN stack /\ j \in DOMAIN stack
      <4>1. stack'[i] = stack[i] /\ stack'[j] = stack[j]
          BY <1>6, <3>1, ZenonT(30)
      <4> QED BY <2>1, <2>4, <3>1, <4>1, ZenonT(30) DEF FrameInv
    <3>2. CASE i = Len(stack) + 1 /\ j \in DOMAIN stack
      <4>1. stack'[i] = f /\ stack'[j] = stack[j]
          BY <1>6, <3>2, ZenonT(30)
      <4> QED BY <1>7, <2>1, <2>2, <3>2, <4>1, ZenonT(30)
    <3>3. CASE i \in DOMAIN stack /\ j = Len(stack) + 1
      <4>1. stack'[i] = stack[i] /\ stack'[j] = f
          BY <1>6, <3>3, ZenonT(30)
      <4> QED BY <1>7, <2>1, <2>2, <3>3, <4>1, ZenonT(30)
    <3> QED BY <1>6, <2>4, <3>1, <3>2, <3>3, ZenonT(30)
  <2> QED BY <2>3, <2>4, ZenonT(30) DEF FrameInv
<1>11. NestInv(stack', lease')
  <2>1. NestInv(stack, lease)
      BY DEF SlabInv
  <2>2. ASSUME NEW i \in DOMAIN stack', NEW j \in DOMAIN stack', i < j, stack'[j].op = "destroy"
        PROVE  i \in DOMAIN stack /\ j \in DOMAIN stack
    <3>1. j \in DOMAIN stack /\ j < Len(stack) + 1
        BY <1>6, <1>7, <2>2, ZenonT(30)
    <3>2. i \in Nat /\ j \in Nat /\ Len(stack) \in Nat
        BY <1>5, <1>6
    <3>3. i # Len(stack) + 1
        BY <2>2, <3>1, <3>2
    <3> QED BY <1>6, <3>1, <3>3, ZenonT(30)
  <2>3. lease' = lease
      BY <1>1
  <2>4. ASSUME NEW i \in DOMAIN stack', NEW j \in DOMAIN stack', i < j, stack'[j].op = "destroy"
        PROVE  stack'[i].handle \notin OwnedIn(lease', stack'[j].index)
    <3>1. i \in DOMAIN stack /\ j \in DOMAIN stack
        BY <2>2, <2>4, ZenonT(30)
    <3>2. stack'[i] = stack[i] /\ stack'[j] = stack[j]
        BY <1>6, <3>1, ZenonT(30)
    <3> QED BY <2>1, <2>3, <2>4, <3>1, <3>2, ZenonT(30) DEF NestInv
  <2> QED BY <2>4, ZenonT(30) DEF NestInv
<1> QED BY <1>1, <1>8, <1>9, <1>10, <1>11 DEF SlabInv, StartInv, CountInv

\* A destructor starts, of an object no call in progress depends on.
LEMMA DestructorStarts ==
    ASSUME SlabInv, NEW h \in Handles, lease[h].active,
           \A i \in DOMAIN stack :
              /\ stack[i].handle # h
              /\ stack[i].handle \notin OwnedIn(lease, lease[h].index),
           stack' = Append(stack, [op |-> "destroy", handle |-> h, index |-> lease[h].index]),
           UNCHANGED <<initialized, freeHead, liveLeases, next, occupied, lease>>
    PROVE  SlabInv'
<1> DEFINE f == [op |-> "destroy", handle |-> h, index |-> lease[h].index]
<1>1. /\ lease[h].index \in Slots /\ initialized /\ (h \in Slots => occupied[h])
      /\ initialized \in BOOLEAN
    BY ZenonT(30) DEF SlabInv, LeaseInv, StartInv, SlabTypes
<1>2. stack \in Seq(Frames) /\ f \in Frames
    BY <1>1, ZenonT(30) DEF SlabInv, SlabTypes, Frames
<1> HIDE DEF f
<1>3. f.op = "destroy" /\ f.index = lease[h].index /\ f.handle = h /\ stack' = Append(stack, f)
    BY ZenonT(30) DEF f
<1>4. /\ stack' \in Seq(Frames) /\ DOMAIN stack' = DOMAIN stack \cup {Len(stack) + 1}
      /\ Len(stack) + 1 \notin DOMAIN stack /\ \A i \in DOMAIN stack : i < Len(stack) + 1
      /\ stack'[Len(stack) + 1] = f /\ \A i \in DOMAIN stack : stack'[i] = stack[i]
      /\ Building(stack') = Building(stack)
  <2>1. f.op # "construct"
      BY <1>3
  <2> QED BY <1>2, <1>3, <2>1, FramePushed
<1>5. SlabTypes'
    BY <1>4, ZenonT(30) DEF SlabInv, SlabTypes
<1>6. ListInv'
  <2>1. FreeSlots' = FreeSlots
      BY <1>4, Names DEF FreeSlots
  <2> QED BY <2>1 DEF ListInv, SlabInv
<1>7. FrameInv(stack', lease', occupied')
  <2>1. FrameInv(stack, lease, occupied)
      BY ZenonT(30) DEF SlabInv
  <2>2. ASSUME NEW i \in DOMAIN stack'
        PROVE  /\ stack'[i].handle \in Slots => occupied'[stack'[i].handle]
               /\ stack'[i].op = "construct" =>
                     ~occupied'[stack'[i].index] /\ ~lease'[stack'[i].handle].active
               /\ stack'[i].op = "destroy" =>
                     lease'[stack'[i].handle].active /\ lease'[stack'[i].handle].index = stack'[i].index
    <3>1. CASE i = Len(stack) + 1
      <4>1. stack'[i] = f
          BY <1>4, <3>1, ZenonT(30)
      <4> QED BY <1>1, <1>3, <4>1, ZenonT(30)
    <3>2. CASE i \in DOMAIN stack
      <4>1. stack'[i] = stack[i]
          BY <1>4, <3>2, ZenonT(30)
      <4>2. /\ stack[i].handle \in Slots => occupied[stack[i].handle]
            /\ stack[i].op = "construct" => ~occupied[stack[i].index] /\ ~lease[stack[i].handle].active
            /\ stack[i].op = "destroy" =>
                  lease[stack[i].handle].active /\ lease[stack[i].handle].index = stack[i].index
          BY <2>1, <3>2, ZenonT(30) DEF FrameInv
      <4> QED BY <1>1, <4>1, <4>2, ZenonT(30)
    <3> QED BY <1>4, <3>1, <3>2, ZenonT(30)
  <2>3. ASSUME NEW i \in DOMAIN stack', NEW j \in DOMAIN stack', i # j
        PROVE  /\ stack'[i].handle # stack'[j].handle
               /\ stack'[i].op = "construct" /\ stack'[j].op = "construct" => stack'[i].index # stack'[j].index
    <3>1. CASE i \in DOMAIN stack /\ j \in DOMAIN stack
      <4>1. stack'[i] = stack[i] /\ stack'[j] = stack[j]
          BY <1>4, <3>1, ZenonT(30)
      <4> QED BY <2>1, <2>3, <3>1, <4>1, ZenonT(30) DEF FrameInv
    <3>2. CASE i = Len(stack) + 1 /\ j \in DOMAIN stack
      <4>1. stack'[i] = f /\ stack'[j] = stack[j]
          BY <1>4, <3>2, ZenonT(30)
      <4> QED BY <1>3, <3>2, <4>1, ZenonT(30)
    <3>3. CASE i \in DOMAIN stack /\ j = Len(stack) + 1
      <4>1. stack'[i] = stack[i] /\ stack'[j] = f
          BY <1>4, <3>3, ZenonT(30)
      <4> QED BY <1>3, <3>3, <4>1, ZenonT(30)
    <3> QED BY <1>4, <2>3, <3>1, <3>2, <3>3, ZenonT(30)
  <2> QED BY <2>2, <2>3, ZenonT(30) DEF FrameInv
<1>8. NestInv(stack', lease')
  <2>1. NestInv(stack, lease)
      BY DEF SlabInv
  <2>2. \A i, j \in DOMAIN stack' : i < j => i \in DOMAIN stack
      BY <1>2, <1>4
  <2> QED BY <1>3, <1>4, <2>1, <2>2, ZenonT(30) DEF NestInv
<1> QED BY <1>1, <1>5, <1>6, <1>7, <1>8 DEF SlabInv, StartInv, CountInv

\* A destructor starts.
LEMMA ReleaseStep ==
    ASSUME SlabInv, NEW h \in Handles, ReleaseLease(h)
    PROVE  SlabInv'
<1>1. \A i \in DOMAIN stack :
         stack[i].handle # h /\ stack[i].handle \notin OwnedIn(lease, lease[h].index)
    BY Names, ZenonT(30) DEF ReleaseLease, InUse
<1> QED BY <1>1, DestructorStarts DEF ReleaseLease

\* The object whose destructor runs owns neither itself nor what it is destroyed for.
LEMMA DestroyMemberStep ==
    ASSUME SlabInv, DestroyMember
    PROVE  SlabInv'
<1> DEFINE n == Len(stack)
           x == Top.index
           y == lease[x].index
<1>1. n \in DOMAIN stack /\ Top = stack[n] /\ Top.op = "destroy" /\ stack \in Seq(Frames)
  <2>1. stack \in Seq(Frames)
      BY Zenon DEF SlabInv, SlabTypes
  <2>2. stack # <<>> /\ Top.op = "destroy"
      BY Zenon DEF DestroyMember
  <2> QED BY <2>1, <2>2 DEF Top
<1>2. x \in Slots /\ x \in Handles /\ lease[x].active /\ y \in Slots /\ Top.handle \in Handles
  <2>1. x \in Slots /\ x \in Handles /\ Top.handle \in Handles
    <3>1. Top \in Frames
        BY <1>1, FramePopped DEF DestroyMember
    <3> QED BY <3>1, HandleKinds DEF Frames
  <2>2. lease[x].active
      BY DEF DestroyMember
  <2> QED BY <2>1, <2>2 DEF SlabInv, LeaseInv
<1>3. lease[Top.handle].active /\ lease[Top.handle].index = x
    BY <1>1, ZenonT(30) DEF SlabInv, FrameInv
<1>4. Sound(lease)
    BY HandleKinds, ZenonT(30) DEF SlabInv, LeaseInv, Sound
<1>5. OwnedIn(lease, y) \subseteq OwnedIn(lease, x) /\ x \in OwnedIn(lease, x)
    BY <1>2, <1>4, OwnedOfMember, OwnedSelf
<1>6. \A i \in DOMAIN stack : i # n => stack[i].handle \notin OwnedIn(lease, x)
  <2>1. \A i \in DOMAIN stack : i # n => i < n
      BY <1>1
  <2> QED BY <1>1, <2>1 DEF SlabInv, NestInv
<1>7. Top.handle # x /\ Top.handle \notin OwnedIn(lease, y)
  <2>1. CASE Top.handle \notin Slots
      BY <1>2, <2>1, OwnedSelf
  <2>2. CASE Top.handle \in Slots
    <3>1. PICK rank : Falls(lease, rank)
        BY DEF SlabInv, LeaseInv, Acyclic
    <3>2. rank[x] < rank[Top.handle] /\ rank[y] < rank[x] /\ rank \in [Slots -> Nat]
        BY <1>2, <1>3, <2>2, <3>1 DEF Falls
    <3>3. Top.handle \in OwnedIn(lease, y) => rank[Top.handle] <= rank[y]
        BY <1>2, <1>4, <3>1, OwnedRanks
    <3> HIDE DEF x, y
    <3>4. rank[x] \in Nat /\ rank[y] \in Nat /\ rank[Top.handle] \in Nat
        BY <1>2, <2>2, <3>2
    <3>5. ~(rank[Top.handle] <= rank[y]) /\ rank[x] # rank[Top.handle]
        BY <3>2, <3>4
    <3> QED BY <3>3, <3>5, ZenonT(30)
  <2> QED BY <2>1, <2>2
<1>8. \A i \in DOMAIN stack : stack[i].handle # x /\ stack[i].handle \notin OwnedIn(lease, y)
    BY <1>1, <1>5, <1>6, <1>7
<1> QED BY <1>2, <1>8, DestructorStarts DEF DestroyMember

\* What the call on top of the stack is about.
LEMMA TopCall ==
    ASSUME SlabInv, stack # <<>>
    PROVE  LET n == Len(stack) IN
           /\ Top = stack[n] /\ Top.handle \in Handles /\ Top.index \in Slots
           /\ Popped \in Seq(Frames) /\ n \in DOMAIN stack
           /\ DOMAIN Popped = DOMAIN stack \ {n}
           /\ \A i \in DOMAIN Popped :
                 /\ Popped[i] = stack[i] /\ i < n
                 /\ stack[i].handle \in Handles /\ stack[i].index \in Slots
           /\ Building(stack) = IF Top.op = "construct" THEN Building(Popped) \cup {Top.index}
                               ELSE Building(Popped)
<1>1. stack \in Seq(Frames)
    BY DEF SlabInv, SlabTypes
<1>2. stack[Len(stack)] \in Frames
    BY <1>1, FramePopped
<1>3. stack[Len(stack)].handle \in Handles /\ stack[Len(stack)].index \in Slots
    BY <1>2 DEF Frames
<1>4. \A i \in DOMAIN stack : stack[i].handle \in Handles /\ stack[i].index \in Slots
  <2>1. \A i \in DOMAIN stack : stack[i] \in Frames
      BY <1>1
  <2> QED BY <2>1 DEF Frames
<1> QED BY <1>1, <1>3, <1>4, FramePopped DEF Top, Popped

\* The constructor has returned: its slot is occupied, its handle leases it.
LEMMA ConstructedStep ==
    ASSUME SlabInv, Constructed
    PROVE  SlabInv'
<1> DEFINE n == Len(stack)
           h == Top.handle
           x == Top.index
<1>1. /\ stack # <<>> /\ Top.op = "construct"
      /\ occupied' = [occupied EXCEPT ![x] = TRUE] /\ liveLeases' = liveLeases + 1
      /\ lease' = [lease EXCEPT ![h] = [index |-> x, active |-> TRUE], ![x] = Inactive]
      /\ stack' = Popped /\ UNCHANGED <<initialized, freeHead, next>>
    BY DEF Constructed
<1>2. /\ Top = stack[n] /\ h \in Handles /\ x \in Slots
      /\ stack' \in Seq(Frames) /\ n \in DOMAIN stack
      /\ DOMAIN stack' = DOMAIN stack \ {n}
      /\ \A i \in DOMAIN stack' :
            /\ stack'[i] = stack[i] /\ i < n
            /\ stack[i].handle \in Handles /\ stack[i].index \in Slots
      /\ Building(stack) = Building(stack') \cup {x}
    BY <1>1, TopCall, ZenonT(30)
<1> HIDE DEF n, h, x
<1>3. (h \in Slots => occupied[h]) /\ ~occupied[x] /\ ~lease[h].active
    BY <1>1, <1>2, ZenonT(30) DEF SlabInv, FrameInv, h, x
<1>4. h # x /\ x \in Handles /\ ~lease[x].active
    BY <1>2, <1>3, HandleKinds, ZenonT(30) DEF SlabInv, LeaseInv
<1>5. lease \in [Handles -> Leases] /\ occupied \in [Slots -> BOOLEAN]
    BY ZenonT(30) DEF SlabInv, SlabTypes
<1>6. /\ lease'[h].index = x /\ lease'[h].active /\ ~lease'[x].active
      /\ \A g \in Handles : g # h /\ g # x => lease'[g] = lease[g]
      /\ lease' \in [Handles -> Leases]
  <2> DEFINE r == [index |-> x, active |-> TRUE]
  <2>1. /\ Inactive \in Leases /\ ~Inactive.active
        /\ r \in Leases /\ r.index = x /\ r.active
        /\ lease' = [lease EXCEPT ![h] = r, ![x] = Inactive]
      BY <1>1, <1>2, ZenonT(30) DEF Inactive, Leases
  <2> HIDE DEF r
  <2>2. /\ lease'[h] = r /\ lease'[x] = Inactive
        /\ \A g \in Handles : g # h /\ g # x => lease'[g] = lease[g]
        /\ lease' \in [Handles -> Leases]
      BY <1>2, <1>4, <1>5, <2>1, ZenonT(30)
  <2> QED BY <2>1, <2>2, ZenonT(30)
<1>7. /\ occupied'[x] /\ \A s \in Slots : s # x => occupied'[s] = occupied[s]
      /\ occupied' \in [Slots -> BOOLEAN]
    BY <1>1, <1>2, <1>5
<1>8. Sound(lease)
    BY HandleKinds DEF SlabInv, LeaseInv, Sound
<1>9. OwnedIn(lease, x) = {x}
  <2>1. Together(lease, {x})
      BY <1>4 DEF Together
  <2> QED BY <1>2, <2>1, OwnedLeast, OwnedSelf
<1>10. Regranted(lease, lease', h, x)
    BY <1>6, HandleKinds DEF Regranted
<1>11. SlabTypes'
    BY <1>1, <1>2, <1>6, <1>7, ZenonT(30) DEF SlabInv, SlabTypes
<1>12. StartInv'
    BY <1>1, <1>3, <1>2 DEF SlabInv, StartInv, SlabTypes
<1>13. ListInv'
  <2>1. x \notin Building(stack')
    <3>1. \A i \in DOMAIN stack' : stack[i].op = "construct" => stack[i].index # stack[n].index
        BY <1>1, <1>2 DEF SlabInv, FrameInv
    <3> QED BY <1>2, <3>1, ZenonT(30) DEF Building, x
  <2>2. FreeSlots' = FreeSlots
      BY <1>1, <1>2, <1>7, <2>1, Names, ZenonT(30) DEF FreeSlots
  <2> QED BY <1>1, <2>2, ZenonT(30) DEF SlabInv, ListInv
<1>14. CountInv'
  <2> DEFINE old == {s \in Slots : occupied[s]}
             new == {s \in Slots : occupied'[s]}
  <2>1. new = old \cup {x} /\ x \notin old
      BY <1>2, <1>3, <1>7
  <2>2. IsFiniteSet(old)
      BY SlotSets
  <2> HIDE DEF old, new
  <2>3. Cardinality(new) = Cardinality(old) + 1
      BY <2>1, <2>2, FS_AddElement, ZenonT(30)
  <2> QED BY <1>1, <2>3, ZenonT(30) DEF SlabInv, CountInv, old, new
<1>15. LeaseInv(lease', occupied')
  <2>0. LeaseInv(lease, occupied)
      BY ZenonT(30) DEF SlabInv
  <2>1. \A g \in Handles : lease'[g].active => lease'[g].index \in Slots /\ occupied'[lease'[g].index]
    <3>1. \A g \in Handles : lease[g].active => lease[g].index \in Slots /\ occupied[lease[g].index]
        BY <2>0, ZenonT(30) DEF LeaseInv
    <3> QED BY <1>2, <1>6, <1>7, <3>1
  <2>2. ASSUME NEW g \in Handles, NEW k \in Handles, lease'[g].active, lease'[k].active,
               lease'[g].index = lease'[k].index
        PROVE  g = k
      BY <1>3, <1>6, <2>0, <2>2 DEF LeaseInv
  <2>3. ASSUME NEW s \in Slots, occupied'[s]
        PROVE  \E g \in Handles : lease'[g].active /\ lease'[g].index = s
    <3>1. CASE s = x
        BY <1>2, <1>6, <3>1, ZenonT(30)
    <3>2. CASE s # x
      <4>1. PICK g \in Handles : lease[g].active /\ lease[g].index = s
          BY <1>7, <2>0, <2>3, <3>2, ZenonT(30) DEF LeaseInv
      <4> QED BY <1>3, <1>4, <1>6, <4>1, ZenonT(30)
    <3> QED BY <3>1, <3>2
  <2>4. \A s \in Slots : lease'[s].active => occupied'[s]
      BY <1>3, <1>6, <1>7, <2>0, HandleKinds, ZenonT(30) DEF LeaseInv
  <2>6. h \notin OwnedIn(lease, x) /\ Acyclic(lease)
      BY <1>4, <1>9, <2>0 DEF LeaseInv
  <2>5. Acyclic(lease')
      BY <1>2, <1>4, <1>8, <1>9, <1>10, <2>6, AcyclicAfter, Zenon
  <2> QED BY <2>1, <2>2, <2>3, <2>4, <2>5 DEF LeaseInv
<1>16. FrameInv(stack', lease', occupied')
  <2>0. FrameInv(stack, lease, occupied)
      BY DEF SlabInv
  <2>1. \A i \in DOMAIN stack' : stack[i].handle # h /\ stack[i].handle \in Handles
      BY <1>2, <2>0, ZenonT(30) DEF FrameInv, h
  <2>2. \A i \in DOMAIN stack' : stack[i].op = "construct" => stack[i].index # x /\ stack[i].index \in Slots
      BY <1>1, <1>2, <2>0, ZenonT(30) DEF FrameInv, x
  <2>3. ASSUME NEW i \in DOMAIN stack'
        PROVE  /\ stack'[i].handle \in Slots => occupied'[stack'[i].handle]
               /\ stack'[i].op = "construct" =>
                     ~occupied'[stack'[i].index] /\ ~lease'[stack'[i].handle].active
               /\ stack'[i].op = "destroy" =>
                     lease'[stack'[i].handle].active /\ lease'[stack'[i].handle].index = stack'[i].index
    <3>1. /\ stack[i].handle \in Slots => occupied[stack[i].handle]
          /\ stack[i].op = "construct" => ~occupied[stack[i].index] /\ ~lease[stack[i].handle].active
          /\ stack[i].op = "destroy" =>
                lease[stack[i].handle].active /\ lease[stack[i].handle].index = stack[i].index
        BY <1>2, <2>0, ZenonT(30) DEF FrameInv
    <3>2. stack'[i] = stack[i] /\ stack[i].handle \in Handles /\ stack[i].handle # h
        BY <1>2, <2>1, ZenonT(30)
    <3>3. stack[i].handle = x \/ lease'[stack[i].handle] = lease[stack[i].handle]
        BY <1>6, <3>2, ZenonT(30)
    <3>4. stack[i].handle \in Slots => occupied'[stack[i].handle]
        BY <1>7, <3>1, ZenonT(30)
    <3>5. stack[i].op = "construct" => ~occupied'[stack[i].index] /\ ~lease'[stack[i].handle].active
        BY <1>6, <1>7, <2>2, <3>1, <3>3, ZenonT(30)
    <3>6. stack[i].op = "destroy" =>
             lease'[stack[i].handle].active /\ lease'[stack[i].handle].index = stack[i].index
        BY <1>4, <3>1, <3>3, ZenonT(30)
    <3> QED BY <3>2, <3>4, <3>5, <3>6, ZenonT(30)
  <2>4. \A i, j \in DOMAIN stack' : i # j =>
          /\ stack'[i].handle # stack'[j].handle
          /\ stack'[i].op = "construct" /\ stack'[j].op = "construct" => stack'[i].index # stack'[j].index
      BY <1>2, <2>0 DEF FrameInv
  <2> QED BY <2>3, <2>4, Zenon DEF FrameInv
<1>17. NestInv(stack', lease')
  <2> SUFFICES ASSUME NEW i \in DOMAIN stack', NEW j \in DOMAIN stack', i < j,
                      stack'[j].op = "destroy"
               PROVE  stack'[i].handle \notin OwnedIn(lease', stack'[j].index)
      BY DEF NestInv
  <2> DEFINE z == stack[j].index
             g == stack[i].handle
  <2>1. z \in Slots /\ stack'[j].index = z /\ stack'[i].handle = g /\ g \in Handles
      BY <1>2, ZenonT(30)
  <2>2. g \notin OwnedIn(lease, z)
      BY <1>2, ZenonT(30) DEF SlabInv, NestInv
  <2>3. g # x
      BY <1>2, <1>3, ZenonT(30) DEF SlabInv, FrameInv
  <2> HIDE DEF z, g
  <2>4. OwnedIn(lease', z) \subseteq OwnedIn(lease, z) \cup OwnedIn(lease, x)
      BY <1>2, <1>8, <1>10, <2>1, OwnedAfter, ZenonT(30)
  <2> QED BY <1>9, <2>1, <2>2, <2>3, <2>4, ZenonT(30)
<1> QED BY <1>11, <1>12, <1>13, <1>14, <1>15, <1>16, <1>17, ZenonT(30) DEF SlabInv

\* A lease that is marked inactive is a lease.
LEMMA LeaseEnds ==
    ASSUME NEW r \in Leases
    PROVE  [r EXCEPT !.active = FALSE] \in Leases /\ ~[r EXCEPT !.active = FALSE].active
<1>1. [r EXCEPT !.active = FALSE] \in Leases
    BY Zenon DEF Leases
<1>2. [r EXCEPT !.active = FALSE].active = FALSE
    BY DEF Leases
<1> QED BY <1>1, <1>2

\* The destructor has returned: its slot heads the free list, its handle is inactive.
LEMMA DestroyedStep ==
    ASSUME SlabInv, Destroyed
    PROVE  SlabInv'
<1> DEFINE n == Len(stack)
           h == Top.handle
           x == Top.index
<1>1. /\ stack # <<>> /\ Top.op = "destroy" /\ ~lease[x].active
      /\ occupied' = [occupied EXCEPT ![x] = FALSE] /\ liveLeases' = liveLeases - 1
      /\ next' = [next EXCEPT ![x] = freeHead] /\ freeHead' = x
      /\ lease' = [lease EXCEPT ![h].active = FALSE]
      /\ stack' = Popped /\ UNCHANGED initialized
    BY DEF Destroyed
<1>2. /\ Top = stack[n] /\ h \in Handles /\ x \in Slots
      /\ stack' \in Seq(Frames) /\ n \in DOMAIN stack
      /\ DOMAIN stack' = DOMAIN stack \ {n}
      /\ \A i \in DOMAIN stack' :
            /\ stack'[i] = stack[i] /\ i < n
            /\ stack[i].handle \in Handles /\ stack[i].index \in Slots
      /\ Building(stack) = Building(stack')
    BY <1>1, TopCall
<1> HIDE DEF n, h, x
<1>3. lease[h].active /\ lease[h].index = x
    BY <1>1, <1>2 DEF SlabInv, FrameInv, h, x
<1>4. occupied[x] /\ x \in Handles /\ h # x
    BY <1>1, <1>2, <1>3, HandleKinds DEF SlabInv, LeaseInv
<1>5. /\ lease \in [Handles -> Leases] /\ occupied \in [Slots -> BOOLEAN]
      /\ next \in [Slots -> Slots \cup {NoSlot}] /\ freeHead \in Slots \cup {NoSlot}
    BY DEF SlabInv, SlabTypes
<1>6. /\ ~lease'[h].active /\ \A g \in Handles : g # h => lease'[g] = lease[g]
      /\ lease' \in [Handles -> Leases]
  <2> DEFINE r == [lease[h] EXCEPT !.active = FALSE]
  <2>1. lease' = [lease EXCEPT ![h] = r]
      BY <1>1, Zenon
  <2>2. lease[h] \in Leases
      BY <1>2, <1>5
  <2>3. r \in Leases /\ ~r.active
      BY <2>2, LeaseEnds
  <2> HIDE DEF r
  <2> QED BY <1>2, <1>5, <2>1, <2>3
<1>7. /\ ~occupied'[x] /\ \A s \in Slots : s # x => occupied'[s] = occupied[s]
      /\ occupied' \in [Slots -> BOOLEAN]
    BY <1>1, <1>2, <1>5
<1>8. Sound(lease)
    BY HandleKinds DEF SlabInv, LeaseInv, Sound
<1>9. \A i \in DOMAIN stack' : stack[i].handle # x /\ stack[i].handle # h
  <2>1. \A i \in DOMAIN stack' : stack[i].handle \notin OwnedIn(lease, x)
      BY <1>1, <1>2 DEF SlabInv, NestInv, x
  <2>2. x \in OwnedIn(lease, x)
      BY <1>2, OwnedSelf, ZenonT(30)
  <2>3. \A i \in DOMAIN stack' : stack[i].handle # h
      BY <1>2 DEF SlabInv, FrameInv, h
  <2> QED BY <2>1, <2>2, <2>3
<1>10. Regranted(lease, lease', NoSlot, x)
    BY <1>6, HandleKinds DEF Regranted
<1>11. SlabTypes'
  <2>1. next' \in [Slots -> Slots \cup {NoSlot}] /\ freeHead' \in Slots \cup {NoSlot}
      BY <1>1, <1>2, <1>5
  <2> QED BY <1>1, <1>2, <1>6, <1>7, <2>1, Zenon DEF SlabInv, SlabTypes
<1>12. StartInv'
    BY <1>1, <1>2, <1>3 DEF SlabInv, StartInv, SlabTypes
<1>13. ListInv'
  <2>1. x \notin Building(stack')
    <3>1. \A i \in DOMAIN stack' : stack[i].op = "construct" => stack[i].index # x
        BY <1>2, <1>4, ZenonT(30) DEF SlabInv, FrameInv
    <3> QED BY <1>2, <3>1 DEF Building
  <2>2. FreeSlots' = FreeSlots \cup {x} /\ FreeSlots \subseteq Slots /\ x \in Slots \ FreeSlots
      BY <1>1, <1>2, <1>4, <1>7, <2>1, Names DEF FreeSlots
  <2>3. initialized => Listed(freeHead, next, FreeSlots)
      BY DEF SlabInv, ListInv
  <2>4. DOMAIN next = Slots
      BY <1>5
  <2>5. initialized => Listed(x, [next EXCEPT ![x] = freeHead], FreeSlots \cup {x})
      BY <2>2, <2>3, <2>4, ListGains, Zenon
  <2> QED BY <1>1, <2>2, <2>5 DEF ListInv
<1>14. CountInv'
  <2> DEFINE old == {s \in Slots : occupied[s]}
             new == {s \in Slots : occupied'[s]}
  <2>1. new = old \ {x} /\ x \in old
      BY <1>2, <1>4, <1>7
  <2>2. IsFiniteSet(old)
      BY SlotSets
  <2> HIDE DEF old, new
  <2>3. Cardinality(new) = Cardinality(old) - 1
      BY <2>1, <2>2, FS_RemoveElement, ZenonT(30)
  <2> QED BY <1>1, <2>3, ZenonT(30) DEF SlabInv, CountInv, old, new
<1>15. LeaseInv(lease', occupied')
  <2>0. LeaseInv(lease, occupied)
      BY DEF SlabInv
  <2>1. ASSUME NEW g \in Handles, lease'[g].active
        PROVE  lease'[g].index \in Slots /\ occupied'[lease'[g].index]
    <3>1. g # h /\ lease'[g] = lease[g] /\ lease[g].active
        BY <1>6, <2>1, ZenonT(30)
    <3>2. lease[g].index # x /\ lease[g].index \in Slots /\ occupied[lease[g].index]
        BY <1>2, <1>3, <2>0, <3>1, ZenonT(30) DEF LeaseInv
    <3> QED BY <1>7, <3>1, <3>2
  <2>2. ASSUME NEW g \in Handles, NEW k \in Handles, lease'[g].active, lease'[k].active,
               lease'[g].index = lease'[k].index
        PROVE  g = k
      BY <1>6, <2>0, <2>2 DEF LeaseInv
  <2>3. ASSUME NEW s \in Slots, occupied'[s]
        PROVE  \E g \in Handles : lease'[g].active /\ lease'[g].index = s
    <3>1. s # x
        BY <1>7, <2>3, ZenonT(30)
    <3>2. PICK g \in Handles : lease[g].active /\ lease[g].index = s
        BY <1>7, <2>0, <2>3, <3>1 DEF LeaseInv
    <3> QED BY <1>3, <1>6, <3>1, <3>2
  <2>4. \A s \in Slots : lease'[s].active => occupied'[s]
      BY <1>1, <1>6, <1>7, <2>0, HandleKinds DEF LeaseInv
  <2>5. Acyclic(lease')
    <3>1. PICK rank : Falls(lease, rank)
        BY <2>0 DEF LeaseInv, Acyclic
    <3>2. Falls(lease', rank)
        BY <1>6, <3>1, HandleKinds, ZenonT(30) DEF Falls
    <3> QED BY <3>2 DEF Acyclic
  <2> QED BY <2>1, <2>2, <2>3, <2>4, <2>5 DEF LeaseInv
<1>16. FrameInv(stack', lease', occupied')
  <2>0. FrameInv(stack, lease, occupied)
      BY DEF SlabInv
  <2>3. ASSUME NEW i \in DOMAIN stack'
        PROVE  /\ stack'[i].handle \in Slots => occupied'[stack'[i].handle]
               /\ stack'[i].op = "construct" =>
                     ~occupied'[stack'[i].index] /\ ~lease'[stack'[i].handle].active
               /\ stack'[i].op = "destroy" =>
                     lease'[stack'[i].handle].active /\ lease'[stack'[i].handle].index = stack'[i].index
    <3>1. /\ stack[i].handle \in Slots => occupied[stack[i].handle]
          /\ stack[i].op = "construct" => ~occupied[stack[i].index] /\ ~lease[stack[i].handle].active
          /\ stack[i].op = "destroy" =>
                lease[stack[i].handle].active /\ lease[stack[i].handle].index = stack[i].index
        BY <1>2, <2>0 DEF FrameInv
    <3>2. /\ stack'[i] = stack[i] /\ stack[i].handle \in Handles /\ stack[i].index \in Slots
          /\ stack[i].handle # x /\ stack[i].handle # h
        BY <1>2, <1>9, ZenonT(30)
    <3>3. lease'[stack[i].handle] = lease[stack[i].handle]
        BY <1>6, <3>2, ZenonT(30)
    <3>4. stack[i].handle \in Slots => occupied'[stack[i].handle]
        BY <1>7, <3>1, <3>2, ZenonT(30)
    <3>5. stack[i].op = "construct" => ~occupied'[stack[i].index]
        BY <1>7, <3>1, <3>2, ZenonT(30)
    <3> QED BY <3>1, <3>2, <3>3, <3>4, <3>5, ZenonT(30)
  <2>4. \A i, j \in DOMAIN stack' : i # j =>
          /\ stack'[i].handle # stack'[j].handle
          /\ stack'[i].op = "construct" /\ stack'[j].op = "construct" => stack'[i].index # stack'[j].index
      BY <1>2, <2>0 DEF FrameInv
  <2> QED BY <2>3, <2>4, Zenon DEF FrameInv
<1>17. NestInv(stack', lease')
  <2> SUFFICES ASSUME NEW i \in DOMAIN stack', NEW j \in DOMAIN stack', i < j,
                      stack'[j].op = "destroy"
               PROVE  stack'[i].handle \notin OwnedIn(lease', stack'[j].index)
      BY DEF NestInv
  <2> DEFINE z == stack[j].index
             g == stack[i].handle
  <2>1. z \in Slots /\ stack'[j].index = z /\ stack'[i].handle = g
      BY <1>2
  <2>2. g \notin OwnedIn(lease, z) /\ NoSlot \notin OwnedIn(lease, z)
    <3>1. g \notin OwnedIn(lease, z)
        BY <1>2 DEF SlabInv, NestInv
    <3> QED BY <2>1, <3>1, OwnedSelf, HandleKinds
  <2> HIDE DEF z, g
  <2>4. OwnedIn(lease', z) \subseteq OwnedIn(lease, z)
      BY <1>2, <1>8, <1>10, <2>1, <2>2, OwnedAfter, ZenonT(30)
  <2> QED BY <2>1, <2>2, <2>4
<1> QED BY <1>11, <1>12, <1>13, <1>14, <1>15, <1>16, <1>17 DEF SlabInv

\* A lease changes hands.
LEMMA MoveLeaseStep ==
    ASSUME SlabInv, NEW to \in Handles, NEW from \in Handles, MoveLease(to, from)
    PROVE  SlabInv'
<1> DEFINE y == lease[from].index
<1>1. /\ to # from /\ to \notin InUse /\ from \notin InUse /\ (to \in Slots => occupied[to])
      /\ ~lease[to].active /\ lease[from].active /\ to \notin Owned(y)
      /\ (to \in Doomed => Owned(y) \cap InUse = {})
      /\ lease' = [lease EXCEPT ![to] = lease[from], ![from] = Inactive]
      /\ UNCHANGED <<initialized, freeHead, liveLeases, next, occupied, stack>>
  <2>1. to \in Slots => occupied[to]
      BY HandleKinds, Zenon DEF MoveLease, Exists
  <2>2. to \notin InUse /\ from \notin InUse
      BY DEF MoveLease
  <2> QED BY <2>1, <2>2, Zenon DEF MoveLease, MovedLease
<1>2. y \in Slots
    BY <1>1 DEF SlabInv, LeaseInv
<1>3. to \notin OwnedIn(lease, y) /\ (to \in Doomed => OwnedIn(lease, y) \cap InUse = {})
    BY <1>1, Names
<1>4. lease \in [Handles -> Leases] /\ occupied \in [Slots -> BOOLEAN]
    BY DEF SlabInv, SlabTypes
<1>5. /\ lease'[to] = lease[from] /\ ~lease'[from].active
      /\ \A g \in Handles : g # to /\ g # from => lease'[g] = lease[g]
      /\ lease' \in [Handles -> Leases]
  <2>1. Inactive \in Leases /\ ~Inactive.active
      BY DEF Inactive, Leases
  <2>2. /\ lease'[to] = lease[from] /\ lease'[from] = Inactive
        /\ \A g \in Handles : g # to /\ g # from => lease'[g] = lease[g]
        /\ lease' \in [Handles -> Leases]
      BY <1>1, <1>4, <2>1, ZenonT(30)
  <2> QED BY <2>1, <2>2
<1>6. Sound(lease)
    BY HandleKinds, ZenonT(30) DEF SlabInv, LeaseInv, Sound
<1>7. Regranted(lease, lease', to, y)
    BY <1>5, HandleKinds DEF Regranted
<1>8. SlabTypes'
    BY <1>1, <1>5, ZenonT(30) DEF SlabInv, SlabTypes
<1>9. StartInv' /\ ListInv' /\ CountInv'
  <2>1. FreeSlots' = FreeSlots
      BY <1>1, Names, ZenonT(30) DEF FreeSlots
  <2> QED BY <1>1, <2>1 DEF SlabInv, StartInv, ListInv, CountInv, SlabTypes
<1> HIDE DEF y
<1>10. LeaseInv(lease', occupied')
  <2>0. LeaseInv(lease, occupied)
      BY ZenonT(30) DEF SlabInv
  <2>1. \A g \in Handles : lease'[g].active => lease'[g].index \in Slots /\ occupied'[lease'[g].index]
    <3>1. \A g \in Handles : lease[g].active => lease[g].index \in Slots /\ occupied[lease[g].index]
        BY <2>0, ZenonT(30) DEF LeaseInv
    <3> QED BY <1>1, <1>5, <3>1, ZenonT(30)
  <2>2. ASSUME NEW g \in Handles, NEW k \in Handles, lease'[g].active, lease'[k].active,
               lease'[g].index = lease'[k].index
        PROVE  g = k
    <3>1. \A a, b \in Handles : lease[a].active /\ lease[b].active /\ lease[a].index = lease[b].index => a = b
        BY <2>0, ZenonT(30) DEF LeaseInv
    <3> QED BY <1>1, <1>5, <2>2, <3>1
  <2>3. ASSUME NEW s \in Slots, occupied'[s]
        PROVE  \E g \in Handles : lease'[g].active /\ lease'[g].index = s
    <3>1. PICK g \in Handles : lease[g].active /\ lease[g].index = s
        BY <1>1, <2>0, <2>3, ZenonT(30) DEF LeaseInv
    <3> QED BY <1>1, <1>5, <3>1, ZenonT(30)
  <2>4. \A s \in Slots : lease'[s].active => occupied'[s]
    <3>1. \A s \in Slots : lease[s].active => occupied[s]
        BY <2>0, Zenon DEF LeaseInv
    <3> QED BY <1>1, <1>5, <3>1, HandleKinds
  <2>5. Acyclic(lease) /\ to \notin OwnedIn(lease, y)
      BY <1>3, <2>0, Zenon DEF LeaseInv
  <2>6. Acyclic(lease')
      BY <1>2, <1>6, <1>7, <2>5, AcyclicAfter, ZenonT(30)
  <2> QED BY <2>1, <2>2, <2>3, <2>4, <2>6 DEF LeaseInv
<1>11. \A i \in DOMAIN stack :
          /\ stack[i].handle \in Handles /\ stack[i].index \in Slots
          /\ stack[i].handle \in InUse /\ stack[i].handle # to /\ stack[i].handle # from
          /\ lease'[stack[i].handle] = lease[stack[i].handle]
  <2>1. \A i \in DOMAIN stack : stack[i] \in Frames
      BY DEF SlabInv, SlabTypes
  <2>2. \A i \in DOMAIN stack : stack[i].handle \in Handles /\ stack[i].index \in Slots
      BY <2>1 DEF Frames
  <2>3. \A i \in DOMAIN stack : stack[i].handle \in InUse
      BY DEF InUse
  <2> QED BY <1>1, <1>5, <2>2, <2>3
<1>12. FrameInv(stack', lease', occupied')
  <2>1. FrameInv(stack, lease, occupied)
      BY DEF SlabInv
  <2>2. FrameInv(stack, lease', occupied)
      BY <1>11, <2>1 DEF FrameInv
  <2> QED BY <1>1, <2>2
<1>13. NestInv(stack', lease')
  <2>0. NestInv(stack, lease')
    <3> SUFFICES ASSUME NEW i \in DOMAIN stack, NEW j \in DOMAIN stack, i < j,
                        stack[j].op = "destroy"
                 PROVE  stack[i].handle \notin OwnedIn(lease', stack[j].index)
        BY ZenonT(30) DEF NestInv
    <3> DEFINE z == stack[j].index
               g == stack[i].handle
    <3>1. z \in Slots /\ g \in InUse /\ g \notin OwnedIn(lease, z)
        BY <1>11 DEF SlabInv, NestInv
    <3>2. to \in OwnedIn(lease, z) => to \in Doomed
        BY Names DEF Doomed, InDestruction
    <3> HIDE DEF z, g
    <3>3. /\ OwnedIn(lease', z) \subseteq OwnedIn(lease, z) \cup OwnedIn(lease, y)
          /\ to \notin OwnedIn(lease, z) => OwnedIn(lease', z) \subseteq OwnedIn(lease, z)
        BY <1>2, <1>6, <1>7, <3>1, OwnedAfter, ZenonT(30)
    <3>4. g \notin OwnedIn(lease', z)
        BY <1>3, <3>1, <3>2, <3>3
    <3> QED BY <3>4 DEF z, g
  <2> QED BY <1>1, <2>0
<1> QED BY <1>8, <1>9, <1>10, <1>12, <1>13 DEF SlabInv

-----------------------------------------------------------------------------
(* The pool.                                                               *)

\* The first try_acquire links all slots in order.
LEMMA InitializeStep ==
    ASSUME SlabInv, Initialize
    PROVE  SlabInv'
<1>1. /\ stack = <<>> /\ ~initialized /\ initialized' = TRUE
      /\ freeHead' = (IF Capacity = 0 THEN NoSlot ELSE 1)
      /\ next' = [s \in Slots |-> s + 1] /\ occupied' = [s \in Slots |-> FALSE]
      /\ UNCHANGED <<liveLeases, lease, stack>>
    BY DEF Initialize, InitialNext
<1>2. (\A s \in Slots : ~occupied[s]) /\ (\A h \in Handles : ~lease[h].active)
    BY <1>1 DEF SlabInv, StartInv
<1>3. occupied' = occupied
    BY <1>1, <1>2 DEF SlabInv, SlabTypes
<1>4. SlabTypes'
  <2>1. next' \in [Slots -> Slots \cup {NoSlot}] /\ freeHead' \in Slots \cup {NoSlot}
      BY <1>1, SlabAssumption DEF Slots, NoSlot
  <2> QED BY <1>1, <1>3, <2>1 DEF SlabInv, SlabTypes
<1>5. ListInv'
  <2> DEFINE path == [i \in 1 .. Capacity |-> i]
  <2>1. FreeSlots' = Slots
    <3>1. Building(stack') = {}
        BY <1>1 DEF Building
    <3> QED BY <1>1, <3>1, Names DEF FreeSlots
  <2>2. Cardinality(Slots) = Capacity
      BY SlotSets
  <2>3. path \in Bijection(1 .. Capacity, Slots)
      BY DEF Bijection, Injection, Surjection, IsInjective, Slots
  <2>4. freeHead' = IF Capacity = 0 THEN NoSlot ELSE path[1]
      BY <1>1, SlabAssumption
  <2>5. \A i \in 1 .. Capacity : next'[path[i]] = IF i = Capacity THEN NoSlot ELSE path[i + 1]
      BY <1>1, SlabAssumption DEF Slots, NoSlot
  <2> HIDE DEF path
  <2>6. Listed(freeHead', next', Slots)
      BY <2>2, <2>3, <2>4, <2>5, Zenon DEF Listed
  <2> QED BY <2>1, <2>6 DEF ListInv
<1>6. liveLeases' = liveLeases /\ lease' = lease /\ stack' = stack
    BY <1>1
<1>7. StartInv' /\ CountInv'
  <2>1. StartInv'
      BY <1>1 DEF StartInv
  <2>2. CountInv'
      BY <1>3, <1>6, Zenon DEF SlabInv, CountInv
  <2> QED BY <2>1, <2>2
<1>8. /\ LeaseInv(lease', occupied') /\ FrameInv(stack', lease', occupied')
      /\ NestInv(stack', lease')
    BY <1>3, <1>6, Zenon DEF SlabInv
<1> QED BY <1>4, <1>5, <1>7, <1>8 DEF SlabInv

\* Zeroed memory and no leases.
LEMMA SlabInitial == SlabInit => SlabInv
<1> SUFFICES ASSUME SlabInit PROVE SlabInv
    OBVIOUS
<1>1. /\ initialized = FALSE /\ freeHead = NoSlot /\ liveLeases = 0
      /\ next = [s \in Slots |-> 1] /\ occupied = [s \in Slots |-> FALSE]
      /\ lease = [h \in Handles |-> Inactive] /\ stack = <<>>
    BY DEF SlabInit
<1>2. Inactive \in Leases /\ ~Inactive.active
    BY DEF Inactive, Leases
<1>3. \A h \in Handles : ~lease[h].active
    BY <1>1, <1>2
<1>4. SlabTypes
  <2>1. next \in [Slots -> Slots \cup {NoSlot}]
      BY <1>1, SlabAssumption DEF Slots
  <2>2. lease \in [Handles -> Leases]
      BY <1>1, <1>2
  <2>3. stack \in Seq(Frames)
      BY <1>1
  <2>4. occupied \in [Slots -> BOOLEAN] /\ initialized \in BOOLEAN
      BY <1>1, Zenon
  <2> QED BY <1>1, <2>1, <2>2, <2>3, <2>4 DEF SlabTypes
<1>5. CountInv
  <2>1. {s \in Slots : occupied[s]} = {}
      BY <1>1
  <2>2. Cardinality({s \in Slots : occupied[s]}) = 0
      BY <2>1, FS_EmptySet, Zenon
  <2> QED BY <1>1, <2>2 DEF CountInv
<1>6. LeaseInv(lease, occupied)
  <2>1. Falls(lease, [s \in Slots |-> 0])
      BY <1>3, HandleKinds DEF Falls
  <2>2. Acyclic(lease)
      BY <2>1, ZenonT(30) DEF Acyclic
  <2> QED BY <1>1, <1>3, <2>2, HandleKinds DEF LeaseInv
<1>7. FrameInv(stack, lease, occupied) /\ NestInv(stack, lease)
    BY <1>1 DEF FrameInv, NestInv
<1> QED BY <1>1, <1>3, <1>4, <1>5, <1>6, <1>7 DEF SlabInv, StartInv, ListInv

\* Every step keeps the invariant: one case per action.
LEMMA SlabInductive == SlabInv /\ [SlabNext]_slabVars => SlabInv'
<1> SUFFICES ASSUME SlabInv, [SlabNext]_slabVars PROVE SlabInv'
    OBVIOUS
<1>1. CASE Initialize
    BY <1>1, InitializeStep
<1>2. CASE \E h \in Handles : TryAcquire(h) \/ ReleaseLease(h)
    BY <1>2, AcquireStep, ReleaseStep, ZenonT(30)
<1>3. CASE Constructed
    BY <1>3, ConstructedStep
<1>4. CASE DestroyMember
    BY <1>4, DestroyMemberStep
<1>5. CASE Destroyed
    BY <1>5, DestroyedStep
<1>6. CASE \E to, from \in Handles : MoveLease(to, from)
    BY <1>6, MoveLeaseStep, ZenonT(30)
<1>7. CASE UNCHANGED slabVars
  <2>1. FreeSlots' = FreeSlots
      BY <1>7, Names, ZenonT(30) DEF slabVars, FreeSlots
  <2> QED BY <1>7, <2>1 DEF slabVars, SlabInv, SlabTypes, StartInv, ListInv, CountInv
<1> QED BY <1>1, <1>2, <1>3, <1>4, <1>5, <1>6, <1>7, ZenonT(30) DEF SlabNext

\* The invariant says of the slots what the property says.
LEMMA PartitionFollows == SlabInv => SlotsPartitioned
<1> SUFFICES ASSUME SlabInv PROVE SlotsPartitioned
    OBVIOUS
<1>0. LeaseInv(lease, occupied)
    BY Zenon DEF SlabInv
<1>1. initialized => LET n == Cardinality(FreeSlots)
                     IN  \E path \in Bijection(1 .. n, FreeSlots) : FreeList(n, path)
    BY ZenonT(30) DEF SlabInv, ListInv, Listed, FreeList
<1>2. ASSUME NEW s \in Slots
      PROVE  Cardinality({h \in Handles : lease[h].active /\ lease[h].index = s})
                = IF occupied[s] THEN 1 ELSE 0
  <2> DEFINE holders == {h \in Handles : lease[h].active /\ lease[h].index = s}
  <2>1. CASE occupied[s]
    <3>1. PICK h \in Handles : lease[h].active /\ lease[h].index = s
        BY <1>0, <2>1, Zenon DEF LeaseInv
    <3>4. ASSUME NEW g \in Handles, lease[g].active, lease[g].index = s PROVE g = h
        BY <1>0, <3>1, <3>4, Zenon DEF LeaseInv
    <3>2. holders = {h}
        BY <3>1, <3>4, Zenon
    <3>3. Cardinality(holders) = 1
        BY <3>2, FS_Singleton, Zenon
    <3> QED BY <2>1, <3>3
  <2>2. CASE ~occupied[s]
    <3>3. ASSUME NEW g \in Handles, lease[g].active, lease[g].index = s PROVE FALSE
        BY <1>0, <2>2, <3>3, Zenon DEF LeaseInv
    <3>1. holders = {}
        BY <3>3, Zenon
    <3>2. Cardinality(holders) = 0
        BY <3>1, FS_EmptySet, Zenon
    <3> QED BY <2>2, <3>2
  <2> QED BY <2>1, <2>2
<1> QED BY <1>1, <1>2, ZenonT(30) DEF SlotsPartitioned, SlabInv, CountInv

\* The free list of the pool and its leases partition the slots, for any number of
\* slots, leases and calls nested in constructors and destructors: no slot is lost
\* or offered twice, and the checks that end in std::terminate never fire.
THEOREM SlotsStayPartitioned == SlabSpec => []SlotsPartitioned
<1>1. SlabInit => SlabInv
    BY SlabInitial
<1>2. SlabInv /\ [SlabNext]_slabVars => SlabInv'
    BY SlabInductive
<1>3. SlabInv => SlotsPartitioned
    BY PartitionFollows
<1> QED BY <1>1, <1>2, <1>3, PTL DEF SlabSpec

=============================================================================
