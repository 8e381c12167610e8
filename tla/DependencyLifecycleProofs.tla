---------------------- MODULE DependencyLifecycleProofs ----------------------
(***************************************************************************)
(* Proofs about the registry of native libraries, for any number of        *)
(* processes, libraries and forks, and any hooks failing.                  *)
(***************************************************************************)
EXTENDS DependencyLifecycle, TLAPS

\* A leaf may take either prover 30 seconds and is given to Z3 a second time: no
\* proof depends on how busy the machine is.
USE SMTT(30), ZenonT(30), Z3T(30)

-----------------------------------------------------------------------------
(* The inductive invariant.  What it says of a process p depends only on   *)
(* the registry r, the call o and the libraries l of that process.         *)

Registries ==
    [phase : Phases, hooks : Seq(Dependencies), preflighted : Nat, initialized : Nat,
     worker : Processes \cup {NoProcess}, epoch : 0 .. MaxEpoch]

Ops == [call : Calls, failed : BOOLEAN]

States == {"raw", "prepared", "working", "inherited", "failed", "misused"}

Libraries == [Dependencies -> States]

WorkerPhases == {"worker_ready", "worker_rolled_back", "worker_cleaned",
                 "worker_rollback_failed", "worker_cleanup_failed"}

\* At most one TLS provider, and no library twice.
HooksInv(h) ==
    /\ Len(h) <= Capacity
    /\ \A i, j \in DOMAIN h : i # j =>
          /\ h[i] # h[j]
          /\ ~({h[i], h[j]} \subseteq TlsProviders)

All(h, l, state) == \A i \in DOMAIN h : l[h[i]] = state

AllOrFailed(h, l, state) == \A i \in DOMAIN h : l[h[i]] \in {state, "failed"}

AnyFailed(h, l) == \E i \in DOMAIN h : l[h[i]] = "failed"

\* The first n libraries are up, the others are down, ...
Split(h, l, n, up, down) ==
    \A i \in DOMAIN h : l[h[i]] = IF i <= n THEN up ELSE down

\* ... or have failed.
SplitOrFailed(h, l, n, up, down) ==
    \A i \in DOMAIN h : l[h[i]] \in IF i <= n THEN {up} ELSE {down, "failed"}

\* A library that is not registered has not been asked anything.
Untouched(h, l) ==
    \A d \in Dependencies : (\A i \in DOMAIN h : h[i] # d) => l[d] = "raw"

\* Between calls.
Resting(p, r, l) ==
    /\ r.phase = "collecting" =>
          r.preflighted = 0 /\ r.initialized = 0 /\ All(r.hooks, l, "raw")
    /\ r.phase \in {"preflighted", "fork_ready"} =>
          r.preflighted = Len(r.hooks) /\ r.initialized = 0 /\ All(r.hooks, l, "prepared")
    /\ r.phase = "worker_ready" =>
          /\ r.initialized = Len(r.hooks)
          /\ All(r.hooks, l, IF r.worker = p THEN "working" ELSE "inherited")
    /\ r.phase \in {"worker_rolled_back", "worker_cleaned"} => All(r.hooks, l, "prepared")
    /\ r.phase \in {"preflight_failed", "master_cleaned"} => All(r.hooks, l, "raw")
    /\ r.phase \in {"worker_rollback_failed", "worker_cleanup_failed"} =>
          AllOrFailed(r.hooks, l, "prepared") /\ AnyFailed(r.hooks, l)
    /\ r.phase \in {"preflight_rollback_failed", "master_cleanup_failed"} =>
          AllOrFailed(r.hooks, l, "raw") /\ AnyFailed(r.hooks, l)

\* In the middle of a call.
Busy(p, r, o, l) ==
    /\ o.call = "preflight" =>
          p = Master /\ r.initialized = 0 /\ Split(r.hooks, l, r.preflighted, "prepared", "raw")
    /\ o.call \in {"preflight_rollback", "master_cleanup"} =>
          /\ p = Master
          /\ SplitOrFailed(r.hooks, l, r.preflighted, "prepared", "raw")
          /\ o.failed = TRUE <=> AnyFailed(r.hooks, l)
    /\ o.call = "initialize" =>
          /\ p # Master /\ r.worker = p
          /\ Split(r.hooks, l, r.initialized, "working", "prepared")
    /\ o.call \in {"initialize_rollback", "worker_cleanup"} =>
          /\ p # Master /\ r.worker = p
          /\ SplitOrFailed(r.hooks, l, r.initialized, "working", "prepared")
          /\ o.failed = TRUE <=> AnyFailed(r.hooks, l)

ProcessInv(p, r, o, l) ==
    /\ HooksInv(r.hooks) /\ Untouched(r.hooks, l)
    /\ r.preflighted <= Len(r.hooks) /\ r.initialized <= Len(r.hooks)
    /\ r.phase \in WorkerPhases => p # Master
    /\ o.call = "none" => Resting(p, r, l)
    /\ Busy(p, r, o, l)

IInv ==
    /\ alive \subseteq Processes /\ Master \in alive
    /\ reg \in [Processes -> Registries]
    /\ op \in [Processes -> Ops]
    /\ dep \in [Processes -> Libraries]
    /\ \A p \in Processes \ alive : op[p].call = "none"
    /\ \A p \in Processes : /\ ProcessInv(p, reg[p], op[p], dep[p])
                            /\ reg[p].worker \in alive \cup {NoProcess}

-----------------------------------------------------------------------------
(* Lemmas.                                                                 *)

\* A step of one process leaves the others alone.
LEMMA OneProcess ==
    ASSUME IInv, NEW p \in alive, NEW r \in Registries, NEW o \in Ops, NEW l \in Libraries,
           alive' = alive,
           reg' = [reg EXCEPT ![p] = r], op' = [op EXCEPT ![p] = o],
           dep' = [dep EXCEPT ![p] = l],
           ProcessInv(p, r, o, l), r.worker \in alive \cup {NoProcess}
    PROVE  IInv'
<1>1. p \in Processes
    BY DEF IInv
<1>2. /\ reg' \in [Processes -> Registries] /\ reg'[p] = r
      /\ \A q \in Processes : q # p => reg'[q] = reg[q]
    BY <1>1 DEF IInv
<1>3. /\ op' \in [Processes -> Ops] /\ op'[p] = o
      /\ \A q \in Processes : q # p => op'[q] = op[q]
    BY <1>1 DEF IInv
<1>4. /\ dep' \in [Processes -> Libraries] /\ dep'[p] = l
      /\ \A q \in Processes : q # p => dep'[q] = dep[q]
    BY <1>1 DEF IInv
<1>5. ASSUME NEW q \in Processes
      PROVE  /\ ProcessInv(q, reg'[q], op'[q], dep'[q])
             /\ reg'[q].worker \in alive \cup {NoProcess}
  <2>1. CASE q = p
      BY <1>2, <1>3, <1>4, <2>1
  <2>2. CASE q # p
      BY <1>2, <1>3, <1>4, <2>2 DEF IInv
  <2> QED BY <2>1, <2>2
<1>6. \A q \in Processes \ alive' : op'[q].call = "none"
    BY <1>3 DEF IInv
<1> QED BY <1>2, <1>3, <1>4, <1>5, <1>6 DEF IInv

With(l, d, x) == [l EXCEPT ![d] = x]

\* A hook changes the state of the library it belongs to and of no other.
LEMMA HookCalled ==
    ASSUME NEW h \in Seq(Dependencies), NEW l \in Libraries, NEW x \in States,
           NEW k \in DOMAIN h, HooksInv(h), Untouched(h, l)
    PROVE  /\ With(l, h[k], x) \in Libraries
           /\ With(l, h[k], x)[h[k]] = x
           /\ \A i \in DOMAIN h : i # k => With(l, h[k], x)[h[i]] = l[h[i]]
           /\ Untouched(h, With(l, h[k], x))
<1>1. \A i \in DOMAIN h : h[i] \in Dependencies
    OBVIOUS
<1>2. With(l, h[k], x) \in Libraries /\ With(l, h[k], x)[h[k]] = x
    BY <1>1 DEF Libraries, With
<1>3. \A i \in DOMAIN h : i # k => With(l, h[k], x)[h[i]] = l[h[i]]
    BY <1>1 DEF Libraries, HooksInv, With
<1>4. Untouched(h, With(l, h[k], x))
    BY <1>1 DEF Libraries, Untouched, With
<1> QED BY <1>2, <1>3, <1>4

\* What a hook does to the border between the libraries that are up and the
\* others: one more is up, ...
LEMMA OneMoreUp ==
    ASSUME NEW h \in Seq(Dependencies), NEW l \in Libraries, NEW n \in Nat,
           NEW up \in States, NEW down,
           n < Len(h), HooksInv(h), Untouched(h, l), Split(h, l, n, up, down)
    PROVE  \E m \in Libraries :
              /\ m = With(l, h[n + 1], Moved(l[h[n + 1]], down, up))
              /\ Untouched(h, m) /\ Split(h, m, n + 1, up, down)
<1>1. n + 1 \in DOMAIN h
    OBVIOUS
<1>2. l[h[n + 1]] = down
    BY <1>1 DEF Split
<1>3. PICK m : m = With(l, h[n + 1], up)
    OBVIOUS
<1>4. m = With(l, h[n + 1], Moved(l[h[n + 1]], down, up))
    BY <1>2, <1>3 DEF Moved
<1>5. /\ m \in Libraries /\ Untouched(h, m) /\ m[h[n + 1]] = up
      /\ \A i \in DOMAIN h : i # n + 1 => m[h[i]] = l[h[i]]
    BY <1>1, <1>3, HookCalled
<1>6. ASSUME NEW i \in DOMAIN h
      PROVE  m[h[i]] = IF i <= n + 1 THEN up ELSE down
  <2>1. i \in Nat
      OBVIOUS
  <2>2. CASE i = n + 1
      BY <1>5, <2>2
  <2>3. CASE i # n + 1
    <3>1. (i <= n + 1) = (i <= n)
        BY <2>1, <2>3
    <3> QED BY <1>5, <2>3, <3>1 DEF Split
  <2> QED BY <2>2, <2>3
<1>7. Split(h, m, n + 1, up, down)
    BY <1>6 DEF Split
<1> QED BY <1>4, <1>5, <1>7

\* ... or the last one that is up is taken down, or fails.
LEMMA OneFewerUp ==
    ASSUME NEW h \in Seq(Dependencies), NEW l \in Libraries, NEW n \in Nat,
           NEW up \in States, NEW down \in States, NEW x \in {down, "failed"},
           up # "failed", down # "failed",
           n > 0, n <= Len(h), HooksInv(h), Untouched(h, l),
           SplitOrFailed(h, l, n, up, down)
    PROVE  \E m \in Libraries :
              /\ m = With(l, h[n], Moved(l[h[n]], up, x))
              /\ Untouched(h, m) /\ SplitOrFailed(h, m, n - 1, up, down)
              /\ AnyFailed(h, m) <=> AnyFailed(h, l) \/ x = "failed"
<1>1. n \in DOMAIN h
    OBVIOUS
<1>2. l[h[n]] = up
    BY <1>1 DEF SplitOrFailed
<1>3. PICK m : m = With(l, h[n], x)
    OBVIOUS
<1>4. m = With(l, h[n], Moved(l[h[n]], up, x))
    BY <1>2, <1>3 DEF Moved
<1>5. x \in States
    BY DEF States
<1>6. /\ m \in Libraries /\ Untouched(h, m) /\ m[h[n]] = x
      /\ \A i \in DOMAIN h : i # n => m[h[i]] = l[h[i]]
    BY <1>1, <1>3, <1>5, HookCalled
<1>7. ASSUME NEW i \in DOMAIN h
      PROVE  m[h[i]] \in IF i <= n - 1 THEN {up} ELSE {down, "failed"}
  <2>1. i \in Nat
      OBVIOUS
  <2>2. CASE i = n
      BY <1>6, <2>2
  <2>3. CASE i # n
    <3>1. (i <= n - 1) = (i <= n)
        BY <2>1, <2>3
    <3> QED BY <1>6, <2>3, <3>1 DEF SplitOrFailed
  <2> QED BY <2>2, <2>3
<1>8. SplitOrFailed(h, m, n - 1, up, down)
    BY <1>7 DEF SplitOrFailed
<1>9. AnyFailed(h, m) <=> AnyFailed(h, l) \/ x = "failed"
    BY <1>1, <1>2, <1>6 DEF AnyFailed
<1> QED BY <1>4, <1>6, <1>8, <1>9

LEMMA ProcessFacts ==
    ASSUME IInv, NEW p \in Processes
    PROVE  /\ reg[p] \in Registries /\ op[p] \in Ops /\ dep[p] \in Libraries
           /\ ProcessInv(p, reg[p], op[p], dep[p])
           /\ reg[p].worker \in alive \cup {NoProcess}
           /\ reg[p].hooks \in Seq(Dependencies)
           /\ reg[p].preflighted \in Nat /\ reg[p].initialized \in Nat
           /\ op[p].call # "none" => p \in alive
           /\ reg = [reg EXCEPT ![p] = reg[p]] /\ op = [op EXCEPT ![p] = op[p]]
           /\ dep = [dep EXCEPT ![p] = dep[p]]
<1>1. /\ reg[p] \in Registries /\ op[p] \in Ops /\ dep[p] \in Libraries
      /\ ProcessInv(p, reg[p], op[p], dep[p])
      /\ reg[p].worker \in alive \cup {NoProcess}
      /\ op[p].call # "none" => p \in alive
    BY DEF IInv
<1>2. /\ reg = [reg EXCEPT ![p] = reg[p]] /\ op = [op EXCEPT ![p] = op[p]]
      /\ dep = [dep EXCEPT ![p] = dep[p]]
    BY DEF IInv
<1>3. /\ reg[p].hooks \in Seq(Dependencies)
      /\ reg[p].preflighted \in Nat /\ reg[p].initialized \in Nat
    BY <1>1 DEF Registries
<1> QED BY <1>1, <1>2, <1>3

\* The phase at which a call ends.
LEMMA PhaseSet ==
    ASSUME IInv, NEW p \in Processes, NEW phase \in Phases, SetPhase(p, phase), Leave(p)
    PROVE  \E r \in Registries :
              /\ reg' = [reg EXCEPT ![p] = r] /\ op' = [op EXCEPT ![p] = Idle]
              /\ Idle \in Ops /\ Idle.call = "none"
              /\ r.phase = phase /\ r.hooks = reg[p].hooks /\ r.worker = reg[p].worker
              /\ r.preflighted = reg[p].preflighted /\ r.initialized = reg[p].initialized
<1>1. reg[p] \in Registries
    BY ProcessFacts
<1> DEFINE r == [reg[p] EXCEPT !.phase = phase]
<1>2. /\ r \in Registries /\ r.phase = phase /\ r.hooks = reg[p].hooks
      /\ r.worker = reg[p].worker
      /\ r.preflighted = reg[p].preflighted /\ r.initialized = reg[p].initialized
    BY <1>1 DEF Registries
<1>3. reg' = [reg EXCEPT ![p] = r]
    BY DEF SetPhase
<1>4. Idle \in Ops /\ Idle.call = "none" /\ op' = [op EXCEPT ![p] = Idle]
    BY DEF Idle, Ops, Calls, Leave
<1> HIDE DEF r
<1> QED BY <1>2, <1>3, <1>4, Zenon

LEMMA Entered ==
    ASSUME NEW p \in Processes, NEW call \in Calls, Enter(p, call)
    PROVE  \E o \in Ops : /\ op' = [op EXCEPT ![p] = o]
                          /\ o.call = call /\ o.failed = FALSE
<1> DEFINE o == [call |-> call, failed |-> FALSE]
<1>1. o \in Ops /\ o.call = call /\ o.failed = FALSE
    BY DEF Ops
<1>2. op' = [op EXCEPT ![p] = o]
    BY DEF Enter
<1> HIDE DEF o
<1> QED BY <1>1, <1>2, Zenon

\* Where the border is when all are down, or all are up.
LEMMA SplitEnds ==
    ASSUME NEW h \in Seq(Dependencies), NEW l, NEW up, NEW down
    PROVE  /\ All(h, l, down) => Split(h, l, 0, up, down)
           /\ SplitOrFailed(h, l, 0, up, down) => AllOrFailed(h, l, down)
           /\ All(h, l, up) => SplitOrFailed(h, l, Len(h), up, down)
           /\ Split(h, l, Len(h), up, down) => All(h, l, up)
<1>1. \A i \in DOMAIN h : ~(i <= 0) /\ i <= Len(h)
    OBVIOUS
<1> QED BY <1>1 DEF All, AllOrFailed, Split, SplitOrFailed

\* A border without failures is one with failures that has none.
LEMMA NoFailureYet ==
    ASSUME NEW h, NEW l, NEW n, NEW up, NEW down, up # "failed", down # "failed"
    PROVE  Split(h, l, n, up, down) =>
              SplitOrFailed(h, l, n, up, down) /\ ~AnyFailed(h, l)
BY DEF AnyFailed, Split, SplitOrFailed

LEMMA NoFailureAtAll ==
    ASSUME NEW h, NEW l, NEW down
    PROVE  AllOrFailed(h, l, down) /\ ~AnyFailed(h, l) => All(h, l, down)
BY DEF All, AllOrFailed, AnyFailed

-----------------------------------------------------------------------------
(* Master calls.                                                           *)

LEMMA RegisterDependencyStep ==
    ASSUME IInv, NEW p \in Processes, NEW d \in Dependencies, RegisterDependency(p, d)
    PROVE  IInv'
<1> DEFINE h == Append(reg[p].hooks, d)
           r == [reg[p] EXCEPT !.hooks = h]
<1>1. /\ p \in alive /\ op[p].call = "none" /\ reg[p].phase = "collecting"
      /\ Registrable(p, d) /\ Len(reg[p].hooks) < Capacity
      /\ reg' = [reg EXCEPT ![p] = r]
      /\ alive' = alive /\ op' = op /\ dep' = dep
    BY DEF RegisterDependency, Free
<1>2. /\ reg[p] \in Registries /\ ProcessInv(p, reg[p], op[p], dep[p])
      /\ reg[p].hooks \in Seq(Dependencies) /\ dep[p] \in Libraries
    BY ProcessFacts
<1>3. /\ h \in Seq(Dependencies) /\ Len(h) = Len(reg[p].hooks) + 1
      /\ DOMAIN h = 1 .. Len(reg[p].hooks) + 1
      /\ DOMAIN reg[p].hooks = 1 .. Len(reg[p].hooks) /\ Len(reg[p].hooks) \in Nat
      /\ \A i \in DOMAIN reg[p].hooks : h[i] = reg[p].hooks[i]
      /\ h[Len(reg[p].hooks) + 1] = d
    BY <1>2
<1> HIDE DEF h
<1>4. /\ r \in Registries /\ r.hooks = h /\ r.phase = "collecting"
      /\ r.preflighted = reg[p].preflighted /\ r.initialized = reg[p].initialized
      /\ r.worker = reg[p].worker
    BY <1>1, <1>2, <1>3, Zenon DEF Registries
<1> HIDE DEF r
<1>5. /\ HooksInv(reg[p].hooks) /\ Untouched(reg[p].hooks, dep[p])
      /\ All(reg[p].hooks, dep[p], "raw")
      /\ reg[p].preflighted = 0 /\ reg[p].initialized = 0
    BY <1>1, <1>2 DEF ProcessInv, Resting
<1>6. \A i \in DOMAIN reg[p].hooks :
         reg[p].hooks[i] # d /\ ~({reg[p].hooks[i], d} \subseteq TlsProviders)
    BY <1>1 DEF Registrable, HookAt
<1>7. HooksInv(h)
  <2>1. Len(h) <= Capacity
      BY <1>1, <1>3, LifecycleAssumption
  <2>2. ASSUME NEW i \in DOMAIN h, NEW j \in DOMAIN h, i # j
        PROVE  h[i] # h[j] /\ ~({h[i], h[j]} \subseteq TlsProviders)
    <3>1. CASE i \in DOMAIN reg[p].hooks /\ j \in DOMAIN reg[p].hooks
        BY <1>3, <1>5, <2>2, <3>1 DEF HooksInv
    <3>2. CASE i \in DOMAIN reg[p].hooks /\ j = Len(reg[p].hooks) + 1
        BY <1>3, <1>6, <3>2
    <3>3. CASE i = Len(reg[p].hooks) + 1 /\ j \in DOMAIN reg[p].hooks
        BY <1>3, <1>6, <3>3
    <3> QED BY <1>3, <2>2, <3>1, <3>2, <3>3
  <2> QED BY <2>1, <2>2 DEF HooksInv
<1>8. Untouched(h, dep[p])
    BY <1>3, <1>5 DEF Untouched
<1>9. All(h, dep[p], "raw")
  <2>1. dep[p][d] = "raw"
      BY <1>5, <1>6 DEF Untouched
  <2>2. ASSUME NEW i \in DOMAIN h PROVE dep[p][h[i]] = "raw"
    <3>1. CASE i \in DOMAIN reg[p].hooks
        BY <1>3, <1>5, <3>1 DEF All
    <3>2. CASE i = Len(reg[p].hooks) + 1
        BY <1>3, <2>1, <3>2
    <3> QED BY <1>3, <3>1, <3>2
  <2> QED BY <2>2 DEF All
<1>10. ProcessInv(p, r, op[p], dep[p])
  <2>1. r.preflighted <= Len(r.hooks) /\ r.initialized <= Len(r.hooks)
      BY <1>3, <1>4, <1>5
  <2>2. Resting(p, r, dep[p])
      BY <1>4, <1>5, <1>9 DEF Resting
  <2>3. Busy(p, r, op[p], dep[p])
      BY <1>1 DEF Busy
  <2>4. r.phase \notin WorkerPhases
      BY <1>4 DEF WorkerPhases
  <2> QED BY <1>4, <1>7, <1>8, <2>1, <2>2, <2>3, <2>4 DEF ProcessInv
<1>11. r.worker \in alive \cup {NoProcess} /\ op[p] \in Ops
    BY <1>4, ProcessFacts
<1>12. op' = [op EXCEPT ![p] = op[p]] /\ dep' = [dep EXCEPT ![p] = dep[p]]
    BY <1>1, ProcessFacts
<1> QED BY <1>1, <1>2, <1>4, <1>10, <1>11, <1>12, OneProcess, Zenon

\* A step that only enters a call, with the registry as it is.
LEMMA EnterStep ==
    ASSUME IInv, NEW p \in alive, NEW call \in Calls, call # "none", Enter(p, call),
           alive' = alive, reg' = reg, dep' = dep,
           \A o \in Ops : o.call = call /\ o.failed = FALSE => Busy(p, reg[p], o, dep[p])
    PROVE  IInv'
<1>1. p \in Processes
    BY DEF IInv
<1>2. PICK o \in Ops : /\ op' = [op EXCEPT ![p] = o]
                       /\ o.call = call /\ o.failed = FALSE
    BY <1>1, Entered, Zenon
<1>3. ProcessInv(p, reg[p], o, dep[p])
  <2>1. ProcessInv(p, reg[p], op[p], dep[p])
      BY <1>1, ProcessFacts
  <2>2. Busy(p, reg[p], o, dep[p])
      BY <1>2
  <2> QED BY <1>2, <2>1, <2>2 DEF ProcessInv
<1>4. /\ reg[p] \in Registries /\ dep[p] \in Libraries
      /\ reg[p].worker \in alive \cup {NoProcess}
      /\ reg' = [reg EXCEPT ![p] = reg[p]] /\ dep' = [dep EXCEPT ![p] = dep[p]]
    BY <1>1, ProcessFacts
<1> QED BY <1>2, <1>3, <1>4, OneProcess, Zenon

LEMMA PreflightStep ==
    ASSUME IInv, NEW p \in Processes, Preflight(p)
    PROVE  IInv'
<1>1. /\ p \in alive /\ op[p].call = "none" /\ p = Master /\ reg[p].phase = "collecting"
      /\ Enter(p, "preflight") /\ alive' = alive /\ reg' = reg /\ dep' = dep
    BY DEF Preflight, Free
<1>2. /\ reg[p].preflighted = 0 /\ reg[p].initialized = 0
      /\ All(reg[p].hooks, dep[p], "raw") /\ reg[p].hooks \in Seq(Dependencies)
    BY <1>1, ProcessFacts DEF ProcessInv, Resting
<1>3. Split(reg[p].hooks, dep[p], 0, "prepared", "raw")
    BY <1>2, SplitEnds
<1>4. \A o \in Ops : o.call = "preflight" => Busy(p, reg[p], o, dep[p])
    BY <1>1, <1>2, <1>3 DEF Busy
<1> QED BY <1>1, <1>4, EnterStep, Zenon DEF Calls

LEMMA PreflightHookStep ==
    ASSUME IInv, NEW p \in Processes, PreflightHook(p)
    PROVE  IInv'
<1> DEFINE h == reg[p].hooks
           n == reg[p].preflighted
           r == [reg[p] EXCEPT !.preflighted = n + 1]
<1>1. /\ op[p].call = "preflight" /\ n < Len(h)
      /\ reg' = [reg EXCEPT ![p] = r] /\ alive' = alive /\ op' = op
      /\ dep' = [dep EXCEPT ![p] = With(dep[p], h[n + 1], Moved(dep[p][h[n + 1]], "raw", "prepared"))]
    BY DEF PreflightHook, CallHook, HookAt, With
<1>2. /\ reg[p] \in Registries /\ op[p] \in Ops /\ dep[p] \in Libraries
      /\ ProcessInv(p, reg[p], op[p], dep[p]) /\ p \in alive
      /\ reg[p].worker \in alive \cup {NoProcess}
      /\ h \in Seq(Dependencies) /\ n \in Nat
      /\ op' = [op EXCEPT ![p] = op[p]]
    BY <1>1, ProcessFacts
<1>3. /\ r \in Registries /\ r.hooks = h /\ r.phase = reg[p].phase /\ r.preflighted = n + 1
      /\ r.initialized = reg[p].initialized /\ r.worker = reg[p].worker
    BY <1>2 DEF Registries
<1> HIDE DEF r
<1>4. /\ HooksInv(h) /\ Untouched(h, dep[p]) /\ p = Master /\ reg[p].initialized = 0
      /\ Split(h, dep[p], n, "prepared", "raw") /\ reg[p].phase \notin WorkerPhases
    BY <1>1, <1>2 DEF ProcessInv, Busy
<1>5. PICK m \in Libraries :
         /\ m = With(dep[p], h[n + 1], Moved(dep[p][h[n + 1]], "raw", "prepared"))
         /\ Untouched(h, m) /\ Split(h, m, n + 1, "prepared", "raw")
  <2>1. "prepared" \in States
      BY DEF States
  <2> HIDE DEF h, n
  <2> QED BY <1>1, <1>2, <1>4, <2>1, OneMoreUp
<1>6. dep' = [dep EXCEPT ![p] = m]
    BY <1>1, <1>5, Zenon
<1>7. ProcessInv(p, r, op[p], m)
  <2>1. r.preflighted <= Len(r.hooks) /\ r.initialized <= Len(r.hooks)
      BY <1>1, <1>2, <1>3, <1>4
  <2>2. Busy(p, r, op[p], m)
      BY <1>1, <1>3, <1>4, <1>5, Zenon DEF Busy
  <2> QED BY <1>1, <1>3, <1>4, <1>5, <2>1, <2>2, Zenon DEF ProcessInv
<1> QED BY <1>1, <1>2, <1>3, <1>6, <1>7, OneProcess, Zenon

LEMMA PreflightHookFailsStep ==
    ASSUME IInv, NEW p \in Processes, PreflightHookFails(p)
    PROVE  IInv'
<1>1. /\ op[p].call = "preflight" /\ Enter(p, "preflight_rollback")
      /\ alive' = alive /\ reg' = reg /\ dep' = dep
    BY DEF PreflightHookFails
<1>2. /\ p \in alive /\ p = Master
      /\ Split(reg[p].hooks, dep[p], reg[p].preflighted, "prepared", "raw")
    BY <1>1, ProcessFacts, Zenon DEF ProcessInv, Busy
<1>3. /\ SplitOrFailed(reg[p].hooks, dep[p], reg[p].preflighted, "prepared", "raw")
      /\ ~AnyFailed(reg[p].hooks, dep[p])
    BY <1>2, NoFailureYet
<1>4. \A o \in Ops : o.call = "preflight_rollback" /\ o.failed = FALSE
                      => Busy(p, reg[p], o, dep[p])
    BY <1>2, <1>3 DEF Busy
<1> QED BY <1>1, <1>2, <1>4, EnterStep, Zenon DEF Calls

\* A call ends: the registry says so, and the libraries are as it says.
LEMMA EndStep ==
    ASSUME IInv, NEW p \in Processes, NEW phase \in Phases, SetPhase(p, phase), Leave(p),
           op[p].call # "none", alive' = alive, dep' = dep,
           phase \in WorkerPhases => p # Master,
           \A r \in Registries :
              /\ r.phase = phase /\ r.hooks = reg[p].hooks /\ r.worker = reg[p].worker
              /\ r.preflighted = reg[p].preflighted /\ r.initialized = reg[p].initialized
              => Resting(p, r, dep[p])
    PROVE  IInv'
<1>1. PICK r \in Registries :
         /\ reg' = [reg EXCEPT ![p] = r] /\ op' = [op EXCEPT ![p] = Idle]
         /\ Idle \in Ops /\ Idle.call = "none"
         /\ r.phase = phase /\ r.hooks = reg[p].hooks /\ r.worker = reg[p].worker
         /\ r.preflighted = reg[p].preflighted /\ r.initialized = reg[p].initialized
    BY PhaseSet
<1>2. /\ p \in alive /\ dep[p] \in Libraries /\ dep' = [dep EXCEPT ![p] = dep[p]]
      /\ ProcessInv(p, reg[p], op[p], dep[p])
      /\ reg[p].worker \in alive \cup {NoProcess}
    BY ProcessFacts
<1>3. ProcessInv(p, r, Idle, dep[p])
  <2>1. Resting(p, r, dep[p])
      BY <1>1
  <2>2. Busy(p, r, Idle, dep[p])
      BY <1>1 DEF Busy
  <2> QED BY <1>1, <1>2, <2>1, <2>2 DEF ProcessInv
<1> QED BY <1>1, <1>2, <1>3, OneProcess, Zenon

LEMMA PreflightDoneStep ==
    ASSUME IInv, NEW p \in Processes, PreflightDone(p)
    PROVE  IInv'
<1>1. /\ op[p].call = "preflight" /\ reg[p].preflighted = Len(reg[p].hooks)
      /\ SetPhase(p, "preflighted") /\ Leave(p) /\ alive' = alive /\ dep' = dep
    BY DEF PreflightDone
<1>2. /\ reg[p].hooks \in Seq(Dependencies) /\ reg[p].initialized = 0
      /\ Split(reg[p].hooks, dep[p], reg[p].preflighted, "prepared", "raw")
    BY <1>1, ProcessFacts, Zenon DEF ProcessInv, Busy
<1>3. All(reg[p].hooks, dep[p], "prepared")
    BY <1>1, <1>2, SplitEnds
<1>4. \A r \in Registries :
         /\ r.phase = "preflighted" /\ r.hooks = reg[p].hooks
         /\ r.preflighted = reg[p].preflighted /\ r.initialized = reg[p].initialized
         => Resting(p, r, dep[p])
    BY <1>1, <1>2, <1>3 DEF Resting
<1>5. "preflighted" \in Phases /\ "preflighted" \notin WorkerPhases
    BY DEF Phases, WorkerPhases
<1> QED BY <1>1, <1>4, <1>5, EndStep

LEMMA MasterCleanupHookStep ==
    ASSUME IInv, NEW p \in Processes, NEW ok \in BOOLEAN, MasterCleanupHook(p, ok)
    PROVE  IInv'
<1> DEFINE h == reg[p].hooks
           n == reg[p].preflighted
           r == [reg[p] EXCEPT !.preflighted = n - 1]
           f == op[p].failed \/ ~ok
           o == [call |-> op[p].call, failed |-> f]
           to == IF ok THEN "raw" ELSE "failed"
<1>1. /\ op[p].call \in {"preflight_rollback", "master_cleanup"} /\ n > 0
      /\ reg' = [reg EXCEPT ![p] = r] /\ alive' = alive
      /\ dep' = [dep EXCEPT ![p] = With(dep[p], h[n], Moved(dep[p][h[n]], "prepared", to))]
    BY DEF MasterCleanupHook, CallHook, HookAt, LastHook, With
<1>2. /\ reg[p] \in Registries /\ op[p] \in Ops /\ dep[p] \in Libraries
      /\ ProcessInv(p, reg[p], op[p], dep[p]) /\ p \in alive
      /\ reg[p].worker \in alive \cup {NoProcess}
      /\ h \in Seq(Dependencies) /\ n \in Nat
    BY <1>1, ProcessFacts
<1>3. /\ r \in Registries /\ r.hooks = h /\ r.phase = reg[p].phase /\ r.preflighted = n - 1
      /\ r.initialized = reg[p].initialized /\ r.worker = reg[p].worker
  <2>1. n - 1 \in Nat
      BY <1>1, <1>2
  <2> QED BY <1>2, <2>1 DEF Registries
<1>4. op' = [op EXCEPT ![p] = o] /\ f \in BOOLEAN
  <2>1. op' = [op EXCEPT ![p] = [op[p] EXCEPT !.failed = f]]
      BY DEF MasterCleanupHook
  <2>2. [op[p] EXCEPT !.failed = f] = o /\ f \in BOOLEAN
      BY <1>2 DEF Ops
  <2> QED BY <2>1, <2>2, Zenon
<1>5. op[p].failed \in BOOLEAN /\ (f = TRUE <=> op[p].failed = TRUE \/ ok = FALSE)
    BY <1>2 DEF Ops
<1> HIDE DEF r, f
<1>6. o \in Ops /\ o.call = op[p].call /\ o.failed = f
    BY <1>2, <1>4 DEF Ops
<1> HIDE DEF o
<1>7. /\ HooksInv(h) /\ Untouched(h, dep[p]) /\ p = Master
      /\ n <= Len(h) /\ reg[p].initialized <= Len(h)
      /\ SplitOrFailed(h, dep[p], n, "prepared", "raw")
      /\ op[p].failed = TRUE <=> AnyFailed(h, dep[p])
      /\ reg[p].phase \in WorkerPhases => p # Master
    BY <1>1, <1>2 DEF ProcessInv, Busy
<1>8. PICK m \in Libraries :
         /\ m = With(dep[p], h[n], Moved(dep[p][h[n]], "prepared", to))
         /\ Untouched(h, m) /\ SplitOrFailed(h, m, n - 1, "prepared", "raw")
         /\ AnyFailed(h, m) <=> AnyFailed(h, dep[p]) \/ to = "failed"
  <2>1. "prepared" \in States /\ "raw" \in States /\ to \in {"raw", "failed"}
      BY DEF States
  <2> HIDE DEF h, n, to
  <2> QED BY <1>1, <1>2, <1>7, <2>1, OneFewerUp
<1>9. dep' = [dep EXCEPT ![p] = m]
    BY <1>1, <1>8, Zenon
<1>10. f = TRUE <=> AnyFailed(h, m)
  <2>1. to = "failed" <=> ok = FALSE
      OBVIOUS
  <2> HIDE DEF to
  <2> QED BY <1>5, <1>7, <1>8, <2>1, Zenon
<1>11. ProcessInv(p, r, o, m)
  <2>1. r.preflighted <= Len(r.hooks) /\ r.initialized <= Len(r.hooks)
      BY <1>1, <1>2, <1>3, <1>7
  <2>2. Busy(p, r, o, m)
      BY <1>1, <1>3, <1>6, <1>7, <1>8, <1>10, Zenon DEF Busy
  <2>3. o.call # "none"
      BY <1>1, <1>6
  <2> QED BY <1>3, <1>7, <1>8, <2>1, <2>2, <2>3, Zenon DEF ProcessInv
<1> QED BY <1>1, <1>2, <1>3, <1>4, <1>6, <1>9, <1>11, OneProcess, Zenon

LEMMA MasterCleanupDoneStep ==
    ASSUME IInv, NEW p \in Processes, MasterCleanupDone(p)
    PROVE  IInv'
<1> DEFINE bad == {"preflight_rollback_failed", "master_cleanup_failed"}
           good == {"preflight_failed", "master_cleaned"}
<1>1. PICK phase :
         /\ op[p].failed = TRUE => phase \in bad
         /\ op[p].failed = FALSE => phase \in good
         /\ op[p].call \in {"preflight_rollback", "master_cleanup"} /\ reg[p].preflighted = 0
         /\ SetPhase(p, phase) /\ Leave(p) /\ alive' = alive /\ dep' = dep
  <2>1. CASE op[p].call = "preflight_rollback"
      BY <2>1 DEF MasterCleanupDone
  <2>2. CASE op[p].call = "master_cleanup"
      BY <2>2 DEF MasterCleanupDone
  <2> QED BY <2>1, <2>2 DEF MasterCleanupDone
<1>2. /\ reg[p].hooks \in Seq(Dependencies) /\ op[p].failed \in BOOLEAN
      /\ SplitOrFailed(reg[p].hooks, dep[p], 0, "prepared", "raw")
      /\ op[p].failed = TRUE <=> AnyFailed(reg[p].hooks, dep[p])
      /\ p = Master
    BY <1>1, ProcessFacts, Zenon DEF ProcessInv, Busy, Ops
<1>3. AllOrFailed(reg[p].hooks, dep[p], "raw")
    BY <1>2, SplitEnds
<1>4. ~AnyFailed(reg[p].hooks, dep[p]) => All(reg[p].hooks, dep[p], "raw")
    BY <1>3, NoFailureAtAll
<1>5. \A r \in Registries :
         r.phase = phase /\ r.hooks = reg[p].hooks => Resting(p, r, dep[p])
  <2>1. CASE op[p].failed = TRUE
      BY <1>1, <1>2, <1>3, <2>1 DEF Resting
  <2>2. CASE op[p].failed = FALSE
      BY <1>1, <1>2, <1>4, <2>2 DEF Resting
  <2> QED BY <1>2, <2>1, <2>2, Zenon
<1>6. phase \in Phases /\ (phase \in WorkerPhases => p # Master)
    BY <1>1, <1>2 DEF Phases, FailurePhases, WorkerPhases
<1> QED BY <1>1, <1>5, <1>6, EndStep

LEMMA PrepareForkStep ==
    ASSUME IInv, NEW p \in Processes, NEW threads, NEW quiescent,
           PrepareFork(p, threads, quiescent)
    PROVE  IInv'
<1> DEFINE r == [reg[p] EXCEPT !.epoch = reg[p].epoch + 1, !.phase = "fork_ready"]
<1>1. /\ p \in alive /\ op[p].call = "none" /\ reg[p].phase = "preflighted"
      /\ reg[p].epoch < MaxEpoch
      /\ reg' = [reg EXCEPT ![p] = r] /\ alive' = alive /\ op' = op /\ dep' = dep
    BY ProcessFacts, ZenonT(60) DEF PrepareFork, Free
<1>2. /\ reg[p] \in Registries /\ op[p] \in Ops /\ dep[p] \in Libraries
      /\ ProcessInv(p, reg[p], op[p], dep[p])
      /\ reg[p].worker \in alive \cup {NoProcess}
    BY ProcessFacts
<1>3. /\ r \in Registries /\ r.phase = "fork_ready" /\ r.hooks = reg[p].hooks
      /\ r.preflighted = reg[p].preflighted /\ r.initialized = reg[p].initialized
      /\ r.worker = reg[p].worker
  <2>1. reg[p].epoch + 1 \in 0 .. MaxEpoch /\ "fork_ready" \in Phases
      BY <1>1, <1>2, LifecycleAssumption DEF Registries, Phases
  <2> QED BY <1>2, <2>1, Zenon DEF Registries
<1> HIDE DEF r
<1>4. ProcessInv(p, r, op[p], dep[p])
  <2>1. Resting(p, r, dep[p])
      BY <1>1, <1>2, <1>3 DEF ProcessInv, Resting
  <2>2. Busy(p, r, op[p], dep[p])
      BY <1>1 DEF Busy
  <2> QED BY <1>2, <1>3, <2>1, <2>2 DEF ProcessInv, WorkerPhases
<1>5. op' = [op EXCEPT ![p] = op[p]] /\ dep' = [dep EXCEPT ![p] = dep[p]]
    BY <1>1, ProcessFacts
<1>6. /\ p \in alive /\ alive' = alive /\ reg' = [reg EXCEPT ![p] = r]
      /\ r.worker \in alive \cup {NoProcess}
    BY <1>1, <1>2, <1>3
<1>7. r \in Registries /\ op[p] \in Ops /\ dep[p] \in Libraries
    BY <1>2, <1>3
<1> QED BY <1>4, <1>5, <1>6, <1>7, OneProcess, Zenon

LEMMA MasterCleanupStep ==
    ASSUME IInv, NEW p \in Processes, MasterCleanup(p)
    PROVE  IInv'
<1>1. /\ p \in alive /\ op[p].call = "none" /\ p = Master
      /\ reg[p].phase \in {"preflighted", "fork_ready"}
      /\ Enter(p, "master_cleanup") /\ alive' = alive /\ reg' = reg /\ dep' = dep
    BY DEF MasterCleanup, Free, IsMasterProcess
<1>2. /\ reg[p].preflighted = Len(reg[p].hooks) /\ reg[p].hooks \in Seq(Dependencies)
      /\ All(reg[p].hooks, dep[p], "prepared")
    BY <1>1, ProcessFacts DEF ProcessInv, Resting
<1>3. /\ SplitOrFailed(reg[p].hooks, dep[p], reg[p].preflighted, "prepared", "raw")
      /\ ~AnyFailed(reg[p].hooks, dep[p])
  <2>1. ~AnyFailed(reg[p].hooks, dep[p])
      BY <1>2 DEF All, AnyFailed
  <2> QED BY <1>2, <2>1, SplitEnds
<1>4. \A o \in Ops : o.call = "master_cleanup" /\ o.failed = FALSE
                      => Busy(p, reg[p], o, dep[p])
    BY <1>1, <1>3 DEF Busy
<1> QED BY <1>1, <1>4, EnterStep, Zenon DEF Calls

-----------------------------------------------------------------------------
(* Worker calls and forks.                                                 *)

LEMMA WorkerInitializeStep ==
    ASSUME IInv, NEW p \in Processes, NEW e, WorkerInitialize(p, e)
    PROVE  IInv'
<1> DEFINE r == [reg[p] EXCEPT !.worker = p]
<1>1. /\ p \in alive /\ op[p].call = "none" /\ p # Master /\ reg[p].phase = "fork_ready"
      /\ reg' = [reg EXCEPT ![p] = r] /\ Enter(p, "initialize")
      /\ alive' = alive /\ dep' = dep
    BY DEF WorkerInitialize, Free
<1>2. /\ reg[p] \in Registries /\ dep[p] \in Libraries
      /\ ProcessInv(p, reg[p], op[p], dep[p]) /\ reg[p].hooks \in Seq(Dependencies)
      /\ dep' = [dep EXCEPT ![p] = dep[p]]
    BY <1>1, ProcessFacts
<1>3. /\ r \in Registries /\ r.phase = "fork_ready" /\ r.hooks = reg[p].hooks
      /\ r.preflighted = reg[p].preflighted /\ r.initialized = reg[p].initialized
      /\ r.worker = p
    BY <1>1, <1>2 DEF Registries
<1> HIDE DEF r
<1>4. PICK o \in Ops : /\ op' = [op EXCEPT ![p] = o]
                       /\ o.call = "initialize" /\ o.failed = FALSE
    BY <1>1, Entered, Zenon DEF Calls
<1>5. reg[p].initialized = 0 /\ Split(reg[p].hooks, dep[p], 0, "working", "prepared")
    BY <1>1, <1>2, SplitEnds DEF ProcessInv, Resting
<1>6. ProcessInv(p, r, o, dep[p])
  <2>1. Busy(p, r, o, dep[p])
      BY <1>1, <1>3, <1>4, <1>5 DEF Busy
  <2> QED BY <1>1, <1>2, <1>3, <1>4, <2>1 DEF ProcessInv
<1> QED BY <1>1, <1>2, <1>3, <1>4, <1>6, OneProcess, Zenon

LEMMA InitializeHookStep ==
    ASSUME IInv, NEW p \in Processes, InitializeHook(p)
    PROVE  IInv'
<1> DEFINE h == reg[p].hooks
           n == reg[p].initialized
           r == [reg[p] EXCEPT !.initialized = n + 1]
<1>1. /\ op[p].call = "initialize" /\ n < Len(h)
      /\ reg' = [reg EXCEPT ![p] = r] /\ alive' = alive /\ op' = op
      /\ dep' = [dep EXCEPT ![p] =
                    With(dep[p], h[n + 1], Moved(dep[p][h[n + 1]], "prepared", "working"))]
    BY DEF InitializeHook, CallHook, HookAt, With
<1>2. /\ reg[p] \in Registries /\ op[p] \in Ops /\ dep[p] \in Libraries
      /\ ProcessInv(p, reg[p], op[p], dep[p]) /\ p \in alive
      /\ reg[p].worker \in alive \cup {NoProcess}
      /\ h \in Seq(Dependencies) /\ n \in Nat
      /\ op' = [op EXCEPT ![p] = op[p]]
    BY <1>1, ProcessFacts
<1>3. /\ r \in Registries /\ r.hooks = h /\ r.phase = reg[p].phase /\ r.initialized = n + 1
      /\ r.preflighted = reg[p].preflighted /\ r.worker = reg[p].worker
    BY <1>2 DEF Registries
<1> HIDE DEF r
<1>4. /\ HooksInv(h) /\ Untouched(h, dep[p]) /\ p # Master /\ reg[p].worker = p
      /\ Split(h, dep[p], n, "working", "prepared") /\ reg[p].preflighted <= Len(h)
    BY <1>1, <1>2 DEF ProcessInv, Busy
<1>5. PICK m \in Libraries :
         /\ m = With(dep[p], h[n + 1], Moved(dep[p][h[n + 1]], "prepared", "working"))
         /\ Untouched(h, m) /\ Split(h, m, n + 1, "working", "prepared")
  <2>1. "working" \in States
      BY DEF States
  <2> HIDE DEF h, n
  <2> QED BY <1>1, <1>2, <1>4, <2>1, OneMoreUp
<1>6. dep' = [dep EXCEPT ![p] = m]
    BY <1>1, <1>5, Zenon
<1>7. ProcessInv(p, r, op[p], m)
  <2>1. r.preflighted <= Len(r.hooks) /\ r.initialized <= Len(r.hooks)
      BY <1>1, <1>2, <1>3, <1>4
  <2>2. Busy(p, r, op[p], m)
      BY <1>1, <1>3, <1>4, <1>5, Zenon DEF Busy
  <2> QED BY <1>1, <1>3, <1>4, <1>5, <2>1, <2>2, Zenon DEF ProcessInv
<1> QED BY <1>1, <1>2, <1>3, <1>6, <1>7, OneProcess, Zenon

LEMMA InitializeHookFailsStep ==
    ASSUME IInv, NEW p \in Processes, InitializeHookFails(p)
    PROVE  IInv'
<1>1. /\ op[p].call = "initialize" /\ Enter(p, "initialize_rollback")
      /\ alive' = alive /\ reg' = reg /\ dep' = dep
    BY DEF InitializeHookFails
<1>2. /\ p \in alive /\ p # Master /\ reg[p].worker = p
      /\ Split(reg[p].hooks, dep[p], reg[p].initialized, "working", "prepared")
    BY <1>1, ProcessFacts, Zenon DEF ProcessInv, Busy
<1>3. /\ SplitOrFailed(reg[p].hooks, dep[p], reg[p].initialized, "working", "prepared")
      /\ ~AnyFailed(reg[p].hooks, dep[p])
    BY <1>2, NoFailureYet
<1>4. \A o \in Ops : o.call = "initialize_rollback" /\ o.failed = FALSE
                      => Busy(p, reg[p], o, dep[p])
    BY <1>2, <1>3 DEF Busy
<1> QED BY <1>1, <1>2, <1>4, EnterStep, Zenon DEF Calls

LEMMA InitializeDoneStep ==
    ASSUME IInv, NEW p \in Processes, InitializeDone(p)
    PROVE  IInv'
<1>1. /\ op[p].call = "initialize" /\ reg[p].initialized = Len(reg[p].hooks)
      /\ SetPhase(p, "worker_ready") /\ Leave(p) /\ alive' = alive /\ dep' = dep
    BY DEF InitializeDone
<1>2. /\ reg[p].hooks \in Seq(Dependencies) /\ p # Master /\ reg[p].worker = p
      /\ Split(reg[p].hooks, dep[p], reg[p].initialized, "working", "prepared")
    BY <1>1, ProcessFacts, Zenon DEF ProcessInv, Busy
<1>3. All(reg[p].hooks, dep[p], "working")
    BY <1>1, <1>2, SplitEnds
<1>4. \A r \in Registries :
         /\ r.phase = "worker_ready" /\ r.hooks = reg[p].hooks /\ r.worker = reg[p].worker
         /\ r.initialized = reg[p].initialized
         => Resting(p, r, dep[p])
    BY <1>1, <1>2, <1>3 DEF Resting
<1>5. "worker_ready" \in Phases
    BY DEF Phases
<1> QED BY <1>1, <1>2, <1>4, <1>5, EndStep

LEMMA WorkerCleanupStep ==
    ASSUME IInv, NEW p \in Processes, WorkerCleanup(p)
    PROVE  IInv'
<1>1. /\ p \in alive /\ op[p].call = "none" /\ p # Master /\ reg[p].worker = p
      /\ reg[p].phase = "worker_ready"
      /\ Enter(p, "worker_cleanup") /\ alive' = alive /\ reg' = reg /\ dep' = dep
    BY DEF WorkerCleanup, Free, IsWorkerProcess
<1>2. /\ reg[p].initialized = Len(reg[p].hooks) /\ reg[p].hooks \in Seq(Dependencies)
      /\ All(reg[p].hooks, dep[p], "working")
    BY <1>1, ProcessFacts DEF ProcessInv, Resting
<1>3. /\ SplitOrFailed(reg[p].hooks, dep[p], reg[p].initialized, "working", "prepared")
      /\ ~AnyFailed(reg[p].hooks, dep[p])
  <2>1. ~AnyFailed(reg[p].hooks, dep[p])
      BY <1>2 DEF All, AnyFailed
  <2> QED BY <1>2, <2>1, SplitEnds
<1>4. \A o \in Ops : o.call = "worker_cleanup" /\ o.failed = FALSE
                      => Busy(p, reg[p], o, dep[p])
    BY <1>1, <1>3 DEF Busy
<1> QED BY <1>1, <1>4, EnterStep, Zenon DEF Calls

LEMMA WorkerCleanupHookStep ==
    ASSUME IInv, NEW p \in Processes, NEW ok \in BOOLEAN, WorkerCleanupHook(p, ok)
    PROVE  IInv'
<1> DEFINE h == reg[p].hooks
           n == reg[p].initialized
           r == [reg[p] EXCEPT !.initialized = n - 1]
           f == op[p].failed \/ ~ok
           o == [call |-> op[p].call, failed |-> f]
           to == IF ok THEN "prepared" ELSE "failed"
<1>1. /\ op[p].call \in {"initialize_rollback", "worker_cleanup"} /\ n > 0
      /\ reg' = [reg EXCEPT ![p] = r] /\ alive' = alive
      /\ dep' = [dep EXCEPT ![p] = With(dep[p], h[n], Moved(dep[p][h[n]], "working", to))]
    BY DEF WorkerCleanupHook, CallHook, HookAt, LastHook, With, CleanupContinues
<1>2. /\ reg[p] \in Registries /\ op[p] \in Ops /\ dep[p] \in Libraries
      /\ ProcessInv(p, reg[p], op[p], dep[p]) /\ p \in alive
      /\ reg[p].worker \in alive \cup {NoProcess}
      /\ h \in Seq(Dependencies) /\ n \in Nat
    BY <1>1, ProcessFacts
<1>3. /\ r \in Registries /\ r.hooks = h /\ r.phase = reg[p].phase /\ r.initialized = n - 1
      /\ r.preflighted = reg[p].preflighted /\ r.worker = reg[p].worker
  <2>1. n - 1 \in Nat
      BY <1>1, <1>2
  <2> QED BY <1>2, <2>1 DEF Registries
<1>4. op' = [op EXCEPT ![p] = o] /\ f \in BOOLEAN
  <2>1. op' = [op EXCEPT ![p] = [op[p] EXCEPT !.failed = f]]
      BY DEF WorkerCleanupHook
  <2>2. [op[p] EXCEPT !.failed = f] = o /\ f \in BOOLEAN
      BY <1>2 DEF Ops
  <2> QED BY <2>1, <2>2, Zenon
<1>5. op[p].failed \in BOOLEAN /\ (f = TRUE <=> op[p].failed = TRUE \/ ok = FALSE)
    BY <1>2 DEF Ops
<1> HIDE DEF r, f
<1>6. o \in Ops /\ o.call = op[p].call /\ o.failed = f
    BY <1>2, <1>4 DEF Ops
<1> HIDE DEF o
<1>7. /\ HooksInv(h) /\ Untouched(h, dep[p]) /\ p # Master /\ reg[p].worker = p
      /\ n <= Len(h) /\ reg[p].preflighted <= Len(h)
      /\ SplitOrFailed(h, dep[p], n, "working", "prepared")
      /\ op[p].failed = TRUE <=> AnyFailed(h, dep[p])
      /\ reg[p].phase \in WorkerPhases => p # Master
    BY <1>1, <1>2 DEF ProcessInv, Busy
<1>8. PICK m \in Libraries :
         /\ m = With(dep[p], h[n], Moved(dep[p][h[n]], "working", to))
         /\ Untouched(h, m) /\ SplitOrFailed(h, m, n - 1, "working", "prepared")
         /\ AnyFailed(h, m) <=> AnyFailed(h, dep[p]) \/ to = "failed"
  <2>1. "working" \in States /\ "prepared" \in States /\ to \in {"prepared", "failed"}
      BY DEF States
  <2> HIDE DEF h, n, to
  <2> QED BY <1>1, <1>2, <1>7, <2>1, OneFewerUp
<1>9. dep' = [dep EXCEPT ![p] = m]
    BY <1>1, <1>8, Zenon
<1>10. f = TRUE <=> AnyFailed(h, m)
  <2>1. to = "failed" <=> ok = FALSE
      OBVIOUS
  <2> HIDE DEF to
  <2> QED BY <1>5, <1>7, <1>8, <2>1, Zenon
<1>11. ProcessInv(p, r, o, m)
  <2>1. r.preflighted <= Len(r.hooks) /\ r.initialized <= Len(r.hooks)
      BY <1>1, <1>2, <1>3, <1>7
  <2>2. Busy(p, r, o, m)
      BY <1>1, <1>3, <1>6, <1>7, <1>8, <1>10, Zenon DEF Busy
  <2>3. o.call # "none"
      BY <1>1, <1>6
  <2> QED BY <1>3, <1>7, <1>8, <2>1, <2>2, <2>3, Zenon DEF ProcessInv
<1> QED BY <1>1, <1>2, <1>3, <1>4, <1>6, <1>9, <1>11, OneProcess, Zenon

LEMMA WorkerCleanupDoneStep ==
    ASSUME IInv, NEW p \in Processes, WorkerCleanupDone(p)
    PROVE  IInv'
<1> DEFINE bad == {"worker_rollback_failed", "worker_cleanup_failed"}
           good == {"worker_rolled_back", "worker_cleaned"}
<1>1. PICK phase :
         /\ op[p].failed = TRUE => phase \in bad
         /\ op[p].failed = FALSE => phase \in good
         /\ op[p].call \in {"initialize_rollback", "worker_cleanup"} /\ reg[p].initialized = 0
         /\ SetPhase(p, phase) /\ Leave(p) /\ alive' = alive /\ dep' = dep
  <2>1. CASE op[p].call = "initialize_rollback"
      BY <2>1 DEF WorkerCleanupDone, WorkerLoopDone
  <2>2. CASE op[p].call = "worker_cleanup"
      BY <2>2 DEF WorkerCleanupDone, WorkerLoopDone
  <2> QED BY <2>1, <2>2, Zenon DEF WorkerCleanupDone
<1>2. /\ reg[p].hooks \in Seq(Dependencies) /\ op[p].failed \in BOOLEAN
      /\ SplitOrFailed(reg[p].hooks, dep[p], 0, "working", "prepared")
      /\ op[p].failed = TRUE <=> AnyFailed(reg[p].hooks, dep[p])
      /\ p # Master
    BY <1>1, ProcessFacts, Zenon DEF ProcessInv, Busy, Ops
<1>3. AllOrFailed(reg[p].hooks, dep[p], "prepared")
    BY <1>2, SplitEnds
<1>4. ~AnyFailed(reg[p].hooks, dep[p]) => All(reg[p].hooks, dep[p], "prepared")
    BY <1>3, NoFailureAtAll
<1>5. \A r \in Registries :
         r.phase = phase /\ r.hooks = reg[p].hooks => Resting(p, r, dep[p])
  <2>1. CASE op[p].failed = TRUE
      BY <1>1, <1>2, <1>3, <2>1 DEF Resting
  <2>2. CASE op[p].failed = FALSE
      BY <1>1, <1>2, <1>4, <2>2 DEF Resting
  <2> QED BY <1>2, <2>1, <2>2, Zenon
<1>6. phase \in Phases /\ (phase \in WorkerPhases => p # Master)
    BY <1>1, <1>2 DEF Phases, FailurePhases, WorkerPhases
<1> QED BY <1>1, <1>5, <1>6, EndStep

\* The child of a process that is in no call rests as its parent does, but has
\* initialized no worker.
LEMMA ForkStep ==
    ASSUME IInv, NEW p \in Processes, NEW c \in Processes, Fork(p, c)
    PROVE  IInv'
<1> DEFINE r == reg[p]
           l == dep[p]
           m == [d \in Dependencies |-> Inherited(l[d])]
<1>1. /\ p \in alive /\ op[p].call = "none" /\ c \notin alive
      /\ alive' = alive \cup {c} /\ op' = op
      /\ reg' = [reg EXCEPT ![c] = r] /\ dep' = [dep EXCEPT ![c] = m]
    BY DEF Fork, Free
<1>2. /\ r \in Registries /\ l \in Libraries /\ ProcessInv(p, r, op[p], l)
      /\ r.worker \in alive \cup {NoProcess} /\ r.hooks \in Seq(Dependencies)
    BY ProcessFacts
<1>3. op[c].call = "none" /\ c # Master
    BY <1>1 DEF IInv
<1>4. m \in Libraries /\ \A d \in Dependencies : m[d] = Inherited(l[d])
    BY <1>2 DEF Libraries, States, Inherited
<1>5. \A i \in DOMAIN r.hooks : m[r.hooks[i]] = Inherited(l[r.hooks[i]])
    BY <1>2, <1>4
<1> HIDE DEF m, l, r
<1>6. r.worker # c
    BY <1>1, <1>2, LifecycleAssumption
<1>7. ProcessInv(c, r, op[c], m)
  <2>1. Untouched(r.hooks, m)
      BY <1>2, <1>4 DEF ProcessInv, Untouched, Inherited
  <2>2. /\ \A x \in {"raw", "prepared", "inherited"} :
              All(r.hooks, l, x) => All(r.hooks, m, x)
        /\ All(r.hooks, l, "working") => All(r.hooks, m, "inherited")
        /\ \A x \in {"raw", "prepared"} : AllOrFailed(r.hooks, l, x) => AllOrFailed(r.hooks, m, x)
        /\ AnyFailed(r.hooks, l) => AnyFailed(r.hooks, m)
      BY <1>5 DEF All, AllOrFailed, AnyFailed, Inherited
  <2>3. Resting(p, r, l)
      BY <1>1, <1>2 DEF ProcessInv
  <2>4. Resting(c, r, m)
    <3>1. r.phase = "worker_ready" => All(r.hooks, m, "inherited")
        BY <2>2, <2>3 DEF Resting
    <3> QED BY <1>6, <2>2, <2>3, <3>1 DEF Resting
  <2>5. Busy(c, r, op[c], m)
      BY <1>3 DEF Busy
  <2> QED BY <1>2, <1>3, <2>1, <2>4, <2>5 DEF ProcessInv
<1>8. /\ reg' \in [Processes -> Registries] /\ reg'[c] = r
      /\ \A q \in Processes : q # c => reg'[q] = reg[q]
    BY <1>1, <1>2 DEF IInv
<1>9. /\ dep' \in [Processes -> Libraries] /\ dep'[c] = m
      /\ \A q \in Processes : q # c => dep'[q] = dep[q]
    BY <1>1, <1>4 DEF IInv
<1>10. ASSUME NEW q \in Processes
       PROVE  /\ ProcessInv(q, reg'[q], op'[q], dep'[q])
              /\ reg'[q].worker \in alive' \cup {NoProcess}
  <2>1. CASE q = c
      BY <1>1, <1>2, <1>7, <1>8, <1>9, <2>1
  <2>2. CASE q # c
      BY <1>1, <1>8, <1>9, <2>2 DEF IInv
  <2> QED BY <2>1, <2>2
<1>11. /\ alive' \subseteq Processes /\ Master \in alive'
       /\ op' \in [Processes -> Ops]
       /\ \A q \in Processes \ alive' : op'[q].call = "none"
    BY <1>1 DEF IInv
<1> QED BY <1>8, <1>9, <1>10, <1>11 DEF IInv

-----------------------------------------------------------------------------
(* The invariant holds in every reachable state.                           *)

LEMMA InitInv == Init => IInv
<1> SUFFICES ASSUME Init PROVE IInv
    OBVIOUS
<1> DEFINE l == [d \in Dependencies |-> "raw"]
<1>1. NewRegistry \in Registries
  <2>1. "collecting" \in Phases /\ 0 \in 0 .. MaxEpoch /\ <<>> \in Seq(Dependencies)
      BY LifecycleAssumption DEF Phases
  <2> QED BY <2>1 DEF NewRegistry, Registries
<1>2. Idle \in Ops /\ Idle.call = "none"
    BY DEF Idle, Ops, Calls
<1>3. l \in Libraries /\ \A d \in Dependencies : l[d] = "raw"
    BY DEF Libraries, States
<1>4. /\ NewRegistry.hooks = <<>> /\ NewRegistry.phase = "collecting"
      /\ NewRegistry.preflighted = 0 /\ NewRegistry.initialized = 0
      /\ NewRegistry.worker = NoProcess
    BY DEF NewRegistry
<1>5. DOMAIN NewRegistry.hooks = {} /\ Len(NewRegistry.hooks) = 0
    BY <1>4
<1>6. alive = {Master} /\ \A p \in Processes : reg[p] = NewRegistry /\ op[p] = Idle /\ dep[p] = l
    BY DEF Init
<1>7. /\ reg \in [Processes -> Registries] /\ op \in [Processes -> Ops]
      /\ dep \in [Processes -> Libraries]
    BY <1>1, <1>2, <1>3 DEF Init
<1> HIDE DEF l
<1>8. ASSUME NEW p PROVE ProcessInv(p, NewRegistry, Idle, l)
  <2>1. HooksInv(NewRegistry.hooks) /\ Untouched(NewRegistry.hooks, l)
      BY <1>3, <1>5, LifecycleAssumption DEF HooksInv, Untouched
  <2>2. Resting(p, NewRegistry, l)
      BY <1>4, <1>5 DEF Resting, All
  <2>3. Busy(p, NewRegistry, Idle, l)
      BY <1>2 DEF Busy
  <2> QED BY <1>4, <1>5, <2>1, <2>2, <2>3 DEF ProcessInv, WorkerPhases
<1> QED BY <1>2, <1>4, <1>6, <1>7, <1>8, LifecycleAssumption DEF IInv

LEMMA HookReturnsStep ==
    ASSUME IInv, NEW p \in Processes, HookReturns(p)
    PROVE  IInv'
<1>1. CASE PreflightHook(p) \/ PreflightHookFails(p) \/ PreflightDone(p)
    BY <1>1, PreflightHookStep, PreflightHookFailsStep, PreflightDoneStep
<1>2. ASSUME NEW ok \in BOOLEAN, MasterCleanupHook(p, ok) \/ WorkerCleanupHook(p, ok)
      PROVE  IInv'
    BY <1>2, MasterCleanupHookStep, WorkerCleanupHookStep
<1>3. CASE MasterCleanupDone(p) \/ WorkerCleanupDone(p)
    BY <1>3, MasterCleanupDoneStep, WorkerCleanupDoneStep
<1>4. CASE InitializeHook(p) \/ InitializeHookFails(p) \/ InitializeDone(p)
    BY <1>4, InitializeHookStep, InitializeHookFailsStep, InitializeDoneStep
<1> QED BY <1>1, <1>2, <1>3, <1>4 DEF HookReturns

LEMMA NextInv == IInv /\ [Next]_vars => IInv'
<1> SUFFICES ASSUME IInv, [Next]_vars PROVE IInv'
    OBVIOUS
<1>1. ASSUME NEW p \in Processes,
             \/ \E d \in Dependencies : RegisterDependency(p, d)
             \/ Preflight(p)
             \/ \E threads \in 1 .. 2, quiescent \in BOOLEAN : PrepareFork(p, threads, quiescent)
             \/ \E e \in Epochs : WorkerInitialize(p, e)
             \/ WorkerCleanup(p)
             \/ MasterCleanup(p)
             \/ HookReturns(p)
             \/ \E c \in Processes : Fork(p, c)
      PROVE  IInv'
    BY <1>1, RegisterDependencyStep, PreflightStep, PrepareForkStep, WorkerInitializeStep,
       WorkerCleanupStep, MasterCleanupStep, HookReturnsStep, ForkStep
<1>2. CASE UNCHANGED vars
    BY <1>2 DEF vars, IInv
<1> QED BY <1>1, <1>2 DEF Next

LEMMA Invariance == Spec => []IInv
BY InitInv, NextInv, PTL DEF Spec

-----------------------------------------------------------------------------
(* Theorems.                                                               *)

\* What the libraries of a process can be at all.
LEMMA LibraryFacts ==
    ASSUME IInv, NEW p \in Processes
    PROVE  /\ \A d \in Dependencies : dep[p][d] # "misused"
           /\ \A d \in Dependencies : p = Master => dep[p][d] # "working"
           /\ \A i, j \in DOMAIN reg[p].hooks :
                 i < j /\ dep[p][reg[p].hooks[i]] # "failed" =>
                    Rank(dep[p][reg[p].hooks[i]]) >= Rank(dep[p][reg[p].hooks[j]])
<1> DEFINE h == reg[p].hooks
           l == dep[p]
<1>1. /\ ProcessInv(p, reg[p], op[p], l) /\ h \in Seq(Dependencies) /\ reg[p] \in Registries
      /\ op[p] \in Ops /\ reg[p].preflighted \in Nat /\ reg[p].initialized \in Nat
    BY ProcessFacts
<1>2. \/ \E x \in {"raw", "prepared"} : All(h, l, x)
      \/ p # Master /\ \E x \in {"working", "inherited"} : All(h, l, x)
      \/ \E x \in {"raw", "prepared"} : AllOrFailed(h, l, x)
      \/ \E n \in Nat : SplitOrFailed(h, l, n, "prepared", "raw")
      \/ p # Master /\ \E n \in Nat : SplitOrFailed(h, l, n, "working", "prepared")
  <2>1. CASE op[p].call = "none"
    <3>1. Resting(p, reg[p], l) /\ (reg[p].phase \in WorkerPhases => p # Master)
        BY <1>1, <2>1 DEF ProcessInv
    <3>2. reg[p].phase \in Phases
        BY <1>1 DEF Registries
    <3>3. CASE reg[p].phase = "worker_ready"
      <4>1. p # Master
          BY <3>1, <3>3 DEF WorkerPhases
      <4>2. All(h, l, "working") \/ All(h, l, "inherited")
          BY <3>1, <3>3 DEF Resting
      <4> QED BY <4>1, <4>2
    <3>4. CASE reg[p].phase # "worker_ready"
      <4>1. \/ All(h, l, "raw") \/ All(h, l, "prepared")
            \/ AllOrFailed(h, l, "raw") \/ AllOrFailed(h, l, "prepared")
          BY <3>1, <3>2, <3>4 DEF Resting, Phases, FailurePhases
      <4> QED BY <4>1
    <3> QED BY <3>3, <3>4
  <2>2. CASE op[p].call # "none"
    <3>1. Busy(p, reg[p], op[p], l) /\ op[p].call \in Calls
        BY <1>1 DEF ProcessInv, Ops
    <3>2. CASE op[p].call = "preflight"
      <4>1. Split(h, l, reg[p].preflighted, "prepared", "raw")
          BY <3>1, <3>2 DEF Busy
      <4>2. SplitOrFailed(h, l, reg[p].preflighted, "prepared", "raw")
          BY <4>1, NoFailureYet
      <4> QED BY <1>1, <4>2
    <3>3. CASE op[p].call \in {"preflight_rollback", "master_cleanup"}
      <4>1. SplitOrFailed(h, l, reg[p].preflighted, "prepared", "raw")
          BY <3>1, <3>3 DEF Busy
      <4> QED BY <1>1, <4>1
    <3>4. CASE op[p].call = "initialize"
      <4>1. p # Master /\ Split(h, l, reg[p].initialized, "working", "prepared")
          BY <3>1, <3>4 DEF Busy
      <4>2. SplitOrFailed(h, l, reg[p].initialized, "working", "prepared")
          BY <4>1, NoFailureYet
      <4> QED BY <1>1, <4>1, <4>2
    <3>5. CASE op[p].call \in {"initialize_rollback", "worker_cleanup"}
      <4>1. p # Master /\ SplitOrFailed(h, l, reg[p].initialized, "working", "prepared")
          BY <3>1, <3>5 DEF Busy
      <4> QED BY <1>1, <4>1
    <3> QED BY <2>2, <3>1, <3>2, <3>3, <3>4, <3>5 DEF Calls
  <2> QED BY <2>1, <2>2
<1> HIDE DEF h, l
<1>3. /\ \A i \in DOMAIN h : l[h[i]] \in {"raw", "prepared", "working", "inherited", "failed"}
      /\ p = Master => \A i \in DOMAIN h : l[h[i]] # "working"
    BY <1>2 DEF All, AllOrFailed, SplitOrFailed
<1>4. Untouched(h, l)
    BY <1>1 DEF ProcessInv, h, l
<1>5. ASSUME NEW d \in Dependencies
      PROVE  l[d] # "misused" /\ (p = Master => l[d] # "working")
    BY <1>3, <1>4 DEF Untouched
<1>6. ASSUME NEW i \in DOMAIN h, NEW j \in DOMAIN h, i < j, l[h[i]] # "failed"
      PROVE  Rank(l[h[i]]) >= Rank(l[h[j]])
  <2>1. i \in Nat /\ j \in Nat
      BY <1>1 DEF h
  <2>2. \A x : All(h, l, x) => l[h[i]] = x /\ l[h[j]] = x
      BY DEF All
  <2>3. \A x : AllOrFailed(h, l, x) => l[h[i]] = x /\ l[h[j]] \in {x, "failed"}
      BY <1>6 DEF AllOrFailed
  <2>4. \A n \in Nat : \A up, down :
           SplitOrFailed(h, l, n, up, down) =>
              \/ l[h[i]] = up /\ l[h[j]] \in {up, down, "failed"}
              \/ l[h[i]] = down /\ l[h[j]] \in {down, "failed"}
    <3> SUFFICES ASSUME NEW n \in Nat, NEW up, NEW down, SplitOrFailed(h, l, n, up, down)
                 PROVE  \/ l[h[i]] = up /\ l[h[j]] \in {up, down, "failed"}
                        \/ l[h[i]] = down /\ l[h[j]] \in {down, "failed"}
        OBVIOUS
    <3>1. CASE i <= n
        BY <3>1 DEF SplitOrFailed
    <3>2. CASE ~(i <= n)
      <4>1. ~(j <= n)
          BY <1>6, <2>1, <3>2
      <4> QED BY <1>6, <3>2, <4>1 DEF SplitOrFailed
    <3> QED BY <3>1, <3>2
  <2>5. \/ \E x \in {"raw", "prepared", "working", "inherited"} :
               l[h[i]] = x /\ l[h[j]] \in {x, "failed"}
        \/ l[h[i]] = "prepared" /\ l[h[j]] = "raw"
        \/ l[h[i]] = "working" /\ l[h[j]] = "prepared"
      BY <1>2, <2>2, <2>3, <2>4
  <2> QED BY <2>5 DEF Rank
<1> QED BY <1>5, <1>6 DEF h, l

MasterIdle == \A d \in Dependencies : dep[Master][d] # "working"

LEMMA MasterHasNoWorker == IInv => MasterIdle
BY LibraryFacts, LifecycleAssumption DEF MasterIdle

\* The calls of the hooks stay in turn in every process of any tree of forks,
\* and libraries are brought up in the order of registration and taken down in
\* reverse, whichever preflight, worker_initialize and cleanup hooks fail.
THEOREM HooksStayInTurn == Spec => []HooksInTurn
<1>1. IInv => HooksInTurn
    BY LibraryFacts DEF IInv, HooksInTurn, HookAt
<1> QED BY <1>1, Invariance, PTL

\* The phase that the registry of a process reports between calls is what its
\* libraries are, in the master, in workers and in processes that a worker
\* forked, also after rollbacks and cleanups in which hooks failed.
THEOREM PhasesTruthful == Spec => []PhaseMatchesLibraries
<1>1. ASSUME IInv PROVE PhaseMatchesLibraries
  <2> SUFFICES ASSUME NEW p \in alive, op[p].call = "none"
               PROVE  LET states == {dep[p][HookAt(p, i)] : i \in DOMAIN reg[p].hooks} IN
        CASE reg[p].phase = "collecting" -> states \subseteq {"raw"}
          [] reg[p].phase \in {"preflighted", "fork_ready"} -> states \subseteq {"prepared"}
          [] reg[p].phase = "worker_ready" ->
                states \subseteq {IF reg[p].worker = p THEN "working" ELSE "inherited"}
          [] reg[p].phase \in {"worker_rolled_back", "worker_cleaned"} -> states \subseteq {"prepared"}
          [] reg[p].phase \in {"preflight_failed", "master_cleaned"} -> states \subseteq {"raw"}
          [] reg[p].phase \in {"worker_rollback_failed", "worker_cleanup_failed"} ->
                states \subseteq {"prepared", "failed"} /\ "failed" \in states
          [] reg[p].phase \in {"preflight_rollback_failed", "master_cleanup_failed"} ->
                states \subseteq {"raw", "failed"} /\ "failed" \in states
      BY Zenon DEF PhaseMatchesLibraries
  <2> DEFINE h == reg[p].hooks
             l == dep[p]
             states == {dep[p][HookAt(p, i)] : i \in DOMAIN reg[p].hooks}
  <2>1. Resting(p, reg[p], l) /\ reg[p].phase \in Phases
      BY <1>1, ProcessFacts, Zenon DEF IInv, ProcessInv, Registries
  <2>2. /\ \A x : All(h, l, x) => states \subseteq {x}
        /\ \A x : AllOrFailed(h, l, x) => states \subseteq {x, "failed"}
        /\ AnyFailed(h, l) => "failed" \in states
      BY DEF All, AllOrFailed, AnyFailed, HookAt
  <2> HIDE DEF states
  <2>3. /\ reg[p].phase \in {"worker_rollback_failed", "worker_cleanup_failed"} =>
              states \subseteq {"prepared", "failed"} /\ "failed" \in states
        /\ reg[p].phase \in {"preflight_rollback_failed", "master_cleanup_failed"} =>
              states \subseteq {"raw", "failed"} /\ "failed" \in states
      BY <2>1, <2>2 DEF Resting
  <2>4. /\ reg[p].phase \in {"collecting", "preflight_failed", "master_cleaned"} =>
              states \subseteq {"raw"}
        /\ reg[p].phase \in {"preflighted", "fork_ready", "worker_rolled_back",
                             "worker_cleaned"} => states \subseteq {"prepared"}
        /\ reg[p].phase = "worker_ready" =>
              states \subseteq {IF reg[p].worker = p THEN "working" ELSE "inherited"}
      BY <2>1, <2>2 DEF Resting
  <2> QED BY <2>1, <2>3, <2>4, Zenon DEF states, Phases, FailurePhases
<1> QED BY <1>1, Invariance, PTL

\* The registry of every process stays within dependency_lifecycle_capacity, has
\* no library twice and at most one TLS provider, and its counts of preflighted
\* and initialized libraries never leave the array of hooks.
THEOREM RegistryWellFormed == Spec => []TypeOK
<1>1. ASSUME IInv PROVE TypeOK
  <2>1. ASSUME NEW p \in Processes
        PROVE  /\ reg[p].phase \in Phases
               /\ Len(reg[p].hooks) <= Capacity
               /\ \A i, j \in DOMAIN reg[p].hooks : i # j =>
                     /\ reg[p].hooks[i] # reg[p].hooks[j]
                     /\ ~({reg[p].hooks[i], reg[p].hooks[j]} \subseteq TlsProviders)
               /\ reg[p].preflighted \in 0 .. Len(reg[p].hooks)
               /\ reg[p].initialized \in 0 .. Len(reg[p].hooks)
               /\ reg[p].worker \in Processes \cup {NoProcess}
               /\ reg[p].epoch \in 0 .. MaxEpoch
               /\ op[p] \in Ops /\ dep[p] \in Libraries
    <3>1. /\ reg[p] \in Registries /\ op[p] \in Ops /\ dep[p] \in Libraries
          /\ ProcessInv(p, reg[p], op[p], dep[p])
          /\ reg[p].hooks \in Seq(Dependencies)
          /\ reg[p].preflighted \in Nat /\ reg[p].initialized \in Nat
        BY <1>1, ProcessFacts
    <3>2. reg[p].phase \in Phases /\ reg[p].worker \in Processes \cup {NoProcess}
          /\ reg[p].epoch \in 0 .. MaxEpoch
        BY <3>1 DEF Registries
    <3>3. HooksInv(reg[p].hooks)
        BY <3>1 DEF ProcessInv
    <3>4. /\ reg[p].preflighted \in 0 .. Len(reg[p].hooks)
          /\ reg[p].initialized \in 0 .. Len(reg[p].hooks)
        BY <3>1 DEF ProcessInv
    <3> QED BY <3>1, <3>2, <3>3, <3>4 DEF HooksInv
  <2> QED BY <1>1, <2>1 DEF IInv, TypeOK, Ops, Libraries, States
<1> QED BY <1>1, Invariance, PTL

\* The master never has a working library and a child never takes a library that
\* is up back to raw: worker_initialize and worker_cleanup refuse the master,
\* preflight and master_cleanup refuse every other process.
THEOREM MasterAndWorkersApart == Spec => RolesSeparate
<1> DEFINE Apart == /\ \A d \in Dependencies : dep'[Master][d] # "working"
                    /\ \A p \in alive \ {Master}, d \in Dependencies :
                          dep[p][d] # "raw" => dep'[p][d] # "raw"
<1>1. ASSUME IInv, MasterIdle', [Next]_vars PROVE Apart \/ UNCHANGED vars
  <2>1. \A d \in Dependencies : dep'[Master][d] # "working"
      BY <1>1 DEF MasterIdle
  <2>2. ASSUME Next, NEW q \in alive \ {Master}, NEW d \in Dependencies, dep[q][d] # "raw"
        PROVE  dep'[q][d] # "raw"
    <3>1. q \in Processes /\ q # Master
        BY <1>1 DEF IInv
    <3>2. /\ dep[q] \in [Dependencies -> States] /\ dep \in [Processes -> Libraries]
          /\ Busy(q, reg[q], op[q], dep[q])
        BY <1>1, <3>1, ProcessFacts DEF IInv, ProcessInv, Libraries
    <3>3. ASSUME NEW p \in Processes, HookReturns(p) PROVE dep'[q][d] # "raw"
      <4>1. CASE p # q
        <5>1. dep'[q] = dep[q]
            BY <3>1, <3>2, <3>3, <4>1 DEF HookReturns, PreflightHook, PreflightHookFails,
               PreflightDone, MasterCleanupHook, WorkerCleanupHook, MasterCleanupDone,
               WorkerCleanupDone, InitializeHook, InitializeHookFails, InitializeDone, CallHook
        <5> QED BY <2>2, <5>1
      <4>2. CASE p = q
        <5>1. /\ ~PreflightHook(p)
              /\ \A ok \in BOOLEAN : ~MasterCleanupHook(p, ok)
            BY <3>1, <3>2, <4>2 DEF Busy, PreflightHook, MasterCleanupHook
        <5>2. \/ dep' = dep
              \/ \E i, from, to : CallHook(p, i, from, to) /\ to # "raw"
            BY <3>3, <5>1 DEF HookReturns, PreflightHookFails, PreflightDone,
               WorkerCleanupHook, MasterCleanupDone, WorkerCleanupDone, InitializeHook,
               InitializeHookFails, InitializeDone
        <5>3. ASSUME NEW i, NEW from, NEW to, CallHook(p, i, from, to), to # "raw"
              PROVE  dep'[q][d] # "raw"
            BY <2>2, <3>1, <3>2, <4>2, <5>3 DEF CallHook, Moved, Libraries
        <5> QED BY <2>2, <5>2, <5>3
      <4> QED BY <4>1, <4>2
    <3>4. ASSUME NEW p \in Processes, NEW c \in Processes, Fork(p, c) PROVE dep'[q][d] # "raw"
        BY <2>2, <3>1, <3>2, <3>4 DEF Fork
    <3>5. ASSUME NEW p \in Processes,
                 \/ \E x \in Dependencies : RegisterDependency(p, x)
                 \/ Preflight(p)
                 \/ \E threads \in 1 .. 2, quiescent \in BOOLEAN :
                        PrepareFork(p, threads, quiescent)
                 \/ \E e \in Epochs : WorkerInitialize(p, e)
                 \/ WorkerCleanup(p)
                 \/ MasterCleanup(p)
          PROVE  dep' = dep
        BY <3>5 DEF RegisterDependency, Preflight, PrepareFork, WorkerInitialize, WorkerCleanup,
           MasterCleanup
    <3> QED BY <2>2, <3>3, <3>4, <3>5 DEF Next
  <2> QED BY <1>1, <2>1, <2>2
<1>2. RolesSeparate <=> [][Apart]_vars
    BY DEF RolesSeparate
<1> QED BY <1>1, <1>2, Invariance, MasterHasNoWorker, PTL DEF Spec
=============================================================================
