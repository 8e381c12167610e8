------------------------- MODULE DependencyLifecycle -------------------------
(***************************************************************************)
(* adapters/dependency_lifecycle.cpp: the registry that takes native       *)
(* libraries through preflight in the master, worker initialization and    *)
(* cleanup in each forked child, and master cleanup.  The registry lives   *)
(* in process memory, so fork() copies it together with the state of the   *)
(* libraries.  Every hook call is a step of its own and may fail.          *)
(*                                                                         *)
(* `dep` is what a library may be asked to do next, as the hooks' contract *)
(* has it; a hook called in the wrong state makes it "misused", a cleanup  *)
(* that failed leaves it "failed", and one that was working when the       *)
(* process was forked is "inherited" in the child.                         *)
(***************************************************************************)
EXTENDS Integers, Sequences, FiniteSets

CONSTANTS
    Processes,      \* process identities; none is used twice
    Master,         \* the process that constructs the registry
    NoProcess,      \* process 0: none
    Dependencies,   \* DependencyId values with valid hooks
    TlsProviders,   \* openssl and libressl
    Capacity,       \* dependency_lifecycle_capacity
    MaxEpoch        \* largest value of fork_epoch_

ASSUME LifecycleAssumption ==
    /\ Master \in Processes
    /\ NoProcess \notin Processes
    /\ TlsProviders \subseteq Dependencies
    /\ Capacity \in Nat
    /\ MaxEpoch \in Nat

VARIABLES
    alive,  \* processes that exist
    reg,    \* the registry of each process
    op,     \* the registry call each process is in
    dep     \* the state of each library in each process

vars == <<alive, reg, op, dep>>

FailurePhases == {"preflight_rollback_failed", "worker_rollback_failed",
                  "worker_cleanup_failed", "master_cleanup_failed"}

Phases == FailurePhases \cup
    {"collecting", "preflighted", "preflight_failed", "fork_ready", "worker_ready",
     "worker_rolled_back", "worker_cleaned", "master_cleaned"}

Calls == {"none", "preflight", "preflight_rollback", "initialize",
          "initialize_rollback", "worker_cleanup", "master_cleanup"}

TypeOK ==
    /\ alive \subseteq Processes
    /\ \A p \in Processes :
          /\ reg[p].phase \in Phases
          /\ Len(reg[p].hooks) <= Capacity
          /\ \A i, j \in DOMAIN reg[p].hooks : i # j =>
                /\ reg[p].hooks[i] # reg[p].hooks[j]
                /\ ~({reg[p].hooks[i], reg[p].hooks[j]} \subseteq TlsProviders)
          /\ reg[p].preflighted \in 0 .. Len(reg[p].hooks)
          /\ reg[p].initialized \in 0 .. Len(reg[p].hooks)
          /\ reg[p].worker \in Processes \cup {NoProcess}
          /\ reg[p].epoch \in 0 .. MaxEpoch
          /\ op[p] \in [call : Calls, failed : BOOLEAN]
          /\ dep[p] \in [Dependencies -> {"raw", "prepared", "working", "inherited", "failed", "misused"}]

NewRegistry == [phase |-> "collecting", hooks |-> <<>>, preflighted |-> 0,
                initialized |-> 0, worker |-> NoProcess, epoch |-> 0]

Idle == [call |-> "none", failed |-> FALSE]

Init ==
    /\ alive = {Master}
    /\ reg = [p \in Processes |-> NewRegistry]
    /\ op = [p \in Processes |-> Idle]
    /\ dep = [p \in Processes |-> [d \in Dependencies |-> "raw"]]

\* p is not inside a registry call.
Free(p) == p \in alive /\ op[p].call = "none"

Enter(p, call) == op' = [op EXCEPT ![p] = [call |-> call, failed |-> FALSE]]

Leave(p) == op' = [op EXCEPT ![p] = Idle]

SetPhase(p, phase) == reg' = [reg EXCEPT ![p].phase = phase]
-----------------------------------------------------------------------------
(* The hooks, as the libraries see them.                                   *)

\* A hook moves a library from the state it must be in to the next one.
Moved(state, from, to) == IF state = from THEN to ELSE "misused"

HookAt(p, i) == reg[p].hooks[i]

CallHook(p, i, from, to) ==
    dep' = [dep EXCEPT ![p][HookAt(p, i)] = Moved(@, from, to)]

\* What a library is in a forked child: not a worker of that child.
Inherited(state) == IF state = "working" THEN "inherited" ELSE state

\* fork(): the child gets a copy of everything the process holds.
Fork(p, c) ==
    /\ Free(p)
    /\ c \in Processes \ alive
    /\ alive' = alive \cup {c}
    /\ reg' = [reg EXCEPT ![c] = reg[p]]
    /\ dep' = [dep EXCEPT ![c] = [d \in Dependencies |-> Inherited(dep[p][d])]]
    /\ UNCHANGED op
-----------------------------------------------------------------------------
(* Master calls.                                                           *)

\* The duplicate and TLS-provider checks of register_dependency.
Registrable(p, d) ==
    \A i \in DOMAIN reg[p].hooks :
        HookAt(p, i) # d /\ ~({HookAt(p, i), d} \subseteq TlsProviders)

RegisterDependency(p, d) ==
    /\ Free(p)
    /\ p = Master
    /\ reg[p].phase = "collecting"
    /\ Registrable(p, d)
    /\ Len(reg[p].hooks) < Capacity
    /\ reg' = [reg EXCEPT ![p].hooks = Append(@, d)]
    /\ UNCHANGED <<alive, op, dep>>

Preflight(p) ==
    /\ Free(p)
    /\ p = Master
    /\ reg[p].phase = "collecting"
    /\ Enter(p, "preflight")
    /\ UNCHANGED <<alive, reg, dep>>

\* The next preflight hook succeeds; after the last one the phase is set.
PreflightHook(p) ==
    /\ op[p].call = "preflight"
    /\ reg[p].preflighted < Len(reg[p].hooks)
    /\ CallHook(p, reg[p].preflighted + 1, "raw", "prepared")
    /\ reg' = [reg EXCEPT ![p].preflighted = @ + 1]
    /\ UNCHANGED <<alive, op>>

PreflightHookFails(p) ==
    /\ op[p].call = "preflight"
    /\ reg[p].preflighted < Len(reg[p].hooks)
    /\ Enter(p, "preflight_rollback")
    /\ UNCHANGED <<alive, reg, dep>>

PreflightDone(p) ==
    /\ op[p].call = "preflight"
    /\ reg[p].preflighted = Len(reg[p].hooks)
    /\ SetPhase(p, "preflighted")
    /\ Leave(p)
    /\ UNCHANGED <<alive, dep>>

\* The hook a cleanup loop calls when n are left: the last one first.
LastHook(p, n) == n

\* One turn of a cleanup loop in the master: after a failing preflight, or in
\* master_cleanup().  The count drops before the hook is called.
MasterCleanupHook(p, ok) ==
    /\ op[p].call \in {"preflight_rollback", "master_cleanup"}
    /\ reg[p].preflighted > 0
    /\ CallHook(p, LastHook(p, reg[p].preflighted), "prepared", IF ok THEN "raw" ELSE "failed")
    /\ reg' = [reg EXCEPT ![p].preflighted = @ - 1]
    /\ op' = [op EXCEPT ![p].failed = @ \/ ~ok]
    /\ UNCHANGED alive

MasterCleanupDone(p) ==
    /\ op[p].call \in {"preflight_rollback", "master_cleanup"}
    /\ reg[p].preflighted = 0
    /\ SetPhase(p,
          CASE op[p].call = "preflight_rollback" ->
                  IF op[p].failed THEN "preflight_rollback_failed" ELSE "preflight_failed"
            [] op[p].call = "master_cleanup" ->
                  IF op[p].failed THEN "master_cleanup_failed" ELSE "master_cleaned")
    /\ Leave(p)
    /\ UNCHANGED <<alive, dep>>

\* `quiescent` is what the live_state hooks report: no session, context,
\* thread or callback.
PrepareFork(p, threads, quiescent) ==
    /\ Free(p)
    /\ p = Master
    /\ reg[p].phase = "preflighted"
    /\ threads = 1
    /\ quiescent
    /\ reg[p].epoch < MaxEpoch
    /\ reg' = [reg EXCEPT ![p].epoch = @ + 1, ![p].phase = "fork_ready"]
    /\ UNCHANGED <<alive, op, dep>>

\* Variant without the owner check.
AnyProcess(p) == TRUE

\* is_master_process
IsMasterProcess(p) == p = Master

MasterCleanup(p) ==
    /\ Free(p)
    /\ IsMasterProcess(p)
    /\ reg[p].phase \in {"preflighted", "fork_ready"}
    /\ Enter(p, "master_cleanup")
    /\ UNCHANGED <<alive, reg, dep>>
-----------------------------------------------------------------------------
(* Worker calls.                                                           *)

\* The epoch check of worker_initialize.
EpochAccepted(p, e) ==
    e.master # NoProcess /\ e.value # 0 /\ e.master = Master /\ e.value = reg[p].epoch

WorkerInitialize(p, e) ==
    /\ Free(p)
    /\ EpochAccepted(p, e)
    /\ p # Master
    /\ reg[p].phase = "fork_ready"
    /\ reg' = [reg EXCEPT ![p].worker = p]
    /\ Enter(p, "initialize")
    /\ UNCHANGED <<alive, dep>>

InitializeHook(p) ==
    /\ op[p].call = "initialize"
    /\ reg[p].initialized < Len(reg[p].hooks)
    /\ CallHook(p, reg[p].initialized + 1, "prepared", "working")
    /\ reg' = [reg EXCEPT ![p].initialized = @ + 1]
    /\ UNCHANGED <<alive, op>>

InitializeHookFails(p) ==
    /\ op[p].call = "initialize"
    /\ reg[p].initialized < Len(reg[p].hooks)
    /\ Enter(p, "initialize_rollback")
    /\ UNCHANGED <<alive, reg, dep>>

InitializeDone(p) ==
    /\ op[p].call = "initialize"
    /\ reg[p].initialized = Len(reg[p].hooks)
    /\ SetPhase(p, "worker_ready")
    /\ Leave(p)
    /\ UNCHANGED <<alive, dep>>

\* Variant without the owner check.
WorkerOfAnyProcess(p) == p # Master

\* worker_cleanup belongs to the process that initialized the worker.
IsWorkerProcess(p) == p # Master /\ reg[p].worker = p

WorkerCleanup(p) ==
    /\ Free(p)
    /\ IsWorkerProcess(p)
    /\ reg[p].phase = "worker_ready"
    /\ Enter(p, "worker_cleanup")
    /\ UNCHANGED <<alive, reg, dep>>

\* Variant that stops cleaning up at the first hook that fails.
StopAtFailure(p, ok) == IF ok THEN reg[p].initialized - 1 ELSE 0

\* worker_initialized_count_ after one turn of the loop.
CleanupContinues(p, ok) == reg[p].initialized - 1

WorkerCleanupHook(p, ok) ==
    /\ op[p].call \in {"initialize_rollback", "worker_cleanup"}
    /\ reg[p].initialized > 0
    /\ CallHook(p, LastHook(p, reg[p].initialized), "working", IF ok THEN "prepared" ELSE "failed")
    /\ reg' = [reg EXCEPT ![p].initialized = CleanupContinues(p, ok)]
    /\ op' = [op EXCEPT ![p].failed = @ \/ ~ok]
    /\ UNCHANGED alive

WorkerLoopDone(p) == reg[p].initialized = 0

WorkerCleanupDone(p) ==
    /\ op[p].call \in {"initialize_rollback", "worker_cleanup"}
    /\ WorkerLoopDone(p)
    /\ SetPhase(p,
          CASE op[p].call = "initialize_rollback" ->
                  IF op[p].failed THEN "worker_rollback_failed" ELSE "worker_rolled_back"
            [] op[p].call = "worker_cleanup" ->
                  IF op[p].failed THEN "worker_cleanup_failed" ELSE "worker_cleaned")
    /\ Leave(p)
    /\ UNCHANGED <<alive, dep>>
-----------------------------------------------------------------------------
Epochs == [master : {Master, NoProcess}, value : 0 .. MaxEpoch]

HookReturns(p) ==
    \/ PreflightHook(p) \/ PreflightHookFails(p) \/ PreflightDone(p)
    \/ \E ok \in BOOLEAN : MasterCleanupHook(p, ok) \/ WorkerCleanupHook(p, ok)
    \/ MasterCleanupDone(p) \/ WorkerCleanupDone(p)
    \/ InitializeHook(p) \/ InitializeHookFails(p) \/ InitializeDone(p)

Next ==
    \E p \in Processes :
        \/ \E d \in Dependencies : RegisterDependency(p, d)
        \/ Preflight(p)
        \/ \E threads \in 1 .. 2, quiescent \in BOOLEAN : PrepareFork(p, threads, quiescent)
        \/ \E e \in Epochs : WorkerInitialize(p, e)
        \/ WorkerCleanup(p)
        \/ MasterCleanup(p)
        \/ HookReturns(p)
        \/ \E c \in Processes : Fork(p, c)

Spec == Init /\ [][Next]_vars
-----------------------------------------------------------------------------
(* Properties.                                                             *)

Rank(state) ==
    CASE state = "raw" -> 0
      [] state = "prepared" -> 1
      [] state \in {"working", "inherited"} -> 2
      [] OTHER -> 0

\* No hook is ever called out of turn in any process, however forks, failures,
\* repeated calls and stale epochs mix: preflight and master_cleanup alternate,
\* worker_initialize only follows a preflight this process inherited, and
\* worker_cleanup only what this process initialized itself.  Libraries are taken
\* down in the reverse of the order they were brought up: while one is up, every
\* one registered before it is at least as far up, or its cleanup has failed.
HooksInTurn ==
    \A p \in alive :
        /\ \A d \in Dependencies : dep[p][d] # "misused"
        /\ \A i, j \in DOMAIN reg[p].hooks :
              i < j /\ dep[p][HookAt(p, i)] # "failed" =>
                  Rank(dep[p][HookAt(p, i)]) >= Rank(dep[p][HookAt(p, j)])

\* "The parent never initializes a worker and a child never performs master
\* cleanup": in the master no library is working, and a child never takes a
\* library that was prepared when it was forked back to raw.
RolesSeparate ==
    [][/\ \A d \in Dependencies : dep'[Master][d] # "working"
       /\ \A p \in alive \ {Master}, d \in Dependencies :
             dep[p][d] # "raw" => dep'[p][d] # "raw"]_vars

\* What a process reports matches what its libraries are: every one is working
\* in a ready worker, none is after cleanup or rollback, and none is left
\* prepared in a master that was cleaned up or whose preflight failed, also
\* when some of the hooks failed.
PhaseMatchesLibraries ==
    \A p \in alive : op[p].call = "none" =>
        LET states == {dep[p][HookAt(p, i)] : i \in DOMAIN reg[p].hooks} IN
        CASE reg[p].phase = "collecting" -> states \subseteq {"raw"}
          [] reg[p].phase \in {"preflighted", "fork_ready"} -> states \subseteq {"prepared"}
          [] reg[p].phase = "worker_ready" ->
                states \subseteq {IF reg[p].worker = p THEN "working" ELSE "inherited"}
          [] reg[p].phase \in {"worker_rolled_back", "worker_cleaned"} -> states \subseteq {"prepared"}
          [] reg[p].phase \in {"preflight_failed", "master_cleaned"} -> states \subseteq {"raw"}
          [] reg[p].phase \in {"worker_rollback_failed", "worker_cleanup_failed"} ->
                states \subseteq {"prepared", "failed"} /\ "failed" \in states
          [] reg[p].phase \in {"preflight_rollback_failed", "master_cleanup_failed"} ->
                states \subseteq {"raw", "failed"} /\ "failed" \in states

=============================================================================
