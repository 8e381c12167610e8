---------------------------- MODULE BudgetLedger ----------------------------
(***************************************************************************)
(* What the memory budgets promise, with no counters: a ledger that only   *)
(* records which reservation is held against which budget and for how many *)
(* bytes.  A grant is allowed exactly when every budget of the chain has   *)
(* room for it, where the room is recomputed from the reservations         *)
(* themselves.  MemoryBudget, which keeps incremental counters instead, is *)
(* shown to implement this specification.                                  *)
(***************************************************************************)
EXTENDS BudgetTree

VARIABLES
    alive,      \* the budgets that are constructed and not destroyed
    limit,      \* the limit each budget was constructed with
    home,       \* the budget a reservation is held against, or NoBudget
    bytes       \* the bytes a reservation holds

vars == <<alive, limit, home, bytes>>

Init ==
    /\ alive = {}
    /\ limit = [b \in Budgets |-> 0]
    /\ home = [r \in Reservations |-> NoBudget]
    /\ bytes = [r \in Reservations |-> 0]

Open(b, l) ==
    /\ b \notin alive
    /\ Parent[b] # NoBudget => Parent[b] \in alive
    /\ alive' = alive \cup {b}
    /\ limit' = [limit EXCEPT ![b] = l]
    /\ UNCHANGED <<home, bytes>>

Close(b) ==
    /\ b \in alive
    /\ HeldUnder(home, b) = {}
    /\ ChildrenOf(b) \cap alive = {}
    /\ alive' = alive \ {b}
    /\ limit' = [limit EXCEPT ![b] = 0]
    /\ UNCHANGED <<home, bytes>>

Room(b, n) == \A a \in Chain[b] : LoadOf(home, bytes, a) + n <= limit[a]

Grant(r, b, n) ==
    /\ home[r] = NoBudget
    /\ b \in alive
    /\ Room(b, n)
    /\ home' = [home EXCEPT ![r] = b]
    /\ bytes' = [bytes EXCEPT ![r] = n]
    /\ UNCHANGED <<alive, limit>>

Extend(r, n) ==
    /\ home[r] # NoBudget
    /\ Room(home[r], n)
    /\ bytes' = [bytes EXCEPT ![r] = @ + n]
    /\ UNCHANGED <<alive, limit, home>>

Reduce(r, n) ==
    /\ home[r] # NoBudget
    /\ n <= bytes[r]
    /\ bytes' = [bytes EXCEPT ![r] = @ - n]
    /\ UNCHANGED <<alive, limit, home>>

GiveBack(r) ==
    /\ home[r] # NoBudget
    /\ home' = [home EXCEPT ![r] = NoBudget]
    /\ bytes' = [bytes EXCEPT ![r] = 0]
    /\ UNCHANGED <<alive, limit>>

\* Ownership passes from src to dst; whatever dst held is given back.
Transfer(dst, src) ==
    /\ dst # src
    /\ home' = [home EXCEPT ![dst] = home[src], ![src] = NoBudget]
    /\ bytes' = [bytes EXCEPT ![dst] = bytes[src], ![src] = 0]
    /\ UNCHANGED <<alive, limit>>

Next ==
    \/ \E b \in Budgets, l \in 0 .. SizeMax : Open(b, l)
    \/ \E b \in Budgets : Close(b)
    \/ \E r \in Reservations, b \in Budgets, n \in 0 .. SizeMax : Grant(r, b, n)
    \/ \E r \in Reservations, n \in 0 .. SizeMax : Extend(r, n) \/ Reduce(r, n)
    \/ \E r \in Reservations : GiveBack(r)
    \/ \E dst, src \in Reservations : Transfer(dst, src)

Spec == Init /\ [][Next]_vars

=============================================================================
