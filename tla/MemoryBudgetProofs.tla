-------------------------- MODULE MemoryBudgetProofs --------------------------
(***************************************************************************)
(* Proofs about the memory budgets for every tree of budgets, every set of *)
(* reservations and every width of std::size_t: first the tree and what    *)
(* reservations add up to, whatever the operations are, then the           *)
(* operations, and last that MemoryBudget implements BudgetLedger.         *)
(***************************************************************************)
EXTENDS MemoryBudgetLedger, FiniteSetTheorems, TLAPS

\* A leaf may take either prover 30 seconds and is given to Z3 a second time: no
\* proof depends on how busy the machine is.
USE SMTT(30), ZenonT(30), Z3T(30)

-----------------------------------------------------------------------------
(* The chain loop.                                                         *)

\* The loop starts at the budget itself and visits only budgets.
LEMMA ChainSelf ==
    ASSUME NEW b \in Budgets
    PROVE  b \in Chain[b] /\ Chain[b] \subseteq Budgets
BY DEF Chain

\* The visited budgets contain the parent of each one that has a parent.
LEMMA ChainClosed ==
    ASSUME NEW b \in Budgets
    PROVE  ClosedUnderParent(Chain[b])
<1> SUFFICES ASSUME NEW x \in Chain[b], Parent[x] # NoBudget
             PROVE  Parent[x] \in Chain[b]
    BY DEF ClosedUnderParent
<1>1. x \in Budgets /\ Parent[x] \in Budgets
    BY ChainSelf, ParentAssumption
<1>2. ASSUME NEW S \in SUBSET Budgets, b \in S, ClosedUnderParent(S)
      PROVE  Parent[x] \in S
  <2>1. x \in S
      BY <1>2 DEF Chain
  <2> QED BY <2>1, <1>2 DEF ClosedUnderParent
<1> QED BY <1>1, <1>2 DEF Chain

\* The loop visits nothing outside a set closed under parent_ that it starts in.
LEMMA ChainLeast ==
    ASSUME NEW b \in Budgets, NEW S \in SUBSET Budgets,
           b \in S, ClosedUnderParent(S)
    PROVE  Chain[b] \subseteq S
BY DEF Chain

\* From a child the loop visits the child and what it visits from the parent.
LEMMA ChainOfChild ==
    ASSUME NEW b \in Budgets, Parent[b] # NoBudget
    PROVE  Chain[b] = {b} \cup Chain[Parent[b]]
<1> DEFINE p == Parent[b]
<1>1. p \in Budgets
    BY ParentAssumption
<1>2. Chain[b] \subseteq {b} \cup Chain[p]
  <2>1. ClosedUnderParent({b} \cup Chain[p])
      BY <1>1, ChainSelf, ChainClosed DEF ClosedUnderParent
  <2> QED BY <1>1, <2>1, ChainLeast, ChainSelf
<1>3. Chain[p] \subseteq Chain[b]
  <2>1. p \in Chain[b]
      BY ChainSelf, ChainClosed DEF ClosedUnderParent
  <2> QED BY <1>1, <2>1, ChainSelf, ChainClosed, ChainLeast
<1> QED BY <1>2, <1>3, ChainSelf

\* From a root the loop visits the root only.
LEMMA ChainOfRoot ==
    ASSUME NEW b \in Budgets, Parent[b] = NoBudget
    PROVE  Chain[b] = {b}
<1>1. ClosedUnderParent({b})
    BY DEF ClosedUnderParent
<1> QED BY <1>1, ChainSelf, ChainLeast

\* Every budget visited after the first is the parent of one visited.
LEMMA ChainStep ==
    ASSUME NEW b \in Budgets, NEW x \in Chain[b], x # b
    PROVE  \E y \in Chain[b] : Parent[y] = x
<1> SUFFICES ASSUME \A y \in Chain[b] : Parent[y] # x
             PROVE  FALSE
    OBVIOUS
<1> DEFINE S == Chain[b] \ {x}
<1>1. ClosedUnderParent(S)
    BY ChainSelf, ChainClosed DEF ClosedUnderParent
<1> QED BY <1>1, ChainSelf, ChainLeast

-----------------------------------------------------------------------------
(* What one reservation adds to the load of a budget.                      *)

\* The bytes and the count that reservation r contributes to budget a.
BytesPart(h, n, a, r) == IF r \in HeldUnder(h, a) THEN n[r] ELSE 0
CountPart(h, a, r) == IF r \in HeldUnder(h, a) THEN 1 ELSE 0

HomeType == [Reservations -> Budgets \cup {NoBudget}]
BytesType == [Reservations -> 0 .. SizeMax]

\* Only finitely many reservations and bytes are charged to a budget.
LEMMA LoadFinite ==
    ASSUME NEW h, NEW n, NEW a
    PROVE  /\ IsFiniteSet(HeldUnder(h, a))
           /\ IsFiniteSet(UnitsUnder(h, n, a))
           /\ Cardinality(HeldUnder(h, a)) \in Nat
           /\ LoadOf(h, n, a) \in Nat
<1>1. IsFiniteSet(Reservations \X (1 .. SizeMax))
    BY FiniteAssumption, SizeAssumption, FS_Interval, FS_Product
<1>2. HeldUnder(h, a) \in SUBSET Reservations
    BY DEF HeldUnder
<1>3. UnitsUnder(h, n, a) \in SUBSET (Reservations \X (1 .. SizeMax))
    BY DEF UnitsUnder
<1>4. IsFiniteSet(HeldUnder(h, a)) /\ IsFiniteSet(UnitsUnder(h, n, a))
    BY <1>1, <1>2, <1>3, FiniteAssumption, FS_Subset
<1> QED BY <1>4, FS_CardinalityType DEF LoadOf

\* A reservation of k bytes contributes k units.
LEMMA UnitsOfOne ==
    ASSUME NEW r, NEW k \in Nat
    PROVE  Cardinality({r} \X (1 .. k)) = k
<1>1. IsFiniteSet({r}) /\ Cardinality({r}) = 1
    BY FS_Singleton
<1>2. IsFiniteSet(1 .. k) /\ Cardinality(1 .. k) = k
    BY FS_Interval
<1>3. Cardinality({r} \X (1 .. k)) = Cardinality({r}) * Cardinality(1 .. k)
    BY <1>1, <1>2, FS_Product, Zenon
<1> QED BY <1>1, <1>2, <1>3

\* The load of a budget is the bytes of r, if r is charged to it, and the load
\* of all the other reservations.
LEMMA LoadSplit ==
    ASSUME NEW h, NEW n \in BytesType, NEW a, NEW r \in Reservations
    PROVE  LET rest == {u \in UnitsUnder(h, n, a) : u[1] # r} IN
           /\ Cardinality(rest) \in Nat
           /\ LoadOf(h, n, a) = Cardinality(rest) + BytesPart(h, n, a, r)
<1> DEFINE all == UnitsUnder(h, n, a)
           rest == {u \in all : u[1] # r}
           mine == {u \in all : u[1] = r}
<1>1. all = rest \cup mine /\ rest \cap mine = {}
    OBVIOUS
<1>2. IsFiniteSet(all) /\ rest \in SUBSET all /\ mine \in SUBSET all
    BY LoadFinite
<1>3. IsFiniteSet(rest) /\ IsFiniteSet(mine)
    BY <1>2, FS_Subset
<1>4. Cardinality(rest) \in Nat /\ Cardinality(mine) \in Nat
    BY <1>3, FS_CardinalityType
<1>5. Cardinality(all) = Cardinality(rest) + Cardinality(mine)
  <2>1. Cardinality(rest \cup mine)
          = Cardinality(rest) + Cardinality(mine) - Cardinality(rest \cap mine)
      BY <1>3, FS_Union
  <2>2. Cardinality(rest \cap mine) = 0
      BY <1>1, FS_EmptySet, Zenon
  <2>3. Cardinality(all) = Cardinality(rest \cup mine)
      BY <1>1, Zenon
  <2> HIDE DEF all, rest, mine
  <2> QED BY <1>4, <2>1, <2>2, <2>3
<1>6. Cardinality(mine) = BytesPart(h, n, a, r)
  <2>1. CASE r \in HeldUnder(h, a)
    <3>1. n[r] \in 0 .. SizeMax /\ n[r] \in Nat
        BY SizeAssumption DEF BytesType
    <3>2. mine = {r} \X (1 .. n[r])
        BY <2>1, <3>1, SizeAssumption DEF UnitsUnder
    <3>3. Cardinality({r} \X (1 .. n[r])) = n[r]
        BY <3>1, UnitsOfOne, Zenon
    <3> QED BY <2>1, <3>2, <3>3 DEF BytesPart
  <2>2. CASE r \notin HeldUnder(h, a)
    <3>1. mine = {}
        BY <2>2 DEF UnitsUnder
    <3> QED BY <2>2, <3>1, FS_EmptySet DEF BytesPart
  <2> QED BY <2>1, <2>2
<1> QED BY <1>4, <1>5, <1>6 DEF LoadOf

\* f and g differ at most on reservation r.
Agree(f, g, r) == \A q \in Reservations : q # r => g[q] = f[q]

\* Changing one reservation changes the load of a budget by the difference of
\* what that reservation contributes to it.
LEMMA LoadUpdate ==
    ASSUME NEW h \in HomeType, NEW h2 \in HomeType,
           NEW n \in BytesType, NEW n2 \in BytesType,
           NEW a \in Budgets, NEW r \in Reservations,
           Agree(h, h2, r), Agree(n, n2, r)
    PROVE  /\ LoadOf(h2, n2, a)
                = LoadOf(h, n, a) - BytesPart(h, n, a, r) + BytesPart(h2, n2, a, r)
           /\ LoadOf(h, n, a) \in Nat
           /\ BytesPart(h, n, a, r) \in 0 .. LoadOf(h, n, a)
           /\ BytesPart(h2, n2, a, r) \in Nat
<1> DEFINE rest == {u \in UnitsUnder(h, n, a) : u[1] # r}
           rest2 == {u \in UnitsUnder(h2, n2, a) : u[1] # r}
<1>1. rest2 = rest
  <2>1. ASSUME NEW u \in Reservations \X (1 .. SizeMax), u[1] # r
        PROVE  u \in UnitsUnder(h2, n2, a) <=> u \in UnitsUnder(h, n, a)
      BY <2>1 DEF UnitsUnder, HeldUnder, Agree
  <2> QED BY <2>1 DEF UnitsUnder
<1>2. /\ Cardinality(rest) \in Nat
      /\ LoadOf(h, n, a) = Cardinality(rest) + BytesPart(h, n, a, r)
    BY LoadSplit
<1>3. LoadOf(h2, n2, a) = Cardinality(rest2) + BytesPart(h2, n2, a, r)
    BY LoadSplit
<1>4. BytesPart(h, n, a, r) \in Nat /\ BytesPart(h2, n2, a, r) \in Nat
    BY SizeAssumption DEF BytesPart, BytesType
<1> HIDE DEF rest, rest2
<1> QED BY <1>1, <1>2, <1>3, <1>4

\* The same for the number of reservations.
LEMMA CountUpdate ==
    ASSUME NEW h \in HomeType, NEW h2 \in HomeType,
           NEW a \in Budgets, NEW r \in Reservations, Agree(h, h2, r)
    PROVE  /\ Cardinality(HeldUnder(h2, a))
                = Cardinality(HeldUnder(h, a)) - CountPart(h, a, r) + CountPart(h2, a, r)
           /\ Cardinality(HeldUnder(h, a)) \in Nat
           /\ CountPart(h, a, r) \in 0 .. Cardinality(HeldUnder(h, a))
           /\ CountPart(h2, a, r) \in Nat
<1> DEFINE H == HeldUnder(h, a)
           H2 == HeldUnder(h2, a)
<1>1. H2 \ {r} = H \ {r}
    BY DEF HeldUnder, Agree
<1>2. IsFiniteSet(H) /\ IsFiniteSet(H2) /\ Cardinality(H) \in Nat /\ Cardinality(H2) \in Nat
    BY LoadFinite
<1>3. /\ IsFiniteSet(H \ {r})
      /\ Cardinality(H \ {r}) = IF r \in H THEN Cardinality(H) - 1 ELSE Cardinality(H)
      /\ Cardinality(H2 \ {r}) = IF r \in H2 THEN Cardinality(H2) - 1 ELSE Cardinality(H2)
    BY <1>2, FS_RemoveElement, Zenon
<1>4. Cardinality(H \ {r}) \in Nat
    BY <1>3, FS_CardinalityType
<1> QED BY <1>1, <1>2, <1>3, <1>4 DEF CountPart

\* reserve(): the load of the chain of b grows by the bytes and by one.
LEMMA GrantMatch ==
    ASSUME NEW h \in HomeType, NEW h2 \in HomeType,
           NEW n \in BytesType, NEW n2 \in BytesType,
           NEW a \in Budgets, NEW r \in Reservations,
           Agree(h, h2, r), Agree(n, n2, r),
           h[r] = NoBudget, h2[r] # NoBudget
    PROVE  /\ LoadOf(h2, n2, a)
                = LoadOf(h, n, a) + (IF a \in Chain[h2[r]] THEN n2[r] ELSE 0)
           /\ Cardinality(HeldUnder(h2, a))
                = Cardinality(HeldUnder(h, a)) + (IF a \in Chain[h2[r]] THEN 1 ELSE 0)
<1>1. /\ BytesPart(h, n, a, r) = 0
      /\ BytesPart(h2, n2, a, r) = IF a \in Chain[h2[r]] THEN n2[r] ELSE 0
      /\ CountPart(h, a, r) = 0
      /\ CountPart(h2, a, r) = IF a \in Chain[h2[r]] THEN 1 ELSE 0
    BY DEF BytesPart, CountPart, HeldUnder
<1> QED BY <1>1, LoadUpdate, CountUpdate

\* release(): every budget of the chain carries at least what the reservation
\* holds, and afterwards exactly that much less.
LEMMA DischargeMatch ==
    ASSUME NEW h \in HomeType, NEW h2 \in HomeType,
           NEW n \in BytesType, NEW n2 \in BytesType,
           NEW a \in Budgets, NEW r \in Reservations,
           Agree(h, h2, r), Agree(n, n2, r),
           h[r] # NoBudget, h2[r] = NoBudget
    PROVE  /\ a \in Chain[h[r]] => /\ LoadOf(h, n, a) >= n[r]
                                   /\ Cardinality(HeldUnder(h, a)) >= 1
           /\ LoadOf(h2, n2, a)
                = LoadOf(h, n, a) - (IF a \in Chain[h[r]] THEN n[r] ELSE 0)
           /\ Cardinality(HeldUnder(h2, a))
                = Cardinality(HeldUnder(h, a)) - (IF a \in Chain[h[r]] THEN 1 ELSE 0)
<1>1. /\ BytesPart(h2, n2, a, r) = 0
      /\ BytesPart(h, n, a, r) = IF a \in Chain[h[r]] THEN n[r] ELSE 0
      /\ CountPart(h2, a, r) = 0
      /\ CountPart(h, a, r) = IF a \in Chain[h[r]] THEN 1 ELSE 0
    BY DEF BytesPart, CountPart, HeldUnder
<1> QED BY <1>1, LoadUpdate, CountUpdate

\* grow() and shrink(): the load of the chain changes as the bytes do.
LEMMA ResizeMatch ==
    ASSUME NEW h \in HomeType, NEW n \in BytesType, NEW n2 \in BytesType,
           NEW a \in Budgets, NEW r \in Reservations,
           Agree(n, n2, r), h[r] # NoBudget
    PROVE  LoadOf(h, n2, a)
             = LoadOf(h, n, a) + (IF a \in Chain[h[r]] THEN n2[r] - n[r] ELSE 0)
<1>1. /\ BytesPart(h, n, a, r) = IF a \in Chain[h[r]] THEN n[r] ELSE 0
      /\ BytesPart(h, n2, a, r) = IF a \in Chain[h[r]] THEN n2[r] ELSE 0
    BY DEF BytesPart, HeldUnder
<1>2. Agree(h, h, r)
    BY DEF Agree
<1> QED BY <1>1, <1>2, LoadUpdate

\* A move into an inactive reservation changes no load.
LEMMA MoveMatch ==
    ASSUME NEW h \in HomeType, NEW h2 \in HomeType,
           NEW n \in BytesType, NEW n2 \in BytesType, NEW a \in Budgets,
           NEW dst \in Reservations, NEW src \in Reservations,
           dst # src, h[dst] = NoBudget,
           h2[dst] = h[src], h2[src] = NoBudget, n2[dst] = n[src],
           \A q \in Reservations \ {dst, src} : h2[q] = h[q] /\ n2[q] = n[q]
    PROVE  /\ LoadOf(h2, n2, a) = LoadOf(h, n, a)
           /\ Cardinality(HeldUnder(h2, a)) = Cardinality(HeldUnder(h, a))
<1> DEFINE h1 == [h EXCEPT ![dst] = h[src]]
           n1 == [n EXCEPT ![dst] = n[src]]
<1>1. h1 \in HomeType /\ n1 \in BytesType
    BY SizeAssumption DEF HomeType, BytesType
<1>2. /\ h1[dst] = h[src] /\ h1[src] = h[src]
      /\ n1[dst] = n[src] /\ n1[src] = n[src]
    BY DEF HomeType, BytesType
<1>3. Agree(h, h1, dst) /\ Agree(n, n1, dst) /\ Agree(h1, h2, src) /\ Agree(n1, n2, src)
    BY DEF Agree, HomeType, BytesType
<1> HIDE DEF h1, n1
<1>4. /\ BytesPart(h, n, a, dst) = 0 /\ CountPart(h, a, dst) = 0
      /\ BytesPart(h2, n2, a, src) = 0 /\ CountPart(h2, a, src) = 0
      /\ BytesPart(h1, n1, a, dst) = BytesPart(h1, n1, a, src)
      /\ CountPart(h1, a, dst) = CountPart(h1, a, src)
    BY <1>2 DEF BytesPart, CountPart, HeldUnder
<1>5. /\ LoadOf(h1, n1, a) = LoadOf(h, n, a) + BytesPart(h1, n1, a, src)
      /\ Cardinality(HeldUnder(h1, a)) = Cardinality(HeldUnder(h, a)) + CountPart(h1, a, src)
    BY <1>1, <1>3, <1>4, LoadUpdate, CountUpdate
<1>6. /\ LoadOf(h2, n2, a) = LoadOf(h1, n1, a) - BytesPart(h1, n1, a, src)
      /\ Cardinality(HeldUnder(h2, a)) = Cardinality(HeldUnder(h1, a)) - CountPart(h1, a, src)
    BY <1>1, <1>3, <1>4, LoadUpdate, CountUpdate
<1>7. /\ LoadOf(h, n, a) \in Nat /\ Cardinality(HeldUnder(h, a)) \in Nat
      /\ BytesPart(h1, n1, a, src) \in Nat /\ CountPart(h1, a, src) \in Nat
    BY <1>1, LoadFinite, SizeAssumption DEF BytesPart, CountPart, BytesType
<1>8. LoadOf(h2, n2, a) = LoadOf(h, n, a)
    BY <1>5, <1>6, <1>7
<1>9. Cardinality(HeldUnder(h2, a)) = Cardinality(HeldUnder(h, a))
    BY <1>5, <1>6, <1>7
<1> QED BY <1>8, <1>9

-----------------------------------------------------------------------------
(* The inductive invariant.                                                *)

\* A temporary of a reserve_for_allocation call on the stack is active, and
\* no two calls share one.
FramesHeld ==
    /\ \A i \in 1 .. Len(frames) : home[frames[i]] # NoBudget
    /\ \A i, j \in 1 .. Len(frames) : frames[i] = frames[j] => i = j

BudgetInv ==
    /\ CountersConserved
    /\ WithinLimit
    /\ NoDanglingBudget
    /\ OneWorkerPerChain

IInv ==
    /\ TypeOK
    /\ BudgetInv
    /\ FramesHeld
    /\ NoCounterFault

\* The counters' part of the state, as one step leaves it.
CounterType ==
    /\ charged \in [Budgets -> 0 .. SizeMax]
    /\ live \in [Budgets -> 0 .. SizeMax]
    /\ home \in HomeType
    /\ bytes \in BytesType

\* The check in release() cannot fail: every budget of the chain carries the
\* reservation that is being given back.
LEMMA AlwaysCovered ==
    ASSUME TypeOK, BudgetInv, NEW r \in Reservations, home[r] # NoBudget
    PROVE  /\ Covered(home[r], bytes[r])
           /\ home[r] \in Budgets
           /\ Chain[home[r]] \subseteq alive
<1>1. home \in HomeType /\ bytes \in BytesType /\ home[r] \in Budgets
    BY DEF TypeOK, HomeType, BytesType
<1>2. Chain[home[r]] \subseteq alive /\ alive \subseteq Budgets
    BY DEF BudgetInv, NoDanglingBudget, TypeOK
<1>3. ASSUME NEW a \in Chain[home[r]]
      PROVE  charged[a] >= bytes[r] /\ live[a] # 0
  <2>1. a \in alive /\ a \in Budgets
      BY <1>2
  <2>2. LoadOf(home, bytes, a) >= bytes[r] /\ Cardinality(HeldUnder(home, a)) >= 1
    <3> DEFINE h2 == [home EXCEPT ![r] = NoBudget]
               n2 == [bytes EXCEPT ![r] = 0]
    <3>1. /\ h2 \in HomeType /\ n2 \in BytesType /\ h2[r] = NoBudget
          /\ Agree(home, h2, r) /\ Agree(bytes, n2, r)
        BY <1>1, SizeAssumption DEF HomeType, BytesType, Agree
    <3> HIDE DEF h2, n2
    <3> QED BY <1>1, <2>1, <3>1, DischargeMatch
  <2>3. charged[a] = LoadOf(home, bytes, a) /\ live[a] = Cardinality(HeldUnder(home, a))
      BY <2>1, Zenon DEF BudgetInv, CountersConserved
  <2> QED BY <2>2, <2>3
<1> QED BY <1>1, <1>2, <1>3 DEF Covered

\* Charging a new reservation after a successful preflight keeps the books.
LEMMA GrantStep ==
    ASSUME TypeOK, BudgetInv, UNCHANGED budgetVars,
           NEW b \in alive, NEW n \in 0 .. SizeMax, NEW r \in Reservations,
           home[r] = NoBudget, PreflightReservation(b, n), ChargeNew(b, n, r)
    PROVE  BudgetInv' /\ CounterType'
<1>1. home \in HomeType /\ bytes \in BytesType /\ b \in Budgets /\ alive \subseteq Budgets
    BY DEF TypeOK, HomeType, BytesType
<1>2. Chain[b] \subseteq alive
    BY DEF BudgetInv, NoDanglingBudget
<1>3. ASSUME NEW a \in Chain[b]
      PROVE  /\ charged'[a] = charged[a] + n
             /\ live'[a] = live[a] + 1
             /\ charged[a] + n <= limit[a]
             /\ live[a] + 1 <= SizeMax
             /\ charged[a] \in Nat /\ live[a] \in Nat /\ limit[a] \in 0 .. SizeMax
  <2>1. a \in alive /\ a \in Budgets
      BY <1>1, <1>2
  <2>2. /\ charged[a] \in 0 .. SizeMax /\ live[a] \in 0 .. SizeMax /\ limit[a] \in 0 .. SizeMax
        /\ charged[a] <= limit[a]
      BY <2>1 DEF TypeOK, BudgetInv, WithinLimit
  <2>3. n <= limit[a] - charged[a] /\ live[a] # SizeMax
      BY <2>2, SizeAssumption DEF PreflightReservation, Minus
  <2>4. charged'[a] = Plus(charged[a], n) /\ live'[a] = Plus(live[a], 1)
      BY <2>1 DEF ChargeNew, ChargedMore, LiveMore
  <2> QED BY <2>2, <2>3, <2>4, SizeAssumption DEF Plus
<1>4. ASSUME NEW a \in Budgets, a \notin Chain[b]
      PROVE  charged'[a] = charged[a] /\ live'[a] = live[a]
    BY <1>4 DEF ChargeNew, ChargedMore, LiveMore
<1>5. CounterType'
  <2>1. ASSUME NEW a \in Budgets
        PROVE  charged'[a] \in 0 .. SizeMax /\ live'[a] \in 0 .. SizeMax
    <3>1. CASE a \in Chain[b]
        BY <1>3, <3>1, SizeAssumption
    <3>2. CASE a \notin Chain[b]
        BY <1>4, <3>2 DEF TypeOK
    <3> QED BY <3>1, <3>2
  <2>2. charged' = [a \in Budgets |-> charged'[a]] /\ live' = [a \in Budgets |-> live'[a]]
      BY DEF ChargeNew, ChargedMore, LiveMore
  <2>3. home' \in HomeType /\ bytes' \in BytesType
      BY <1>1 DEF ChargeNew, HomeType, BytesType
  <2> QED BY <2>1, <2>2, <2>3 DEF CounterType
<1>6. CountersConserved'
  <2> SUFFICES ASSUME NEW a \in alive
               PROVE  /\ charged'[a] = LoadOf(home', bytes', a)
                      /\ live'[a] = Cardinality(HeldUnder(home', a))
                      /\ children[a] = Cardinality(ChildrenOf(a) \cap alive)
      BY DEF CountersConserved, budgetVars
  <2>1. /\ a \in Budgets /\ home'[r] = b /\ bytes'[r] = n /\ b # NoBudget
        /\ home' \in HomeType /\ bytes' \in BytesType
        /\ Agree(home, home', r) /\ Agree(bytes, bytes', r)
      BY <1>1, ParentAssumption DEF ChargeNew, HomeType, BytesType, Agree
  <2>2. /\ LoadOf(home', bytes', a)
             = LoadOf(home, bytes, a) + (IF a \in Chain[b] THEN n ELSE 0)
        /\ Cardinality(HeldUnder(home', a))
             = Cardinality(HeldUnder(home, a)) + (IF a \in Chain[b] THEN 1 ELSE 0)
      BY <1>1, <2>1, GrantMatch
  <2>3. /\ charged[a] = LoadOf(home, bytes, a)
        /\ live[a] = Cardinality(HeldUnder(home, a))
        /\ children[a] = Cardinality(ChildrenOf(a) \cap alive)
      BY DEF BudgetInv, CountersConserved
  <2>4. charged[a] \in Nat /\ live[a] \in Nat
      BY <2>1, SizeAssumption DEF TypeOK
  <2> QED BY <1>3, <1>4, <2>1, <2>2, <2>3, <2>4
<1>7. WithinLimit'
    BY <1>1, <1>3, <1>4 DEF WithinLimit, BudgetInv, budgetVars
<1>8. NoDanglingBudget'
    BY <1>1, <1>2 DEF NoDanglingBudget, BudgetInv, budgetVars, ChargeNew, HomeType
<1>9. OneWorkerPerChain'
    BY DEF OneWorkerPerChain, BudgetInv, budgetVars
<1> QED BY <1>5, <1>6, <1>7, <1>8, <1>9 DEF BudgetInv

\* What release() leaves in the counters, when it does not terminate.
LEMMA ReleaseLoops ==
    ASSUME TypeOK, BudgetInv, NEW r \in Reservations, home[r] # NoBudget
    PROVE  /\ ChargedLess(home[r], bytes[r]) \in [Budgets -> 0 .. SizeMax]
           /\ LiveLess(home[r]) \in [Budgets -> 0 .. SizeMax]
           /\ \A a \in Budgets :
                /\ ChargedLess(home[r], bytes[r])[a]
                     = charged[a] - (IF a \in Chain[home[r]] THEN bytes[r] ELSE 0)
                /\ ChargedLess(home[r], bytes[r])[a] <= charged[a]
                /\ LiveLess(home[r])[a]
                     = live[a] - (IF a \in Chain[home[r]] THEN 1 ELSE 0)
<1> DEFINE c2 == ChargedLess(home[r], bytes[r])
           l2 == LiveLess(home[r])
<1>1. ASSUME NEW a \in Budgets
      PROVE  /\ c2[a] = charged[a] - (IF a \in Chain[home[r]] THEN bytes[r] ELSE 0)
             /\ l2[a] = live[a] - (IF a \in Chain[home[r]] THEN 1 ELSE 0)
             /\ c2[a] <= charged[a]
             /\ c2[a] \in 0 .. SizeMax
             /\ l2[a] \in 0 .. SizeMax
  <2>1. charged[a] \in 0 .. SizeMax /\ live[a] \in 0 .. SizeMax /\ bytes[r] \in 0 .. SizeMax
      BY DEF TypeOK
  <2>2. CASE a \in Chain[home[r]]
    <3>1. charged[a] >= bytes[r] /\ live[a] # 0
        BY <2>2, AlwaysCovered DEF Covered
    <3>2. c2[a] = Minus(charged[a], bytes[r]) /\ l2[a] = Minus(live[a], 1)
        BY <2>2 DEF ChargedLess, LiveLess
    <3> QED BY <2>1, <2>2, <3>1, <3>2, SizeAssumption DEF Minus
  <2>3. CASE a \notin Chain[home[r]]
    <3>1. c2[a] = charged[a] /\ l2[a] = live[a]
        BY <2>3 DEF ChargedLess, LiveLess
    <3> QED BY <2>1, <2>3, <3>1, SizeAssumption
  <2> QED BY <2>2, <2>3
<1>2. c2 = [a \in Budgets |-> c2[a]] /\ l2 = [a \in Budgets |-> l2[a]]
    BY DEF ChargedLess, LiveLess
<1> HIDE DEF c2, l2
<1>3. c2 \in [Budgets -> 0 .. SizeMax] /\ l2 \in [Budgets -> 0 .. SizeMax]
    BY <1>1, <1>2
<1> QED BY <1>1, <1>3 DEF c2, l2

\* A step that leaves the tree alone, lowers or keeps every charge, and keeps
\* the books, keeps the invariant.
LEMMA BooksKept ==
    ASSUME TypeOK, BudgetInv, UNCHANGED budgetVars, CounterType',
           \A r \in Reservations :
               home'[r] = NoBudget \/ \E q \in Reservations : home'[r] = home[q],
           \A a \in alive :
               /\ charged'[a] <= limit[a]
               /\ charged'[a] = LoadOf(home', bytes', a)
               /\ live'[a] = Cardinality(HeldUnder(home', a))
    PROVE  BudgetInv'
<1>1. CountersConserved'
    BY DEF CountersConserved, BudgetInv, budgetVars
<1>2. WithinLimit'
    BY DEF WithinLimit, budgetVars
<1>3. NoDanglingBudget'
    BY DEF NoDanglingBudget, BudgetInv, budgetVars
<1>4. OneWorkerPerChain'
    BY DEF OneWorkerPerChain, BudgetInv, budgetVars
<1> QED BY <1>1, <1>2, <1>3, <1>4 DEF BudgetInv

\* Giving a reservation back keeps the books.
LEMMA DischargeStep ==
    ASSUME TypeOK, BudgetInv, UNCHANGED budgetVars,
           NEW r \in Reservations, home[r] # NoBudget, Discharge(r)
    PROVE  BudgetInv' /\ CounterType'
<1>1. /\ home \in HomeType /\ bytes \in BytesType /\ alive \subseteq Budgets
      /\ home' \in HomeType /\ bytes' \in BytesType /\ home'[r] = NoBudget
      /\ Agree(home, home', r) /\ Agree(bytes, bytes', r)
    BY SizeAssumption DEF TypeOK, Discharge, HomeType, BytesType, Agree
<1>2. CounterType'
    BY <1>1, ReleaseLoops DEF CounterType, Discharge
<1>3. ASSUME NEW a \in alive
      PROVE  /\ charged'[a] <= limit[a]
             /\ charged'[a] = LoadOf(home', bytes', a)
             /\ live'[a] = Cardinality(HeldUnder(home', a))
  <2>1. a \in Budgets
      BY <1>1
  <2>2. /\ charged[a] = LoadOf(home, bytes, a)
        /\ live[a] = Cardinality(HeldUnder(home, a))
        /\ charged[a] <= limit[a]
        /\ charged[a] \in 0 .. SizeMax /\ limit[a] \in 0 .. SizeMax
      BY <2>1, Zenon DEF BudgetInv, CountersConserved, WithinLimit, TypeOK
  <2>3. /\ charged'[a] = charged[a] - (IF a \in Chain[home[r]] THEN bytes[r] ELSE 0)
        /\ charged'[a] <= charged[a]
        /\ live'[a] = live[a] - (IF a \in Chain[home[r]] THEN 1 ELSE 0)
        /\ charged'[a] \in 0 .. SizeMax
      BY <1>2, <2>1, ReleaseLoops DEF Discharge, CounterType
  <2>4. /\ LoadOf(home', bytes', a)
             = LoadOf(home, bytes, a) - (IF a \in Chain[home[r]] THEN bytes[r] ELSE 0)
        /\ Cardinality(HeldUnder(home', a))
             = Cardinality(HeldUnder(home, a)) - (IF a \in Chain[home[r]] THEN 1 ELSE 0)
      BY <1>1, <2>1, DischargeMatch
  <2> QED BY <2>2, <2>3, <2>4, SizeAssumption
<1>4. \A q \in Reservations :
          home'[q] = NoBudget \/ \E s \in Reservations : home'[q] = home[s]
    BY <1>1 DEF Agree
<1> QED BY <1>2, <1>3, <1>4, BooksKept

\* grow() keeps the books.
LEMMA GrowStep ==
    ASSUME TypeOK, BudgetInv,
           NEW w, NEW r \in Reservations, NEW n \in 0 .. SizeMax, Grow(w, r, n)
    PROVE  BudgetInv' /\ CounterType'
<1>1. /\ home \in HomeType /\ bytes \in BytesType /\ alive \subseteq Budgets
      /\ home' = home /\ UNCHANGED budgetVars /\ live' = live
      /\ home[r] # NoBudget /\ home[r] \in Budgets
    BY DEF TypeOK, Grow, HomeType, BytesType
<1>2. bytes[r] \in 0 .. SizeMax /\ bytes'[r] = bytes[r] + n
      /\ bytes' \in BytesType /\ Agree(bytes, bytes', r)
    BY SizeAssumption DEF TypeOK, Grow, BytesType, Plus, Agree
<1>3. ASSUME NEW a \in Budgets
      PROVE  /\ a \in Chain[home[r]] => charged'[a] = charged[a] + n /\ charged'[a] <= limit[a]
             /\ a \notin Chain[home[r]] => charged'[a] = charged[a]
             /\ charged'[a] \in 0 .. SizeMax
  <2>1. charged[a] \in 0 .. SizeMax /\ limit[a] \in 0 .. SizeMax
      BY DEF TypeOK
  <2>2. CASE a \in Chain[home[r]]
    <3>1. a \in alive /\ charged[a] <= limit[a]
        BY <1>1, <2>2 DEF BudgetInv, NoDanglingBudget, WithinLimit
    <3>2. n <= Minus(limit[a], charged[a])
        BY <2>2 DEF Grow, PreflightReservation
    <3>3. charged'[a] = Plus(charged[a], n)
        BY <2>2 DEF Grow, ChargedMore
    <3> QED BY <2>1, <2>2, <3>1, <3>2, <3>3, SizeAssumption DEF Plus, Minus
  <2>3. CASE a \notin Chain[home[r]]
      BY <2>1, <2>3 DEF Grow, ChargedMore
  <2> QED BY <2>2, <2>3
<1>4. CounterType'
  <2>1. charged' = [a \in Budgets |-> charged'[a]]
      BY DEF Grow, ChargedMore
  <2> QED BY <1>1, <1>2, <1>3, <2>1 DEF CounterType, TypeOK
<1>5. ASSUME NEW a \in alive
      PROVE  /\ charged'[a] <= limit[a]
             /\ charged'[a] = LoadOf(home', bytes', a)
             /\ live'[a] = Cardinality(HeldUnder(home', a))
  <2>1. a \in Budgets
      BY <1>1
  <2>2. /\ charged[a] = LoadOf(home, bytes, a)
        /\ live[a] = Cardinality(HeldUnder(home, a))
        /\ charged[a] <= limit[a] /\ charged[a] \in 0 .. SizeMax
      BY <2>1, ZenonT(30) DEF BudgetInv, CountersConserved, WithinLimit, TypeOK
  <2>3. LoadOf(home, bytes', a)
          = LoadOf(home, bytes, a)
              + (IF a \in Chain[home[r]] THEN bytes'[r] - bytes[r] ELSE 0)
      BY <1>1, <1>2, <2>1, ResizeMatch
  <2> QED BY <1>1, <1>2, <1>3, <2>1, <2>2, <2>3, SizeAssumption
<1> QED BY <1>1, <1>4, <1>5, BooksKept

\* shrink() keeps the books, and its own check cannot fail.
LEMMA ShrinkStep ==
    ASSUME TypeOK, BudgetInv,
           NEW w, NEW r \in Reservations, NEW n \in 0 .. SizeMax, Shrink(w, r, n)
    PROVE  BudgetInv' /\ CounterType' /\ UNCHANGED <<budgetVars, frames, fault, home>>
<1>1. /\ home \in HomeType /\ bytes \in BytesType /\ alive \subseteq Budgets
      /\ home[r] # NoBudget /\ n <= bytes[r] /\ bytes[r] \in 0 .. SizeMax
    BY DEF TypeOK, Shrink, HomeType, BytesType
<1>2. \A a \in Chain[home[r]] : charged[a] >= bytes[r] /\ a \in Budgets
    BY <1>1, AlwaysCovered DEF Covered, TypeOK
<1>3. \A a \in Chain[home[r]] : charged[a] >= n /\ charged[a] \in 0 .. SizeMax
    BY <1>1, <1>2, SizeAssumption DEF TypeOK
<1>4. /\ charged' = ChargedLess(home[r], n)
      /\ bytes' = [bytes EXCEPT ![r] = Minus(@, n)]
      /\ UNCHANGED <<budgetVars, live, home, frames, fault>>
    BY <1>3 DEF Shrink
<1>5. /\ bytes'[r] = bytes[r] - n
      /\ bytes' \in BytesType /\ Agree(bytes, bytes', r)
    BY <1>1, <1>4, SizeAssumption DEF BytesType, Minus, Agree
<1>6. ASSUME NEW a \in Budgets
      PROVE  /\ charged'[a] = charged[a] - (IF a \in Chain[home[r]] THEN n ELSE 0)
             /\ charged'[a] <= charged[a]
             /\ charged'[a] \in 0 .. SizeMax
  <2>1. charged[a] \in 0 .. SizeMax
      BY DEF TypeOK
  <2>2. CASE a \in Chain[home[r]]
      BY <1>3, <1>4, <2>1, <2>2, SizeAssumption DEF ChargedLess, Minus
  <2>3. CASE a \notin Chain[home[r]]
      BY <1>4, <2>1, <2>3, SizeAssumption DEF ChargedLess
  <2> QED BY <2>2, <2>3
<1>7. CounterType'
  <2>1. charged' = [a \in Budgets |-> charged'[a]]
      BY <1>4 DEF ChargedLess
  <2> QED BY <1>1, <1>4, <1>5, <1>6, <2>1 DEF CounterType, TypeOK
<1>8. ASSUME NEW a \in alive
      PROVE  /\ charged'[a] <= limit[a]
             /\ charged'[a] = LoadOf(home', bytes', a)
             /\ live'[a] = Cardinality(HeldUnder(home', a))
  <2>1. a \in Budgets
      BY <1>1
  <2>2. /\ charged[a] = LoadOf(home, bytes, a)
        /\ live[a] = Cardinality(HeldUnder(home, a))
        /\ charged[a] <= limit[a] /\ charged[a] \in 0 .. SizeMax /\ limit[a] \in 0 .. SizeMax
      BY <2>1, Zenon DEF BudgetInv, CountersConserved, WithinLimit, TypeOK
  <2>3. LoadOf(home, bytes', a)
          = LoadOf(home, bytes, a)
              + (IF a \in Chain[home[r]] THEN bytes'[r] - bytes[r] ELSE 0)
      BY <1>1, <1>5, <2>1, ResizeMatch
  <2> QED BY <1>1, <1>4, <1>5, <1>6, <2>1, <2>2, <2>3, SizeAssumption
<1> QED BY <1>4, <1>7, <1>8, BooksKept, Zenon

\* A move releases what the destination held and hands the source's charge
\* over: it keeps the books, and release() inside it cannot fail.
LEMMA MoveStep ==
    ASSUME TypeOK, BudgetInv,
           NEW dst \in Reservations, NEW src \in Reservations, Move(dst, src)
    PROVE  BudgetInv' /\ CounterType' /\ UNCHANGED <<budgetVars, frames, fault>>
<1> DEFINE h1 == [home EXCEPT ![dst] = NoBudget]
           n1 == [bytes EXCEPT ![dst] = 0]
<1>1. /\ home \in HomeType /\ bytes \in BytesType /\ alive \subseteq Budgets
      /\ h1 \in HomeType /\ n1 \in BytesType /\ h1[dst] = NoBudget
      /\ Agree(home, h1, dst) /\ Agree(bytes, n1, dst)
    BY SizeAssumption DEF TypeOK, HomeType, BytesType, Agree
<1>2. /\ dst # src
      /\ home' \in HomeType /\ bytes' \in BytesType
      /\ UNCHANGED <<budgetVars, frames>>
      /\ home'[dst] = home[src] /\ home'[src] = NoBudget /\ bytes'[dst] = bytes[src]
      /\ \A q \in Reservations \ {dst, src} : home'[q] = home[q] /\ bytes'[q] = bytes[q]
  <2>1. /\ dst # src
        /\ home' = [home EXCEPT ![dst] = home[src], ![src] = NoBudget]
        /\ bytes' = [bytes EXCEPT ![dst] = bytes[src], ![src] = 0]
        /\ UNCHANGED <<budgetVars, frames>>
      BY DEF Move
  <2> QED BY <1>1, <2>1, SizeAssumption DEF HomeType, BytesType
<1>3. home[dst] # NoBudget => Covered(home[dst], bytes[dst])
    BY AlwaysCovered
<1>4. fault' = fault
    BY <1>3 DEF Move
<1> HIDE DEF h1, n1
<1>5. CounterType'
  <2>1. CASE home[dst] = NoBudget
      BY <1>2, <2>1, ZenonT(30) DEF CounterType, Move, TypeOK
  <2>2. CASE home[dst] # NoBudget
    <3>1. charged' = ChargedLess(home[dst], bytes[dst]) /\ live' = LiveLess(home[dst])
        BY <1>3, <2>2 DEF Move
    <3> QED BY <1>2, <2>2, <3>1, ReleaseLoops DEF CounterType
  <2> QED BY <2>1, <2>2
<1>6. ASSUME NEW a \in alive
      PROVE  /\ charged'[a] <= limit[a]
             /\ charged'[a] = LoadOf(home', bytes', a)
             /\ live'[a] = Cardinality(HeldUnder(home', a))
  <2>1. a \in Budgets
      BY <1>1
  <2>2. /\ charged[a] = LoadOf(home, bytes, a)
        /\ live[a] = Cardinality(HeldUnder(home, a))
        /\ charged[a] <= limit[a] /\ charged[a] \in 0 .. SizeMax /\ limit[a] \in 0 .. SizeMax
      BY <2>1, Zenon DEF BudgetInv, CountersConserved, WithinLimit, TypeOK
  <2>3. /\ LoadOf(home', bytes', a) = LoadOf(h1, n1, a)
        /\ Cardinality(HeldUnder(home', a)) = Cardinality(HeldUnder(h1, a))
    <3>1. /\ h1[src] = home[src] /\ n1[src] = bytes[src]
          /\ \A q \in Reservations \ {dst, src} : home'[q] = h1[q] /\ bytes'[q] = n1[q]
        BY <1>1, <1>2 DEF Agree
    <3> QED BY <1>1, <1>2, <2>1, <3>1, MoveMatch
  <2>4. CASE home[dst] = NoBudget
    <3>1. HeldUnder(h1, a) = HeldUnder(home, a)
        BY <1>1, <2>4 DEF HeldUnder, Agree
    <3>2. LoadOf(h1, n1, a) = LoadOf(home, bytes, a)
        BY <1>1, <2>4, <3>1, ZenonT(30) DEF LoadOf, UnitsUnder, Agree, HeldUnder
    <3>3. charged' = charged /\ live' = live
        BY <2>4 DEF Move
    <3> QED BY <2>2, <2>3, <3>1, <3>2, <3>3
  <2>5. CASE home[dst] # NoBudget
    <3>1. charged' = ChargedLess(home[dst], bytes[dst]) /\ live' = LiveLess(home[dst])
        BY <1>3, <2>5 DEF Move
    <3>2. /\ charged'[a] = charged[a] - (IF a \in Chain[home[dst]] THEN bytes[dst] ELSE 0)
          /\ charged'[a] <= charged[a]
          /\ live'[a] = live[a] - (IF a \in Chain[home[dst]] THEN 1 ELSE 0)
          /\ charged'[a] \in 0 .. SizeMax
        BY <1>5, <2>1, <2>5, <3>1, ReleaseLoops DEF CounterType
    <3>3. /\ LoadOf(h1, n1, a)
               = LoadOf(home, bytes, a) - (IF a \in Chain[home[dst]] THEN bytes[dst] ELSE 0)
          /\ Cardinality(HeldUnder(h1, a))
               = Cardinality(HeldUnder(home, a)) - (IF a \in Chain[home[dst]] THEN 1 ELSE 0)
        BY <1>1, <2>1, <2>5, DischargeMatch
    <3> QED BY <2>2, <2>3, <3>2, <3>3, SizeAssumption
  <2> QED BY <2>4, <2>5
<1>7. \A q \in Reservations :
          home'[q] = NoBudget \/ \E s \in Reservations : home'[q] = home[s]
    BY <1>2
<1> QED BY <1>2, <1>4, <1>5, <1>6, <1>7, BooksKept

\* The live children of a budget are finitely many.
LEMMA LiveChildrenFinite ==
    ASSUME NEW a, NEW A
    PROVE  /\ IsFiniteSet(ChildrenOf(a) \cap A)
           /\ Cardinality(ChildrenOf(a) \cap A) \in Nat
<1>1. ChildrenOf(a) \cap A \in SUBSET Budgets
    BY DEF ChildrenOf
<1>2. IsFiniteSet(ChildrenOf(a) \cap A)
    BY <1>1, FiniteAssumption, FS_Subset
<1> QED BY <1>2, FS_CardinalityType

\* Nothing is charged to a budget that does not exist, and it has no children.
LEMMA NothingUnderDead ==
    ASSUME TypeOK, BudgetInv, NEW b \in Budgets, b \notin alive
    PROVE  /\ HeldUnder(home, b) = {}
           /\ LoadOf(home, bytes, b) = 0
           /\ ChildrenOf(b) \cap alive = {}
<1>1. HeldUnder(home, b) = {}
    BY DEF HeldUnder, BudgetInv, NoDanglingBudget
<1>2. UnitsUnder(home, bytes, b) = {}
    BY <1>1 DEF UnitsUnder
<1>3. ASSUME NEW c \in ChildrenOf(b), c \in alive
      PROVE  FALSE
  <2>1. c \in Budgets /\ Parent[c] = b /\ Parent[c] # NoBudget
      BY ParentAssumption DEF ChildrenOf
  <2>2. b \in Chain[c]
      BY <2>1, ChainOfChild, ChainSelf
  <2> QED BY <1>3, <2>2 DEF BudgetInv, NoDanglingBudget
<1> QED BY <1>1, <1>2, <1>3, FS_EmptySet DEF LoadOf

\* Constructing a budget keeps the books, and register_child cannot overflow.
LEMMA ConstructStep ==
    ASSUME TypeOK, BudgetInv,
           NEW b \in Budgets, NEW w \in Workers, NEW l \in Limits, Construct(b, w, l)
    PROVE  BudgetInv' /\ TypeOK' /\ UNCHANGED <<home, bytes, frames, fault>>
<1> DEFINE p == Parent[b]
<1>1. b \notin alive /\ alive \subseteq Budgets /\ l \in 0 .. SizeMax
    BY LimitAssumption DEF Construct, TypeOK
<1>2. p # NoBudget => p \in alive /\ p \in Budgets /\ p # b
    BY <1>1 DEF Construct
<1>3. ASSUME p # NoBudget
      PROVE  /\ children[p] = Cardinality(ChildrenOf(p) \cap alive)
             /\ children[p] \in Nat
             /\ children[p] < SizeMax
  <2>1. children[p] = Cardinality(ChildrenOf(p) \cap alive) /\ children[p] \in Nat
    <3>1. children[p] = Cardinality(ChildrenOf(p) \cap alive)
        BY <1>2, <1>3 DEF BudgetInv, CountersConserved
    <3> QED BY <3>1, LiveChildrenFinite
  <2>2. IsFiniteSet(ChildrenOf(p)) /\ Cardinality(ChildrenOf(p)) \in Nat
    <3>1. ChildrenOf(p) \in SUBSET Budgets
        BY DEF ChildrenOf
    <3> QED BY <3>1, FiniteAssumption, FS_Subset, FS_CardinalityType
  <2>3. b \in ChildrenOf(p) /\ b \notin ChildrenOf(p) \cap alive
      BY <1>1 DEF ChildrenOf
  <2>4. /\ Cardinality(ChildrenOf(p) \cap alive) <= Cardinality(ChildrenOf(p))
        /\ Cardinality(ChildrenOf(p) \cap alive) # Cardinality(ChildrenOf(p))
    <3>1. ChildrenOf(p) \cap alive \in SUBSET ChildrenOf(p)
        OBVIOUS
    <3> QED BY <2>2, <2>3, <3>1, FS_Subset
  <2>5. Cardinality(ChildrenOf(p)) <= SizeMax
      BY <1>2, <1>3, ChildCountAssumption
  <2> QED BY <2>1, <2>2, <2>4, <2>5, SizeAssumption
<1>4. /\ alive' = alive \cup {b}
      /\ worker' = [worker EXCEPT ![b] = OwnerOf(b, w)]
      /\ limit' = [limit EXCEPT ![b] = l]
      /\ charged' = [charged EXCEPT ![b] = 0]
      /\ live' = [live EXCEPT ![b] = 0]
      /\ children' = [Registered(b) EXCEPT ![b] = 0]
      /\ UNCHANGED <<home, bytes, frames, fault>>
    BY <1>3, SizeAssumption DEF Construct
<1>5. ASSUME NEW a \in alive
      PROVE  /\ a # b /\ a \in Budgets
             /\ worker'[a] = worker[a] /\ limit'[a] = limit[a]
             /\ charged'[a] = charged[a] /\ live'[a] = live[a]
             /\ children'[a] = IF a = p THEN children[a] + 1 ELSE children[a]
  <2>1. a # b /\ a \in Budgets
      BY <1>1
  <2>2. worker'[a] = worker[a] /\ limit'[a] = limit[a]
        /\ charged'[a] = charged[a] /\ live'[a] = live[a]
      BY <1>4, <2>1 DEF TypeOK
  <2>3. children'[a] = Registered(b)[a]
      BY <1>4, <2>1 DEF TypeOK, Registered
  <2>4. Registered(b)[a] = IF a = p THEN children[a] + 1 ELSE children[a]
      BY <1>2, <1>3, <2>1, ParentAssumption, SizeAssumption DEF Registered, Plus, TypeOK
  <2> QED BY <2>1, <2>2, <2>3, <2>4, Zenon
<1>6. /\ limit'[b] = l /\ charged'[b] = 0 /\ live'[b] = 0 /\ children'[b] = 0
      /\ worker'[b] = OwnerOf(b, w)
    BY <1>4 DEF TypeOK, Registered
<1>7. TypeOK'
  <2>1. OwnerOf(b, w) \in Workers
      BY <1>2 DEF OwnerOf, TypeOK
  <2>2. worker' \in [Budgets -> Workers \cup {NoWorker}]
        /\ \A a \in alive' : worker'[a] \in Workers
      BY <1>4, <1>5, <1>6, <2>1 DEF TypeOK
  <2>3. children' \in [Budgets -> 0 .. SizeMax]
    <3>1. Registered(b) \in [Budgets -> 0 .. SizeMax]
        BY <1>2, <1>3, SizeAssumption DEF Registered, Plus, TypeOK
    <3> QED BY <1>4, <3>1, SizeAssumption
  <2>4. /\ limit' \in [Budgets -> 0 .. SizeMax]
        /\ charged' \in [Budgets -> 0 .. SizeMax]
        /\ live' \in [Budgets -> 0 .. SizeMax]
      BY <1>1, <1>4, SizeAssumption DEF TypeOK
  <2> QED BY <1>1, <1>4, <2>2, <2>3, <2>4, ZenonT(30) DEF TypeOK
<1>8. CountersConserved'
  <2> SUFFICES ASSUME NEW a \in alive'
               PROVE  /\ charged'[a] = LoadOf(home, bytes, a)
                      /\ live'[a] = Cardinality(HeldUnder(home, a))
                      /\ children'[a] = Cardinality(ChildrenOf(a) \cap alive')
      BY <1>4, Zenon DEF CountersConserved
  <2>1. CASE a = b
    <3>1. b \notin ChildrenOf(b)
        BY <1>2, ParentAssumption DEF ChildrenOf
    <3>2. /\ HeldUnder(home, b) = {}
          /\ LoadOf(home, bytes, b) = 0
          /\ ChildrenOf(b) \cap alive = {}
        BY <1>1, NothingUnderDead
    <3>3. ChildrenOf(b) \cap alive' = {}
        BY <1>4, <3>1, <3>2, ZenonT(30)
    <3> QED BY <1>6, <2>1, <3>2, <3>3, FS_EmptySet
  <2>2. CASE a # b
    <3>1. a \in alive
        BY <1>4, <2>2, ZenonT(30)
    <3>2. /\ charged[a] = LoadOf(home, bytes, a)
          /\ live[a] = Cardinality(HeldUnder(home, a))
          /\ children[a] = Cardinality(ChildrenOf(a) \cap alive)
        BY <3>1 DEF BudgetInv, CountersConserved
    <3>3. CASE a = p
      <4>1. ChildrenOf(a) \cap alive' = (ChildrenOf(a) \cap alive) \cup {b}
          BY <1>4, <3>3 DEF ChildrenOf
      <4>2. b \notin ChildrenOf(a) \cap alive
          BY <1>1
      <4>3. Cardinality(ChildrenOf(a) \cap alive')
              = Cardinality(ChildrenOf(a) \cap alive) + 1
          BY <4>1, <4>2, LiveChildrenFinite, FS_AddElement, Zenon
      <4> QED BY <1>5, <3>1, <3>2, <3>3, <4>3
    <3>4. CASE a # p
      <4>1. ChildrenOf(a) \cap alive' = ChildrenOf(a) \cap alive
          BY <1>4, <3>4 DEF ChildrenOf
      <4> QED BY <1>5, <3>1, <3>2, <3>4, <4>1, Zenon
    <3> QED BY <3>3, <3>4
  <2> QED BY <2>1, <2>2
<1>9. WithinLimit'
  <2>1. \A a \in alive : charged[a] <= limit[a]
      BY DEF BudgetInv, WithinLimit
  <2>2. \A a \in alive' : charged'[a] <= limit'[a]
      BY <1>1, <1>4, <1>5, <1>6, <2>1, SizeAssumption
  <2> QED BY <2>2 DEF WithinLimit
<1>10. Chain[b] \subseteq alive' /\ \A a \in Chain[b] : a # b => a \in Chain[p] /\ p # NoBudget
  <2>1. CASE p = NoBudget
      BY <1>4, <2>1, ChainOfRoot
  <2>2. CASE p # NoBudget
    <3>1. Chain[p] \subseteq alive
        BY <1>2, <2>2 DEF BudgetInv, NoDanglingBudget
    <3>2. Chain[b] = {b} \cup Chain[p]
        BY <2>2, ChainOfChild
    <3> QED BY <1>4, <2>2, <3>1, <3>2
  <2> QED BY <2>1, <2>2
<1>11. NoDanglingBudget'
  <2>1. \A a \in alive' : Chain[a] \subseteq alive'
      BY <1>4, <1>10 DEF BudgetInv, NoDanglingBudget
  <2>2. \A r \in Reservations : home'[r] # NoBudget => Chain[home'[r]] \subseteq alive'
      BY <1>4 DEF BudgetInv, NoDanglingBudget
  <2> QED BY <2>1, <2>2 DEF NoDanglingBudget
<1>12. OneWorkerPerChain'
  <2> SUFFICES ASSUME NEW c \in alive', NEW a \in Chain[c]
               PROVE  worker'[a] = worker'[c]
      BY DEF OneWorkerPerChain
  <2>1. CASE c = b
    <3>1. CASE a = b
        BY <2>1, <3>1, ZenonT(30)
    <3>2. CASE a # b
      <4>1. a \in Chain[p] /\ p # NoBudget
          BY <1>10, <2>1, <3>2
      <4>2. p \in alive /\ a \in alive /\ worker[a] = worker[p]
          BY <1>2, <4>1 DEF BudgetInv, OneWorkerPerChain, NoDanglingBudget
      <4> QED BY <1>5, <1>6, <2>1, <4>1, <4>2, ZenonT(30) DEF OwnerOf
    <3> QED BY <3>1, <3>2
  <2>2. CASE c # b
    <3>1. c \in alive /\ a \in alive /\ worker[a] = worker[c]
        BY <1>4, <2>2 DEF BudgetInv, OneWorkerPerChain, NoDanglingBudget
    <3> QED BY <1>5, <3>1
  <2> QED BY <2>1, <2>2
<1> QED BY <1>4, <1>7, <1>8, <1>9, <1>11, <1>12 DEF BudgetInv

\* Destroying a budget either stops the process or keeps the books, and
\* unregister_child cannot underflow.
LEMMA DestroyStep ==
    ASSUME TypeOK, BudgetInv, NEW b \in Budgets, Destroy(b)
    PROVE  /\ BudgetInv' /\ TypeOK' /\ UNCHANGED <<home, bytes, frames>>
           /\ fault' = "lifetime" \/ fault' = fault
<1> DEFINE p == Parent[b]
<1>1. b \in alive /\ alive \subseteq Budgets
    BY DEF Destroy, TypeOK
<1>2. ASSUME p # NoBudget
      PROVE  /\ p \in alive /\ p \in Budgets
             /\ b \in ChildrenOf(p) \cap alive
             /\ children[p] = Cardinality(ChildrenOf(p) \cap alive)
             /\ children[p] # 0
  <2>1. p \in Chain[b]
      BY <1>2, ChainSelf, ChainClosed DEF ClosedUnderParent
  <2>2. p \in alive /\ p \in Budgets
      BY <1>1, <2>1 DEF BudgetInv, NoDanglingBudget
  <2>3. b \in ChildrenOf(p) \cap alive
      BY <1>1 DEF ChildrenOf
  <2>4. children[p] = Cardinality(ChildrenOf(p) \cap alive)
      BY <2>2 DEF BudgetInv, CountersConserved
  <2>5. Cardinality(ChildrenOf(p) \cap alive) # 0
      BY <2>3, LiveChildrenFinite, FS_EmptySet, ZenonT(30)
  <2> QED BY <2>2, <2>3, <2>4, <2>5
<1>3. CASE ~ReadyForDestruction(b)
  <2>1. /\ fault' = "lifetime"
        /\ UNCHANGED <<alive, worker, limit, charged, live, children, home, bytes, frames>>
      BY <1>3 DEF Destroy, Terminate
  <2>2. TypeOK'
      BY <2>1 DEF TypeOK
  <2>3. BudgetInv'
      BY <2>1 DEF BudgetInv, CountersConserved, WithinLimit, NoDanglingBudget,
                  OneWorkerPerChain
  <2> QED BY <2>1, <2>2, <2>3
<1>4. CASE ReadyForDestruction(b)
  <2>1. /\ alive' = alive \ {b}
        /\ children' = Unregistered(b)
        /\ worker' = [worker EXCEPT ![b] = NoWorker]
        /\ limit' = [limit EXCEPT ![b] = 0]
        /\ UNCHANGED <<charged, live, home, bytes, frames, fault>>
      BY <1>2, <1>4 DEF Destroy
  <2>2. HeldUnder(home, b) = {} /\ ChildrenOf(b) \cap alive = {}
    <3>1. /\ Cardinality(HeldUnder(home, b)) = 0
          /\ Cardinality(ChildrenOf(b) \cap alive) = 0
        BY <1>1, <1>4 DEF ReadyForDestruction, BudgetInv, CountersConserved
    <3> QED BY <3>1, LoadFinite, LiveChildrenFinite, FS_EmptySet
  <2>3. p # b
      BY <1>1, <2>2 DEF ChildrenOf
  <2>4. ASSUME NEW c \in alive', NEW a \in Chain[c]
        PROVE  a # b
    <3>1. SUFFICES ASSUME a = b PROVE FALSE
        OBVIOUS
    <3>2. c \in alive /\ c # b /\ c \in Budgets
        BY <1>1, <2>1
    <3>3. PICK y \in Chain[c] : Parent[y] = b
        BY <3>1, <3>2, ChainStep
    <3>4. y \in alive /\ y \in Budgets
        BY <1>1, <3>2 DEF BudgetInv, NoDanglingBudget
    <3> QED BY <2>2, <3>3, <3>4 DEF ChildrenOf
  <2>5. ASSUME NEW a \in alive'
        PROVE  /\ a \in alive /\ a \in Budgets /\ a # b
               /\ worker'[a] = worker[a] /\ limit'[a] = limit[a]
               /\ children'[a] = IF a = p THEN children[a] - 1 ELSE children[a]
    <3>1. a \in alive /\ a \in Budgets /\ a # b
        BY <1>1, <2>1
    <3>2. worker'[a] = worker[a] /\ limit'[a] = limit[a]
        BY <2>1, <3>1 DEF TypeOK
    <3>3. children[a] \in 0 .. SizeMax
        BY <3>1 DEF TypeOK
    <3>4. children'[a] = IF a = p THEN Minus(children[a], 1) ELSE children[a]
        BY <2>1, <3>1, ParentAssumption DEF Unregistered, TypeOK
    <3>5. a = p => children[a] # 0
        BY <1>2, <3>1, ParentAssumption
    <3> QED BY <3>1, <3>2, <3>3, <3>4, <3>5, SizeAssumption DEF Minus
  <2>6. TypeOK'
    <3>1. children' \in [Budgets -> 0 .. SizeMax]
      <4>1. CASE p = NoBudget
          BY <2>1, <4>1 DEF Unregistered, TypeOK
      <4>2. CASE p # NoBudget
        <5>1. children[p] \in 0 .. SizeMax /\ children[p] # 0
            BY <1>2, <4>2 DEF TypeOK
        <5>2. Minus(children[p], 1) \in 0 .. SizeMax
            BY <5>1, SizeAssumption DEF Minus
        <5>3. children' = [children EXCEPT ![p] = Minus(children[p], 1)]
            BY <2>1, <4>2 DEF Unregistered
        <5> QED BY <5>2, <5>3, ZenonT(30) DEF TypeOK
      <4> QED BY <4>1, <4>2, ZenonT(30)
    <3>2. /\ worker' \in [Budgets -> Workers \cup {NoWorker}]
          /\ limit' \in [Budgets -> 0 .. SizeMax]
        BY <2>1, SizeAssumption DEF TypeOK
    <3>3. \A a \in alive' : worker'[a] \in Workers
        BY <2>5 DEF TypeOK
    <3> QED BY <1>1, <2>1, <3>1, <3>2, <3>3 DEF TypeOK
  <2>7. CountersConserved'
    <3> SUFFICES ASSUME NEW a \in alive'
                 PROVE  /\ charged[a] = LoadOf(home, bytes, a)
                        /\ live[a] = Cardinality(HeldUnder(home, a))
                        /\ children'[a] = Cardinality(ChildrenOf(a) \cap alive')
        BY <2>1, ZenonT(30) DEF CountersConserved
    <3>1. /\ charged[a] = LoadOf(home, bytes, a)
          /\ live[a] = Cardinality(HeldUnder(home, a))
          /\ children[a] = Cardinality(ChildrenOf(a) \cap alive)
        BY <2>5 DEF BudgetInv, CountersConserved
    <3>2. CASE a = p
      <4>1. ChildrenOf(a) \cap alive' = (ChildrenOf(a) \cap alive) \ {b}
          BY <2>1
      <4>2. b \in ChildrenOf(a) \cap alive
          BY <1>1, <3>2 DEF ChildrenOf
      <4>3. Cardinality(ChildrenOf(a) \cap alive')
              = Cardinality(ChildrenOf(a) \cap alive) - 1
          BY <4>1, <4>2, LiveChildrenFinite, FS_RemoveElement, ZenonT(30)
      <4> QED BY <2>5, <3>1, <3>2, <4>3
    <3>3. CASE a # p
      <4>1. ChildrenOf(a) \cap alive' = ChildrenOf(a) \cap alive
          BY <2>1, <3>3 DEF ChildrenOf
      <4> QED BY <2>5, <3>1, <3>3, <4>1
    <3> QED BY <3>2, <3>3, ZenonT(30)
  <2>8. WithinLimit'
      BY <2>1, <2>5 DEF WithinLimit, BudgetInv
  <2>9. NoDanglingBudget'
    <3>1. \A a \in alive' : Chain[a] \subseteq alive'
        BY <2>1, <2>4 DEF BudgetInv, NoDanglingBudget
    <3>2. ASSUME NEW r \in Reservations, home[r] # NoBudget
          PROVE  Chain[home[r]] \subseteq alive'
      <4>1. b \notin Chain[home[r]]
          BY <2>2, <3>2 DEF HeldUnder
      <4> QED BY <2>1, <3>2, <4>1 DEF BudgetInv, NoDanglingBudget
    <3> QED BY <2>1, <3>1, <3>2 DEF NoDanglingBudget
  <2>10. OneWorkerPerChain'
    <3> SUFFICES ASSUME NEW c \in alive', NEW a \in Chain[c]
                 PROVE  worker'[a] = worker'[c]
        BY DEF OneWorkerPerChain
    <3>1. a \in alive'
        BY <2>9 DEF NoDanglingBudget
    <3> QED BY <2>5, <3>1 DEF BudgetInv, OneWorkerPerChain
  <2> QED BY <2>1, <2>6, <2>7, <2>8, <2>9, <2>10, ZenonT(30) DEF BudgetInv
<1> QED BY <1>3, <1>4

-----------------------------------------------------------------------------
(* Init => IInv and IInv /\ [Next]_vars => IInv'.                          *)

\* Nothing exists and nothing is charged at the start.
LEMMA InitInv == Init => IInv
<1> SUFFICES ASSUME Init PROVE IInv
    OBVIOUS
<1>1. TypeOK
    BY SizeAssumption DEF Init, TypeOK
<1>2. BudgetInv
    BY DEF Init, BudgetInv, CountersConserved, WithinLimit, NoDanglingBudget,
           OneWorkerPerChain
<1>3. FramesHeld /\ NoCounterFault
    BY DEF Init, FramesHeld, NoCounterFault
<1> QED BY <1>1, <1>2, <1>3 DEF IInv

\* A step that changes the counters and neither the tree, the stack nor the
\* process keeps the type invariant.
LEMMA CounterStepType ==
    ASSUME TypeOK, CounterType', UNCHANGED <<budgetVars, fault>>,
           frames' \in Seq(Reservations)
    PROVE  TypeOK'
BY DEF TypeOK, CounterType, HomeType, BytesType, budgetVars

\* Reservations that are not on the stack may change without disturbing it.
LEMMA FramesUndisturbed ==
    ASSUME TypeOK, FramesHeld, UNCHANGED frames,
           \A q \in Reservations : OnStack(q) => home'[q] = home[q]
    PROVE  FramesHeld'
<1>1. \A i \in 1 .. Len(frames) : frames[i] \in Reservations /\ OnStack(frames[i])
    BY DEF TypeOK, OnStack
<1> QED BY <1>1 DEF FramesHeld

\* The temporary on top of the stack, and the stack without it.
LEMMA TopFrame ==
    ASSUME TypeOK, FramesHeld, frames # <<>>, PopFrame
    PROVE  /\ frames[Len(frames)] \in Reservations
           /\ home[frames[Len(frames)]] # NoBudget
           /\ frames' \in Seq(Reservations)
           /\ Len(frames') = Len(frames) - 1
           /\ \A i \in 1 .. Len(frames') :
                 frames'[i] = frames[i] /\ frames'[i] # frames[Len(frames)]
<1>1. frames \in Seq(Reservations) /\ Len(frames) \in Nat /\ Len(frames) # 0
    BY DEF TypeOK
<1>2. Len(frames) \in 1 .. Len(frames)
    BY <1>1
<1>3. /\ frames' \in Seq(Reservations)
      /\ Len(frames') = Len(frames) - 1
      /\ \A i \in 1 .. Len(frames') : frames'[i] = frames[i]
    BY <1>1 DEF PopFrame
<1>4. ASSUME NEW i \in 1 .. Len(frames')
      PROVE  frames[i] # frames[Len(frames)]
  <2>1. i \in 1 .. Len(frames) /\ i # Len(frames)
      BY <1>1, <1>3
  <2> QED BY <1>2, <2>1 DEF FramesHeld
<1> QED BY <1>1, <1>2, <1>3, <1>4 DEF FramesHeld

\* Releasing a reservation that its owner can reach.
LEMMA DropStep ==
    ASSUME IInv, NEW r \in Reservations, Drop(r)
    PROVE  IInv'
<1>1. TypeOK /\ BudgetInv /\ FramesHeld /\ fault = "none" /\ home[r] # NoBudget
      /\ ~OnStack(r)
    BY DEF IInv, Drop, Reachable, Running
<1>2. Discharge(r) /\ UNCHANGED <<budgetVars, frames, fault>>
    BY <1>1, AlwaysCovered DEF Drop
<1>3. UNCHANGED budgetVars
    BY <1>2
<1>4. BudgetInv' /\ CounterType'
    BY <1>1, <1>2, <1>3, DischargeStep
<1>5. TypeOK'
    BY <1>1, <1>2, <1>4, CounterStepType, ZenonT(30) DEF TypeOK
<1>6. FramesHeld'
  <2>1. \A q \in Reservations : OnStack(q) => home'[q] = home[q]
      BY <1>1, <1>2 DEF Discharge, TypeOK
  <2> QED BY <1>1, <1>2, <2>1, FramesUndisturbed
<1>7. NoCounterFault'
    BY <1>1, <1>2 DEF NoCounterFault
<1> QED BY <1>4, <1>5, <1>6, <1>7 DEF IInv

\* The strengthened invariant is preserved by every step.
LEMMA NextInv == IInv /\ [Next]_vars => IInv'
<1> SUFFICES ASSUME IInv, [Next]_vars PROVE IInv'
    OBVIOUS
<1>t. TypeOK /\ BudgetInv /\ FramesHeld /\ NoCounterFault
    BY DEF IInv
<1>1. CASE UNCHANGED vars
    BY <1>t, <1>1, Zenon DEF vars, IInv, TypeOK, BudgetInv, CountersConserved, WithinLimit,
                NoDanglingBudget, OneWorkerPerChain, FramesHeld, NoCounterFault
<1>2. ASSUME NEW b \in Budgets, NEW w \in Workers, NEW l \in Limits, Construct(b, w, l)
      PROVE  IInv'
  <2>1. BudgetInv' /\ TypeOK' /\ UNCHANGED <<home, bytes, frames, fault>>
      BY <1>t, <1>2, ConstructStep
  <2> QED BY <1>t, <2>1, Zenon DEF IInv, FramesHeld, NoCounterFault
<1>3. ASSUME NEW b \in Budgets, Destroy(b)
      PROVE  IInv'
  <2>1. /\ BudgetInv' /\ TypeOK' /\ UNCHANGED <<home, bytes, frames>>
        /\ fault' = "lifetime" \/ fault' = fault
      BY <1>t, <1>3, DestroyStep
  <2> QED BY <1>t, <2>1 DEF IInv, FramesHeld, NoCounterFault
<1>4. ASSUME NEW w \in Workers, NEW b \in Budgets, NEW n \in 0 .. SizeMax,
             NEW r \in Reservations, Reserve(w, b, n, r)
      PROVE  IInv'
  <2>1. /\ UNCHANGED budgetVars /\ frames' = frames /\ fault' = fault
        /\ b \in alive /\ home[r] = NoBudget
        /\ PreflightReservation(b, n) /\ ChargeNew(b, n, r) /\ ~OnStack(r)
      BY <1>4 DEF Reserve, Reachable
  <2>2. BudgetInv' /\ CounterType'
      BY <1>t, <2>1, GrantStep
  <2>3. TypeOK'
      BY <1>t, <2>1, <2>2, CounterStepType, Zenon DEF TypeOK
  <2>4. FramesHeld'
    <3>1. \A q \in Reservations : OnStack(q) => home'[q] = home[q]
        BY <1>t, <2>1 DEF ChargeNew, TypeOK
    <3> QED BY <1>t, <2>1, <3>1, FramesUndisturbed
  <2> QED BY <1>t, <2>1, <2>2, <2>3, <2>4 DEF IInv, NoCounterFault
<1>5. ASSUME NEW w \in Workers, NEW b \in Budgets, NEW n \in 0 .. SizeMax,
             NEW r \in Reservations, BeginAllocation(w, b, n, r)
      PROVE  IInv'
  <2>1. /\ UNCHANGED budgetVars /\ frames' = Append(frames, r) /\ fault' = fault
        /\ b \in alive /\ home[r] = NoBudget
        /\ PreflightReservation(b, n) /\ ChargeNew(b, n, r) /\ ~OnStack(r)
      BY <1>5 DEF BeginAllocation, Reachable
  <2>2. BudgetInv' /\ CounterType'
      BY <1>t, <2>1, GrantStep
  <2>3. frames \in Seq(Reservations) /\ frames' \in Seq(Reservations)
      BY <1>t, <2>1 DEF TypeOK
  <2>4. TypeOK'
      BY <1>t, <2>1, <2>2, <2>3, CounterStepType
  <2>5. FramesHeld'
    <3>1. /\ Len(frames') = Len(frames) + 1 /\ Len(frames) \in Nat
          /\ frames'[Len(frames) + 1] = r
          /\ \A i \in 1 .. Len(frames) : frames'[i] = frames[i] /\ frames[i] \in Reservations
        BY <2>1, <2>3
    <3>2. home'[r] # NoBudget
        BY <1>t, <2>1, ParentAssumption DEF ChargeNew, TypeOK
    <3>3. \A i \in 1 .. Len(frames) : frames[i] # r /\ home'[frames[i]] # NoBudget
        BY <1>t, <2>1, <3>1, Zenon DEF ChargeNew, TypeOK, OnStack, FramesHeld
    <3>4. \A i \in 1 .. Len(frames') : home'[frames'[i]] # NoBudget
        BY <3>1, <3>2, <3>3
    <3>5. ASSUME NEW i \in 1 .. Len(frames'), NEW j \in 1 .. Len(frames'),
                 frames'[i] = frames'[j]
          PROVE  i = j
      <4>1. CASE i = Len(frames) + 1 \/ j = Len(frames) + 1
          BY <3>1, <3>3, <3>5, <4>1
      <4>2. CASE i # Len(frames) + 1 /\ j # Len(frames) + 1
        <5>1. Len(frames') = Len(frames) + 1 /\ Len(frames) \in Nat
            BY <3>1
        <5>2. i \in 1 .. Len(frames) /\ j \in 1 .. Len(frames)
            BY <4>2, <5>1
        <5>3. frames[i] = frames[j]
            BY <3>1, <3>5, <5>2
        <5> QED BY <1>t, <5>2, <5>3 DEF FramesHeld
      <4> QED BY <4>1, <4>2
    <3> QED BY <3>4, <3>5 DEF FramesHeld
  <2> QED BY <1>t, <2>1, <2>2, <2>4, <2>5 DEF IInv, NoCounterFault
<1>6. CASE FinishAllocation
  <2>1. frames # <<>> /\ PopFrame /\ UNCHANGED <<budgetVars, charged, live, home, bytes, fault>>
      BY <1>6 DEF FinishAllocation
  <2>2. /\ frames' \in Seq(Reservations)
        /\ Len(frames') = Len(frames) - 1
        /\ \A i \in 1 .. Len(frames') : frames'[i] = frames[i]
      BY <1>t, <2>1, TopFrame
  <2>3. TypeOK' /\ NoCounterFault'
      BY <1>t, <2>1, <2>2, ZenonT(30) DEF TypeOK, NoCounterFault, budgetVars
  <2>4. BudgetInv'
      BY ZenonT(30), <1>t, <2>1 DEF BudgetInv, CountersConserved, WithinLimit, NoDanglingBudget,
                        OneWorkerPerChain, budgetVars
  <2>5. FramesHeld'
    <3>1. Len(frames) \in Nat
        BY <1>t DEF TypeOK
    <3>2. \A i \in 1 .. Len(frames') : i \in 1 .. Len(frames)
        BY <2>2, <3>1
    <3> QED BY <1>t, <2>1, <2>2, <3>2 DEF FramesHeld
  <2> QED BY <2>3, <2>4, <2>5 DEF IInv
<1>7. CASE FailAllocation
  <2> DEFINE r == frames[Len(frames)]
  <2>1. frames # <<>>
      BY <1>7 DEF FailAllocation
  <2>2. r \in Reservations /\ home[r] # NoBudget
    <3>1. frames \in Seq(Reservations) /\ Len(frames) \in 1 .. Len(frames)
        BY <1>t, <2>1 DEF TypeOK
    <3> QED BY <1>t, <3>1 DEF FramesHeld
  <2>3. Covered(home[r], bytes[r])
      BY <1>t, <2>2, AlwaysCovered
  <2>4. Discharge(r) /\ PopFrame /\ UNCHANGED <<budgetVars, fault>>
      BY <1>7, <2>3 DEF FailAllocation
  <2>5. /\ frames' \in Seq(Reservations)
        /\ Len(frames') = Len(frames) - 1
        /\ \A i \in 1 .. Len(frames') : frames'[i] = frames[i] /\ frames'[i] # r
      BY <1>t, <2>1, <2>4, TopFrame
  <2> HIDE DEF r
  <2>6. BudgetInv' /\ CounterType'
      BY <1>t, <2>2, <2>4, DischargeStep
  <2>7. TypeOK'
      BY <1>t, <2>4, <2>5, <2>6, CounterStepType
  <2>8. FramesHeld'
    <3>1. frames \in Seq(Reservations) /\ Len(frames) \in Nat
        BY <1>t DEF TypeOK
    <3>2. \A i \in 1 .. Len(frames') : i \in 1 .. Len(frames) /\ frames[i] \in Reservations
        BY <2>5, <3>1
    <3>3. \A i \in 1 .. Len(frames') : home'[frames'[i]] = home[frames[i]]
        BY <1>t, <2>4, <2>5, <3>2, ZenonT(30) DEF Discharge, TypeOK
    <3> QED BY <1>t, <2>5, <3>2, <3>3 DEF FramesHeld
  <2> QED BY <1>t, <2>4, <2>6, <2>7, <2>8 DEF IInv, NoCounterFault
<1>8. ASSUME NEW r \in Reservations, Drop(r)
      PROVE  IInv'
    BY <1>8, DropStep
<1>9. ASSUME NEW w \in Workers, NEW r \in Reservations, Release(w, r)
      PROVE  IInv'
    BY <1>9, DropStep DEF Release
<1>10. ASSUME NEW w \in Workers, NEW r \in Reservations, NEW n \in 0 .. SizeMax,
              Grow(w, r, n)
       PROVE  IInv'
  <2>1. UNCHANGED <<budgetVars, fault>> /\ frames' = frames /\ home' = home
      BY <1>10, Zenon DEF Grow
  <2>2. BudgetInv' /\ CounterType'
      BY <1>t, <1>10, GrowStep
  <2>3. TypeOK'
      BY <1>t, <2>1, <2>2, CounterStepType DEF TypeOK
  <2> QED BY <1>t, <2>1, <2>2, <2>3 DEF IInv, NoCounterFault, FramesHeld
<1>11. ASSUME NEW w \in Workers, NEW r \in Reservations, NEW n \in 0 .. SizeMax,
              Shrink(w, r, n)
       PROVE  IInv'
  <2>1. BudgetInv' /\ CounterType' /\ UNCHANGED <<budgetVars, frames, fault, home>>
      BY <1>t, <1>11, ShrinkStep, ZenonT(30)
  <2>2. TypeOK'
      BY <1>t, <2>1, CounterStepType DEF TypeOK
  <2> QED BY <1>t, <2>1, <2>2, Zenon DEF IInv, NoCounterFault, FramesHeld
<1>12. ASSUME NEW dst \in Reservations, NEW src \in Reservations, Move(dst, src)
       PROVE  IInv'
  <2>1. BudgetInv' /\ CounterType' /\ UNCHANGED <<budgetVars, frames, fault>>
      BY <1>t, <1>12, MoveStep
  <2>2. TypeOK'
      BY <1>t, <2>1, CounterStepType DEF TypeOK
  <2>3. FramesHeld'
    <3>1. \A q \in Reservations : OnStack(q) => home'[q] = home[q]
        BY <1>t, <1>12 DEF Move, Reachable, TypeOK
    <3> QED BY <1>t, <2>1, <3>1, FramesUndisturbed, ZenonT(30)
  <2> QED BY <1>t, <2>1, <2>2, <2>3 DEF IInv, NoCounterFault
<1> QED BY <1>1, <1>2, <1>3, <1>4, <1>5, <1>6, <1>7, <1>8, <1>9, <1>10, <1>11, <1>12
        DEF Next

-----------------------------------------------------------------------------
(* The theorems.                                                           *)

\* The strengthened invariant holds of every reachable state.
THEOREM Inductive == Spec => []IInv
BY InitInv, NextInv, PTL DEF Spec

\* The fields of core/memory_budget.hpp keep their types: no counter leaves
\* the range of std::size_t, and every live budget has an owner.
THEOREM TypeCorrect == Spec => []TypeOK
<1>1. IInv => TypeOK
    BY DEF IInv
<1> QED BY <1>1, Inductive, PTL

\* For every tree of budgets, charged_, live_reservations_ and live_children_
\* are exactly what the existing reservations and children add up to.
THEOREM Conservation == Spec => []CountersConserved
<1>1. IInv => CountersConserved
    BY DEF IInv, BudgetInv
<1> QED BY <1>1, Inductive, PTL

\* No budget of the tree is ever charged past its limit.
THEOREM LimitsRespected == Spec => []WithinLimit
<1>1. IInv => WithinLimit
    BY DEF IInv, BudgetInv
<1> QED BY <1>1, Inductive, PTL

\* budget_ and parent_ never dangle.
THEOREM NoDangling == Spec => []NoDanglingBudget
<1>1. IInv => NoDanglingBudget
    BY DEF IInv, BudgetInv
<1> QED BY <1>1, Inductive, PTL

\* A worker check at the leaf is a check for every budget of the chain.
THEOREM OneWorker == Spec => []OneWorkerPerChain
<1>1. IInv => OneWorkerPerChain
    BY DEF IInv, BudgetInv
<1> QED BY <1>1, Inductive, PTL

\* The terminate() calls in release, shrink, register_child and
\* unregister_child are unreachable.
THEOREM CountersNeverFault == Spec => []NoCounterFault
<1>1. IInv => NoCounterFault
    BY DEF IInv
<1> QED BY <1>1, Inductive, PTL

-----------------------------------------------------------------------------
(* The refinement of BudgetLedger.                                         *)

\* The ledger speaks of the same tree.
LEMMA SameTree ==
    /\ Ledger!Chain = Chain
    /\ \A h, b : Ledger!HeldUnder(h, b) = HeldUnder(h, b)
    /\ \A h, n, b : Ledger!LoadOf(h, n, b) = LoadOf(h, n, b)
    /\ \A b : Ledger!ChildrenOf(b) = ChildrenOf(b)
<1>1. Ledger!Chain = Chain
    BY DEF Ledger!Chain, Chain, Ledger!ClosedUnderParent, ClosedUnderParent
<1>2. \A h, b : Ledger!HeldUnder(h, b) = HeldUnder(h, b)
    BY <1>1, Zenon DEF Ledger!HeldUnder, HeldUnder
<1>3. \A h, n, b : Ledger!UnitsUnder(h, n, b) = UnitsUnder(h, n, b)
    BY <1>2 DEF Ledger!UnitsUnder, UnitsUnder
<1>4. \A h, n, b : Ledger!LoadOf(h, n, b) = LoadOf(h, n, b)
    BY <1>3, Zenon DEF Ledger!LoadOf, LoadOf, Ledger!Cardinality, Cardinality
<1>5. \A b : Ledger!ChildrenOf(b) = ChildrenOf(b)
    BY DEF Ledger!ChildrenOf, ChildrenOf
<1> QED BY <1>1, <1>2, <1>4, <1>5

\* What the preflight loop tests with the counters is what the ledger tests
\* with the reservations themselves.
LEMMA PreflightIsRoom ==
    ASSUME TypeOK, BudgetInv, NEW b \in alive, NEW n \in 0 .. SizeMax,
           PreflightReservation(b, n)
    PROVE  Ledger!Room(b, n)
<1> SUFFICES ASSUME NEW a \in Chain[b]
             PROVE  LoadOf(home, bytes, a) + n <= limit[a]
    BY SameTree, ZenonT(30) DEF Ledger!Room
<1>1. a \in alive /\ a \in Budgets
    BY ZenonT(30) DEF BudgetInv, NoDanglingBudget, TypeOK
<1>2. /\ charged[a] = LoadOf(home, bytes, a) /\ charged[a] <= limit[a]
      /\ charged[a] \in 0 .. SizeMax /\ limit[a] \in 0 .. SizeMax
    BY <1>1, Zenon DEF BudgetInv, CountersConserved, WithinLimit, TypeOK
<1>3. n <= Minus(limit[a], charged[a])
    BY Zenon DEF PreflightReservation
<1>4. Minus(limit[a], charged[a]) = limit[a] - charged[a]
    BY <1>2, SizeAssumption DEF Minus
<1>5. ASSUME NEW x \in Nat, NEW y \in Nat, n <= x - y PROVE y + n <= x
    BY <1>5
<1>6. limit[a] \in Nat /\ charged[a] \in Nat
    BY <1>2, SizeAssumption
<1> QED BY <1>2, <1>3, <1>4, <1>5, <1>6, Zenon

\* Every step of the budgets is a step of the ledger or leaves it unchanged.
LEMMA LedgerStep == IInv /\ [Next]_vars => [Ledger!Next]_Ledger!vars
<1> SUFFICES ASSUME IInv, [Next]_vars, ~UNCHANGED Ledger!vars
             PROVE  Ledger!Next
    OBVIOUS
<1>t. TypeOK /\ BudgetInv /\ FramesHeld /\ NoCounterFault
    BY DEF IInv
<1>1. CASE UNCHANGED vars
    BY <1>1 DEF vars, Ledger!vars
<1>2. ASSUME NEW b \in Budgets, NEW w \in Workers, NEW l \in Limits, Construct(b, w, l)
      PROVE  Ledger!Next
  <2>1. l \in 0 .. SizeMax
      BY LimitAssumption, ZenonT(30)
  <2>2. Ledger!Open(b, l)
      BY <1>2 DEF Construct, Terminate, Ledger!Open, Ledger!vars
  <2> QED BY <2>1, <2>2 DEF Ledger!Next
<1>3. ASSUME NEW b \in Budgets, Destroy(b)
      PROVE  Ledger!Next
  <2>1. /\ b \in alive /\ ReadyForDestruction(b)
        /\ alive' = alive \ {b} /\ limit' = [limit EXCEPT ![b] = 0]
        /\ UNCHANGED <<home, bytes>>
      BY <1>3 DEF Destroy, Terminate, Ledger!vars
  <2>2. /\ Cardinality(HeldUnder(home, b)) = 0
        /\ Cardinality(ChildrenOf(b) \cap alive) = 0
      BY <1>t, <2>1 DEF ReadyForDestruction, BudgetInv, CountersConserved
  <2>3. HeldUnder(home, b) = {} /\ ChildrenOf(b) \cap alive = {}
      BY <2>2, LoadFinite, LiveChildrenFinite, FS_EmptySet
  <2>4. Ledger!Close(b)
      BY <2>1, <2>3, SameTree DEF Ledger!Close
  <2> QED BY <2>4, ZenonT(30) DEF Ledger!Next
<1>4. ASSUME NEW w \in Workers, NEW b \in Budgets, NEW n \in 0 .. SizeMax,
             NEW r \in Reservations,
             Reserve(w, b, n, r) \/ BeginAllocation(w, b, n, r)
      PROVE  Ledger!Next
  <2>1. /\ UNCHANGED <<alive, limit>>
        /\ b \in alive /\ home[r] = NoBudget
        /\ PreflightReservation(b, n) /\ ChargeNew(b, n, r)
      BY <1>4 DEF Reserve, BeginAllocation, budgetVars
  <2>2. Ledger!Room(b, n)
      BY <1>t, <2>1, PreflightIsRoom
  <2>3. Ledger!Grant(r, b, n)
      BY <2>1, <2>2 DEF Ledger!Grant, ChargeNew
  <2> QED BY <2>3 DEF Ledger!Next
<1>5. CASE FinishAllocation
    BY <1>5 DEF FinishAllocation, budgetVars, Ledger!vars
<1>6. CASE FailAllocation
  <2> DEFINE r == frames[Len(frames)]
  <2>1. r \in Reservations /\ home[r] # NoBudget
    <3>1. frames \in Seq(Reservations) /\ Len(frames) \in 1 .. Len(frames)
        BY <1>t, <1>6 DEF TypeOK, FailAllocation
    <3> QED BY <1>t, <3>1 DEF FramesHeld
  <2>2. Covered(home[r], bytes[r])
      BY <1>t, <2>1, AlwaysCovered
  <2>3. Discharge(r) /\ UNCHANGED budgetVars
      BY <1>6, <2>2 DEF FailAllocation
  <2> HIDE DEF r
  <2>4. Ledger!GiveBack(r)
      BY <2>1, <2>3 DEF Ledger!GiveBack, Discharge, budgetVars
  <2> QED BY <2>1, <2>4 DEF Ledger!Next
<1>7. ASSUME NEW r \in Reservations, Drop(r)
      PROVE  Ledger!Next
  <2>1. Discharge(r) /\ UNCHANGED budgetVars /\ home[r] # NoBudget
      BY <1>7, <1>t, AlwaysCovered DEF Drop
  <2>2. Ledger!GiveBack(r)
      BY <2>1 DEF Ledger!GiveBack, Discharge, budgetVars
  <2> QED BY <2>2 DEF Ledger!Next
<1>8. ASSUME NEW w \in Workers, NEW r \in Reservations, NEW n \in 0 .. SizeMax,
             Grow(w, r, n)
      PROVE  Ledger!Next
  <2>1. /\ home[r] # NoBudget /\ home[r] \in alive
        /\ PreflightReservation(home[r], n)
        /\ UNCHANGED <<alive, limit, home>>
    <3>1. home[r] # NoBudget /\ home[r] \in Budgets
        BY <1>8, <1>t DEF Grow, TypeOK
    <3>2. home[r] \in alive
        BY <3>1, <1>t, ChainSelf DEF BudgetInv, NoDanglingBudget
    <3> QED BY <1>8, <3>1, <3>2 DEF Grow, budgetVars
  <2>2. Ledger!Room(home[r], n)
      BY <1>t, <2>1, PreflightIsRoom
  <2>3. bytes' = [bytes EXCEPT ![r] = bytes[r] + n]
    <3>1. /\ bytes' = [bytes EXCEPT ![r] = Plus(bytes[r], n)]
          /\ n <= SizeMax - bytes[r] /\ bytes[r] \in 0 .. SizeMax
        BY <1>8, <1>t DEF Grow, TypeOK
    <3>2. Plus(bytes[r], n) = bytes[r] + n
        BY <3>1, SizeAssumption DEF Plus
    <3> QED BY <3>1, <3>2
  <2>4. Ledger!Extend(r, n)
      BY <2>1, <2>2, <2>3 DEF Ledger!Extend
  <2> QED BY <2>4 DEF Ledger!Next
<1>9. ASSUME NEW w \in Workers, NEW r \in Reservations, NEW n \in 0 .. SizeMax,
             Shrink(w, r, n)
      PROVE  Ledger!Next
  <2>1. /\ home[r] # NoBudget /\ n <= bytes[r] /\ bytes[r] \in 0 .. SizeMax
      BY <1>9, <1>t, ZenonT(30) DEF Shrink, TypeOK
  <2>2. /\ bytes' = [bytes EXCEPT ![r] = Minus(bytes[r], n)]
        /\ UNCHANGED <<alive, limit, home>>
      BY <1>9 DEF Shrink, Terminate, Ledger!vars, budgetVars
  <2>3. Minus(bytes[r], n) = bytes[r] - n
      BY <2>1, SizeAssumption, ZenonT(30) DEF Minus
  <2>4. Ledger!Reduce(r, n)
      BY <2>1, <2>2, <2>3 DEF Ledger!Reduce
  <2> QED BY <2>4, ZenonT(30) DEF Ledger!Next
<1>10. ASSUME NEW dst \in Reservations, NEW src \in Reservations, Move(dst, src)
       PROVE  Ledger!Next
  <2>1. Ledger!Transfer(dst, src)
      BY <1>10 DEF Move, Ledger!Transfer, budgetVars
  <2> QED BY <2>1 DEF Ledger!Next
<1>11. ASSUME NEW w \in Workers, NEW r \in Reservations, Release(w, r)
       PROVE  Ledger!Next
    BY <1>7, <1>11 DEF Release
<1> QED BY <1>1, <1>2, <1>3, <1>4, <1>5, <1>6, <1>7, <1>8, <1>9, <1>10, <1>11 DEF Next

\* The budgets with their incremental counters implement the ledger that only
\* knows the reservations: a grant succeeds only when the reservations leave
\* room for it at every ancestor, and every charge is given back exactly once.
THEOREM ImplementsLedger == Spec => LedgerSpec
<1>1. Init => Ledger!Init
    BY DEF Init, Ledger!Init
<1> QED BY <1>1, LedgerStep, Inductive, PTL DEF Spec, Ledger!Spec, LedgerSpec
=============================================================================
