------------------------- MODULE NativeMemoryProofs -------------------------
(***************************************************************************)
(* Proofs about the memory native libraries run on, for arenas of every    *)
(* capacity, any number of sessions and pins, blocks of every size and     *)
(* alignment, and every order of allocating, freeing, moving and resetting. *)
(***************************************************************************)
EXTENDS NativeMemory, FiniteSetTheorems, TLAPS

\* A leaf may take either prover 30 seconds and is given to Z3 a second time: no
\* proof depends on how busy the machine is.
USE SMTT(30), ZenonT(30), Z3T(30)

-----------------------------------------------------------------------------
(* Loops.                                                                  *)

\* A set of numbers that is not empty has a least one.
LEMMA LeastNumber ==
    ASSUME NEW S \in SUBSET Nat, S # {}
    PROVE  \E n \in S : \A m \in S : n <= m
<1> DEFINE less == {ss \in Nat \X Nat : ss[1] < ss[2]}
<1>1. IsWellFoundedOn(less, Nat)
    BY NatLessThanWellFounded DEF OpToRel
<1> HIDE DEF less
<1>2. PICK n \in S : \A m \in S : <<m, n>> \notin less
    BY <1>1, WFMin, Zenon
<1>3. ASSUME NEW m \in S PROVE n <= m
  <2>1. <<m, n>> \notin less
      BY <1>2
  <2> QED BY <2>1 DEF less
<1> QED BY <1>2, <1>3

\* A loop of n rounds has a run: round k takes what round k - 1 left to step[k].
Runs(f, D, start, step, n) ==
    f \in [0 .. n -> D] /\ f[0] = start /\ \A k \in 1 .. n : f[k] = step[k][f[k - 1]]

\* Every loop of N rounds has such a run.
LEMMA LoopRuns ==
    ASSUME NEW D, NEW N \in Nat, NEW start \in D, NEW step \in [1 .. N -> [D -> D]]
    PROVE  \E f : Runs(f, D, start, step, N)
<1> DEFINE missing == {n \in 0 .. N : ~\E f : Runs(f, D, start, step, n)}
<1>0. N \in 0 .. N
    OBVIOUS
<1> SUFFICES ASSUME missing # {} PROVE FALSE
    BY <1>0, Zenon
<1>1. PICK n \in missing : \A m \in missing : n <= m
  <2>1. missing \in SUBSET Nat
      OBVIOUS
  <2> HIDE DEF missing
  <2> QED BY <2>1, LeastNumber
<1>2. n # 0
  <2>1. Runs([k \in 0 .. 0 |-> start], D, start, step, 0)
      BY DEF Runs
  <2> QED BY <1>1, <2>1
<1>3. n \in 1 .. N /\ n - 1 \in 0 .. N /\ n - 1 \notin missing
    BY <1>1, <1>2
<1>4. PICK f : Runs(f, D, start, step, n - 1)
    BY <1>3
<1> DEFINE g == [k \in 0 .. n |-> IF k = n THEN step[n][f[n - 1]] ELSE f[k]]
<1>5. f[n - 1] \in D /\ step[n] \in [D -> D]
    BY <1>3, <1>4 DEF Runs
<1>6. g \in [0 .. n -> D] /\ g[0] = start
    BY <1>3, <1>4, <1>5 DEF Runs
<1>7. ASSUME NEW k \in 1 .. n PROVE g[k] = step[k][g[k - 1]]
    BY <1>3, <1>4 DEF Runs
<1> HIDE DEF g
<1>8. Runs(g, D, start, step, n)
    BY <1>6, <1>7, Zenon DEF Runs
<1> QED BY <1>1, <1>8

-----------------------------------------------------------------------------
(* The operators of the arena.                                             *)

\* The doubling ends with a capacity that suffices.
LEMMA TargetSuffices ==
    ASSUME capacity \in 0 .. MaximumCapacity, NEW required \in 0 .. MaximumCapacity
    PROVE  Target(required) \in required .. MaximumCapacity
<1> DEFINE start == IF capacity = 0 THEN InitialCapacity ELSE capacity
           after[k \in 0 .. MaximumCapacity] == IF k = 0 THEN start ELSE Doubled(after[k - 1])
           rounds == CHOOSE k \in 0 .. MaximumCapacity :
                        /\ after[k] >= required
                        /\ \A j \in 0 .. k - 1 : after[j] < required
           Caps == 1 .. MaximumCapacity
           step == [k \in 1 .. MaximumCapacity |-> [s \in Caps |-> Doubled(s)]]
<1>1. Target(required) = after[rounds]
    BY Zenon DEF Target
<1>2. start \in Caps /\ MaximumCapacity \in Nat
    BY CapacityAssumption
<1>3. \A s \in Caps : Doubled(s) \in Caps /\ (Doubled(s) > s \/ Doubled(s) = MaximumCapacity)
    BY <1>2 DEF Doubled
<1>4. step \in [1 .. MaximumCapacity -> [Caps -> Caps]]
    BY <1>3
<1> HIDE DEF start
<1>5. PICK f : Runs(f, Caps, start, step, MaximumCapacity)
  <2> HIDE DEF step, Caps
  <2> QED BY <1>2, <1>4, LoopRuns
<1>6. f = [k \in 0 .. MaximumCapacity |-> IF k = 0 THEN start ELSE Doubled(f[k - 1])]
  <2>1. ASSUME NEW k \in 1 .. MaximumCapacity PROVE f[k] = Doubled(f[k - 1])
    <3>1. k - 1 \in 0 .. MaximumCapacity
        BY <1>2
    <3>2. f[k - 1] \in Caps
        BY <1>5, <3>1 DEF Runs
    <3>3. f[k] = step[k][f[k - 1]]
        BY <1>5 DEF Runs
    <3> QED BY <3>2, <3>3
  <2> QED BY <1>5, <2>1 DEF Runs
<1>7. \A k \in 0 .. MaximumCapacity : after[k] = IF k = 0 THEN start ELSE Doubled(after[k - 1])
  <2>1. after = [k \in 0 .. MaximumCapacity |-> IF k = 0 THEN start ELSE Doubled(after[k - 1])]
      BY <1>6, Zenon
  <2> HIDE DEF after
  <2> QED BY <2>1, Zenon
<1> HIDE DEF after
<1> DEFINE Far(k) == after[k] \in Caps /\ (after[k] >= k + 1 \/ after[k] = MaximumCapacity)
           short == {k \in 0 .. MaximumCapacity : ~Far(k)}
<1>8. short = {}
  <2> SUFFICES ASSUME short # {} PROVE FALSE
      OBVIOUS
  <2>1. PICK k \in short : \A m \in short : k <= m
    <3>1. short \in SUBSET Nat
        OBVIOUS
    <3> HIDE DEF short
    <3> QED BY <3>1, LeastNumber
  <2>2. k # 0
      BY <1>2, <1>7, <2>1
  <2>3. k - 1 \in 0 .. MaximumCapacity /\ ~(k <= k - 1) /\ k \in Nat
      BY <1>2, <2>2
  <2>4. Far(k - 1)
      BY <2>1, <2>3
  <2>5. after[k] = Doubled(after[k - 1])
      BY <1>7, <2>2
  <2>6. Far(k)
      BY <1>2, <1>3, <2>3, <2>4, <2>5
  <2> QED BY <2>6
<1> DEFINE enough == {k \in 0 .. MaximumCapacity : after[k] >= required}
<1>9. MaximumCapacity \in enough
  <2>1. Far(MaximumCapacity)
      BY <1>2, <1>8
  <2> QED BY <1>2, <2>1
<1>10. PICK k \in enough : \A m \in enough : k <= m
  <2>1. enough \in SUBSET Nat
      OBVIOUS
  <2> HIDE DEF enough
  <2> QED BY <1>9, <2>1, LeastNumber
<1>11. ASSUME NEW j \in 0 .. k - 1 PROVE after[j] < required
  <2>1. j \in 0 .. MaximumCapacity /\ ~(k <= j)
      BY <1>2
  <2>2. Far(j) /\ j \notin enough
      BY <1>8, <1>10, <2>1
  <2> QED BY <1>2, <2>1, <2>2
<1>12. rounds \in 0 .. MaximumCapacity /\ after[rounds] >= required
    BY <1>10, <1>11, Zenon
<1> HIDE DEF rounds
<1>13. Far(rounds)
    BY <1>8, <1>12
<1> QED BY <1>1, <1>2, <1>12, <1>13

-----------------------------------------------------------------------------
(* The free list as a sequence.                                            *)

\* What arena_free pushes stands in front of the list.
LEMMA AheadFacts ==
    ASSUME NEW B, NEW order \in Seq(B), NEW list \in Seq(B)
    PROVE  /\ order \o list \in Seq(B)
           /\ Len(order \o list) = Len(order) + Len(list)
           /\ \A j \in 1 .. Len(order) : (order \o list)[j] = order[j]
           /\ \A j \in 1 .. Len(list) : (order \o list)[Len(order) + j] = list[j]
OBVIOUS

\* Unlinking block i moves the later ones one place forward.
LEMMA WithoutFacts ==
    ASSUME NEW B, NEW list \in Seq(B), NEW i \in 1 .. Len(list)
    PROVE  /\ Without(list, i) \in Seq(B)
           /\ Len(Without(list, i)) = Len(list) - 1
           /\ \A j \in 1 .. Len(list) - 1 :
                 Without(list, i)[j] = list[IF j < i THEN j ELSE j + 1]
<1> DEFINE before == SubSeq(list, 1, i - 1)
           behind == SubSeq(list, i + 1, Len(list))
<1>1. before \in Seq(B) /\ Len(before) = i - 1 /\ \A j \in 1 .. i - 1 : before[j] = list[j]
    OBVIOUS
<1>2. behind \in Seq(B) /\ Len(behind) = Len(list) - i
      /\ \A j \in 1 .. Len(list) - i : behind[j] = list[i + j]
    OBVIOUS
<1>3. Without(list, i) = before \o behind
    BY DEF Without
<1> HIDE DEF before, behind
<1>4. before \o behind \in Seq(B) /\ Len(before \o behind) = Len(list) - 1
  <2>1. before \o behind \in Seq(B) /\ Len(before \o behind) = Len(before) + Len(behind)
    <3>1. before \in Seq(B) /\ behind \in Seq(B)
        BY <1>1, <1>2
    <3> QED BY <3>1, AheadFacts, Zenon
  <2> QED BY <1>1, <1>2, <2>1
<1>5. ASSUME NEW j \in 1 .. Len(list) - 1
      PROVE  (before \o behind)[j] = list[IF j < i THEN j ELSE j + 1]
    BY <1>1, <1>2
<1> QED BY <1>3, <1>4, <1>5

\* An allocation starts less than an alignment past the used part.
LEMMA PaddingFacts ==
    ASSUME offset \in Nat, NEW a \in Nat \ {0}
    PROVE  AlignedOffset(a) \in offset .. offset + a - 1 /\ AlignedOffset(a) % a = 0
<1>1. offset % a \in 0 .. a - 1
    OBVIOUS
<1>2. AlignedOffset(a) \in offset .. offset + a - 1
    BY <1>1 DEF AlignedOffset, Padding
<1>3. AlignedOffset(a) % a = 0
  <2>1. offset = a * (offset \div a) + (offset % a) /\ offset \div a \in Nat
      OBVIOUS
  <2>2. PICK q \in Nat : q = (offset \div a) + 1
      BY <2>1
  <2>3. AlignedOffset(a) = a * (offset \div a) \/ AlignedOffset(a) = a * q
      BY <2>1, <2>2, <1>1 DEF AlignedOffset, Padding
  <2>4. \A n \in Nat : (a * n) % a = 0
      OBVIOUS
  <2> QED BY <2>1, <2>3, <2>4
<1> QED BY <1>2, <1>3

-----------------------------------------------------------------------------
(* Who has a block: a session, or the free list.                           *)

\* Every block the sessions `bl` and the free list `list` have.
Parts(bl, list) == (UNION {bl[s] : s \in Sessions}) \cup Range(list)

\* No block has two owners, and none is on the free list twice.
OneOwner(bl, list) ==
    /\ \A s, t \in Sessions : s # t => bl[s] \cap bl[t] = {}
    /\ \A i, j \in DOMAIN list : list[i] = list[j] => i = j
    /\ \A s \in Sessions : \A i \in DOMAIN list : list[i] \notin bl[s]

Holdings == [Sessions -> SUBSET Blocks]

\* A block is a session's or on the list.
LEMMA InParts ==
    ASSUME NEW bl, NEW list, NEW b
    PROVE  b \in Parts(bl, list) <=>
              (\E s \in Sessions : b \in bl[s]) \/ \E i \in DOMAIN list : b = list[i]
BY Zenon DEF Parts, Range

\* The holdings bl, but for the blocks X of session s.
Put(bl, s, X) == [bl EXCEPT ![s] = X]

\* What a session holds is replaced; the others keep theirs.
LEMMA HoldingsExcept ==
    ASSUME NEW bl \in Holdings, NEW s \in Sessions, NEW X \in SUBSET Blocks
    PROVE  /\ Put(bl, s, X) \in Holdings
           /\ Put(bl, s, X)[s] = X
           /\ \A t \in Sessions \ {s} : Put(bl, s, X)[t] = bl[t]
<1> DEFINE S == SUBSET Blocks
<1> HIDE DEF S
<1>1. bl \in [Sessions -> S] /\ X \in S
    BY DEF S, Holdings
<1>2. [bl EXCEPT ![s] = X] \in [Sessions -> S]
      /\ [bl EXCEPT ![s] = X][s] = X /\ \A t \in Sessions \ {s} : [bl EXCEPT ![s] = X][t] = bl[t]
    BY <1>1
<1> QED BY <1>2 DEF S, Holdings, Put

\* A session that has block m besides those of bl.
With(bl, s, m) == [bl EXCEPT ![s] = @ \cup {m}]

\* A block nobody has goes to a session.
LEMMA TakeNew ==
    ASSUME NEW bl \in Holdings, NEW list \in Seq(Blocks), NEW s \in Sessions, NEW m \in Blocks,
           OneOwner(bl, list), m \notin Parts(bl, list)
    PROVE  /\ With(bl, s, m) \in Holdings
           /\ OneOwner(With(bl, s, m), list)
           /\ Parts(With(bl, s, m), list) = Parts(bl, list) \cup {m}
           /\ m \notin bl[s]
<1> DEFINE new == With(bl, s, m)
<1>1. new \in Holdings /\ \A t \in Sessions : \A b : b \in new[t] <=> b \in bl[t] \/ (t = s /\ b = m)
  <2> DEFINE X == bl[s] \cup {m}
  <2>1. X \in SUBSET Blocks
      BY DEF Holdings
  <2>2. new = Put(bl, s, X)
      BY Zenon DEF With, Put
  <2> HIDE DEF new, X
  <2>3. new \in Holdings /\ new[s] = X /\ \A t \in Sessions \ {s} : new[t] = bl[t]
      BY <2>1, <2>2, HoldingsExcept
  <2> QED BY <2>3, Zenon DEF X
<1> HIDE DEF new
<1>2. (\A t \in Sessions : m \notin bl[t]) /\ \A i \in DOMAIN list : m # list[i]
    BY InParts, Zenon
<1>3. OneOwner(new, list)
    BY <1>1, <1>2 DEF OneOwner
<1>4. Parts(new, list) = Parts(bl, list) \cup {m}
  <2>1. ASSUME NEW b PROVE b \in Parts(new, list) <=> b \in Parts(bl, list) \/ b = m
    <3>1. (\E t \in Sessions : b \in new[t]) <=> (\E t \in Sessions : b \in bl[t]) \/ b = m
        BY <1>1
    <3>2. b \in Parts(new, list)
             <=> (\E t \in Sessions : b \in new[t]) \/ \E j \in DOMAIN list : b = list[j]
        BY InParts, ZenonT(30)
    <3>3. b \in Parts(bl, list)
             <=> (\E t \in Sessions : b \in bl[t]) \/ \E j \in DOMAIN list : b = list[j]
        BY InParts, Zenon
    <3> QED BY <3>1, <3>2, <3>3, Zenon
  <2> QED BY <2>1, Zenon
<1> QED BY <1>1, <1>2, <1>3, <1>4 DEF new

\* A block of the free list goes to a session.
LEMMA TakeFree ==
    ASSUME NEW bl \in Holdings, NEW list \in Seq(Blocks), NEW s \in Sessions,
           NEW i \in 1 .. Len(list), OneOwner(bl, list)
    PROVE  /\ With(bl, s, list[i]) \in Holdings
           /\ Without(list, i) \in Seq(Blocks)
           /\ OneOwner(With(bl, s, list[i]), Without(list, i))
           /\ Parts(With(bl, s, list[i]), Without(list, i)) = Parts(bl, list)
           /\ list[i] \notin bl[s]
<1> DEFINE m == list[i]
           rest == Without(list, i)
           new == With(bl, s, m)
<1>0. m \in Blocks
    OBVIOUS
<1>1. new \in Holdings /\ \A t \in Sessions : \A b : b \in new[t] <=> b \in bl[t] \/ (t = s /\ b = m)
  <2> DEFINE X == bl[s] \cup {m}
  <2>1. X \in SUBSET Blocks
      BY <1>0 DEF Holdings
  <2>2. new = Put(bl, s, X)
      BY Zenon DEF With, Put
  <2> HIDE DEF new, X
  <2>3. new \in Holdings /\ new[s] = X /\ \A t \in Sessions \ {s} : new[t] = bl[t]
      BY <2>1, <2>2, HoldingsExcept, ZenonT(30)
  <2> QED BY <2>3, Zenon DEF X
<1>2. /\ rest \in Seq(Blocks) /\ Len(rest) = Len(list) - 1
      /\ \A j \in 1 .. Len(list) - 1 : rest[j] = list[IF j < i THEN j ELSE j + 1]
    BY WithoutFacts, ZenonT(30)
<1> HIDE DEF new, rest
<1>3. \A j, k \in 1 .. Len(list) : list[j] = list[k] => j = k
    BY DEF OneOwner
<1>4. \A t \in Sessions : \A j \in 1 .. Len(list) : list[j] \notin bl[t]
    BY DEF OneOwner
<1>5. \A j \in 1 .. Len(list) - 1 : \E k \in 1 .. Len(list) : k # i /\ rest[j] = list[k]
  <2>1. TAKE j \in 1 .. Len(list) - 1
  <2>2. rest[j] = list[IF j < i THEN j ELSE j + 1]
      BY <1>2
  <2> WITNESS (IF j < i THEN j ELSE j + 1) \in 1 .. Len(list)
  <2> QED BY <2>2
<1>6. \A k \in 1 .. Len(list) : k # i => \E j \in 1 .. Len(list) - 1 : rest[j] = list[k]
  <2>1. SUFFICES ASSUME NEW k \in 1 .. Len(list), k # i
                 PROVE  \E j \in 1 .. Len(list) - 1 : rest[j] = list[k]
      BY Zenon
  <2>2. PICK j \in 1 .. Len(list) - 1 : j = IF k < i THEN k ELSE k - 1
      BY <2>1
  <2>3. rest[j] = list[k]
      BY <1>2, <2>1, <2>2
  <2> QED BY <2>3
<1>7. \A j, k \in 1 .. Len(list) - 1 : rest[j] = rest[k] => j = k
  <2>1. TAKE j, k \in 1 .. Len(list) - 1
  <2>2. PICK a \in 1 .. Len(list) : a = IF j < i THEN j ELSE j + 1
      OBVIOUS
  <2>3. PICK b \in 1 .. Len(list) : b = IF k < i THEN k ELSE k + 1
      OBVIOUS
  <2>4. rest[j] = list[a] /\ rest[k] = list[b]
      BY <1>2, <2>2, <2>3
  <2>5. a = b => j = k
      BY <2>2, <2>3
  <2>6. rest[j] = rest[k] => a = b
      BY <1>3, <2>4, Zenon
  <2> QED BY <2>5, <2>6
<1>8. \A j \in 1 .. Len(list) - 1 : rest[j] # m /\ \A t \in Sessions : rest[j] \notin bl[t]
    BY <1>3, <1>4, <1>5
<1>9. DOMAIN rest = 1 .. Len(list) - 1 /\ DOMAIN list = 1 .. Len(list)
    BY <1>2
<1>10. OneOwner(new, rest)
  <2>1. \A t, u \in Sessions : t # u => new[t] \cap new[u] = {}
      BY <1>1, <1>4 DEF OneOwner
  <2>2. \A t \in Sessions : \A j \in DOMAIN rest : rest[j] \notin new[t]
      BY <1>1, <1>8, <1>9
  <2> QED BY <1>7, <1>9, <2>1, <2>2, Zenon DEF OneOwner
<1>11. Parts(new, rest) = Parts(bl, list)
  <2>1. ASSUME NEW b PROVE b \in Parts(new, rest) <=> b \in Parts(bl, list)
    <3>1. (\E t \in Sessions : b \in new[t]) <=> (\E t \in Sessions : b \in bl[t]) \/ b = m
        BY <1>1
    <3>2. (\E j \in DOMAIN list : b = list[j]) <=> (\E j \in DOMAIN rest : b = rest[j]) \/ b = m
      <4>1. i \in DOMAIN list
          BY <1>9
      <4> QED BY <1>5, <1>6, <1>9, <4>1, Zenon
    <3>3. b \in Parts(new, rest)
             <=> (\E t \in Sessions : b \in new[t]) \/ \E j \in DOMAIN rest : b = rest[j]
        BY Zenon DEF Parts, Range
    <3>4. b \in Parts(bl, list)
             <=> (\E t \in Sessions : b \in bl[t]) \/ \E j \in DOMAIN list : b = list[j]
        BY Zenon DEF Parts, Range
    <3> QED BY <3>1, <3>2, <3>3, <3>4, Zenon
  <2> QED BY <2>1, Zenon
<1> QED BY <1>1, <1>2, <1>4, <1>10, <1>11 DEF new, rest

\* A session that no longer has the blocks of `gone`.
Less(bl, s, gone) == [bl EXCEPT ![s] = @ \ gone]

\* Blocks of a session go back to the free list.
LEMMA GiveBack ==
    ASSUME NEW bl \in Holdings, NEW list \in Seq(Blocks), NEW s \in Sessions,
           NEW order \in Seq(Blocks), OneOwner(bl, list), Range(order) \subseteq bl[s],
           \A i, j \in DOMAIN order : order[i] = order[j] => i = j
    PROVE  /\ Less(bl, s, Range(order)) \in Holdings
           /\ order \o list \in Seq(Blocks)
           /\ OneOwner(Less(bl, s, Range(order)), order \o list)
           /\ Parts(Less(bl, s, Range(order)), order \o list) = Parts(bl, list)
<1> DEFINE gone == Range(order)
           new == Less(bl, s, gone)
           long == order \o list
           n == Len(order)
<1>1. new \in Holdings /\ \A t \in Sessions : \A b : b \in new[t] <=> b \in bl[t] /\ ~(t = s /\ b \in gone)
  <2> DEFINE X == bl[s] \ gone
  <2>1. X \in SUBSET Blocks
      BY DEF Holdings
  <2>2. new = Put(bl, s, X)
      BY Zenon DEF Less, Put
  <2> HIDE DEF new, gone, X
  <2>3. new \in Holdings /\ new[s] = X /\ \A t \in Sessions \ {s} : new[t] = bl[t]
      BY <2>1, <2>2, HoldingsExcept
  <2> QED BY <2>3, Zenon DEF X
<1>2. /\ long \in Seq(Blocks) /\ Len(long) = n + Len(list)
      /\ \A j \in 1 .. n : long[j] = order[j]
      /\ \A j \in 1 .. Len(list) : long[n + j] = list[j]
    BY AheadFacts
<1>3. n \in Nat /\ DOMAIN order = 1 .. n /\ DOMAIN list = 1 .. Len(list)
      /\ DOMAIN long = 1 .. n + Len(list) /\ Len(list) \in Nat
    BY <1>2
<1>4. (\A j \in 1 .. n : order[j] \in gone) /\ \A b \in gone : \E j \in 1 .. n : order[j] = b
    BY <1>3, Zenon DEF Range
<1> HIDE DEF new, long, gone, n
<1>5. \A j \in 1 .. n + Len(list) :
         (j \in 1 .. n /\ long[j] = order[j])
         \/ (j - n \in 1 .. Len(list) /\ long[j] = list[j - n])
  <2>1. TAKE j \in 1 .. n + Len(list)
  <2>2. CASE j \in 1 .. n
      BY <1>2, <2>2
  <2>3. CASE j \notin 1 .. n
    <3>1. PICK k \in 1 .. Len(list) : j = n + k
      <4>1. j - n \in 1 .. Len(list) /\ j = n + (j - n)
          BY <1>3, <2>3
      <4> QED BY <4>1
    <3>2. j - n = k
        BY <1>3, <3>1
    <3> QED BY <1>2, <3>1, <3>2
  <2> QED BY <2>2, <2>3
<1>6. \A i, j \in 1 .. n : order[i] = order[j] => i = j
    BY <1>3
<1>7. \A i, j \in 1 .. Len(list) : list[i] = list[j] => i = j
    BY <1>3 DEF OneOwner
<1>8. \A i \in 1 .. n, j \in 1 .. Len(list) : order[i] # list[j]
  <2>1. gone \subseteq bl[s]
      BY DEF gone
  <2> QED BY <1>3, <1>4, <2>1 DEF OneOwner
<1>9. \A i, j \in 1 .. n + Len(list) : long[i] = long[j] => i = j
  <2>1. TAKE i, j \in 1 .. n + Len(list)
  <2> QED BY <1>3, <1>5, <1>6, <1>7, <1>8
<1>10. \A t \in Sessions : \A j \in 1 .. n + Len(list) : long[j] \notin new[t]
  <2>1. TAKE t \in Sessions
  <2>2. TAKE j \in 1 .. n + Len(list)
  <2>3. ASSUME NEW i \in 1 .. n PROVE order[i] \notin new[t]
    <3>1. order[i] \in bl[s] /\ order[i] \in gone
        BY <1>4 DEF gone
    <3> QED BY <1>1, <3>1 DEF OneOwner
  <2>4. ASSUME NEW i \in 1 .. Len(list) PROVE list[i] \notin new[t]
      BY <1>1, <1>3 DEF OneOwner
  <2> QED BY <1>5, <2>3, <2>4, Zenon
<1>11. \A t, u \in Sessions : t # u => new[t] \cap new[u] = {}
    BY <1>1 DEF OneOwner
<1>12. OneOwner(new, long)
    BY <1>3, <1>9, <1>10, <1>11, Zenon DEF OneOwner
<1>13. Parts(new, long) = Parts(bl, list)
  <2>1. ASSUME NEW b PROVE b \in Parts(new, long) <=> b \in Parts(bl, list)
    <3>1. (\E t \in Sessions : b \in bl[t]) <=> (\E t \in Sessions : b \in new[t]) \/ b \in gone
      <4>1. gone \subseteq bl[s]
          BY DEF gone
      <4> QED BY <1>1, <4>1
    <3>2. (\E j \in 1 .. n + Len(list) : b = long[j])
             <=> b \in gone \/ \E j \in 1 .. Len(list) : b = list[j]
      <4>1. \A j \in 1 .. n : j \in 1 .. n + Len(list)
          BY <1>3
      <4>2. \A j \in 1 .. Len(list) : n + j \in 1 .. n + Len(list)
          BY <1>3
      <4>3. ASSUME NEW j \in 1 .. n + Len(list), b = long[j]
            PROVE  b \in gone \/ \E k \in 1 .. Len(list) : b = list[k]
          BY <1>4, <1>5, <4>3, Zenon
      <4>4. ASSUME b \in gone PROVE \E j \in 1 .. n + Len(list) : b = long[j]
          BY <1>2, <1>4, <4>1, <4>4, Zenon
      <4>5. ASSUME NEW k \in 1 .. Len(list), b = list[k]
            PROVE  \E j \in 1 .. n + Len(list) : b = long[j]
          BY <1>2, <4>2, <4>5, Zenon
      <4> QED BY <4>3, <4>4, <4>5, Zenon
    <3>3. b \in Parts(new, long)
             <=> (\E t \in Sessions : b \in new[t])
                 \/ \E j \in 1 .. n + Len(list) : b = long[j]
        BY <1>3, Zenon DEF Parts, Range
    <3>4. b \in Parts(bl, list)
             <=> (\E t \in Sessions : b \in bl[t]) \/ \E j \in 1 .. Len(list) : b = list[j]
        BY <1>3, Zenon DEF Parts, Range
    <3> QED BY <3>1, <3>2, <3>3, <3>4, Zenon
  <2> QED BY <2>1, Zenon
<1> QED BY <1>1, <1>2, <1>12, <1>13 DEF new, long, gone

\* A session takes everything another one has.
LEMMA Handover ==
    ASSUME NEW bl \in Holdings, NEW list \in Seq(Blocks), NEW dst \in Sessions, NEW src \in Sessions,
           dst # src, OneOwner(bl, list), bl[dst] = {}
    PROVE  LET new == [bl EXCEPT ![dst] = bl[src], ![src] = {}]
           IN  /\ new \in Holdings
               /\ OneOwner(new, list)
               /\ Parts(new, list) = Parts(bl, list)
<1> DEFINE new == [bl EXCEPT ![dst] = bl[src], ![src] = {}]
<1>1. new \in Holdings /\ new[dst] = bl[src] /\ new[src] = {}
      /\ \A t \in Sessions \ {dst, src} : new[t] = bl[t]
  <2> DEFINE S == SUBSET Blocks
  <2>1. bl \in [Sessions -> S] /\ bl[src] \in S /\ {} \in S
      BY DEF S, Holdings
  <2> HIDE DEF S
  <2>2. new \in [Sessions -> S] /\ new[dst] = bl[src] /\ new[src] = {}
        /\ \A t \in Sessions \ {dst, src} : new[t] = bl[t]
      BY <2>1
  <2> QED BY <2>2 DEF S, Holdings
<1> HIDE DEF new
<1>2. OneOwner(new, list)
  <2>1. \A t \in Sessions : \E u \in Sessions : new[t] \subseteq bl[u]
      BY <1>1
  <2>2. \A t, u \in Sessions : t # u => new[t] \cap new[u] = {}
      BY <1>1 DEF OneOwner
  <2>3. \A t \in Sessions : \A i \in DOMAIN list : list[i] \notin new[t]
      BY <2>1 DEF OneOwner
  <2> QED BY <2>2, <2>3 DEF OneOwner
<1>3. Parts(new, list) = Parts(bl, list)
  <2>1. ASSUME NEW b PROVE b \in Parts(new, list) <=> b \in Parts(bl, list)
    <3>1. (\E t \in Sessions : b \in new[t]) <=> (\E t \in Sessions : b \in bl[t])
        BY <1>1
    <3> QED BY <3>1, Zenon DEF Parts
  <2> QED BY <2>1, Zenon
<1> QED BY <1>1, <1>2, <1>3 DEF new

-----------------------------------------------------------------------------
(* Where the blocks and the views lie.                                     *)

BlockEnd(b) == b.start + HeaderSize + b.capacity

ViewEnd(v) == v.start + v.size

\* The blocks of `all` and the views of `shown` lie below `used`, each apart from
\* every other.
Laid(all, shown, used) ==
    /\ \A b \in all : BlockEnd(b) <= used
    /\ \A v \in shown : v.size = 0 \/ ViewEnd(v) <= used
    /\ \A b, c \in all : b # c => BlockEnd(b) <= c.start \/ BlockEnd(c) <= b.start
    /\ \A b \in all, v \in shown :
          v.size = 0 \/ BlockEnd(b) <= v.start \/ ViewEnd(v) <= b.start
    /\ \A v, w \in shown :
          v # w => v.size = 0 \/ w.size = 0 \/ ViewEnd(v) <= w.start \/ ViewEnd(w) <= v.start

\* A byte skipped so that what starts at `start` is aligned.
Skipped(byte, start) ==
    \E alignment \in Alignments \cup {NativeAlignment} :
        start % alignment = 0 /\ byte < start /\ start < byte + alignment

\* Every byte below `used` is in a block, in a view, or skipped before one.
Tiled(all, shown, used) ==
    \A byte \in 0 .. used - 1 :
        \/ \E b \in all : (b.start <= byte /\ byte < BlockEnd(b)) \/ Skipped(byte, b.start)
        \/ \E v \in shown : (v.start <= byte /\ byte < ViewEnd(v)) \/ Skipped(byte, v.start)

\* A block ends behind its start: its header is never empty.
LEMMA BlockType ==
    ASSUME NEW b \in Blocks
    PROVE  /\ b.start \in Nat /\ BlockEnd(b) \in Nat /\ b.start < BlockEnd(b)
           /\ b.capacity \in Nat /\ HeaderSize \in Nat
<1>1. b.start \in 0 .. MaximumCapacity /\ b.capacity \in NativeSizes \cup {1}
    BY DEF Blocks
<1>2. b.start \in Nat /\ HeaderSize \in Nat /\ HeaderSize > 0
    BY <1>1, CapacityAssumption, NativeAssumption
<1>3. b.capacity \in Nat
  <2>1. NativeSizes \cup {1} \subseteq Nat
      BY NativeAssumption
  <2> QED BY <1>1, <2>1, Zenon
<1> QED BY <1>2, <1>3 DEF BlockEnd

\* A view ends where its size says.
LEMMA ViewType ==
    ASSUME NEW v \in Views
    PROVE  v.start \in Nat /\ v.size \in Nat /\ ViewEnd(v) = v.start + v.size /\ ViewEnd(v) \in Nat
<1>1. v.start \in 0 .. MaximumCapacity /\ v.size \in Sizes
    BY DEF Views
<1>2. v.start \in Nat
    BY <1>1, CapacityAssumption
<1>3. v.size \in Nat
    BY <1>1, BoundAssumption, Zenon
<1> QED BY <1>2, <1>3 DEF ViewEnd

\* A block placed past the used part is a new one, apart from all others.
LEMMA LayBlock ==
    ASSUME NEW all \in SUBSET Blocks, NEW shown \in SUBSET Views, NEW used \in Nat,
           NEW m \in Blocks, Laid(all, shown, used), used <= m.start
    PROVE  m \notin all /\ Laid(all \cup {m}, shown, BlockEnd(m))
<1>1. \A b \in all \cup {m} : b.start \in Nat /\ BlockEnd(b) \in Nat /\ b.start < BlockEnd(b)
    BY BlockType
<1>2. \A v \in shown : v.start \in Nat /\ v.size \in Nat /\ ViewEnd(v) \in Nat
    BY ViewType
<1>3. m \notin all
    BY <1>1 DEF Laid
<1>4. \A b \in all : BlockEnd(b) <= m.start
    BY <1>1 DEF Laid
<1>5. \A v \in shown : v.size = 0 \/ ViewEnd(v) <= m.start
    BY <1>1, <1>2 DEF Laid
<1>6. \A b \in all \cup {m} : BlockEnd(b) <= BlockEnd(m)
    BY <1>1, <1>4
<1>7. \A v \in shown : v.size = 0 \/ ViewEnd(v) <= BlockEnd(m)
    BY <1>1, <1>2, <1>5
<1>8. \A b, c \in all \cup {m} : b # c => BlockEnd(b) <= c.start \/ BlockEnd(c) <= b.start
    BY <1>4 DEF Laid
<1>9. \A b \in all \cup {m}, v \in shown :
         v.size = 0 \/ BlockEnd(b) <= v.start \/ ViewEnd(v) <= b.start
    BY <1>5 DEF Laid
<1>10. \A v, w \in shown :
          v # w => v.size = 0 \/ w.size = 0 \/ ViewEnd(v) <= w.start \/ ViewEnd(w) <= v.start
    BY DEF Laid
<1> QED BY <1>3, <1>6, <1>7, <1>8, <1>9, <1>10, Zenon DEF Laid

\* The same of a view.
LEMMA LayView ==
    ASSUME NEW all \in SUBSET Blocks, NEW shown \in SUBSET Views, NEW used \in Nat,
           NEW m \in Views, Laid(all, shown, used), used <= m.start
    PROVE  Laid(all, shown \cup {m}, ViewEnd(m))
<1>1. \A b \in all : b.start \in Nat /\ BlockEnd(b) \in Nat
    BY BlockType
<1>2. \A v \in shown \cup {m} :
         v.start \in Nat /\ v.size \in Nat /\ ViewEnd(v) \in Nat /\ v.start <= ViewEnd(v)
    BY ViewType
<1>4. \A b \in all : BlockEnd(b) <= m.start
    BY <1>1, <1>2 DEF Laid
<1>5. \A v \in shown : v.size = 0 \/ ViewEnd(v) <= m.start
    BY <1>2 DEF Laid
<1>6. \A b \in all : BlockEnd(b) <= ViewEnd(m)
    BY <1>1, <1>2, <1>4
<1>7. \A v \in shown \cup {m} : v.size = 0 \/ ViewEnd(v) <= ViewEnd(m)
    BY <1>2, <1>5
<1>8. \A b, c \in all : b # c => BlockEnd(b) <= c.start \/ BlockEnd(c) <= b.start
    BY DEF Laid
<1>9. \A b \in all, v \in shown \cup {m} :
         v.size = 0 \/ BlockEnd(b) <= v.start \/ ViewEnd(v) <= b.start
    BY <1>4 DEF Laid
<1>10. \A v, w \in shown \cup {m} :
          v # w => v.size = 0 \/ w.size = 0 \/ ViewEnd(v) <= w.start \/ ViewEnd(w) <= v.start
    BY <1>5 DEF Laid
<1> QED BY <1>6, <1>7, <1>8, <1>9, <1>10, Zenon DEF Laid

\* An empty view takes no room.
LEMMA LayEmpty ==
    ASSUME NEW all, NEW shown, NEW used, NEW m, Laid(all, shown, used), m.size = 0
    PROVE  Laid(all, shown \cup {m}, used)
BY DEF Laid

\* The bytes up to the end of a block placed at an aligned offset.
LEMMA TileBlock ==
    ASSUME NEW all \in SUBSET Blocks, NEW shown \in SUBSET Views, NEW used \in Nat,
           NEW m \in Blocks, Tiled(all, shown, used),
           NEW a \in Alignments \cup {NativeAlignment}, a \in Nat,
           m.start % a = 0, m.start < used + a
    PROVE  Tiled(all \cup {m}, shown, BlockEnd(m))
<1> SUFFICES ASSUME NEW byte \in 0 .. BlockEnd(m) - 1
             PROVE  \/ \E b \in all \cup {m} :
                          (b.start <= byte /\ byte < BlockEnd(b)) \/ Skipped(byte, b.start)
                    \/ \E v \in shown :
                          (v.start <= byte /\ byte < ViewEnd(v)) \/ Skipped(byte, v.start)
    BY Zenon DEF Tiled
<1>1. m.start \in Nat /\ BlockEnd(m) \in Nat
    BY BlockType
<1>2. CASE byte \in 0 .. used - 1
    BY <1>2, Zenon DEF Tiled
<1>3. CASE byte >= used /\ byte < m.start
  <2>1. m.start < byte + a
      BY <1>1, <1>3
  <2>2. Skipped(byte, m.start)
      BY <1>3, <2>1, Zenon DEF Skipped
  <2> QED BY <2>2, Zenon
<1>4. CASE m.start <= byte
  <2>1. byte < BlockEnd(m)
      BY <1>1
  <2> QED BY <1>4, <2>1, Zenon
<1> QED BY <1>1, <1>2, <1>3, <1>4

\* The same of a view, and of a view that takes no room.
LEMMA TileView ==
    ASSUME NEW all \in SUBSET Blocks, NEW shown \in SUBSET Views, NEW used \in Nat,
           NEW m \in Views, Tiled(all, shown, used),
           NEW a \in Alignments \cup {NativeAlignment}, a \in Nat,
           m.start % a = 0, m.start < used + a
    PROVE  Tiled(all, shown \cup {m}, ViewEnd(m))
<1> SUFFICES ASSUME NEW byte \in 0 .. ViewEnd(m) - 1
             PROVE  \/ \E b \in all :
                          (b.start <= byte /\ byte < BlockEnd(b)) \/ Skipped(byte, b.start)
                    \/ \E v \in shown \cup {m} :
                          (v.start <= byte /\ byte < ViewEnd(v)) \/ Skipped(byte, v.start)
    BY Zenon DEF Tiled
<1>1. m.start \in Nat /\ ViewEnd(m) \in Nat
    BY ViewType
<1>2. CASE byte \in 0 .. used - 1
    BY <1>2, Zenon DEF Tiled
<1>3. CASE byte >= used /\ byte < m.start
  <2>1. m.start < byte + a
      BY <1>1, <1>3
  <2>2. Skipped(byte, m.start)
      BY <1>3, <2>1, Zenon DEF Skipped
  <2> QED BY <2>2, Zenon
<1>4. CASE m.start <= byte
  <2>1. byte < ViewEnd(m)
      BY <1>1
  <2> QED BY <1>4, <2>1, Zenon
<1> QED BY <1>1, <1>2, <1>3, <1>4

\* One more view covers no less.
LEMMA TileEmpty ==
    ASSUME NEW all, NEW shown, NEW used, NEW m, Tiled(all, shown, used)
    PROVE  Tiled(all, shown \cup {m}, used)
BY Zenon DEF Tiled

-----------------------------------------------------------------------------
(* The inductive invariant.                                                *)

Shown == {v \in views : Readable(v)}

\* Blocks and free list are in order, as of the arena's generation.
Sound(bl, list, shown, used, gen) ==
    /\ bl \in Holdings
    /\ list \in Seq(Blocks)
    /\ OneOwner(bl, list)
    /\ \A b \in Parts(bl, list) : b.gen = gen
    /\ Laid(Parts(bl, list), shown, used)
    /\ Tiled(Parts(bl, list), shown, used)

MemorySound == Sound(blocks, SyncFreeList, Shown, offset, generation)

\* Sound memory has the types of holdings and of a list of blocks.
LEMMA SoundTypes ==
    ASSUME NEW bl, NEW list, NEW shown, NEW used, NEW gen, Sound(bl, list, shown, used, gen)
    PROVE  bl \in Holdings /\ list \in Seq(Blocks)
BY Zenon DEF Sound

\* The live pins are counted; a generation that was not reached marks nothing.
ArenaInv ==
    /\ IsFiniteSet(holders)
    /\ holders \subseteq Holders
    /\ pins = Cardinality(holders)
    /\ generation \in 1 .. MaxGeneration
    /\ offset \in 0 .. MaximumCapacity
    /\ views \subseteq Views
    /\ \A v \in views : v.gen <= generation
    /\ poolGeneration \in 1 .. generation
    /\ freeList \in Seq(Blocks)

\* A session has a pin while it is active, and blocks only then.
SessionInv ==
    /\ sessionGeneration \in [Sessions -> {0, generation}]
    /\ \A s \in Sessions :
          /\ Active(s) <=> s \in holders
          /\ ~Active(s) => blocks[s] = {}
          /\ IsFiniteSet(blocks[s])

NativeInv == ArenaInv /\ SessionInv /\ MemorySound

\* Everything held or free is a block.
LEMMA PartsAreBlocks ==
    ASSUME NEW bl \in Holdings, NEW list \in Seq(Blocks)
    PROVE  Parts(bl, list) \in SUBSET Blocks
<1>1. ASSUME NEW s \in Sessions PROVE bl[s] \subseteq Blocks
    BY DEF Holdings
<1>2. Range(list) \subseteq Blocks
    BY DEF Range
<1> QED BY <1>1, <1>2, Zenon DEF Parts

\* Synchronized or not, the free list is a list of blocks.
LEMMA SyncIsSeq ==
    ASSUME freeList \in Seq(Blocks)
    PROVE  SyncFreeList \in Seq(Blocks)
BY DEF SyncFreeList

\* The first block of the free list that is large enough is on the list.
LEMMA FirstFitIn ==
    ASSUME freeList \in Seq(Blocks), NEW size, Fits(size) # {}
    PROVE  FirstFit(size) \in 1 .. Len(SyncFreeList)
<1>1. SyncFreeList \in Seq(Blocks)
    BY SyncIsSeq
<1>2. Fits(size) \in SUBSET (1 .. Len(SyncFreeList))
    BY <1>1 DEF Fits
<1>3. Fits(size) \in SUBSET Nat
    BY <1>2
<1>4. \E i \in Fits(size) : \A j \in Fits(size) : i <= j
    BY <1>3, LeastNumber, ZenonT(30)
<1>5. FirstFit(size) \in Fits(size)
    BY <1>4, Zenon DEF FirstFit
<1> QED BY <1>2, <1>5

\* What arena_malloc does, the block in the hands of session s.
LEMMA MallocKeeps ==
    ASSUME ArenaInv, MemorySound, NEW s \in Sessions, NEW size \in NativeSizes, Malloc(size)
    PROVE  /\ Sound(With(blocks, s, Malloced(size)), Unlinked(size), Shown, offset', generation)
           /\ Malloced(size) \in Blocks /\ Malloced(size).gen = generation
           /\ Malloced(size) \notin blocks[s]
           /\ generation' = generation /\ poolGeneration' = generation
           /\ offset' \in offset .. MaximumCapacity
<1> DEFINE list == SyncFreeList
           m == Malloced(size)
<1>1. /\ blocks \in Holdings /\ list \in Seq(Blocks) /\ OneOwner(blocks, list)
      /\ \A b \in Parts(blocks, list) : b.gen = generation
      /\ Laid(Parts(blocks, list), Shown, offset) /\ Tiled(Parts(blocks, list), Shown, offset)
    BY Zenon DEF MemorySound, Sound
<1>2. poolGeneration' = generation
    BY DEF Malloc, Synchronize
<1>3. CASE Fits(size) # {}
  <2> DEFINE i == FirstFit(size)
  <2>1. i \in 1 .. Len(list)
      BY <1>3, FirstFitIn DEF ArenaInv
  <2>2. m = list[i] /\ Unlinked(size) = Without(list, i)
      BY <1>3, Zenon DEF Malloced, Unlinked
  <2>3. generation' = generation /\ offset' = offset
      BY <1>3 DEF Malloc, arenaVars
  <2>4. offset' \in offset .. MaximumCapacity
      BY <2>3 DEF ArenaInv
  <2> HIDE DEF i, list, m
  <2>5. /\ With(blocks, s, m) \in Holdings /\ Unlinked(size) \in Seq(Blocks)
        /\ OneOwner(With(blocks, s, m), Unlinked(size)) /\ m \notin blocks[s]
        /\ Parts(With(blocks, s, m), Unlinked(size)) = Parts(blocks, list)
    <3>1. OneOwner(blocks, list) /\ blocks \in Holdings /\ list \in Seq(Blocks)
        BY <1>1
    <3> QED BY <2>1, <2>2, <3>1, TakeFree
  <2>6. m \in Blocks /\ m \in Parts(blocks, list)
    <3>1. m \in Range(list)
        BY <1>1, <2>1, <2>2 DEF Range
    <3>2. m \in Blocks
        BY <1>1, <2>1, <2>2
    <3> QED BY <3>1, <3>2, Zenon DEF Parts
  <2>7. Sound(With(blocks, s, m), Unlinked(size), Shown, offset', generation)
      BY <1>1, <2>3, <2>5, Zenon DEF Sound
  <2> QED BY <1>1, <1>2, <2>3, <2>4, <2>5, <2>6, <2>7, Zenon DEF m
<1>4. CASE Fits(size) = {}
  <2> DEFINE a == NativeAlignment
             at == AlignedOffset(a)
             n == HeaderSize + BlockSize(size)
  <2>1. m = [gen |-> generation, start |-> at, capacity |-> BlockSize(size)]
        /\ Unlinked(size) = list
      BY <1>4, Zenon DEF Malloced, Unlinked
  <2>2. Allocate(n, a)
      BY <1>4, Zenon DEF Malloc
  <2>3. generation' = generation /\ offset' = at + n /\ at + n <= MaximumCapacity
      BY <2>2, Zenon DEF Allocate
  <2>4. offset \in Nat /\ a \in Nat \ {0} /\ HeaderSize \in Nat \ {0} /\ MaximumCapacity \in Nat
      BY NativeAssumption, CapacityAssumption DEF ArenaInv
  <2>5. at \in offset .. offset + a - 1 /\ at % a = 0
      BY <2>4, PaddingFacts
  <2>6. BlockSize(size) \in NativeSizes \cup {1} /\ BlockSize(size) \in Nat
      BY NativeAssumption DEF BlockSize
  <2> HIDE DEF at, list
  <2>7. at \in 0 .. MaximumCapacity /\ offset' \in offset .. MaximumCapacity
      BY <2>3, <2>4, <2>5, <2>6
  <2>8. m \in Blocks
      BY <2>1, <2>6, <2>7 DEF Blocks, ArenaInv
  <2>9. m.gen = generation /\ m.start = at /\ BlockEnd(m) = offset'
      BY <2>1, <2>3, <2>4, <2>5, <2>6 DEF BlockEnd
  <2> HIDE DEF m, a
  <2>10. Parts(blocks, list) \in SUBSET Blocks /\ Shown \in SUBSET Views
    <3>1. Shown \subseteq views
        BY DEF Shown
    <3> QED BY <1>1, <3>1, PartsAreBlocks DEF ArenaInv
  <2> DEFINE all == Parts(blocks, list)
  <2> HIDE DEF all
  <2>11. m \notin all /\ Laid(all \cup {m}, Shown, offset')
    <3>1. Laid(all, Shown, offset) /\ offset <= m.start /\ all \in SUBSET Blocks
        BY <1>1, <2>4, <2>5, <2>9, <2>10 DEF all
    <3>2. m \notin all /\ Laid(all \cup {m}, Shown, BlockEnd(m))
        BY <2>4, <2>8, <2>10, <3>1, LayBlock
    <3> QED BY <2>9, <3>2
  <2>12. Tiled(all \cup {m}, Shown, offset')
    <3>1. Tiled(all, Shown, offset) /\ all \in SUBSET Blocks
        BY <1>1, <2>10 DEF all
    <3>2. m.start % a = 0 /\ m.start < offset + a
        BY <2>4, <2>5, <2>9
    <3>3. a \in Alignments \cup {NativeAlignment} /\ a \in Nat
        BY <2>4 DEF a
    <3>4. Tiled(all \cup {m}, Shown, BlockEnd(m))
        BY <2>4, <2>8, <2>10, <3>1, <3>2, <3>3, TileBlock
    <3> QED BY <2>9, <3>4
  <2>13. /\ With(blocks, s, m) \in Holdings
         /\ OneOwner(With(blocks, s, m), list) /\ m \notin blocks[s]
         /\ Parts(With(blocks, s, m), list) = all \cup {m}
    <3>1. blocks \in Holdings /\ list \in Seq(Blocks) /\ OneOwner(blocks, list)
        BY <1>1
    <3> QED BY <2>8, <2>11, <3>1, TakeNew DEF all
  <2>14. \A b \in all \cup {m} : b.gen = generation
      BY <1>1, <2>9 DEF all
  <2>15. Sound(With(blocks, s, m), list, Shown, offset', generation)
      BY <1>1, <2>11, <2>12, <2>13, <2>14, Zenon DEF Sound
  <2> QED BY <1>2, <2>1, <2>3, <2>7, <2>8, <2>9, <2>13, <2>15, Zenon DEF m
<1> QED BY <1>3, <1>4

-----------------------------------------------------------------------------
(* The steps of the sessions.                                              *)

\* A session frees some of its blocks, in any order.
LEMMA SoundGiveBack ==
    ASSUME NEW bl, NEW list, NEW shown, NEW used, NEW gen, Sound(bl, list, shown, used, gen),
           NEW s \in Sessions, NEW order \in Seq(Blocks), Range(order) \subseteq bl[s],
           \A i, j \in DOMAIN order : order[i] = order[j] => i = j
    PROVE  Sound(Less(bl, s, Range(order)), order \o list, shown, used, gen)
<1>1. bl \in Holdings /\ list \in Seq(Blocks) /\ OneOwner(bl, list)
    BY DEF Sound
<1>2. /\ Less(bl, s, Range(order)) \in Holdings
      /\ order \o list \in Seq(Blocks)
      /\ OneOwner(Less(bl, s, Range(order)), order \o list)
      /\ Parts(Less(bl, s, Range(order)), order \o list) = Parts(bl, list)
    BY <1>1, GiveBack
<1> QED BY <1>2, Zenon DEF Sound

\* One block.
LEMMA SoundGiveOne ==
    ASSUME NEW bl, NEW list, NEW shown, NEW used, NEW gen, Sound(bl, list, shown, used, gen),
           NEW s \in Sessions, NEW b \in bl[s]
    PROVE  Sound(Less(bl, s, {b}), <<b>> \o list, shown, used, gen)
<1>1. b \in Blocks
    BY DEF Sound, Holdings
<1> DEFINE order == <<b>>
<1>2. order \in Seq(Blocks) /\ DOMAIN order = {1} /\ order[1] = b
    BY <1>1
<1> HIDE DEF order
<1>3. Range(order) = {b}
    BY <1>2, Zenon DEF Range
<1>4. Range(order) \subseteq bl[s] /\ \A i, j \in DOMAIN order : order[i] = order[j] => i = j
    BY <1>2, <1>3, ZenonT(30)
<1>5. Sound(Less(bl, s, Range(order)), order \o list, shown, used, gen)
    BY <1>2, <1>4, SoundGiveBack
<1> QED BY <1>3, <1>5, Zenon DEF order

\* Any order of freeing names every block of the session once.
LEMMA OrderFacts ==
    ASSUME blocks \in Holdings, NEW s \in Sessions, IsFiniteSet(blocks[s]), NEW order \in FreeOrders(s)
    PROVE  /\ order \in Seq(Blocks)
           /\ Range(order) = blocks[s]
           /\ \A i, j \in DOMAIN order : order[i] = order[j] => i = j
<1> DEFINE n == Cardinality(blocks[s])
<1>1. n \in Nat
    BY FS_CardinalityType
<1>2. /\ order \in [1 .. n -> blocks[s]]
      /\ \A i, j \in 1 .. n : order[i] = order[j] => i = j
      /\ \A b \in blocks[s] : \E i \in 1 .. n : order[i] = b
    BY Zenon DEF FreeOrders, Bijection, Injection, Surjection, IsInjective
<1> HIDE DEF n
<1>3. DOMAIN order = 1 .. n
    BY <1>2, Zenon
<1>4. Range(order) = blocks[s]
  <2>1. Range(order) \subseteq blocks[s]
    <3>1. \A i \in 1 .. n : order[i] \in blocks[s]
        BY <1>2
    <3> QED BY <1>3, <3>1, Zenon DEF Range
  <2>2. blocks[s] \subseteq Range(order)
      BY <1>2, <1>3, Zenon DEF Range
  <2> QED BY <2>1, <2>2, Zenon
<1>5. order \in Seq(Blocks)
  <2>1. blocks[s] \subseteq Blocks
      BY DEF Holdings
  <2>2. order \in [1 .. n -> Blocks]
      BY <1>2, <2>1, Zenon
  <2> QED BY <1>1, <2>2
<1> QED BY <1>2, <1>3, <1>4, <1>5, Zenon

\* What a step within a generation leaves of the arena.
LEMMA SameGeneration ==
    ASSUME ArenaInv, generation' = generation, views' = views, offset' \in offset .. MaximumCapacity,
           poolGeneration' \in {poolGeneration, generation}, (freeList \in Seq(Blocks))',
           (IsFiniteSet(holders))', (holders \subseteq Holders)', (pins = Cardinality(holders))'
    PROVE  ArenaInv' /\ Shown' = Shown
<1>1. Shown' = Shown
    BY DEF Shown, Readable
<1>2. offset' \in 0 .. MaximumCapacity /\ poolGeneration' \in 1 .. generation
    BY DEF ArenaInv
<1> QED BY <1>1, <1>2 DEF ArenaInv

\* The bump pointer may stay where it is.
LEMMA OffsetStays ==
    ASSUME ArenaInv
    PROVE  offset \in offset .. MaximumCapacity
BY CapacityAssumption DEF ArenaInv

\* A session that gives up its pin.
LEMMA Unpinned ==
    ASSUME NEW S, NEW g, NEW f \in [S -> {0, g}], NEW s \in S
    PROVE  LET h == [f EXCEPT ![s] = 0]
           IN  h \in [S -> {0, g}] /\ h[s] = 0 /\ \A t \in S \ {s} : h[t] = f[t]
OBVIOUS

\* What the sessions hold is a function of the session.
LEMMA HoldingsFunction ==
    ASSUME NEW bl \in Holdings
    PROVE  bl = [t \in Sessions |-> bl[t]]
BY DEF Holdings

\* A session that holds one block more, and one that holds none of some blocks.
LEMMA WithAt ==
    ASSUME NEW bl \in Holdings, NEW s \in Sessions, NEW m
    PROVE  /\ With(bl, s, m)[s] = bl[s] \cup {m}
           /\ \A t \in Sessions \ {s} : With(bl, s, m)[t] = bl[t]
BY DEF With, Holdings

\* Giving back changes the holdings of that session only.
LEMMA LessAt ==
    ASSUME NEW bl \in Holdings, NEW s \in Sessions, NEW gone
    PROVE  /\ Less(bl, s, gone)[s] = bl[s] \ gone
           /\ \A t \in Sessions \ {s} : Less(bl, s, gone)[t] = bl[t]
BY DEF Less, Holdings

\* Holdings that agree on every session are the same.
LEMMA SameHoldings ==
    ASSUME NEW bl \in Holdings, NEW bm \in Holdings, \A t \in Sessions : bl[t] = bm[t]
    PROVE  bl = bm
BY HoldingsFunction, Zenon

\* Only the sessions of `changed` differ.
LEMMA OtherSessionsStay ==
    ASSUME SessionInv, (sessionGeneration \in [Sessions -> {0, generation}])', NEW changed,
           \A t \in Sessions \ changed :
                 /\ sessionGeneration'[t] = sessionGeneration[t]
                 /\ blocks'[t] = blocks[t]
                 /\ t \in holders' <=> t \in holders,
           \A t \in Sessions \cap changed :
                 /\ sessionGeneration'[t] # 0 <=> t \in holders'
                 /\ sessionGeneration'[t] = 0 => blocks'[t] = {}
                 /\ IsFiniteSet(blocks'[t])
    PROVE  SessionInv'
<1>1. ASSUME NEW t \in Sessions
      PROVE  /\ sessionGeneration'[t] # 0 <=> t \in holders'
             /\ sessionGeneration'[t] = 0 => blocks'[t] = {}
             /\ IsFiniteSet(blocks'[t])
  <2>1. CASE t \in changed
      BY <2>1
  <2>2. CASE t \notin changed
      BY <2>2 DEF SessionInv, Active
  <2> QED BY <2>1, <2>2
<1> QED BY <1>1 DEF SessionInv, Active

\* A session is created: pin, state, generation.
LEMMA CreateKeeps ==
    ASSUME NativeInv, NEW s \in Sessions, NEW size \in NativeSizes, Create(s, size)
    PROVE  NativeInv'
<1> DEFINE m == Malloced(size)
<1>1. /\ ~Active(s) /\ Malloc(size) /\ pins' = pins + 1 /\ holders' = holders \cup {s}
      /\ sessionGeneration' = [sessionGeneration EXCEPT ![s] = generation]
      /\ blocks' = [blocks EXCEPT ![s] = {m}] /\ freeList' = Unlinked(size) /\ views' = views
    BY DEF Create
<1>2. ArenaInv /\ SessionInv /\ MemorySound
    BY DEF NativeInv
<1>3. blocks \in Holdings /\ blocks[s] = {} /\ s \notin holders /\ s \in Holders
    BY <1>1, <1>2, NativeAssumption DEF MemorySound, Sound, SessionInv
<1>4. /\ Sound(With(blocks, s, m), Unlinked(size), Shown, offset', generation)
      /\ generation' = generation /\ poolGeneration' = generation
      /\ offset' \in offset .. MaximumCapacity
    BY <1>1, <1>2, MallocKeeps
<1> HIDE DEF m
<1>5. blocks' = With(blocks, s, m)
    BY <1>1, <1>3 DEF With
<1>6. (freeList \in Seq(Blocks))' /\ SyncFreeList' = Unlinked(size)
    BY <1>1, <1>4, SoundTypes DEF SyncFreeList
<1>7. IsFiniteSet(holders') /\ Cardinality(holders') = pins' /\ holders' \subseteq Holders
  <2>1. IsFiniteSet(holders) /\ pins = Cardinality(holders) /\ holders \subseteq Holders
      BY <1>2 DEF ArenaInv
  <2>2. IsFiniteSet(holders \cup {s}) /\ Cardinality(holders \cup {s}) = Cardinality(holders) + 1
      BY <1>3, <2>1, FS_AddElement
  <2> QED BY <1>1, <1>3, <2>1, <2>2
<1>8. ArenaInv' /\ Shown' = Shown
    BY <1>1, <1>2, <1>4, <1>6, <1>7, SameGeneration
<1>9. MemorySound'
    BY <1>4, <1>5, <1>6, <1>8 DEF MemorySound
<1>10. SessionInv'
  <2>1. sessionGeneration \in [Sessions -> {0, generation}] /\ generation # 0
      BY <1>2 DEF SessionInv, ArenaInv
  <2>2. /\ sessionGeneration' \in [Sessions -> {0, generation'}]
        /\ sessionGeneration'[s] = generation
        /\ \A t \in Sessions \ {s} : sessionGeneration'[t] = sessionGeneration[t]
      BY <1>1, <1>4, <2>1
  <2>3. blocks'[s] = {m} /\ \A t \in Sessions \ {s} : blocks'[t] = blocks[t]
      BY <1>3, <1>5, WithAt
  <2>4. IsFiniteSet({m})
      BY FS_Singleton, Zenon
  <2> QED BY <1>1, <1>2, <2>1, <2>2, <2>3, <2>4, ZenonT(30) DEF SessionInv, Active
<1> QED BY <1>8, <1>9, <1>10 DEF NativeInv

\* The native constructor fails: the state goes back, the pin is dropped.
LEMMA CreateFailsKeeps ==
    ASSUME NativeInv, NEW s \in Sessions, NEW size \in NativeSizes, CreateFails(s, size)
    PROVE  NativeInv'
<1> DEFINE m == Malloced(size)
<1>1. /\ Malloc(size) /\ freeList' = <<m>> \o Unlinked(size)
      /\ pins' = pins /\ holders' = holders /\ views' = views
      /\ sessionGeneration' = sessionGeneration /\ blocks' = blocks
    BY DEF CreateFails, pinVars, sessionVars
<1>2. ArenaInv /\ SessionInv /\ MemorySound
    BY DEF NativeInv
<1>3. blocks \in Holdings
    BY <1>2 DEF MemorySound, Sound
<1>4. /\ Sound(With(blocks, s, m), Unlinked(size), Shown, offset', generation)
      /\ m \notin blocks[s]
      /\ generation' = generation /\ poolGeneration' = generation
      /\ offset' \in offset .. MaximumCapacity
    BY <1>1, <1>2, MallocKeeps
<1> HIDE DEF m
<1> DEFINE mid == With(blocks, s, m)
<1>5. /\ mid \in Holdings /\ mid[s] = blocks[s] \cup {m}
      /\ \A t \in Sessions \ {s} : mid[t] = blocks[t]
  <2>1. mid \in Holdings
      BY <1>4, SoundTypes, ZenonT(30)
  <2> QED BY <1>3, <2>1, WithAt
<1> HIDE DEF mid
<1>6. Sound(Less(mid, s, {m}), <<m>> \o Unlinked(size), Shown, offset', generation)
  <2>1. m \in mid[s]
      BY <1>5
  <2>2. Sound(mid, Unlinked(size), Shown, offset', generation)
      BY <1>4 DEF mid
  <2> QED BY <2>1, <2>2, SoundGiveOne
<1>7. Less(mid, s, {m}) = blocks
  <2>1. Less(mid, s, {m}) \in Holdings
      BY <1>6, SoundTypes, Zenon
  <2>2. Less(mid, s, {m})[s] = mid[s] \ {m} /\ \A t \in Sessions \ {s} : Less(mid, s, {m})[t] = mid[t]
      BY <1>5, LessAt
  <2>3. mid[s] \ {m} = blocks[s]
      BY <1>4, <1>5
  <2>4. \A t \in Sessions : Less(mid, s, {m})[t] = blocks[t]
      BY <1>5, <2>2, <2>3, ZenonT(30)
  <2> QED BY <1>3, <2>1, <2>4, SameHoldings
<1>8. (freeList \in Seq(Blocks))' /\ SyncFreeList' = freeList'
    BY <1>1, <1>4, <1>6, SoundTypes, ZenonT(30) DEF SyncFreeList
<1>9. ArenaInv' /\ Shown' = Shown
  <2>1. (IsFiniteSet(holders))' /\ (holders \subseteq Holders)' /\ (pins = Cardinality(holders))'
      BY <1>1, <1>2 DEF ArenaInv
  <2> QED BY <1>1, <1>2, <1>4, <1>8, <2>1, SameGeneration, ZenonT(30)
<1>10. MemorySound'
    BY <1>1, <1>4, <1>6, <1>7, <1>8, <1>9, Zenon DEF MemorySound
<1>11. SessionInv'
    BY <1>1, <1>2, <1>4, ZenonT(30) DEF SessionInv, Active
<1> QED BY <1>9, <1>10, <1>11 DEF NativeInv

\* The state could not be allocated.
LEMMA CreateExhaustedKeeps ==
    ASSUME NativeInv, CreateExhausted
    PROVE  NativeInv'
<1>1. /\ poolGeneration' = generation /\ freeList' = SyncFreeList
      /\ generation' = generation /\ offset' = offset /\ views' = views
      /\ pins' = pins /\ holders' = holders
      /\ sessionGeneration' = sessionGeneration /\ blocks' = blocks
    BY DEF CreateExhausted, Synchronize, vars, arenaVars, pinVars, sessionVars
<1>2. ArenaInv /\ SessionInv /\ MemorySound
    BY DEF NativeInv
<1>3. (freeList \in Seq(Blocks))' /\ SyncFreeList' = SyncFreeList
    BY <1>1, <1>2, SyncIsSeq DEF ArenaInv, SyncFreeList
<1>4. ArenaInv' /\ Shown' = Shown
  <2>1. offset' \in offset .. MaximumCapacity
      BY <1>1, <1>2, OffsetStays, ZenonT(30)
  <2>2. (IsFiniteSet(holders))' /\ (holders \subseteq Holders)' /\ (pins = Cardinality(holders))'
      BY <1>1, <1>2 DEF ArenaInv
  <2> QED BY <1>1, <1>2, <1>3, <2>1, <2>2, SameGeneration
<1>5. MemorySound'
    BY <1>1, <1>2, <1>3, <1>4, Zenon DEF MemorySound
<1>6. SessionInv'
    BY <1>1, <1>2 DEF SessionInv, Active
<1> QED BY <1>4, <1>5, <1>6 DEF NativeInv

\* A library allocates.
LEMMA NativeMallocKeeps ==
    ASSUME NativeInv, NEW s \in Sessions, NEW size \in NativeSizes, NativeMalloc(s, size)
    PROVE  NativeInv'
<1> DEFINE m == Malloced(size)
<1>1. /\ sessionGeneration[s] = generation /\ Malloc(size) /\ freeList' = Unlinked(size)
      /\ blocks' = With(blocks, s, m)
      /\ pins' = pins /\ holders' = holders /\ views' = views
      /\ sessionGeneration' = sessionGeneration
    BY DEF NativeMalloc, With, pinVars
<1>2. ArenaInv /\ SessionInv /\ MemorySound
    BY DEF NativeInv
<1>3. blocks \in Holdings
    BY <1>2 DEF MemorySound, Sound
<1>4. /\ Sound(With(blocks, s, m), Unlinked(size), Shown, offset', generation)
      /\ generation' = generation /\ poolGeneration' = generation
      /\ offset' \in offset .. MaximumCapacity
    BY <1>1, <1>2, MallocKeeps
<1> HIDE DEF m
<1>5. (freeList \in Seq(Blocks))' /\ SyncFreeList' = Unlinked(size)
    BY <1>1, <1>4, SoundTypes DEF SyncFreeList
<1>6. ArenaInv' /\ Shown' = Shown
  <2>1. (IsFiniteSet(holders))' /\ (holders \subseteq Holders)' /\ (pins = Cardinality(holders))'
      BY <1>1, <1>2 DEF ArenaInv
  <2> QED BY <1>1, <1>2, <1>4, <1>5, <2>1, SameGeneration
<1>7. MemorySound'
    BY <1>1, <1>4, <1>5, <1>6, Zenon DEF MemorySound
<1>8. SessionInv'
  <2>1. blocks'[s] = blocks[s] \cup {m} /\ \A t \in Sessions \ {s} : blocks'[t] = blocks[t]
    <3>1. /\ With(blocks, s, m)[s] = blocks[s] \cup {m}
          /\ \A t \in Sessions \ {s} : With(blocks, s, m)[t] = blocks[t]
        BY <1>3, WithAt
    <3> QED BY <1>1, <3>1, ZenonT(30)
  <2>2. IsFiniteSet(blocks[s] \cup {m})
      BY <1>2, FS_AddElement, ZenonT(30) DEF SessionInv
  <2>3. generation # 0
      BY <1>2 DEF ArenaInv
  <2> QED BY <1>1, <1>2, <1>4, <2>1, <2>2, <2>3, ZenonT(30) DEF SessionInv, Active
<1> QED BY <1>6, <1>7, <1>8 DEF NativeInv

\* A library frees a block.
LEMMA NativeFreeKeeps ==
    ASSUME NativeInv, NEW s \in Sessions, NEW b \in blocks[s], NativeFree(s, b)
    PROVE  NativeInv'
<1>1. /\ sessionGeneration[s] = generation /\ poolGeneration' = generation
      /\ freeList' = <<b>> \o SyncFreeList /\ blocks' = Less(blocks, s, {b})
      /\ generation' = generation /\ offset' = offset /\ views' = views
      /\ pins' = pins /\ holders' = holders /\ sessionGeneration' = sessionGeneration
    BY ZenonT(30) DEF NativeFree, Synchronize, FreedInto, Less, vars, arenaVars, pinVars
<1>2. ArenaInv /\ SessionInv /\ MemorySound
    BY DEF NativeInv
<1>3. blocks \in Holdings
    BY <1>2, Zenon DEF MemorySound, Sound
<1>4. Sound(Less(blocks, s, {b}), <<b>> \o SyncFreeList, Shown, offset, generation)
    BY <1>2, SoundGiveOne, ZenonT(30) DEF MemorySound
<1>5. (freeList \in Seq(Blocks))' /\ SyncFreeList' = freeList'
    BY <1>1, <1>4, SoundTypes, ZenonT(30) DEF SyncFreeList
<1>6. ArenaInv' /\ Shown' = Shown
  <2>1. offset' \in offset .. MaximumCapacity
      BY <1>1, <1>2, OffsetStays, ZenonT(30)
  <2>2. (IsFiniteSet(holders))' /\ (holders \subseteq Holders)' /\ (pins = Cardinality(holders))'
      BY <1>1, <1>2 DEF ArenaInv
  <2> QED BY <1>1, <1>2, <1>5, <2>1, <2>2, SameGeneration
<1>7. MemorySound'
    BY <1>1, <1>4, <1>5, <1>6, Zenon DEF MemorySound
<1>8. SessionInv'
  <2>1. blocks'[s] = blocks[s] \ {b} /\ \A t \in Sessions \ {s} : blocks'[t] = blocks[t]
      BY <1>1, <1>3, LessAt
  <2>2. IsFiniteSet(blocks[s] \ {b})
      BY <1>2, FS_RemoveElement DEF SessionInv
  <2>3. generation # 0
      BY <1>2 DEF ArenaInv
  <2>4. sessionGeneration' \in [Sessions -> {0, generation'}]
      BY <1>1, <1>2 DEF SessionInv
  <2>5. sessionGeneration'[s] # 0 /\ s \in holders' /\ IsFiniteSet(blocks'[s])
    <3>1. sessionGeneration[s] # 0 /\ s \in holders
        BY <1>1, <1>2, <2>3 DEF SessionInv, Active
    <3> QED BY <1>1, <2>1, <2>2, <3>1, Zenon
  <2> DEFINE changed == {s}
  <2>6. \A t \in Sessions \ changed :
              /\ sessionGeneration'[t] = sessionGeneration[t]
              /\ blocks'[t] = blocks[t]
              /\ t \in holders' <=> t \in holders
      BY <1>1, <2>1, Zenon
  <2>7. \A t \in Sessions \cap changed :
           /\ sessionGeneration'[t] # 0 <=> t \in holders'
           /\ sessionGeneration'[t] = 0 => blocks'[t] = {}
           /\ IsFiniteSet(blocks'[t])
      BY <2>5, Zenon
  <2> HIDE DEF changed
  <2> QED BY <1>2, <2>4, <2>6, <2>7, OtherSessionsStay, ZenonT(30)
<1> QED BY <1>6, <1>7, <1>8 DEF NativeInv

\* A library's block moves: the new one is taken before the old one is freed.
LEMMA NativeReallocKeeps ==
    ASSUME NativeInv, NEW s \in Sessions, NEW b \in blocks[s], NEW size \in NativeSizes,
           NativeRealloc(s, b, size)
    PROVE  NativeInv'
<1> DEFINE m == Malloced(size)
<1>1. /\ sessionGeneration[s] = generation /\ Malloc(size) /\ freeList' = <<b>> \o Unlinked(size)
      /\ blocks' = [blocks EXCEPT ![s] = (blocks[s] \ {b}) \cup {m}]
      /\ pins' = pins /\ holders' = holders /\ views' = views
      /\ sessionGeneration' = sessionGeneration
    BY DEF NativeRealloc, pinVars
<1>2. ArenaInv /\ SessionInv /\ MemorySound
    BY DEF NativeInv
<1>3. blocks \in Holdings
    BY <1>2, ZenonT(30) DEF MemorySound, Sound
<1>4. /\ Sound(With(blocks, s, m), Unlinked(size), Shown, offset', generation)
      /\ m \in Blocks /\ m \notin blocks[s]
      /\ generation' = generation /\ poolGeneration' = generation
      /\ offset' \in offset .. MaximumCapacity
    BY <1>1, <1>2, MallocKeeps, ZenonT(30)
<1> HIDE DEF m
<1> DEFINE mid == With(blocks, s, m)
           X == (blocks[s] \ {b}) \cup {m}
<1>5. /\ mid \in Holdings /\ mid[s] = blocks[s] \cup {m}
      /\ \A t \in Sessions \ {s} : mid[t] = blocks[t]
  <2>1. mid \in Holdings
      BY <1>4, SoundTypes, ZenonT(30)
  <2> QED BY <1>3, <2>1, WithAt
<1> HIDE DEF mid
<1>6. Sound(Less(mid, s, {b}), <<b>> \o Unlinked(size), Shown, offset', generation)
  <2>1. b \in mid[s]
      BY <1>5, ZenonT(30)
  <2>2. Sound(mid, Unlinked(size), Shown, offset', generation)
      BY <1>4, ZenonT(30) DEF mid
  <2> QED BY <2>1, <2>2, SoundGiveOne
<1>7. blocks' \in Holdings /\ blocks'[s] = X /\ \A t \in Sessions \ {s} : blocks'[t] = blocks[t]
  <2>1. X \in SUBSET Blocks
      BY <1>3, <1>4 DEF Holdings
  <2>2. blocks' = Put(blocks, s, X)
      BY <1>1, Zenon DEF Put
  <2> HIDE DEF X
  <2> QED BY <1>3, <2>1, <2>2, HoldingsExcept
<1>8. blocks' = Less(mid, s, {b})
  <2>1. Less(mid, s, {b}) \in Holdings
      BY <1>6, SoundTypes, Zenon
  <2>2. Less(mid, s, {b})[s] = mid[s] \ {b} /\ \A t \in Sessions \ {s} : Less(mid, s, {b})[t] = mid[t]
      BY <1>5, LessAt
  <2>3. mid[s] \ {b} = X
      BY <1>4, <1>5
  <2>4. \A t \in Sessions : blocks'[t] = Less(mid, s, {b})[t]
      BY <1>5, <1>7, <2>2, <2>3, ZenonT(30)
  <2> QED BY <1>7, <2>1, <2>4, SameHoldings, Zenon
<1>9. (freeList \in Seq(Blocks))' /\ SyncFreeList' = freeList'
    BY <1>1, <1>4, <1>6, SoundTypes, ZenonT(30) DEF SyncFreeList
<1>10. ArenaInv' /\ Shown' = Shown
  <2>1. (IsFiniteSet(holders))' /\ (holders \subseteq Holders)' /\ (pins = Cardinality(holders))'
      BY <1>1, <1>2 DEF ArenaInv
  <2> QED BY <1>1, <1>2, <1>4, <1>9, <2>1, SameGeneration, ZenonT(30)
<1>11. MemorySound'
    BY <1>1, <1>4, <1>6, <1>8, <1>9, <1>10, ZenonT(30) DEF MemorySound
<1>12. SessionInv'
  <2>1. IsFiniteSet(X)
    <3>1. IsFiniteSet(blocks[s] \ {b})
        BY <1>2, FS_RemoveElement DEF SessionInv
    <3> QED BY <3>1, FS_AddElement
  <2>2. generation # 0
      BY <1>2 DEF ArenaInv
  <2> HIDE DEF X
  <2>3. sessionGeneration' \in [Sessions -> {0, generation'}]
      BY <1>1, <1>2, <1>4 DEF SessionInv
  <2>4. sessionGeneration'[s] # 0 /\ s \in holders' /\ IsFiniteSet(blocks'[s])
    <3>1. sessionGeneration[s] # 0 /\ s \in holders
        BY <1>1, <1>2, <2>2 DEF SessionInv, Active
    <3> QED BY <1>1, <1>7, <2>1, <3>1, Zenon
  <2> DEFINE changed == {s}
  <2>5. \A t \in Sessions \ changed :
              /\ sessionGeneration'[t] = sessionGeneration[t]
              /\ blocks'[t] = blocks[t]
              /\ t \in holders' <=> t \in holders
      BY <1>1, <1>7, Zenon
  <2>6. \A t \in Sessions \cap changed :
           /\ sessionGeneration'[t] # 0 <=> t \in holders'
           /\ sessionGeneration'[t] = 0 => blocks'[t] = {}
           /\ IsFiniteSet(blocks'[t])
      BY <2>4, Zenon
  <2> HIDE DEF changed
  <2> QED BY <1>2, <2>3, <2>5, <2>6, OtherSessionsStay
<1> QED BY <1>10, <1>11, <1>12 DEF NativeInv

\* The pool after release() or a move over session s: its blocks are free.
LEMMA ReleaseBlocksKeeps ==
    ASSUME NativeInv, NEW s \in Sessions, NEW order \in FreeOrders(s), ReleaseBlocks(s, order),
           generation' = generation
    PROVE  /\ Sound(Less(blocks, s, blocks[s]), SyncFreeList', Shown, offset, generation)
           /\ (freeList \in Seq(Blocks))'
           /\ poolGeneration' \in {poolGeneration, generation}
<1>1. ArenaInv /\ SessionInv /\ MemorySound /\ blocks \in Holdings /\ IsFiniteSet(blocks[s])
    BY ZenonT(30) DEF NativeInv, MemorySound, Sound, SessionInv
<1>2. CASE Active(s)
  <2>1. poolGeneration' = generation /\ freeList' = order \o SyncFreeList
    <3>1. sessionGeneration[s] = generation
        BY <1>1, <1>2 DEF SessionInv, Active
    <3> QED BY <1>2, <3>1, ZenonT(30) DEF ReleaseBlocks, Synchronize, FreedInto
  <2>2. /\ order \in Seq(Blocks) /\ Range(order) = blocks[s]
        /\ \A i, j \in DOMAIN order : order[i] = order[j] => i = j
      BY <1>1, OrderFacts
  <2>3. SyncFreeList' = order \o SyncFreeList
      BY <2>1, ZenonT(30) DEF SyncFreeList
  <2>4. Sound(Less(blocks, s, Range(order)), order \o SyncFreeList, Shown, offset, generation)
    <3>1. Range(order) \subseteq blocks[s]
        BY <2>2
    <3> QED BY <1>1, <2>2, <3>1, SoundGiveBack, ZenonT(30) DEF MemorySound
  <2>5. order \o SyncFreeList \in Seq(Blocks)
      BY <2>4, SoundTypes, Zenon
  <2> QED BY <2>1, <2>2, <2>3, <2>4, <2>5, Zenon
<1>3. CASE ~Active(s)
  <2>1. poolGeneration' = poolGeneration /\ freeList' = freeList
      BY <1>3 DEF ReleaseBlocks, poolVars
  <2>2. SyncFreeList' = SyncFreeList
      BY <2>1 DEF SyncFreeList
  <2>3. Less(blocks, s, blocks[s]) = blocks
    <3>1. blocks[s] = {} /\ blocks[s] \ blocks[s] = {}
        BY <1>1, <1>3 DEF SessionInv
    <3>2. Less(blocks, s, blocks[s]) = [blocks EXCEPT ![s] = blocks[s]]
        BY <3>1, Zenon DEF Less
    <3>3. blocks = [blocks EXCEPT ![s] = blocks[s]]
        BY <1>1 DEF Holdings
    <3> QED BY <3>2, <3>3, ZenonT(30)
  <2> QED BY <1>1, <2>1, <2>2, <2>3 DEF MemorySound, ArenaInv
<1> QED BY <1>2, <1>3, ZenonT(30)

\* release(): blocks first, pin last.
LEMMA ReleaseKeeps ==
    ASSUME NativeInv, NEW s \in Sessions, NEW order \in FreeOrders(s), Release(s, order)
    PROVE  NativeInv'
<1>1. /\ Active(s) /\ ReleaseBlocks(s, order) /\ pins' = PinsLess(s) /\ holders' = holders \ {s}
      /\ sessionGeneration' = [sessionGeneration EXCEPT ![s] = 0]
      /\ blocks' = [blocks EXCEPT ![s] = {}]
      /\ generation' = generation /\ offset' = offset /\ views' = views
    BY DEF Release, arenaVars
<1>2. ArenaInv /\ SessionInv /\ MemorySound /\ blocks \in Holdings
    BY DEF NativeInv, MemorySound, Sound
<1>3. /\ Sound(Less(blocks, s, blocks[s]), SyncFreeList', Shown, offset, generation)
      /\ (freeList \in Seq(Blocks))' /\ poolGeneration' \in {poolGeneration, generation}
    BY <1>1, ReleaseBlocksKeeps
<1>4. blocks' = Less(blocks, s, blocks[s])
  <2>1. blocks[s] \ blocks[s] = {}
      OBVIOUS
  <2> QED BY <1>1, <2>1, Zenon DEF Less
<1>5. IsFiniteSet(holders') /\ Cardinality(holders') = pins' /\ holders' \subseteq Holders
  <2>1. /\ IsFiniteSet(holders) /\ pins = Cardinality(holders) /\ holders \subseteq Holders
        /\ s \in holders
      BY <1>1, <1>2 DEF ArenaInv, SessionInv
  <2>2. IsFiniteSet(holders \ {s}) /\ Cardinality(holders \ {s}) = Cardinality(holders) - 1
      BY <2>1, FS_RemoveElement
  <2> QED BY <1>1, <2>1, <2>2 DEF PinsLess
<1>6. ArenaInv' /\ Shown' = Shown
  <2>1. offset' \in offset .. MaximumCapacity
      BY <1>1, <1>2, OffsetStays, ZenonT(30)
  <2> QED BY <1>1, <1>2, <1>3, <1>5, <2>1, SameGeneration
<1>7. MemorySound'
    BY <1>1, <1>3, <1>4, <1>6, Zenon DEF MemorySound
<1>8. SessionInv'
  <2>1. sessionGeneration \in [Sessions -> {0, generation}]
      BY <1>2 DEF SessionInv
  <2>2. /\ sessionGeneration' \in [Sessions -> {0, generation'}]
        /\ sessionGeneration'[s] = 0
        /\ \A t \in Sessions \ {s} : sessionGeneration'[t] = sessionGeneration[t]
      BY <1>1, <2>1, Unpinned, ZenonT(30)
  <2>3. blocks'[s] = {} /\ \A t \in Sessions \ {s} : blocks'[t] = blocks[t]
      BY <1>2, <1>4, LessAt
  <2>4. IsFiniteSet({})
      BY FS_EmptySet
  <2> QED BY <1>1, <1>2, <2>2, <2>3, <2>4 DEF SessionInv, Active
<1> QED BY <1>6, <1>7, <1>8 DEF NativeInv

\* Move assignment over a session that may hold blocks and a pin of its own.
LEMMA MoveSessionKeeps ==
    ASSUME NativeInv, NEW dst \in Sessions, NEW src \in Sessions, NEW order \in FreeOrders(dst),
           MoveSession(dst, src, order)
    PROVE  NativeInv'
<1>1. /\ dst # src /\ Active(src) /\ ReleaseBlocks(dst, order) /\ pins' = PinsLess(dst)
      /\ holders' = (holders \ {src}) \cup {dst}
      /\ sessionGeneration' = [sessionGeneration EXCEPT ![dst] = sessionGeneration[src], ![src] = 0]
      /\ blocks' = [blocks EXCEPT ![dst] = blocks[src], ![src] = {}]
      /\ generation' = generation /\ offset' = offset /\ views' = views
    BY DEF MoveSession, arenaVars
<1>2. ArenaInv /\ SessionInv /\ MemorySound /\ blocks \in Holdings
    BY DEF NativeInv, MemorySound, Sound
<1> DEFINE mid == Less(blocks, dst, blocks[dst])
<1>3. /\ Sound(mid, SyncFreeList', Shown, offset, generation)
      /\ (freeList \in Seq(Blocks))' /\ poolGeneration' \in {poolGeneration, generation}
    BY <1>1, ReleaseBlocksKeeps
<1>4. mid \in Holdings /\ mid[dst] = {} /\ \A t \in Sessions \ {dst} : mid[t] = blocks[t]
  <2>1. mid \in Holdings
      BY <1>3, SoundTypes, ZenonT(30)
  <2>2. mid[dst] = blocks[dst] \ blocks[dst] /\ \A t \in Sessions \ {dst} : mid[t] = blocks[t]
      BY <1>2, LessAt
  <2> QED BY <2>1, <2>2, Zenon
<1> HIDE DEF mid
<1> DEFINE new == [mid EXCEPT ![dst] = mid[src], ![src] = {}]
<1>5. new \in Holdings /\ OneOwner(new, SyncFreeList') /\ Parts(new, SyncFreeList') = Parts(mid, SyncFreeList')
  <2>1. SyncFreeList' \in Seq(Blocks) /\ OneOwner(mid, SyncFreeList')
      BY <1>3 DEF Sound
  <2> QED BY <1>1, <1>4, <2>1, Handover
<1>6. Sound(new, SyncFreeList', Shown, offset, generation)
  <2> HIDE DEF new
  <2> QED BY <1>3, <1>5, Zenon DEF Sound
<1>7. /\ blocks' \in Holdings /\ blocks'[dst] = blocks[src] /\ blocks'[src] = {}
      /\ \A t \in Sessions \ {dst, src} : blocks'[t] = blocks[t]
  <2> DEFINE S == SUBSET Blocks
  <2>1. blocks \in [Sessions -> S] /\ blocks[src] \in S /\ {} \in S
      BY <1>2 DEF S, Holdings
  <2> HIDE DEF S
  <2>2. /\ blocks' \in [Sessions -> S] /\ blocks'[dst] = blocks[src] /\ blocks'[src] = {}
        /\ \A t \in Sessions \ {dst, src} : blocks'[t] = blocks[t]
      BY <1>1, <2>1
  <2> QED BY <2>2 DEF S, Holdings
<1>8. blocks' = new
  <2>1. /\ new[dst] = mid[src] /\ new[src] = {}
        /\ \A t \in Sessions \ {dst, src} : new[t] = mid[t]
      BY <1>1, <1>4, ZenonT(30) DEF Holdings
  <2>2. new \in Holdings
      BY <1>5
  <2> HIDE DEF new
  <2>3. mid[src] = blocks[src] /\ \A t \in Sessions \ {dst, src} : mid[t] = blocks[t]
      BY <1>1, <1>4, Zenon
  <2>4. \A t \in Sessions : blocks'[t] = new[t]
      BY <1>7, <2>1, <2>3, Zenon
  <2> QED BY <1>7, <2>2, <2>4, SameHoldings, ZenonT(30)
<1> HIDE DEF new
<1>9. IsFiniteSet(holders') /\ Cardinality(holders') = pins' /\ holders' \subseteq Holders
  <2>1. /\ IsFiniteSet(holders) /\ pins = Cardinality(holders) /\ holders \subseteq Holders
        /\ src \in holders /\ dst \in Holders
      BY <1>1, <1>2, NativeAssumption DEF ArenaInv, SessionInv
  <2> DEFINE left == holders \ {src}
  <2>2. IsFiniteSet(left) /\ Cardinality(left) = Cardinality(holders) - 1
      BY <2>1, FS_RemoveElement
  <2>3. dst \in left <=> dst \in holders
      BY <1>1
  <2>4. Cardinality(holders) \in Nat /\ holders' = left \cup {dst} /\ left \subseteq Holders
      BY <1>1, <2>1, FS_CardinalityType
  <2> HIDE DEF left
  <2>5. IsFiniteSet(left \cup {dst})
        /\ Cardinality(left \cup {dst}) = IF dst \in left THEN Cardinality(left) ELSE Cardinality(left) + 1
      BY <2>2, FS_AddElement, ZenonT(30)
  <2>6. pins' = IF dst \in holders THEN pins - 1 ELSE pins
      BY <1>1, ZenonT(30) DEF PinsLess
  <2>7. Cardinality(left \cup {dst}) = pins'
      BY <2>1, <2>2, <2>3, <2>4, <2>5, <2>6
  <2> QED BY <2>1, <2>4, <2>5, <2>7, ZenonT(30)
<1>10. ArenaInv' /\ Shown' = Shown
  <2>1. offset' \in offset .. MaximumCapacity
      BY <1>1, <1>2, OffsetStays, ZenonT(30)
  <2> QED BY <1>1, <1>2, <1>3, <1>9, <2>1, SameGeneration
<1>11. MemorySound'
    BY <1>1, <1>6, <1>8, <1>10, ZenonT(30) DEF MemorySound
<1>12. SessionInv'
  <2>1. sessionGeneration \in [Sessions -> {0, generation}]
      BY <1>2 DEF SessionInv
  <2>2. /\ sessionGeneration' \in [Sessions -> {0, generation'}]
        /\ sessionGeneration'[dst] = sessionGeneration[src] /\ sessionGeneration'[src] = 0
        /\ \A t \in Sessions \ {dst, src} : sessionGeneration'[t] = sessionGeneration[t]
      BY <1>1, <2>1
  <2>3. IsFiniteSet({})
      BY FS_EmptySet
  <2> DEFINE changed == {dst, src}
  <2>4. \A t \in Sessions \ changed :
              /\ sessionGeneration'[t] = sessionGeneration[t]
              /\ blocks'[t] = blocks[t]
              /\ t \in holders' <=> t \in holders
    <3>1. \A t \in Sessions \ {dst, src} : t \in holders' <=> t \in holders
        BY <1>1, Zenon
    <3> QED BY <1>7, <2>2, <3>1, Zenon
  <2>5. dst \in holders' /\ src \notin holders' /\ sessionGeneration'[dst] # 0
      BY <1>1, <2>2 DEF Active
  <2>6. IsFiniteSet(blocks'[dst]) /\ IsFiniteSet(blocks'[src])
      BY <1>2, <1>7, <2>3 DEF SessionInv
  <2>7. \A t \in Sessions \cap changed :
           /\ sessionGeneration'[t] # 0 <=> t \in holders'
           /\ sessionGeneration'[t] = 0 => blocks'[t] = {}
           /\ IsFiniteSet(blocks'[t])
      BY <1>7, <2>2, <2>5, <2>6, Zenon
  <2> HIDE DEF changed
  <2> QED BY <1>2, <2>2, <2>4, <2>7, OtherSessionsStay, ZenonT(30)
<1> QED BY <1>10, <1>11, <1>12 DEF NativeInv

-----------------------------------------------------------------------------
(* The steps of other code with the same arena.                            *)

\* Steps that touch at most the pins that belong to no session.
LEMMA PinStepKeeps ==
    ASSUME NativeInv, UNCHANGED <<arenaVars, views, poolVars, sessionVars>>,
           (IsFiniteSet(holders))', (holders \subseteq Holders)', (pins = Cardinality(holders))',
           \A s \in Sessions : s \in holders' <=> s \in holders
    PROVE  NativeInv'
<1>1. /\ generation' = generation /\ offset' = offset /\ views' = views
      /\ poolGeneration' = poolGeneration /\ freeList' = freeList
      /\ sessionGeneration' = sessionGeneration /\ blocks' = blocks
    BY DEF arenaVars, poolVars, sessionVars
<1>2. ArenaInv /\ SessionInv /\ MemorySound
    BY DEF NativeInv
<1>3. ArenaInv' /\ Shown' = Shown
  <2>1. offset' \in offset .. MaximumCapacity /\ (freeList \in Seq(Blocks))'
      BY <1>1, <1>2 DEF ArenaInv
  <2> QED BY <1>1, <1>2, <2>1, SameGeneration
<1>4. SyncFreeList' = SyncFreeList
    BY <1>1 DEF SyncFreeList
<1>5. MemorySound'
    BY <1>1, <1>2, <1>3, <1>4, Zenon DEF MemorySound
<1>6. SessionInv'
    BY <1>1, <1>2 DEF SessionInv, Active
<1> QED BY <1>3, <1>5, <1>6 DEF NativeInv

\* The pins of `objects` that come and go.
LEMMA PinsKeep ==
    ASSUME NativeInv, UNCHANGED <<poolVars, sessionVars>>,
           \/ \E h \in Holders \ Sessions : Pin(h) \/ ReleasePin(h)
           \/ \E dst, src \in Holders \ Sessions : MovePin(dst, src)
    PROVE  NativeInv'
<1>1. /\ IsFiniteSet(holders) /\ pins = Cardinality(holders) /\ holders \subseteq Holders
      /\ Cardinality(holders) \in Nat
    BY FS_CardinalityType DEF NativeInv, ArenaInv
<1>2. ASSUME NEW h \in Holders \ Sessions, Pin(h) PROVE NativeInv'
  <2>1. /\ h \notin holders /\ pins' = pins + 1 /\ holders' = holders \cup {h}
        /\ UNCHANGED <<arenaVars, views>>
      BY <1>2 DEF Pin
  <2>2. IsFiniteSet(holders \cup {h}) /\ Cardinality(holders \cup {h}) = Cardinality(holders) + 1
      BY <1>1, <2>1, FS_AddElement
  <2>3. (IsFiniteSet(holders))' /\ (holders \subseteq Holders)' /\ (pins = Cardinality(holders))'
      BY <1>1, <2>1, <2>2
  <2>4. \A s \in Sessions : s \in holders' <=> s \in holders
      BY <2>1
  <2> QED BY <2>1, <2>3, <2>4, PinStepKeeps
<1>3. ASSUME NEW h \in Holders \ Sessions, ReleasePin(h) PROVE NativeInv'
  <2>1. h \in holders /\ holders' = holders \ {h} /\ UNCHANGED <<arenaVars, views>>
      BY <1>3 DEF ReleasePin
  <2>2. pins # 0
      BY <1>1, <2>1, FS_EmptySet
  <2>3. pins' = pins - 1
      BY <1>3, <2>2 DEF ReleasePin
  <2>4. IsFiniteSet(holders \ {h}) /\ Cardinality(holders \ {h}) = Cardinality(holders) - 1
      BY <1>1, <2>1, FS_RemoveElement
  <2>5. (IsFiniteSet(holders))' /\ (holders \subseteq Holders)' /\ (pins = Cardinality(holders))'
      BY <1>1, <2>1, <2>3, <2>4
  <2>6. \A s \in Sessions : s \in holders' <=> s \in holders
      BY <2>1
  <2> QED BY <2>1, <2>5, <2>6, PinStepKeeps
<1>4. ASSUME NEW dst \in Holders \ Sessions, NEW src \in Holders \ Sessions, MovePin(dst, src)
      PROVE  NativeInv'
  <2> DEFINE left == holders \ {dst}
             rest == left \ {src}
  <2>1. /\ dst # src /\ pins' = PinsLess(dst)
        /\ holders' = (holders \ {dst, src}) \cup (IF src \in holders THEN {dst} ELSE {})
        /\ UNCHANGED <<arenaVars, views>>
      BY <1>4 DEF MovePin
  <2>2. /\ IsFiniteSet(left)
        /\ Cardinality(left) = IF dst \in holders THEN Cardinality(holders) - 1 ELSE Cardinality(holders)
      BY <1>1, FS_RemoveElement
  <2>3. pins' = Cardinality(left) /\ (src \in left <=> src \in holders) /\ dst \notin rest
      BY <1>1, <2>1, <2>2 DEF PinsLess
  <2>4. holders' = rest \cup (IF src \in holders THEN {dst} ELSE {}) /\ rest \subseteq Holders
      BY <1>1, <2>1
  <2>5. \A s \in Sessions : s \in holders' <=> s \in holders
      BY <2>1
  <2> HIDE DEF left
  <2>6. Cardinality(left) \in Nat
      BY <2>2, FS_CardinalityType
  <2>7. /\ IsFiniteSet(rest)
        /\ Cardinality(rest) = IF src \in left THEN Cardinality(left) - 1 ELSE Cardinality(left)
      BY <2>2, FS_RemoveElement
  <2> HIDE DEF rest
  <2>8. (IsFiniteSet(holders))' /\ (holders \subseteq Holders)' /\ (pins = Cardinality(holders))'
    <3>1. CASE src \in holders
      <4>1. holders' = rest \cup {dst}
          BY <2>4, <3>1
      <4>2. IsFiniteSet(rest \cup {dst}) /\ Cardinality(rest \cup {dst}) = Cardinality(rest) + 1
          BY <2>3, <2>7, FS_AddElement, ZenonT(30)
      <4>3. Cardinality(rest) = Cardinality(left) - 1
          BY <2>3, <2>7, <3>1
      <4>4. Cardinality(holders') = Cardinality(left)
          BY <2>6, <4>1, <4>2, <4>3
      <4>5. holders' \subseteq Holders
          BY <2>4, <4>1
      <4> QED BY <2>3, <4>1, <4>2, <4>4, <4>5, Zenon
    <3>2. CASE src \notin holders
      <4>1. holders' = rest
          BY <2>4, <3>2
      <4>2. Cardinality(rest) = Cardinality(left)
          BY <2>3, <2>7, <3>2
      <4> QED BY <2>3, <2>4, <2>7, <4>1, <4>2
    <3> QED BY <3>1, <3>2
  <2> QED BY <2>1, <2>5, <2>8, PinStepKeeps
<1> QED BY <1>2, <1>3, <1>4

\* A view that is added to the ones the client keeps.
LEMMA ViewAdded ==
    ASSUME ArenaInv, NEW v, v.gen = generation, generation' = generation, views' = views \cup {v}
    PROVE  Shown' = Shown \cup {v}
BY ZenonT(30) DEF Shown, Readable

\* Other code allocates from the same arena.
LEMMA TryAllocateKeeps ==
    ASSUME NativeInv, NEW n \in Sizes, NEW a \in Alignments, TryAllocate(n, a),
           UNCHANGED <<poolVars, sessionVars>>
    PROVE  NativeInv'
<1>1. ArenaInv /\ SessionInv /\ MemorySound /\ blocks \in Holdings /\ SyncFreeList \in Seq(Blocks)
    BY DEF NativeInv, MemorySound, Sound
<1>2. /\ poolGeneration' = poolGeneration /\ freeList' = freeList
      /\ sessionGeneration' = sessionGeneration /\ blocks' = blocks
      /\ pins' = pins /\ holders' = holders /\ generation' = generation
    BY DEF poolVars, sessionVars, TryAllocate, pinVars, arenaVars, Allocate
<1>3. SyncFreeList' = SyncFreeList
    BY <1>2, ZenonT(30) DEF SyncFreeList
<1>4. SessionInv'
    BY <1>1, <1>2 DEF SessionInv, Active
<1> DEFINE all == Parts(blocks, SyncFreeList)
<1>5. all \in SUBSET Blocks /\ Shown \in SUBSET Views /\ offset \in Nat
  <2>1. Shown \subseteq views
      BY DEF Shown
  <2> QED BY <1>1, <2>1, PartsAreBlocks, CapacityAssumption DEF ArenaInv
<1>6. Laid(all, Shown, offset) /\ Tiled(all, Shown, offset)
    BY <1>1, Zenon DEF MemorySound, Sound
<1> HIDE DEF all
<1>7. ASSUME NEW v \in Views, v.gen = generation, views' = views \cup {v},
             offset' \in 0 .. MaximumCapacity,
             Laid(all, Shown \cup {v}, offset'), Tiled(all, Shown \cup {v}, offset')
      PROVE  NativeInv'
  <2>1. Shown' = Shown \cup {v}
      BY <1>1, <1>2, <1>7, ViewAdded
  <2>2. MemorySound'
      BY <1>1, <1>2, <1>3, <1>7, <2>1, Zenon DEF MemorySound, Sound, all
  <2>3. ArenaInv'
    <3>1. (views \subseteq Views)' /\ (\A w \in views : w.gen <= generation)'
        BY <1>1, <1>2, <1>7 DEF ArenaInv
    <3> QED BY <1>1, <1>2, <1>7, <3>1, ZenonT(30) DEF ArenaInv
  <2> QED BY <1>4, <2>2, <2>3 DEF NativeInv
<1>8. CASE n = 0 /\ views' = views \cup {[gen |-> generation, start |-> 0, size |-> 0]} /\ UNCHANGED arenaVars
  <2>1. PICK v : v = [gen |-> generation, start |-> 0, size |-> 0]
      BY Zenon
  <2>2. v \in Views /\ v.gen = generation /\ v.size = 0 /\ views' = views \cup {v}
      BY <1>1, <1>8, <2>1, CapacityAssumption DEF Views, ArenaInv
  <2>3. offset' = offset /\ offset' \in 0 .. MaximumCapacity
      BY <1>1, <1>8 DEF arenaVars, ArenaInv
  <2>4. Laid(all, Shown \cup {v}, offset') /\ Tiled(all, Shown \cup {v}, offset')
    <3>1. Laid(all, Shown \cup {v}, offset)
        BY <1>6, <2>2, LayEmpty
    <3>2. Tiled(all, Shown \cup {v}, offset)
        BY <1>6, TileEmpty, Zenon
    <3> QED BY <2>3, <3>1, <3>2, Zenon
  <2> QED BY <1>7, <2>2, <2>3, <2>4
<1>9. CASE /\ Allocate(n, a)
           /\ views' = views \cup {[gen |-> generation, start |-> AlignedOffset(a), size |-> n]}
  <2> DEFINE at == AlignedOffset(a)
  <2>1. offset' = at + n /\ at + n <= MaximumCapacity /\ n > 0
      BY <1>9 DEF Allocate
  <2>2. a \in Nat \ {0} /\ n \in Nat /\ MaximumCapacity \in Nat
      BY BoundAssumption, CapacityAssumption
  <2>3. at \in offset .. offset + a - 1 /\ at % a = 0
      BY <1>5, <2>2, PaddingFacts
  <2> HIDE DEF at
  <2>4. at \in 0 .. MaximumCapacity /\ offset' \in 0 .. MaximumCapacity
      BY <1>5, <2>1, <2>2, <2>3
  <2>5. PICK v : v = [gen |-> generation, start |-> at, size |-> n]
      BY Zenon
  <2>6. v \in Views /\ v.gen = generation /\ v.start = at /\ views' = views \cup {v}
      BY <1>1, <1>9, <2>4, <2>5 DEF Views, ArenaInv, at
  <2>7. ViewEnd(v) = offset'
      BY <2>1, <2>5 DEF ViewEnd
  <2>8. Laid(all, Shown \cup {v}, offset')
    <3>1. offset <= v.start
        BY <1>5, <2>3, <2>6
    <3>2. Laid(all, Shown \cup {v}, ViewEnd(v))
        BY <1>5, <1>6, <2>6, <3>1, LayView, ZenonT(30)
    <3> QED BY <2>7, <3>2
  <2>9. Tiled(all, Shown \cup {v}, offset')
    <3>1. v.start % a = 0 /\ v.start < offset + a
        BY <1>5, <2>2, <2>3, <2>6
    <3>2. a \in Alignments \cup {NativeAlignment} /\ a \in Nat
        BY <2>2
    <3>3. Tiled(all, Shown \cup {v}, ViewEnd(v))
        BY <1>5, <1>6, <2>6, <3>1, <3>2, TileView
    <3> QED BY <2>7, <3>3
  <2> QED BY <1>7, <2>4, <2>6, <2>8, <2>9, ZenonT(30)
<1> QED BY <1>8, <1>9 DEF TryAllocate

\* Without pins there are no sessions: the reset leaves nothing in use.
LEMMA ResetKeeps ==
    ASSUME NativeInv, NEW g \in boundaries, Reset(g), UNCHANGED <<poolVars, sessionVars>>
    PROVE  NativeInv'
<1>1. ArenaInv /\ SessionInv /\ MemorySound /\ blocks \in Holdings
    BY DEF NativeInv, MemorySound, Sound
<1>2. /\ pins = 0 /\ generation < MaxGeneration /\ generation' = generation + 1 /\ offset' = 0
      /\ pins' = pins /\ holders' = holders /\ views' = views
      /\ poolGeneration' = poolGeneration /\ freeList' = freeList
      /\ sessionGeneration' = sessionGeneration /\ blocks' = blocks
    BY DEF Reset, MayReset, NewGeneration, pinVars, poolVars, sessionVars
<1>3. holders = {}
  <2>1. IsFiniteSet(holders) /\ Cardinality(holders) = 0
      BY <1>1, <1>2 DEF ArenaInv
  <2> QED BY <2>1, FS_EmptySet
<1>4. generation \in Nat /\ generation' # generation /\ poolGeneration' # generation'
    BY <1>1, <1>2, BoundAssumption DEF ArenaInv
<1>5. ArenaInv'
  <2>1. generation' \in 1 .. MaxGeneration /\ poolGeneration' \in 1 .. generation'
      BY <1>1, <1>2, BoundAssumption DEF ArenaInv
  <2>2. offset' \in 0 .. MaximumCapacity
      BY <1>2, CapacityAssumption
  <2>3. (views \subseteq Views)' /\ (\A v \in views : v.gen <= generation)'
    <3>1. \A v \in views : v.gen \in 1 .. MaxGeneration /\ v.gen <= generation
        BY <1>1 DEF ArenaInv, Views
    <3>2. \A v \in views : v.gen <= generation + 1
        BY <1>4, <3>1, BoundAssumption
    <3> QED BY <1>1, <1>2, <3>2 DEF ArenaInv
  <2>4. /\ (IsFiniteSet(holders))' /\ (holders \subseteq Holders)' /\ (pins = Cardinality(holders))'
        /\ (freeList \in Seq(Blocks))'
      BY <1>1, <1>2, Zenon DEF ArenaInv
  <2> QED BY <2>1, <2>2, <2>3, <2>4 DEF ArenaInv
<1>6. Shown' = {}
  <2>1. \A v \in views : v.gen \in 1 .. MaxGeneration /\ v.gen <= generation
      BY <1>1 DEF ArenaInv, Views
  <2>2. \A v \in views : v.gen # generation + 1
      BY <1>4, <2>1, BoundAssumption
  <2> QED BY <1>2, <2>2 DEF Shown, Readable
<1>7. \A s \in Sessions : sessionGeneration[s] = 0 /\ blocks[s] = {}
    BY <1>1, <1>3 DEF SessionInv, Active
<1>8. SyncFreeList' = <<>>
    BY <1>4 DEF SyncFreeList
<1>9. SessionInv'
  <2>1. (sessionGeneration \in [Sessions -> {0, generation}])'
      BY <1>1, <1>2, <1>7 DEF SessionInv
  <2>2. \A s \in Sessions : sessionGeneration'[s] = 0 /\ blocks'[s] = {} /\ s \notin holders'
      BY <1>2, <1>3, <1>7
  <2>3. IsFiniteSet({})
      BY FS_EmptySet
  <2> QED BY <2>1, <2>2, <2>3, ZenonT(30) DEF SessionInv, Active
<1>10. MemorySound'
  <2>1. <<>> \in Seq(Blocks) /\ DOMAIN <<>> = {} /\ blocks' \in Holdings
      BY <1>1, <1>2
  <2>2. OneOwner(blocks', <<>>) /\ Parts(blocks', <<>>) = {}
      BY <1>2, <1>7, <2>1, Zenon DEF OneOwner, Parts, Range
  <2>3. Laid({}, {}, offset') /\ Tiled({}, {}, offset')
      BY <1>2 DEF Laid, Tiled
  <2> QED BY <1>6, <1>8, <2>1, <2>2, <2>3, Zenon DEF MemorySound, Sound
<1> QED BY <1>5, <1>9, <1>10 DEF NativeInv

\* No step of other code disturbs the sessions.
LEMMA ArenaStepKeeps ==
    ASSUME NativeInv, ArenaStep
    PROVE  NativeInv'
<1>1. UNCHANGED <<poolVars, sessionVars>> /\ ArenaNext(Holders \ Sessions)
    BY DEF ArenaStep
<1>2. ASSUME NEW n \in Sizes, NEW a \in Alignments, TryAllocate(n, a) PROVE NativeInv'
    BY <1>1, <1>2, TryAllocateKeeps
<1>3. CASE \/ \E h \in Holders \ Sessions : Pin(h) \/ ReleasePin(h)
           \/ \E dst, src \in Holders \ Sessions : MovePin(dst, src)
    BY <1>1, <1>3, PinsKeep
<1>4. ASSUME NEW g \in boundaries, Reset(g) PROVE NativeInv'
    BY <1>1, <1>4, ResetKeeps
<1>5. CASE UNCHANGED <<arenaVars, views, pinVars>>
  <2>1. pins' = pins /\ holders' = holders
      BY <1>5 DEF pinVars
  <2>2. (IsFiniteSet(holders))' /\ (holders \subseteq Holders)' /\ (pins = Cardinality(holders))'
      BY <2>1 DEF NativeInv, ArenaInv
  <2>3. \A s \in Sessions : s \in holders' <=> s \in holders
      BY <2>1
  <2> QED BY <1>1, <1>5, <2>2, <2>3, PinStepKeeps
<1>6. CASE QuiescentBoundary
    BY <1>5, <1>6 DEF QuiescentBoundary
<1>7. CASE Destroy
    BY <1>5, <1>7 DEF Destroy
<1>8. CASE \E n \in OtherSizes : OthersReserve(n) \/ OthersRelease(n)
    BY <1>5, <1>8 DEF OthersReserve, OthersRelease
<1>9. CASE Ended
    BY <1>5, <1>9 DEF Ended, vars
<1> QED BY <1>1, <1>2, <1>3, <1>4, <1>6, <1>7, <1>8, <1>9, Zenon DEF ArenaNext

-----------------------------------------------------------------------------
(* The theorems.                                                           *)

\* Nothing is held and nothing is free.
LEMMA NativeInitial == NativeInit => NativeInv
<1> SUFFICES ASSUME NativeInit PROVE NativeInv
    OBVIOUS
<1>1. /\ pins = 0 /\ holders = {} /\ generation = 1 /\ views = {} /\ offset = 0
      /\ poolGeneration = 1 /\ freeList = <<>>
      /\ sessionGeneration = [s \in Sessions |-> 0] /\ blocks = [s \in Sessions |-> {}]
    BY DEF NativeInit, Init
<1>2. IsFiniteSet({}) /\ Cardinality({}) = 0
    BY FS_EmptySet
<1>3. ArenaInv
  <2>1. generation \in 1 .. MaxGeneration /\ offset \in 0 .. MaximumCapacity /\ poolGeneration \in 1 .. generation
      BY <1>1, BoundAssumption, CapacityAssumption
  <2>2. IsFiniteSet(holders) /\ holders \subseteq Holders /\ pins = Cardinality(holders)
      BY <1>1, <1>2
  <2> QED BY <1>1, <2>1, <2>2 DEF ArenaInv
<1>4. SessionInv
    BY <1>1, <1>2 DEF SessionInv, Active
<1>5. Shown = {} /\ SyncFreeList = <<>>
    BY <1>1 DEF Shown, SyncFreeList
<1>6. <<>> \in Seq(Blocks) /\ DOMAIN <<>> = {} /\ blocks \in Holdings
    BY <1>1 DEF Holdings
<1>7. OneOwner(blocks, <<>>) /\ Parts(blocks, <<>>) = {}
  <2>1. \A s \in Sessions : blocks[s] = {}
      BY <1>1
  <2> QED BY <1>6, <2>1, Zenon DEF OneOwner, Parts, Range
<1>8. Laid({}, {}, offset) /\ Tiled({}, {}, offset)
    BY <1>1 DEF Laid, Tiled
<1>9. MemorySound
    BY <1>5, <1>6, <1>7, <1>8, Zenon DEF MemorySound, Sound
<1> QED BY <1>3, <1>4, <1>9 DEF NativeInv

\* Every step keeps the invariant: one case per action.
LEMMA NativeStep ==
    ASSUME NativeInv, NativeNext
    PROVE  NativeInv'
<1>1. ASSUME NEW s \in Sessions, NEW size \in NativeSizes,
             Create(s, size) \/ CreateFails(s, size) \/ NativeMalloc(s, size)
      PROVE  NativeInv'
    BY <1>1, CreateKeeps, CreateFailsKeeps, NativeMallocKeeps
<1>2. CASE CreateExhausted
    BY <1>2, CreateExhaustedKeeps
<1>3. ASSUME NEW s \in Sessions, NEW b \in blocks[s], NativeFree(s, b)
      PROVE  NativeInv'
    BY <1>3, NativeFreeKeeps
<1>4. ASSUME NEW s \in Sessions, NEW b \in blocks[s], NEW size \in NativeSizes,
             NativeRealloc(s, b, size)
      PROVE  NativeInv'
    BY <1>4, NativeReallocKeeps
<1>5. ASSUME NEW s \in Sessions, NEW order \in FreeOrders(s), Release(s, order)
      PROVE  NativeInv'
    BY <1>5, ReleaseKeeps
<1>6. ASSUME NEW s \in Sessions, NEW order \in FreeOrders(s), NEW src \in Sessions,
             MoveSession(s, src, order)
      PROVE  NativeInv'
    BY <1>6, MoveSessionKeeps
<1>7. CASE ArenaStep
    BY <1>7, ArenaStepKeeps
<1> QED BY <1>1, <1>2, <1>3, <1>4, <1>5, <1>6, <1>7, Zenon DEF NativeNext

\* Neither does a step that changes nothing disturb it.
LEMMA NativeStutter == NativeInv /\ UNCHANGED nativeVars => NativeInv'
<1> SUFFICES ASSUME NativeInv, UNCHANGED nativeVars PROVE NativeInv'
    OBVIOUS
<1>1. UNCHANGED <<arenaVars, views, poolVars, sessionVars>> /\ pins' = pins /\ holders' = holders
    BY DEF nativeVars, vars, pinVars
<1>2. (IsFiniteSet(holders))' /\ (holders \subseteq Holders)' /\ (pins = Cardinality(holders))'
    BY <1>1 DEF NativeInv, ArenaInv
<1>3. \A s \in Sessions : s \in holders' <=> s \in holders
    BY <1>1
<1> QED BY <1>1, <1>2, <1>3, PinStepKeeps

\* The invariant holds in every reachable state.
LEMMA NativeInductive == NativeSpec => []NativeInv
<1>1. NativeInv /\ [NativeNext]_nativeVars => NativeInv'
    BY NativeStep, NativeStutter
<1> QED BY NativeInitial, <1>1, PTL DEF NativeSpec

\* A session's pin keeps the arena from being reset while the session exists, so
\* that each require_valid check on the generation passes and release() reaches
\* the library's cleanup, however sessions are created, moved and released.
THEOREM SessionsOutliveNoMemory == NativeSpec => []SessionMemoryIntact
<1>1. NativeInv => SessionMemoryIntact
  <2> SUFFICES ASSUME NativeInv, NEW s \in Sessions, Active(s)
               PROVE  /\ s \in holders /\ sessionGeneration[s] = generation
                      /\ \A b \in blocks[s] : b.gen = generation
      BY DEF SessionMemoryIntact
  <2>1. s \in holders /\ sessionGeneration[s] = generation
      BY DEF NativeInv, SessionInv, Active
  <2>2. \A b \in blocks[s] : b \in Parts(blocks, SyncFreeList)
      BY Zenon DEF Parts
  <2>3. \A b \in Parts(blocks, SyncFreeList) : b.gen = generation
      BY Zenon DEF NativeInv, MemorySound, Sound
  <2> QED BY <2>1, <2>2, <2>3, ZenonT(30)
<1> QED BY NativeInductive, <1>1, PTL

\* live_pins_ counts exactly the ArenaPin objects that hold a pin, and a session
\* holds one only while it is active: however creations fail and pins and sessions
\* are moved and released, an arena nobody uses can be reset and destroyed.
THEOREM PinsAreReturned == NativeSpec => []NoPinLeaked
<1>1. NativeInv => NoPinLeaked
    BY DEF NativeInv, ArenaInv, SessionInv, NoPinLeaked
<1> QED BY NativeInductive, <1>1, PTL

\* While a pin is held, reset() is refused and every other step only adds.
LEMMA PinnedStep ==
    ASSUME NativeInv, NativeNext, holders # {}
    PROVE  generation' = generation /\ offset' >= offset
<1>1. ArenaInv /\ MemorySound /\ offset \in Nat /\ MaximumCapacity \in Nat
    BY CapacityAssumption DEF NativeInv, ArenaInv
<1>2. ASSUME NEW s \in Sessions, NEW size \in NativeSizes, Malloc(size)
      PROVE  generation' = generation /\ offset' >= offset
  <2>1. generation' = generation /\ offset' \in offset .. MaximumCapacity
      BY <1>1, <1>2, MallocKeeps
  <2> QED BY <1>1, <2>1
<1>3. CASE UNCHANGED arenaVars
    BY <1>1, <1>3 DEF arenaVars
<1>4. ASSUME NEW s \in Sessions, NEW size \in NativeSizes,
             Create(s, size) \/ CreateFails(s, size) \/ NativeMalloc(s, size)
      PROVE  generation' = generation /\ offset' >= offset
    BY <1>2, <1>4 DEF Create, CreateFails, NativeMalloc
<1>5. CASE CreateExhausted
    BY <1>3, <1>5 DEF CreateExhausted, vars
<1>6. ASSUME NEW s \in Sessions, NEW b \in blocks[s], NativeFree(s, b)
      PROVE  generation' = generation /\ offset' >= offset
    BY <1>3, <1>6, ZenonT(30) DEF NativeFree, vars
<1>7. ASSUME NEW s \in Sessions, NEW b \in blocks[s], NEW size \in NativeSizes,
             NativeRealloc(s, b, size)
      PROVE  generation' = generation /\ offset' >= offset
    BY <1>2, <1>7 DEF NativeRealloc
<1>8. ASSUME NEW s \in Sessions, NEW order \in FreeOrders(s),
             Release(s, order) \/ \E src \in Sessions : MoveSession(s, src, order)
      PROVE  generation' = generation /\ offset' >= offset
    BY <1>3, <1>8 DEF Release, MoveSession
<1>9. CASE ArenaStep
  <2>1. ASSUME NEW n \in Sizes, NEW a \in Alignments, TryAllocate(n, a)
        PROVE  generation' = generation /\ offset' >= offset
    <3>1. CASE Allocate(n, a)
      <4>1. generation' = generation /\ offset' = AlignedOffset(a) + n /\ n \in Nat /\ a \in Nat \ {0}
          BY <3>1, BoundAssumption DEF Allocate
      <4>2. AlignedOffset(a) \in offset .. offset + a - 1
          BY <1>1, <4>1, PaddingFacts
      <4> HIDE DEF AlignedOffset
      <4> QED BY <1>1, <4>1, <4>2
    <3> QED BY <1>3, <2>1, <3>1 DEF TryAllocate
  <2>2. ASSUME NEW g, Reset(g) PROVE FALSE
    <3>1. IsFiniteSet(holders) /\ Cardinality(holders) = 0
        BY <1>1, <2>2 DEF Reset, MayReset, ArenaInv
    <3> QED BY <3>1, FS_EmptySet
  <2>3. ASSUME NEW h, Pin(h) \/ ReleasePin(h) PROVE UNCHANGED arenaVars
      BY <2>3 DEF Pin, ReleasePin
  <2>4. ASSUME NEW dst, NEW src, MovePin(dst, src) PROVE UNCHANGED arenaVars
      BY <2>4 DEF MovePin
  <2>5. QuiescentBoundary \/ Destroy \/ Ended => UNCHANGED arenaVars
      BY DEF QuiescentBoundary, Destroy, Ended, vars
  <2>6. ASSUME NEW n, OthersReserve(n) \/ OthersRelease(n) PROVE UNCHANGED arenaVars
      BY <2>6 DEF OthersReserve, OthersRelease
  <2> QED BY <1>3, <1>9, <2>1, <2>2, <2>3, <2>4, <2>5, <2>6, ZenonT(30) DEF ArenaStep, ArenaNext
<1> QED BY <1>4, <1>5, <1>6, <1>7, <1>8, <1>9, Zenon DEF NativeNext

\* While any ArenaPin is alive no reset happens and no byte handed out is taken
\* back: the generation stays and the used part only grows.
THEOREM PinnedArenaStays == NativeSpec => PinnedStays
<1>1. NativeInv /\ [NativeNext]_nativeVars
        => [holders # {} => generation' = generation /\ offset' >= offset]_vars
  <2>1. ASSUME UNCHANGED nativeVars PROVE UNCHANGED vars
      BY <2>1 DEF nativeVars
  <2> QED BY <2>1, PinnedStep
<1> QED BY NativeInductive, <1>1, PTL DEF NativeSpec, PinnedStays

\* Blocks and views apart as offsets share no byte.
LEMMA ApartIsDisjoint ==
    ASSUME NEW p \in Int, NEW q \in Int, NEW r \in Int, NEW t \in Int, q <= r \/ t <= p
    PROVE  (p .. q - 1) \cap (r .. t - 1) = {}
OBVIOUS

\* No memory is handed out twice: the blocks that libraries hold, those on the
\* pool's free list and the views that ArenaView::bytes still hands out share no
\* byte, whatever was freed, moved between sessions or reset before.
THEOREM MemoryIsNotShared == NativeSpec => []NoAliasing
<1>1. NativeInv => NoAliasing
  <2> SUFFICES ASSUME NativeInv PROVE NoAliasing
      OBVIOUS
  <2> DEFINE list == SyncFreeList
             free == {list[i] : i \in DOMAIN list}
             all == SessionBlocks \cup free
  <2>1. all = Parts(blocks, list) /\ free = Range(list)
      BY Zenon DEF Parts, SessionBlocks, Range
  <2>2. blocks \in Holdings /\ list \in Seq(Blocks) /\ OneOwner(blocks, list)
        /\ Laid(all, Shown, offset)
      BY <2>1, ZenonT(30) DEF NativeInv, MemorySound, Sound
  <2>3. all \in SUBSET Blocks /\ Shown \in SUBSET Views /\ offset \in Nat
    <3>1. Shown \subseteq views
        BY ZenonT(30) DEF Shown
    <3>2. Parts(blocks, list) \in SUBSET Blocks
        BY <2>2, PartsAreBlocks, ZenonT(30)
    <3>3. views \subseteq Views /\ offset \in Nat
        BY CapacityAssumption DEF NativeInv, ArenaInv
    <3> QED BY <2>1, <3>1, <3>2, <3>3
  <2>4. \A s, t \in Sessions : s # t => blocks[s] \cap blocks[t] = {}
      BY <2>2 DEF OneOwner
  <2>5. Cardinality(free) = Len(list)
    <3> DEFINE n == Len(list)
    <3>1. n \in Nat /\ list \in [1 .. n -> Range(list)]
        BY <2>2 DEF Range
    <3>2. /\ \A i, j \in 1 .. n : list[i] = list[j] => i = j
          /\ \A b \in Range(list) : \E i \in 1 .. n : list[i] = b
      <4>1. DOMAIN list = 1 .. n
          BY <2>2
      <4> QED BY <2>2, <4>1, Zenon DEF OneOwner, Range
    <3>3. list \in Bijection(1 .. n, Range(list))
      <4>1. DOMAIN list = 1 .. n
          BY <2>2
      <4> HIDE DEF list
      <4> QED BY <3>1, <3>2, <4>1, Zenon DEF Bijection, Injection, Surjection, IsInjective
    <3>4. ExistsBijection(1 .. n, Range(list))
        BY <3>3 DEF ExistsBijection
    <3>5. IsFiniteSet(1 .. n) /\ Cardinality(1 .. n) = n
        BY <3>1, FS_Interval
    <3> HIDE DEF n, list, free
    <3>6. Cardinality(Range(list)) = Cardinality(1 .. n)
        BY <3>4, <3>5, FS_Bijection
    <3> QED BY <2>1, <3>5, <3>6 DEF n
  <2>6. SessionBlocks \cap free = {}
      BY <2>2 DEF OneOwner, SessionBlocks
  <2> HIDE DEF all
  <2>7. ASSUME NEW b \in all
        PROVE  /\ Extent(b) \subseteq 0 .. (offset - 1)
               /\ \A c \in all \ {b} : Extent(b) \cap Extent(c) = {}
               /\ \A v \in Shown : Extent(b) \cap Span(v) = {}
    <3>1. \A c \in all : /\ c.start \in Nat /\ BlockEnd(c) \in Nat /\ BlockEnd(c) <= offset
                         /\ Extent(c) = c.start .. BlockEnd(c) - 1
      <4> SUFFICES ASSUME NEW c \in all
                   PROVE  /\ c.start \in Nat /\ BlockEnd(c) \in Nat /\ BlockEnd(c) <= offset
                          /\ Extent(c) = c.start .. BlockEnd(c) - 1
          OBVIOUS
      <4>1. c.start \in Nat /\ BlockEnd(c) \in Nat
          BY <2>3, BlockType
      <4>2. BlockEnd(c) <= offset
          BY <2>2 DEF Laid
      <4>3. Extent(c) = c.start .. BlockEnd(c) - 1
        <5>1. c.capacity \in Nat /\ HeaderSize \in Nat
            BY <2>3, BlockType
        <5> QED BY <4>1, <5>1 DEF Extent, BlockEnd
      <4> QED BY <4>1, <4>2, <4>3
    <3>2. Extent(b) \subseteq 0 .. (offset - 1)
        BY <2>3, <3>1
    <3>3. ASSUME NEW c \in all \ {b} PROVE Extent(b) \cap Extent(c) = {}
      <4>1. BlockEnd(b) <= c.start \/ BlockEnd(c) <= b.start
          BY <2>2 DEF Laid
      <4> QED BY <3>1, <4>1, ApartIsDisjoint
    <3>4. ASSUME NEW v \in Shown PROVE Extent(b) \cap Span(v) = {}
      <4>1. v.start \in Nat /\ ViewEnd(v) \in Nat /\ v.size \in Nat /\ ViewEnd(v) = v.start + v.size
          BY <2>3, ViewType
      <4>2. Span(v) = v.start .. ViewEnd(v) - 1
          BY <4>1 DEF Span
      <4>3. v.size = 0 \/ BlockEnd(b) <= v.start \/ ViewEnd(v) <= b.start
          BY <2>2 DEF Laid
      <4>4. CASE v.size = 0
          BY <4>1, <4>2, <4>4
      <4> QED BY <3>1, <4>1, <4>2, <4>3, <4>4, ApartIsDisjoint
    <3> QED BY <3>2, <3>3, <3>4
  <2>8. ASSUME NEW v \in Shown
        PROVE  /\ Span(v) \subseteq 0 .. (offset - 1)
               /\ \A w \in Shown \ {v} : Span(v) \cap Span(w) = {}
    <3>1. \A w \in Shown : /\ w.start \in Nat /\ ViewEnd(w) \in Nat /\ w.size \in Nat
                           /\ ViewEnd(w) = w.start + w.size /\ Span(w) = w.start .. ViewEnd(w) - 1
      <4> SUFFICES ASSUME NEW w \in Shown
                   PROVE  /\ w.start \in Nat /\ ViewEnd(w) \in Nat /\ w.size \in Nat
                          /\ ViewEnd(w) = w.start + w.size /\ Span(w) = w.start .. ViewEnd(w) - 1
          OBVIOUS
      <4>1. w.start \in Nat /\ ViewEnd(w) \in Nat /\ w.size \in Nat /\ ViewEnd(w) = w.start + w.size
          BY <2>3, ViewType
      <4>2. Span(w) = w.start .. ViewEnd(w) - 1
          BY <4>1 DEF Span
      <4> QED BY <4>1, <4>2
    <3>2. \A w \in Shown : w.size = 0 => Span(w) = {}
        BY <3>1
    <3>3. Span(v) \subseteq 0 .. (offset - 1)
      <4>1. v.size = 0 \/ ViewEnd(v) <= offset
          BY <2>2 DEF Laid
      <4> QED BY <2>3, <3>1, <3>2, <4>1
    <3>4. ASSUME NEW w \in Shown \ {v} PROVE Span(v) \cap Span(w) = {}
      <4>1. v.size = 0 \/ w.size = 0 \/ ViewEnd(v) <= w.start \/ ViewEnd(w) <= v.start
          BY <2>2 DEF Laid
      <4> QED BY <3>1, <3>2, <4>1, ApartIsDisjoint
    <3> QED BY <3>3, <3>4
  <2> QED BY <2>4, <2>5, <2>6, <2>7, <2>8, Zenon DEF NoAliasing, all, Shown
<1> QED BY NativeInductive, <1>1, PTL

-----------------------------------------------------------------------------
(* The charge.                                                             *)

ChargeInv ==
    /\ capacity \in 0 .. MaximumCapacity
    /\ active \in BOOLEAN
    /\ others \in Nat
    /\ offset \in Nat
    /\ CapacityCharged

chargeVars == <<capacity, offset, active, reserved, others>>

\* The charge depends on these variables alone.
LEMMA ChargeStays == ChargeInv /\ UNCHANGED chargeVars => ChargeInv'
BY DEF ChargeInv, chargeVars, CapacityCharged

\* A successful allocation charges what the capacity grows by.
LEMMA AllocateCharges ==
    ASSUME ChargeInv, NEW n \in Nat, NEW a \in Nat \ {0}, Allocate(n, a), others' = others
    PROVE  ChargeInv'
<1> DEFINE q == AlignedOffset(a) + n
<1>1. n > 0 /\ q <= MaximumCapacity /\ EnsureCapacity(q) /\ offset' = q
    BY Zenon DEF Allocate
<1>2. MaximumCapacity \in Nat /\ offset \in Nat /\ capacity \in Nat /\ BudgetLimit \in Nat
    BY CapacityAssumption DEF ChargeInv
<1>3. AlignedOffset(a) \in offset .. offset + a - 1
    BY <1>2, PaddingFacts
<1>4. q \in 1 .. MaximumCapacity
  <2> HIDE DEF AlignedOffset
  <2> QED BY <1>1, <1>2, <1>3
<1> HIDE DEF q
<1>5. CASE q <= capacity
  <2>1. UNCHANGED <<capacity, active, reserved>>
      BY <1>1, <1>5 DEF EnsureCapacity
  <2> QED BY <1>1, <1>2, <1>4, <1>5, <2>1 DEF ChargeInv, CapacityCharged
<1>6. CASE ~(q <= capacity)
  <2>1. PICK larger \in q .. MaximumCapacity : larger = Target(q)
      BY <1>2, <1>4, TargetSuffices DEF ChargeInv
  <2>2. /\ others + reserved + (larger - capacity) <= BudgetLimit
        /\ reserved' = reserved + (larger - capacity) /\ capacity' = larger /\ active' = TRUE
      BY <1>1, <1>6, <2>1 DEF EnsureCapacity, BudgetRoom, Growth
  <2> QED BY <1>1, <1>2, <1>4, <1>6, <2>1, <2>2 DEF ChargeInv, CapacityCharged
<1> QED BY <1>5, <1>6

\* arena_malloc charges what it makes the arena grow.
LEMMA MallocCharges ==
    ASSUME ChargeInv, NEW size \in NativeSizes, Malloc(size), others' = others
    PROVE  ChargeInv'
<1>1. CASE Fits(size) # {}
    BY <1>1, ChargeStays DEF Malloc, arenaVars, chargeVars
<1>2. CASE Fits(size) = {}
  <2>1. Allocate(HeaderSize + BlockSize(size), NativeAlignment)
      BY <1>2, Zenon DEF Malloc
  <2>2. HeaderSize + BlockSize(size) \in Nat /\ NativeAlignment \in Nat \ {0}
      BY NativeAssumption DEF BlockSize
  <2> QED BY <2>1, <2>2, AllocateCharges
<1> QED BY <1>1, <1>2

\* No step lets charge and capacity differ.
LEMMA ChargeStep ==
    ASSUME ChargeInv, NativeNext
    PROVE  ChargeInv'
<1>1. CASE UNCHANGED <<arenaVars, others>>
    BY <1>1, ChargeStays, ZenonT(30) DEF arenaVars, chargeVars
<1>2. ASSUME NEW s \in Sessions, NEW size \in NativeSizes,
             Create(s, size) \/ CreateFails(s, size) \/ NativeMalloc(s, size)
      PROVE  ChargeInv'
    BY <1>2, MallocCharges DEF Create, CreateFails, NativeMalloc
<1>3. CASE CreateExhausted
    BY <1>1, <1>3, ZenonT(30) DEF CreateExhausted, vars
<1>4. ASSUME NEW s \in Sessions, NEW b \in blocks[s], NativeFree(s, b)
      PROVE  ChargeInv'
    BY <1>1, <1>4 DEF NativeFree, vars
<1>5. ASSUME NEW s \in Sessions, NEW b \in blocks[s], NEW size \in NativeSizes,
             NativeRealloc(s, b, size)
      PROVE  ChargeInv'
    BY <1>5, MallocCharges DEF NativeRealloc
<1>6. ASSUME NEW s \in Sessions, NEW order \in FreeOrders(s),
             Release(s, order) \/ \E src \in Sessions : MoveSession(s, src, order)
      PROVE  ChargeInv'
    BY <1>1, <1>6 DEF Release, MoveSession
<1>7. CASE ArenaStep
  <2>1. ASSUME NEW n \in Sizes, NEW a \in Alignments, TryAllocate(n, a) PROVE ChargeInv'
    <3>1. n \in Nat /\ a \in Nat \ {0}
        BY BoundAssumption, ZenonT(30)
    <3>2. others' = others /\ (Allocate(n, a) \/ UNCHANGED arenaVars)
        BY <2>1 DEF TryAllocate
    <3> QED BY <1>1, <3>1, <3>2, AllocateCharges
  <2>2. ASSUME NEW g, Reset(g) PROVE ChargeInv'
    <3>1. /\ active' = FALSE /\ reserved' = 0 /\ capacity' = 0 /\ offset' = 0 /\ others' = others
        BY <2>2 DEF Reset
    <3>2. /\ capacity' \in 0 .. MaximumCapacity /\ others' \in Nat /\ offset' \in Nat
          /\ ~(capacity' > 0) /\ reserved' = capacity' /\ offset' <= capacity'
          /\ others' + reserved' <= BudgetLimit
        BY <3>1, CapacityAssumption DEF ChargeInv, CapacityCharged
    <3> QED BY <3>1, <3>2, Zenon DEF ChargeInv, CapacityCharged
  <2>3. ASSUME NEW h, Pin(h) \/ ReleasePin(h) PROVE UNCHANGED <<arenaVars, others>>
      BY <2>3 DEF Pin, ReleasePin
  <2>4. ASSUME NEW dst, NEW src, MovePin(dst, src) PROVE UNCHANGED <<arenaVars, others>>
      BY <2>4 DEF MovePin
  <2>5. QuiescentBoundary \/ Destroy \/ Ended => UNCHANGED <<arenaVars, others>>
      BY DEF QuiescentBoundary, Destroy, Ended, vars
  <2>6. ASSUME NEW n \in OtherSizes, OthersReserve(n) \/ OthersRelease(n) PROVE ChargeInv'
    <3>1. UNCHANGED <<capacity, offset, active, reserved>> /\ n \in Nat
        BY <2>6, BoundAssumption DEF OthersReserve, OthersRelease, arenaVars
    <3>2. (others' = others + n /\ others + reserved + n <= BudgetLimit)
          \/ (others' = others - n /\ n <= others)
        BY <2>6 DEF OthersReserve, OthersRelease, BudgetRoom
    <3> QED BY <3>1, <3>2, CapacityAssumption DEF ChargeInv, CapacityCharged
  <2> QED BY <1>1, <1>7, <2>1, <2>2, <2>3, <2>4, <2>5, <2>6, ZenonT(30) DEF ArenaStep, ArenaNext
<1> QED BY <1>2, <1>3, <1>4, <1>5, <1>6, <1>7, Zenon DEF NativeNext

\* Charge and capacity agree in every reachable state.
LEMMA ChargeInductive == NativeSpec => []ChargeInv
<1>1. NativeInit => ChargeInv
  <2> SUFFICES ASSUME NativeInit PROVE ChargeInv
      OBVIOUS
  <2>1. active = FALSE /\ capacity = 0 /\ reserved = 0 /\ offset = 0 /\ others = 0
      BY DEF NativeInit, Init
  <2>2. /\ capacity \in 0 .. MaximumCapacity /\ others \in Nat /\ offset \in Nat
        /\ ~(capacity > 0) /\ reserved = capacity /\ offset <= capacity
        /\ others + reserved <= BudgetLimit
      BY <2>1, CapacityAssumption
  <2> QED BY <2>1, <2>2, Zenon DEF ChargeInv, CapacityCharged
<1>2. ChargeInv /\ [NativeNext]_nativeVars => ChargeInv'
  <2>1. ASSUME UNCHANGED nativeVars PROVE UNCHANGED chargeVars
      BY <2>1 DEF nativeVars, vars, arenaVars, chargeVars
  <2> QED BY <2>1, ChargeStep, ChargeStays
<1> QED BY <1>1, <1>2, PTL DEF NativeSpec

\* Every byte handed out since the last reset is accounted for, and the budget is
\* charged for exactly the capacity it comes from.
THEOREM NothingIsLost == NativeSpec => []NoBlockLost
<1>1. NativeInv /\ ChargeInv => NoBlockLost
  <2> SUFFICES ASSUME NativeInv, ChargeInv PROVE NoBlockLost
      OBVIOUS
  <2> DEFINE list == SyncFreeList
             free == {list[i] : i \in DOMAIN list}
             all == SessionBlocks \cup free
             covered == (UNION {Extent(b) : b \in all}) \cup (UNION {Span(v) : v \in Shown})
             starts == {b.start : b \in all} \cup {v.start : v \in Shown}
  <2>1. CapacityCharged
      BY DEF ChargeInv
  <2>2. all = Parts(blocks, list)
      BY Zenon DEF Parts, SessionBlocks, Range
  <2>3. Tiled(all, Shown, offset) /\ blocks \in Holdings /\ list \in Seq(Blocks)
      BY <2>2, Zenon DEF NativeInv, MemorySound, Sound
  <2>4. all \in SUBSET Blocks /\ Shown \in SUBSET Views /\ offset \in Nat
    <3>1. Shown \subseteq views
        BY DEF Shown
    <3>2. Parts(blocks, list) \in SUBSET Blocks
        BY <2>3, PartsAreBlocks
    <3>3. views \subseteq Views /\ offset \in Nat
        BY CapacityAssumption DEF NativeInv, ArenaInv
    <3> QED BY <2>2, <3>1, <3>2, <3>3
  <2> HIDE DEF all
  <2>5. ASSUME NEW byte \in 0 .. (offset - 1), byte \notin covered
        PROVE  \E start \in starts, alignment \in Alignments \cup {NativeAlignment} :
                   /\ start % alignment = 0
                   /\ byte < start /\ start < byte + alignment
    <3>1. ASSUME NEW b \in all PROVE ~(b.start <= byte /\ byte < BlockEnd(b))
      <4>1. byte \notin Extent(b)
          BY <2>5, Zenon
      <4>2. b.start \in Nat /\ b.capacity \in Nat /\ HeaderSize \in Nat /\ byte \in Int
          BY <2>4, BlockType
      <4> QED BY <4>1, <4>2 DEF Extent, BlockEnd
    <3>2. ASSUME NEW v \in Shown PROVE ~(v.start <= byte /\ byte < ViewEnd(v))
      <4>1. byte \notin Span(v)
          BY <2>5, Zenon
      <4>2. v.start \in Nat /\ v.size \in Nat /\ ViewEnd(v) = v.start + v.size /\ byte \in Int
          BY <2>4, ViewType
      <4> QED BY <4>1, <4>2 DEF Span
    <3>3. (\E b \in all : Skipped(byte, b.start)) \/ \E v \in Shown : Skipped(byte, v.start)
      <4>1. byte \in 0 .. offset - 1
          OBVIOUS
      <4> QED BY <2>3, <3>1, <3>2, <4>1, Zenon DEF Tiled
    <3>4. \E start \in starts : Skipped(byte, start)
        BY <3>3, Zenon
    <3> HIDE DEF starts
    <3> QED BY <3>4, Zenon DEF Skipped
  <2> QED BY <2>1, <2>5, Zenon DEF NoBlockLost, all, Shown
<1> QED BY NativeInductive, ChargeInductive, <1>1, PTL

=============================================================================
