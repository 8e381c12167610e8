-------------------------- MODULE DnsResolverProofs --------------------------
(***************************************************************************)
(* Proofs about the resolver, for any number of slots, sockets, tokens,    *)
(* resolvers and sinks inside sinks.                                       *)
(***************************************************************************)
EXTENDS DnsResolver, FiniteSetTheorems, SequenceTheorems, WellFoundedInduction, TLAPS

\* A leaf may take either prover 30 seconds and is given to Z3 a second time: no
\* proof depends on how busy the machine is.
USE SMTT(30), ZenonT(30), Z3T(30)

-----------------------------------------------------------------------------
(* The inductive invariant.                                                *)

Queries == [active : BOOLEAN, token : 0 .. MaxToken]

Entries == [slot : Slots, token : 1 .. MaxToken]

LoopFrames == [kind : {"loop"}, caller : Callers, instance : 1 .. MaxInstance,
               rest : Seq(Entries)]

SinkFrames == [kind : {"sink"}, caller : Callers, instance : 1 .. MaxInstance,
               token : 1 .. MaxToken]

Active == {s \in Slots : slots[s].active}

\* There is a resolver at most, the last one created, and c-ares is initialized
\* as long as there is.
LifeInv ==
    /\ library \in BOOLEAN
    /\ created \in 0 .. MaxInstance /\ instance \in {0, created}
    /\ liveResolvers = IF instance = 0 THEN 0 ELSE 1
    /\ instance # 0 => library = TRUE

\* Active queries have tokens of their own that were handed out and not yet
\* answered; no token that is still to come has been answered.
TokenInv ==
    /\ slots \in [Slots -> Queries]
    /\ nextToken \in 0 .. MaxToken
    /\ delivered \in [Tokens -> Nat]
    /\ instance = 0 => \A s \in Slots : slots[s].active = FALSE
    /\ \A s \in Slots : slots[s].active =>
          /\ slots[s].token # 0
          /\ nextToken # 0 => slots[s].token < nextToken
          /\ delivered[<<instance, slots[s].token>>] = 0
    /\ \A s, u \in Slots :
          s # u /\ slots[s].active /\ slots[u].active => slots[s].token # slots[u].token
    /\ \A t \in Tokens : delivered[t] <= 1
    /\ \A i \in 1 .. MaxInstance, k \in 1 .. MaxToken :
          i > created => delivered[<<i, k>>] = 0
    /\ instance # 0 /\ nextToken # 0 =>
          \A k \in 1 .. MaxToken : k >= nextToken => delivered[<<instance, k>>] = 0

\* The counter and the socket table follow the active queries.
TableInv ==
    /\ outstanding = Cardinality(Active) /\ outstanding <= Limit
    /\ sockets \in [Descriptors -> 0 .. Capacity]
    /\ \A d \in Descriptors : sockets[d] # 0 => slots[sockets[d]].active
    /\ Cardinality(Registered) <= MaxSockets

AllSinks(q) == \A i \in 1 .. Len(q) : q[i].kind = "sink"

\* Only the innermost call can be a loop: every call is made outside of all calls
\* or in a sink, and a loop that runs a sink does not come back to its queries.
StackInv ==
    /\ stack \in Seq(LoopFrames \cup SinkFrames)
    /\ \A i \in 1 .. Len(stack) - 1 : stack[i].kind = "sink"
    /\ stack # <<>> /\ stack[Len(stack)].kind = "loop" =>
          /\ stack[Len(stack)].instance = instance
          /\ \A k \in 1 .. Len(stack[Len(stack)].rest) : StillThere(stack[Len(stack)].rest[k])

IInv == LifeInv /\ TokenInv /\ TableInv /\ StackInv

-----------------------------------------------------------------------------
(* The loop of process_timeout that remembers the active queries.          *)

LEMMA LeastNumber ==
    ASSUME NEW S \in SUBSET Nat, S # {}
    PROVE  \E n \in S : \A m \in S : n <= m
<1> DEFINE less == {ss \in Nat \X Nat : ss[1] < ss[2]}
<1>1. IsWellFoundedOn(less, Nat)
    BY NatLessThanWellFounded DEF OpToRel
<1> HIDE DEF less
<1>2. PICK n \in S : \A m \in S : <<m, n>> \notin less
    BY <1>1, WFMin, Zenon
<1>3. ASSUME NEW m \in S PROVE n <= m
  <2>1. <<m, n>> \notin less
      BY <1>2
  <2> QED BY <2>1 DEF less
<1> QED BY <1>2, <1>3

\* One turn of the loop, on what the turns before have collected.
Turn(f, n) ==
    IF n = 0 THEN <<>>
    ELSE IF slots[n].active THEN Append(f[n - 1], Pending(n))
    ELSE f[n - 1]

Collects(f, k) == f = [n \in 0 .. k |-> Turn(f, n)]

\* The loop can go on for one more turn, so it can go on to the last slot.
LEMMA CollectedExists == \E f : Collects(f, Capacity)
<1> DEFINE missing == {k \in 0 .. Capacity : ~\E f : Collects(f, k)}
<1> SUFFICES ASSUME missing # {} PROVE FALSE
    BY DnsAssumption
<1>1. PICK k \in missing : \A m \in missing : k <= m
  <2>1. missing \in SUBSET Nat
      OBVIOUS
  <2> HIDE DEF missing
  <2> QED BY <2>1, LeastNumber
<1>2. k # 0
  <2> SUFFICES ASSUME k = 0 PROVE FALSE
      OBVIOUS
  <2>1. PICK f : f = [n \in {0} |-> <<>>]
      BY Zenon
  <2>2. f = [n \in 0 .. 0 |-> Turn(f, n)]
    <3>1. 0 .. 0 = {0} /\ Turn(f, 0) = <<>>
        BY DEF Turn
    <3> QED BY <2>1, <3>1
  <2> QED BY <2>2 DEF Collects
<1>3. k \in Nat /\ k - 1 \in 0 .. Capacity /\ k - 1 \notin missing
  <2>1. k \in 1 .. Capacity
      BY <1>2
  <2>2. k - 1 \in 0 .. Capacity /\ ~(k <= k - 1)
      BY <2>1, DnsAssumption
  <2> QED BY <1>1, <2>1, <2>2
<1>4. PICK f : Collects(f, k - 1)
    BY <1>3
<1>5. PICK g : g = [n \in 0 .. k |-> IF n = k THEN Turn(f, k) ELSE f[n]]
    BY Zenon
<1>6. ASSUME NEW n \in 0 .. k PROVE g[n] = Turn(g, n)
  <2>1. n = 0 \/ n - 1 \in 0 .. k - 1
      BY <1>3
  <2>2. n # 0 => g[n - 1] = f[n - 1]
      BY <1>3, <1>5, <2>1
  <2>3. Turn(g, n) = Turn(f, n)
      BY <2>2 DEF Turn
  <2>4. CASE n = k
      BY <1>5, <2>3, <2>4
  <2>5. CASE n # k
    <3>1. n \in 0 .. k - 1
        BY <1>3, <2>5
    <3>2. f[n] = Turn(f, n)
        BY <1>4, <3>1 DEF Collects
    <3> QED BY <1>5, <2>3, <2>5, <3>2
  <2> QED BY <2>4, <2>5
<1>7. Collects(g, k)
  <2>1. g = [n \in 0 .. k |-> g[n]]
      BY <1>5
  <2> QED BY <1>6, <2>1 DEF Collects
<1> QED BY <1>7

LEMMA CollectedTurns ==
    \A n \in 0 .. Capacity : Collected[n] = Turn(Collected, n)
<1>1. Collects(Collected, Capacity)
    BY CollectedExists, Zenon DEF Collected, Collects, Turn
<1> QED BY <1>1, Zenon DEF Collects

\* Every query that process_timeout remembers is active in its slot.
LEMMA PendingFacts ==
    ASSUME TokenInv
    PROVE  /\ PendingQueries \in Seq(Entries)
           /\ \A k \in 1 .. Len(PendingQueries) : StillThere(PendingQueries[k])
<1> DEFINE there == {e \in Entries : StillThere(e)}
           bad == {n \in 0 .. Capacity : Collected[n] \notin Seq(there)}
<1>1. ASSUME NEW n \in Slots, slots[n].active PROVE Pending(n) \in there
  <2>1. slots[n].token \in 1 .. MaxToken
    <3>1. slots[n] \in Queries /\ slots[n].token # 0
        BY <1>1, Zenon DEF TokenInv
    <3>2. slots[n].token \in 0 .. MaxToken
        BY <3>1 DEF Queries
    <3> QED BY <3>1, <3>2, DnsAssumption
  <2>2. Pending(n) \in Entries /\ Pending(n).slot = n /\ Pending(n).token = slots[n].token
      BY <2>1 DEF Pending, Entries
  <2> QED BY <1>1, <2>2 DEF StillThere
<1>2. bad = {}
  <2> SUFFICES ASSUME bad # {} PROVE FALSE
      OBVIOUS
  <2>1. PICK n \in bad : \A m \in bad : n <= m
    <3>1. bad \in SUBSET Nat
        OBVIOUS
    <3> HIDE DEF bad
    <3> QED BY <3>1, LeastNumber
  <2>2. n \in 0 .. Capacity /\ Collected[n] = Turn(Collected, n) /\ Collected[n] \notin Seq(there)
      BY CollectedTurns
  <2>3. n # 0
      BY <2>2 DEF Turn
  <2>4. n \in Slots /\ n - 1 \in 0 .. Capacity /\ ~(n <= n - 1)
      BY <2>2, <2>3, DnsAssumption DEF Slots
  <2>5. Collected[n - 1] \in Seq(there)
      BY <2>1, <2>4
  <2> HIDE DEF there
  <2> QED BY <1>1, <2>2, <2>3, <2>4, <2>5 DEF Turn
<1>3. PendingQueries \in Seq(there)
    BY <1>2, DnsAssumption DEF PendingQueries, ServedSlots
<1> QED BY <1>3

-----------------------------------------------------------------------------
(* Lemmas about the stack, the slots and the sockets.                      *)

Calls == Seq(LoopFrames \cup SinkFrames)

\* A stack of sinks asks nothing of the resolver.
LEMMA SinkStack ==
    ASSUME stack' \in Calls, AllSinks(stack')
    PROVE  StackInv'
<1>1. Len(stack') \in Nat /\ (stack' # <<>> => Len(stack') \in 1 .. Len(stack'))
    BY DEF Calls
<1>2. \A i \in 1 .. Len(stack') : stack'[i].kind = "sink"
    BY DEF AllSinks
<1>3. \A i \in 1 .. Len(stack') - 1 : stack'[i].kind = "sink"
    BY <1>1, <1>2
<1>4. stack' # <<>> => stack'[Len(stack')].kind # "loop"
    BY <1>1, <1>2
<1> QED BY <1>3, <1>4 DEF StackInv, Calls

LEMMA CallerFacts ==
    ASSUME StackInv, MayCall
    PROVE  stack \in Calls /\ AllSinks(stack)
<1>1. Len(stack) \in Nat /\ (Len(stack) # 0 => stack # <<>>)
    BY DEF StackInv
<1>2. \A i \in 1 .. Len(stack) : i \in 1 .. Len(stack) - 1 \/ (i = Len(stack) /\ Len(stack) # 0)
    BY <1>1
<1> QED BY <1>1, <1>2 DEF StackInv, MayCall, Top, Calls, AllSinks

LEMMA PoppedFacts ==
    ASSUME StackInv, stack # <<>>
    PROVE  Popped \in Calls /\ AllSinks(Popped)
<1> DEFINE n == Len(stack) - 1
<1>1. /\ stack \in Calls /\ n \in Nat /\ n \in Int /\ 1 \in Int
      /\ \A i \in 1 .. n : stack[i] \in LoopFrames \cup SinkFrames
    BY DEF StackInv, Calls
<1> HIDE DEF n
<1>2. /\ SubSeq(stack, 1, n) \in Calls
      /\ Len(SubSeq(stack, 1, n)) = IF 1 <= n THEN n - 1 + 1 ELSE 0
      /\ \A i \in 1 .. n - 1 + 1 : SubSeq(stack, 1, n)[i] = stack[1 + i - 1]
    BY <1>1, SubSeqProperties DEF Calls
<1>3. /\ Len(SubSeq(stack, 1, n)) = n
      /\ \A i \in 1 .. n : SubSeq(stack, 1, n)[i] = stack[i]
    BY <1>1, <1>2
<1>4. Popped = SubSeq(stack, 1, n)
    BY DEF Popped, n
<1>5. \A i \in 1 .. n : stack[i].kind = "sink"
    BY DEF StackInv, n
<1> QED BY <1>2, <1>3, <1>4, <1>5, Zenon DEF AllSinks

LEMMA TopFacts ==
    ASSUME StackInv, stack # <<>>
    PROVE  Top \in LoopFrames \cup SinkFrames
<1>1. Len(stack) \in 1 .. Len(stack)
    BY DEF StackInv
<1> QED BY <1>1 DEF StackInv, Top

LEMMA PushSink ==
    ASSUME NEW b \in Calls, AllSinks(b), NEW f \in SinkFrames, stack' = Append(b, f)
    PROVE  StackInv'
<1>1. f.kind = "sink"
    BY DEF SinkFrames
<1>2. /\ stack' \in Calls /\ Len(stack') = Len(b) + 1 /\ Len(b) \in Nat
      /\ stack'[Len(b) + 1] = f /\ \A i \in 1 .. Len(b) : stack'[i] = b[i]
    BY DEF Calls
<1>3. ASSUME NEW i \in 1 .. Len(stack') PROVE stack'[i].kind = "sink"
  <2>1. i = Len(b) + 1 \/ i \in 1 .. Len(b)
      BY <1>2
  <2> QED BY <1>1, <1>2, <2>1 DEF AllSinks
<1> QED BY <1>2, <1>3, SinkStack DEF AllSinks

LEMMA PushLoop ==
    ASSUME NEW b \in Calls, AllSinks(b), NEW f \in LoopFrames, stack' = Append(b, f),
           f.instance = instance', \A k \in 1 .. Len(f.rest) : StillThere(f.rest[k])'
    PROVE  StackInv'
<1>1. /\ stack' \in Calls /\ Len(stack') = Len(b) + 1 /\ Len(b) \in Nat
      /\ stack'[Len(b) + 1] = f /\ \A i \in 1 .. Len(b) : stack'[i] = b[i]
    BY DEF Calls
<1>2. \A i \in 1 .. Len(stack') - 1 : stack'[i].kind = "sink"
  <2>1. Len(stack') - 1 = Len(b)
      BY <1>1
  <2> QED BY <1>1, <2>1 DEF AllSinks
<1>3. stack'[Len(stack')] = f
    BY <1>1
<1> QED BY <1>1, <1>2, <1>3 DEF StackInv, Calls

LEMMA SlotFacts ==
    ASSUME TokenInv
    PROVE  /\ IsFiniteSet(Slots) /\ IsFiniteSet(Active) /\ Cardinality(Active) \in Nat
           /\ \A s \in Slots : /\ slots[s] \in Queries /\ slots[s].active \in BOOLEAN
                                /\ slots[s].token \in 0 .. MaxToken
<1>1. IsFiniteSet(Slots)
    BY FS_Interval, DnsAssumption DEF Slots
<1>2. IsFiniteSet(Active) /\ Cardinality(Active) \in Nat
    BY <1>1, FS_Subset, FS_CardinalityType DEF Active
<1>3. \A s \in Slots : slots[s] \in Queries
    BY DEF TokenInv
<1> QED BY <1>1, <1>2, <1>3 DEF Queries

\* Closing sockets makes room.
LEMMA FewerSockets ==
    ASSUME TableInv, sockets' \in [Descriptors -> 0 .. Capacity], Registered' \subseteq Registered
    PROVE  Cardinality(Registered') <= MaxSockets
<1>1. IsFiniteSet(Registered)
    BY DnsAssumption, FS_Subset DEF Registered
<1>2. Cardinality(Registered') <= Cardinality(Registered) /\ IsFiniteSet(Registered')
    BY <1>1, FS_Subset
<1>3. Cardinality(Registered') \in Nat /\ Cardinality(Registered) \in Nat
    BY <1>1, <1>2, FS_CardinalityType
<1> QED BY <1>2, <1>3, DnsAssumption DEF TableInv

\* The token of an active query, and of one that resolve() makes.
LEMMA TokenFacts ==
    ASSUME IInv, instance # 0, NEW k \in 1 .. MaxToken
    PROVE  /\ <<instance, k>> \in Tokens /\ instance \in 1 .. MaxInstance
           /\ delivered[<<instance, k>>] \in Nat
<1>1. instance \in 1 .. MaxInstance
    BY DnsAssumption DEF IInv, LifeInv
<1> QED BY <1>1 DEF Tokens, IInv, TokenInv

\* Telling the sink of one token changes nothing for the others.
LEMMA DeliveredOnce ==
    ASSUME IInv, instance # 0, NEW k \in 1 .. MaxToken, delivered[<<instance, k>>] = 0,
           delivered' = [delivered EXCEPT ![<<instance, k>>] = @ + 1]
    PROVE  /\ delivered' \in [Tokens -> Nat] /\ \A t \in Tokens : delivered'[t] <= 1
           /\ \A i \in 1 .. MaxInstance, m \in 1 .. MaxToken :
                 i # instance \/ m # k => delivered'[<<i, m>>] = delivered[<<i, m>>]
<1>1. <<instance, k>> \in Tokens /\ instance \in 1 .. MaxInstance
    BY TokenFacts
<1>2. delivered \in [Tokens -> Nat] /\ \A t \in Tokens : delivered[t] <= 1
    BY DEF IInv, TokenInv
<1>3. delivered' = [delivered EXCEPT ![<<instance, k>>] = 1]
    BY <1>2
<1>4. \A i \in 1 .. MaxInstance, m \in 1 .. MaxToken :
         <<i, m>> \in Tokens /\ (<<i, m>> = <<instance, k>> => i = instance /\ m = k)
    BY DEF Tokens
<1> HIDE DEF Tokens
<1> QED BY <1>1, <1>2, <1>3, <1>4

\* Parts of the state that a step leaves alone.
LEMMA SameTokens ==
    ASSUME TokenInv, UNCHANGED <<slots, nextToken, delivered, instance, created>>
    PROVE  TokenInv'
BY DEF TokenInv

LEMMA SameTable ==
    ASSUME TableInv, UNCHANGED <<slots, outstanding, sockets>>
    PROVE  TableInv'
BY DEF TableInv, Active, Registered

LEMMA SameQueries ==
    ASSUME TableInv, UNCHANGED <<outstanding, sockets>>,
           \A u \in Slots : slots'[u].active = slots[u].active
    PROVE  TableInv'
<1>1. Active' = Active
    BY DEF Active
<1>2. \A d \in Descriptors : sockets[d] # 0 => sockets[d] \in Slots
    BY DnsAssumption DEF TableInv, Slots
<1>3. \A d \in Descriptors : sockets'[d] # 0 => slots'[sockets'[d]].active
    BY <1>2 DEF TableInv
<1> QED BY <1>1, <1>3 DEF TableInv, Registered

LEMMA SameLife ==
    ASSUME LifeInv, UNCHANGED <<library, liveResolvers, instance, created>>
    PROVE  LifeInv'
BY DEF LifeInv

-----------------------------------------------------------------------------
(* The library and the resolver.                                           *)

LEMMA WorkerSteps ==
    ASSUME IInv, WorkerInitialize \/ WorkerCleanup
    PROVE  IInv'
<1>1. /\ MayCall /\ liveResolvers = 0 /\ library' \in BOOLEAN
      /\ UNCHANGED <<liveResolvers, instance, created, slots, outstanding, nextToken, sockets,
                     due, stack, delivered>>
    BY Zenon DEF WorkerInitialize, WorkerCleanup, CleanupAllowed, resolverVars
<1>2. LifeInv'
    BY <1>1 DEF IInv, LifeInv
<1>3. TokenInv' /\ TableInv'
    BY <1>1, SameTokens, SameTable DEF IInv
<1>4. StackInv'
    BY <1>1, CallerFacts, SinkStack DEF IInv
<1> QED BY <1>2, <1>3, <1>4 DEF IInv

\* A resolver without queries, new or destroyed.
LEMMA EmptyResolver ==
    ASSUME slots' = [s \in Slots |-> EmptySlot], outstanding' = 0, sockets' = NoSockets
    PROVE  /\ slots' \in [Slots -> Queries] /\ \A s \in Slots : slots'[s].active = FALSE
           /\ TableInv'
<1>1. EmptySlot \in Queries /\ EmptySlot.active = FALSE
    BY DnsAssumption DEF EmptySlot, Queries
<1>2. slots' \in [Slots -> Queries] /\ \A s \in Slots : slots'[s].active = FALSE
    BY <1>1
<1>3. Active' = {} /\ Cardinality(Active') = 0
    BY <1>2, FS_EmptySet DEF Active
<1>4. /\ sockets' \in [Descriptors -> 0 .. Capacity]
      /\ \A d \in Descriptors : sockets'[d] = 0
    BY DnsAssumption DEF NoSockets
<1>5. Registered' = {} /\ Cardinality(Registered') = 0
    BY <1>4, FS_EmptySet DEF Registered
<1> QED BY <1>2, <1>3, <1>4, <1>5, DnsAssumption DEF TableInv

LEMMA CreateStep ==
    ASSUME IInv, Create
    PROVE  IInv'
<1>1. /\ MayCall /\ library /\ instance = 0 /\ created < MaxInstance
      /\ created' = created + 1 /\ instance' = created + 1
      /\ liveResolvers' = liveResolvers + 1
      /\ slots' = [s \in Slots |-> EmptySlot] /\ outstanding' = 0 /\ nextToken' = 1
      /\ sockets' = NoSockets /\ UNCHANGED <<library, stack, delivered>>
    BY DEF Create
<1>2. created \in Nat /\ MaxInstance \in Nat
    BY DnsAssumption DEF IInv, LifeInv
<1>3. LifeInv'
    BY <1>1, <1>2 DEF IInv, LifeInv
<1>4. TableInv' /\ slots' \in [Slots -> Queries] /\ \A s \in Slots : slots'[s].active = FALSE
    BY <1>1, EmptyResolver, Zenon
<1>5. TokenInv'
  <2>1. nextToken' \in 0 .. MaxToken
      BY <1>1, DnsAssumption
  <2>2. \A i \in 1 .. MaxInstance, k \in 1 .. MaxToken :
           i >= created' => delivered'[<<i, k>>] = 0
    <3>1. \A i \in 1 .. MaxInstance : i >= created' => i > created
        BY <1>1, <1>2
    <3> QED BY <1>1, <3>1 DEF IInv, TokenInv
  <2>3. created' \in 1 .. MaxInstance /\ instance' = created'
      BY <1>1, <1>2
  <2>4. \A i \in 1 .. MaxInstance, k \in 1 .. MaxToken :
           i > created' => delivered'[<<i, k>>] = 0
      BY <2>2, <2>3
  <2>5. \A k \in 1 .. MaxToken : delivered'[<<instance', k>>] = 0
      BY <2>2, <2>3
  <2>6. delivered' \in [Tokens -> Nat] /\ \A t \in Tokens : delivered'[t] <= 1
      BY <1>1 DEF IInv, TokenInv
  <2>7. instance' # 0
      BY <2>3
  <2> QED BY <1>4, <2>1, <2>4, <2>5, <2>6, <2>7 DEF TokenInv
<1>6. StackInv'
    BY <1>1, CallerFacts, SinkStack DEF IInv
<1> QED BY <1>3, <1>4, <1>5, <1>6 DEF IInv

LEMMA ReleaseStep ==
    ASSUME IInv, Release
    PROVE  IInv'
<1>1. /\ MayCall /\ instance # 0 /\ instance' = 0 /\ liveResolvers' = liveResolvers - 1
      /\ slots' = [s \in Slots |-> EmptySlot] /\ outstanding' = 0 /\ sockets' = NoSockets
      /\ UNCHANGED <<library, created, nextToken, stack, delivered>>
    BY DEF Release
<1>2. LifeInv'
    BY <1>1 DEF IInv, LifeInv
<1>3. TableInv' /\ slots' \in [Slots -> Queries] /\ \A s \in Slots : slots'[s].active = FALSE
    BY <1>1, EmptyResolver, Zenon
<1>4. TokenInv'
    BY <1>1, <1>3 DEF IInv, TokenInv
<1>5. StackInv'
    BY <1>1, CallerFacts, SinkStack DEF IInv
<1> QED BY <1>2, <1>3, <1>4, <1>5 DEF IInv

-----------------------------------------------------------------------------
(* The end of a query.                                                     *)

LEMMA RetiredQuery ==
    ASSUME NEW q \in Queries
    PROVE  [q EXCEPT !.active = FALSE] \in Queries /\ [q EXCEPT !.active = FALSE].active = FALSE
BY DEF Queries

LEMMA DispatchStep ==
    ASSUME IInv, NEW s \in Slots, slots[s].active, NEW caller \in Callers, NEW below \in Calls,
           AllSinks(below), NEW failed, Dispatch(s, slots[s].token, caller, below, failed),
           UNCHANGED <<library, liveResolvers, instance, created, nextToken>>
    PROVE  IInv'
<1> DEFINE k == slots[s].token
           sink == [kind |-> "sink", caller |-> caller, instance |-> instance, token |-> k]
<1>1. /\ slots' = [slots EXCEPT ![s].active = FALSE]
      /\ sockets' = [d \in Descriptors |-> IF sockets[d] = s THEN 0 ELSE sockets[d]]
      /\ outstanding' = outstanding - 1
      /\ stack' = Append(below, sink)
      /\ delivered' = [delivered EXCEPT ![<<instance, k>>] = @ + 1]
    BY DEF Dispatch, Retired, SocketsWithout, OutstandingLess
<1>2. /\ instance # 0 /\ k \in 1 .. MaxToken /\ delivered[<<instance, k>>] = 0
      /\ nextToken # 0 => k < nextToken
  <2>1. k \in 0 .. MaxToken
      BY SlotFacts DEF IInv
  <2>2. k # 0 /\ delivered[<<instance, k>>] = 0 /\ instance # 0 /\ (nextToken # 0 => k < nextToken)
      BY DEF IInv, TokenInv
  <2> QED BY <2>1, <2>2, DnsAssumption
<1>3. instance \in 1 .. MaxInstance
    BY <1>2, TokenFacts
<1>4. sink \in SinkFrames
    BY <1>2, <1>3 DEF SinkFrames
<1>5. StackInv'
  <2> HIDE DEF sink
  <2> QED BY <1>1, <1>4, PushSink
<1>6. LifeInv'
    BY SameLife DEF IInv
<1>7. slots \in [Slots -> Queries]
    BY DEF IInv, TokenInv
<1>8. /\ slots' \in [Slots -> Queries] /\ slots'[s].active = FALSE
      /\ \A u \in Slots : u # s => slots'[u] = slots[u]
  <2>1. slots' = [slots EXCEPT ![s] = [slots[s] EXCEPT !.active = FALSE]]
      BY <1>1, Zenon
  <2>2. /\ [slots[s] EXCEPT !.active = FALSE] \in Queries
        /\ [slots[s] EXCEPT !.active = FALSE].active = FALSE
      BY <1>7, RetiredQuery
  <2> QED BY <1>7, <2>1, <2>2, Zenon
<1>9. /\ delivered' \in [Tokens -> Nat] /\ \A t \in Tokens : delivered'[t] <= 1
      /\ \A i \in 1 .. MaxInstance, m \in 1 .. MaxToken :
            i # instance \/ m # k => delivered'[<<i, m>>] = delivered[<<i, m>>]
  <2> HIDE DEF k
  <2> QED BY <1>1, <1>2, DeliveredOnce, Zenon
<1>10. TokenInv'
  <2>1. ASSUME NEW u \in Slots, slots'[u].active
        PROVE  /\ slots'[u].token # 0
               /\ nextToken' # 0 => slots'[u].token < nextToken'
               /\ delivered'[<<instance', slots'[u].token>>] = 0
    <3>1. u # s /\ slots'[u] = slots[u]
        BY <1>8, <2>1
    <3>2. /\ slots[u].token # k /\ slots[u].token # 0
          /\ nextToken # 0 => slots[u].token < nextToken
          /\ delivered[<<instance, slots[u].token>>] = 0
        BY <2>1, <3>1 DEF IInv, TokenInv
    <3>3. slots[u].token \in 1 .. MaxToken
        BY <3>2, SlotFacts DEF IInv
    <3> QED BY <1>3, <1>9, <3>1, <3>2, <3>3
  <2>2. ASSUME NEW u \in Slots, NEW v \in Slots, u # v, slots'[u].active, slots'[v].active
        PROVE  slots'[u].token # slots'[v].token
      BY <1>8, <2>2 DEF IInv, TokenInv
  <2>3. ASSUME NEW i \in 1 .. MaxInstance, NEW m \in 1 .. MaxToken, i > created'
        PROVE  delivered'[<<i, m>>] = 0
    <3>1. i # instance
        BY <1>2, <1>3, <2>3 DEF IInv, LifeInv
    <3> QED BY <1>9, <2>3, <3>1 DEF IInv, TokenInv
  <2>4. ASSUME instance' # 0, nextToken' # 0, NEW m \in 1 .. MaxToken, m >= nextToken'
        PROVE  delivered'[<<instance', m>>] = 0
    <3>1. m # k
        BY <1>2, <2>4 DEF IInv, TokenInv
    <3> QED BY <1>2, <1>3, <1>9, <2>4, <3>1 DEF IInv, TokenInv
  <2>5. nextToken' \in 0 .. MaxToken /\ instance' # 0
      BY <1>2 DEF IInv, TokenInv
  <2> QED BY <1>8, <1>9, <2>1, <2>2, <2>3, <2>4, <2>5 DEF TokenInv
<1>11. TableInv'
  <2>1. Active' = Active \ {s} /\ s \in Active
      BY <1>8 DEF Active
  <2>2. Cardinality(Active') = Cardinality(Active) - 1 /\ Cardinality(Active) \in Nat
      BY <2>1, SlotFacts, FS_RemoveElement, Zenon DEF IInv
  <2>3. outstanding' = Cardinality(Active') /\ outstanding' <= Limit
      BY <1>1, <2>2, DnsAssumption DEF IInv, TableInv
  <2>4. /\ sockets' \in [Descriptors -> 0 .. Capacity]
        /\ \A d \in Descriptors : sockets'[d] # 0 => sockets'[d] = sockets[d] /\ sockets[d] # s
      BY <1>1, DnsAssumption DEF IInv, TableInv
  <2>5. \A d \in Descriptors : sockets'[d] # 0 => slots'[sockets'[d]].active
    <3>1. ASSUME NEW d \in Descriptors, sockets'[d] # 0 PROVE slots'[sockets'[d]].active
      <4>1. /\ sockets'[d] = sockets[d] /\ sockets[d] # s /\ sockets[d] # 0
            /\ slots[sockets[d]].active
          BY <2>4, <3>1 DEF IInv, TableInv
      <4>2. sockets[d] \in Slots
          BY <4>1, DnsAssumption DEF IInv, TableInv, Slots
      <4> QED BY <1>8, <4>1, <4>2
    <3> QED BY <3>1
  <2>6. Cardinality(Registered') <= MaxSockets
      BY <2>4, FewerSockets DEF IInv, Registered
  <2> QED BY <2>3, <2>4, <2>5, <2>6 DEF TableInv
<1> QED BY <1>5, <1>6, <1>10, <1>11 DEF IInv

LEMMA CancelStep ==
    ASSUME IInv, NEW token \in 1 .. MaxToken, Cancel(token)
    PROVE  IInv'
<1>1. stack \in Calls /\ AllSinks(stack)
    BY CallerFacts DEF Cancel, IInv
<1>2. PICK s \in Slots : /\ slots[s].active /\ slots[s].token = token
                         /\ Dispatch(s, slots[s].token, "cancel", stack, FALSE)
    BY DEF Cancel, FindQuery
<1> QED BY <1>1, <1>2, DispatchStep, Zenon DEF Cancel, Callers

-----------------------------------------------------------------------------
(* resolve.                                                                *)

LEMMA NextTokenFacts ==
    ASSUME IInv, MayResolve, nextToken' = AfterToken(nextToken)
    PROVE  /\ instance # 0 /\ nextToken \in 1 .. MaxToken
           /\ nextToken' \in 0 .. MaxToken /\ (nextToken' # 0 => nextToken' = nextToken + 1)
           /\ delivered[<<instance, nextToken>>] = 0
           /\ stack \in Calls /\ AllSinks(stack)
<1>1. /\ instance # 0 /\ nextToken # 0 /\ nextToken \in 0 .. MaxToken
      /\ \A k \in 1 .. MaxToken : k >= nextToken => delivered[<<instance, k>>] = 0
    BY DEF IInv, TokenInv, MayResolve
<1>2. nextToken \in 1 .. MaxToken /\ nextToken >= nextToken
    BY <1>1, DnsAssumption
<1>3. nextToken' \in 0 .. MaxToken /\ (nextToken' # 0 => nextToken' = nextToken + 1)
    BY <1>2, DnsAssumption DEF AfterToken
<1>4. stack \in Calls /\ AllSinks(stack)
    BY CallerFacts DEF IInv, MayResolve
<1> QED BY <1>1, <1>2, <1>3, <1>4

\* resolve() takes the lowest free slot.
LEMMA FreeSlotFound ==
    ASSUME FreeSlots # {}
    PROVE  FirstFreeSlot \in Slots /\ ~slots[FirstFreeSlot].active
<1>1. FreeSlots \in SUBSET Nat
    BY DnsAssumption DEF FreeSlots, Slots
<1>2. \E s \in FreeSlots : \A u \in FreeSlots : s <= u
    BY <1>1, LeastNumber
<1>3. FirstFreeSlot \in FreeSlots
    BY <1>2 DEF FirstFreeSlot
<1> QED BY <1>3 DEF FreeSlots

\* A query that does not come about leaves its token in its slot, which stays free.
LEMMA TokenLeft ==
    ASSUME IInv, MayResolve, slots' = [slots EXCEPT ![FirstFreeSlot].token = nextToken]
    PROVE  /\ slots' \in [Slots -> Queries]
           /\ \A u \in Slots : slots'[u].active = slots[u].active
           /\ \A u \in Slots : slots[u].active => slots'[u] = slots[u]
<1> DEFINE s == FirstFreeSlot
<1>1. s \in Slots /\ ~slots[s].active
    BY FreeSlotFound DEF MayResolve
<1> HIDE DEF s
<1>2. slots \in [Slots -> Queries] /\ nextToken \in 0 .. MaxToken
    BY DEF IInv, TokenInv
<1>3. PICK a \in BOOLEAN, k \in 0 .. MaxToken : slots[s] = [active |-> a, token |-> k]
    BY <1>1, <1>2 DEF Queries
<1>4. slots' = [slots EXCEPT ![s] = [active |-> a, token |-> nextToken]]
  <2>1. [slots[s] EXCEPT !.token = nextToken] = [active |-> a, token |-> nextToken]
      BY <1>3
  <2>2. slots' = [slots EXCEPT ![s] = [slots[s] EXCEPT !.token = nextToken]]
      BY Zenon DEF s
  <2> QED BY <2>1, <2>2, Zenon
<1>5. [active |-> a, token |-> nextToken] \in Queries
    BY <1>2 DEF Queries
<1>6. slots' \in [Slots -> Queries]
    BY <1>2, <1>4, <1>5
<1>7. \A u \in Slots : u # s => slots'[u] = slots[u]
    BY <1>2, <1>4
<1>8. slots'[s].active = slots[s].active
    BY <1>1, <1>2, <1>3, <1>4
<1> QED BY <1>1, <1>6, <1>7, <1>8

\* A token is used up; the queries stay, and what is delivered is at most this
\* token.
LEMMA TokenUsed ==
    ASSUME IInv, MayResolve, nextToken' = AfterToken(nextToken),
           UNCHANGED <<instance, created>>, slots' \in [Slots -> Queries],
           \A u \in Slots : slots'[u].active = slots[u].active,
           \A u \in Slots : slots[u].active => slots'[u] = slots[u],
           delivered' \in [Tokens -> Nat], \A t \in Tokens : delivered'[t] <= 1,
           \A i \in 1 .. MaxInstance, m \in 1 .. MaxToken :
              i # instance \/ m # nextToken => delivered'[<<i, m>>] = delivered[<<i, m>>]
    PROVE  TokenInv'
<1>1. /\ instance # 0 /\ nextToken \in 1 .. MaxToken
      /\ nextToken' \in 0 .. MaxToken /\ (nextToken' # 0 => nextToken' = nextToken + 1)
    BY NextTokenFacts
<1>2. instance \in 1 .. MaxInstance
    BY <1>1, TokenFacts, Zenon
<1>3. ASSUME NEW u \in Slots, slots'[u].active
      PROVE  /\ slots'[u].token # 0
             /\ nextToken' # 0 => slots'[u].token < nextToken'
             /\ delivered'[<<instance', slots'[u].token>>] = 0
  <2>1. /\ slots[u].token # 0 /\ slots[u].token < nextToken
        /\ delivered[<<instance, slots[u].token>>] = 0 /\ slots'[u] = slots[u]
        /\ instance' = instance
      BY <1>1, <1>3 DEF IInv, TokenInv
  <2>2. slots[u].token \in 1 .. MaxToken
      BY <2>1, SlotFacts DEF IInv
  <2> QED BY <1>1, <1>2, <2>1, <2>2
<1>4. ASSUME NEW i \in 1 .. MaxInstance, NEW m \in 1 .. MaxToken, i > created'
      PROVE  delivered'[<<i, m>>] = 0
  <2>1. i # instance
      BY <1>1, <1>4 DEF IInv, LifeInv
  <2> QED BY <1>4, <2>1 DEF IInv, TokenInv
<1>5. ASSUME instance' # 0, nextToken' # 0, NEW m \in 1 .. MaxToken, m >= nextToken'
      PROVE  delivered'[<<instance', m>>] = 0
  <2>1. m # nextToken /\ m >= nextToken
      BY <1>1, <1>5
  <2> QED BY <1>1, <1>2, <2>1 DEF IInv, TokenInv
<1>6. ASSUME NEW u \in Slots, NEW v \in Slots, u # v, slots'[u].active, slots'[v].active
      PROVE  slots'[u].token # slots'[v].token
  <2>1. slots'[u] = slots[u] /\ slots'[v] = slots[v] /\ slots[u].active /\ slots[v].active
      BY <1>6
  <2> QED BY <1>6, <2>1 DEF IInv, TokenInv
<1> QED BY <1>1, <1>3, <1>4, <1>5, <1>6 DEF TokenInv

LEMMA ResolveFailsStep ==
    ASSUME IInv, ResolveFails
    PROVE  IInv'
<1>1. /\ MayResolve /\ nextToken' = AfterToken(nextToken)
      /\ slots' = [slots EXCEPT ![FirstFreeSlot].token = nextToken]
      /\ UNCHANGED <<library, liveResolvers, instance, created, outstanding, sockets,
                     stack, delivered>>
    BY DEF ResolveFails
<1>2. TokenInv'
    BY <1>1, TokenLeft, TokenUsed, Zenon DEF IInv, TokenInv
<1>3. LifeInv' /\ TableInv'
    BY <1>1, TokenLeft, SameLife, SameQueries DEF IInv
<1>4. StackInv'
    BY <1>1, NextTokenFacts, SinkStack
<1> QED BY <1>2, <1>3, <1>4 DEF IInv

LEMMA ResolveImmediatelyStep ==
    ASSUME IInv, ResolveImmediately
    PROVE  IInv'
<1> DEFINE sink == [kind |-> "sink", caller |-> "resolve", instance |-> instance,
                    token |-> nextToken]
<1>1. /\ MayResolve /\ nextToken' = AfterToken(nextToken) /\ stack' = Append(stack, sink)
      /\ delivered' = [delivered EXCEPT ![<<instance, nextToken>>] = @ + 1]
      /\ slots' = [slots EXCEPT ![FirstFreeSlot].token = nextToken]
      /\ UNCHANGED <<library, liveResolvers, instance, created, outstanding, sockets>>
    BY DEF ResolveImmediately
<1>2. /\ instance # 0 /\ nextToken \in 1 .. MaxToken /\ delivered[<<instance, nextToken>>] = 0
      /\ stack \in Calls /\ AllSinks(stack)
    BY <1>1, NextTokenFacts
<1>3. TokenInv'
    BY <1>1, <1>2, DeliveredOnce, TokenLeft, TokenUsed, Zenon
<1>4. LifeInv' /\ TableInv'
    BY <1>1, TokenLeft, SameLife, SameQueries DEF IInv
<1>5. StackInv'
  <2>1. sink \in SinkFrames
      BY <1>2, TokenFacts DEF SinkFrames, Callers
  <2> HIDE DEF sink
  <2> QED BY <1>1, <1>2, <2>1, PushSink
<1> QED BY <1>3, <1>4, <1>5 DEF IInv

\* c-ares opens and closes sockets of an active query, and the table has room.
LEMMA SocketsChange ==
    ASSUME IInv, NEW s \in Slots, NEW opened \in SUBSET Descriptors,
           NEW closed \in SUBSET Descriptors, Fits(opened, closed),
           NativeSockets(s, opened, closed), sockets' = SocketsAfter(s, opened, closed),
           slots'[s].active, \A u \in Slots : slots[u].active => slots'[u].active
    PROVE  /\ sockets' \in [Descriptors -> 0 .. Capacity]
           /\ \A d \in Descriptors : sockets'[d] # 0 => slots'[sockets'[d]].active
           /\ Cardinality(Registered') <= MaxSockets
<1>1. s \in 1 .. Capacity /\ s # 0 /\ sockets \in [Descriptors -> 0 .. Capacity]
    BY DnsAssumption DEF Slots, IInv, TableInv
<1>2. sockets' \in [Descriptors -> 0 .. Capacity]
    BY <1>1, DnsAssumption DEF SocketsAfter
<1>3. ASSUME NEW d \in Descriptors, sockets'[d] # 0 PROVE slots'[sockets'[d]].active
  <2>1. sockets'[d] = s \/ (sockets'[d] = sockets[d] /\ sockets[d] # 0)
      BY <1>3 DEF SocketsAfter
  <2>2. sockets[d] # 0 => sockets[d] \in Slots /\ slots[sockets[d]].active
      BY <1>1, DnsAssumption DEF IInv, TableInv, Slots
  <2> QED BY <2>1, <2>2
<1>4. Registered' = (Registered \ closed) \cup opened
  <2>1. opened \cap closed = {}
      BY <1>1 DEF NativeSockets, SocketsOf, Registered
  <2> QED BY <1>1, <2>1 DEF Registered, SocketsAfter
<1>5. Cardinality(Registered') <= MaxSockets
    BY <1>4 DEF Fits
<1> QED BY <1>2, <1>3, <1>5

LEMMA ResolvePendingStep ==
    ASSUME IInv, NEW opened \in SUBSET Descriptors, ResolvePending(opened)
    PROVE  IInv'
<1> DEFINE s == FirstFreeSlot
           q == [active |-> TRUE, token |-> nextToken]
<1>1. /\ MayResolve /\ nextToken' = AfterToken(nextToken)
      /\ NativeSockets(s, opened, {}) /\ Fits(opened, {})
      /\ slots' = [slots EXCEPT ![s] = q]
      /\ sockets' = SocketsAfter(s, opened, {}) /\ outstanding' = outstanding + 1
      /\ UNCHANGED <<library, liveResolvers, instance, created, stack, delivered>>
    BY DEF ResolvePending
<1>2. s \in Slots /\ ~slots[s].active
    BY <1>1, FreeSlotFound DEF MayResolve
<1>3. /\ instance # 0 /\ nextToken \in 1 .. MaxToken
      /\ nextToken' \in 0 .. MaxToken /\ (nextToken' # 0 => nextToken' = nextToken + 1)
      /\ delivered[<<instance, nextToken>>] = 0
      /\ stack \in Calls /\ AllSinks(stack)
    BY <1>1, NextTokenFacts
<1>4. q \in Queries /\ q.active = TRUE /\ q.token = nextToken
    BY <1>3, DnsAssumption DEF Queries
<1> HIDE DEF s, q
<1>5. /\ slots' \in [Slots -> Queries] /\ slots'[s] = q
      /\ \A u \in Slots : u # s => slots'[u] = slots[u]
    BY <1>1, <1>2, <1>4 DEF IInv, TokenInv
<1>6. LifeInv'
    BY <1>1, SameLife DEF IInv
<1>7. StackInv'
    BY <1>1, <1>3, SinkStack
<1>8. TokenInv'
  <2>1. ASSUME NEW u \in Slots, slots'[u].active
        PROVE  /\ slots'[u].token # 0 /\ slots'[u].token <= nextToken
               /\ nextToken' # 0 => slots'[u].token < nextToken'
               /\ delivered'[<<instance', slots'[u].token>>] = 0
               /\ u # s => slots'[u].token < nextToken
    <3>1. CASE u = s
        BY <1>1, <1>3, <1>4, <1>5, <3>1
    <3>2. CASE u # s
      <4>1. slots'[u] = slots[u] /\ slots[u].active
          BY <1>5, <2>1, <3>2
      <4>2. slots[u].token \in 0 .. MaxToken
          BY SlotFacts DEF IInv
      <4>3. nextToken # 0
          BY <1>3
      <4>4. /\ slots[u].token # 0 /\ slots[u].token < nextToken
            /\ delivered[<<instance, slots[u].token>>] = 0
          BY <4>1, <4>3 DEF IInv, TokenInv
      <4> QED BY <1>1, <1>3, <4>1, <4>2, <4>4
    <3> QED BY <3>1, <3>2
  <2>2. ASSUME NEW u \in Slots, NEW v \in Slots, u # v, slots'[u].active, slots'[v].active
        PROVE  slots'[u].token # slots'[v].token
    <3>1. CASE u = s
      <4>1. slots'[v].token < nextToken /\ slots'[u].token = nextToken
          BY <1>4, <1>5, <2>1, <2>2, <3>1, Zenon
      <4>2. ~(nextToken < nextToken)
          BY <1>3
      <4> QED BY <4>1, <4>2
    <3>2. CASE v = s
      <4>1. slots'[u].token < nextToken /\ slots'[v].token = nextToken
          BY <1>4, <1>5, <2>1, <2>2, <3>2, Zenon
      <4>2. ~(nextToken < nextToken)
          BY <1>3
      <4> QED BY <4>1, <4>2
    <3>3. CASE u # s /\ v # s
        BY <1>5, <2>2, <3>3 DEF IInv, TokenInv
    <3> QED BY <3>1, <3>2, <3>3
  <2>3. nextToken' # 0 => \A k \in 1 .. MaxToken : k >= nextToken' => k >= nextToken
      BY <1>3
  <2>4. /\ delivered' \in [Tokens -> Nat] /\ \A t \in Tokens : delivered'[t] <= 1
        /\ \A i \in 1 .. MaxInstance, k \in 1 .. MaxToken :
              i > created' => delivered'[<<i, k>>] = 0
        /\ nextToken' # 0 =>
              \A k \in 1 .. MaxToken : k >= nextToken' => delivered'[<<instance', k>>] = 0
      BY <1>1, <1>3, <2>3 DEF IInv, TokenInv
  <2>5. instance' # 0
      BY <1>1, <1>3
  <2> QED BY <1>3, <1>5, <2>1, <2>2, <2>4, <2>5 DEF TokenInv
<1>9. TableInv'
  <2>1. Active' = Active \cup {s} /\ s \notin Active
      BY <1>2, <1>4, <1>5 DEF Active
  <2>2. Cardinality(Active') = Cardinality(Active) + 1 /\ Cardinality(Active) \in Nat
      BY <2>1, SlotFacts, FS_AddElement, Zenon DEF IInv
  <2>3. outstanding' = Cardinality(Active') /\ outstanding' <= Limit
      BY <1>1, <2>2, DnsAssumption DEF IInv, TableInv, MayResolve
  <2>4. slots'[s].active /\ \A u \in Slots : slots[u].active => slots'[u].active
      BY <1>2, <1>4, <1>5
  <2>5. /\ sockets' \in [Descriptors -> 0 .. Capacity]
        /\ \A d \in Descriptors : sockets'[d] # 0 => slots'[sockets'[d]].active
        /\ Cardinality(Registered') <= MaxSockets
    <3>1. {} \in SUBSET Descriptors
        OBVIOUS
    <3> QED BY <1>1, <1>2, <2>4, <3>1, SocketsChange
  <2> QED BY <2>3, <2>5 DEF TableInv
<1> QED BY <1>6, <1>7, <1>8, <1>9 DEF IInv

-----------------------------------------------------------------------------
(* process_events and process_timeout.                                     *)

\* A call that only remembers queries which are there.
LEMMA LoopStarts ==
    ASSUME IInv, MayCall, instance # 0, NEW c \in Callers, NEW rest \in Seq(Entries),
           \A k \in 1 .. Len(rest) : StillThere(rest[k]),
           stack' = Append(stack, [kind |-> "loop", caller |-> c, instance |-> instance,
                                   rest |-> rest]),
           UNCHANGED <<library, liveResolvers, instance, created, resolverVars, delivered>>
    PROVE  IInv'
<1>1. LifeInv' /\ TokenInv' /\ TableInv' /\ slots' = slots
    BY SameLife, SameTokens, SameTable DEF IInv, resolverVars
<1>2. instance \in 1 .. MaxInstance
    BY DnsAssumption DEF IInv, LifeInv
<1>3. PICK f \in LoopFrames :
         f.instance = instance /\ f.rest = rest /\ stack' = Append(stack, f)
    BY <1>2 DEF LoopFrames
<1>4. \A k \in 1 .. Len(f.rest) : StillThere(f.rest[k])'
    BY <1>1, <1>3 DEF StillThere
<1>5. stack \in Calls /\ AllSinks(stack)
    BY CallerFacts DEF IInv
<1>6. StackInv'
    BY <1>3, <1>4, <1>5, PushLoop
<1> QED BY <1>1, <1>6 DEF IInv

LEMMA RegisteredThere ==
    ASSUME IInv, NEW d \in Registered
    PROVE  Pending(sockets[d]) \in Entries /\ StillThere(Pending(sockets[d]))
<1>1. d \in Descriptors /\ sockets[d] # 0 /\ sockets[d] \in 0 .. Capacity
    BY DEF Registered, IInv, TableInv
<1>2. sockets[d] \in Slots
    BY <1>1, DnsAssumption DEF Slots
<1>3. slots[sockets[d]].active
    BY <1>1 DEF IInv, TableInv
<1>4. slots[sockets[d]].token # 0 /\ slots[sockets[d]].token \in 0 .. MaxToken
    BY <1>2, <1>3, SlotFacts, Zenon DEF IInv, TokenInv
<1>5. slots[sockets[d]].token \in 1 .. MaxToken
    BY <1>4, DnsAssumption
<1> QED BY <1>2, <1>3, <1>5 DEF Pending, Entries, StillThere

LEMMA ProcessEventsStep ==
    ASSUME IInv, NEW first \in Descriptors, NEW second \in Descriptors,
           ProcessEvents(first, second)
    PROVE  IInv'
<1> DEFINE e == Pending(sockets[first])
           g == Pending(sockets[second])
           rest == IF first = second THEN <<e>> ELSE <<e, g>>
<1>1. /\ MayCall /\ instance # 0 /\ first \in Registered /\ second \in Registered
      /\ stack' = Append(stack, [kind |-> "loop", caller |-> "process_events",
                                 instance |-> instance, rest |-> rest])
      /\ UNCHANGED <<library, liveResolvers, instance, created, resolverVars, delivered>>
    BY DEF ProcessEvents
<1>2. e \in Entries /\ StillThere(e) /\ g \in Entries /\ StillThere(g)
    BY <1>1, RegisteredThere
<1> HIDE DEF e, g
<1>3. rest \in Seq(Entries) /\ \A k \in 1 .. Len(rest) : StillThere(rest[k])
  <2>1. CASE first = second
    <3>1. rest = <<e>>
        BY <2>1
    <3>2. rest \in Seq(Entries) /\ \A k \in 1 .. Len(rest) : rest[k] = e
        BY <1>2, <3>1
    <3> QED BY <1>2, <3>2
  <2>2. CASE first # second
    <3>1. rest = <<e, g>>
        BY <2>2
    <3>2. rest \in Seq(Entries) /\ \A k \in 1 .. Len(rest) : rest[k] = e \/ rest[k] = g
        BY <1>2, <3>1
    <3> QED BY <1>2, <3>2
  <2> QED BY <2>1, <2>2
<1>4. "process_events" \in Callers
    BY DEF Callers
<1> HIDE DEF rest
<1> QED BY <1>1, <1>3, <1>4, LoopStarts

LEMMA ProcessTimeoutStep ==
    ASSUME IInv, ProcessTimeout
    PROVE  IInv'
<1>1. /\ MayCall /\ instance # 0
      /\ stack' = Append(stack, [kind |-> "loop", caller |-> "process_timeout",
                                 instance |-> instance, rest |-> PendingQueries])
      /\ UNCHANGED <<library, liveResolvers, instance, created, resolverVars, delivered>>
    BY DEF ProcessTimeout
<1>2. /\ PendingQueries \in Seq(Entries)
      /\ \A k \in 1 .. Len(PendingQueries) : StillThere(PendingQueries[k])
    BY PendingFacts DEF IInv
<1>3. "process_timeout" \in Callers
    BY DEF Callers
<1> QED BY <1>1, <1>2, <1>3, LoopStarts

\* What a loop in progress holds.
LEMMA LoopFacts ==
    ASSUME IInv, InLoop
    PROVE  /\ Top \in LoopFrames /\ Top.rest \in Seq(Entries) /\ Top.caller \in Callers
           /\ Top.instance = instance /\ instance \in 1 .. MaxInstance
           /\ \A k \in 1 .. Len(Top.rest) : StillThere(Top.rest[k])
           /\ Popped \in Calls /\ AllSinks(Popped)
<1>1. stack # <<>> /\ Top.kind = "loop"
    BY DEF InLoop
<1>2. Top \in LoopFrames
    BY <1>1, TopFacts DEF IInv, SinkFrames
<1>3. Top.rest \in Seq(Entries) /\ Top.caller \in Callers /\ Top.instance \in 1 .. MaxInstance
    BY <1>2 DEF LoopFrames
<1>4. Top.instance = instance /\ \A k \in 1 .. Len(Top.rest) : StillThere(Top.rest[k])
    BY <1>1 DEF IInv, StackInv, Top
<1>5. Popped \in Calls /\ AllSinks(Popped)
    BY <1>1, PoppedFacts DEF IInv
<1> QED BY <1>2, <1>3, <1>4, <1>5

\* The query a loop comes to next.
LEMMA HeadFacts ==
    ASSUME IInv, InLoop, Top.rest # <<>>
    PROVE  /\ Head(Top.rest).slot \in Slots /\ StillThere(Head(Top.rest))
           /\ slots[Head(Top.rest).slot].active
           /\ Head(Top.rest).token = slots[Head(Top.rest).slot].token
<1>1. Top.rest \in Seq(Entries) /\ \A k \in 1 .. Len(Top.rest) : StillThere(Top.rest[k])
    BY LoopFacts
<1>2. Head(Top.rest) = Top.rest[1] /\ 1 \in 1 .. Len(Top.rest) /\ Top.rest[1] \in Entries
    BY <1>1
<1>3. StillThere(Head(Top.rest)) /\ Head(Top.rest).slot \in Slots
    BY <1>1, <1>2 DEF Entries
<1> QED BY <1>3 DEF StillThere

LEMMA LoopDispatches ==
    ASSUME IInv, InLoop, Top.rest # <<>>, NEW failed,
           Dispatch(Head(Top.rest).slot, Head(Top.rest).token, Top.caller, LoopReturns, failed),
           UNCHANGED <<library, liveResolvers, instance, created, nextToken>>
    PROVE  IInv'
<1> DEFINE s == Head(Top.rest).slot
<1>1. s \in Slots /\ slots[s].active /\ Head(Top.rest).token = slots[s].token
    BY HeadFacts
<1>2. Top.caller \in Callers /\ Popped \in Calls /\ AllSinks(Popped) /\ LoopReturns = Popped
    BY LoopFacts DEF LoopReturns
<1>3. Dispatch(s, slots[s].token, Top.caller, Popped, failed)
    BY <1>1, <1>2
<1> HIDE DEF s
<1> QED BY <1>1, <1>2, <1>3, DispatchStep, Zenon

LEMMA LoopMovesStep ==
    ASSUME IInv, NEW opened \in SUBSET Descriptors, NEW closed \in SUBSET Descriptors,
           LoopMoves(opened, closed)
    PROVE  IInv'
<1> DEFINE s == Head(Top.rest).slot
<1>1. /\ InLoop /\ Top.rest # <<>>
      /\ stack' = Append(Popped, [Top EXCEPT !.rest = Tail(Top.rest)])
      /\ UNCHANGED <<library, liveResolvers, instance, created, slots, outstanding, nextToken,
                     delivered>>
    BY DEF LoopMoves, Rest
<1>2. s \in Slots /\ StillThere(Head(Top.rest)) /\ slots[s].active
    BY <1>1, HeadFacts
<1>3. /\ NativeSockets(s, opened, closed) /\ Fits(opened, closed)
      /\ sockets' = SocketsAfter(s, opened, closed)
    BY <1>2 DEF LoopMoves
<1>4. LifeInv' /\ TokenInv'
    BY <1>1, SameLife, SameTokens DEF IInv
<1>5. TableInv'
  <2>1. slots'[s].active /\ \A u \in Slots : slots[u].active => slots'[u].active
      BY <1>1, <1>2
  <2> HIDE DEF s
  <2>2. /\ sockets' \in [Descriptors -> 0 .. Capacity]
        /\ \A d \in Descriptors : sockets'[d] # 0 => slots'[sockets'[d]].active
        /\ Cardinality(Registered') <= MaxSockets
      BY <1>2, <1>3, <2>1, SocketsChange
  <2>3. outstanding' = Cardinality(Active') /\ outstanding' <= Limit
      BY <1>1 DEF IInv, TableInv, Active
  <2> QED BY <2>2, <2>3 DEF TableInv
<1>6. /\ Top \in LoopFrames /\ Top.rest \in Seq(Entries) /\ Top.instance = instance
      /\ \A k \in 1 .. Len(Top.rest) : StillThere(Top.rest[k])
      /\ Popped \in Calls /\ AllSinks(Popped)
    BY <1>1, LoopFacts
<1>7. /\ Tail(Top.rest) \in Seq(Entries) /\ Len(Tail(Top.rest)) = Len(Top.rest) - 1
      /\ Len(Top.rest) \in Nat
      /\ \A k \in 1 .. Len(Tail(Top.rest)) : Tail(Top.rest)[k] = Top.rest[k + 1]
    BY <1>1, <1>6
<1>8. \A k \in 1 .. Len(Tail(Top.rest)) : StillThere(Tail(Top.rest)[k])
  <2>1. \A k \in 1 .. Len(Tail(Top.rest)) : k + 1 \in 1 .. Len(Top.rest)
      BY <1>7
  <2> QED BY <1>6, <1>7, <2>1
<1>9. PICK f \in LoopFrames :
         f.instance = instance /\ f.rest = Tail(Top.rest) /\ stack' = Append(Popped, f)
  <2>1. /\ [Top EXCEPT !.rest = Tail(Top.rest)] \in LoopFrames
        /\ [Top EXCEPT !.rest = Tail(Top.rest)].instance = instance
        /\ [Top EXCEPT !.rest = Tail(Top.rest)].rest = Tail(Top.rest)
      BY <1>6, <1>7, Zenon DEF LoopFrames
  <2> QED BY <1>1, <2>1, Zenon
<1>10. \A k \in 1 .. Len(f.rest) : StillThere(f.rest[k])'
    BY <1>1, <1>8, <1>9 DEF StillThere
<1>11. StackInv'
    BY <1>1, <1>6, <1>9, <1>10, PushLoop, Zenon
<1> QED BY <1>4, <1>5, <1>11 DEF IInv

\* A loop that is through, or a sink, returns.
LEMMA ReturnStep ==
    ASSUME IInv, LoopEnds \/ SinkReturns
    PROVE  IInv'
<1>1. /\ stack # <<>> /\ stack' = Popped
      /\ UNCHANGED <<library, liveResolvers, instance, created, resolverVars, delivered>>
    BY DEF LoopEnds, SinkReturns, InLoop
<1>2. LifeInv' /\ TokenInv' /\ TableInv'
    BY <1>1, SameLife, SameTokens, SameTable DEF IInv, resolverVars
<1>3. StackInv'
    BY <1>1, PoppedFacts, SinkStack DEF IInv
<1> QED BY <1>2, <1>3 DEF IInv

\* Steps that change no variable of the invariant.
LEMMA QuietStep ==
    ASSUME IInv,
           UNCHANGED <<library, liveResolvers, instance, created, slots, outstanding, nextToken,
                       sockets, stack, delivered>>
    PROVE  IInv'
<1>1. LifeInv' /\ TokenInv' /\ TableInv'
    BY SameLife, SameTokens, SameTable DEF IInv
<1>2. StackInv'
    BY DEF IInv, StackInv, StillThere
<1> QED BY <1>1, <1>2 DEF IInv

-----------------------------------------------------------------------------
(* Invariance.                                                             *)

LEMMA InitInv == Init => IInv
<1> SUFFICES ASSUME Init PROVE IInv
    OBVIOUS
<1>1. EmptySlot \in Queries /\ EmptySlot.active = FALSE
    BY DnsAssumption DEF EmptySlot, Queries
<1>2. slots \in [Slots -> Queries] /\ \A s \in Slots : slots[s].active = FALSE
    BY <1>1 DEF Init
<1>3. LifeInv
  <2>1. library = FALSE /\ liveResolvers = 0 /\ instance = 0 /\ created = 0
      BY DEF Init
  <2>2. 0 \in 0 .. MaxInstance
      BY DnsAssumption
  <2> QED BY <2>1, <2>2, Zenon DEF LifeInv
<1>4. TokenInv
  <2>1. \A i \in 1 .. MaxInstance, k \in 1 .. MaxToken : <<i, k>> \in Tokens
      BY DEF Tokens
  <2>2. nextToken \in 0 .. MaxToken /\ instance = 0
      BY DnsAssumption DEF Init
  <2>3. /\ delivered \in [Tokens -> Nat] /\ \A t \in Tokens : delivered[t] = 0
        /\ \A t \in Tokens : delivered[t] <= 1
      BY DEF Init
  <2> QED BY <1>2, <2>1, <2>2, <2>3 DEF TokenInv
<1>5. TableInv
  <2>1. Active = {} /\ Cardinality(Active) = 0
      BY <1>2, FS_EmptySet DEF Active
  <2>2. /\ sockets \in [Descriptors -> 0 .. Capacity]
        /\ \A d \in Descriptors : sockets[d] = 0
      BY DnsAssumption DEF Init, NoSockets
  <2>3. Registered = {} /\ Cardinality(Registered) = 0
      BY <2>2, FS_EmptySet DEF Registered
  <2>4. outstanding = 0
      BY DEF Init
  <2> QED BY <2>1, <2>2, <2>3, <2>4, DnsAssumption DEF TableInv
<1>6. StackInv
    BY DEF Init, StackInv
<1> QED BY <1>3, <1>4, <1>5, <1>6 DEF IInv

LEMMA NextInv == IInv /\ [Next]_vars => IInv'
<1> SUFFICES ASSUME IInv, [Next]_vars PROVE IInv'
    OBVIOUS
<1>1. CASE WorkerInitialize \/ WorkerCleanup
    BY <1>1, WorkerSteps
<1>2. CASE Create
    BY <1>2, CreateStep
<1>3. CASE Release
    BY <1>3, ReleaseStep
<1>4. CASE \E opened \in SUBSET Descriptors : ResolvePending(opened)
    BY <1>4, ResolvePendingStep
<1>5. CASE ResolveFails
    BY <1>5, ResolveFailsStep
<1>6. CASE ResolveImmediately
    BY <1>6, ResolveImmediatelyStep
<1>7. CASE \E token \in 1 .. MaxToken : Cancel(token)
    BY <1>7, CancelStep
<1>8. CASE \E s \in Slots : BecomesDue(s)
    BY <1>8, QuietStep DEF BecomesDue
<1>9. CASE \E first, second \in Descriptors : ProcessEvents(first, second)
    BY <1>9, ProcessEventsStep
<1>10. CASE ProcessTimeout
    BY <1>10, ProcessTimeoutStep
<1>11. CASE \E opened, closed \in SUBSET Descriptors : LoopMoves(opened, closed)
    BY <1>11, LoopMovesStep
<1>12. CASE \E opened \in SUBSET Descriptors : LoopRunsOutOfSockets(opened)
    BY <1>12, LoopDispatches, Zenon DEF LoopRunsOutOfSockets
<1>13. CASE LoopCompletes
    BY <1>13, LoopDispatches, Zenon DEF LoopCompletes
<1>14. CASE LoopEnds \/ SinkReturns
    BY <1>14, ReturnStep
<1>15. CASE UNCHANGED vars
    BY <1>15, QuietStep DEF vars, resolverVars
<1> QED BY <1>1, <1>2, <1>3, <1>4, <1>5, <1>6, <1>7, <1>8, <1>9, <1>10, <1>11, <1>12, <1>13,
           <1>14, <1>15 DEF Next, Loop

LEMMA Invariance == Spec => []IInv
BY InitInv, NextInv, PTL DEF Spec

-----------------------------------------------------------------------------
(* Theorems.                                                               *)

\* A query's sink is called at most once and never while the query is active,
\* whatever sinks do from inside sinks: dispatch_completion and
\* fail_socket_capacity retire the slot before they call, and resolve never
\* hands out a token twice.
THEOREM SinkCalledOnce == Spec => []AtMostOnce
<1>1. IInv => AtMostOnce
    BY DEF IInv, TokenInv, AtMostOnce
<1> QED BY <1>1, Invariance, PTL

\* State::outstanding is the number of active queries, and every registered
\* socket belongs to one, through resolve, cancel, process_events and
\* process_timeout.
THEOREM CountsStayExact == Spec => []OutstandingExact
<1>1. IInv => OutstandingExact
    BY DEF IInv, TableInv, Active, Registered, OutstandingExact
<1> QED BY <1>1, Invariance, PTL

\* The loops of process_events and process_timeout never touch a State that a
\* sink released or replaced, and find every query they remembered.
THEOREM LoopsStaySafe == Spec => []NoUseAfterRelease
<1>1. ASSUME IInv PROVE NoUseAfterRelease
  <2> SUFFICES ASSUME NEW i \in DOMAIN stack, stack[i].kind = "loop"
               PROVE  /\ stack[i].instance = instance
                      /\ \A k \in DOMAIN stack[i].rest : StillThere(stack[i].rest[k])
      BY DEF NoUseAfterRelease
  <2>1. stack \in Calls /\ Len(stack) \in Nat /\ i \in 1 .. Len(stack)
      BY <1>1 DEF IInv, StackInv, Calls
  <2>2. i = Len(stack)
    <3>1. i \notin 1 .. Len(stack) - 1
        BY <1>1 DEF IInv, StackInv
    <3> QED BY <2>1, <3>1
  <2>3. InLoop /\ stack[i] = Top
      BY <2>1, <2>2 DEF InLoop, Top
  <2>4. /\ Top.rest \in Seq(Entries) /\ Top.instance = instance
        /\ \A k \in 1 .. Len(Top.rest) : StillThere(Top.rest[k])
      BY <1>1, <2>3, LoopFacts
  <2>5. DOMAIN Top.rest = 1 .. Len(Top.rest)
      BY <2>4
  <2> QED BY <2>3, <2>4, <2>5
<1> QED BY <1>1, Invariance, PTL

\* ares_library_cleanup is never reached while a resolver lives:
\* live_resolvers_ counts the resolvers that worker_cleanup refuses to outlive.
THEOREM LibraryOutlivesResolvers == Spec => [](instance # 0 => library)
<1>1. IInv => (instance # 0 => library)
    BY DEF IInv, LifeInv
<1> QED BY <1>1, Invariance, PTL

\* The limit on queries and the socket table are never exceeded: resolve
\* refuses at maximum_outstanding_queries, and a channel that asks for a socket
\* too many is cancelled.
THEOREM LimitsKept ==
    Spec => [](outstanding <= Limit /\ Cardinality(Registered) <= MaxSockets)
<1>1. IInv => outstanding <= Limit /\ Cardinality(Registered) <= MaxSockets
    BY DEF IInv, TableInv
<1> QED BY <1>1, Invariance, PTL

=============================================================================
