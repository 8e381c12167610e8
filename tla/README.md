# Laghu: TLA+ models, checks and proofs

Laghu is the foundation of a proxy: a `core` layer of bounded resources (memory budgets, arenas,
slab pools, buffers, handles, mapped regions, deadlines) and an `adapters` layer that wraps native
libraries (c-ares, nghttp2, nghttp3, ngtcp2, zlib-ng, brotli, zstd, PCRE2, yyjson, libmaxminddb,
libxcrypt, the TLS libraries) behind contracts with explicit limits. Beside them `bench/` holds a
runner that measures workloads and an evaluator that gates changes on its reports. This directory
holds specifications of its stateful parts, the TLC configurations that check them, and TLAPS proofs
about all of them but the benchmark programs. `PROJECT.json` maps every definition to the lines it models.

Paths below are relative to `src/src/` (`bench/` to `src/`); headers of the core are in
`core/contract/laghu/core/`.

## 1. Inventory

| Part | State | Operations that change it | What is hard |
|---|---|---|---|
| Memory budgets, `memory_budget.hpp` | counters of each budget, parent pointers, reservations | construct, destroy, reserve, reserve_for_allocation, grow, shrink, release, move | counters of all ancestors updated incrementally, callbacks between charge and rollback, `std::terminate` on any inconsistency |
| Bounded arena, `bounded_arena.hpp` | offset, capacity, charge, generation, pins | allocate, pin, move pin, boundary, reset, destroy | views and pins that outlive a generation |
| Native memory pool, `adapters/.../arena_memory.hpp` | free list inside the arena | malloc, free, realloc for libraries; sessions that pin | a free list in memory that a reset takes back |
| Slab pool, `slab_pool.hpp` | free list in the slots, leases | acquire, release, move | constructors and destructors that call the pool again |
| Bounded buffer, `bounded_buffer.hpp` | block, read and write offsets, charge | reserve, commit, consume, compact, release | growth that fails half way, overlapping copies |
| I/O slices, `bounded_buffer.hpp`, `os/io_slices.cpp` | list of slices | append, translate, consume | short writes, slices appended while a write is out |
| Cancellation, `deadlines_cancellation.hpp` | one atomic outcome per state, parent chains | complete, cancel, expire, observe | threads race; the clock is read between two atomic accesses |
| Dependency lifecycle, `adapters/dependency_lifecycle.cpp` | phase, hooks, counts, epochs, per process | register, preflight, prepare_fork, worker and master cleanup | fork copies the registry at any moment; hooks and their rollbacks fail |
| DNS resolver, `adapters/dns.cpp` | query slots, tokens, socket table | resolve, cancel, process_events, process_timeout, destroy | sinks that call the resolver again, or destroy it, inside its loops |
| Codecs, `adapters/codec*.cpp` | accounting, limits, library state | process, finish, cancel | the end of the stream, the limit and the end of the input meet in any order |
| HTTP/2, `adapters/http2.cpp` | header counters, pending resets, flags | receive, next_output, submissions | callbacks leave work and errors for `receive()`; the arena is not pinned |
| QUIC, `adapters/quic.cpp` | terminal flag, random flag, pending packet | receive, write, transmitted, open, reset, expiry | failures inside callbacks that the call has to report |
| HTTP/3, `adapters/http3.cpp` | terminal flag; the library holds bytes until acknowledged | bind, submit, next_output, written, acknowledge, close | two layers that must agree on offsets and on who may forget a byte |
| Benchmark runner, `bench/runner.cpp` | totals, samples and availability of each metric; the report file | options, warm-up, measured intervals, report | metrics that fail or overflow in one interval, reports cut off half way |
| Benchmark evaluator, `bench/evaluator.cpp` | tables of a JSON document, two reports, rules | load, compare, parse the manifest, evaluate, verdict | long division on 64-bit words, documents at the limits of their tables |
| Mapped regions and handles, `core/mapped_regions.cpp`, `handles.cpp` | mapping, descriptor | map, protect, flush, release, close, move | unmap and close that fail half way |
| Pure parts: state transition tables, shared offsets, binary envelopes, checked arithmetic, JSON, OTLP, IDNA, hashes, GeoIP, crypto | none, or one object without interleaving | | boundaries of ranges |
| `config`, `cache`, `control`, `observability`, `protocol`, `proxy`, `tls` | | | named in the docs, no code yet |

How they interact: a reservation of a **budget** pays for every **arena** and **buffer** block; an
arena backs the **native memory pool**, from which regex, codec, HTTP/3 and QUIC **sessions** take
their state, each holding a pin so that the arena cannot be reset under it (HTTP/2 compares
generations instead); the **lifecycle registry** initializes the libraries that sessions and the
DNS resolver use, before and after fork. Calls are confined to one worker, so concurrency appears
in three places only: atomics of the cancellation states, processes that fork, and callbacks that
re-enter the component that called them. HTTP/3 hands its output to **QUIC** and learns from QUIC's
events what it may forget. The **runner** writes the report that the **evaluator** reads in
another process, perhaps after the runner died.

## 2. Modules

| Module | Models | Checked by |
|---|---|---|
| `BudgetTree` | shape of the tree: parents, chains, sums over a subtree | |
| `BudgetLedger` | abstract specification: reservations only, no counters | |
| `MemoryBudget` | `memory_budget.hpp` with wrapping `size_t` | run `budget_tree` |
| `MemoryBudgetLedger` | refinement mapping of the counters to the ledger | run `budget_tree` |
| `MemoryBudgetProofs`, `CoreProofs` (cancellation, slab pool), `OutputPathProofs`, `NativeMemoryProofs`, `DependencyLifecycleProofs`, `DnsResolverProofs`, `AdapterProofs` (codecs, HTTP/2), `Http3OverQuicProofs` | proofs, section 5 | TLAPS |
| `BoundedArena` | `bounded_arena.hpp` | run `native_memory` |
| `NativeMemory` (extends `BoundedArena`) | `arena_memory.hpp` and pinned sessions | run `native_memory` |
| `SlabPool` | `slab_pool.hpp` | run `slab_pool` |
| `ByteQueue` | abstract specification: bytes in, the same bytes out | |
| `BoundedBuffer` | the buffer of `bounded_buffer.hpp` | run `output_path` |
| `OutputPath` (extends `BoundedBuffer`) | the slices of `bounded_buffer.hpp` and `io_slices.cpp`, filled from a buffer and written out | run `output_path` |
| `Cancellation` | `deadlines_cancellation.hpp`, one step per atomic access | run `cancellation` |
| `DependencyLifecycle` | `dependency_lifecycle.cpp`, one step per hook | run `lifecycle` |
| `DnsResolver` | `dns.cpp`, with a stack of loops and sinks | runs `dns`, `dns_documented_calls` |
| `CodecStream` | `codecs.cpp` and the three process functions | run `codec` |
| `Http2Session` | `http2.cpp` | run `http2` |
| `ConnectionStreams`, `QuicSession`, `Http3Session` | `quic.cpp`, `http3.cpp` | run `http3_over_quic` |
| `Http3OverQuic` | the two composed by a driver (external) with a bounded event queue | run `http3_over_quic` |
| `BenchmarkMath` | fixed-width arithmetic of both programs: percentiles, percentages, means, relative regressions, the bootstrap interval | run `benchmark` |
| `JsonDocument` | the evaluator's JSON reader with its flat tables | run `benchmark` |
| `BenchmarkRunner`, `BenchmarkEvaluator` | the two programs, composed through report files | run `benchmark` |

`MCMemoryBudget`, `MCNativeMemory`, `MCCancellation`, `MCHttp2Session` and `MCHttp3OverQuic` add
only constants and symmetry sets; `MCBenchmark` puts the reader beside the two programs and states
its property for a set of documents.
Definitions whose comment says "Variant that ..." are wrong on purpose: each replaces the
definition that follows it in a mutation test, and the property named in `PROJECT.json` must then
fail.

Conventions. A public function is one action unless it calls out (to a hook, sink, callback,
library or atomic), where it is split exactly there. A call that returns an error and changes
nothing is a stuttering step. A call by another worker than the owner is refused first thing, and
so is not an action. Variables carry the names of the members they stand for. Variables with no
member behind them (`lost`, `exceeded`, `consumed`, `lent`, ...) record what really happened so
that a property can compare it with what the code believes.

### Abstractions and assumptions, per module

- `MemoryBudget`: `reserve_for_allocation` is `BeginAllocation`, any calls by the callback (also
  nested ones), then `FinishAllocation` or `FailAllocation`. The emergency reserve is a second root.
- `BoundedArena`: bytes are offsets, and as in the code alignment is that of the offset. Other
  clients of the budget reserve and release at any time. A loop (`Target` here, `NextCapacity` in the
  buffer) is a recursive function of the number of rounds and the first round at which it ends.
- `NativeMemory`: a session allocates blocks of an abstract size plus a header; the order in which
  a library frees its blocks is arbitrary (`FreeOrders`). Padding is not lost in `NoBlockLost` if it
  stands before a start that is aligned to one of the alignments callers ask for.
- `SlabPool`: an object owns at most one lease, ownership is acyclic (as leases by value are), and
  nobody destroys a lease object that a call on the stack is still using, nor moves an object that
  owns one into an object that is being destroyed. `Owned` is what an object owns through its lease
  and the leases of the objects it owns.
- `BoundedBuffer`: the caller writes only into the region the last `reserve()` returned.
- `OutputPath`: the caller queues the readable bytes of the buffer as slices, keeps each slice's
  bytes in place until they are written (it grows, compacts or releases the buffer only while it
  holds none), and consumes what the kernel reports. The kernel (external) writes any non-empty
  prefix of the vectors. A block that is returned to its source loses its contents.
- `Cancellation`: accesses of the atomics are interleaved in one order, which the code's
  acquire-release accesses guarantee for each state alone; the properties compare accesses of one
  state, or accesses ordered by a call that had returned.
- `DependencyLifecycle`: process ids are not reused.
- `DnsResolver`: one resolver exists at a time, though a sink may replace it. c-ares (external)
  opens and closes sockets and completes a query, but only while it is being run. `cancel()` is
  called with any token, of a query that runs, has ended or has not begun; a slot keeps the token of
  its last query, as in the code.
- `CodecStream`: a library (external) takes and gives any amount the data permit, but stops only
  for lack of input, lack of room or the end. An encoder that has filled its output limit exactly
  is refused `finish()`; decoders probe with one spare byte instead (brotli needs none).
- `Http2Session`: the peer's input is made up as it is parsed. The sink answers anything, but
  does not call the session from inside a callback. The arena, which the session does not pin, may
  be reset between calls or by a sink or provider within one: the session is not valid from then on,
  and what the library would still do in the call it is in is undefined, so the model ends the call
  there and the properties speak of sessions that are valid. A library that has
  reported a fatal error parses nothing more. A provider answers anything; frames that are only
  queued check the session and leave no trace.
- `QuicSession`: ngtcp2 and the crypto provider (external) make any callback that belongs to the
  call, in any order, until one fails. Keys and packets have no contents; that the size of an
  application IV is known is kept, because `update_key` asks for it. Results are `ok`, `blocked`
  (any error the session survives), `draining` (retry, drop, draining, closing), `fatal` and, for
  expiry, `idle_close`. `open_bidi` and `open_uni`, `reset_stream` and `stop_sending` may meet a
  fatal error too, but never end a session, as the code does not look for a
  terminal error there. A packet that `decrypt` refuses is dropped by the library.
- `Http3Session`: nghttp3 (external) holds the bytes of a stream until they are acknowledged or
  the stream is closed. Sections encode to one byte.
- `Http3OverQuic`: `src/` has no code that connects the two sessions, so the driver is modelled
  from what the headers ask of a caller and what the adapter tests do. It offers a view to QUIC
  before its next HTTP/3 call, and goes on after every error that leaves a session usable, missing
  random bytes included; it destroys QUIC before HTTP/3. `lost` counts, for each stream, the bytes
  that QUIC took in a call that failed, of which the driver cannot know; `MaxLost` bounds it.
  `opened` holds the streams the driver was told of.
- `BenchmarkRunner`, `BenchmarkEvaluator`: the words have five bits instead of 64 and a million is
  ten. What the clocks, the resource usage and the workload's counters say in an interval is an
  input. An interrupted write leaves nothing, a part that is no JSON value (that the reader refuses
  it is part of `ReaderExact`) or a report without its last newline, which the evaluator accepts; a
  file that cannot be read is refused. The evaluator's storage is as large as the runner's writer, so
  no report is too long for it. Every report has a file of its own and the evaluator starts
  when no runner is at work. The bootstrap may draw any resample. The hash of an
  environment has no collisions.
- `JsonDocument`: a text is a sequence of tokens. `ParseString` and `ParseNumber` take a token that
  is whole; which bytes make one is left out, and bytes that make none are one mark.

## 3. Runs

All runs are complete explorations of their instance. Deadlock is checked except where the system
may really stop: budgets after `std::terminate`, codecs at their limits, a registry that has been
cleaned up, an evaluator that has exited.

| Run | Instance and why it is enough | Shows |
|---|---|---|
| `budget_tree` | chain of three budgets with limits that over-commit, one emergency root, three reservations, `SIZE_MAX` = 2 so that every counter reaches its limit | counters equal what they stand for, limits hold, nothing dangles, one worker per chain, no counter check terminates; refines the ledger |
| `native_memory` | two sessions and two other pins of which two are held at a time, an arena that grows from 4 to 13 bytes under a budget others use, three generations, two blocks each, two views | no byte handed out twice, to a view or a block; none lost; charge equals capacity; no pinned memory reset and no pin leaked |
| `slab_pool` | three slots, calls nested three deep | free list and leases partition the slots |
| `output_path` | growth 2, 4, 5 with a budget of 6 that others use, five bytes, two slices, two vectors | the buffer is a byte queue and returns every block and charge; the wire gets every byte once, in order, and eventually |
| `cancellation` | two states, alone or as parent and child, two writers and an observer, one deadline | callers agree on the first outcome, a deadline's included, no missed cancellation, reports are real and no deadline is early |
| `lifecycle` | a master and two further processes forked by anyone at any time, four libraries of which two fit, two epochs | hooks in turn and nested, phases tell the truth, roles stay apart |
| `dns` | two slots, three descriptors for two table entries, two tokens per resolver, two resolvers, sinks nested two deep | reported at most once, exact counts and table, no use of a deleted State, every query ends |
| `dns_documented_calls` | as `dns` | violated: see section 4 |
| `codec` | body of two units that decode to two bytes each; supplies one short, exact and one over; limits below, at and above | failures have their cause, nothing is lost, finished means whole, calls get on |
| `http2` | three streams for two pending resets, blocks one over each limit, providers that defer, end, fail and overfill, one arena reset, between calls or within one | no rejection is lost, limits and failed providers are reported exactly |
| `http3_over_quic` | a control stream of one byte and a request stream of three (an acknowledgement at an offset, of a part, with bytes outstanding), a queue of two events that can overflow, bytes taken in calls that fail | failures are reported by their call and end the session if a callback failed, the layers differ by exactly the bytes of failed calls, nothing QUIC may send again is released, a dead connection is not entered |
| `benchmark` | two runners on five machines with seven command lines, up to two intervals with good, missing, zero, decreasing and overflowing readings; seventeen manifests; all words of five bits; intervals of up to 81 resamples, where the bounds are no longer the extremes; documents nested three deep for tables of six nodes and three members | reports say what was measured, verdicts follow from comparable reports, arithmetic equals its exact definition, the reader accepts exactly the documents that fit and shows them as they are |

Bounds that stand for something unbounded are constants named `Max...` and appear in guards only:
`MaxGeneration`, `MaxPins`, `MaxViews`, `MaxBlocks`, `MaxNested` and `MaxNesting` (depth of re-entrant calls),
`MaxToken` (where the code's token wraps), `MaxInstance`, `MaxTime`, `MaxEpoch`, `MaxBytes`,
`MaxOffer`, `MaxLost`. `MaxDepth`, `MaxFields`, `MaxSockets` and the constants `Maximum...` are limits of the code itself,
made small; `QueueCapacity` is one of the driver.

Fairness is assumed in two specifications. `DnsResolver`: c-ares' loops return, a sink that was
called returns, a timeout of a pending query becomes due, and the event loop keeps calling
`process_timeout` from outside of any sink, as the owner of a resolver with a pending timeout
does. `OutputPath`: the source of blocks answers, and the writer goes on translating, writing and
consuming while there are slices (weak fairness); it appends slices if it can again and again
(strong fairness: appending is impossible during a growth and while the list is full, and growths
may recur forever). The others have safety properties
only.

## 4. A divergence

`dns.hpp` says that the resolver's "callbacks are synchronous with process_events(),
process_timeout(), or cancel()". `resolve()` is not named, but c-ares answers some names inside
`ares_getaddrinfo` (a numeric address, a failure), and then the sink runs before `resolve()` has
returned the token (`dns.cpp:514`). The run `dns_documented_calls` shows it in a few steps. A
caller that files its request under the token after `resolve()` returns gets a completion for a
token it does not know yet.

Two things that no document contradicts, but that a caller should know. `http3.hpp:43` promises
the bytes of `next_output()` only until the next operation on the session, and `quic.hpp:193` wants
stream data unchanged until it is acknowledged or the stream is closed. `RetransmissionBacked`
rests on nghttp3, which keeps the bytes that long; a driver that relies on the header alone has to
copy them. And after missing random bytes `write_packet` returns neither the packet nor the number
of bytes taken (`quic.cpp:682`), while the session stays usable: a driver that goes on, as the
model's does, cannot know what to offer next. `CallerInformed` says that the difference is exactly
what was taken in such calls, and `RetransmissionBacked` is about streams without any.

## 5. Proofs

A theorem below holds for every value of the constants: any number of budgets, threads, processes,
streams or slots, any limits and lengths. The `Max...` bounds of section 3 are constants too, so
they restrict nothing. The column on the right names the property of section 3 that the theorem
states; a dash means that no run states it.

| Module | Theorem | Says | Property |
|---|---|---|---|
| `MemoryBudgetProofs` | `TypeCorrect` | every variable has its type; a live budget has a worker | - |
| | `Conservation` | `charged_`, `live_reservations_` and `live_children_` of every live budget are the sums over its subtree | `CountersConserved` |
| | `LimitsRespected` | no budget is charged past its limit | `WithinLimit` |
| | `NoDangling` | along a chain no pointer leads to a destroyed budget | `NoDanglingBudget` |
| | `OneWorker` | all budgets of a chain have one worker | `OneWorkerPerChain` |
| | `CountersNeverFault` | the `std::terminate` calls that guard the counters are unreachable | `NoCounterFault` |
| | `ImplementsLedger` | `MemoryBudget` implements `BudgetLedger` | `LedgerSpec` |
| `CoreProofs` | `CancellationTypes` | every variable has its type | - |
| | `Agreement` | all callers of `complete`, `cancel` and `cancel_if_expired` get the one outcome of the state | `CallersAgree` |
| | `CancellationSeen` | no look that began on a cancelled chain says "go on" | `NoMissedCancellation` |
| | `ReportsReal` | a reported cause is stored in the chain; no deadline is early | `ReportsAreReal` |
| | `OutcomeIsFinal` | no step changes an outcome | - |
| | `SlotsStayPartitioned` | the free list ends and holds exactly the free slots; an occupied slot has one lease | `SlotsPartitioned` |
| `OutputPathProofs` | `ChargeAndBlockExact` | outside of `grow()` the charge is the capacity and only the block in use is lent | `ResourcesExact` |
| | `WrittenInOrder` | the slices show the front of the readable bytes; no byte reaches the wire twice or out of order | `OutputInOrder` |
| | `ImplementsByteQueue` | `OutputPath` implements `ByteQueue` | `RefinesByteQueue` |
| `NativeMemoryProofs` | `SessionsOutliveNoMemory` | an active session holds its pin, and its blocks are of the current generation | `SessionMemoryIntact` |
| | `PinsAreReturned` | the count of pins is the number of holders, and a session that is not active holds none | `NoPinLeaked` |
| | `PinnedArenaStays` | while a pin is held no step resets the arena or takes bytes back | `PinnedStays` |
| | `MemoryIsNotShared` | blocks, free blocks and readable views share no byte | `NoAliasing` |
| | `NothingIsLost` | every byte handed out is in a view, in a block or padding; the charge is the capacity | `NoBlockLost` |
| `DependencyLifecycleProofs` | `HooksStayInTurn` | hooks are called in turn and nested, in every process | `HooksInTurn` |
| | `PhasesTruthful` | between calls the phase says what the libraries are | `PhaseMatchesLibraries` |
| | `MasterAndWorkersApart` | no library works in the master; no child takes one back to raw | `RolesSeparate` |
| | `RegistryWellFormed` | capacity, no library twice, counts within the array | - |
| `DnsResolverProofs` | `SinkCalledOnce` | a query is reported at most once, and not while it is active | `AtMostOnce` |
| | `CountsStayExact` | `outstanding` and the socket table follow the active queries | `OutstandingExact` |
| | `LoopsStaySafe` | no loop goes on with a State a sink has deleted or replaced | `NoUseAfterRelease` |
| | `LibraryOutlivesResolvers` | c-ares is initialized while a resolver exists | - |
| | `LimitsKept` | queries and sockets stay within their limits | - |
| `AdapterProofs` | `FailureHasCause` | a stream fails only for the cause it records | `FailsForCause` |
| | `NoByteLost` | every byte in and out is counted, within the limits | `NothingLost` |
| | `FinishedStreamIsWhole` | finished means whole, with no input left over | `FinishedIsWhole` |
| | `CallsAlwaysGetOn` | a call with room moves a byte or settles the stream | `CallsGetOn` |
| | `RejectionsKept` | a rejected stream is reset or waits to be | `NoRejectionLost` |
| | `ErrorsReportedExactly` | limits and failed providers are reported by their call | `ReportsExact` |
| | `PendingResetsFit` | the array of pending resets does not overflow | - |
| `Http3OverQuicProofs` | `CallsReportFailures` | a QUIC call reports exactly what failed during it; a failed callback ends the session | `FailuresReported` |
| | `LayersInStep` | both layers agree on what was written, but for what failed calls took | `CallerInformed` |
| | `NothingReleasedEarly` | HTTP/3 holds what QUIC may send again | `RetransmissionBacked` |
| | `DeadStaysOut` | a connection the library gave up is neither entered nor changed until it is destroyed | `DeadNotEntered` |

### Assumptions on the constants

Each is a named `ASSUME` of the module that declares the constants, and TLC evaluates it in that
module's run. Most only say that a number is a natural number. The others: budgets, reservations
and descriptors are finite sets; `Parent` gives each budget a parent or none; a budget has at most
`SizeMax` children (they are distinct objects in memory) and limits fit `size_t`; the master is a
process, and the values for "no process" and "no stream" are none; limits that the code refuses
when they are zero are positive; the limit on DNS queries is at most the number of slots, which
`create` enforces; an initial capacity is not above the maximum, without which every request is
refused; alignments and the header of a native block are not zero; the caller's leases are told apart
from slots, and sessions are holders of pins.

`CoreProofs` and `AdapterProofs` each hold the proofs of two components that share no variable, so
neither says anything about the two together.

### Arguments

Every component has one inductive invariant (`IInv`, or `CodecInv`, `SlabInv`, `OutputInv`,
`NativeInv`), a lemma for each kind of step, and one that puts them together; a theorem then follows
from the invariant, an action property from the invariant and one look at each action. Why the
properties are not inductive alone, and what the invariant adds:

- *Budgets.* A release subtracts from each ancestor; that this does not wrap needs conservation,
  which needs the chain to be alive, for which a destructor must not run while a descendant is
  alive, which the code decides from the counters. So `IInv` is the conjunction of all properties
  and of `FramesHeld`: the temporaries of nested `reserve_for_allocation` calls are active and
  distinct. The lemmas about sums say what one change of one reservation does to the budgets on and
  off its chain. `PreflightIsRoom` shows that the overflow-safe comparison along the chain is the
  ledger's "fits into every ancestor".
- *Cancellation.* `FinishingInv` says what a thread inside `finish` knows at each place between its
  atomic accesses. `LookingInv` says what a look has still to find: if the chain was not pending
  when the look began, the thread's own state is settled or a cancellation lies at the place it has
  reached or further up. It survives the steps of other threads because outcomes are final.
- *Slab pool.* That a destroyed slot is occupied and has one lease needs to know which lease each
  call on the stack is working on (`FrameInv`), that leases and occupied slots match one to one and
  that no object owns itself (`LeaseInv`), and that a destructor destroys nothing a call below it
  works on (`NestInv`). The last is about everything an object owns: `OwnedIn` is the least set closed
  under leases, and its lemmas say what one granted, moved or dropped lease does to it. `Listed` is
  the free list; pushing and popping extend and cut the path through its links.
- *Output path.* `BufferInv` follows the charge through `grow()`: while a block is awaited the larger
  capacity is charged already. `Moved`, the copy loop, is shown to copy every byte also where source
  and target overlap, so growing and compacting keep `Queue`. `SliceInv` says that the slices lie one
  behind the other from the first readable byte on (`Tiled`), that the vectors are a prefix of them
  and that nothing is held while the block changes; from it `ConsumedFacts` derives what the loop of
  `consume()` leaves after a write of any length. `AheadInv` is the order on the wire. For the
  refinement every step of the buffer is one of `ByteQueue`'s on `Queue`, or leaves `Queue` alone.
- *Native memory.* `ArenaInv` counts the pins, and `SessionInv` gives a session a pin exactly while it
  is active and blocks only then; so `reset()`, which wants no pins, finds no session with blocks, and
  the free list that is left behind is of an earlier generation. `Sound` says of any holdings and any
  free list that each block has one owner (`OneOwner`), that blocks and readable views lie apart
  below the offset (`Laid`) and that they cover it up to padding (`Tiled`). Taking a block from the
  list, taking a new one, giving back in any order and handing over to another session keep `Sound`
  (`TakeFree`, `TakeNew`, `GiveBack`, `Handover`); a step of a session is one or two of these. The
  charge needs only `ChargeInv` and that the doubling loop ends at a capacity that suffices
  (`TargetSuffices`).
- *Lifecycle.* What the invariant says of a process depends only on that process's registry, call
  and libraries (`ProcessInv`), so a step of one process leaves the others alone (`OneProcess`) and
  a fork copies it. Between calls the phase determines the libraries (`Resting`). In a call a border
  runs through the hooks in the order of registration (`Busy`): those before it are up, the others
  down or failed; each hook call moves the border by one (`OneMoreUp`, `OneFewerUp`).
- *DNS.* Tokens of active queries are distinct, were handed out and are not yet answered; no token
  still to come was answered, in this resolver or a later one (`TokenInv`). Only the innermost call
  can be a loop, because a loop that dispatched does not come back to its queries (`StackInv`): that
  is what makes a sink that deletes the State harmless. What `process_timeout` remembers
  (`Collected`) is shown to be active queries by taking the first slot at which this fails.
- *Codecs.* The properties together, with the fact that the library never read more than there is,
  are inductive; the work is in the library's contract (`Producible`): a decoder cannot
  put out more than its input determines. `CallsGetOn` follows from the invariant and the contract.
- *HTTP/2.* `PlaceInv` ties the place in a call to the session being valid and the library sound.
  `LimitInv` ties the header counters to the block being parsed and the flag to this call, and
  `ProviderInv` does the same for the provider's failure. `RejectInv` says that a rejected stream is
  open and its reset submitted or recorded, also in the middle of a call.
- *HTTP/3 over QUIC.* `QuicInv`, `Http3Inv` and `DriverInv` are invariants of the layers. `Accounts`
  relates what each has counted. `Backing` is about the event queue: there is a bound on what HTTP/3
  has released after each queued event, rising along the queue and never above what QUIC has been
  told of; so an event that is delivered, refused or dropped keeps the bytes that QUIC may need.

### Model-checked only

- Liveness (`QueriesEnd`, `EverythingWritten`): fairness is out of this prover's reach.
- The benchmark programs: the long division and the JSON reader with its reference are recursive
  operators, which exclude the SMT backend from every module that uses them.

The library's induction theorems cannot be instantiated, as they take an operator as a parameter.
Where an induction over numbers is needed, the proofs take a least counterexample instead
(`WFMin`): `LeastElement` in `CoreProofs`, `LeastNumber` in the other modules. With it
`CollectedExists` and `LoopRuns` show that a recursive function, so a loop of the code, is defined on
all of its domain, and facts such as `ConsumedFacts` are shown round by round.

## 6. Plan

1. `MappedRegion` with the handles: unmap or close that fails, retry, moves. Properties: a
   descriptor is closed at most once, a mapping is never lost while it exists, no view is given
   out of a region that is gone.
2. Moves of HTTP/2 handles, so that the component is complete; the registry composed with the
   resolver (cleanup refused while a resolver lives).
3. Pure algorithms against reference definitions: shared offsets, binary envelopes, transition
   tables, limits of the JSON walk.
4. Proofs about the arithmetic of the benchmark programs, once it is written without recursive
   operators.

## 7. Not modelled

Wording and logging of errors, formatting, addresses and host names, socket interest flags, the
compiled build manifest and the command line, the benchmark's workloads themselves. Of
QUIC: the contents of keys and secrets, and the encoding of addresses. Value types (views, identifiers, results), clocks,
digests, crypto, entropy, IDNA, GeoIP lookups and password hashing make single calls without state
that outlives them, or none that anything else can interleave with. Threads other than the
cancellation API's are not modelled: every other class is confined to its worker, and the
destructors, which do not check it, leave that to their owner. `PROJECT.json` gives the reason for
each part.

## 8. Running

    tlc -workers 2 -config MCMemoryBudget.cfg MCMemoryBudget     # any run of PROJECT.json
    tlapm MemoryBudgetProofs.tla                                  # any module of section 5
