# A verification model of zzrpc

zzrpc turns a Rust trait into a remote procedure call interface over
[mezzenger](https://github.com/zduny/mezzenger) transports. The `api` macro
generates a `Consumer` (the client) and an `impl_produce` macro (the server);
the library holds the futures and streams that user code awaits. The code is
small, but nearly all of it is concurrency: user tasks, one task per consumer,
one task plus a reply task plus one task per request at the producer, all
joined by unbounded channels, oneshots and a transport with back-pressure.

The TLA+ modules here model that concurrency, TLC checks it on small
instances, and TLAPS proves part of it for all instances.

## Inventory

| Component | Source | State | Operations |
|---|---|---|---|
| Handles: `ValueRequest`, `StreamRequest`, `Stream`, and their `Aborter` | `zzrpc/src/consumer/{value,stream,mod}.rs` | request not yet sent, result oneshot, values channel, abort oneshot | `poll`, `poll_next`, `abort`, `drop` |
| Consumer task and `ConsumerState` | `zzrpc-derive/src/lib.rs` 136-521 | per method: a channel of messages and a map of requests; `pending`; the timer | the `select!` loop: receive, one arm per method, timeout, shutdown, drop |
| `Consumer` | `zzrpc-derive/src/lib.rs` 540-645 | id counter, senders, drop oneshot | one method per trait method, `drop` |
| Producer loop | `zzrpc-derive/src/lib.rs` 743-881 | map of aborters, the timer, the value to return | receive, remove an aborter, timeout, stop, shutdown, drain |
| Request tasks | `zzrpc-derive/src/lib.rs` 656-717 | where the method or its stream is | reply, open, yield, close, abort |
| Reply task | `zzrpc-derive/src/lib.rs` 766-786 | the message being sent | send, report an error, end |
| Messages, `Error`, `ShutdownType`, `HandlingStrategy`, `Timeout` | `zzrpc/src/{lib,producer}.rs`, `consumer/mod.rs` | the timer | `reset`, `poll`, conversions |
| Transport | mezzenger, external | what is in transit each way | send, receive, disconnect |
| Macros `api`, `Produce` | `zzrpc-derive/src/lib.rs` 890-1078 | none | code generation, not modelled |

Handles talk to the consumer task through one unbounded channel per method,
and hear from it through one oneshot (result) and one unbounded channel
(values) per request. Consumer and producer exchange `consumer::Message`
(request, abort) and `producer::Message` (response, stop). At the producer,
request tasks and loop share the reply channel, a channel of ids whose aborter
can go, and one abort oneshot per request; the reply task tells the loop to stop
through a oneshot.

What is hard here, and what makes each component correct:

* **Handles.** `abort` is two sends, `poll` is two reads; on a multi-threaded
  executor they interleave. Correct: every awaited request resolves; an error
  is reported as itself; work nobody waits for is called off at the producer; a
  stream returns the producer's items in order, all of them if it ends by
  itself, and the ones received before an abort in any case.
* **Consumer task.** `pending` is counted in six places and trusted by the
  timeout; a send that waits for the transport blocks every other arm; the loop
  can break in five ways while requests are queued. Correct: `pending` never
  wraps and is exact when nothing is lost; dropping the consumer ends the task.
* **Producer.** A result races its abort; an aborter is removed by a message; a
  stop queues behind replies; the connection closes only when the last holder
  of the reply sender is gone. Correct: replies of a request come in order and
  end once; a timeout ends only an idle producer; aborters do not leak; a
  stopped producer ends its tasks and hangs up.

The complete list, line by line, is under "hazards" in `PROJECT.json`.

## Modules

```
Transport            messages, errors, the wire
  Consumer           handles, aborters, consumer task        (detailed)
  Peer               what a producer does on the wire        (abstract)
    Session          Consumer + Peer: the client's guarantees
      SessionProofs  types, and that pending covers what is owed
        OrderProofs      pending is exact
        DeliveryProofs   streams are in order and complete
        ContractProofs   Session implements RequestContract, and
                         abandoned work is called off
      MCSession      instances for TLC
  Producer           loop, request tasks, reply task         (detailed)
    Serving          Producer + any client; Producer refines Peer
      ServingProofs  theorems about the aborters, the timeout and Closed
        PeerProofs       Producer implements Peer
      MCServing      instances for TLC
  Rpc                Consumer + Producer: the session as a whole
    RpcProofs        both sides' proofs put together: the maps agree, items
                     arrive in order, the session implements RequestContract
    MCRpc            instances for TLC
  TransportProofs    lemmas about messages, for the proof modules
RequestContract      what a caller may rely on               (abstract)
```

The decomposition is assume-guarantee. `Session` checks the client against
`Peer`, which says only what a producer may do on the wire; `Serving` checks
that the detailed producer, against a client that may do anything, does nothing
else. That takes two properties: `KeepsContract`, a refinement with
`INSTANCE Peer WITH`, in which client and network may close the connection at any
time, so that a step of the producer that closes it too early would pass for one
of theirs; and `ActsAsPeer`, that the producer's own steps are ones that Peer
allows the producer itself (`PeerOwn`). Sessions without disconnections rest on the
second. On top,
`RequestContract` says what the caller of a method may rely on, without channels,
tasks or messages, and `Session` implements it (`KeepsCallersContract`, a second
refinement). `Rpc` puts the two detailed sides on one wire, for the questions
that have no answer for one side alone: who waits for whom, and whether work and
connection end together.

**Consumer.** `phase[r]` is the life of the handle of call `r`: `uncalled`,
`created` (`request` is `Some`), `starting` / `polling` (in the middle of a
`poll`), `waiting` (the oneshot is in `receiver`), `streaming` / `checking` (a
`Stream`, idle or in the middle of `poll_next`), `resolved`, `ended`, `dropped`.
`abort[r]` is the abort oneshot: `armed`, `sending` (the Abort message is
queued, the handle not yet told), `signalled`. A handle whose `aborter()` was
never called behaves like one whose aborter is never used. `queue[m]` is the
channel of method `m`, `result[r]` and `values[r]` what the task has sent to the
handle. Channel halves are not variables: a sender is alive as long as
something owns it (`ResultSenderAlive`, `ValuesSenderAlive`), which is how Rust
decides it. `entries[r]` is the `*__requests` map (`pending`: the result sender
is there; `open`: a stream whose result was sent). `task` says where the task
is: `running` at the `select!`, `sending` / `flushing` in `send().await`,
`draining` after the `break`, `stopped`.

**Peer.** Per request `idle`, `serving`, `open` (a stream), `done`; the tasks
told to abort; the announcement of a stop that still waits its turn. An aborted
task may still reply, because the code lets it.

**Producer.** `work[r]` is the task of request `r`, `aborters` the map,
`aborted` the requests whose `abort_receiver` is ready (fired, or its sender
dropped), `removals` the `remove_aborter` channel, `replies` the reply channel,
`replyTask` / `replyHand` the reply task, `stopSignal` the stop oneshot.

**Serving.** The client may request, abort (repeatedly, and before the request
arrives), read, hang up, or lose the connection. `told` is a history variable
for the refinement: tasks busy when their abort was read, or when the producer
stopped. Under the mapping a reply happens when the transport takes it, so a
task that has finished but whose replies still wait is still "serving".

**RequestContract.** Per call `uncalled`, `pending`, `streaming`, `over`,
`dropped`; what it resolved with; the items returned. Of the rest only what
moves forward: items sent, requests answered, requests finished, aborts called,
session down. A request ends once; it fails only if it was aborted or the session
is down; a stream returns item after item and ends by itself only behind the
last. The contract states what the code does: a stream request may say `Ok` as
the session ends under it, an aborted one may say `Dropped` (both are findings).

**Rpc.** `ConsumerNext` and `ProducerNext` over one wire, nothing else.
`Hanging` names the calls whose method may never complete. `Wedged` is the
deadlock the composition is there to find: the consumer task in `send` on a full
transport, towards a loop that has stopped; the reply task in `send`, towards
the consumer task.

### Abstractions

* Payloads: an item is its number, a value carries nothing. An id is a member of
  `Requests`; ids are unique (the counter's wrap-around is out of reach).
* Time: a timer that is running may elapse at any moment. An idle consumer whose
  timer has elapsed goes round its loop until a message resets the timer; that
  is a stuttering step.
* Wakers: whatever can make progress is polled again.
* `send().await` is two steps, feed and flush, and may fail at either. mezzenger
  errors are `Closed` (only after a disconnection) or a transport error (only if
  `Faulty`). After a disconnection what had arrived can still be read.
* The steps between `break` and the end of a task are one: the task drops its
  state, its receivers and its halves of the transport together.
* `MultiThreaded = FALSE` is a single-threaded executor (also WebAssembly): a
  `poll`, a `poll_next` or an `abort` that has begun is finished before anything
  else runs.

## What TLC checks

`v1` is a call of a value method, `s1` of a stream method. `Capacity`
bounds each direction of the transport, `MaxItems` the items of a stream,
`MaxAborts` the aborts a client sends per request. A system may stop for good
(every handle dropped, both sides stopped), so no run checks for deadlock; that
nothing gets stuck which should not is what the liveness runs show.

| Run | Instance | Shows |
|---|---|---|
| `session_threads` | v1, s1; threads; capacity 1, 1 item | types, `PendingIsExact`, `KeepsCallersContract` under every interleaving of two calls |
| `session_stops` | s1; single thread; capacity 4, 2 items; shutdown, producer stops, disconnections; fair | `PendingIsExact`, `ItemsInOrder`, `StreamsEndComplete`, `KeepsCallersContract`, `EveryRequestResolves` while everything ends at any time; `AbandonedWorkIsAborted`: an abandoned request has its abort behind it, wherever it is; `ValuesBeforeAbortReturned` |
| `session_lossy` | s1; threads; capacity 1; transport errors, callbacks that ignore or stop, timeout; fair | `PendingCoversOwed`: the count never falls below what is owed; `EveryRequestResolves` and `DropEndsTask` though messages are lost and back-pressure blocks the task |
| `serving_contract` | v1, s1; capacity 1, 1 abort each; shutdown | `KeepsContract`: the producer refines `Peer`; `ActsAsPeer`: by its own steps, the hang-up among them; `NoAborterLeak` |
| `serving_stops` | s1; capacity 2, 2 aborts; transport errors, stop by callback, shutdown, timeout; fair | types; `TimedOutIdle`, `ClosedMeansClosed`: the producer returns the truth; `StopHangsUp`, `IdleStops` |
| `rpc_ends` | s1; single thread; both sides; capacity 1, 1 item; shutdown, panics, an opening that may hang; fair | types; `EntriesAccounted`: the two maps agree; `AbandonedWorkEnds` (a stream), `StopHangsUpUnlessStuck`, `DropHangsUpUnlessStranded`, `BothSidesEnd`, `StuckStaysStuck` |
| `rpc_reader` | v1, s1; single thread; capacity 1, 2 items; shutdown, panics; a user who reads s1 and may abort it, or between its items call v1 and abort that; fair | `StreamsEndToEnd`: what was yielded is what is returned, in order and without a gap; `ItemsArrive`: an item yielded before the producer stops reaches the reader |

The bounds are enough for the cases that matter: one call already races its own
handle, aborter, drop, consumer task and producer task; a second call is there
to share the consumer task, the channel and the transport with the first;
capacity 1 makes every send block, capacity 2 lets messages queue up behind each
other; two items show order and loss. Symmetry is not used.

Capacity 4 in `session_stops` is not for size: it keeps out a deadlock, which
`rpc_ends` has in and `finding_wedge` is about. Four is more than one call sends
(a request and at most two aborts), so that its `send` finds room even when
nobody reads. Back-pressure is the subject of the other runs.

`session_stops` and `rpc_ends` run on one thread: with threads an abort can
overtake its request (`finding_abort_race`) or an item (`finding_abort_values`), so that
`AbandonedWorkIsAborted`, `AbandonedWorkEnds` and `ValuesBeforeAbortReturned`
fail for that reason. With threads, the count and the contract are checked in
`session_threads`, resolution in `session_lossy`; that streams are in order and
complete is proved of both executors.

`rpc_ends` is one call, because two whole calls (v1, s1) have more than 25 million
states; what two calls do to each other on one wire is the subject of
`session_threads`, `serving_contract`, `rpc_reader` and `finding_wedge`.

`rpc_reader` has two calls and affords them by following one user (`ReaderSpec` in
`MCRpc`), who drops nothing and does not touch v1 before the first item of s1, nor
after aborting s1. Only calls, aborts and drops are cut off, which nobody has to
make. The second item is there for order and gaps, the second call for
`ItemsArrive`: with one call the consumer task has nothing to send while the stream
is open, so nothing can come between an item and its reader. With two it can:
v1's request fills the transport, its abort is in `send`, an item is on the wire
and the producer stops. That is `Stranded`, which `ItemsArrive` excepts; without
the exception TLC finds the trace.

`StopHangsUpUnlessStuck` names two exceptions, and both happen. A stopped producer
does not hang up while a stream's method hangs before it returns its stream (its
abort is not looked at there, lib.rs:663), nor in a session that is `Wedged`.
Neither is a matter of the abstract partners: without the exceptions TLC finds
the traces in the detailed composition.

`DropHangsUpUnlessStranded` says of the other end that a dropped `Consumer` hangs
up. `Stranded` is the exception: the consumer task in `send`, towards a loop that
has stopped, sees no drop until the connection closes. By
`StopHangsUpUnlessStuck` the reason is one of the two above, and a hanging opening
is enough: the producer never hangs up, the consumer task never gets to.

### Fairness

`ConsumerFairness` and `PeerFairness` (in `Session`), `FairSpec` (in `Serving`),
`ConsumerFairness` and `ProducerFairness` (in `Rpc`, and for `ReaderSpec`):
the executor runs every task that is ready; users await the futures and streams
they keep; `select!` picks among ready arms at random, so no arm that stays
ready is passed over for ever; timers elapse. The shutdown future is not among
the fair arms (`TaskDue`): nothing obliges the user to resolve it, and a session
must come to its end without. Polls and the consumer loop get
strong fairness because a poll in progress on a single-threaded executor, or a
step of another handle, disables them in between. Nobody is assumed to abort,
drop, shut down, disconnect or fail. Producer methods complete, in `Rpc`
all but the `Hanging` ones; in `Serving` and `Rpc` their streams need not end,
nor yield.

### Findings

Five runs refute what the documentation says; `PROJECT.json` quotes the lines.

* `finding_stream_error`: `StreamRequest` resolves to `Ok(Stream)` when its
  result is an error. The `Result` inside the oneshot's `Result` is dropped.
* `finding_dropped`: a request queued as the consumer task shuts down fails with
  `Error::Dropped`, though the `Consumer` lives.
* `finding_abort_values`: with threads, `poll_next` can drop a value received
  before the abort. `session_stops` shows that one thread is safe.
* `finding_abort_race`: with threads, `abort` can queue its message before the
  `poll` it races queues the request; the future is aborted, and the request starts
  at the producer when its abort has come and gone. `session_stops` shows that one
  thread is safe.
* `finding_wedge`: over a reliable transport with back-pressure, a producer that
  shuts down and a consumer task that is sending can wait for each other for
  ever. An awaited request never resolves, not even with a timeout: no arm of the
  `select!` is looked at during `send().await`. `NothingFreesAStuckSession` proves
  that it stays so.

Two more disagreements were met and have no run of their own:

* The repository's README.md:33 says that the result of an aborted request is not
  sent and that its task is not affected otherwise. A result and an abort that are
  both ready race in a `select!` (lib.rs:705), so that the result may be sent; and
  when the abort wins, the method's future is dropped where it stands. `Peer`
  allows both, so `KeepsContract` does not object to either.
* A method that panics leaves its aborter behind, and the producer never counts
  itself idle again, whatever its timeout (producer.rs:42). Where methods panic,
  `NoAborterLeak` and `IdleStops` promise nothing and `EntriesAccounted` excepts
  the entry of the call (`Panicked`). What is promised all the same is that
  sessions end: `rpc_ends` checks `StopHangsUpUnlessStuck` and `BothSidesEnd` with
  panics.

## What TLAPS proves

For every set of calls, method map, capacity, and configuration:

* `SessionProofs!TypeCorrect`: `Spec => []TypeOK`. The interesting part is
  `pending \in Nat`: `pending -= 1` never wraps.
* `SessionProofs!PendingCovers`: `Spec => []PendingCoversOwed`. A consumer that
  owes a result is not idle, so the timeout can end it.

Neither is inductive alone: a decrement keeps `pending` natural only because
`pending` covers the results owed, and counting them needs the types. The
inductive invariant `IInv` is both, and that a task which is sending has a
message in hand. The argument is a count: `Owed(e)` is the set of requests a map
of entries owes a result; four lemmas say how its cardinality moves
(`OwedShrinks`, `OwedSettles`, `OwedGrows`, `OwedIsFinite`), and each handler
falls under one of them. The only assumptions are the named ASSUMEs of the
modules: `Requests` is finite, constants have their types.

* `ServingProofs!AbortersDoNotLeak`: `Spec => []NoAborterLeak`. The map of
  aborters holds no completed task but those whose removal is on its way.
* `ServingProofs!TimeoutOnlyIdle`: `Spec => []TimedOutIdle`. A producer that
  times out has nothing left to serve.
* `ServingProofs!ClosedIsTrue`: `Spec => []ClosedMeansClosed`. A producer that
  returns `Closed` has lost its connection, unless callbacks or the shutdown
  future told it to say so.
* `ServingProofs!ServingTypeCorrect`: `Spec => []ServingTypeOK`.

The loop knows its tasks by the map alone, so both facts relate the map to the
tasks. The inductive invariant (`IInv`, which TLC confirmed before it was proved) adds: every task
that runs is in the map or has been fired (`BusyCovered`); never both
(`FiredOnce`), which needs that a request reaches the producer only once
(`RequestedOnce`, a fact about the content of the wire, kept by reading,
sending and cutting it: `TailOnce`, `AppendOnce`, `PrefixOnce`); a stopped loop
has an empty map (`Drained`), or a task that retires unheard would leak; the
loop decides once (`Undecided`), with an answer of the callback
(`StopIsAnswer`). One lemma per process (`LoopStepOK`, `WorkStepOK`,
`ReplyStepOK`, `ClientStepOK`) shows that its steps keep the invariant.
`TransportProofs` holds what both developments need about messages.

`ClosedIsTrue` needs that a connection does not come back (`NeverReconnects`) and
that `Closed` in the stop oneshot was answered to an error that only a closed
connection raises (`TrueCause`).

* `PeerProofs!ProducerKeepsContract`: `Spec => KeepsContract`, the refinement on
  which the decomposition stands, for a transport whose messages do not fail and
  methods that do not panic (Peer has neither; both faults are checked with TLC in
  `serving_stops` and `rpc_ends`). The connection may close at any time, and callbacks,
  timeout, shutdown future and client are arbitrary.
* `PeerProofs!ProducerActsAsPeer`: under the same conditions `Spec => ActsAsPeer`.
  The lemmas about the producer's actions (`ProducerSeen` and those under it)
  conclude `OwnStep`, a step of `PeerOwn` or one that Peer does not see; only the
  client's (`ClientSeen`) need the rest of the contract (`ContractStep`).

For Peer a reply is made when the transport takes it; in the producer it is
queued long before, and by then its task may have ended. So the mapping looks at
the line of replies that wait (`Unsent`): a task is where the first of its
waiting replies puts it, and where `work` says only if none waits. The invariant
(`Keeping`) says that a line is one that Peer can work off: the replies to one
request wait in the order in which its task makes them (`InOrder`, by `Rank`), the
items that wait are the last ones (`ItemsLast`), each is one its task has come to
(`Placed`), a stream without a Closed was told to stop (`CutShort`), a task that
will see its abort has been told (`ToldToStop`). Each action of the producer is
one of the contract's or a stutter: a request read, an abort read and a stop are
seen at once; queueing is unseen (`QueueOthers`); `FeedReply` is the reply, and
`ReplyErr` before it the loss of one (`PeerUnheard`); an aborted task disappears
(`PeerCancel`) when the last of its replies has left, which may be when it ends
(`LeaveSeen`) or when a send returns (`FlushSeen`).

* `RpcProofs!NothingFreesAStuckSession`: for a reliable transport,
  `Spec => StuckStaysStuck`. Being stuck is inductive by itself: every action is
  either disabled or leaves the wire, the loop and both sending tasks alone.

Three modules build on `SessionProofs`, each on the one before. All assume
a transport that loses nothing (`~Faulty`; the connection may still be cut). Each
invariant was an INVARIANT of a TLC run before it was proved.

* `OrderProofs!PendingExact`: `Spec => []PendingIsExact`. The count drifts only if
  a Closed is read before its Open, or if a request is registered after its
  answer. `Order` excludes both: a request is in one place on its way
  (`OnePlace`, `Routed`), reaches the producer once (`SentOnce`), and of the
  replies on the wire the Open comes first (`OpenFirst`).
* `DeliveryProofs!StreamsInOrder`: `Spec => []ItemsInOrder`, and
  `StreamsComplete`: `Spec => []StreamsEndComplete`. `Delivery` follows the items
  from the producer's counter to the handle: on the wire they carry on where the
  values channel ends (`ItemsFollow`, `Numbered`), nothing comes after a Closed
  (`ClosedLast`), and the task forgets a stream that is still wanted only once it
  is complete (`Complete`, `EndForgotten`).
* `ContractProofs!ContractKept`: `Spec => KeepsCallersContract`, the refinement.
  Every step of a session maps to a step of the caller's contract or to a
  stutter. The contract lets a call fail only for a reason, so `Grounds` says
  that what a result oneshot holds has one, and that its sender is dropped only
  for a request that was given up, or as the session ends.
* `ContractProofs!AbandonedIsAborted`: on a single thread,
  `Spec => []AbandonedWorkIsAborted`. `LastWords` says that a poll about to queue
  its request has found no abort (`NoRace`: this is where the single thread is
  needed, and what `finding_abort_race` breaks), that a handle which resolves
  without an abort has its answer (`Settled`), and that behind a request given up
  there is its abort (`LastWord`), in the channel, in the hand of the task, or on
  the wire.

The other theorems of `RpcProofs` are about the whole session. The proofs of the two
sides were made against abstract partners; here each partner is the other side,
and the proofs are used again, by INSTANCE:

* `P` is `PeerProofs` with the consumer as its client. What a client of
  `Serving` has `requested` is, in a session, what the consumer has fed to the
  wire (`Requested`).
* `C` is `ContractProofs` with the producer as its peer, under the same mapping
  (`PeerMap`, `SentMap`, `Notice`) that `ProducerKeepsContract` uses. In both
  instances every task counts as told to abort, so that no history variable is
  needed. That is a weaker promise of the peer (any task may end silently), and
  nothing that is proved here of the consumer needs the stronger one. Its network
  cuts nothing (`Disconnects <- FALSE`): the connection is closed by the consumer
  task or by a hang-up that Peer allows.

* `RpcProofs!RpcTypeCorrect`: `Spec => []RpcTypeOK`, whatever fails. It follows
  from `BothInvariance`, which has both sides' inductive invariants and what
  connects them (`IInv`). The producer's side needs that a request reaches it
  once; in `Serving` the client keeps count, here the consumer must do it. So
  `OnePlaces` says where a request is until the producer's end has it: not made,
  in the channel of its method, or in the hand of the task, in one of them only,
  and without an entry. `TasksKnown` says that a task that was started had an
  abort sender.
* `RpcProofs!MapsAgree`: for a reliable transport, `Spec => []EntriesAccounted`,
  methods that panic included. It is not inductive: whether an entry is owed a
  reply depends on what is still on its way. `Accounted` adds that what a reply on
  its way says of its task is true (`Said`: a Closed comes only from a task that
  is through), and for each entry, also one that is just being made
  (`Registered`), that the producer owes it a reply (`Owing`), that no abort for it
  is behind its request on the wire, and that an abort that was fired found the
  task at its end (`Served`).
* `RpcProofs!MetHolds`: if the producer's messages do not fail and methods do not
  panic, every step of a session is a step of `Session`, one of the consumer's
  (`ConsumerSeen`) or one that Peer allows the producer (`ProducerKeeps`, which rests
  on `OwnStep`). With it
  the invariants of `OrderProofs`, `DeliveryProofs` and `ContractProofs` hold of
  the two detailed sides, and so do their consequences:
  `WholeSessionPending`, `WholeSessionKeepsContract` (the whole session implements
  `RequestContract`), and `ItemsEndToEnd`, which states the items in the
  producer's own terms: `Spec => []StreamsEndToEnd`. In `Rpc` nobody but the two
  sides closes the connection; what a network does that cuts it is in `Session`
  and `Serving`.

TLC checked `IInv`, `Accounted` and `Met` on the instance of `rpc_ends`, with two
items and without panics, beside the proofs. `rpc_reader` has panics: there
`StreamsEndToEnd` is checked of a case the theorem leaves out, since Peer has no
step for a stream's method that panics before it returns its stream.

Only model-checked: liveness (`EveryRequestResolves`, `DropEndsTask`,
`ValuesBeforeAbortReturned`, `StopHangsUp`, `IdleStops`, `AbandonedWorkEnds`,
`StopHangsUpUnlessStuck`, `DropHangsUpUnlessStranded`, `BothSidesEnd`,
`ItemsArrive`): liveness under fairness and ENABLED are out of the prover's reach.
Every invariant and action property that a passing run checks is proved.

## Not modelled

Code generation by the macros, serialization, the `Display` of errors, the
examples; durations; wrap-around of the id counter. `consume_unreliable` and
`produce_unreliable` are generated as the code of `consume` and `produce` and
have the same trait bounds, so a model of them would be the model of those.

## Plan

1. Done: Transport, Consumer, Peer, Session, Producer, Serving, Rpc,
   RequestContract, their runs, both refinements, and the theorems above.
2. Done: the invariants of the two sides carried over to `Rpc`, `EntriesAccounted`,
   and the composition of the two refinements.
3. Proofs: of a whole session on one thread, that work nobody waits for has an
   abort on its way (`AbandonedIsAborted` says it of a session with Peer; the
   mapping that takes every task as told says nothing of it); a Peer whose tasks
   may panic, for `ProducerKeepsContract` and what rests on it.
4. Done: `Rpc` with two calls, for one kind of user (`rpc_reader`).
5. `Rpc` with two calls of any user (25 million states and more), with a network
   that is cut, and with timeouts on both sides, for the answers that never come.
