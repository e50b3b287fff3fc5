# async-tcp: TLA+ models, checks and proofs

This directory specifies the core of async-tcp, an asynchronous TCP client library for the RP2040/RP2350
on top of lwIP. Every definition is translated from the C++ code under `src/`; `PROJECT.json` maps each one
to its lines, and lists the runs, their mutants, the findings and the hazards.

## 1. The system

The library runs lwIP in one *async context* on the networking core. lwIP calls back into the library; the
library sets *workers* (bridges) of the same context pending; the application's handlers run as those workers.

| Component | State | Operations | Talks to |
|---|---|---|---|
| `IoRxBuffer` | `_head`, `_offset` over a pbuf chain, `_pcb` | `lwip_receive_callback`, `peek*()`, `peekConsume()`, `reset()` | lwIP's pbufs and `tcp_recved()`; the received and fin callbacks |
| `TcpClientContext` | `_pcb`, `_rx`, `_tx`, callbacks | constructor, `connect()`, `close()`, `abort()`, `writeChunk()`, `_error()`, `_poll()`, `_connected()` | lwIP's PCB: argument, callbacks, `tcp_close()` |
| `TcpClient` | `_ctx`, six bridges, accessor, `_localPort` | `connect()`, `_ts_connect()`, `stop()`, `shutdown()`, destructor, `write()`, `writeChunk()`, `keepAlive()`, `setOn*Callback()`, `_on*Callback()` | owns the context; `workload()`/`run()` of the bridges |
| `TcpWriter` | `m_pcb` | `writeData()`, `onAckCallback()`, `onError()` | `tcp_write()`, `tcp_output()` |
| `TcpClientSyncAccessor` | reference to the client | `status()`, `connect()`, `run_local()` | context lock; `SyncBridge::execute()` from the other core |
| `iprs_util` | none | `is_in_isr()` | one register |
| async_bridge, Pico SDK async context, lwIP | external | | modelled from their use |

What is hard here, and what correctness means for each part:

* **Receive buffer.** Reference counts of pbufs while the head of a chain is released, requests that end at or
  cross segment boundaries, deliveries between reads, window updates in 16 bit pieces. Correct: no pbuf is freed
  under the cursor or leaked, the reader gets the peer's bytes once and in order, the window is neither lost nor
  over-extended, no delivered byte is left behind.
* **Life cycle.** Four places hold the same PCB pointer (context, receive buffer, writer, lwIP's callback
  argument), lwIP frees and reuses PCBs on its own, and handlers run later than the events that made them
  pending. Correct: lwIP never calls a deleted context, nobody uses a freed or foreign PCB, no connection ends behind
  its client's back, every connection attempt is answered, and connections have ports of their own.
* **Send side.** A message goes to lwIP in pieces and any piece may be refused. Correct: the peer gets prefixes in
  order, a success means everything, what was accepted is sent in the end.
* **Cross-core calls.** A caller on the networking core calls the client itself under the context's lock, one on the
  other core has it called by a worker. Correct: the client sees one caller at a time whichever way a call comes, and
  every call returns, from a handler that holds the lock already too.

`hazards` in `PROJECT.json` lists these by line, with the properties that watch each.

## 2. Modules

| Module | Role |
|---|---|
| `RxStream` | abstract: a byte stream with a receive window |
| `IoRxBuffer` | the receive buffer, refining `RxStream`; `MCIoRxBuffer` for TLC |
| `IoRxBufferProofs` | theorems about `IoRxBuffer`, checked by TLAPS |
| `TcpClient` | several clients, their contexts, lwIP's PCB pool and callbacks, the bridges; `MCTcpClient` |
| `TcpClientProofs` | theorems about `TcpClient` |
| `TxStream` | abstract: a send stream that takes the bytes of writes in order |
| `TcpWriter` | `writeData()`, `writeChunk()`, lwIP's send queue; refines `TxStream`; `MCTcpWriter` |
| `TcpWriterProofs` | theorems about `TcpWriter` |
| `AtomicClient` | abstract: `status()`, `connect()` and `run_local()` of an object used by one caller at a time |
| `TcpClientSyncAccessor` | callers on both cores, the context's lock, the hand-over; refines `AtomicClient`; `MCTcpClientSyncAccessor` |
| `TcpClientSyncAccessorProofs` | theorems about `TcpClientSyncAccessor` |

Operators named `X_Something` and marked "Mutant" are deliberate faults of `X`. They are not used by the
specifications; substituting one for `X` must make TLC report the property named with it in `PROJECT.json`.

### IoRxBuffer

A chain pointer is the sequence of pbufs it links; a pbuf's payload is an interval of the peer's stream
(`first`, `len`), so "which byte" is data and "what the bytes say" is not. `pos`, `lost` and `goal` are history:
bytes taken, bytes dropped by `reset()`, what the current call has to remove. The loops of `_slowPath()` and
`_toAck()` take one step per iteration (`pc`), and nothing else may happen until the call returns, because all of
it runs in one async context. lwIP delivers any chain of free pbufs within the window, reports FIN, an error with
or without a pbuf, or kills the PCB. `peekConsume()` is called from handlers; `reset()` and `close()` at any time
between calls. `peek()`, `peekAvailable()` and `peekBuffer()` change nothing: `CursorInSegment` and
`FreedOnlyWhenTaken` say what they may rely on.

### TcpClient

A context is `<<client, number>>`, and `arg[p]` is the one registered with PCB `p`. `Connect`, `ConnectFail` and
`ConnectRefused` are the returns of `_ts_connect()`. `TcpNew` gives a free PCB or, when there is
none, one taken from a closing or a connected client (the contexts set `TCP_PRIO_MIN`), whose error callback then
runs. `LwipError` frees the PCB and leaves every pointer of the library as it is, as `_error()` does. `bridges`,
`pending` and `rx` are a client's bridges, their flags, and the workloads of the received and fin bridges.
`SetOnCallbacks` registers the handlers, all of `Bridges` together, before the first `connect()`; a
client may also go without. `pcb` and `tx` are the pointers of the context and of its writer, which
only differ after `close()`. `ReadPcb` stands for the getters and `setNoDelay()`, which test `_ctx` and `_pcb` first,
`KeepAlive` for `keepAlive()` and its getters, which do not.

The first access to an object that is deleted, freed or not the client's own ends the behaviour: `fault` is then the
client and the kind of access. `close()` is the one use of a foreign PCB that goes on, because it does something to
the PCB's owner: the owner's connection ends without a word, and `cut` of the owner becomes `"stolen"`. `cut` is
`"error"` for a context whose PCB lwIP freed or took for another client. `Destroy` is possible at any time at which no
handler of the client runs. The destructor does not close: a client that is connected leaves lwIP with callbacks into a
deleted context. `abandoned` records that client, such a PCB is `Dangling`, and the next callback of it (`LwipDangling`),
or the `tcp_new()` of another client that takes it (`ConnectDangling`), is the fault.

Errors come from lwIP (`LwipError`, and `NewContext` when `tcp_new()` takes a PCB away) and from `writeChunk()`
(`WriteChunkError`), at any time, also while the error handler runs. `_onErrorCallback()` allocates a code for each error
and overwrites the one workload of the error bridge, so that a second error before the handler runs leaks the first
code. Nothing in the repository says who deletes a code; the model leaves the codes out.

`localPort` is the counter `_localPort` that the clients share, modulo `PortMax` + 1; `setLocalPortStart()` is its initial
value `PortStart`. A PCB gets the counter's value without any check by lwIP, or, at 0, a port of `LwipPorts` that no
other connection has. `PortsDistinct` holds because the counter stays at 0 once it has wrapped.

### TcpWriter

Byte `i` of write `w` is `<<w, i>>`; `stream` is what `tcp_write()` accepted. `WriteLoop`, `WriteRejected` and
`WriteReturn` are the iterations and the two exits of the loop in `writeData()`; `tcp_write()` may refuse a chunk
at any time. `LwipSent` is `lwip_sent_cb()` followed by lwIP's output, `LwipPoll` the poll timer. The connection
stays open: closing and errors are the subject of `TcpClient`. `Tx` maps the writer to `TxStream`: the loop of
`writeData()` to `Start`, `Piece` and `Finish`, a `writeChunk()` to one `Offer`, acknowledgements and polls to `Transmit`
or a stutter. The abstract stream knows no buffer, segment or window; it fixes what a caller may conclude from
an answer (no more is claimed than was taken; less, as `writeData()` does after a refusal, is allowed, and is what
`writer_return` is about) and that bytes taken do not stay behind.

### TcpClientSyncAccessor

`pc[t]` is where caller `t` is: `ConnectHost` looks up a name first, without the lock (`HostByName`, bounded by
`_timeout`), and then goes on as `connect()` with an address does. `Call` goes by `isCrossCore()` to `CtxLock` (networking core) or to `OnExecute` (other
core: the worker takes up the payload; `pc[t]` is then the worker's place) or `ExecuteFails`. Inside the client,
`_ts_connect()` takes two steps, the test of `_ctx` (`TsConnectTest`) and the rest (`TsConnectCreate`), so that
a second caller between them would do harm. `result` is the local that the payload points to. `lock` and `depth` are
the context's recursive mutex: a handler, being a worker, holds it before it calls. The client is reduced to `conn`; `"lost"`
is a context whose PCB lwIP has freed, whose `state()` is whatever the memory holds. `stop()` and `shutdown()`
take no lock in the code; they are called by handlers here, which hold it, or in a function given to `run_local()`
(`CallMe`), which takes it for a caller of the networking core that is no handler. What the function does to the client is
one step that may leave it as it was, stop it, shut it down or connect it: its own calls of `status()` and `connect()` take
the lock again and give it back, and nobody else gets in between. `SyncBridge::execute()` is not in
the repository; the model assumes that it returns after `onExecute()` has, or fails without calling it.

## 3. Runs

| Run | Result | Shows |
|---|---|---|
| `rx_safety` | pass | `TypeOK`, `ChainOwned`, `CursorOnStream`, `CursorInSegment`, `WindowConserved`, `ExactConsume`, `FreedOnlyWhenTaken` |
| `rx_liveness` | pass | `ImplementsStream` (refinement with its fairness), `ConsumeReturns`, `EveryByteTaken` |
| `client_safety` | pass | `TypeOK`, `ActivePcbOwned`, `HandleValid`, `StaleUseExplained`, `PortsDistinct`, `NoSilentEnd` |
| `client_liveness` | pass | `Answered` |
| `writer` | pass | `TypeOK`, `StreamInOrder`, `SuccessWhole`, `ErrorMeansNothing`, `AllSent`, `ImplementsTx` (refinement with its fairness) |
| `accessor` | pass | `TypeOK`, `Exclusive`, `ImplementsAtomic` (refinement), `CallReturns` |
| `rx_stale_pcb` | violation | data read after an error updates the window of a freed PCB |
| `client_stale_pcb` | violation | after an error `stop()`, `write()`, `keepAlive()` and the getters use a PCB that is freed, or another client's by now, whose connection `stop()` closes |
| `client_leaked_pcb` | violation | a failed `connect()` leaks its PCB |
| `client_freed_rx` | violation | a pending handler reads the buffer of a client shut down since |
| `writer_return` | violation | `writeData()` returns 0 with bytes queued |
| `writer_data_held` | violation | lwIP refers to a buffer the caller has taken back |

A violation run states what a comment or a document of the repository says and shows that the code does otherwise;
`findings` quotes the line.

Other differences between code and documents that the models make visible and no run is spent on: `connect()` on a
client with a context returns `PICO_ERROR_RESOURCE_IN_USE` (`ConnectRefused`), while `TcpClient.hpp:105-107` says that the
connection is stopped and replaced; `TcpClient.hpp:98-100` and `docs/RawPointerUsage.md:38` speak of reference counting,
which there is none of; `writeChunk()` queues what fits and drops the rest of the chunk without an error
(`ContextWriteChunk`); the ack handler of `setOnAckCallback()` is never called, because `onAckCallback()` is empty.

**Bounds.** `IoRxBuffer`: three pbufs, chains of up to two and requests of up to five bytes give every case of
`_slowPath()` (stop inside, at the end of, or beyond a segment, across a boundary between deliveries); a window of
four bytes with six bytes sent needs window updates to go on; `AckMax` = 2 stands for 0xFFFF so that `_toAck()`
loops. `TcpClient`: two clients and two PCBs, two contexts each: exhaustion, takeover, and a new connection over a
stale pointer all happen; the liveness run has one PCB so that the clients compete for it. The safety run
registers the received and error handlers, the liveness run the connected and error handlers. Its ports are 0 to 3,
the counter starts at 3 and wraps after the first connection, and lwIP chooses from the top of the range, as it does
(2 and 3), so that its choice meets the counter's earlier port. `TcpWriter`: a send
buffer of four, segments of two and messages of up to five bytes make a write span three chunks, fill the buffer
and be refused at any of them; two writes put a complete one after a broken one. `TcpClientSyncAccessor`: one caller of
each kind (other core, networking core, handler), calling without end; the state space is finite as it is, and the
proofs cover more callers.
`CHECK_DEADLOCK FALSE` is set for `TcpClient` only: its behaviours end at a fault, and when the clients are used up.

**Fairness.** The networking core does not stop, so steps of a running call, pending workers and returning handlers
are fair; a worker's fairness is strong because other workers run in between, and the async context goes through its
whole list. lwIP bounds a connection attempt by its retransmission timer, so an attempt is answered or reported as
failed. `Answered` does not count an attempt that its client stops or is destroyed over, one that another client closes through a
stale pointer (`"stolen"`: the one silent end that `NoSilentEnd` leaves), and behaviours that end in a fault. The lookup of a host name ends by its timeout. `EveryByteTaken` assumes handlers that read until the buffer is empty (`DrainingHandler`), as the
documented pattern does; `AllSent` that the peer keeps acknowledging and the poll timer runs. `CallReturns` needs
strong fairness for the lock and for the worker (either may find the lock taken again and again, but the mutex wakes
waiters and the context goes through its workers) and for the return of handlers, which make finitely many calls.

## 4. Proofs

`IoRxBufferProofs` proves, for every pool of pbufs, window size, chain length, request and `AckMax` > 0:

| Theorem | Statement |
|---|---|
| `Invariance` | `Spec => []IInv` |
| `TypeCorrect`, `Ownership`, `StreamOrder`, `CursorInside`, `WindowAccounting`, `ConsumeExactly` | the invariants of `rx_safety` |
| `ReleaseAfterUse` | the action property `FreedOnlyWhenTaken` |
| `Refinement` | `Spec => Stream!SafeSpec` |

The only assumptions are those of `ConstantsAssumption`. The invariants of the runs are not inductive alone. `IInv`
adds: `Segments` (every segment of the chain is non-empty and ends at or before `rcvd`, and the cursor is inside the
head during a call too, so that `_slowPath()` always advances), `PcbKnown` (a non-empty chain, or a slow path in
progress, means the receive callback has set `_pcb`: without it consumed bytes might not be acknowledged and the
window would leak), and `CallInv` (what the loop has consumed and can still consume add up to the goal).
The heart is `FreeRefResult`: freeing the head of a chain with one reference each, its successor held by
`pbuf_ref()`, leaves exactly the tail with one reference each. `FreeStep`, `AdvanceStep`, `DropStep` and
`DeliverStep` say what the four ways of changing the chain do to ownership and cursor; one lemma per group of
actions then gives `NextInv`. `StreamStep` maps each step to `RxStream`: a delivery to `Deliver`, an iteration of a
consuming loop to `Consume`, a `tcp_recved()` to `Ack`, `reset()` and `close()` to `Discard`, errors to `Die`, and
everything else to a stutter; `CursorIsPos` shows that the mapped cursor is `pos`.

`TcpClientSyncAccessorProofs` proves, for any sets of callers and handlers:

| Theorem | Statement |
|---|---|
| `Invariance` | `Spec => []IInv` |
| `TypeCorrect`, `MutualExclusion` | `TypeOK` and `Exclusive` of run `accessor` |
| `Refinement` | `Spec => ImplementsAtomic` |

`AgentsAssumption` says that the agents are distinct and that handlers run on the networking core. `Exclusive` is not
inductive: a handler owns the lock outside its calls, so `IInv` adds `HandlerHolds` (a handler's calls are made with the
lock), `OwnerInside` (any other owner is inside the client, so a caller that finds the lock its own is a handler),
`DepthCounts` (the depth is 2 exactly inside a handler's call, so `ctxUnlock()` frees the lock for the others and not
for it), `StillUnused` (what `connect()` found when it tested `_ctx` still holds when it makes the context), and
`OpFits` (a payload that fails is never that of a `run_local()`, a lookup that fails is that of a `connect()`). There
is one lemma for each kind of step: the context's own, entering, going on inside, leaving, and outside the client.
For the refinement, the moment of effect is the step that writes the answer (`AnswerEffect`); locking, unlocking and
the test of `_ctx` and a successful lookup are stutters, and `StillUnused` is what makes `TsConnectCreate` an atomic `Connect`.

`TcpWriterProofs` proves, for every send buffer, segment size and peer's window above 0 and any number and size of writes:

| Theorem | Statement |
|---|---|
| `Invariance` | `Spec => []IInv` |
| `TypeCorrect`, `InOrder`, `SuccessIsWhole`, `ErrorTookNothing` | `TypeOK`, `StreamInOrder`, `SuccessWhole` and `ErrorMeansNothing` of run `writer` |
| `TxRefinement` | `Spec => Tx!SafeSpec`, the safety part of `ImplementsTx` |

`StreamInOrder` speaks of the whole stream: each byte belongs to the message that was asked for, all bytes of the message
before it are there, and everything at an earlier position is an earlier byte, so nothing is repeated. `IInv` adds
what the calls rely on: `SendBuffer` (the free send buffer and the bytes not acknowledged make up `TCP_SND_BUF`, so no
acknowledgement overfills it and no chunk takes more than there is; no more is in flight than the window), `Unmade` (nothing
is queued or reported of a write before it is made, so the next write comes last), and `LoopInv`, the loop invariant of
`writeData()`: `total_queued` counts exactly the bytes of the current message that are in the stream, which are its first
ones. `TakenInOrder` is the common step of both ways to write: appending the next bytes of the latest write keeps
the order. `StepSimulation` maps each step to `TxStream`.

`TcpClientProofs` proves, for any number of clients, contexts and PCBs, any set of handlers and any range of ports:

| Theorem | Statement |
|---|---|
| `Invariance` | `Spec => []IInv` |
| `TypeCorrect`, `CallbacksFindContext`, `HandlesValid`, `LocalPortsDistinct` | `TypeOK`, `ActivePcbOwned`, `HandleValid` and `PortsDistinct` of run `client_safety` |
| `EndsAreTold` | the action property `NoSilentEnd` |
| `StaleUseNeedsCut` | `StaleUseExplained` |

`ConstantsAssumption` says that the null pointer is neither a PCB nor a context, and that lwIP's ports and the starting port
are ports. The invariants support each other, so they are proved together: a callback knows its client because the PCB is
owned, and `close()` leaves other connections alone, or takes the PCB of one over visibly in `cut`, because a pointer
is valid or was cut off. `IInv` adds `PortsBelow`: until the counter wraps, every port in use is below it, which is why a
port given without a check is new; once it is 0, lwIP chooses ports that nobody has, and it stays 0. It also adds
`IdleCallsNobody`: a PCB that is free or closing has no context registered. Without that `tcp_new()` could take a
PCB from the pool and report an error to a context deleted long ago; with it, only an active PCB can be `Dangling`, and
an active PCB has an owner (`ActiveOwned`) or was left behind by a destructor. `ConnectionMoves`,
`ConnectionEnds` and `ContextGone` say what a state change, the end of a connection and the deletion of a context do to the
connections; `NewContextFacts` is `tcp_new()` with the takeover of a connection.

`StaleUseNeedsCut` rests on `IInv` and `SamePcb` (the writer has the context's pointer until `close()`) and limits what
`client_stale_pcb` shows, for each client by itself: the client that uses a freed or foreign PCB through its `_pcb` is one whose own
context lost its PCB, one that does so through its writer has lost its PCB or has closed it, and the client whose deleted context
lwIP calls is one that was destroyed while connected. `EndsAreTold` goes through the steps that can end a connection: its
own client's operations; `LwipError` and the takeover by `tcp_new()`, whose error callback finds the client because the
PCB is registered with its context (`ErrorTold`); and the `close()` of another client, which by `HandleValid` was cut
off itself (`CloseTold`).

Only model-checked: the liveness properties (`ConsumeReturns`, `EveryByteTaken`, `Answered`, `AllSent`, `CallReturns`) and
the fairness parts of `ImplementsStream` and `ImplementsTx`, which are outside what the proof system does.

## 5. Not modelled

`iprs_util`, the values of socket options, and the replacement of a bridge after the first `connect()` (its pending event
would be lost with it). `setWriteCallback()`, `setSyncAccessor()` and `setDefaultNoDelay()` are called once, before
anything else, and no operation depends on when. `abort()`, `_is_timeout()`, `_calculate_chunk_size()` and
`_get_write_flags()` have no caller in the library. The examples are demonstrations. The guards of `writeData()` and
`writeChunk()` against null or empty data change nothing; the values of error codes and log output are left out.
What `hostByName()`, `SyncBridge` and the bridges do inside is not in the repository; `stop()`, `shutdown()` and `write()`
on the other core without the lock are not modelled, because the code has nothing that would make them correct.

## 6. Plan

1. Done: `RxStream`, `IoRxBuffer` and its proofs; `TcpClient` with write errors, destruction and ports; `TxStream` and
   `TcpWriter`; `AtomicClient`, `TcpClientSyncAccessor` with host names and `run_local()`, and its proofs.
2. Done: proofs of every invariant of the passing runs, of `FreedOnlyWhenTaken` and `NoSilentEnd`, and of the safety part of the three
   refinements.
3. Next: proofs of stronger facts on the same inductive invariants, first that a pending received handler of a client that was
   not shut down has a live buffer.
