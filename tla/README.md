# A formal model of whatsmeow-gateway

The gateway connects a backend (RabbitMQ) with WhatsApp (the whatsmeow library). This directory
holds TLA+ modules that model its concurrent core, TLC configurations that check them on small
instances, and TLAPS proofs of their most important invariants for every value of the constants.

    tlc -workers 2 -config GroupOverflow_order.cfg MCGroupOverflow.tla     # a run
    tlapm GroupOverflowProofs.tla                                          # the proofs

`PROJECT.json` lists components, runs, mutants, hazards, findings and theorems, and maps every
definition to the lines it models.

## Inventory

| Component (code) | State | Operations | Talks to | What is hard | What makes it correct |
|---|---|---|---|---|---|
| Group consumer (`amqp/consumer.go`, `group_lanes.go`, `group_overflow.go`) | lanes per WhatsApp channel, numbered spills, overflow queue, requeue list | receive, dispatch, drain, spill, copy to the tail, stop | broker; handler of the command | goroutines per lane, unconfirmed copies, stalls, stop and crash | per-channel FIFO, one command at a time, nothing lost, channels do not block each other, a stop ends |
| Group command (`gateway/groups.go`, `groups/`, `dedupe/store.go`) | position in the command, `gateway_group_actions`, halts | prepare, begin, apply, halt, mark, publish | ledger, WhatsApp, publisher | partial failure between three stores, DLQ replays, shutdown in the middle | answered before ack, applied once, one answer, bounded halts, a stop is no failure |
| Send command (`gateway/gateway.go`, `dedupe/store.go`) | `gateway_sent_messages` | begin, connect or resume, build, send, mark, tell | ledger, registry, session manager, publisher | lost answers, a session that disappears under the handler, replays | answered before ack, no resend of a sent message, an honest `failed` |
| Serial consumers (`amqp/consumer.go`: send, call, settings; pair) | requeue list | receive, settle, requeue, close | broker | stop with prefetched deliveries | each delivery settled once |
| Session manager and pairing (`session/manager.go`) | sessions, pairings, muted flags, channel locks | pair, join, supersede, QR and code retention, resume, drop, unlink, remove, DisconnectAll | whatsmeow, registry | lock juggling, superseded pairings, events of dropped clients, logout in a goroutine | one live pairing per channel, a dropped client is never served, muted unlink, every waiter is released |
| Pairing slot (`deviceprops/slot.go`) | weighted semaphore, global DeviceProps | acquire, wait, time out, restore, release | pairing | timeout of a waiter, restore of a global | who registers, an ordinary pairing or an import, does so under the props of its kind |
| History import (`history/`, `registry/history.go`, `gateway/history.go`) | import row with skipped chats and chunk progress; queue of chunks | begin, accept, import, publish batches, done, close | registry, media, confirmed publisher | restart in the middle, import replaced while publishing, close while running | a batch belongs to the active import, `done` once and last, batches partition the messages |
| Call lifecycle (`call/manager.go`, `registry.go`, `command.go`, `stream.go`) | tracked calls, streams, uploads | track, attach, answer, end, abort, dispatch | WhatsApp calls, media server, publisher | callbacks against commands against shutdown; early end | one terminal event per call, removed once, streams closed |
| Call audio and recorder (`call/outbound.go`, `recorder.go`) | queues and rings of frames, three tracks, temporary files | speak, announce, read, record, write a frame, finish | meowcaller, disk, object storage | a frame half read, rings that overrun, a disk that fails in the middle of a frame | nothing stale is heard, tracks of one length, nothing cut off, no file left |
| Call reply (`call/autoreject.go`, `autoreply.go`, `gateway/callreply.go`) | cooldown per identity | reject, allow, reply, release | session manager | two calls of one caller under different identities, a reply that fails late | at most one reply per cooldown |
| Channel settings (`channelsettings/`, `gateway/settings.go`, `registry/store.go`) | in-memory map, registry rows, the flag of a told logout | set, stale check, remove, resume, pair, log out | registry | a resume that read an old row sets it after a newer one was set; several logout events of one channel | memory is not behind the row, a logout is told once |
| Shard ownership (`ownership/`) | Redis leases | claim, release, expire (renewal has no caller outside tests) | boot, stop | a lease expires under its owner; half a claim | who serves owns every shard |
| RPC server (`amqp/rpc.go`) | reserved operations, in-flight requests | handle, serve, expire, reply, ack, close | broker, handlers | deadline races, panic, close with requests in flight | every request acked, none served after its deadline, close ends |
| Caches (`avatar/`, `groupinfo/`) | entries with expiry | get, fetch, invalidate | WhatsApp, media | a fetch that ends after its entry was invalidated | no name older than a change that was heard |
| Gateway run and shutdown (`gateway/gateway.go`) | `stopping`, contexts, drains | boot, run, stop | everything above | the order of the drains, deadlines, work that outlives them | nothing acts on what has been closed |
| Publisher, topology, contracts (`amqp/`) | AMQP channels | publish, confirmed publish | broker | a publish that failed may have arrived | (a step of the others that fails either way) |
| Inbound events (`mapper/inbound.go`, `secrets.go`, `receipt.go`, `senderid/`) | none | handle a message, a receipt, a connection event | WhatsApp, publisher | nested wrappers, LID against phone number, content nobody knows | what can be seen is published, about the right person |
| Outbound mapping, rpc answers, media, config, logging | none, or I/O | translate, upload | - | - | not modelled |

## Modules

| Module | Models |
|---|---|
| `GroupOverflow` | the group consumer, with broker, clock, stops, crashes and restarts |
| `ChannelFifo` | what the consumer promises: a FIFO executor per channel |
| `GroupCommand` | one group command with its ledger rows, over any number of redeliveries, in several processes |
| `SendCommand` | one send with its ledger row, and the session and registry row of its channel |
| `PairingSession` | the pair requests of one channel: `Manager` of `session/manager.go`, `PairHandler`, and what resumes, removals, logouts and commands do to the same channel |
| `PairingSlot` | the slot that all pairings of a process share |
| `HistoryImport` | the importer: queues, goroutines, the row of the import, stops, crashes |
| `HistoryTranslate` | what of a chunk becomes an event, and the batches it is packed into |
| `CallLifecycle` | calls while they are tracked, watched, ended from any side, aborted |
| `CallAudio` | what the peer of one call hears, and its recording |
| `CallReply` | calls that are rejected, and the message their caller gets |
| `ChannelState` | the registry row of a channel, its copy in memory, and what was told of its logout |
| `InfoCache` | the caches of group names and profile pictures |
| `RpcServer` | requests with deadlines, from the queue to the ack, over stops and lost connections |
| `ShardOwnership` | the leases of the shards under the life of the processes |
| `InboundEvents` | an event of WhatsApp and what is published for it |
| `MCShared` | nine of them in one run: the initial state picks the subject |
| `MCCommands` | `GroupCommand` and `SendCommand` in one run, in the same way |
| `MC*` | instances for TLC: fault budgets, shapes of input, symmetry |
| `*Proofs` | invariance proofs, and the lemmas on sequences and bags they need |

The modules meet at fixed interfaces and are checked separately: `GroupOverflow` treats a handler
as one job that ends in *settled* or *requeued* (`Finish`, `Postpone`) and so shows that commands
of a channel run one at a time; `GroupCommand` uses exactly that (one running copy per process)
and opens the job up. `PairingSession` and `SendCommand` meet in the sessions of the manager: the first has every
step that changes them but `DisconnectAll`, the second takes one session through a send. `PairingSession`
has the slot as one step that succeeds or times out, `PairingSlot` says when it does. `HistoryImport`
publishes batches by number, `HistoryTranslate` says what is in them. `CallLifecycle` starts the upload
that is the last step of `CallAudio`'s recorder. `ShardOwnership` has the order of `gateway.run`; the
stop as each component sees it is in that component's module.
`FifoSpec` is the refinement (`Fifo == INSTANCE ChannelFifo WITH ...` in `MCGroupOverflow`).

`MCShared` and `MCCommands` compose by interleaving nothing: components that share no state would only multiply each
other's states, so `subject` is chosen once and the steps are those of its module. `MCShared` extends all of
its modules but `HistoryTranslate` and `InboundEvents`, which it instantiates (`MCCommands` extends
`GroupCommand` and instantiates `SendCommand`), so that the theorems of
`SharedProofs` are about the very definitions the run checks. The modules state what their constants
have to be as formulas (`ReplyConstants`, `SendConstants`, ...); `SharedAssumption` and
`CommandsAssumption` evaluate them all.

### GroupOverflow and the code

- `queue` is `gateway.group` including the client library's delivery buffer; `returned` is the bag
  of deliveries given back, redelivered in any order (the broker's order of requeued messages is
  not relied on).
- `Receive`, `Offer`, `Send` are one iteration of `consumePerChannel`: `overflow.admits` (with
  the stall guard that deletes the spill), `lanes.run` and `overflow.admitted`, `overflow.send`.
  They are separate because the drain and overflow goroutines run between them.
- `DrainPop`, `Finish`/`Postpone`, `DrainExit` are `lanes.drain`, one action per critical section.
- `TakeItem`, `BeginPublish`, `PublishConfirmed`/`PublishFailed`/`PublishUnconfirmed`,
  `AckOriginal`, `HandBack` are `overflow.run` and `moveToTail`. An item remembers whether its
  spill is still the one in `overflow.channels` (`own`): the code's item points to its spill, and
  a deleted spill's `unpublished` no longer counts.
- `BeginStop`, `DeliveriesEnd`, `CloseSpill`, `RequeueInOrder` are the stop; `Crash` and `Restart`
  a killed process or a closed connection, and a new consumer with a fresh nonce.
- A closed AMQP channel under `moveToTail` (`rabbitmq.ErrClosed`) is part of `Crash`. Deliveries
  that do not decode are settled at once and are left out.

### GroupCommand and the code

`Prepare` is `prepareGroupCommand`; `Begin` the head of the loop of `GroupHandler` with
`dedupe.BeginAction`; `Apply` `pacer.wait` and `groups.Apply`; `Unavailable` the two answers to an
unavailable WhatsApp (`errShuttingDown`, `haltOrGiveUp`); `Mark` `MarkActionDone` or
`MarkActionFailed`; `PublishResult` the event. A handler returns through `Ack`, `DeadLetter` or
`Requeue`, which settle the delivery only if its AMQP channel is still open. `LoseConnection`
closes that channel while the handler goes on, as the code does: it stops only when it looks at
`stopping`. What the seven actions do on WhatsApp, the photo and the times between groups are
abstracted to the result they give.

### SendCommand and the code

`Begin`, `Connect`, `Lookup`, `Resume`, `Reconnect` (the parts of `ensureChannelConnected`),
`Client`, `Build`, `Send`, `Mark`, `PublishStatus` are the statements of `SendHandler`, with
`sendFailureCode` in the status published. Sends run under `workCtx`, which a stop does not
cancel, so a stop meets them only through `DeadlinePasses` (`drainWithin` gives up, then
`DisconnectAll`) and `Leave`. `LoggedOut` starts two independent steps, as in
`Manager.register`: the goroutine that drops the session, and the event handler that deletes the
registry row. Pairing the channel again is not in the module; it is `PairingSession`'s.

### PairingSession and the code

`runPairSession` gives each request a goroutine and `pair` starts a second one per pairing. A
pairing is named by the request that began it (a request begins at most one: the recursion in
`pair` only follows a wait). `req[r].step` is the position of the first goroutine, `pair[r].worker`
that of the second.

- `TakeLock`, `FindClient`, `BringUp`, `Mute`, `Unlink`, `DropUnlinked`, `ForgetDevice`,
  `FreshClient` are `pairingClient` under the channel's lock, one action per critical section of
  `Manager.mu` or call to WhatsApp or the registry. `lock` is the one mutex of `lockChannel`; its
  holder count, which only frees the map entry, is left out.
- `BeginPairing` (`NewPair`, `Supersede`, `Join`) is `beginPairing`; `Await` the wait for the
  superseded one and the recursive call; `OpenQR`, `AcquireSlot`, `Connect` the rest of `pair`,
  each of which fails through `GiveUp` into `endPairing`; `Refuse` the error answers of `PairHandler`.
- `Receive` is the rendezvous on the unbuffered `updates`; `Say`, `ReadSession`, `SaveRow`, `Tell`
  are `followPairing` and `persistSession`. An update that `pair` put in a buffered channel
  (paired already, or a retained code) is taken at once: its sender never waits.
- `ShowQR`, `AskCode`, `Success`, `QRFails`, `WorkEnds` are the goroutine's loop; `EndPairing`,
  `DropUnpaired`, `CutClient`, `CloseDone` its deferred calls in their order.
- `clients` are all the clients the factory made, as references in the code outlive
  `Manager.sessions`: `session` is an index into it. `muted` is the flag of `register`, which
  `mutedFlag` finds only through `sessions` (`Silence`).
- `Scan`, `LoggedOut`, `EchoLogout` are WhatsApp; `DropLoggedOut` the `go m.drop` and
  `ForgetChannel` the event handler of one logout, in any order. `Resume`/`ResumeConnects`,
  `EnsureConnected` and `Remove*` are the other callers of the manager.

The slot's queue is `PairingSlot`'s: `AcquireSlot` succeeds, times out or sees the end of the
context.

### HistoryImport and HistoryTranslate and the code

- `Accept` is `Importer.Accept` (a closing importer drops the chunk), `TakeNext` is `next`, `TakePlace`
  the channel of places `Importer.chunks`, `Abort` any step that meets the ended context.
- `Download`, `Lookup`, `Persist`/`PersistFails`, `Check`, `Publish`/`PublishFails`, `Release` are
  `Import`, `importChunk`, `persist`, `stillActive`, the retry loop of `publishChunk` and
  `ReleaseHistory`. `Matches` and `Unfinished` are the WHERE clauses of the registry's updates: the row
  may have been replaced, cleared or expired since `Lookup`. A failed call may have done its work.
- `Begin`, `Clear`, `PublishEmptyEnd`, `FinishEmptyImport`, `Expire` are `gateway/history.go` in the hands
  of a pair command or a logout, and the quiet period; an `endEmptyImport` runs beside later pair commands
  of its channel and ends its own import whatever the row says by then; `Close`, `Cancel`, `Closed` are `Importer.Close`.
- `HistoryTranslate`: `Picked` is what `Translate` takes of a chunk, `Begin` and `Build` its workers,
  `Pack` and `LastBatch` the loop of `Split`, with the bytes of the envelope and of a chat's header. `First` is
  the next of a set in the order of the loops: both hand out what is left from the front.

### CallLifecycle and CallAudio and the code

- `Incoming`, `Insert`, `Subscribe`, `Announce`, `Flush` are `Attach`/`trackOutbound` with `Track` and
  `flushEarlyEnd`. `Over` is meowcaller ending the call: it runs the `OnEnd` it was given last, which
  only notes the end until `Subscribe` has hooked the second one.
- `OnEnd`, `AbortChannel`, `AbortAll` all go through `Remove`, whose winner starts `FinishStream` and
  `FinishPublish`; `Upload` is the goroutine of `uploadRecording`.
- `Find`, `SetStream`, `CloseReplaced`, `Detach` are `media/server.go` with `AttachStream`;
  `Dial`, `Look`, `Act`, `DialDone` are `Manager.Dispatch`.
- `CallAudio`: `Speak`, `Play`, `ClearOperator`, `Read`, `CloseOutbound` are `outboundAudio`, where a
  frame is read in two halves; `WriteFrame`, `WriteVideo`, `BeginFinish` to `Upload` the recorder.

Assumed of meowcaller: it ends a call once and calls one `OnEnd`. The callbacks for accepted calls and
state changes, and the client's own call state (`session/caller.go`), are left out.
`AbortAll` takes the calls of all channels at once; a call that arrives after it is lost at exit.

### CallReply, ChannelState, InfoCache and the code

- `CallReply`: `AutoReply` is `autoReply` with `Cooldown.Allow`, `Send` and `Publish` the two halves of
  `callAutoReplier.Reply`, `Release` the release for any error. A reply may outlast its window.
- `ChannelState`: `SettingsCommand` to `DeleteRow` are `SettingsHandler`, `saveSettingsSQL` and
  `removeChannel`; `Lookup`, `SetRead`, `ResumeOnDemand` are `ensureChannelConnected`, which sets what it
  read some time ago; `LoggedOut` to `DeleteLoggedOut` are `handleSessionEvent` and `forgetChannel`.
  `behind` is a ghost: it is set where the code may legitimately leave memory behind the row.
- `InfoCache`: `Obtain` is `entryFor` under the map's lock, `Enter`, `Ask`, `Store` the work under the
  entry's lock, `NameChanged` the event, which
  `handleSessionEvent` drops while `ListenGroups` is off (`Ignores`) and hands to `handleGroupInfo` with
  `Invalidate` otherwise (`Hears`); `Listen` is a settings command that turns it on or off and leaves the
  caches alone; `Evict` is `evictIdle`. `heard` is a ghost: the last change that was not dropped.

### PairingSlot, ShardOwnership, RpcServer, InboundEvents and the code

- `PairingSlot`: `Ask`, `Grant`, `TimeOut`, `Take` are `Slot.Acquire` over the weighted semaphore, which
  serves in order; `Restore` and `ReleaseSlot` the function it returns.
- `ShardOwnership`: `Claim` and `Release` are the scripts of `redis.go`, one shard at a time; `Boot` to
  `Exit` the steps of `gateway.run`; `Expire` the TTL, which nothing renews.
- `RpcServer`: `Start`, `Answer`, `Reply`, `Ack` are `serve`; `Handle`, `Close`, `Closed` the server's life.
  Failed acks and confirms are part of a lost connection (`linked`).
- `InboundEvents`: `HandleMessage`, `HandleReceipt`, `HandleConnection` are the cases of
  `handleSessionEvent`; `Content`, `Shown`, `Rich`, `Stored` are `buildInbound` by the fields and the parts
  of a message that are not empty, `Resolve` is `senderid`. A history notification is taken by
  `acceptHistory` before and is `HistoryImport`'s.

## Runs

| Run | Instance | Shows |
|---|---|---|
| `group_order` | 2 channels, 3 commands each, lane 1, prefetch 3; the handlers of one channel may hang | `FifoSpec` (safety, and liveness of the other channel) without lost confirms, stalls and restarts; `Isolation` |
| `group_faults` | 1 channel, 2 commands, prefetch 3, one lost confirm, one stall, one restart | `NoCommandLost`, `SendNeverBlocks`, `EveryCommandSettles`, `StopTerminates` |
| `group_duplicates` | 1 channel, 4 commands, one lost confirm | finding: `InOrder` |
| `commands` | a group command: 1 process, 2 groups, 2 copies, halt limit 2, a fault of each kind but `mark`; or a send: 2 copies, one fault of each of seven kinds | `AnsweredBeforeAck`, `ShutdownIsNotAFailure`, `AttemptsBounded`, `NoReapply`; `NoResend`, `HonestFailure` |
| `pair_kinds` | 2 requests by QR or by phone number, new channel, one failed call, one stop | `OneAtATime`, `PairingsEnd` |
| `pair_relink` | 2 relinks of a channel whose device is connected, down, or only stored; one each of failed call, logout, command, resume, removal | `SessionIsHeard`, `QuietUnlessResumed`, `NoSessionLeft` |
| `pair_orphan` | 2 requests by QR, one publish that fails | finding: `PairingsEnd` |
| `history_faults` | 2 channels, one place, 2 chunks of 3 shapes, one more row event, one fault, one stop or crash | `TypeOK`, `WholeAndInOrder`, `SilentOnceReplaced`, `ReleasedWhenPublished`, `EndsWithTotal`, `QueuesDrain` |
| `history_replaced` | 1 channel, 1 place, 2 pair commands and 2 chunks, nothing fails | finding: `NothingOnceReplaced` |
| `call_ends` | one call that comes in and one that is dialled on one channel, 2 operators, 2 commands, one abort, one timeout of a stop | `EndsOnce`, `NoStreamLeftOpen`, `StopReports`, `EndReported` |
| `shared` | nine components, one at a time (below) | `Types` and the properties in the next table |
| `call_reply` | the replies of `shared` alone | finding: `OneMessage` |

| Subject of `shared` | Instance | Shows |
|---|---|---|
| `slot` | 4 pairings, 2 of them importing, capacity 2 | `PropsMatchPairing` |
| `shards` | 2 instances, 2 shards, two troubles | `OwnsWhileActive` |
| `reply` | 3 calls of one person known by LID, by phone number, by both; window 2, time up to 3, one slip of each kind | `OncePerWindow` |
| `state` | versions up to 2; two commands, two logouts, one each of connect, pair, fault | `MemoryKeepsUp`, `LogoutToldOnce` |
| `cache` | a group and a person, 2 callers, 2 changes, 2 entries, the channel listening to groups or not | `FreshAfterChange` |
| `rpc` | 2 requests of one operation, one without reply-to, 2 operations, prefetch 1, 2 faults | `AckedMeansReplied`, `RequestsEnd` |
| `audio` | 2 frames of each speaker, one announcement, one detached operator, queue of 1, rings of 2, one tick before the end, one I/O error, one access unit | `NothingStaleHeard`, `RecordingWhole` |
| `texts` | chunks of up to two chats, up to 3 messages of 3 sizes; 2 workers, batches of 2 messages and 11 bytes | `BatchesWhole` |
| `inbound` | every pair of fields with none or all parts, every field with any two parts, every sender, wrapping, receipt and connection event | `EventsFaithful` |

**What the less obvious ones say.** `FifoSpec`: commands start in the order of publication, one at a
time per channel, each once. `HonestFailure`: "failed" is told of a message that WhatsApp took only
after a lost answer, a failed store, a stop or a lost connection. `AttemptsBounded`: what
WhatsApp always refuses is tried once per allowed halt and once per break. `QuietUnlessResumed`:
the gateway's own logout in a relink is never taken for one by the phone. `WholeAndInOrder`: a batch
is followed only by later ones, and none is skipped. `PropsMatchPairing`: whoever may register,
alone or beside others, does so under the props of its kind, and without an import they are the plain ones.
`SilentOnceReplaced`: the chunks of an import that was replaced say at most the one message that was on its
way, which is the bound the code keeps; the contract promises none (finding 4). `EndsWithTotal`: the total told
at the end is that of the batches told, up to one per failed call. `OwnsWhileActive`: a process that
serves owns all shards, unless a lease lapsed under it, it outran its drain or its boot failed.
`FreshAfterChange`: nobody who asks after a change was announced, while the channel listened to groups, gets
the old name, also if a lookup was on its way. `RecordingWhole`: tracks of one length, every frame that was kept is written, no file
is left. `EventsFaithful`: whatever is visible is published, at least as unsupported; the event is about
the peer in a private chat and names nobody as sender of what the channel itself said in a group.

**Bounds.** A lane of one job and a prefetch of three or four make the overflow happen with two or three
commands: one waits for its goroutine, one is spilled; the fourth command of `group_duplicates` is what
a second spill of the same channel needs. The code has 16 and 64. `MaxLostConfirms`,
`MaxStalls`, `MaxRestarts` and `Limits` bound how many faults happen, not when: each may happen at
every point of the behaviour. `Isolation` needs a prefetch of at least the backlog plus two
(a running command, the waiting ones, and one more): with less, one hanging channel holds the
whole prefetch. The defaults (64 and 16) satisfy that for a few hanging channels;
`GROUP_PREFETCH` accepts any positive number.
In `PairingSession` one code per QR channel (`MaxCodes = 1`) is enough to show, join, scan and lose
one; two requests are what join, supersede and relink against each other need, and the first of
them may be anywhere in its run when the second arrives; what takes a third (a session that nobody
pairs, above) is covered by the theorems, which hold for any number. `pair_relink` shows no code
(`MaxCodes = 0`): its new pairing fails, as what the run asks about ends before a scan.
`attempts` and `halts` are counted up to where more changes no property. Several processes are
checked by no run of `GroupCommand`; the theorems without `OneProcess` hold for any number of them.
In `HistoryImport` one place for two channels is what contention needs, one try of a write
(`StoreAttempts = 1`) makes a single fault reach the path that gives up, and a row that is replaced once can
be replaced at every step of the chunk before it. `CallLifecycle` (`Crowds = FALSE`) has the operators
and the dialled call in different behaviours: they meet in no state but the registry. Three calls are
the fewest in which a late release can take a reservation that is not its own. Two versions of
settings are an old and a new one. The invariants of larger instances gave the same
result in single explorations, not kept as runs: three requests of `PairingSession`, both calls of `CallLifecycle`
with its operators (`Crowds = TRUE`), two tries of a write in `HistoryImport`, three callers of
`InfoCache`, three requests and faults of `RpcServer`, three versions and two connectors of
`ChannelState`, two ticks and plays of `CallAudio`. In `texts` the limits are such that both bind: two
messages fill a batch, a size of 9 is too large for any, one of 3 fills it with a second header.

**Deadlock** is checked in every run: `Quiescent`, `Done`, `Finished` and `Rest` are the only states where nothing
is left to do.

**Fairness.** Goroutines are scheduled (weak fairness of their steps). The broker delivers.
A copy that is published again and again is confirmed some day (strong fairness of
`PublishConfirmed`; `moveToTail` retries without bound). A stopped or killed gateway is started
again, and a lost connection ends the process (`reportFailure`, then `run` returns). In `PairingSession`
each goroutine is scheduled, the
wait for the slot is bounded (90 s), whatsmeow ends a QR channel after its last code and reports a
scan, and `Resume` and `Remove` go on once begun; nothing makes a request arrive, a phone scan, a
code expire or a logout happen. Nothing makes WhatsApp available or a handler of a hanging channel
return, nothing makes a stop, a logout or a stall happen. In `HistoryImport` each goroutine runs, one
that waits for a place too (Go serves the senders of a channel in order), and the timer
of `Close` fires. In `CallLifecycle` the goroutines run; nobody has to call, hang up or connect. In
`RpcServer` requests at work and the life of the process go on (`Served`, `Living`), and a request that
can be delivered again and again is (`Delivered`, strong: several wait for one prefetch).

## Findings

1. **A duplicated copy breaks the order of a channel** (`group_duplicates`;
   `amqp/group_overflow.go:177`). The nonce is drawn per process, the numbers restart with every
   spill. A copy whose confirm was lost is published twice; its twin may come back when the next
   spill of the channel counts again, and is then taken for one of its numbers.
   `docs/group-contract.md:199-200, 213-215` promise the order and that a repeated copy is a
   number already past.
2. **A code that cannot be published orphans its pairing** (`pair_orphan`; `session/manager.go:235`).
   `followPairing` returns, nobody receives any more, and the goroutine never reaches `endPairing`:
   later requests of the same kind join it, are acked and get no code, and an importing pairing
   keeps the exclusive slot. `internal/session/pairing_end_test.go:72` states what should hold.
3. **A reply that was sent can be sent again in its window** (`call_reply`; `gateway/callreply.go:65`).
   `Reply` also fails when the message has been sent and only its event cannot be published, and
   `autoReply` (`call/autoreply.go:121-122`) releases the reservation for every error.
   `docs/call-contract.md:404-408` promise at most one message per window, and a release when the
   *sending* fails. `OncePerWindow` counts exactly those excuses, and holds.
4. **A replaced import is still heard of** (`history_replaced`; `history/importer.go:224`). `publishChunk`
   looks at the row (`stillActive`, line 221) and publishes after it (line 224; the end, lines 252-255). A
   pair command that stores a new import between the two replaces the row, and the message of the earlier
   one is published after it. `docs/history-contract.md:43-45`: a second request "substitui o `importId`: daí
   em diante nada (lote ou fim) é publicado para o anterior". `endEmptyImport` (`gateway/history.go:54-57`)
   does not look at the row at all. `SilentOnceReplaced` shows that it is one message of the chunks at most.

More races are in the models and have no run of their own. Each needs two steps within a short
window, or one failed call:

- *A ledger write that fails repeats an action* (`gateway/groups.go:375`): the result is published, the
  row is not, and a redelivery applies it again. `docs/group-contract.md:192-195` promise idempotence per
  group. `commands` has no such fault, and `NeverReapplied` assumes it away by name.
- *A send dead-lettered without an answer* (`gateway/gateway.go:624`): a logout between
  `ensureChannelConnected` and `waClientFor`; `docs/send-failure-contract.md:3` reserves the DLQ
  for infrastructure errors.
- *A command connects a pairing that waits for its slot* (`session/manager.go:422`), against
  `docs/history-contract.md:87-89`; the pairing's own `Connect` then fails.
- *The session dropped by a stop* (`gateway/gateway.go:316`): past the drain deadline
  `DisconnectAll` empties the sessions under a running send, which answers `session_missing` for a
  paired channel; `docs/send-failure-contract.md:9` reserves it for channels without a session
  (`DeadlinePasses`, then `Client` or `Send`).
- *An unlinked device back in the registry* (`gateway/gateway.go:494-501`): `ReadSession` of one
  request, then the relink of another up to `ForgetDevice`, then `SaveRow` of the first;
  `docs/history-contract.md:68-69` says that no resume and no send tries the unlinked device.
- *A linked device that is not saved* (`session/manager.go:148-159` and `328-335`): `FindClient` of
  a request before, and `BeginPairing` after, the `EndPairing` of an earlier one, whose
  `DropUnpaired` then drops the client both share; after the scan `persistSession` finds no
  session, against `docs/history-contract.md:60-61`.
- *A relink that forgets the channel* (`session/manager.go:579`): `ResumeConnects` fails and drops
  the client between `BringUp` and `Mute` of a relink; the flag that `Mute` sets is thrown away and
  the `LoggedOut` of the relink's own logout deletes the channel, against
  `docs/history-contract.md:56-59`. `QuietUnlessResumed` shows that without a resume it cannot
  happen.
- *A logout that nobody hears* (`session/manager.go:525-528`): the phone unlinks the device while a relink has
  it muted; the event is dropped, the relink's own `Logout` fails because there is nothing left to log out,
  and the flag is given back: the session stays without a device and the registry keeps its row, against
  `docs/history-contract.md:66`. `NoSessionLeft` excuses exactly this (`RelinkFailed`).
- *A session that nobody pairs* (`session/manager.go:148-159`): a request that got the client of a pairing
  which is ending begins its own with that client after it was dropped; a third request finds no session,
  makes one and joins the second. When the pairing ends, the client of the third stays registered without
  a device. `NoSessionLeft` is therefore about clients that a pairing ran with; the next request uses
  the leftover one.
- *Settings that go back* (`gateway/gateway.go:744`): a resume on demand sets the settings it read before
  a newer version was saved and set; `docs/settings-contract.md:38` says that the highest version wins. The
  ghost `behind` of `ChannelState` excuses exactly this; the next `connected` of the channel makes the
  backend send the settings again.
- *A name that stays old* (`gateway/gateway.go:758`): a group renamed while the channel does not listen to
  groups keeps its cached name, because the event is dropped before `handleGroupInfo`
  (`gateway/listen_test.go:80` wants it ignored), and `SettingsHandler` does not clear the cache when
  listening is turned on again: the messages of the group carry the old name until the entry's 12 hours are
  over. No document promises otherwise; `FreshAfterChange` is about the changes that were heard.
- *Two ends of one import*: a stop or a failed call between the publish of `done` and its mark
  publishes it again (`EndsWithTotal` counts them).
- *Sessions of a failed boot* stay connected until the process exits (`BootFails`), while its shards are
  already free for another instance.
- *Replies and calls at the edge of a stop*: a call that arrives between `WaitForReplies`, or `AbortAll`,
  and `DisconnectAll` may get no message and no end.

## Proofs

All statements are about the specification without fairness, for every value of the constants that
satisfies the named assumption of the module (`ConstantsAssumption`, `PairingConstants`, `SendConstants`, ...: bounds are
natural numbers, sizes positive; nothing is assumed of `Channels` and `Instances`).

| Module | Theorems (property) |
|---|---|
| `GroupOverflowProofs` | `TypeCorrect`, `LaneExclusion` (`Serial`), `StopsClean` (`DownHoldsNothing`), `SpillNumbers` (`SpillExpectsAssigned`), `NothingLost` (`NoCommandLost`), `SendsGoThrough` (`SendNeverBlocks`), `ImplementsFifo` (the safety of `FifoSpec`), `StartsInOrder` (`InOrder`) |
| `CommandsProofs` | `TypeCorrect`, `AckMeansAnswered` (`AnsweredBeforeAck`), `StopIsNeverReported` (`ShutdownIsNotAFailure`), `NeverReapplied` (`NoReapply`), `TriesBounded` (`AttemptsBounded`); for the run, `EachItsOwn`, `SentIsFinal` (`NoResend`), `FailuresAreHonest` (`HonestFailure`), `AllHold` (all six) |
| `SendCommandProofs` | `TypeCorrect`, `AckMeansAnswered`, `SentIsFinal` (`NoResend`), `FailuresAreHonest` (`HonestFailure`) |
| `PairingSessionProofs` | `TypeCorrect`, `OnePairing` (`OneAtATime`), `EventsHeard` (`SessionIsHeard`), `PairingsCleanUp` (`NoSessionLeft`), `RelinksAreQuiet` (`QuietUnlessResumed`) |
| `HistoryImportProofs` | `TypeCorrect` (`TypeOK`), `HistoryInOrder` (`WholeAndInOrder`), `ReleasedOnlyWhenPublished` (`ReleasedWhenPublished`), `ReplacedFallsSilent` (`SilentOnceReplaced`), `TotalsRight` (`EndsWithTotal`) |
| `CallLifecycleProofs` | `TypeCorrect`, `CallsEndOnce` (`EndsOnce`), `StreamsAreClosed` (`NoStreamLeftOpen`), `StopsReport` (`StopReports`) |
| `CallReplyProofs` | `TypeCorrect`, `Reserved` (`ReservationKept`), `Once` (`OncePerWindow`) |
| `SharedProofs`, slot | `SlotTypeCorrect`, `PropsFollow` (`PropsMatchPairing`) |
| shards | `ShardTypeCorrect`, `Ownership` (`OwnsWhileActive`) |
| state | `ChannelTypeCorrect`, `SettingsKeepUp` (`MemoryKeepsUp`), `ToldOnce` (`LogoutToldOnce`) |
| cache | `CacheTypeCorrect`, `NamesFresh` (`FreshAfterChange`) |
| rpc | `RpcTypeCorrect`, `RequestsAnswered` (`AckedMeansReplied`) |
| audio | `AudioTypeCorrect`, `NothingStale` (`NothingStaleHeard`), `Recorded` (`RecordingWhole`) |
| inbound | `EventsTold` (`EventsFaithful`) |
| texts | `BatchesAreWhole` (`BatchesWhole`) |
| the run `shared` | `EachItsOwn`, `AllTypes` (`Types`), `AllHold` (its safety properties together) |

- `GroupOverflowProofs`: the inductive invariant `IInv` adds to the properties `StopOrder` (what is
  already empty in each phase of a stop: without it nothing says that the lanes are empty when the overflow
  closes) and `ItemsOnHold` (a queued item has not been published yet, so a crash gives its original back).
  `NoCommandLost` is proved through the messages a step may take away: each either settles its
  command or leaves an equal message elsewhere.
- `SendsGoThrough` rests on `WithinPrefetch`: every delivery the consumer holds is in exactly one place
  (the hand, a lane's jobs, a spill's queue, the moving item, the requeue list), so their number is what the
  places hold, and the broker hands out no more than the prefetch, which is the capacity of the
  channel that `send` writes to.
- `ImplementsFifo` and `StartsInOrder` assume `NoFaults` (no lost confirm, no stall, no restart: the
  bounds of `group_order`; with a lost confirm `InOrder` is false, finding 1). `FifoInv` puts the commands of a
  channel that have not entered its lane in one chain: the line (the delivery in hand, then the queue),
  then the belt (the moving item until its copy is confirmed, then `spillQueue`, as the copies they will be).
  `ChainInOrder` says that those with a number of the spill come first, in the order of the numbers, and the
  others after them, all in the line and in the order of publication; `LaneInOrder` that the started
  commands are the first ones and those in the lane the next; `OfferDue` that what `admits` let through is still
  due when it is offered. With that `DrainPop` is `Start`, `Finish` is `Finish`, `Publish` is
  `Arrive`, and every other step stutters.
- `CommandsProofs`: `IInv` says for each handler that all groups before its position have been
  answered, and that a setup failure "shutdown" can be seen only while the process is stopping, where the
  loop requeues before it looks at the setup. The last two theorems need one process (`OneProcess`) and a
  ledger that can be written (`LedgerWrites`). `NeverReapplied` rests on `Recorded`: what is published has its
  row, what is tried has none. `TriesBounded` rests on `Paid`, which keeps the books: a try is paid for by
  the halt it takes or by a break, and the only unpaid one is at work in a process that is up and
  attached; a process that lost its connection or is stopping has already paid for the try it is about
  to make or lose.
- `SendCommandProofs`: `IInv` adds `SendsUnsent`: between `Begin` and `Mark` the row of the command is not
  sent. `FailuresAreHonest` rests on `Truthful`: until the first excuse the process serves, what WhatsApp
  took is in the ledger or at `Mark`, and a failure about to be told is of a message it did not take.
  `CommandsProofs` takes both over to the run: `SameSend` says that the instance of `SendCommand` in the
  proofs is the one that is checked.
- `PairingSessionProofs`: `IInv` has nine parts: `Shapes` and
  `Rest` (the types), `Pointers` (the client indices in use exist), `LockOK` (who holds the lock),
  `Begun` (a request whose goroutine has begun is past `Connect` or failing, and has a client), `Owned` (a live
  pairing is the registered one, which is why there is one) and `Silenced` (a muted
  session is being unlinked or removed by the holder of the lock). `EventsHeard` needs `LockOK`
  and `Silenced` together: only the holder sets the flag, and it clears the flag or drops the
  client before it lets go. `RelinksAreQuiet` rests on `Muffled`: until a resume or a removal disturbs it
  (`calm`), no logout event is at work for a client that is not muted, and whoever asks WhatsApp for a
  logout holds the lock and has muted that client. The property excuses a removal that logs out a
  device the phone has linked a moment before: the proof did not go through without it, and one code
  per QR channel shows why (`pair_relink` has none, since one makes it too long to be a run).
  `PairingsCleanUp` needs the last two parts: `Answered` (a relink that gave its
  flag back is refused, and stays refused) and `Dropped` (while the client of a pairing that is over is
  still the session and has no device, somebody is about to drop it).
- `HistoryImportProofs`: `ChannelInv` follows each chunk through the queue, the places and the worker:
  the queued chunks are in order and after the one at work (`Queued`), nothing told of a channel is ahead of the chunk at work (`NotAhead`),
  the batches told of that chunk are those before its position (`Sent`, `InPosition`), so the log has no gap
  (`WholeLog`), and after an import was replaced one message at most was late, and after that one the worker
  is not about to publish for it (`Silent`). `TotalsRight` rests on `Books`: the batches told of an import,
  less the one in hand (`Settled`), are as many as the row of the live import and the total its goroutine
  carries say, give or take the `Slack`; what is counted was told, and was not told before it was reached
  (`Untold`, from `NotAhead`). The slack is the number of failed calls and stops, less one while a stop
  still owes the chunk it is going to cut off: a stop cuts off one chunk of each channel, and without
  that debt `Cancel` followed by `Abort` would be out by one.
- `SharedProofs`, slot: each waiter is in the queue once, an importing pairing inside the semaphore is
  alone, what such a pairing found there was the base, and so a pairing beside others finds the base too. Shards: a process owns the shards its claim
  has passed, and all of them from `ClaimAll` until its release, unless it is excused; while it
  releases it neither serves nor is online. State: `KeepsUp` (what each command, resume and delivery between
  its two halves will leave behind is no older than the row) and `ToldByFlag` (each teller used up one arming of
  the flag). Cache: the age of what a lookup brings is compared with the last announcement heard at every
  step between `Obtain` and `Store` (`CacheFits`, `InTime`), one caller in an entry at a time (`OneKeyEach`).
  Rpc: a request past its reply was answered or could not be (`Answered`). Audio: what is queued or
  half read is younger than the last announcement or leaving (`NothingOld`); a frame of the peer is in its
  track or in the ring until `Finishing` drains it (`InTrackOrRing`). Inbound: no induction, but every
  path of `Content`: what has a visible field reaches a case that builds something (`SomethingBuilt`), for any set of
  fields, where the run has pairs. Texts: `Shares` says of the batches, the messages too large and those
  still to do that they are what the workers built, the batches in the chunk's order (`InPlace`) and each
  fit to publish; one lemma adds a message to it (`SharesGrow`), whether it opens a batch (`NewBatch`) or goes
  on with one (`LongerBatch`). A batch's size is counted anew from the set of its bytes, and `Split`'s running
  size is that because the open chat is the last one (`OpenIs`), which is where the order of the chunk
  is needed. The counters come out by matching places in the batches with messages one to one
  (`AsManyAs`). `EachItsOwn` says that a step of `MCShared` is a step of one component and
  leaves the others alone, so the theorems above hold of the run's own specification: `AllTypes` and
  `AllHold` spell that out.
- `CallReplyProofs`: tokens of replies at work are different and not above the counter, so that a late
  release finds only its own entries; a reservation younger than the window cannot be swept or taken.
  `Once` rests on `PaidFor`: of the messages that took a place in a window of a caller, all but the one whose
  place still stands gave it back, each by a failure that is counted.
- `CallLifecycleProofs`: `Ordered` follows a call through its life: it is in the registry only between
  `Insert` and the step that begins its end, so the end has one owner, and the publish of `finish` is the
  only one that says "ended". `Watched` and `Streaming` say where an operator's stream is: the call's own, or
  replaced by an operator that has yet to close it; `setStream` and `finishStream` keep that only
  because both look at `finished` and the stream under the same lock.
- The first part of `GroupOverflowProofs` holds the lemmas on containers: what appending, removing and
  mapping do to the elements of a sequence and to the domain of a bag.

Only model-checked: liveness (`EveryCommandSettles`, `StopTerminates`, `Isolation`, `PairingsEnd`,
`QueuesDrain`, `EndReported`, `RequestsEnd`, and the fairness of `FifoSpec`). TLAPS handles neither
fairness nor ENABLED. The four properties of the findings are false, so there is nothing to prove of them. Every safety property of a passing run is proved.

## Not modelled

- Outbound mapping (`mapper/outbound.go`) and what each group action does on WhatsApp
  (`groups/service.go`): translation between formats, one step that succeeds or fails.
- The answers of the rpc operations (`gateway/contacts.go`, `participants.go`): requests of data
  without state of their own; their cache is `InfoCache`.
- Media upload, tokens and HTTP, configuration, logging, `main.go`: I/O and start-up values.
- The order in which RabbitMQ redelivers requeued messages, order across restarts and across the
  stall guard (the code does not promise it), times (timers are nondeterministic), contents of
  messages, `removed` counts, two gateways sending the same message (the shards are claimed by one
  process, up to the lease).
- In `PairingSession`: `TakeOverHistory`, `endEmptyImport` and `attachCalls` (they touch no state there),
  the contents of codes, and the subscriptions of the client.

## Plan

What is left, most useful first:

1. A composition of `ChannelState` with `PairingSession`, for what a relink does to the settings.
2. The group actions of `groups/service.go` with their partial results; outbound mapping.
3. The callbacks for accepted and state events in `CallLifecycle`.
