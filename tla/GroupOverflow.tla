--------------------------- MODULE GroupOverflow ---------------------------
(***************************************************************************)
(* The consumer of gateway.group: internal/amqp/group_lanes.go (one lane   *)
(* per WhatsApp channel) and internal/amqp/group_overflow.go (the commands *)
(* a full lane refuses are republished, numbered, at the tail of the       *)
(* queue).                                                                 *)
(*                                                                         *)
(* Processes: the consumer goroutine (hand, loop), one drain goroutine per *)
(* busy lane (fetching, running), the overflow goroutine (moving), the broker, and   *)
(* whoever stops or kills the gateway.  A delivery is the message it       *)
(* carries; a goroutine holds at most one, as a sequence of length 0 or 1. *)
(* The client library's delivery buffer is part of queue.                  *)
(***************************************************************************)
EXTENDS Naturals, Sequences, FiniteSets, SequencesExt

CONSTANTS
  Channels,         \* channel ids found in commands
  MaxCommands,      \* bound: commands published per channel
  Backlog,          \* GroupLaneBacklog, waiting jobs per lane
  Prefetch,         \* GroupPrefetch, the QoS of the AMQP channel
  MaxLostConfirms,  \* bound: copies the broker took but never confirmed
  MaxStalls,        \* bound: times 30 s pass without progress of a spill
  MaxRestarts       \* bound: graceful stops and crashes together

ASSUME ConstantsAssumption ==
  /\ MaxCommands \in Nat /\ Backlog \in Nat \ {0} /\ Prefetch \in Nat \ {0}
  /\ MaxLostConfirms \in Nat /\ MaxStalls \in Nat /\ MaxRestarts \in Nat

VARIABLES
  arrived,      \* commands published so far, per channel
  queue,        \* gateway.group: ready messages, head first
  returned,     \* bag of messages given back, redelivered in any order
  phase,        \* life of the consumer
  nonce,        \* overflow.nonce, drawn anew by every incarnation
  loop,         \* where the consumer goroutine is
  hand,         \* the delivery the consumer goroutine is dispatching
  lanes,        \* lanes.pending: is the key in the map, and its waiting jobs
  fetching,     \* drain goroutines of a lane about to look for a job
  running,      \* drain goroutines of a lane inside a job: its delivery
  requeue,      \* deliveries whose handler returned ErrRequeue
  spills,       \* overflow.channels
  spillQueue,   \* overflow.queue
  moving,       \* the item in moveToTail
  lostConfirms, stalls,  \* how much of their bounds is spent
  started,      \* history: commands whose handler was called
  settled       \* history: commands acked or dead-lettered by their handler

brokerVars == <<queue, returned>>
loopVars   == <<loop, hand>>
laneVars   == <<lanes, fetching, running, requeue>>
spillVars  == <<spills, spillQueue, moving>>
boundVars  == <<lostConfirms, stalls>>
histVars   == <<started, settled>>
vars == <<arrived, brokerVars, phase, nonce, loopVars, laneVars, spillVars,
          boundVars, histVars>>

-----------------------------------------------------------------------------
(* Values. A message without overflow headers has nonce 0 and seq 0.       *)

Message == [ch: Channels, n: Nat \ {0}, nonce: Nat, seq: Nat]
Command(c, n) == [ch |-> c, n |-> n, nonce |-> 0, seq |-> 0]

Lane   == [present: BOOLEAN, jobs: Seq(Message)]
NoLane == [present |-> FALSE, jobs |-> <<>>]

\* quiet: overflowStallAfter has passed since lastProgress.
Spill   == [next: Nat, expected: Nat, quiet: BOOLEAN]
NoSpill == [next |-> 0, expected |-> 0, quiet |-> FALSE]
NewSpill == [next |-> 1, expected |-> 1, quiet |-> FALSE]
HasSpill(c) == spills[c] # NoSpill

\* own: the item's spill is still the one in overflow.channels, so the item
\* counts in its unpublished; step: where moveToTail is.
ItemSteps == {"hold", "publishing", "copied"}
Item == [msg: Message, seq: Nat, own: BOOLEAN, step: ItemSteps]

Slot(S)   == {s \in Seq(S) : Len(s) <= 1}
Phases    == {"running", "stopping", "cancelled", "closing", "down"}
LoopSteps == {"receive", "offer", "send"}

\* Mutant: the channel is as long as a lane.
OverflowAsLane == Backlog
OverflowCapacity == Prefetch

InLane(c) == Len(running[c]) + Len(lanes[c].jobs)

\* The places that deliveries take in the lanes: the i-th of a lane.
LanePlaces == UNION {{c} \X (1..InLane(c)) : c \in Channels}

\* Deliveries this consumer holds unacknowledged: what the QoS counts.
Held == Len(hand) + Len(requeue) + Len(spillQueue) + Len(moving)
        + Cardinality(LanePlaces)

-----------------------------------------------------------------------------
(* overflow: what the consumer goroutine asks of it.                       *)

Copied(d) == d.nonce = nonce

Unpublished(c) ==
  \/ \E i \in DOMAIN spillQueue : spillQueue[i].msg.ch = c /\ spillQueue[i].own
  \/ \E i \in DOMAIN moving : moving[i].msg.ch = c /\ moving[i].own

Stalled(c) == spills[c].quiet /\ ~Unpublished(c)

\* Mutants: the overflow is not asked; a copy waits for its successor.
AdmitsAlways(c, d) == TRUE
AdmitsLate(c, d) ==
  \/ ~HasSpill(c)
  \/ Stalled(c)
  \/ Copied(d) /\ d.seq < spills[c].expected

Admits(c, d) ==
  \/ ~HasSpill(c)
  \/ Stalled(c)
  \/ Copied(d) /\ d.seq <= spills[c].expected

\* The spill left behind once delivery d of channel c has entered its lane.
AfterAdmission(c, d) ==
  LET s == spills[c] IN
  IF ~HasSpill(c) \/ ~Copied(d) THEN s
  ELSE IF d.seq # s.expected THEN [s EXCEPT !.quiet = FALSE]
  ELSE IF s.expected + 1 = s.next THEN NoSpill
  ELSE [s EXCEPT !.expected = s.expected + 1, !.quiet = FALSE]

\* Items of a deleted spill no longer count in the unpublished of a new one.
Disown(items, c) ==
  [i \in DOMAIN items |->
     IF items[i].msg.ch = c THEN [items[i] EXCEPT !.own = FALSE] ELSE items[i]]

SetSpill(c, s) ==
  /\ spills' = [spills EXCEPT ![c] = s]
  /\ IF s = NoSpill
     THEN spillQueue' = Disown(spillQueue, c) /\ moving' = Disown(moving, c)
     ELSE UNCHANGED <<spillQueue, moving>>

-----------------------------------------------------------------------------
(* The consumer goroutine: consumePerChannel.                              *)

Route(c, d) == IF Admits(c, d) THEN "offer" ELSE "send"

\* Takes the next delivery and decides with overflow.admits, whose stall
\* guard drops the channel's spill.
Dispatch(d) ==
  LET c == d.ch IN
  /\ hand' = <<d>>
  /\ loop' = Route(c, d)
  /\ IF HasSpill(c) /\ Stalled(c)
     THEN SetSpill(c, NoSpill)
     ELSE UNCHANGED spillVars

Receive ==
  /\ phase \in {"running", "stopping"} /\ loop = "receive" /\ Held < Prefetch
  /\ \/ /\ queue # <<>>
        /\ Dispatch(Head(queue))
        /\ queue' = Tail(queue) /\ UNCHANGED returned
     \/ \E d \in DOMAIN returned :
          /\ Dispatch(d)
          /\ returned' = returned (-) SetToBag({d}) /\ UNCHANGED queue
  /\ UNCHANGED <<arrived, phase, nonce, laneVars, boundVars, histVars>>

\* Mutant: a lane takes everything.
LaneUnbounded(c) == FALSE
LaneFull(c) == Len(lanes[c].jobs) >= Backlog

\* The key is in lanes.pending.
Busy(c) == lanes[c].present

\* lanes.run under its mutex, then overflow.admitted, or on to overflow.send.
Offer ==
  /\ loop = "offer"
  /\ LET d == hand[1]  c == d.ch IN
     \/ /\ ~LaneFull(c)
        /\ lanes' = [lanes EXCEPT ![c] =
                       [present |-> TRUE, jobs |-> Append(@.jobs, d)]]
        /\ fetching' = [fetching EXCEPT ![c] =
                          IF Busy(c) THEN @ ELSE @ + 1]
        /\ SetSpill(c, AfterAdmission(c, d))
        /\ hand' = <<>> /\ loop' = "receive"
     \/ /\ LaneFull(c)
        /\ loop' = "send"
        /\ UNCHANGED <<hand, lanes, fetching, spillVars>>
  /\ UNCHANGED <<arrived, brokerVars, phase, nonce, running, requeue, boundVars,
                 histVars>>

\* overflow.send: numbers the delivery unless it is a copy of the live spill.
Send ==
  /\ loop = "send" /\ Len(spillQueue) < OverflowCapacity
  /\ LET d      == hand[1]
         c      == d.ch
         s      == IF HasSpill(c) THEN spills[c] ELSE NewSpill
         number == ~HasSpill(c) \/ ~Copied(d)
     IN
     /\ spills' = [spills EXCEPT ![c] =
                     IF number THEN [s EXCEPT !.next = s.next + 1] ELSE s]
     /\ spillQueue' = Append(spillQueue,
                        [msg |-> d, seq |-> IF number THEN s.next ELSE d.seq,
                         own |-> TRUE, step |-> "hold"])
  /\ hand' = <<>> /\ loop' = "receive"
  /\ UNCHANGED <<arrived, brokerVars, phase, nonce, laneVars, moving, boundVars,
                 histVars>>

-----------------------------------------------------------------------------
(* The drain goroutines: lanes.drain.                                      *)

DrainPop(c) ==
  /\ fetching[c] > 0 /\ lanes[c].jobs # <<>>
  /\ fetching' = [fetching EXCEPT ![c] = @ - 1]
  /\ running' = [running EXCEPT ![c] = Append(@, Head(lanes[c].jobs))]
  /\ lanes' = [lanes EXCEPT ![c].jobs = Tail(@)]
  /\ started' = [started EXCEPT ![c] = @ \cup {Head(lanes[c].jobs).n}]
  /\ UNCHANGED <<arrived, brokerVars, phase, nonce, loopVars, requeue, spillVars,
                 boundVars, settled>>

DrainExit(c) ==
  /\ fetching[c] > 0 /\ lanes[c].jobs = <<>>
  /\ fetching' = [fetching EXCEPT ![c] = @ - 1]
  /\ lanes' = [lanes EXCEPT ![c] = NoLane]
  /\ UNCHANGED <<arrived, brokerVars, phase, nonce, loopVars, running, requeue,
                 spillVars, boundVars, histVars>>

\* Job i of the lane returns and its goroutine looks for the next one.
Return(c, i) ==
  /\ running' = [running EXCEPT ![c] = RemoveAt(@, i)]
  /\ fetching' = [fetching EXCEPT ![c] = @ + 1]
  /\ UNCHANGED <<arrived, brokerVars, phase, nonce, loopVars, lanes, spillVars,
                 boundVars, started>>

\* settle acked or dead-lettered the delivery, as the handler's error says.
Finish(c) == \E i \in DOMAIN running[c] :
  /\ Return(c, i)
  /\ settled' = [settled EXCEPT ![c] = @ \cup {running[c][i].n}]
  /\ UNCHANGED requeue

\* The handler returned ErrRequeue, which it does only while shutting down.
Postpone(c) == \E i \in DOMAIN running[c] :
  /\ phase \in {"stopping", "cancelled"}
  /\ Return(c, i)
  /\ requeue' = Append(requeue, running[c][i])
  /\ UNCHANGED settled

-----------------------------------------------------------------------------
(* The overflow goroutine: overflow.run and moveToTail.                    *)

OverflowFrame == UNCHANGED <<arrived, phase, nonce, loopVars, laneVars, spills,
                             stalls, histVars>>

MoveStep(from, to) == moving # <<>> /\ moving[1].step = from
                      /\ moving' = <<[moving[1] EXCEPT !.step = to]>>

CopyOf(item) == [item.msg EXCEPT !.nonce = nonce, !.seq = item.seq]

\* Mutant: the goroutine leaves as soon as o.stop is closed.
TakeItemUntilStop ==
  /\ moving = <<>> /\ spillQueue # <<>> /\ phase \notin {"closing", "down"}
  /\ moving' = <<Head(spillQueue)>> /\ spillQueue' = Tail(spillQueue)
  /\ UNCHANGED <<brokerVars, lostConfirms>> /\ OverflowFrame

TakeItem ==
  /\ moving = <<>> /\ spillQueue # <<>> /\ phase # "down"
  /\ moving' = <<Head(spillQueue)>> /\ spillQueue' = Tail(spillQueue)
  /\ UNCHANGED <<brokerVars, lostConfirms>> /\ OverflowFrame

\* The hold or the retry wait is over and o.stop is still open.
BeginPublish ==
  /\ phase # "closing" /\ MoveStep("hold", "publishing")
  /\ UNCHANGED <<brokerVars, lostConfirms, spillQueue>> /\ OverflowFrame

PublishConfirmed ==
  /\ MoveStep("publishing", "copied")
  /\ queue' = Append(queue, CopyOf(moving[1]))
  /\ UNCHANGED <<returned, lostConfirms, spillQueue>> /\ OverflowFrame

\* Refused, returned as unroutable, or never sent: retried with the same seq.
\* Mutant: the original is acked all the same.
PublishFailureIgnored ==
  /\ MoveStep("publishing", "copied")
  /\ UNCHANGED <<brokerVars, lostConfirms, spillQueue>> /\ OverflowFrame

PublishFailed ==
  /\ MoveStep("publishing", "hold")
  /\ UNCHANGED <<brokerVars, lostConfirms, spillQueue>> /\ OverflowFrame

\* The broker took the copy but its confirm missed overflowPublishIn.
PublishUnconfirmed ==
  /\ lostConfirms < MaxLostConfirms /\ lostConfirms' = lostConfirms + 1
  /\ MoveStep("publishing", "hold")
  /\ queue' = Append(queue, CopyOf(moving[1]))
  /\ UNCHANGED <<returned, spillQueue>> /\ OverflowFrame

\* Acks the original once its copy is safe; unpublished.Add(-1).
AckOriginal ==
  /\ moving # <<>> /\ moving[1].step = "copied" /\ moving' = <<>>
  /\ UNCHANGED <<brokerVars, lostConfirms, spillQueue>> /\ OverflowFrame

\* o.stop is closed: the original goes back to the broker.
HandBack ==
  /\ phase = "closing" /\ moving # <<>> /\ moving[1].step = "hold"
  /\ moving' = <<>> /\ returned' = returned (+) SetToBag({moving[1].msg})
  /\ UNCHANGED <<queue, lostConfirms, spillQueue>> /\ OverflowFrame

-----------------------------------------------------------------------------
(* Environment: producers, the clock, stops, crashes and restarts.         *)

Publish(c) ==
  /\ arrived[c] < MaxCommands
  /\ arrived' = [arrived EXCEPT ![c] = @ + 1]
  /\ queue' = Append(queue, Command(c, arrived[c] + 1))
  /\ UNCHANGED <<returned, phase, nonce, loopVars, laneVars, spillVars, boundVars,
                 histVars>>

StallElapses(c) ==
  /\ stalls < MaxStalls /\ stalls' = stalls + 1
  /\ HasSpill(c) /\ ~spills[c].quiet
  /\ spills' = [spills EXCEPT ![c].quiet = TRUE]
  /\ UNCHANGED <<arrived, brokerVars, phase, nonce, loopVars, laneVars,
                 spillQueue, moving, lostConfirms, histVars>>

Advance(from, to) ==
  /\ phase = from /\ phase' = to
  /\ UNCHANGED <<arrived, nonce, loopVars, lanes, fetching, running, spillVars,
                 boundVars, histVars>>

\* Gateway.run: stopping.Store(true), before the consumer is cancelled.
BeginStop ==
  /\ nonce <= MaxRestarts
  /\ Advance("running", "stopping") /\ UNCHANGED <<brokerVars, requeue>>

\* Consumer.Close cancelled the consumer: the range over deliveries ends.
DeliveriesEnd ==
  /\ loop = "receive"
  /\ Advance("stopping", "cancelled") /\ UNCHANGED <<brokerVars, requeue>>

\* lanes.wait returned; spill.close closes o.stop.
CloseSpill ==
  /\ \A c \in Channels : fetching[c] = 0 /\ running[c] = <<>>
  /\ Advance("cancelled", "closing") /\ UNCHANGED <<brokerVars, requeue>>

\* <-o.done; requeueInOrder; the AMQP channel closes.  The order of the nacks
\* is dropped with the order of redelivery.
RequeueInOrder ==
  /\ spillQueue = <<>> /\ moving = <<>>
  /\ returned' = returned (+) ToBag(requeue) /\ requeue' = <<>>
  /\ Advance("closing", "down") /\ UNCHANGED queue

MessagesOf(items) == [i \in DOMAIN items |-> items[i].msg]

LaneMessages(c) == ToSet(running[c]) \cup ToSet(lanes[c].jobs)

LaneBag ==
  [d \in UNION {LaneMessages(c) : c \in Channels} |->
     ToBag(running[d.ch] \o lanes[d.ch].jobs)[d]]

\* A consumer with nothing in memory: newLanes, newOverflow.
FreshConsumer ==
  /\ loop' = "receive" /\ hand' = <<>> /\ requeue' = <<>>
  /\ lanes' = [c \in Channels |-> NoLane]
  /\ fetching' = [c \in Channels |-> 0] /\ running' = [c \in Channels |-> <<>>]
  /\ spills' = [c \in Channels |-> NoSpill]
  /\ spillQueue' = <<>> /\ moving' = <<>>

\* Process killed or connection lost: the broker takes back every unacked
\* delivery and the memory of the consumer is gone.
Crash ==
  /\ phase # "down" /\ nonce <= MaxRestarts /\ phase' = "down"
  /\ returned' = returned (+) ToBag(hand) (+) ToBag(requeue) (+) LaneBag
                 (+) ToBag(MessagesOf(spillQueue)) (+) ToBag(MessagesOf(moving))
  /\ FreshConsumer
  /\ UNCHANGED <<arrived, queue, nonce, boundVars, histVars>>

\* A new process draws a fresh nonce.
Restart ==
  /\ phase = "down" /\ phase' = "running" /\ nonce' = nonce + 1
  /\ FreshConsumer
  /\ UNCHANGED <<arrived, brokerVars, boundVars, histVars>>

\* Nothing left to do: every command published and settled, nothing in flight.
Quiescent ==
  /\ \A c \in Channels : arrived[c] = MaxCommands /\ fetching[c] = 0
  /\ phase = "running" /\ queue = <<>> /\ returned = EmptyBag /\ Held = 0
  /\ UNCHANGED vars

-----------------------------------------------------------------------------
Init ==
  /\ arrived = [c \in Channels |-> 0]
  /\ queue = <<>> /\ returned = EmptyBag
  /\ phase = "running" /\ nonce = 1
  /\ loop = "receive" /\ hand = <<>>
  /\ lanes = [c \in Channels |-> NoLane] /\ requeue = <<>>
  /\ fetching = [c \in Channels |-> 0] /\ running = [c \in Channels |-> <<>>]
  /\ spills = [c \in Channels |-> NoSpill] /\ spillQueue = <<>> /\ moving = <<>>
  /\ lostConfirms = 0 /\ stalls = 0
  /\ started = [c \in Channels |-> {}] /\ settled = [c \in Channels |-> {}]

ConsumerStep == Receive \/ Offer \/ Send
OverflowStep == \/ TakeItem \/ BeginPublish \/ PublishConfirmed \/ PublishFailed
                \/ PublishUnconfirmed \/ AckOriginal \/ HandBack
StopStep     == DeliveriesEnd \/ CloseSpill \/ RequeueInOrder

Next ==
  \/ ConsumerStep \/ OverflowStep \/ StopStep
  \/ \E c \in Channels : \/ DrainPop(c) \/ DrainExit(c) \/ Finish(c) \/ Postpone(c)
                         \/ Publish(c) \/ StallElapses(c)
  \/ BeginStop \/ Crash \/ Restart \/ Quiescent

Spec == Init /\ [][Next]_vars

\* Every goroutine keeps running; the broker keeps delivering and, tried for
\* ever, eventually confirms a copy; a stopped gateway is started again.
\* Handlers end on the channels of Live only.
Fairness(Live) ==
  /\ WF_vars(ConsumerStep)
  /\ WF_vars(TakeItem) /\ WF_vars(BeginPublish) /\ SF_vars(PublishConfirmed)
  /\ WF_vars(PublishConfirmed \/ PublishFailed \/ PublishUnconfirmed)
  /\ WF_vars(AckOriginal) /\ WF_vars(HandBack) /\ WF_vars(StopStep)
  /\ WF_vars(Restart)
  /\ \A c \in Channels : WF_vars(DrainPop(c)) /\ WF_vars(DrainExit(c))
  /\ \A c \in Live : WF_vars(Finish(c) \/ Postpone(c))

FairSpec == Spec /\ Fairness(Channels)

-----------------------------------------------------------------------------
(* Properties.                                                             *)

TypeOK ==
  /\ arrived \in [Channels -> 0..MaxCommands]
  /\ queue \in Seq(Message)
  /\ DOMAIN returned \subseteq Message /\ IsABag(returned)
  /\ phase \in Phases /\ nonce \in 1..(MaxRestarts + 1)
  /\ loop \in LoopSteps /\ hand \in Slot(Message)
  /\ (hand = <<>>) = (loop = "receive")
  /\ lanes \in [Channels -> Lane]
  /\ fetching \in [Channels -> Nat] /\ running \in [Channels -> Seq(Message)]
  /\ requeue \in Seq(Message)
  /\ spills \in [Channels -> Spill]
  /\ spillQueue \in Seq(Item) /\ moving \in Slot(Item)
  /\ lostConfirms \in 0..MaxLostConfirms /\ stalls \in 0..MaxStalls
  /\ started \in [Channels -> SUBSET (Nat \ {0})]
  /\ settled \in [Channels -> SUBSET (Nat \ {0})]

\* Two commands of one channel never run at the same time, and no job waits in
\* a lane nobody drains: a lane has one drain goroutine exactly while its key
\* is in lanes.pending, although the consumer adds jobs and the goroutine
\* deletes the key concurrently.
Serial ==
  \A c \in Channels :
    /\ fetching[c] + Len(running[c]) = IF lanes[c].present THEN 1 ELSE 0
    /\ ~lanes[c].present => lanes[c].jobs = <<>>

\* Commands of one channel start in the order they were published, whatever
\* the overflow moved to the tail of the queue.
InOrder ==
  \A c \in Channels : started[c] = 1..Cardinality(started[c])

\* The broker or the consumer holds a message of command n of channel c.
MessagesIn(c) ==
  {d \in UNION {ToSet(queue), DOMAIN returned, ToSet(hand), ToSet(requeue),
                ToSet(MessagesOf(spillQueue)), ToSet(MessagesOf(moving)),
                LaneMessages(c)} : d.ch = c}

\* No command is lost: until its handler settles it, a published command is
\* in the queue or unacked at the consumer, across failed and unconfirmed
\* copies, stops and crashes.
NoCommandLost ==
  \A c \in Channels : \A n \in 1..arrived[c] :
    n \in settled[c] \/ \E d \in MessagesIn(c) : d.n = n

\* The consumer goroutine never blocks in overflow.send: the channel's
\* capacity covers every delivery the prefetch lets it hold.
SendNeverBlocks == loop = "send" => Len(spillQueue) < OverflowCapacity

\* A live spill always waits for a number it has handed out: otherwise the
\* channel would wait for a copy that does not exist.
SpillExpectsAssigned ==
  \A c \in Channels : HasSpill(c) => spills[c].expected < spills[c].next

\* Every published command is settled in the end.
EveryCommandSettles ==
  \A c \in Channels : \A n \in 1..MaxCommands :
    (arrived[c] >= n) ~> (n \in settled[c])

\* A stop that has begun ends: the loop, the lanes and the overflow goroutine
\* let go of everything and the process can leave.
StopTerminates == (phase = "stopping") ~> (phase = "down")

\* A gateway that has stopped has given back or settled every delivery: no
\* goroutine is left behind with one when the process leaves.
DownHoldsNothing ==
  phase = "down" =>
    /\ hand = <<>> /\ requeue = <<>> /\ spillQueue = <<>> /\ moving = <<>>
    /\ \A c \in Channels :
         fetching[c] = 0 /\ running[c] = <<>> /\ lanes[c].jobs = <<>>
=============================================================================
