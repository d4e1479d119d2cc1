---------------------------- MODULE GroupCommand ----------------------------
(***************************************************************************)
(* The life of one group command: internal/gateway/groups.go (GroupHandler *)
(* applies the action to each group of the command), internal/dedupe       *)
(* (the ledger row of each group), and the broker that redelivers the      *)
(* command after a crash, a stop or a dead letter.                         *)
(*                                                                         *)
(* Copies messages of the command exist: the overflow of the consumer may  *)
(* duplicate one.  Commands of one channel run one at a time in a process  *)
(* (see GroupOverflow), so each instance runs at most one copy.  A missing *)
(* ledger row and a pending one are the same to every statement but the    *)
(* INSERT that starts every group, and are not told apart.                 *)
(***************************************************************************)
EXTENDS Naturals, FiniteSets, FiniteSetsExt

CONSTANTS
  Instances,     \* gateway processes consuming gateway.group
  GroupCount,    \* how many groups the command names
  GroupHaltLimit,\* groupHaltLimit
  Copies,        \* messages that carry the command
  Limits         \* bound: how many faults of each kind

Faults == {"begin", "halt", "mark", "publish", "stop", "connection"}

ASSUME ConstantsAssumption ==
  /\ GroupCount \in Nat \ {0} /\ GroupHaltLimit \in Nat \ {0}
  /\ Copies \in Nat \ {0} /\ Limits \in [Faults -> Nat]

VARIABLES
  ready, dead,   \* messages in gateway.group and in its DLQ
  life,          \* "up", "stopping" (shuttingDown is true) or "down"
  attached,      \* the AMQP channel of the consumer is open
  run,           \* GroupHandler of each instance
  kept,          \* deliveries whose handler returned errShuttingDown
  ledger, halts, \* gateway_group_actions: status with failure, and halts
  spent,         \* how many faults happened
  acked,         \* history: messages acknowledged
  attempts,      \* history: calls of groups.Apply, per group
  published      \* history: results published, per group

brokerVars == <<ready, dead, kept, acked>>
ledgerVars == <<ledger, halts>>
vars == <<brokerVars, life, attached, run, ledgerVars, spent, attempts, published>>

-----------------------------------------------------------------------------
Groups == 1..GroupCount

\* Why a group failed: WhatsApp or the parameters refuse it; the channel was
\* offline when the command began; the third halt; the gateway was stopping.
Failures == {"refused", "offline", "halted", "shutdown"}
Results  == Failures \cup {"ok"}
Statuses == Results \cup {"pending"}

Steps == {"idle", "prepare", "begin", "apply", "unavailable", "mark", "publish"}

\* held: the delivery can still be settled on this AMQP channel.
Run  == [step: Steps, setup: Failures \cup {"ok"}, pos: 1..(GroupCount + 1),
         result: Statuses, held: BOOLEAN]
Idle == [step |-> "idle", setup |-> "ok", pos |-> 1, result |-> "pending",
         held |-> FALSE]

Busy(i) == run[i].step # "idle"
ShuttingDown(i) == life[i] = "stopping"

\* The loop of GroupHandler looks again before every group.
\* Mutant: it looks only when the command arrives.
MayGoOnAlways(i) == TRUE
MayGoOn(i) == ~ShuttingDown(i)

\* ActionRecord.Finished.
Finished(g) == ledger[g] # "pending"

\* Mutant: a group is never given up.
GivenUpNever(n) == FALSE
GivenUp(n) == n >= GroupHaltLimit

\* attempts is counted up to one more than AttemptsBounded allows, halts up to
\* where they change nothing.
AttemptCap == GroupHaltLimit + Limits["stop"] + Limits["connection"]
              + Limits["halt"] + 1
Capped(n, cap) == IF n < cap THEN n + 1 ELSE n

Fault(f) == spent[f] < Limits[f] /\ spent' = [spent EXCEPT ![f] = @ + 1]
NoFault  == UNCHANGED spent

\* A handler settles its delivery, unless the channel has closed.
Holds(i) == IF run[i].held THEN 1 ELSE 0

\* What the handler leaves alone until it returns.
HandlerFrame == UNCHANGED <<life, attached>>

-----------------------------------------------------------------------------
(* How GroupHandler returns, and what the consumer does with the delivery.  *)

Return(i) == run' = [run EXCEPT ![i] = Idle]

\* nil: acked.
Ack(i) ==
  /\ Return(i) /\ acked' = acked + Holds(i) /\ UNCHANGED <<ready, dead, kept>>

\* errShuttingDown: kept to be nacked with requeue when the consumer stops.
Requeue(i) ==
  /\ Return(i) /\ kept' = [kept EXCEPT ![i] = @ + Holds(i)]
  /\ UNCHANGED <<ready, dead, acked>>

\* Any other error: nacked without requeue, into the DLQ.
\* Mutant: settle acks whatever the handler returned.
AckAnyway(i) ==
  /\ Return(i) /\ acked' = acked + Holds(i) /\ UNCHANGED <<ready, dead, kept>>
DeadLetter(i) ==
  /\ Return(i) /\ dead' = dead + Holds(i) /\ UNCHANGED <<ready, kept, acked>>

Goto(i, step, result) ==
  /\ run' = [run EXCEPT ![i].step = step, ![i].result = result]
  /\ UNCHANGED brokerVars

-----------------------------------------------------------------------------
(* GroupHandler.                                                            *)

\* A delivery reaches the handler, which first looks whether it may run.
Deliver(i) ==
  /\ life[i] \in {"up", "stopping"} /\ attached[i] /\ ~Busy(i)
  /\ ready > 0 /\ ready' = ready - 1
  /\ IF ShuttingDown(i)
     THEN kept' = [kept EXCEPT ![i] = @ + 1] /\ UNCHANGED run
     ELSE run' = [run EXCEPT ![i] = [Idle EXCEPT !.step = "prepare", !.held = TRUE]]
          /\ UNCHANGED kept
  /\ NoFault /\ HandlerFrame /\ UNCHANGED <<dead, acked, ledgerVars, attempts, published>>

\* prepareGroupCommand: groupClient refuses while stopping; the channel may be
\* offline, the photo may not be fetched.
Prepare(i) ==
  /\ run[i].step = "prepare"
  /\ \E setup \in IF ShuttingDown(i) THEN {"shutdown"} ELSE {"ok", "offline", "refused"} :
       run' = [run EXCEPT ![i].step = "begin", ![i].setup = setup]
  /\ NoFault /\ HandlerFrame /\ UNCHANGED <<brokerVars, ledgerVars, attempts, published>>

\* The head of the loop: no group left, shutting down, or dedupe.BeginAction
\* and what it tells: replay a finished group, fail one that cannot be set up.
Begin(i) ==
  /\ run[i].step = "begin"
  /\ LET g == run[i].pos IN
     \/ g > GroupCount /\ Ack(i) /\ NoFault
     \/ g <= GroupCount /\ ~MayGoOn(i) /\ Requeue(i) /\ NoFault
     \/ g <= GroupCount /\ MayGoOn(i) /\ Fault("begin") /\ DeadLetter(i)
     \/ /\ g <= GroupCount /\ MayGoOn(i) /\ NoFault
        /\ \/ Finished(g) /\ Goto(i, "publish", ledger[g])
           \/ ~Finished(g) /\ run[i].setup # "ok" /\ Goto(i, "mark", run[i].setup)
           \/ ~Finished(g) /\ run[i].setup = "ok" /\ Goto(i, "apply", "pending")
  /\ HandlerFrame /\ UNCHANGED <<ledgerVars, attempts, published>>

\* pacer.wait, which a stop interrupts, then groups.Apply, whose answer may be
\* lost.  A jid that does not parse counts as refused by WhatsApp.
Apply(i) ==
  /\ run[i].step = "apply"
  /\ LET g == run[i].pos IN
     \/ ShuttingDown(i) /\ Requeue(i) /\ UNCHANGED attempts
     \/ /\ attempts' = [attempts EXCEPT ![g] = Capped(@, AttemptCap)]
        /\ \/ \E result \in {"ok", "refused"} : Goto(i, "mark", result)
           \/ Goto(i, "unavailable", "pending")
  /\ NoFault /\ HandlerFrame /\ UNCHANGED <<ledgerVars, published>>

\* WhatsApp was unavailable: errShuttingDown or haltOrGiveUp.
Unavailable(i) ==
  /\ run[i].step = "unavailable"
  /\ LET g == run[i].pos IN
     \/ ShuttingDown(i) /\ Requeue(i) /\ NoFault /\ UNCHANGED halts
     \/ ~ShuttingDown(i) /\ Fault("halt") /\ DeadLetter(i) /\ UNCHANGED halts
     \/ /\ ~ShuttingDown(i) /\ NoFault
        /\ halts' = [halts EXCEPT ![g] = Capped(@, GroupHaltLimit)]
        /\ IF GivenUp(halts'[g]) THEN Goto(i, "mark", "halted") ELSE DeadLetter(i)
  /\ HandlerFrame /\ UNCHANGED <<ledger, attempts, published>>

\* finishAction. Mutant: only what succeeded is remembered.
RecordSuccess(g, result) ==
  ledger' = IF result = "ok" THEN [ledger EXCEPT ![g] = result] ELSE ledger
Record(g, result) == ledger' = [ledger EXCEPT ![g] = result]

\* MarkActionDone or MarkActionFailed, whose own failure is only logged.
Mark(i) ==
  /\ run[i].step = "mark"
  /\ Goto(i, "publish", run[i].result)
  /\ \/ NoFault /\ Record(run[i].pos, run[i].result)
     \/ Fault("mark") /\ UNCHANGED ledger
  /\ HandlerFrame /\ UNCHANGED <<halts, attempts, published>>

\* PublishGroupAction; when it fails the broker may still have the event.
PublishResult(i) ==
  /\ run[i].step = "publish"
  /\ LET g == run[i].pos
         event == published' = [published EXCEPT ![g] = @ \cup {run[i].result}]
     IN
     \/ /\ event /\ NoFault /\ UNCHANGED brokerVars
        /\ run' = [run EXCEPT ![i].step = "begin", ![i].pos = g + 1,
                              ![i].result = "pending"]
     \/ Fault("publish") /\ DeadLetter(i) /\ (event \/ UNCHANGED published)
  /\ HandlerFrame /\ UNCHANGED <<ledgerVars, attempts>>

-----------------------------------------------------------------------------
(* Stops, failures and the broker.                                          *)

HandlerIdleFrame == UNCHANGED <<ledgerVars, acked, attempts, published>>

\* SIGTERM or the failure of a consumer or of the RPC server: the context of
\* the handler is cancelled, stopping is set.
BeginStop(i) ==
  /\ life[i] = "up" /\ (attached[i] => Fault("stop")) /\ (~attached[i] => NoFault)
  /\ life' = [life EXCEPT ![i] = "stopping"]
  /\ HandlerIdleFrame /\ UNCHANGED <<ready, dead, kept, attached, run>>

\* The AMQP channel closes: every unacked delivery is back in the queue while
\* the handler runs on.
LoseConnection(i) ==
  /\ life[i] # "down" /\ attached[i] /\ Fault("connection")
  /\ attached' = [attached EXCEPT ![i] = FALSE]
  /\ ready' = ready + kept[i] + Holds(i) /\ kept' = [kept EXCEPT ![i] = 0]
  /\ run' = [run EXCEPT ![i].held = FALSE]
  /\ HandlerIdleFrame /\ UNCHANGED <<dead, life>>

GoDown(i) ==
  /\ life' = [life EXCEPT ![i] = "down"] /\ attached' = [attached EXCEPT ![i] = FALSE]
  /\ ready' = ready + kept[i] + Holds(i) /\ kept' = [kept EXCEPT ![i] = 0]
  /\ Return(i) /\ HandlerIdleFrame /\ UNCHANGED dead

\* The consumer has drained: requeueInOrder, and the process leaves.
FinishStop(i) == life[i] = "stopping" /\ ~Busy(i) /\ NoFault /\ GoDown(i)

\* Killed, or the drain deadline of a stop expired with the handler running.
Crash(i) ==
  /\ life[i] # "down" /\ (life[i] = "stopping" => Busy(i)) /\ Fault("stop")
  /\ GoDown(i)

Restart(i) ==
  /\ life[i] = "down"
  /\ life' = [life EXCEPT ![i] = "up"] /\ attached' = [attached EXCEPT ![i] = TRUE]
  /\ NoFault /\ HandlerIdleFrame /\ UNCHANGED <<ready, dead, kept, run>>

\* The backend returns a dead command to gateway.group.
Reinject ==
  /\ dead > 0 /\ dead' = dead - 1 /\ ready' = ready + 1
  /\ NoFault /\ HandlerIdleFrame /\ UNCHANGED <<kept, life, attached, run>>

Done ==
  /\ acked = Copies /\ \A i \in Instances : life[i] = "up" /\ ~Busy(i)
  /\ UNCHANGED vars

-----------------------------------------------------------------------------
Init ==
  /\ ready = Copies /\ dead = 0 /\ acked = 0
  /\ kept = [i \in Instances |-> 0]
  /\ life = [i \in Instances |-> "up"] /\ attached = [i \in Instances |-> TRUE]
  /\ run = [i \in Instances |-> Idle]
  /\ ledger = [g \in Groups |-> "pending"] /\ halts = [g \in Groups |-> 0]
  /\ spent = [f \in Faults |-> 0]
  /\ attempts = [g \in Groups |-> 0] /\ published = [g \in Groups |-> {}]

Handler(i) == \/ Prepare(i) \/ Begin(i) \/ Apply(i) \/ Unavailable(i) \/ Mark(i)
              \/ PublishResult(i)

Next ==
  \/ \E i \in Instances : \/ Deliver(i) \/ Handler(i) \/ BeginStop(i)
                          \/ LoseConnection(i) \/ FinishStop(i) \/ Crash(i)
                          \/ Restart(i)
  \/ Reinject \/ Done

Spec == Init /\ [][Next]_vars

-----------------------------------------------------------------------------
(* Properties.                                                              *)

TypeOK ==
  /\ ready \in Nat /\ dead \in Nat /\ acked \in Nat
  /\ kept \in [Instances -> Nat]
  /\ life \in [Instances -> {"up", "stopping", "down"}]
  /\ attached \in [Instances -> BOOLEAN]
  /\ run \in [Instances -> Run]
  /\ ledger \in [Groups -> Statuses] /\ halts \in [Groups -> 0..GroupHaltLimit]
  /\ spent \in [Faults -> Nat] /\ \A f \in Faults : spent[f] <= Limits[f]
  /\ attempts \in [Groups -> 0..AttemptCap] /\ published \in [Groups -> SUBSET Results]

\* A command is acknowledged only after every group has had its result
\* published, over all its redeliveries: failed ledger writes, failed publishes,
\* halts, stops and crashes never end it early.
AnsweredBeforeAck == acked > 0 => \A g \in Groups : published[g] # {}

\* A stop never turns into a failure of a group: what the handler meets because
\* the gateway is leaving goes back to the queue, it is neither stored nor told.
ShutdownIsNotAFailure ==
  \A g \in Groups : ledger[g] # "shutdown" /\ "shutdown" \notin published[g]

\* WhatsApp is not asked again for a group whose result has been published.
NoReapply ==
  [][\A g \in Groups : attempts'[g] # attempts[g] => published[g] = {}]_vars

\* A group is tried at most GroupHaltLimit times plus once per stop, crash,
\* lost connection, or lost halt: a group WhatsApp always refuses to serve cannot
\* be retried for ever.
AttemptsBounded ==
  \A g \in Groups : attempts[g] <=
    GroupHaltLimit + spent["stop"] + spent["connection"] + spent["halt"]

=============================================================================
