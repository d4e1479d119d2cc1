------------------------------ MODULE RpcServer ------------------------------
(***************************************************************************)
(* The rpc server (internal/amqp/rpc.go): a queue and a consumer goroutine *)
(* per operation, a goroutine per request, which is acknowledged after it  *)
(* has been answered; its start and stop as gateway.run does them.         *)
(*                                                                         *)
(* What an operation answers (gateway/groups.go, contacts.go) is left out. *)
(***************************************************************************)
EXTENDS Naturals, FiniteSets

CONSTANTS
  Requests,
  Operations,
  OperationOf,  \* the operation of a request
  Answerable,   \* the requests with a reply-to
  Prefetch,     \* unacked requests of an operation
  RpcFaults     \* bound: failed calls, lost connections, crashes, passed deadlines

\* What the constants have to be.
RpcConstants ==
  /\ OperationOf \in [Requests -> Operations] /\ Answerable \subseteq Requests
  /\ Prefetch \in Nat \ {0} /\ RpcFaults \in Nat /\ IsFiniteSet(Requests)

VARIABLES
  request,   \* where the request is: unsent, queued, delivered, settled, dropped
  late,      \* the requests whose deadline has passed
  serving,   \* the goroutine of a delivered request
  open,      \* operations with a consumer
  server,    \* boot, up, closing, closed, down
  linked,    \* the AMQP connection
  faults,
  replied,   \* history: requests whose reply was given to the broker
  excusable  \* history: requests that were late when served, or whose reply failed

requestVars == <<request, late, serving, open, server, linked>>
rpcVars == <<requestVars, faults, replied, excusable>>

-----------------------------------------------------------------------------
Places == {"unsent", "queued", "delivered", "settled", "dropped"}
ServeSteps == {"none", "start", "handling", "replying", "acking"}

Fault == faults < RpcFaults /\ faults' = faults + 1
Well  == UNCHANGED faults

Goto(r, step) == serving' = [serving EXCEPT ![r] = step]
Put(r, place) == request' = [request EXCEPT ![r] = place]
History == UNCHANGED <<replied, excusable>>

AllIdle == \A r \in Requests : serving[r] = "none"

\* A consumer may hold Prefetch requests of its operation.
Held(o) == {r \in Requests : OperationOf[r] = o /\ request[r] = "delivered"}

-----------------------------------------------------------------------------
(* The callers and the broker.                                              *)

Call(r) ==
  /\ request[r] = "unsent" /\ Put(r, "queued")
  /\ Well /\ UNCHANGED <<late, serving, open, server, linked>> /\ History

\* The request's timestamp and expiration; the broker drops it if it is queued.
DeadlinePasses(r) ==
  /\ request[r] \in {"queued", "delivered"} /\ r \notin late /\ late' = late \cup {r}
  /\ Well /\ UNCHANGED <<request, serving, open, server, linked>> /\ History

DropLate(r) ==
  /\ request[r] = "queued" /\ r \in late /\ Put(r, "dropped")
  /\ Well /\ UNCHANGED <<late, serving, open, server, linked>> /\ History

Deliver(r) ==
  /\ server \in {"boot", "up"} /\ linked /\ OperationOf[r] \in open
  /\ request[r] = "queued" /\ Cardinality(Held(OperationOf[r])) < Prefetch
  /\ Put(r, "delivered") /\ Goto(r, "start")
  /\ Well /\ UNCHANGED <<late, open, server, linked>> /\ History

\* The connection is lost: what is not acknowledged is queued again, and the
\* goroutines run on to no effect.
Requeued == [r \in Requests |-> IF request[r] = "delivered" THEN "queued" ELSE request[r]]

LoseLink ==
  /\ linked /\ server # "down" /\ Fault /\ linked' = FALSE /\ request' = Requeued
  /\ UNCHANGED <<late, serving, open, server>> /\ History

-----------------------------------------------------------------------------
(* serve.                                                                   *)

ServeFrame == UNCHANGED <<late, open, server, linked>>

\* expired.
Expired(r) == r \in late

StartServing(r) ==
  /\ serving[r] = "start" /\ Well
  /\ IF Expired(r)
     THEN Goto(r, "acking") /\ excusable' = excusable \cup {r}
     ELSE Goto(r, "handling") /\ UNCHANGED excusable
  /\ ServeFrame /\ UNCHANGED <<request, replied>>

\* answer: the handler returns a result or an error, panics, or runs into the
\* deadline of its context; all of them make a reply.
\* Mutant: the request is acknowledged before its reply is published.
AckThenReply(r) == IF linked THEN Put(r, "settled") ELSE UNCHANGED request
NotYet(r) == UNCHANGED request

Answer(r) ==
  /\ serving[r] = "handling" /\ Well
  /\ Goto(r, IF r \in Answerable THEN "replying" ELSE "acking") /\ NotYet(r)
  /\ ServeFrame /\ History

\* publishReply, its confirm and its timeout.
Reply(r) ==
  /\ serving[r] = "replying" /\ ServeFrame
  /\ \/ /\ linked /\ Well /\ Goto(r, "acking") /\ replied' = replied \cup {r}
        /\ UNCHANGED <<request, excusable>>
     \/ /\ IF linked THEN Fault ELSE Well
        /\ Goto(r, "acking") /\ excusable' = excusable \cup {r} /\ UNCHANGED <<request, replied>>

\* An ack that cannot be sent is only logged; then the connection is gone.
\* Mutant: a late request is not acknowledged.
AcksInTime(r) == IF linked /\ r \notin late THEN Put(r, "settled") ELSE UNCHANGED request
Settles(r) == IF linked THEN Put(r, "settled") ELSE UNCHANGED request

Ack(r) ==
  /\ serving[r] = "acking" /\ Goto(r, "none") /\ Well /\ Settles(r)
  /\ ServeFrame /\ History

-----------------------------------------------------------------------------
(* Handle, Close and gateway.run.                                           *)

LifeFrame == UNCHANGED late /\ History

\* An operation gets its channel, queue and consumer; one after another.
Handle(o) ==
  /\ server = "boot" /\ o \notin open /\ LifeFrame /\ UNCHANGED <<request, serving, linked>>
  /\ \/ /\ linked /\ Well /\ open' = open \cup {o}
        /\ server' = IF open \cup {o} = Operations THEN "up" ELSE server
     \/ /\ IF linked THEN Fault ELSE Well
        /\ server' = "closing" /\ UNCHANGED open

\* A signal, or reportFailure after the connection was lost.
Close ==
  /\ server = "up" /\ server' = "closing"
  /\ Well /\ LifeFrame /\ UNCHANGED <<request, serving, open, linked>>

\* The consumer goroutines end once their requests have; the channels are closed.
Closed ==
  /\ server = "closing" /\ AllIdle /\ server' = "closed" /\ open' = {} /\ Well
  /\ LifeFrame /\ UNCHANGED <<request, serving, linked>>

GoDown ==
  /\ server' = "down" /\ open' = {} /\ linked' = FALSE /\ request' = Requeued
  /\ serving' = [r \in Requests |-> "none"] /\ UNCHANGED late /\ History

\* The rest of the shutdown, at the end of which the process leaves, with requests
\* at work if drainWithin ran into its deadline; or a crash.
Leave == server = "closed" /\ Well /\ GoDown
RpcCrash == server # "down" /\ Fault /\ GoDown

RpcRestart ==
  /\ server = "down" /\ server' = "boot" /\ linked' = TRUE /\ Well
  /\ LifeFrame /\ UNCHANGED <<request, serving, open>>

-----------------------------------------------------------------------------
RpcInit ==
  /\ request = [r \in Requests |-> "unsent"] /\ late = {} /\ serving = [r \in Requests |-> "none"]
  /\ open = {} /\ server = "boot" /\ linked = TRUE /\ faults = 0
  /\ replied = {} /\ excusable = {}

Serve(r) == StartServing(r) \/ Answer(r) \/ Reply(r) \/ Ack(r)
Serving == \E r \in Requests : Serve(r)
Delivering == \E r \in Requests : Deliver(r)
RpcLife == (\E o \in Operations : Handle(o)) \/ Closed \/ Leave \/ RpcRestart \/ (~linked /\ Close)

RpcNext ==
  \/ \E r \in Requests : Call(r) \/ DeadlinePasses(r) \/ DropLate(r)
  \/ Delivering \/ Serving \/ LoseLink \/ Close \/ RpcCrash \/ RpcLife

RpcSpec == RpcInit /\ [][RpcNext]_rpcVars

-----------------------------------------------------------------------------
(* Properties.                                                              *)

RpcTypes ==
  /\ request \in [Requests -> Places] /\ late \subseteq Requests
  /\ serving \in [Requests -> ServeSteps] /\ open \subseteq Operations
  /\ server \in {"boot", "up", "closing", "closed", "down"} /\ linked \in BOOLEAN
  /\ faults \in 0..RpcFaults /\ replied \subseteq Requests /\ excusable \subseteq Requests

\* A request leaves its queue acknowledged only when the caller was sent an
\* answer, asked for none, had stopped waiting, or could not be reached: a stop,
\* a crash or a lost connection never swallows it.
AckedMeansReplied ==
  \A r \in Requests : request[r] = "settled" =>
    r \in replied \/ r \notin Answerable \/ r \in excusable

\* Every request ends: answered, or given up by its caller.
RequestsEnd == \A r \in Requests : request[r] = "queued" ~> request[r] \in {"settled", "dropped"}
=============================================================================
