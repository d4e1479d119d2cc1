---------------------------- MODULE SendCommand ----------------------------
(***************************************************************************)
(* One command of gateway.send: internal/gateway/gateway.go (SendHandler   *)
(* and the calls it makes), the row of internal/dedupe that remembers a    *)
(* sent message, and what internal/session and the registry know of the    *)
(* channel, which a logout and the end of a stop change under the handler. *)
(*                                                                         *)
(* consumeSerially runs one delivery at a time, and one process consumes   *)
(* the queue.  Copies messages carry the command (a producer that retries, *)
(* a redelivery).  A missing row and a pending one are not told apart.     *)
(***************************************************************************)
EXTENDS Naturals, FiniteSets

CONSTANTS
  Copies,   \* messages that carry the command
  Limits    \* bound: how many faults of each kind

Faults == {"store", "publish", "answer", "logout", "stop", "connection", "reinject"}

\* What the constants are; a module that instantiates this one assumes it.
SendConstants == Copies \in Nat \ {0} /\ Limits \in [Faults -> Nat]

VARIABLES
  ready, dead,   \* messages in gateway.send and in its DLQ
  phase,         \* of the process
  attached,      \* the AMQP channel of the consumer is open
  run,           \* SendHandler
  session,       \* Manager.sessions has a client of the channel
  stored,        \* the registry has the channel
  unlinking,     \* what a LoggedOut event has still to do
  ledger,        \* gateway_sent_messages
  spent,         \* how many faults happened
  acked,         \* history: messages acknowledged
  delivered,     \* history: how often WhatsApp took the message
  published      \* history: statuses published

brokerVars  == <<ready, dead, acked>>
channelVars == <<session, stored, unlinking>>
processVars == <<phase, attached>>
histVars    == <<delivered, published>>
vars == <<brokerVars, processVars, run, channelVars, ledger, spent, histVars>>

-----------------------------------------------------------------------------
\* sendFailureCode.
Codes    == {"session_missing", "session_down", "gateway_send_error"}
Statuses == Codes \cup {"sent"}

\* draining: drainConsumers waits for the consumer; leaving: its deadline passed
\* with a handler still running, DisconnectAll has emptied Manager.sessions.
Phases == {"up", "draining", "leaving", "down"}

Steps == {"idle", "begin", "connect", "lookup", "resume", "reconnect", "client",
          "build", "send", "mark", "publish"}

\* status: what is published at "publish"; held: the delivery can be settled.
Run  == [step: Steps, status: Statuses, held: BOOLEAN]
Idle == [step |-> "idle", status |-> "sent", held |-> FALSE]

Busy == run.step # "idle"

Fault(f) == spent[f] < Limits[f] /\ spent' = [spent EXCEPT ![f] = @ + 1]
NoFault  == UNCHANGED spent

\* A handler settles its delivery, unless the channel has closed.
Holds == IF run.held THEN 1 ELSE 0

-----------------------------------------------------------------------------
(* How SendHandler goes on and returns.                                     *)

Goto(step) == run' = [run EXCEPT !.step = step] /\ UNCHANGED brokerVars

\* publishSendFailure is about to publish.
Fail(code) ==
  /\ run' = [run EXCEPT !.step = "publish", !.status = code]
  /\ UNCHANGED brokerVars

Tell == run' = [run EXCEPT !.step = "publish", !.status = "sent"]
        /\ UNCHANGED brokerVars

\* nil: acked.
Ack == run' = Idle /\ acked' = acked + Holds /\ UNCHANGED <<ready, dead>>

\* An error: nacked without requeue.
DeadLetter == run' = Idle /\ dead' = dead + Holds /\ UNCHANGED <<ready, acked>>

-----------------------------------------------------------------------------
(* SendHandler.                                                             *)

HandlerFrame == UNCHANGED <<processVars, unlinking>>

\* consumeSerially; deliveries already prefetched are handled in a stop too.
Deliver ==
  /\ phase # "down" /\ attached /\ ~Busy /\ ready > 0 /\ ready' = ready - 1
  /\ run' = [Idle EXCEPT !.step = "begin", !.held = TRUE]
  /\ NoFault /\ UNCHANGED <<dead, acked, processVars, channelVars, ledger, histVars>>

\* dedupe.Begin. Mutant: a command is never known as sent.
AlreadySentNever == FALSE
AlreadySent == ledger = "sent"

Begin ==
  /\ run.step = "begin"
  /\ \/ NoFault /\ AlreadySent /\ Tell
     \/ NoFault /\ ~AlreadySent /\ Goto("connect")
     \/ Fault("store") /\ DeadLetter
  /\ HandlerFrame /\ UNCHANGED <<session, stored, ledger, histVars>>

\* EnsureConnected when there is a session: up, down, or a failed Connect.
Connected == Goto("client") \/ Fail("session_down") \/ Fail("gateway_send_error")

\* ensureChannelConnected: the live session, or the stored one resumed.
Connect ==
  /\ run.step = "connect"
  /\ IF session THEN Connected ELSE Goto("lookup")
  /\ NoFault /\ HandlerFrame /\ UNCHANGED <<session, stored, ledger, histVars>>

Lookup ==
  /\ run.step = "lookup"
  /\ \/ NoFault /\ stored /\ (Goto("resume") \/ Fail("gateway_send_error"))
     \/ NoFault /\ ~stored /\ Fail("session_missing")
     \/ Fault("store") /\ Fail("gateway_send_error")
  /\ HandlerFrame /\ UNCHANGED <<session, stored, ledger, histVars>>

Resume ==
  /\ run.step = "resume"
  /\ \/ session' = TRUE /\ Goto("reconnect")
     \/ ~session /\ UNCHANGED session /\ Fail("gateway_send_error")
  /\ NoFault /\ HandlerFrame /\ UNCHANGED <<stored, ledger, histVars>>

Reconnect ==
  /\ run.step = "reconnect"
  /\ IF session THEN Connected ELSE Fail("session_missing")
  /\ NoFault /\ HandlerFrame /\ UNCHANGED <<session, stored, ledger, histVars>>

\* waClientFor, whose error is not published.
Client ==
  /\ run.step = "client"
  /\ IF session THEN Goto("build") ELSE DeadLetter
  /\ NoFault /\ HandlerFrame /\ UNCHANGED <<session, stored, ledger, histVars>>

\* mapper.BuildOutbound: fetches media, uploads it, reads the message.
Build ==
  /\ run.step = "build" /\ (Goto("send") \/ Fail("gateway_send_error"))
  /\ NoFault /\ HandlerFrame /\ UNCHANGED <<session, stored, ledger, histVars>>

\* Manager.Send: the answer of WhatsApp may be lost, or miss sendTimeout.
Send ==
  /\ run.step = "send"
  /\ \/ ~session /\ NoFault /\ Fail("session_missing") /\ UNCHANGED delivered
     \/ session /\ NoFault /\ Fail("gateway_send_error") /\ UNCHANGED delivered
     \/ session /\ NoFault /\ Goto("mark") /\ delivered' = delivered + 1
     \/ /\ session /\ Fault("answer")
        /\ Fail("gateway_send_error") /\ delivered' = delivered + 1
  /\ HandlerFrame /\ UNCHANGED <<session, stored, ledger, published>>

\* dedupe.MarkSent: when it fails, the row may have been written or not.
Mark ==
  /\ run.step = "mark"
  /\ \/ NoFault /\ ledger' = "sent" /\ Tell
     \/ Fault("store") /\ ledger' \in {ledger, "sent"} /\ DeadLetter
  /\ HandlerFrame /\ UNCHANGED <<session, stored, histVars>>

\* PublishStatus: of a send, of its replay, of a failure.
PublishStatus ==
  /\ run.step = "publish"
  /\ \/ NoFault /\ Ack /\ published' = published \cup {run.status}
     \/ /\ Fault("publish") /\ DeadLetter
        /\ published' \in {published, published \cup {run.status}}
  /\ HandlerFrame /\ UNCHANGED <<session, stored, ledger, delivered>>

-----------------------------------------------------------------------------
(* A LoggedOut event: Manager drops the session in a goroutine of its own    *)
(* while the handler of the event deletes the channel from the registry.    *)

ChannelFrame == UNCHANGED <<brokerVars, processVars, run, ledger, histVars>>

LoggedOut ==
  /\ phase # "down" /\ session /\ unlinking = {} /\ Fault("logout")
  /\ unlinking' = {"drop", "forget"} /\ UNCHANGED <<session, stored>> /\ ChannelFrame

DropSession ==
  /\ "drop" \in unlinking /\ unlinking' = unlinking \ {"drop"}
  /\ session' = FALSE /\ NoFault /\ UNCHANGED stored /\ ChannelFrame

ForgetChannel ==
  /\ "forget" \in unlinking /\ unlinking' = unlinking \ {"forget"}
  /\ \/ NoFault /\ stored' = FALSE
     \/ Fault("store") /\ UNCHANGED stored
  /\ UNCHANGED session /\ ChannelFrame

-----------------------------------------------------------------------------
(* Stops, failures and the broker.                                          *)

ProcessFrame == UNCHANGED <<acked, ledger, histVars>>

BeginStop ==
  /\ phase = "up" /\ phase' = "draining" /\ (IF attached THEN Fault("stop") ELSE NoFault)
  /\ ProcessFrame /\ UNCHANGED <<ready, dead, attached, run, channelVars>>

\* drainWithin gave up on Consumer.Close; DisconnectAll.
DeadlinePasses ==
  /\ phase = "draining" /\ Busy /\ phase' = "leaving"
  /\ session' = FALSE /\ unlinking' = unlinking \ {"drop"}
  /\ NoFault /\ ProcessFrame /\ UNCHANGED <<ready, dead, attached, run, stored>>

\* The AMQP channel closes: the delivery is back in the queue, the handler runs on.
LoseConnection ==
  /\ phase # "down" /\ attached /\ Fault("connection") /\ attached' = FALSE
  /\ ready' = ready + Holds /\ run' = [run EXCEPT !.held = FALSE]
  /\ ProcessFrame /\ UNCHANGED <<dead, phase, channelVars>>

GoDown ==
  /\ phase' = "down" /\ attached' = FALSE /\ ready' = ready + Holds /\ run' = Idle
  /\ session' = FALSE /\ unlinking' = {} /\ ProcessFrame /\ UNCHANGED <<dead, stored>>

\* run returns: the consumer has drained, or its deadline had passed.
Leave == (phase = "leaving" \/ (phase = "draining" /\ ~Busy)) /\ NoFault /\ GoDown

Crash == phase \in {"up", "draining"} /\ Fault("stop") /\ GoDown

\* resumeOwnedSessions: the session of a stored channel, if it can be resumed.
Restart ==
  /\ phase = "down" /\ phase' = "up" /\ attached' = TRUE
  /\ session' \in {FALSE, stored}
  /\ NoFault /\ ProcessFrame /\ UNCHANGED <<ready, dead, run, stored, unlinking>>

\* An operator returns a dead command to gateway.send.
Reinject ==
  /\ dead > 0 /\ Fault("reinject") /\ dead' = dead - 1 /\ ready' = ready + 1
  /\ ProcessFrame /\ UNCHANGED <<processVars, run, channelVars>>

Done ==
  /\ acked + dead = Copies /\ phase = "up" /\ ~Busy /\ unlinking = {}
  /\ UNCHANGED vars

-----------------------------------------------------------------------------
Init ==
  /\ ready = Copies /\ dead = 0 /\ acked = 0
  /\ phase = "up" /\ attached = TRUE /\ run = Idle
  /\ stored \in BOOLEAN /\ session \in {FALSE, stored} /\ unlinking = {}
  /\ ledger = "pending" /\ spent = [f \in Faults |-> 0]
  /\ delivered = 0 /\ published = {}

Handler == \/ Begin \/ Connect \/ Lookup \/ Resume \/ Reconnect \/ Client \/ Build
           \/ Send \/ Mark \/ PublishStatus

Next == \/ Deliver \/ Handler
        \/ LoggedOut \/ DropSession \/ ForgetChannel
        \/ BeginStop \/ DeadlinePasses \/ LoseConnection \/ Leave \/ Crash \/ Restart
        \/ Reinject \/ Done

Spec == Init /\ [][Next]_vars

-----------------------------------------------------------------------------
(* Properties.                                                              *)

\* The types, every copy in exactly one place (a handler that outlives its AMQP
\* channel settles nothing), and no handler in a process that is down.
TypeOK ==
  /\ ready \in Nat /\ dead \in Nat /\ acked \in Nat
  /\ phase \in Phases /\ attached \in BOOLEAN /\ run \in Run
  /\ session \in BOOLEAN /\ stored \in BOOLEAN /\ unlinking \in SUBSET {"drop", "forget"}
  /\ ledger \in {"pending", "sent"}
  /\ spent \in [Faults -> Nat] /\ \A f \in Faults : spent[f] <= Limits[f]
  /\ delivered \in Nat /\ published \in SUBSET Statuses
  /\ ready + dead + acked + Holds = Copies
  /\ Busy \/ run = Idle
  /\ phase = "down" => ~Busy

\* A command leaves gateway.send for good only after a status of it has been
\* published: no path of SendHandler swallows a command, across redeliveries.
AnsweredBeforeAck == acked > 0 => published # {}

\* Once the ledger has the message as sent, no redelivery, restart or
\* reinjection hands it to WhatsApp again.
NoResend == [][ledger = "sent" => delivered' = delivered]_vars

\* "failed" is said of a message that WhatsApp took only when its answer was
\* lost, the row could not be written, or the process left between the two (killed,
\* or stopped with the drain deadline past): a publish that fails, a logout or a
\* reinjection never makes the gateway deny a message.
HonestFailure ==
  [][(published' \cap Codes) \ published # {} /\ delivered > 0 =>
       spent["answer"] + spent["store"] + spent["stop"] + spent["connection"] > 0]_vars

=============================================================================
