-------------------------- MODULE SendCommandProofs --------------------------
(***************************************************************************)
(* TypeOK, AnsweredBeforeAck, NoResend and HonestFailure of SendCommand,   *)
(* for any copies and budget of faults.  NoResend needs that between       *)
(* Begin, which found the row unsent, and Mark, nobody else writes it;     *)
(* HonestFailure, beside it, that until the first excuse the process       *)
(* serves and every message WhatsApp took is in the ledger or on its way.  *)
(***************************************************************************)
EXTENDS SendCommand, TLAPS

\* The steps of SendHandler from its look at the ledger to MarkSent.
Unsent == {"connect", "lookup", "resume", "reconnect", "client", "build", "send", "mark"}

\* A handler on its way to WhatsApp works on a row that is not sent.
SendsUnsent == run.step \in Unsent => ledger = "pending"

IInv == TypeOK /\ AnsweredBeforeAck /\ SendsUnsent

LEMMA FaultOK ==
  ASSUME SendConstants, NEW f \in Faults, NoFault \/ Fault(f),
         spent \in [Faults -> Nat], \A x \in Faults : spent[x] <= Limits[x]
  PROVE  spent' \in [Faults -> Nat] /\ \A x \in Faults : spent'[x] <= Limits[x]
BY DEF SendConstants, NoFault, Fault

LEMMA IdleInRun == Idle \in Run /\ Idle.step = "idle" /\ Idle.held = FALSE
BY DEF Idle, Run, Steps, Statuses

\* Every step leaves the budgets kept.
LEMMA SpentOK ==
  ASSUME SendConstants, TypeOK, Next
  PROVE  spent' \in [Faults -> Nat] /\ \A x \in Faults : spent'[x] <= Limits[x]
<1>1. PICK f \in Faults : NoFault \/ Fault(f)
  BY DEF Next, Handler, Deliver, Begin, Connect, Lookup, Resume, Reconnect, Client, Build,
         Send, Mark, PublishStatus, LoggedOut, DropSession, ForgetChannel, BeginStop,
         DeadlinePasses, LoseConnection, Leave, Crash, Restart, Reinject, Done, Faults,
         NoFault, vars
<1>. QED BY <1>1, FaultOK DEF TypeOK

\* What a handler may do with its delivery: keep it, going on to another step, or
\* return, acknowledged or dead-lettered.
Moves(step, status) ==
  run' = [run EXCEPT !.step = step, !.status = status] /\ UNCHANGED brokerVars

LEMMA MovesOK ==
  ASSUME TypeOK, NEW step \in Steps, NEW status \in Statuses, Moves(step, status)
  PROVE  /\ run' \in Run /\ run'.step = step /\ run'.held = run.held
         /\ ready' = ready /\ dead' = dead /\ acked' = acked /\ Holds' = Holds
BY DEF TypeOK, Run, Moves, brokerVars, Holds

LEMMA SettlesOK ==
  ASSUME SendConstants, TypeOK, Ack \/ DeadLetter
  PROVE  /\ run' = Idle /\ ready' \in Nat /\ dead' \in Nat /\ acked' \in Nat
         /\ ready' + dead' + acked' + Holds' = Copies
BY IdleInRun DEF SendConstants, TypeOK, Ack, DeadLetter, Holds

LEMMA GotoMoves ==
  ASSUME TypeOK
  PROVE  /\ \A step : Goto(step) => Moves(step, run.status)
         /\ \A code : Fail(code) => Moves("publish", code)
         /\ Tell => Moves("publish", "sent")
BY DEF TypeOK, Run, Goto, Fail, Tell, Moves

\* A step of the handler that keeps the delivery keeps IInv when the step it goes
\* to is allowed by the ledger.
LEMMA HandlerKeeps ==
  ASSUME IInv, NEW step \in Steps, NEW status \in Statuses, Moves(step, status),
         step # "idle", run.step # "idle",
         HandlerFrame, session' \in BOOLEAN, UNCHANGED <<stored, published>>,
         ledger' \in {"pending", "sent"}, delivered' \in Nat,
         step \in Unsent => ledger' = "pending",
         spent' \in [Faults -> Nat] /\ \A x \in Faults : spent'[x] <= Limits[x]
  PROVE  IInv'
<1>1. /\ run' \in Run /\ run'.step = step /\ ready' = ready /\ dead' = dead
      /\ acked' = acked /\ Holds' = Holds
  BY MovesOK DEF IInv
<1>2. phase # "down"
  BY IdleInRun DEF IInv, TypeOK
<1>3. TypeOK'
  BY <1>1, <1>2 DEF IInv, TypeOK, HandlerFrame, processVars, Busy
<1>4. AnsweredBeforeAck' /\ SendsUnsent'
  BY <1>1 DEF IInv, AnsweredBeforeAck, SendsUnsent
<1>. QED BY <1>3, <1>4 DEF IInv

\* A handler that returns keeps IInv; one that acks has just published.
LEMMA HandlerReturns ==
  ASSUME SendConstants, IInv, Ack \/ DeadLetter, acked' = acked \/ published' # {},
         HandlerFrame, UNCHANGED <<session, stored, delivered>>,
         published' \in SUBSET Statuses, published \subseteq published',
         ledger' \in {"pending", "sent"},
         spent' \in [Faults -> Nat] /\ \A x \in Faults : spent'[x] <= Limits[x]
  PROVE  IInv'
<1>1. /\ run' = Idle /\ ready' \in Nat /\ dead' \in Nat /\ acked' \in Nat
      /\ ready' + dead' + acked' + Holds' = Copies
  BY SettlesOK DEF IInv
<1>2. TypeOK'
  BY <1>1, IdleInRun DEF IInv, TypeOK, HandlerFrame, processVars, Busy
<1>3. AnsweredBeforeAck'
  BY DEF IInv, TypeOK, AnsweredBeforeAck
<1>4. SendsUnsent'
  BY <1>1, IdleInRun DEF SendsUnsent, Unsent
<1>. QED BY <1>2, <1>3, <1>4 DEF IInv

LEMMA HandlerStep ==
  ASSUME SendConstants, IInv, Handler, Next
  PROVE  IInv'
<1>0. /\ TypeOK /\ run.status \in Statuses /\ Codes \subseteq Statuses /\ "sent" \in Statuses
      /\ spent' \in [Faults -> Nat] /\ \A x \in Faults : spent'[x] <= Limits[x]
  BY SpentOK DEF IInv, TypeOK, Run, Statuses
<1>m. /\ \A step : Goto(step) => Moves(step, run.status)
      /\ \A code : Fail(code) => Moves("publish", code)
      /\ Tell => Moves("publish", "sent")
  BY <1>0, GotoMoves
<1>1. ASSUME Begin PROVE IInv'
  <2>1. CASE DeadLetter
    BY <1>0, <1>1, <2>1, HandlerReturns DEF Begin, histVars, TypeOK, DeadLetter
  <2>2. CASE Tell
    BY <1>0, <1>1, <1>m, <2>2, HandlerKeeps DEF Begin, histVars, TypeOK, Steps, Unsent
  <2>3. CASE ~AlreadySent /\ Goto("connect")
    BY <1>0, <1>1, <1>m, <2>3, HandlerKeeps DEF Begin, histVars, TypeOK, Steps, AlreadySent
  <2>. QED BY <1>1, <2>1, <2>2, <2>3 DEF Begin
<1>2. ASSUME Connect \/ Lookup \/ Resume \/ Reconnect \/ Build PROVE IInv'
  <2>1. PICK step \in Steps \ {"idle"}, status \in Statuses : Moves(step, status)
    BY <1>0, <1>2, <1>m DEF Connect, Lookup, Resume, Reconnect, Build, Connected, Codes,
                            Steps
  <2>2. run.step \in Unsent /\ run.step # "idle" /\ HandlerFrame
        /\ UNCHANGED <<stored, published, delivered, ledger>> /\ session' \in BOOLEAN
    BY <1>0, <1>2 DEF Connect, Lookup, Resume, Reconnect, Build, Unsent, histVars, TypeOK
  <2>3. ledger' = "pending"
    BY <2>2 DEF IInv, SendsUnsent
  <2>. QED BY <1>0, <2>1, <2>2, <2>3, HandlerKeeps DEF TypeOK
<1>3. ASSUME Client PROVE IInv'
  <2>1. CASE DeadLetter
    BY <1>0, <1>3, <2>1, HandlerReturns DEF Client, histVars, TypeOK, DeadLetter
  <2>2. CASE Goto("build")
    BY <1>0, <1>3, <1>m, <2>2, HandlerKeeps DEF Client, histVars, TypeOK, Steps, IInv,
       SendsUnsent, Unsent
  <2>. QED BY <1>3, <2>1, <2>2 DEF Client
<1>4. ASSUME Send PROVE IInv'
  <2>1. PICK step \in Steps \ {"idle"}, status \in Statuses : Moves(step, status)
    BY <1>0, <1>4, <1>m DEF Send, Codes, Steps
  <2>2. /\ run.step = "send" /\ HandlerFrame /\ delivered' \in Nat /\ session' \in BOOLEAN
        /\ UNCHANGED <<stored, published, ledger>>
    BY <1>0, <1>4 DEF Send, TypeOK
  <2>3. ledger' = "pending"
    BY <2>2 DEF IInv, SendsUnsent, Unsent
  <2>. QED BY <1>0, <2>1, <2>2, <2>3, HandlerKeeps DEF TypeOK
<1>5. ASSUME Mark PROVE IInv'
  <2>1. CASE DeadLetter
    BY <1>0, <1>5, <2>1, HandlerReturns DEF Mark, histVars, TypeOK, DeadLetter
  <2>2. CASE Tell
    BY <1>0, <1>5, <1>m, <2>2, HandlerKeeps DEF Mark, histVars, TypeOK, Steps, Unsent
  <2>. QED BY <1>5, <2>1, <2>2 DEF Mark
<1>6. ASSUME PublishStatus PROVE IInv'
  <2>1. published' \in SUBSET Statuses /\ published \subseteq published'
    BY <1>0, <1>6 DEF PublishStatus, TypeOK
  <2>2. CASE Ack /\ published' = published \cup {run.status}
    BY <1>0, <1>6, <2>1, <2>2, HandlerReturns DEF PublishStatus, TypeOK
  <2>3. CASE DeadLetter
    BY <1>0, <1>6, <2>1, <2>3, HandlerReturns DEF PublishStatus, TypeOK, DeadLetter
  <2>. QED BY <1>6, <2>2, <2>3 DEF PublishStatus
<1>. QED BY <1>1, <1>2, <1>3, <1>4, <1>5, <1>6 DEF Handler

\* What goes on around the handler.
LEMMA EnvironmentStep ==
  ASSUME SendConstants, IInv, Next, ~Handler
  PROVE  IInv'
<1>0. /\ TypeOK /\ spent' \in [Faults -> Nat] /\ \A x \in Faults : spent'[x] <= Limits[x]
  BY SpentOK DEF IInv
<1>1. UNCHANGED <<acked, ledger, published, delivered>>
  BY DEF Next, Deliver, LoggedOut, DropSession, ForgetChannel, BeginStop, DeadlinePasses,
         LoseConnection, Leave, Crash, Restart, Reinject, Done, GoDown, ChannelFrame,
         ProcessFrame, histVars, brokerVars, vars
<1>2. AnsweredBeforeAck'
  BY <1>1 DEF IInv, AnsweredBeforeAck
<1>3. CASE Deliver
  <2>1. /\ run' \in Run /\ run'.step = "begin" /\ run'.held = TRUE /\ run.held = FALSE
    BY <1>0, <1>3, IdleInRun DEF Deliver, Run, Steps, Busy, Idle, TypeOK
  <2>2. ready' + dead' + acked' + Holds' = Copies /\ ready' \in Nat /\ dead' \in Nat
    BY <1>0, <1>1, <1>3, <2>1 DEF SendConstants, Deliver, Holds, TypeOK
  <2>. QED BY <1>0, <1>1, <1>2, <1>3, <2>1, <2>2
           DEF IInv, TypeOK, SendsUnsent, Unsent, Deliver, Busy, processVars, channelVars
<1>4. CASE LoseConnection
  <2>1. /\ run' \in Run /\ run'.step = run.step /\ run'.held = FALSE
        /\ run = Idle => run' = Idle
    BY <1>0, <1>4, IdleInRun DEF LoseConnection, Run, TypeOK, Idle
  <2>2. ready' + dead' + acked' + Holds' = Copies /\ ready' \in Nat /\ dead' = dead
    BY <1>0, <1>1, <1>4, <2>1 DEF SendConstants, LoseConnection, Holds, TypeOK
  <2>. QED BY <1>0, <1>1, <1>2, <1>4, <2>1, <2>2
           DEF IInv, TypeOK, SendsUnsent, LoseConnection, Busy, channelVars
<1>5. CASE Leave \/ Crash
  <2>1. GoDown
    BY <1>5 DEF Leave, Crash
  <2>2. ready' + dead' + acked' + Holds' = Copies /\ ready' \in Nat /\ dead' = dead
    BY <1>0, <1>1, <2>1, IdleInRun DEF SendConstants, GoDown, Holds, TypeOK
  <2>. QED BY <1>0, <1>1, <1>2, <2>1, <2>2, IdleInRun
     DEF IInv, TypeOK, SendsUnsent, Unsent, GoDown, Phases, Busy
<1>6. CASE LoggedOut \/ DropSession \/ ForgetChannel
  BY <1>0, <1>1, <1>2, <1>6
     DEF IInv, TypeOK, SendsUnsent, LoggedOut, DropSession, ForgetChannel, ChannelFrame,
         brokerVars, processVars, Holds, Busy
<1>7. CASE BeginStop \/ DeadlinePasses \/ Restart \/ Reinject
  <2>1. /\ run' = run /\ Holds' = Holds /\ ready' \in Nat /\ dead' \in Nat
        /\ ready' + dead' + acked' + Holds' = Copies
    <3>1. run' = run /\ Holds' = Holds /\ Holds \in Nat
      BY <1>7 DEF BeginStop, DeadlinePasses, Restart, Reinject, Holds
    <3>2. CASE Reinject
      BY <1>0, <1>1, <3>1, <3>2 DEF SendConstants, Reinject, TypeOK
    <3>3. CASE UNCHANGED <<ready, dead>>
      BY <1>0, <1>1, <3>1, <3>3 DEF TypeOK
    <3>. QED BY <1>7, <3>1, <3>2, <3>3 DEF BeginStop, DeadlinePasses, Restart
  <2>2. /\ phase' \in Phases /\ attached' \in BOOLEAN /\ session' \in BOOLEAN
        /\ stored' \in BOOLEAN /\ unlinking' \in SUBSET {"drop", "forget"}
        /\ phase' = "down" => phase = "down"
    BY <1>0, <1>7 DEF BeginStop, DeadlinePasses, Restart, Reinject, TypeOK, Phases,
                      processVars, channelVars
  <2>. QED BY <1>0, <1>1, <1>2, <2>1, <2>2 DEF IInv, TypeOK, SendsUnsent, Busy
<1>8. CASE Done
  BY <1>8 DEF Done, IInv, TypeOK, AnsweredBeforeAck, SendsUnsent, Holds, Busy, vars,
              brokerVars, processVars, channelVars, histVars
<1>. QED BY <1>3, <1>4, <1>5, <1>6, <1>7, <1>8 DEF Next

LEMMA InitEstablishes ==
  ASSUME SendConstants, Init
  PROVE  IInv
<1>1. ASSUME Init PROVE TypeOK
  <2>1. /\ ready + dead + acked + Holds = Copies /\ ready \in Nat /\ dead \in Nat
        /\ acked \in Nat /\ delivered \in Nat
    BY <1>1, IdleInRun DEF SendConstants, Init, Holds
  <2>2. spent \in [Faults -> Nat] /\ \A f \in Faults : spent[f] <= Limits[f]
    BY <1>1 DEF SendConstants, Init
  <2>. QED BY <1>1, <2>1, <2>2, IdleInRun DEF Init, TypeOK, Phases, Busy
<1>2. ASSUME Init PROVE AnsweredBeforeAck /\ SendsUnsent
  BY <1>2 DEF Init, AnsweredBeforeAck, SendsUnsent
<1>. QED BY <1>1, <1>2 DEF IInv

LEMMA NextPreserves ==
  ASSUME SendConstants, IInv, [Next]_vars
  PROVE  IInv'
<1>1. CASE UNCHANGED vars
  BY <1>1 DEF IInv, TypeOK, AnsweredBeforeAck, SendsUnsent, Holds, Busy, vars,
              brokerVars, processVars, channelVars, histVars
<1>. QED BY <1>1, HandlerStep, EnvironmentStep

THEOREM Invariance ==
  ASSUME SendConstants
  PROVE  Spec => []IInv
BY InitEstablishes, NextPreserves, PTL DEF Spec

\* Types, and every copy of the command in exactly one place, for any number of
\* copies and faults.
THEOREM TypeCorrect ==
  ASSUME SendConstants
  PROVE  Spec => []TypeOK
BY Invariance, PTL DEF IInv

\* Nothing leaves gateway.send acknowledged without a published status.
THEOREM AckMeansAnswered ==
  ASSUME SendConstants
  PROVE  Spec => []AnsweredBeforeAck
BY Invariance, PTL DEF IInv

\* A message the ledger has as sent is never handed to WhatsApp again, whatever
\* is redelivered, restarted or reinjected.
THEOREM SentIsFinal ==
  ASSUME SendConstants
  PROVE  Spec => NoResend
<1>1. ASSUME IInv, [Next]_vars, ledger = "sent" PROVE delivered' = delivered
  <2>1. run.step # "send"
    BY <1>1 DEF IInv, SendsUnsent, Unsent
  <2>. QED BY <1>1, <2>1
       DEF Next, Handler, Deliver, Begin, Connect, Lookup, Resume, Reconnect, Client, Build,
           Send, Mark, PublishStatus, LoggedOut, DropSession, ForgetChannel, BeginStop,
           DeadlinePasses, LoseConnection, Leave, Crash, Restart, Reinject, Done, GoDown,
           ChannelFrame, ProcessFrame, histVars, vars
<1>2. IInv /\ [Next]_vars => [ledger = "sent" => delivered' = delivered]_vars
  BY <1>1
<1>. QED BY <1>2, Invariance, PTL DEF Spec, NoResend

-----------------------------------------------------------------------------
(* What the gateway says of a message that WhatsApp took.                   *)

\* A lost answer, a store that failed, a stop or a lost connection has happened.
Excuses == {"answer", "store", "stop", "connection"}
Excused == \E f \in Excuses : spent[f] > 0

\* Until then the process serves, and a message that WhatsApp took is in the ledger,
\* or on its way into it; a failure is about to be told only of one it did not take.
Truthful ==
  \/ Excused
  \/ /\ phase = "up" /\ attached
     /\ delivered > 0 => ledger = "sent" \/ run.step = "mark"
     /\ run.step = "publish" /\ run.status \in Codes => delivered = 0

LEMMA ExcusesLast ==
  ASSUME SendConstants, TypeOK, Next, Excused
  PROVE  Excused'
<1>1. \A f \in Faults : spent'[f] >= spent[f]
  <2>1. PICK f \in Faults : NoFault \/ Fault(f)
    BY DEF Next, Handler, Deliver, Begin, Connect, Lookup, Resume, Reconnect, Client, Build,
           Send, Mark, PublishStatus, LoggedOut, DropSession, ForgetChannel, BeginStop,
           DeadlinePasses, LoseConnection, Leave, Crash, Restart, Reinject, Done, Faults,
           NoFault, vars
  <2>. QED BY <2>1 DEF NoFault, Fault, TypeOK
<1>2. Excuses \subseteq Faults /\ spent \in [Faults -> Nat] /\ spent' \in [Faults -> Nat]
  BY SpentOK DEF Excuses, Faults, TypeOK
<1>. QED BY <1>1, <1>2 DEF Excused

LEMMA FaultExcuses ==
  ASSUME TypeOK, NEW f \in Excuses, Fault(f)
  PROVE  Excused'
BY DEF TypeOK, Fault, Excused, Excuses, Faults

\* The steps of the handler, by what they know of the row (SendsUnsent).
LEMMA HandlerTruthful ==
  ASSUME SendConstants, IInv, Truthful, Handler, Next
  PROVE  Truthful'
<1>. SUFFICES ASSUME ~Excused, ~Excused' PROVE Truthful'
  BY ExcusesLast DEF Truthful, IInv
<1>0. /\ TypeOK /\ phase = "up" /\ attached /\ delivered \in Nat
      /\ delivered > 0 => ledger = "sent" \/ run.step = "mark"
      /\ run.step = "publish" /\ run.status \in Codes => delivered = 0
      /\ ~Fault("answer") /\ ~Fault("store")
      /\ run.step \in Unsent => ledger = "pending"
  BY FaultExcuses DEF IInv, TypeOK, Truthful, SendsUnsent, Excuses
<1>1. phase' = "up" /\ attached'
  BY <1>0 DEF Handler, Begin, Connect, Lookup, Resume, Reconnect, Client, Build, Send, Mark,
              PublishStatus, HandlerFrame, processVars
<1>m. /\ \A step : Goto(step) => Moves(step, run.status)
      /\ \A code : Fail(code) => Moves("publish", code)
      /\ Tell => Moves("publish", "sent")
  BY <1>0, GotoMoves
<1>2. ASSUME UNCHANGED <<ledger, delivered>>, delivered = 0 \/ ledger = "sent",
             delivered = 0 \/ run'.step # "publish" \/ run'.status \notin Codes
      PROVE  Truthful'
  BY <1>0, <1>1, <1>2 DEF Truthful
<1>3. CASE Begin
  <2>1. CASE Tell
    <3>1. run'.status = "sent"
      BY <1>0, <1>m, <2>1 DEF Moves, TypeOK, Run
    <3>. QED BY <1>0, <1>2, <1>3, <3>1 DEF Begin, Codes, histVars
  <2>2. CASE ~AlreadySent /\ Goto("connect")
    BY <1>0, <1>2, <1>3, <2>2 DEF Begin, AlreadySent, histVars
  <2>. QED BY <1>0, <1>3, <2>1, <2>2 DEF Begin
<1>4. CASE Connect \/ Lookup \/ Resume \/ Reconnect \/ Client \/ Build
  <2>1. /\ run.step \in Unsent /\ run.step # "mark"
        /\ UNCHANGED <<ledger, delivered>>
    BY <1>4 DEF Connect, Lookup, Resume, Reconnect, Client, Build, Unsent, histVars
  <2>. QED BY <1>0, <1>2, <2>1
<1>5. CASE Send
  <2>1. ledger' = "pending" /\ ledger = "pending" /\ delivered = 0
    BY <1>0, <1>5 DEF Send, Unsent
  <2>2. CASE delivered' = delivered
    BY <1>2, <1>5, <2>1, <2>2 DEF Send
  <2>3. CASE Goto("mark")
    <3>1. run'.step = "mark"
      BY <1>0, <1>m, <2>3, MovesOK DEF TypeOK, Run, Steps
    <3>. QED BY <1>1, <3>1 DEF Truthful
  <2>. QED BY <1>0, <1>5, <2>2, <2>3 DEF Send
<1>6. CASE Mark
  <2>1. ledger' = "sent" /\ Tell
    BY <1>0, <1>6 DEF Mark
  <2>2. run'.status = "sent"
    BY <1>0, <1>m, <2>1 DEF Moves, TypeOK, Run
  <2>. QED BY <1>1, <2>1, <2>2 DEF Truthful, Codes
<1>7. CASE PublishStatus
  <2>1. run' = Idle /\ UNCHANGED <<ledger, delivered>> /\ run.step = "publish"
    BY <1>7 DEF PublishStatus, Ack, DeadLetter
  <2>. QED BY <1>0, <1>2, <2>1, IdleInRun
<1>. QED BY <1>3, <1>4, <1>5, <1>6, <1>7 DEF Handler

\* Around the handler: what ends the service is an excuse, and nothing else takes a
\* handler from its message.
LEMMA AroundTruthful ==
  ASSUME SendConstants, IInv, Truthful, Next, ~Handler
  PROVE  Truthful'
<1>. SUFFICES ASSUME ~Excused, ~Excused' PROVE Truthful'
  BY ExcusesLast DEF Truthful, IInv
<1>0. /\ TypeOK /\ phase = "up" /\ attached
      /\ delivered > 0 => ledger = "sent" \/ run.step = "mark"
      /\ run.step = "publish" /\ run.status \in Codes => delivered = 0
      /\ ~Fault("stop") /\ ~Fault("connection")
  BY FaultExcuses DEF IInv, Truthful, Excuses
<1>1. CASE Deliver
  <2>1. /\ run.step = "idle" /\ run'.step = "begin"
        /\ UNCHANGED <<ledger, delivered, phase, attached>>
    BY <1>1 DEF Deliver, Idle, Busy, histVars, processVars
  <2>. QED BY <1>0, <2>1 DEF Truthful
<1>2. CASE \/ LoggedOut \/ DropSession \/ ForgetChannel \/ Reinject \/ Done
  <2>1. UNCHANGED <<run, ledger, delivered, phase, attached>>
    BY <1>2 DEF LoggedOut, DropSession, ForgetChannel, Reinject, Done, ChannelFrame,
                ProcessFrame, processVars, histVars, vars
  <2>. QED BY <1>0, <2>1 DEF Truthful
<1>3. ~(BeginStop \/ DeadlinePasses \/ LoseConnection \/ Leave \/ Crash \/ Restart)
  BY <1>0 DEF BeginStop, DeadlinePasses, LoseConnection, Leave, Crash, Restart
<1>. QED BY <1>1, <1>2, <1>3 DEF Next

LEMMA TruthfulHolds ==
  ASSUME SendConstants
  PROVE  Spec => []Truthful
<1>1. Init => Truthful
  BY IdleInRun DEF Init, Truthful
<1>2. IInv /\ Truthful /\ [Next]_vars => Truthful'
  <2>1. ASSUME UNCHANGED vars, Truthful PROVE Truthful'
    BY <2>1 DEF vars, processVars, histVars, Truthful, Excused
  <2>. QED BY <2>1, HandlerTruthful, AroundTruthful
<1>. QED BY <1>1, <1>2, Invariance, PTL DEF Spec

\* "failed" is said of a message that WhatsApp took only after a lost answer, a
\* failed store, a stop or a lost connection (SendHandler with publishSendFailure).
THEOREM FailuresAreHonest ==
  ASSUME SendConstants
  PROVE  Spec => HonestFailure
<1>1. ASSUME IInv, Truthful, [Next]_vars,
             (published' \cap Codes) \ published # {}, delivered > 0
      PROVE  spent["answer"] + spent["store"] + spent["stop"] + spent["connection"] > 0
  <2>1. PublishStatus
    BY <1>1 DEF Next, Handler, Deliver, Begin, Connect, Lookup, Resume, Reconnect, Client,
         Build, Send, Mark, LoggedOut, DropSession, ForgetChannel, BeginStop,
         DeadlinePasses, LoseConnection, Leave, Crash, Restart, Reinject, Done, GoDown,
         ChannelFrame, ProcessFrame, histVars, vars
  <2>2. run.step = "publish" /\ run.status \in Codes
    BY <1>1, <2>1 DEF PublishStatus
  <2>3. Excused
    BY <1>1, <2>2 DEF Truthful
  <2>. QED BY <1>1, <2>3 DEF Excused, Excuses, IInv, TypeOK, Faults
<1>2. IInv /\ Truthful /\ [Next]_vars =>
        [(published' \cap Codes) \ published # {} /\ delivered > 0 =>
           spent["answer"] + spent["store"] + spent["stop"] + spent["connection"] > 0]_vars
  BY <1>1
<1>. QED BY <1>2, Invariance, TruthfulHolds, PTL DEF Spec, HonestFailure
=============================================================================
