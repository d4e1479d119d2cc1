---------------------------- MODULE CommandsProofs ----------------------------
(***************************************************************************)
(* Proofs about GroupCommand, for any instances, groups, copies, halt      *)
(* limit and faults; then what SendCommandProofs shows of SendCommand, for *)
(* the instance of MCCommands, and all of it for the specification of the  *)
(* run.                                                                    *)
(***************************************************************************)
EXTENDS MCCommands, FiniteSetTheorems, TLAPS

-----------------------------------------------------------------------------
(* The handler's position and what it has published.                        *)

\* The groups before the handler's position have their answer.
AnsweredSoFar ==
  \A i \in Instances : \A g \in Groups : g < run[i].pos => published[g] # {}

\* Only a stopping instance can meet a setup refused because of the stop, and it
\* has not gone past the head of its loop.
StopSeenInTime ==
  /\ \A i \in Instances :
       /\ run[i].setup = "shutdown" => life[i] = "stopping"
       /\ run[i].result # "shutdown"
  /\ ShutdownIsNotAFailure

\* A handler between the head of the loop and the publish has a group at hand, and
\* what it publishes is a result.
AtGroup ==
  \A i \in Instances :
    /\ run[i].step \in {"apply", "unavailable", "mark", "publish"} => run[i].pos \in Groups
    /\ run[i].step \in {"mark", "publish"} => run[i].result \in Results

TypeInv == TypeOK /\ AtGroup
IInv == TypeInv /\ AnsweredSoFar /\ AnsweredBeforeAck /\ StopSeenInTime

LEMMA IdleInRun == Idle \in Run
BY ConstantsAssumption DEF Idle, Run, Steps, Statuses

\* The parts of TypeOK that are not about run.
RestOK ==
  /\ ready \in Nat /\ dead \in Nat /\ acked \in Nat
  /\ kept \in [Instances -> Nat]
  /\ life \in [Instances -> {"up", "stopping", "down"}]
  /\ attached \in [Instances -> BOOLEAN]
  /\ ledger \in [Groups -> Statuses] /\ halts \in [Groups -> 0..GroupHaltLimit]
  /\ spent \in [Faults -> Nat] /\ \A f \in Faults : spent[f] <= Limits[f]
  /\ attempts \in [Groups -> 0..AttemptCap] /\ published \in [Groups -> SUBSET Results]

\* What IInv asks of instance i when its handler is r, its instance lives as l, and
\* p has been published.
HandlerOK(r, l, p) ==
  /\ r \in Run
  /\ r.step \in {"apply", "unavailable", "mark", "publish"} => r.pos \in Groups
  /\ r.step \in {"mark", "publish"} => r.result \in Results
  /\ \A g \in Groups : g < r.pos => p[g] # {}
  /\ r.setup = "shutdown" => l = "stopping"
  /\ r.result # "shutdown"

LEMMA IInvParts ==
  IInv <=> /\ RestOK /\ run \in [Instances -> Run]
           /\ \A i \in Instances : HandlerOK(run[i], life[i], published)
           /\ AnsweredBeforeAck /\ ShutdownIsNotAFailure
BY DEF IInv, TypeInv, TypeOK, RestOK, HandlerOK, AtGroup, AnsweredSoFar, StopSeenInTime

LEMMA IdleOK == \A l, p : HandlerOK(Idle, l, p)
<1>1. /\ Idle \in Run /\ Idle.step = "idle" /\ Idle.pos = 1 /\ Idle.setup = "ok"
      /\ Idle.result = "pending"
  BY IdleInRun DEF Idle
<1>2. \A g \in Groups : ~(g < 1)
  BY ConstantsAssumption DEF Groups
<1>. QED BY <1>1, <1>2 DEF HandlerOK

LEMMA FaultOK ==
  ASSUME RestOK, NEW f \in Faults, NoFault \/ Fault(f)
  PROVE  spent' \in [Faults -> Nat] /\ \A e \in Faults : spent'[e] <= Limits[e]
BY ConstantsAssumption DEF RestOK, NoFault, Fault

LEMMA CappedOK ==
  ASSUME NEW cap \in Nat, NEW n \in 0..cap
  PROVE  Capped(n, cap) \in 0..cap
BY DEF Capped

LEMMA AttemptCapOK == AttemptCap \in Nat
BY ConstantsAssumption DEF AttemptCap, Faults

LEMMA HoldsOK == \A i : Holds(i) \in {0, 1}
BY DEF Holds

\* How a handler returns: the broker's books stay numbers, and only Ack acks.
LEMMA ReturnOK ==
  ASSUME RestOK, NEW i \in Instances, Ack(i) \/ Requeue(i) \/ DeadLetter(i)
  PROVE  /\ run' = [run EXCEPT ![i] = Idle]
         /\ ready' \in Nat /\ dead' \in Nat /\ acked' \in Nat
         /\ kept' \in [Instances -> Nat]
         /\ ~Ack(i) => acked' = acked
BY HoldsOK DEF RestOK, Ack, Requeue, DeadLetter, Return

\* Moving on to another step of the same group.
LEMMA GotoOK ==
  ASSUME RestOK, NEW i \in Instances, NEW step \in Steps, NEW result \in Statuses,
         HandlerOK(run[i], life[i], published), run[i].pos \in Groups,
         result # "shutdown", step \in {"mark", "publish"} => result \in Results,
         \A g \in Groups : published[g] \subseteq published'[g],
         Goto(i, step, result)
  PROVE  /\ \E r : /\ HandlerOK(r, life[i], published')
                   /\ run' = [run EXCEPT ![i] = r]
         /\ ready' \in Nat /\ dead' \in Nat /\ acked' \in Nat
         /\ kept' \in [Instances -> Nat] /\ acked' = acked
<1>1. PICK r : r = [run[i] EXCEPT !.step = step, !.result = result]
  OBVIOUS
<1>2. run' = [run EXCEPT ![i] = r]
  BY <1>1 DEF Goto
<1>3. /\ r \in Run /\ r.step = step /\ r.result = result /\ r.pos = run[i].pos
      /\ r.setup = run[i].setup
  BY <1>1 DEF HandlerOK, Run
<1>4. HandlerOK(r, life[i], published')
  BY <1>3 DEF HandlerOK
<1>. QED BY <1>2, <1>4 DEF Goto, RestOK, brokerVars

-----------------------------------------------------------------------------
(* The invariant, action by action.                                         *)

\* It is enough to look at the handler of one instance.
LEMMA OneInstance ==
  ASSUME IInv, RestOK', ShutdownIsNotAFailure', AnsweredBeforeAck', NEW i \in Instances,
         \A g \in Groups : published[g] \subseteq published'[g],
         \E r : HandlerOK(r, life'[i], published') /\ run' = [run EXCEPT ![i] = r],
         \A j \in Instances \ {i} : life'[j] = life[j]
  PROVE  IInv'
<1>1. PICK r : HandlerOK(r, life'[i], published') /\ run' = [run EXCEPT ![i] = r]
  OBVIOUS
<1>2. run \in [Instances -> Run] /\ r \in Run
  BY <1>1, IInvParts DEF HandlerOK
<1>3. \A j \in Instances : HandlerOK(run'[j], life'[j], published')
  <2>1. ASSUME NEW j \in Instances \ {i} PROVE HandlerOK(run'[j], life'[j], published')
    <3>1. HandlerOK(run[j], life[j], published) /\ run'[j] = run[j] /\ life'[j] = life[j]
      BY <1>1, <1>2, IInvParts
    <3>. QED BY <3>1 DEF HandlerOK
  <2>2. run'[i] = r
    BY <1>1, <1>2
  <2>. QED BY <1>1, <2>1, <2>2
<1>4. run' \in [Instances -> Run]
  BY <1>1, <1>2
<1>. QED BY <1>3, <1>4 DEF IInv, TypeInv, TypeOK, RestOK, HandlerOK, AtGroup,
                           AnsweredSoFar, StopSeenInTime

LEMMA HandlerStep ==
  ASSUME IInv, NEW i \in Instances, Handler(i)
  PROVE  IInv'
<1>0. /\ RestOK /\ run \in [Instances -> Run] /\ HandlerOK(run[i], life[i], published)
      /\ AnsweredBeforeAck /\ ShutdownIsNotAFailure
  BY IInvParts
<1>a. /\ life' = life /\ attached' = attached
      /\ \A j \in Instances \ {i} : life'[j] = life[j]
  BY DEF Handler, Prepare, Begin, Apply, Unavailable, Mark, PublishResult, HandlerFrame
<1>k. ASSUME acked' = acked, \A g \in Groups : published[g] \subseteq published'[g]
      PROVE  AnsweredBeforeAck'
  BY <1>0, <1>k DEF AnsweredBeforeAck
<1>t. \A s \in {"idle", "prepare", "begin", "apply", "unavailable", "mark", "publish"} :
        s \in Steps
  BY DEF Steps
<1>1. CASE Prepare(i)
  <2>1. UNCHANGED <<brokerVars, ledgerVars, spent, attempts, published, life, attached>>
    BY <1>1 DEF Prepare, NoFault, HandlerFrame
  <2>2. PICK u \in Failures \cup {"ok"} :
          /\ run' = [run EXCEPT ![i].step = "begin", ![i].setup = u]
          /\ u = "shutdown" => life[i] = "stopping"
    BY <1>1 DEF Prepare, ShuttingDown, Failures
  <2>3. PICK r : r = [run[i] EXCEPT !.step = "begin", !.setup = u]
    OBVIOUS
  <2>4. run' = [run EXCEPT ![i] = r]
    BY <2>2, <2>3
  <2>5. /\ r \in Run /\ r.step = "begin" /\ r.setup = u /\ r.pos = run[i].pos
        /\ r.result = run[i].result
    BY <1>0, <1>t, <2>3 DEF Run
  <2>6. HandlerOK(r, life'[i], published')
    BY <1>0, <1>a, <2>1, <2>2, <2>5 DEF HandlerOK
  <2>7. RestOK' /\ ShutdownIsNotAFailure'
    BY <1>0, <2>1 DEF RestOK, ShutdownIsNotAFailure, brokerVars, ledgerVars
  <2>. QED BY <1>a, <1>k, <2>1, <2>4, <2>6, <2>7, OneInstance DEF brokerVars
<1>2. CASE Begin(i)
  <2>1. /\ UNCHANGED <<ledgerVars, attempts, published>> /\ run[i].pos \in Nat
        /\ run[i].pos \in 1..(GroupCount + 1) /\ run[i].step = "begin"
    BY <1>0, <1>2, ConstantsAssumption DEF Begin, Run
  <2>2. ShutdownIsNotAFailure' /\ \A g \in Groups : published[g] \subseteq published'[g]
    BY <1>0, <2>1 DEF ShutdownIsNotAFailure, ledgerVars
  <2>3. spent' \in [Faults -> Nat] /\ \A f \in Faults : spent'[f] <= Limits[f]
    <3>1. NoFault \/ Fault("begin")
      BY <1>2 DEF Begin
    <3>. QED BY <1>0, <3>1, FaultOK DEF Faults
  <2>4. ASSUME ready' \in Nat, dead' \in Nat, acked' \in Nat, kept' \in [Instances -> Nat]
        PROVE  RestOK'
    BY <1>0, <1>a, <2>1, <2>3, <2>4 DEF RestOK, ledgerVars
  <2>5. CASE Ack(i) /\ run[i].pos > GroupCount
    <3>1. \A g \in Groups : published[g] # {}
      BY <1>0, <2>1, <2>5, ConstantsAssumption DEF HandlerOK, Groups
    <3>2. AnsweredBeforeAck'
      BY <2>1, <3>1 DEF AnsweredBeforeAck
    <3>. QED BY <1>0, <1>a, <2>2, <2>4, <2>5, <3>2, ReturnOK, IdleOK, OneInstance
  <2>6. CASE Requeue(i) \/ DeadLetter(i)
    <3>1. acked' = acked
      BY <2>6 DEF Requeue, DeadLetter
    <3>. QED BY <1>0, <1>a, <1>k, <2>2, <2>4, <2>6, <3>1, ReturnOK, IdleOK, OneInstance
  <2>7. ASSUME NEW step \in Steps, NEW result \in Statuses, run[i].pos \in Groups,
               result # "shutdown", step \in {"mark", "publish"} => result \in Results,
               Goto(i, step, result)
        PROVE  IInv'
    BY <1>0, <1>a, <1>k, <2>2, <2>4, <2>7, GotoOK, OneInstance
  <2>8. CASE run[i].pos <= GroupCount /\ MayGoOn(i) /\ ~(Requeue(i) \/ DeadLetter(i))
    <3>1. run[i].pos \in Groups
      BY <2>1, <2>8 DEF Groups
    <3>2. ledger[run[i].pos] \in Statuses /\ ledger[run[i].pos] # "shutdown"
      BY <1>0, <3>1 DEF RestOK, ShutdownIsNotAFailure
    <3>3. run[i].setup # "shutdown" /\ run[i].setup \in Failures \cup {"ok"}
      BY <1>0, <2>8 DEF HandlerOK, MayGoOn, ShuttingDown, Run
    <3>4. \/ Finished(run[i].pos) /\ Goto(i, "publish", ledger[run[i].pos])
          \/ run[i].setup # "ok" /\ Goto(i, "mark", run[i].setup)
          \/ Goto(i, "apply", "pending")
      BY <1>2, <2>1, <2>8, ConstantsAssumption DEF Begin
    <3>5. Finished(run[i].pos) => ledger[run[i].pos] \in Results
      BY <3>2 DEF Finished, Statuses
    <3>. QED BY <1>t, <2>7, <3>1, <3>2, <3>3, <3>4, <3>5 DEF Statuses, Results
  <2>. QED BY <1>2, <2>5, <2>6, <2>8 DEF Begin
<1>3. CASE Apply(i)
  <2>1. /\ UNCHANGED <<ledgerVars, published, spent>> /\ run[i].pos \in Groups
    BY <1>0, <1>3 DEF Apply, HandlerOK, NoFault
  <2>2. attempts' \in [Groups -> 0..AttemptCap]
    <3>1. attempts[run[i].pos] \in 0..AttemptCap
      BY <1>0, <2>1 DEF RestOK
    <3>2. Capped(attempts[run[i].pos], AttemptCap) \in 0..AttemptCap
      BY <3>1, CappedOK, AttemptCapOK
    <3>. QED BY <1>0, <1>3, <2>1, <3>2 DEF Apply, RestOK
  <2>3. ShutdownIsNotAFailure' /\ \A g \in Groups : published[g] \subseteq published'[g]
    BY <1>0, <2>1 DEF ShutdownIsNotAFailure, ledgerVars
  <2>4. ASSUME ready' \in Nat, dead' \in Nat, acked' \in Nat, kept' \in [Instances -> Nat]
        PROVE  RestOK'
    BY <1>0, <1>a, <2>1, <2>2, <2>4 DEF RestOK, ledgerVars
  <2>5. CASE Requeue(i)
    <3>1. acked' = acked
      BY <2>5 DEF Requeue
    <3>. QED BY <1>0, <1>a, <1>k, <2>3, <2>4, <2>5, <3>1, ReturnOK, IdleOK, OneInstance
  <2>6. ASSUME NEW step \in Steps, NEW result \in Statuses,
               result # "shutdown", step \in {"mark", "publish"} => result \in Results,
               Goto(i, step, result)
        PROVE  IInv'
    BY <1>0, <1>a, <1>k, <2>1, <2>3, <2>4, <2>6, GotoOK, OneInstance
  <2>. QED BY <1>3, <1>t, <2>5, <2>6 DEF Apply, Statuses, Results, Failures
<1>4. CASE Unavailable(i)
  <2>1. UNCHANGED <<ledger, attempts, published>> /\ run[i].pos \in Groups
    BY <1>0, <1>4 DEF Unavailable, HandlerOK
  <2>2. halts' \in [Groups -> 0..GroupHaltLimit]
    <3>1. Capped(halts[run[i].pos], GroupHaltLimit) \in 0..GroupHaltLimit
      BY <1>0, <2>1, CappedOK, ConstantsAssumption DEF RestOK
    <3>. QED BY <1>0, <1>4, <2>1, <3>1 DEF Unavailable, RestOK
  <2>3. ShutdownIsNotAFailure' /\ \A g \in Groups : published[g] \subseteq published'[g]
    BY <1>0, <2>1 DEF ShutdownIsNotAFailure
  <2>4. spent' \in [Faults -> Nat] /\ \A f \in Faults : spent'[f] <= Limits[f]
    <3>1. NoFault \/ Fault("halt")
      BY <1>4 DEF Unavailable
    <3>. QED BY <1>0, <3>1, FaultOK DEF Faults
  <2>5. ASSUME ready' \in Nat, dead' \in Nat, acked' \in Nat, kept' \in [Instances -> Nat]
        PROVE  RestOK'
    BY <1>0, <1>a, <2>1, <2>2, <2>4, <2>5 DEF RestOK
  <2>6. CASE Requeue(i) \/ DeadLetter(i)
    <3>1. acked' = acked
      BY <2>6 DEF Requeue, DeadLetter
    <3>. QED BY <1>0, <1>a, <1>k, <2>3, <2>5, <2>6, <3>1, ReturnOK, IdleOK, OneInstance
  <2>7. CASE Goto(i, "mark", "halted")
    BY <1>0, <1>a, <1>k, <1>t, <2>1, <2>3, <2>5, <2>7, GotoOK, OneInstance
       DEF Statuses, Results, Failures
  <2>. QED BY <1>4, <2>6, <2>7 DEF Unavailable
<1>5. CASE Mark(i)
  <2>1. /\ UNCHANGED <<halts, attempts, published>> /\ run[i].pos \in Groups
        /\ run[i].result \in Results /\ run[i].result # "shutdown"
        /\ Goto(i, "publish", run[i].result)
    BY <1>0, <1>5 DEF Mark, HandlerOK
  <2>2. ledger' = [ledger EXCEPT ![run[i].pos] = run[i].result] \/ ledger' = ledger
    BY <1>5 DEF Mark, Record
  <2>3. ledger' \in [Groups -> Statuses] /\ ShutdownIsNotAFailure'
    BY <1>0, <2>1, <2>2 DEF RestOK, ShutdownIsNotAFailure, Statuses
  <2>4. spent' \in [Faults -> Nat] /\ \A f \in Faults : spent'[f] <= Limits[f]
    <3>1. NoFault \/ Fault("mark")
      BY <1>5 DEF Mark
    <3>. QED BY <1>0, <3>1, FaultOK DEF Faults
  <2>5. ASSUME ready' \in Nat, dead' \in Nat, acked' \in Nat, kept' \in [Instances -> Nat]
        PROVE  RestOK'
    BY <1>0, <1>a, <2>1, <2>3, <2>4, <2>5 DEF RestOK
  <2>. QED BY <1>0, <1>a, <1>k, <1>t, <2>1, <2>3, <2>5, GotoOK, OneInstance DEF Statuses
<1>6. CASE PublishResult(i)
  <2>1. /\ UNCHANGED <<ledgerVars, attempts>> /\ run[i].pos \in Groups
        /\ run[i].result \in Results /\ run[i].result # "shutdown"
    BY <1>0, <1>6 DEF PublishResult, HandlerOK
  <2>2. \/ published' = [published EXCEPT ![run[i].pos] = @ \cup {run[i].result}]
        \/ published' = published
    BY <1>6 DEF PublishResult
  <2>3. /\ published' \in [Groups -> SUBSET Results] /\ ShutdownIsNotAFailure'
        /\ \A g \in Groups : published[g] \subseteq published'[g]
    BY <1>0, <2>1, <2>2 DEF RestOK, ShutdownIsNotAFailure, ledgerVars
  <2>4. spent' \in [Faults -> Nat] /\ \A f \in Faults : spent'[f] <= Limits[f]
    <3>1. NoFault \/ Fault("publish")
      BY <1>6 DEF PublishResult
    <3>. QED BY <1>0, <3>1, FaultOK DEF Faults
  <2>5. ASSUME ready' \in Nat, dead' \in Nat, acked' \in Nat, kept' \in [Instances -> Nat]
        PROVE  RestOK'
    BY <1>0, <1>a, <2>1, <2>3, <2>4, <2>5 DEF RestOK, ledgerVars
  <2>6. CASE DeadLetter(i)
    <3>1. acked' = acked
      BY <2>6 DEF DeadLetter
    <3>. QED BY <1>0, <1>a, <1>k, <2>3, <2>5, <2>6, <3>1, ReturnOK, IdleOK, OneInstance
  <2>7. CASE ~DeadLetter(i)
    <3>1. /\ published' = [published EXCEPT ![run[i].pos] = @ \cup {run[i].result}]
          /\ UNCHANGED brokerVars
          /\ run' = [run EXCEPT ![i].step = "begin", ![i].pos = run[i].pos + 1,
                                ![i].result = "pending"]
      BY <1>6, <2>7 DEF PublishResult
    <3>2. PICK r : r = [run[i] EXCEPT !.step = "begin", !.pos = run[i].pos + 1,
                                      !.result = "pending"]
      OBVIOUS
    <3>3. run' = [run EXCEPT ![i] = r]
      BY <3>1, <3>2
    <3>4. run[i].pos + 1 \in 1..(GroupCount + 1) /\ "pending" \in Statuses
      BY <2>1, ConstantsAssumption DEF Groups, Statuses
    <3>5. /\ r \in Run /\ r.step = "begin" /\ r.pos = run[i].pos + 1
          /\ r.result = "pending" /\ r.setup = run[i].setup
      BY <1>0, <1>t, <3>2, <3>4 DEF Run
    <3>6. ASSUME NEW g \in Groups, g < r.pos PROVE published'[g] # {}
      <4>1. g < run[i].pos \/ g = run[i].pos
        BY <2>1, <3>5, <3>6 DEF Groups
      <4>2. published'[run[i].pos] # {}
        BY <1>0, <2>1, <3>1 DEF RestOK
      <4>. QED BY <1>0, <2>3, <4>1, <4>2 DEF HandlerOK
    <3>7. HandlerOK(r, life'[i], published')
      BY <1>0, <1>a, <3>5, <3>6 DEF HandlerOK
    <3>8. RestOK' /\ acked' = acked
      BY <1>0, <2>5, <3>1 DEF RestOK, brokerVars
    <3>. QED BY <1>a, <1>k, <2>3, <3>3, <3>7, <3>8, OneInstance
  <2>. QED BY <2>6, <2>7
<1>. QED BY <1>1, <1>2, <1>3, <1>4, <1>5, <1>6 DEF Handler

\* What the outside does to an instance: its handler goes on, loses its delivery or
\* disappears.
LEMMA EnvironmentStep ==
  ASSUME IInv, NEW i \in Instances,
         \/ Deliver(i) \/ BeginStop(i) \/ LoseConnection(i) \/ FinishStop(i)
         \/ Crash(i) \/ Restart(i)
  PROVE  IInv'
<1>0. /\ RestOK /\ run \in [Instances -> Run] /\ HandlerOK(run[i], life[i], published)
      /\ AnsweredBeforeAck /\ ShutdownIsNotAFailure /\ Holds(i) \in Nat
  BY IInvParts, HoldsOK
<1>1. /\ UNCHANGED <<ledger, halts, acked, attempts, published>>
      /\ \A j \in Instances \ {i} : life'[j] = life[j]
  BY <1>0 DEF Deliver, BeginStop, LoseConnection, FinishStop, Crash, Restart, GoDown,
              HandlerIdleFrame, HandlerFrame, ledgerVars, RestOK
<1>2. AnsweredBeforeAck' /\ ShutdownIsNotAFailure'
  BY <1>0, <1>1 DEF AnsweredBeforeAck, ShutdownIsNotAFailure
<1>3. spent' \in [Faults -> Nat] /\ \A f \in Faults : spent'[f] <= Limits[f]
  <2>1. PICK f \in Faults : NoFault \/ Fault(f)
    BY DEF Deliver, BeginStop, LoseConnection, FinishStop, Crash, Restart, Faults
  <2>. QED BY <1>0, <2>1, FaultOK
<1>4. /\ life' \in [Instances -> {"up", "stopping", "down"}]
      /\ attached' \in [Instances -> BOOLEAN]
  BY <1>0 DEF RestOK, Deliver, BeginStop, LoseConnection, FinishStop, Crash, Restart,
              GoDown, HandlerFrame
<1>5. ready' \in Nat /\ dead' \in Nat /\ kept' \in [Instances -> Nat]
  BY <1>0 DEF RestOK, Deliver, BeginStop, LoseConnection, FinishStop, Crash, Restart,
              GoDown
<1>6. RestOK'
  BY <1>0, <1>1, <1>3, <1>4, <1>5 DEF RestOK
<1>7. \E r : HandlerOK(r, life'[i], published') /\ run' = [run EXCEPT ![i] = r]
  <2>1. CASE run' = run /\ life'[i] \in {life[i], "stopping"}
    BY <1>0, <1>1, <2>1 DEF HandlerOK
  <2>2. CASE run' = run /\ life[i] = "down"
    <3>1. HandlerOK(run[i], life'[i], published')
      BY <1>0, <1>1, <2>2 DEF HandlerOK
    <3>. QED BY <1>0, <2>2, <3>1
  <2>3. CASE Deliver(i) /\ run' # run
    <3>1. PICK r : r = [Idle EXCEPT !.step = "prepare", !.held = TRUE]
      OBVIOUS
    <3>2. Idle \in Run
      BY IdleInRun
    <3>3. r \in Run
      BY <3>1, <3>2 DEF Run, Steps
    <3>4. /\ r.step = "prepare" /\ r.pos = 1 /\ r.setup = "ok" /\ r.result = "pending"
      BY <3>1 DEF Idle
    <3>5. HandlerOK(r, life'[i], published')
      BY <3>3, <3>4, IdleOK DEF HandlerOK, Idle
    <3>. QED BY <2>3, <3>1, <3>5 DEF Deliver
  <2>4. CASE LoseConnection(i)
    <3>1. PICK r : r = [run[i] EXCEPT !.held = FALSE]
      OBVIOUS
    <3>2. /\ r \in Run /\ r.step = run[i].step /\ r.pos = run[i].pos
          /\ r.setup = run[i].setup /\ r.result = run[i].result
      BY <1>0, <3>1 DEF Run
    <3>3. HandlerOK(r, life'[i], published')
      BY <1>0, <1>1, <2>4, <3>2 DEF HandlerOK, LoseConnection
    <3>. QED BY <2>4, <3>1, <3>3 DEF LoseConnection
  <2>5. CASE FinishStop(i) \/ Crash(i)
    BY <2>5, IdleOK DEF FinishStop, Crash, GoDown, Return
  <2>6. (Deliver(i) /\ run' = run) \/ BeginStop(i) =>
          run' = run /\ life'[i] \in {life[i], "stopping"}
    BY <1>0 DEF Deliver, BeginStop, HandlerFrame, RestOK
  <2>7. Restart(i) => run' = run /\ life[i] = "down"
    BY DEF Restart
  <2>. QED BY <2>1, <2>2, <2>3, <2>4, <2>5, <2>6, <2>7
<1>. QED BY <1>1, <1>2, <1>6, <1>7, OneInstance

LEMMA InitEstablishes ==
  ASSUME Init
  PROVE  IInv
<1>1. RestOK
  BY ConstantsAssumption, AttemptCapOK DEF Init, RestOK, Statuses
<1>2. run \in [Instances -> Run] /\ \A i \in Instances : HandlerOK(run[i], life[i], published)
  BY IdleInRun, IdleOK DEF Init
<1>3. AnsweredBeforeAck /\ ShutdownIsNotAFailure
  BY DEF Init, AnsweredBeforeAck, ShutdownIsNotAFailure
<1>. QED BY <1>1, <1>2, <1>3, IInvParts

LEMMA NextPreserves ==
  ASSUME IInv, [Next]_vars
  PROVE  IInv'
<1>0. /\ RestOK /\ run \in [Instances -> Run] /\ AnsweredBeforeAck /\ ShutdownIsNotAFailure
      /\ \A i \in Instances : HandlerOK(run[i], life[i], published)
  BY IInvParts
<1>1. ASSUME RestOK', UNCHANGED <<run, life, published, ledger, acked>>
      PROVE  IInv'
  BY <1>0, <1>1 DEF IInv, TypeInv, TypeOK, RestOK, HandlerOK, AtGroup, AnsweredSoFar,
       StopSeenInTime, AnsweredBeforeAck, ShutdownIsNotAFailure
<1>2. CASE Reinject
  <2>1. RestOK'
    BY <1>0, <1>2 DEF Reinject, NoFault, HandlerIdleFrame, ledgerVars, RestOK
  <2>. QED BY <1>1, <1>2, <2>1 DEF Reinject, HandlerIdleFrame, ledgerVars
<1>3. CASE UNCHANGED vars
  <2>1. RestOK'
    BY <1>0, <1>3 DEF vars, brokerVars, ledgerVars, RestOK
  <2>. QED BY <1>1, <1>3, <2>1 DEF vars, brokerVars, ledgerVars
<1>. QED BY <1>2, <1>3, HandlerStep, EnvironmentStep DEF Next, Done

LEMMA Inductive == Spec => []IInv
BY InitEstablishes, NextPreserves, PTL DEF Spec

-----------------------------------------------------------------------------
(* The theorems.                                                            *)

\* Every variable keeps its type, however many instances share the command.
THEOREM TypeCorrect == Spec => []TypeOK
<1>1. IInv => TypeOK
  BY DEF IInv, TypeInv
<1>. QED BY <1>1, Inductive, PTL

\* GroupHandler returns nil, and the consumer acks, only when each group of the
\* command has a published result, whatever failed and whoever ran it before.
THEOREM AckMeansAnswered == Spec => []AnsweredBeforeAck
<1>1. IInv => AnsweredBeforeAck
  BY DEF IInv
<1>. QED BY <1>1, Inductive, PTL

\* The look at shuttingDown before every group keeps the refusal of groupClient out
\* of the ledger and of the published results.
THEOREM StopIsNeverReported == Spec => []ShutdownIsNotAFailure
<1>1. IInv => ShutdownIsNotAFailure
  BY DEF IInv, StopSeenInTime
<1>. QED BY <1>1, Inductive, PTL

-----------------------------------------------------------------------------
(* One process, whose ledger can be written: a group is answered from its   *)
(* row, and every try of it is paid for by a halt or a break.               *)

OneProcess == \E i \in Instances : Instances = {i}
LedgerWrites == Limits["mark"] = 0

\* What has been published has a row, what is tried has none, and a process that is
\* down tries nothing.
Recorded ==
  /\ \A g \in Groups : published[g] # {} => Finished(g)
  /\ \A i \in Instances :
       /\ run[i].step = "publish" => Finished(run[i].pos)
       /\ run[i].step \in {"apply", "unavailable", "mark"} => ~Finished(run[i].pos)
       /\ life[i] = "down" => run[i].step = "idle"

LEMMA RecordedAtFirst == Init => Recorded
BY DEF Init, Recorded, Idle

LEMMA RecordedByHandler ==
  ASSUME OneProcess, LedgerWrites, IInv, Recorded, NEW i \in Instances, Handler(i)
  PROVE  Recorded'
<1>. USE DEF Recorded
<1>0. /\ run \in [Instances -> Run] /\ run[i] \in Run /\ ledger \in [Groups -> Statuses]
      /\ published \in [Groups -> SUBSET Results] /\ Instances = {i} /\ AtGroup
      /\ spent["mark"] = 0 /\ life' = life
  <2>1. spent["mark"] \in Nat /\ spent["mark"] <= Limits["mark"]
    BY DEF IInv, TypeInv, TypeOK, Faults
  <2>2. life' = life
    BY DEF Handler, Prepare, Begin, Apply, Unavailable, Mark, PublishResult, HandlerFrame
  <2>. QED BY <2>1, <2>2 DEF OneProcess, LedgerWrites, IInv, TypeInv, TypeOK
<1>1. CASE Prepare(i)
  BY <1>0, <1>1 DEF Prepare, Run, ledgerVars, Finished
<1>2. CASE Begin(i)
  BY <1>0, <1>2 DEF Begin, Ack, Requeue, DeadLetter, Return, Goto, Idle, Run, ledgerVars, Finished
<1>3. CASE Apply(i)
  BY <1>0, <1>3 DEF Apply, Requeue, Return, Goto, Idle, Run, ledgerVars, Finished
<1>4. CASE Unavailable(i)
  BY <1>0, <1>4 DEF Unavailable, Requeue, DeadLetter, Return, Goto, Idle, Run, Finished
<1>5. CASE Mark(i)
  <2>1. /\ ledger' = [ledger EXCEPT ![run[i].pos] = run[i].result]
        /\ run' = [run EXCEPT ![i].step = "publish", ![i].result = run[i].result]
        /\ published' = published
    BY <1>0, <1>5 DEF Mark, Record, Fault, Goto, LedgerWrites
  <2>2. run[i].pos \in Groups /\ run[i].result # "pending"
    BY <1>0, <1>5 DEF Mark, AtGroup, Results, Failures
  <2>3. /\ run'[i].step = "publish" /\ run'[i].pos = run[i].pos
        /\ ledger'[run[i].pos] = run[i].result
        /\ \A g \in Groups : g # run[i].pos => ledger'[g] = ledger[g]
    BY <1>0, <2>1, <2>2 DEF Run
  <2>4. \A g \in Groups : Finished(g) => Finished(g)'
    BY <2>2, <2>3 DEF Finished
  <2>5. Finished(run[i].pos)' /\ life[i] # "down"
    BY <1>5, <2>2, <2>3 DEF Finished, Mark
  <2>. QED BY <1>0, <2>1, <2>3, <2>4, <2>5 DEF Finished
<1>6. CASE PublishResult(i)
  BY <1>0, <1>6 DEF PublishResult, DeadLetter, Return, Idle, Run, ledgerVars, Finished, AtGroup
<1>. QED BY <1>1, <1>2, <1>3, <1>4, <1>5, <1>6 DEF Handler

LEMMA RecordedAround ==
  ASSUME IInv, Recorded, NEW i \in Instances,
         \/ Deliver(i) \/ BeginStop(i) \/ LoseConnection(i) \/ FinishStop(i) \/ Crash(i) \/ Restart(i)
  PROVE  Recorded'
<1>. USE DEF Recorded
<1>0. /\ run \in [Instances -> Run] /\ life \in [Instances -> {"up", "stopping", "down"}]
  BY DEF IInv, TypeInv, TypeOK
<1>1. ledger' = ledger /\ published' = published
  BY DEF Deliver, BeginStop, LoseConnection, FinishStop, Crash, Restart, GoDown, HandlerIdleFrame,
         ledgerVars
<1>2. CASE Deliver(i)
  <2>1. life' = life /\ life[i] # "down" /\ \A g : Finished(g)' <=> Finished(g)
    BY <1>0, <1>1, <1>2 DEF Deliver, HandlerFrame, Finished
  <2>2. CASE run' = run
    BY <1>1, <2>1, <2>2
  <2>3. CASE run' = [run EXCEPT ![i] = [Idle EXCEPT !.step = "prepare", !.held = TRUE]]
    <3>1. run'[i].step = "prepare" /\ \A j \in Instances \ {i} : run'[j] = run[j]
      BY <1>0, <2>3 DEF Idle
    <3>. QED BY <1>1, <2>1, <3>1
  <2>. QED BY <1>2, <2>2, <2>3 DEF Deliver
<1>3. CASE BeginStop(i) \/ LoseConnection(i) \/ Restart(i)
  BY <1>0, <1>1, <1>3 DEF BeginStop, LoseConnection, Restart, Run, Finished
<1>4. CASE FinishStop(i) \/ Crash(i)
  BY <1>0, <1>1, <1>4 DEF FinishStop, Crash, GoDown, Return, Idle, Run, Finished
<1>. QED BY <1>2, <1>3, <1>4

LEMMA RecordedInductive ==
  ASSUME OneProcess, LedgerWrites
  PROVE  Spec => [](IInv /\ Recorded)
<1>1. Init => Recorded
  BY RecordedAtFirst
<1>2. IInv /\ Recorded /\ [Next]_vars => Recorded'
  <2>. SUFFICES ASSUME IInv, Recorded, [Next]_vars PROVE Recorded'
    OBVIOUS
  <2>1. CASE \E i \in Instances : Handler(i)
    BY <2>1, RecordedByHandler
  <2>2. CASE \E i \in Instances : \/ Deliver(i) \/ BeginStop(i) \/ LoseConnection(i)
                                  \/ FinishStop(i) \/ Crash(i) \/ Restart(i)
    BY <2>2, RecordedAround
  <2>3. CASE Reinject \/ Done \/ UNCHANGED vars
    BY <2>3 DEF Reinject, Done, HandlerIdleFrame, vars, ledgerVars, Recorded, Finished
  <2>. QED BY <2>1, <2>2, <2>3 DEF Next
<1>. QED BY <1>1, <1>2, Inductive, PTL DEF Spec

\* A group whose result the backend has seen is never asked of WhatsApp again
\* (GroupHandler with BeginAction), as long as one process handles the command
\* and writes its rows.
THEOREM NeverReapplied ==
  ASSUME OneProcess, LedgerWrites
  PROVE  Spec => NoReapply
<1>1. IInv /\ Recorded /\ [Next]_vars
        => [\A g \in Groups : attempts'[g] # attempts[g] => published[g] = {}]_vars
  <2>. SUFFICES ASSUME IInv, Recorded, Next
                PROVE  \A g \in Groups : attempts'[g] # attempts[g] => published[g] = {}
    OBVIOUS
  <2>1. CASE \E i \in Instances : Apply(i)
    <3>1. PICK i \in Instances : Apply(i)
      BY <2>1
    <3>2. attempts \in [Groups -> 0..AttemptCap] /\ run[i].pos \in Groups /\ run[i].step = "apply"
      BY <3>1 DEF Apply, IInv, TypeInv, TypeOK, AtGroup
    <3>3. \A g \in Groups : g # run[i].pos => attempts'[g] = attempts[g]
      BY <3>1, <3>2 DEF Apply
    <3>. QED BY <3>2, <3>3 DEF Recorded
  <2>2. CASE ~\E i \in Instances : Apply(i)
    <3>1. attempts' = attempts
      BY <2>2 DEF Next, Handler, Prepare, Begin, Unavailable, Mark, PublishResult, Deliver,
                  BeginStop, LoseConnection, FinishStop, Crash, Restart, GoDown, Reinject, Done,
                  HandlerIdleFrame, vars
    <3>. QED BY <3>1
  <2>. QED BY <2>1, <2>2
<1>. QED BY <1>1, RecordedInductive, PTL DEF Spec, NoReapply

\* The tries that the halts of a group pay for, and the breaks that pay for the rest.
Room(g) == IF halts[g] < GroupHaltLimit THEN halts[g] ELSE GroupHaltLimit - 1
Breaks  == spent["stop"] + spent["connection"] + spent["halt"]

Trying(i, g) == run[i].pos = g /\ run[i].step \in {"unavailable", "mark"}
About(i, g)  == run[i].pos = g /\ run[i].step = "apply"

\* A try that is not paid for is at work in a process that is up and attached; one
\* that lost its connection has paid for the try at work, and one that stops for
\* the try it is about to make.
Paid ==
  \A i \in Instances : \A g \in Groups :
    /\ attempts[g] <= GroupHaltLimit + Breaks
    /\ ~Finished(g) =>
         /\ attempts[g] <= Room(g) + Breaks + 1
         /\ attempts[g] > Room(g) + Breaks => life[i] = "up" /\ attached[i] /\ Trying(i, g)
         /\ attempts[g] >= Room(g) + Breaks =>
              /\ life[i] = "up" /\ ~attached[i] => Trying(i, g)
              /\ life[i] = "stopping" => ~About(i, g)

\* What the proof needs of the types.
PaidTypes(i) ==
  /\ run \in [Instances -> Run] /\ life \in [Instances -> {"up", "stopping", "down"}]
  /\ attached \in [Instances -> BOOLEAN] /\ ledger \in [Groups -> Statuses]
  /\ halts \in [Groups -> 0..GroupHaltLimit] /\ attempts \in [Groups -> 0..AttemptCap]
  /\ Breaks \in Nat /\ GroupHaltLimit \in Nat \ {0} /\ AttemptCap \in Nat
  /\ Instances = {i} /\ AtGroup /\ spent \in [Faults -> Nat]

LEMMA PaidTypesHold ==
  ASSUME OneProcess, IInv, NEW i \in Instances
  PROVE  PaidTypes(i)
BY ConstantsAssumption, AttemptCapOK
   DEF OneProcess, IInv, TypeInv, TypeOK, PaidTypes, Breaks, Faults

\* The faults that are breaks.
LEMMA BreaksPay ==
  ASSUME spent \in [Faults -> Nat], NEW f \in Faults, Fault(f)
  PROVE  Breaks' = Breaks + (IF f \in {"stop", "connection", "halt"} THEN 1 ELSE 0)
BY DEF Faults, Fault, Breaks

LEMMA NoFaultNoBreak == NoFault => Breaks' = Breaks
BY DEF NoFault, Breaks

LEMMA PaidAtFirst == Init => Paid
BY ConstantsAssumption DEF Init, Paid, Breaks, Room, Idle, Trying, About, Faults, Groups, Finished

\* A step that leaves the books of the groups alone.
LEMMA PaidIfBooksStay ==
  ASSUME OneProcess, IInv, Paid, NEW i \in Instances,
         attempts' = attempts, halts' = halts,
         \A g \in Groups : Finished(g) => Finished(g)',
         Breaks' \in Nat, Breaks' >= Breaks,
         \A g \in Groups : ~Finished(g)' /\ Breaks' = Breaks =>
           /\ life[i] = "up" /\ attached[i] /\ Trying(i, g)
                => life'[i] = "up" /\ attached'[i] /\ Trying(i, g)'
           /\ life'[i] = "up" /\ ~attached'[i]
                => life[i] = "up" /\ ~attached[i] /\ (Trying(i, g) => Trying(i, g)')
           /\ life'[i] = "stopping" /\ About(i, g)'
                => \/ life[i] = "stopping" /\ About(i, g)
                   \/ life[i] = "up" /\ ~attached[i] /\ ~Trying(i, g),
         \A g \in Groups : ~Finished(g)' /\ Breaks' # Breaks =>
           /\ life'[i] = "up" /\ attached[i] /\ ~attached'[i] => (Trying(i, g) => Trying(i, g)')
           /\ life'[i] = "stopping" => (Trying(i, g) => ~About(i, g)')
  PROVE  Paid'
<1>1. PaidTypes(i)
  BY PaidTypesHold
<1>. SUFFICES ASSUME NEW g \in Groups
              PROVE  (/\ attempts[g] <= GroupHaltLimit + Breaks
                      /\ ~Finished(g) =>
                           /\ attempts[g] <= Room(g) + Breaks + 1
                           /\ attempts[g] > Room(g) + Breaks
                                => life[i] = "up" /\ attached[i] /\ Trying(i, g)
                           /\ attempts[g] >= Room(g) + Breaks =>
                                /\ life[i] = "up" /\ ~attached[i] => Trying(i, g)
                                /\ life[i] = "stopping" => ~About(i, g))'
  BY <1>1 DEF Paid, PaidTypes
<1>2. Room(g)' = Room(g) /\ Room(g) \in Nat /\ attempts[g] \in Nat
  BY <1>1 DEF Room, PaidTypes
<1>3. Breaks \in Nat /\ GroupHaltLimit \in Nat
  BY <1>1 DEF PaidTypes
<1>4. CASE Breaks' = Breaks
  BY <1>2, <1>3, <1>4 DEF Paid
<1>5. CASE Breaks' > Breaks
  BY <1>2, <1>3, <1>5 DEF Paid
<1>. QED BY <1>3, <1>4, <1>5

LEMMA PaidByApply ==
  ASSUME OneProcess, IInv, Recorded, Paid, NEW i \in Instances, Apply(i)
  PROVE  Paid'
<1>1. PaidTypes(i)
  BY PaidTypesHold
<1>2. /\ life' = life /\ attached' = attached /\ ledger' = ledger /\ halts' = halts
      /\ Breaks' = Breaks /\ run[i].step = "apply" /\ run[i].pos \in Groups /\ run[i] \in Run
      /\ life[i] \in {"up", "stopping"}
  BY <1>1, NoFaultNoBreak DEF Apply, HandlerFrame, ledgerVars, PaidTypes, AtGroup, Recorded
<1>3. CASE ShuttingDown(i) /\ Requeue(i) /\ UNCHANGED attempts
  <2>1. run'[i].step = "idle"
    BY <1>1, <1>3 DEF Requeue, Return, Idle, PaidTypes
  <2>2. \A g \in Groups : ~Trying(i, g) /\ ~Trying(i, g)' /\ ~About(i, g)'
    BY <1>2, <2>1 DEF Trying, About
  <2>3. Breaks' \in Nat /\ Breaks' >= Breaks
    BY <1>1, <1>2 DEF PaidTypes
  <2>4. \A g \in Groups : Finished(g) => Finished(g)'
    BY <1>2 DEF Finished
  <2>. QED BY <1>2, <1>3, <2>2, <2>3, <2>4, PaidIfBooksStay DEF ShuttingDown
<1>4. CASE /\ attempts' = [attempts EXCEPT ![run[i].pos] = Capped(@, AttemptCap)]
           /\ \/ \E result \in {"ok", "refused"} : Goto(i, "mark", result)
              \/ Goto(i, "unavailable", "pending")
  <2>1. run'[i].step \in {"mark", "unavailable"} /\ run'[i].pos = run[i].pos
    BY <1>1, <1>2, <1>4 DEF Goto, PaidTypes, Run
  <2>. SUFFICES ASSUME NEW g \in Groups
                PROVE  (/\ attempts[g] <= GroupHaltLimit + Breaks
                        /\ ~Finished(g) =>
                             /\ attempts[g] <= Room(g) + Breaks + 1
                             /\ attempts[g] > Room(g) + Breaks
                                  => life[i] = "up" /\ attached[i] /\ Trying(i, g)
                             /\ attempts[g] >= Room(g) + Breaks =>
                                  /\ life[i] = "up" /\ ~attached[i] => Trying(i, g)
                                  /\ life[i] = "stopping" => ~About(i, g))'
    BY <1>1, <1>2 DEF Paid, PaidTypes
  <2>2. /\ Room(g)' = Room(g) /\ Room(g) \in Nat /\ Room(g) < GroupHaltLimit
        /\ attempts[g] \in Nat /\ attempts'[g] \in Nat
        /\ Breaks \in Nat /\ GroupHaltLimit \in Nat /\ Finished(g)' = Finished(g)
    BY <1>1, <1>2, <1>4 DEF Room, PaidTypes, Finished, Capped
  <2>3. CASE g # run[i].pos
    <3>1. attempts'[g] = attempts[g] /\ ~Trying(i, g) /\ ~About(i, g)'
      BY <1>1, <1>2, <1>4, <2>1, <2>3 DEF Trying, About, PaidTypes
    <3>. QED BY <1>2, <2>2, <3>1 DEF Paid
  <2>4. CASE g = run[i].pos
    <3>1. attempts'[g] <= attempts[g] + 1
      BY <1>1, <1>4, <2>2, <2>4 DEF Capped, PaidTypes
    <3>2. Trying(i, g)' /\ ~About(i, g)' /\ About(i, g) /\ ~Trying(i, g) /\ ~Finished(g)
      BY <1>2, <2>1, <2>4 DEF Trying, About, Recorded
    <3>3. /\ attempts[g] <= Room(g) + Breaks
          /\ life[i] = "stopping" \/ ~attached[i] => attempts[g] < Room(g) + Breaks
      BY <1>2, <2>2, <3>2 DEF Paid
    <3>. QED BY <1>1, <1>2, <2>2, <3>1, <3>2, <3>3 DEF PaidTypes
  <2>. QED BY <2>3, <2>4
<1>. QED BY <1>3, <1>4 DEF Apply

LEMMA PaidByUnavailable ==
  ASSUME OneProcess, IInv, Recorded, Paid, NEW i \in Instances, Unavailable(i)
  PROVE  Paid'
<1>1. PaidTypes(i)
  BY PaidTypesHold
<1>2. /\ life' = life /\ attached' = attached /\ ledger' = ledger /\ attempts' = attempts
      /\ run[i].step = "unavailable" /\ run[i].pos \in Groups /\ run[i] \in Run
      /\ life[i] \in {"up", "stopping"}
  BY <1>1 DEF Unavailable, HandlerFrame, PaidTypes, AtGroup, Recorded
<1>3. \A g \in Groups : Finished(g) => Finished(g)'
  BY <1>2 DEF Finished
<1>4. CASE ShuttingDown(i) /\ Requeue(i) /\ NoFault /\ UNCHANGED halts
  <2>1. run'[i].step = "idle" /\ Breaks' = Breaks
    BY <1>1, <1>4, NoFaultNoBreak DEF Requeue, Return, Idle, PaidTypes
  <2>2. \A g \in Groups : ~About(i, g)'
    BY <2>1 DEF About
  <2>. QED BY <1>1, <1>2, <1>3, <1>4, <2>1, <2>2, PaidIfBooksStay DEF ShuttingDown, PaidTypes
<1>5. CASE ~ShuttingDown(i) /\ Fault("halt") /\ DeadLetter(i) /\ UNCHANGED halts
  <2>1. Breaks' = Breaks + 1
    BY <1>1, <1>5, BreaksPay DEF Faults, PaidTypes
  <2>2. \A g \in Groups : Breaks' # Breaks /\ Breaks' \in Nat /\ Breaks' >= Breaks
    BY <1>1, <2>1 DEF PaidTypes
  <2>. QED BY <1>1, <1>2, <1>3, <1>5, <2>1, <2>2, PaidIfBooksStay DEF ShuttingDown, PaidTypes
<1>6. CASE /\ ~ShuttingDown(i) /\ NoFault
           /\ halts' = [halts EXCEPT ![run[i].pos] = Capped(@, GroupHaltLimit)]
           /\ IF GivenUp(halts'[run[i].pos]) THEN Goto(i, "mark", "halted") ELSE DeadLetter(i)
  <2>. SUFFICES ASSUME NEW g \in Groups
                PROVE  (/\ attempts[g] <= GroupHaltLimit + Breaks
                        /\ ~Finished(g) =>
                             /\ attempts[g] <= Room(g) + Breaks + 1
                             /\ attempts[g] > Room(g) + Breaks
                                  => life[i] = "up" /\ attached[i] /\ Trying(i, g)
                             /\ attempts[g] >= Room(g) + Breaks =>
                                  /\ life[i] = "up" /\ ~attached[i] => Trying(i, g)
                                  /\ life[i] = "stopping" => ~About(i, g))'
    BY <1>1, <1>2 DEF Paid, PaidTypes
  <2>1. Breaks' = Breaks /\ life[i] = "up" /\ Finished(g)' = Finished(g)
    BY <1>2, <1>6, NoFaultNoBreak DEF ShuttingDown, Finished
  <2>2. /\ attempts[g] \in Nat /\ halts[g] \in 0..GroupHaltLimit
        /\ Breaks \in Nat /\ GroupHaltLimit \in Nat \ {0}
    BY <1>1 DEF PaidTypes
  <2>3. CASE g # run[i].pos
    <3>1. halts'[g] = halts[g] /\ ~Trying(i, g)
      BY <1>1, <1>2, <1>6, <2>3 DEF Trying, PaidTypes
    <3>2. Room(g)' = Room(g) /\ Room(g) \in Nat
      BY <2>2, <3>1 DEF Room
    <3>. QED BY <1>2, <2>1, <2>2, <3>1, <3>2 DEF Paid
  <2>4. CASE g = run[i].pos
    <3>1. halts'[g] = IF halts[g] < GroupHaltLimit THEN halts[g] + 1 ELSE halts[g]
      BY <1>1, <1>6, <2>4 DEF Capped, PaidTypes
    <3>2. CASE halts'[g] >= GroupHaltLimit
      <4>1. Trying(i, g)'
        BY <1>1, <1>2, <1>6, <2>4, <3>2 DEF GivenUp, Goto, Trying, PaidTypes, Run
      <4>2. Room(g)' >= Room(g) /\ Room(g)' \in Nat /\ Room(g) \in Nat
        BY <2>2, <3>1 DEF Room
      <4>. QED BY <1>2, <2>1, <2>2, <4>1, <4>2 DEF Paid
    <3>3. CASE halts'[g] < GroupHaltLimit
      <4>1. Room(g)' = Room(g) + 1 /\ Room(g) \in Nat
        BY <2>2, <3>1, <3>3 DEF Room
      <4>. QED BY <1>2, <2>1, <2>2, <4>1 DEF Paid
    <3>. QED BY <2>2, <3>1, <3>2, <3>3
  <2>. QED BY <2>3, <2>4
<1>. QED BY <1>4, <1>5, <1>6 DEF Unavailable

LEMMA PaidByHandler ==
  ASSUME OneProcess, LedgerWrites, IInv, Recorded, Paid, NEW i \in Instances, Handler(i)
  PROVE  Paid'
<1>1. PaidTypes(i)
  BY PaidTypesHold
<1>2. /\ life' = life /\ attached' = attached /\ run[i] \in Run /\ spent \in [Faults -> Nat]
      /\ Breaks \in Nat
  BY <1>1 DEF Handler, Prepare, Begin, Apply, Unavailable, Mark, PublishResult, HandlerFrame, PaidTypes
<1>3. CASE Prepare(i)
  <2>1. /\ attempts' = attempts /\ halts' = halts /\ ledger' = ledger /\ Breaks' = Breaks
        /\ run[i].step = "prepare" /\ run'[i].step = "begin"
    BY <1>1, <1>3, NoFaultNoBreak DEF Prepare, ledgerVars, PaidTypes
  <2>2. \A g \in Groups : ~Trying(i, g) /\ ~About(i, g)' /\ (Finished(g) => Finished(g)')
    BY <2>1 DEF Trying, About, Finished
  <2>. QED BY <1>2, <2>1, <2>2, PaidIfBooksStay
<1>4. CASE Begin(i)
  <2>1. /\ attempts' = attempts /\ halts' = halts /\ ledger' = ledger /\ run[i].step = "begin"
    BY <1>4 DEF Begin, ledgerVars
  <2>2. Breaks' = Breaks
    <3>1. NoFault \/ Fault("begin")
      BY <1>4 DEF Begin
    <3>2. Fault("begin") => Breaks' = Breaks + 0
      BY <1>2, BreaksPay DEF Faults
    <3>. QED BY <1>2, <3>1, <3>2, NoFaultNoBreak
  <2>3. \A g \in Groups : ~Trying(i, g) /\ (Finished(g) => Finished(g)')
    BY <2>1 DEF Trying, Finished
  <2>4. life[i] = "stopping" => run'[i].step # "apply"
    BY <1>1, <1>4 DEF Begin, MayGoOn, ShuttingDown, Ack, Requeue, Return, Idle, PaidTypes
  <2>. QED BY <1>2, <2>1, <2>2, <2>3, <2>4, PaidIfBooksStay DEF About
<1>5. CASE Apply(i)
  BY <1>5, PaidByApply
<1>6. CASE Unavailable(i)
  BY <1>6, PaidByUnavailable
<1>7. CASE Mark(i)
  <2>1. /\ NoFault /\ ledger' = [ledger EXCEPT ![run[i].pos] = run[i].result]
        /\ attempts' = attempts /\ halts' = halts /\ run'[i].step = "publish"
    <3>1. ~Fault("mark")
      BY DEF Fault, LedgerWrites, IInv, TypeInv, TypeOK, Faults
    <3>. QED BY <1>1, <1>2, <1>7, <3>1 DEF Mark, Record, Goto, PaidTypes, Run
  <2>2. run[i].pos \in Groups /\ run[i].result # "pending"
    BY <1>1, <1>7 DEF Mark, PaidTypes, AtGroup, Results, Failures
  <2>3. \A g \in Groups : (Finished(g) => Finished(g)') /\ (~Finished(g)' => ~Trying(i, g)) /\ ~About(i, g)'
    BY <1>1, <2>1, <2>2 DEF Finished, Trying, About, PaidTypes
  <2>. QED BY <1>2, <2>1, <2>3, NoFaultNoBreak, PaidIfBooksStay
<1>8. CASE PublishResult(i)
  <2>1. /\ attempts' = attempts /\ halts' = halts /\ ledger' = ledger
        /\ run[i].step = "publish" /\ run'[i].step \in {"begin", "idle"}
    BY <1>1, <1>2, <1>8 DEF PublishResult, DeadLetter, Return, Idle, ledgerVars, PaidTypes, Run
  <2>2. Breaks' = Breaks
    <3>1. NoFault \/ Fault("publish")
      BY <1>8 DEF PublishResult
    <3>2. Fault("publish") => Breaks' = Breaks + 0
      BY <1>2, BreaksPay DEF Faults
    <3>. QED BY <1>2, <3>1, <3>2, NoFaultNoBreak
  <2>3. \A g \in Groups : ~Trying(i, g) /\ ~About(i, g)' /\ (Finished(g) => Finished(g)')
    BY <2>1 DEF Trying, About, Finished
  <2>. QED BY <1>2, <2>1, <2>2, <2>3, PaidIfBooksStay
<1>. QED BY <1>3, <1>4, <1>5, <1>6, <1>7, <1>8 DEF Handler

LEMMA PaidAround ==
  ASSUME OneProcess, IInv, Recorded, Paid, NEW i \in Instances,
         \/ Deliver(i) \/ BeginStop(i) \/ LoseConnection(i) \/ FinishStop(i) \/ Crash(i) \/ Restart(i)
  PROVE  Paid'
<1>1. PaidTypes(i) /\ Breaks \in Nat /\ spent \in [Faults -> Nat]
  BY PaidTypesHold DEF PaidTypes
<1>2. attempts' = attempts /\ halts' = halts /\ ledger' = ledger
  BY DEF Deliver, BeginStop, LoseConnection, FinishStop, Crash, Restart, GoDown, HandlerIdleFrame,
         ledgerVars
<1>3. \A g \in Groups : Finished(g) => Finished(g)'
  BY <1>2 DEF Finished
<1>4. /\ Fault("stop") => Breaks' = Breaks + 1
      /\ Fault("connection") => Breaks' = Breaks + 1
      /\ NoFault => Breaks' = Breaks
  BY <1>1, BreaksPay, NoFaultNoBreak DEF Faults
<1>5. CASE Deliver(i)
  <2>1. /\ life' = life /\ attached' = attached /\ Breaks' = Breaks
        /\ run[i].step = "idle" /\ run'[i].step \in {"idle", "prepare"}
    <3>1. life' = life /\ attached' = attached /\ Breaks' = Breaks /\ run[i].step = "idle"
      BY <1>4, <1>5 DEF Deliver, HandlerFrame, Busy
    <3>2. run \in [Instances -> Run]
      BY <1>1 DEF PaidTypes
    <3>3. run' = run \/ run' = [run EXCEPT ![i] = [Idle EXCEPT !.step = "prepare", !.held = TRUE]]
      BY <1>5 DEF Deliver
    <3>. QED BY <3>1, <3>2, <3>3 DEF Idle
  <2>2. \A g \in Groups : ~Trying(i, g) /\ ~About(i, g)'
    BY <2>1 DEF Trying, About
  <2>. QED BY <1>1, <1>2, <1>3, <2>1, <2>2, PaidIfBooksStay
<1>6. CASE BeginStop(i)
  <2>1. /\ life[i] = "up" /\ life'[i] = "stopping" /\ attached' = attached /\ run' = run
        /\ attached[i] => Breaks' = Breaks + 1
        /\ ~attached[i] => Breaks' = Breaks
    BY <1>1, <1>4, <1>6 DEF BeginStop, PaidTypes
  <2>2. \A g \in Groups : Trying(i, g)' = Trying(i, g) /\ About(i, g)' = About(i, g)
                          /\ ~(Trying(i, g) /\ About(i, g))
    BY <2>1 DEF Trying, About
  <2>3. Breaks' \in Nat /\ Breaks' >= Breaks /\ (Breaks' = Breaks => ~attached[i])
        /\ attached[i] \in BOOLEAN
    BY <1>1, <2>1 DEF PaidTypes
  <2>. QED BY <1>1, <1>2, <1>3, <2>1, <2>2, <2>3, PaidIfBooksStay
<1>7. CASE LoseConnection(i)
  <2>1. /\ life' = life /\ run'[i].step = run[i].step /\ run'[i].pos = run[i].pos
        /\ Breaks' = Breaks + 1
    BY <1>1, <1>4, <1>7 DEF LoseConnection, PaidTypes, Run
  <2>2. \A g \in Groups : Trying(i, g)' = Trying(i, g) /\ About(i, g)' = About(i, g)
                          /\ ~(Trying(i, g) /\ About(i, g))
    BY <2>1 DEF Trying, About
  <2>3. Breaks' \in Nat /\ Breaks' >= Breaks /\ Breaks' # Breaks
    BY <1>1, <2>1
  <2>. QED BY <1>1, <1>2, <1>3, <2>2, <2>3, PaidIfBooksStay
<1>8. CASE FinishStop(i) \/ Crash(i)
  <2>1. /\ life'[i] = "down" /\ (life[i] # "up" \/ Breaks' = Breaks + 1)
        /\ Breaks' = Breaks \/ Breaks' = Breaks + 1
    BY <1>1, <1>4, <1>8 DEF FinishStop, Crash, GoDown, PaidTypes
  <2>2. Breaks' \in Nat /\ Breaks' >= Breaks /\ (Breaks' = Breaks => life[i] # "up")
    BY <1>1, <2>1
  <2>. QED BY <1>1, <1>2, <1>3, <2>1, <2>2, PaidIfBooksStay
<1>9. CASE Restart(i)
  <2>1. life[i] = "down" /\ life'[i] = "up" /\ attached'[i] /\ Breaks' = Breaks
    BY <1>1, <1>4, <1>9 DEF Restart, PaidTypes
  <2>. QED BY <1>1, <1>2, <1>3, <2>1, PaidIfBooksStay
<1>. QED BY <1>5, <1>6, <1>7, <1>8, <1>9

\* WhatsApp is asked for a group at most GroupHaltLimit times and once more for
\* every stop, crash, lost connection or lost halt (haltOrGiveUp), as long as one
\* process handles the command and writes its rows.
THEOREM TriesBounded ==
  ASSUME OneProcess, LedgerWrites
  PROVE  Spec => []AttemptsBounded
<1>1. Init => Paid
  BY PaidAtFirst
<1>2. IInv /\ Recorded /\ Paid /\ [Next]_vars => Paid'
  <2>. SUFFICES ASSUME IInv, Recorded, Paid, [Next]_vars PROVE Paid'
    OBVIOUS
  <2>1. CASE \E i \in Instances : Handler(i)
    BY <2>1, PaidByHandler
  <2>2. CASE \E i \in Instances : \/ Deliver(i) \/ BeginStop(i) \/ LoseConnection(i)
                                  \/ FinishStop(i) \/ Crash(i) \/ Restart(i)
    BY <2>2, PaidAround
  <2>3. CASE Reinject \/ Done \/ UNCHANGED vars
    <3>1. UNCHANGED <<attempts, ledger, halts, spent, life, attached, run>>
      BY <2>3 DEF Reinject, Done, NoFault, HandlerIdleFrame, vars, ledgerVars
    <3>. QED BY <3>1 DEF Paid, Finished, Room, Breaks, Trying, About
  <2>. QED BY <2>1, <2>2, <2>3 DEF Next
<1>3. IInv /\ Paid => AttemptsBounded
  <2>1. IInv => /\ spent \in [Faults -> Nat] /\ attempts \in [Groups -> 0..AttemptCap]
                /\ GroupHaltLimit \in Nat /\ AttemptCap \in Nat
    BY ConstantsAssumption, AttemptCapOK DEF IInv, TypeInv, TypeOK
  <2>. QED BY <2>1 DEF OneProcess, Paid, AttemptsBounded, Breaks, Faults
<1>. QED BY <1>1, <1>2, <1>3, RecordedInductive, PTL DEF Spec
-----------------------------------------------------------------------------
(* The run: each handler behaves as its own specification says.             *)

\* What is proved of SendCommand, for the same constants and variables as Send.
SendProofs == INSTANCE SendCommandProofs
  WITH Copies <- SendCopies, Limits <- SendLimits,
       ready <- sendReady, dead <- sendDead, attached <- sendAttached, run <- sendRun,
       ledger <- sendLedger, spent <- sendSpent, acked <- sendAcked, published <- statuses

\* Whichever handler the run is about, each behaves as its own specification says.
THEOREM EachItsOwn == CommandsSpec => Spec /\ Send!Spec
<1>1. CommandsInit => Init /\ Send!Init
  BY DEF CommandsInit
<1>2. [CommandsNext]_commandVars => [Next]_vars /\ [Send!Next]_(Send!vars)
  <2>1. UNCHANGED sendVars => UNCHANGED Send!vars
    BY DEF sendVars, Send!vars, Send!brokerVars, Send!processVars, Send!channelVars,
           Send!histVars
  <2>. QED BY <2>1 DEF CommandsNext, commandVars
<1>. QED BY <1>1, <1>2, PTL DEF CommandsSpec, Spec, Send!Spec

\* The two instances of SendCommand are one.
LEMMA SameSend ==
  /\ Send!Spec => SendProofs!Spec
  /\ SendProofs!NoResend => NoResend
  /\ SendProofs!HonestFailure => HonestFailure
<1>1. Send!Next <=> SendProofs!Next
  BY DEF Send!Next, SendProofs!Next, Send!Handler, SendProofs!Handler, Send!Deliver,
         SendProofs!Deliver, Send!Begin, SendProofs!Begin, Send!Connect, SendProofs!Connect,
         Send!Lookup, SendProofs!Lookup, Send!Resume, SendProofs!Resume, Send!Reconnect,
         SendProofs!Reconnect, Send!Client, SendProofs!Client, Send!Build, SendProofs!Build,
         Send!Send, SendProofs!Send, Send!Mark, SendProofs!Mark, Send!PublishStatus,
         SendProofs!PublishStatus, Send!LoggedOut, SendProofs!LoggedOut, Send!DropSession,
         SendProofs!DropSession, Send!ForgetChannel, SendProofs!ForgetChannel,
         Send!BeginStop, SendProofs!BeginStop, Send!DeadlinePasses,
         SendProofs!DeadlinePasses, Send!LoseConnection, SendProofs!LoseConnection,
         Send!Leave, SendProofs!Leave, Send!Crash, SendProofs!Crash, Send!Restart,
         SendProofs!Restart, Send!Reinject, SendProofs!Reinject, Send!Done, SendProofs!Done,
         Send!GoDown, SendProofs!GoDown, Send!ChannelFrame, SendProofs!ChannelFrame,
         Send!ProcessFrame, SendProofs!ProcessFrame, Send!HandlerFrame,
         SendProofs!HandlerFrame, Send!Goto, SendProofs!Goto, Send!Fail, SendProofs!Fail,
         Send!Tell, SendProofs!Tell, Send!Ack, SendProofs!Ack, Send!DeadLetter,
         SendProofs!DeadLetter, Send!Connected, SendProofs!Connected, Send!AlreadySent,
         SendProofs!AlreadySent, Send!Holds, SendProofs!Holds, Send!Idle, SendProofs!Idle,
         Send!Busy, SendProofs!Busy, Send!Fault, SendProofs!Fault, Send!NoFault,
         SendProofs!NoFault, Send!Faults, SendProofs!Faults, Send!vars, SendProofs!vars,
         Send!brokerVars, SendProofs!brokerVars, Send!processVars, SendProofs!processVars,
         Send!channelVars, SendProofs!channelVars, Send!histVars, SendProofs!histVars
<1>2. Send!Init <=> SendProofs!Init
  BY DEF Send!Init, SendProofs!Init, Send!Idle, SendProofs!Idle, Send!Faults, SendProofs!Faults
<1>3. UNCHANGED Send!vars <=> UNCHANGED SendProofs!vars
  BY DEF Send!vars, SendProofs!vars, Send!brokerVars, SendProofs!brokerVars,
         Send!processVars, SendProofs!processVars, Send!channelVars, SendProofs!channelVars,
         Send!histVars, SendProofs!histVars
<1>4. [Send!Next]_(Send!vars) => [SendProofs!Next]_(SendProofs!vars)
  BY <1>1, <1>3
<1>5. Send!Spec => SendProofs!Spec
  BY <1>2, <1>4, PTL DEF Send!Spec, SendProofs!Spec
<1>6. SendProofs!NoResend => NoResend
  <2>1. [sendLedger = "sent" => delivered' = delivered]_(SendProofs!vars)
        => [sendLedger = "sent" => delivered' = delivered]_(Send!vars)
    BY <1>3
  <2>. QED BY <2>1, PTL DEF NoResend, Send!NoResend, SendProofs!NoResend
<1>7. SendProofs!HonestFailure => HonestFailure
  <2>. DEFINE Honest(codes) == (statuses' \cap codes) \ statuses # {} /\ delivered > 0 =>
         sendSpent["answer"] + sendSpent["store"] + sendSpent["stop"] + sendSpent["connection"] > 0
  <2>1. Send!Codes = SendProofs!Codes
    BY DEF Send!Codes, SendProofs!Codes
  <2>2. [Honest(SendProofs!Codes)]_(SendProofs!vars) => [Honest(Send!Codes)]_(Send!vars)
    BY <1>3, <2>1
  <2>. QED BY <2>2, PTL DEF HonestFailure, Send!HonestFailure, SendProofs!HonestFailure
<1>. QED BY <1>5, <1>6, <1>7

LEMMA SendConstantsHold == SendProofs!SendConstants
BY CommandsAssumption DEF Send!SendConstants, SendProofs!SendConstants, Send!Faults,
   SendProofs!Faults

\* A message the ledger has as sent is never handed to WhatsApp again, whatever is
\* redelivered, restarted or reinjected (SendHandler with dedupe.Begin), for any
\* copies and faults.
THEOREM SentIsFinal == CommandsSpec => NoResend
<1>1. SendProofs!Spec => SendProofs!NoResend
  BY SendConstantsHold, SendProofs!SentIsFinal
<1>. QED BY <1>1, EachItsOwn, SameSend, PTL

\* "failed" is said of a message that WhatsApp took only after a lost answer, a
\* failed store, a stop or a lost connection (publishSendFailure), for any copies
\* and faults.
THEOREM FailuresAreHonest == CommandsSpec => HonestFailure
<1>1. SendProofs!Spec => SendProofs!HonestFailure
  BY SendConstantsHold, SendProofs!FailuresAreHonest
<1>. QED BY <1>1, EachItsOwn, SameSend, PTL

\* What the run checks, together: no command is acked unanswered, a stop is no
\* failure, tries are bounded, nothing answered is applied or sent again, and no
\* message is denied without cause.
THEOREM AllHold ==
  ASSUME OneProcess, LedgerWrites
  PROVE  CommandsSpec => /\ [](AnsweredBeforeAck /\ ShutdownIsNotAFailure /\ AttemptsBounded)
                         /\ NoReapply /\ NoResend /\ HonestFailure
<1>1. Spec => NoReapply /\ []AttemptsBounded
  BY NeverReapplied, TriesBounded
<1>. QED BY <1>1, EachItsOwn, AckMeansAnswered, StopIsNeverReported, SentIsFinal,
            FailuresAreHonest, PTL
=============================================================================
