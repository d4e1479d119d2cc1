----------------------------- MODULE MCCommands -----------------------------
(***************************************************************************)
(* The handlers of gateway.group and of gateway.send, which share no       *)
(* state, checked in one run: the initial state picks the queue, and only  *)
(* its module takes steps.  GroupCommand is extended; the variables of     *)
(* SendCommand are declared here.                                          *)
(***************************************************************************)
EXTENDS GroupCommand

\* Copies and Limits of SendCommand.
CONSTANTS SendCopies, SendLimits

VARIABLES
  subject,
  sendReady, sendDead, phase, sendAttached, sendRun, session, stored, unlinking,
  sendLedger, sendSpent, sendAcked, delivered, statuses

\* Budgets of faults: a group command meets one of each but a failed mark, which
\* NoReapply does not survive; a send command one of each.
GroupFaults == [f \in Faults |-> IF f = "mark" THEN 0 ELSE 1]
SendFaults ==
  [f \in {"store", "publish", "answer", "logout", "stop", "connection", "reinject"} |-> 1]

Send == INSTANCE SendCommand
  WITH Copies <- SendCopies, Limits <- SendLimits,
       ready <- sendReady, dead <- sendDead, attached <- sendAttached, run <- sendRun,
       ledger <- sendLedger, spent <- sendSpent, acked <- sendAcked, published <- statuses

ASSUME CommandsAssumption == Send!SendConstants

sendVars ==
  <<sendReady, sendDead, phase, sendAttached, sendRun, session, stored, unlinking,
    sendLedger, sendSpent, sendAcked, delivered, statuses>>
commandVars == <<subject, vars, sendVars>>

CommandsInit ==
  /\ subject \in {"group", "send"} /\ Init /\ Send!Init
  /\ subject = "group" => stored /\ session

CommandsNext ==
  \/ subject = "group" /\ Next /\ UNCHANGED <<subject, sendVars>>
  \/ subject = "send" /\ Send!Next /\ UNCHANGED <<subject, vars>>

CommandsSpec == CommandsInit /\ [][CommandsNext]_commandVars

-----------------------------------------------------------------------------
\* SendCommand.
NoResend == Send!NoResend
HonestFailure == Send!HonestFailure
=============================================================================
