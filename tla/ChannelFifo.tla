---------------------------- MODULE ChannelFifo ----------------------------
(***************************************************************************)
(* What the gateway promises of gateway.group commands                     *)
(* (docs/group-contract.md, "Paralelismo, ritmo e interrupção"): channels  *)
(* run in parallel, and the commands of one channel run one after the      *)
(* other, each once, in the order in which they arrived.                   *)
(***************************************************************************)
EXTENDS Naturals

CONSTANTS
  Channels,
  Live,        \* channels whose commands finish once started
  MaxCommands  \* bound: commands per channel

VARIABLES
  arrived,   \* commands of the channel published so far
  current,   \* the command running on the channel, or 0
  settled    \* the commands of the channel that have been run

vars == <<arrived, current, settled>>

Init ==
  /\ arrived = [c \in Channels |-> 0]
  /\ current = [c \in Channels |-> 0]
  /\ settled = [c \in Channels |-> {}]

Arrive(c) ==
  /\ arrived[c] < MaxCommands
  /\ arrived' = [arrived EXCEPT ![c] = @ + 1]
  /\ UNCHANGED <<current, settled>>

\* The next command is the one before which all the others have been run.
Start(c) == \E n \in 1..arrived[c] :
  /\ current[c] = 0 /\ settled[c] = 1..(n - 1)
  /\ current' = [current EXCEPT ![c] = n]
  /\ UNCHANGED <<arrived, settled>>

Finish(c) ==
  /\ current[c] # 0
  /\ settled' = [settled EXCEPT ![c] = @ \cup {current[c]}]
  /\ current' = [current EXCEPT ![c] = 0]
  /\ UNCHANGED arrived

Next == \E c \in Channels : Arrive(c) \/ Start(c) \/ Finish(c)

\* A channel with work keeps working, whatever the others do: its next command
\* starts, and on the channels of Live it finishes.
Spec ==
  /\ Init /\ [][Next]_vars
  /\ \A c \in Channels : WF_vars(Start(c))
  /\ \A c \in Live : WF_vars(Finish(c))
=============================================================================
