-------------------------- MODULE MCGroupOverflow --------------------------
(* Instances of GroupOverflow for TLC.                                     *)
EXTENDS GroupOverflow

CONSTANT Responsive   \* channels whose handlers return; the others hang

ASSUME ResponsiveAssumption == Responsive \subseteq Channels

\* Everything is scheduled fairly, but the handlers of some channels may
\* never return (a WhatsApp call that hangs, a pacer that waits).
HangingSpec == Spec /\ Fairness(Responsive)

\* The lanes and the overflow implement a FIFO executor per channel, which starts
\* the next command of each channel whatever the handlers of the others do, as
\* long as no confirm is lost, no spill stalls and the process is not restarted.
Fifo == INSTANCE ChannelFifo WITH
  Live <- Responsive,
  current <- [c \in Channels |-> IF running[c] = <<>> THEN 0 ELSE running[c][1].n]
FifoSpec == Fifo!Spec

\* A channel never holds up another one: however many commands of a hanging
\* channel are waiting, every command of a responsive channel is settled.
Isolation ==
  \A c \in Responsive : \A n \in 1..MaxCommands :
    (arrived[c] >= n) ~> (n \in settled[c])
=============================================================================
