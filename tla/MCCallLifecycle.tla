-------------------------- MODULE MCCallLifecycle --------------------------
(* Budgets and channels for the runs of CallLifecycle.            *)
EXTENDS CallLifecycle

\* Both calls are of one channel.
OneChannel == [k \in Calls |-> CHOOSE c \in Channels : TRUE]

\* Two connections for the call that comes in.
Watchers == [o \in Operators |-> CHOOSE k \in Inbound : TRUE]

Faults == [b \in Budgets |-> IF b = "command" THEN 2 ELSE 1]
=============================================================================
