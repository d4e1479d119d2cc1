------------------------- MODULE MCPairingSession -------------------------
(* Kinds of request, fault budgets and symmetry for PairingSession.        *)
EXTENDS PairingSession, TLC

Budget(S) == [f \in Faults |-> IF f \in S THEN 1 ELSE 0]

ByQR      == [code |-> FALSE, history |-> FALSE, relink |-> FALSE]
ByCode    == [ByQR EXCEPT !.code = TRUE]
Importing == [ByQR EXCEPT !.history = TRUE]
Relinking == [Importing EXCEPT !.relink = TRUE]

TwoKinds   == {ByQR, ByCode}
OnlyQR     == {ByQR}
OnlyRelink == {Relinking}

Unpaired   == {"unpaired"}
WithDevice == {"paired", "stored"}

Ordinary      == Budget({"step", "stop"})
AllButPublish == Budget({"step", "logout", "command", "resume", "remove"})
Unsaid        == Budget({"publish", "stop"})

AnyRequest == Permutations(Requests)
=============================================================================
