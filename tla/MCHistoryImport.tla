-------------------------- MODULE MCHistoryImport --------------------------
(* Chunks and budgets for the runs of HistoryImport.                       *)
EXTENDS HistoryImport

\* A chunk in the middle of an import with a chat that is left out, and the
\* chunk that ends it.
Part == [importable |-> TRUE, batches |-> 1, final |-> FALSE, skips |-> Chats]
Last == [importable |-> TRUE, batches |-> 1, final |-> TRUE, skips |-> {}]
Names == [importable |-> FALSE, batches |-> 0, final |-> FALSE, skips |-> {}]

Kinds == {Part, Last, Names}

\* Chunks and pair commands, and nothing that fails.
Quiet == [e \in Events |-> IF e \in {"chunk", "row"} THEN 2 ELSE 0]

Faults == [e \in Events |-> IF e \in {"chunk", "row"} THEN 2 ELSE 1]
=============================================================================
