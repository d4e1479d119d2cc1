--------------------------- MODULE HistoryTranslate ---------------------------
(***************************************************************************)
(* How the messages of one history chunk become the batches that           *)
(* HistoryImport publishes: Translate (internal/history/translate.go)      *)
(* picks the messages and builds their events in concurrent workers, Split *)
(* (batches.go) packs them under a limit of messages and one of bytes.     *)
(*                                                                         *)
(* A message is its place <<chat, position>>, and has a size.              *)
(***************************************************************************)
EXTENDS Naturals, Sequences, FiniteSets

CONSTANTS
  Chunks,            \* sequences of chats, each [kind, messages]
  MediaConcurrency,
  MaxMessages,       \* BatchMaxMessages
  MaxBytes,          \* BatchMaxBytes
  Envelope,          \* batchEnvelopeBytes
  Header             \* chatHeaderBytes

Kinds == {"private", "other", "phoneless"}
Fates == {"fine", "skipped", "old"}
Syncs == Seq([kind : Kinds, messages : Seq([fate : Fates, size : Nat])])

\* Limits.validate.
TranslateConstants ==
  /\ Chunks \subseteq Syncs
  /\ MediaConcurrency \in Nat \ {0} /\ MaxMessages \in Nat \ {0} /\ MaxBytes \in Nat \ {0}
  /\ Envelope \in Nat /\ Header \in Nat

VARIABLES
  chunk,    \* the history sync
  built,    \* of each candidate: waiting, building, built or refused
  packing   \* Split: the messages still to do, and what the others are packed into

vars == <<chunk, built, packing>>

-----------------------------------------------------------------------------
(* What Translate picks.                                                    *)

Messages == UNION {{<<c, p>> : p \in DOMAIN chunk[c].messages} : c \in DOMAIN chunk}
Message(m) == chunk[m[1]].messages[m[2]]

\* A chat that is no private one, or whose phone is unknown, is left out; so is a
\* message that does not parse, is an edit, or is older than the window.
Picked(m) == chunk[m[1]].kind = "private" /\ Message(m).fate = "fine"

\* The order in which the loops come to two places, or to two positions in the batches.
Before(x, y) == x[1] < y[1] \/ (x[1] = y[1] /\ x[2] < y[2])
First(S) == CHOOSE m \in S : \A n \in S \ {m} : Before(m, n)

With(fate) == {m \in Messages : built[m] = fate}

OutOfWindow == {m \in Messages : chunk[m[1]].kind = "private" /\ Message(m).fate = "old"}
WithoutPhone == {m \in Messages : chunk[m[1]].kind = "phoneless"}
Skipped ==
  {m \in Messages : \/ chunk[m[1]].kind = "other"
                    \/ chunk[m[1]].kind = "private" /\ Message(m).fate = "skipped"} \cup With("refused")

-----------------------------------------------------------------------------
(* buildAll.                                                                *)

\* The candidates are handed out in order.
Begin ==
  /\ With("waiting") # {} /\ Cardinality(With("building")) < MediaConcurrency
  /\ built' = [built EXCEPT ![First(With("waiting"))] = "building"]
  /\ UNCHANGED <<chunk, packing>>

\* buildOne: the event, or an error or a change of another message.
Build ==
  \E m \in With("building"), fate \in {"built", "refused"} :
    built' = [built EXCEPT ![m] = fate] /\ UNCHANGED <<chunk, packing>>

AllBuilt == With("waiting") \cup With("building") = {}

\* Translate returns, its chats without those that have no message.
Translated ==
  /\ packing.step = "translate" /\ AllBuilt
  /\ packing' = [packing EXCEPT !.step = "split", !.todo = With("built")]
  /\ UNCHANGED <<chunk, built>>

-----------------------------------------------------------------------------
(* Split.                                                                   *)

Bytes(m) == Message(m).size + 1
Oversized(m) == Envelope + Header + Bytes(m) > MaxBytes

Open(m) == packing.current # <<>> /\ packing.current[Len(packing.current)][1] = m[1]

Cost(m) == Bytes(m) + (IF Open(m) THEN 0 ELSE Header)

Full(m) ==
  packing.current # <<>> /\ (Len(packing.current) = MaxMessages \/ packing.size + Cost(m) > MaxBytes)

\* Mutant: the message that does not fit is forgotten.
Forgotten(m) == <<>>
Overflowing(m) == <<m>>

Pack ==
  /\ packing.step = "split" /\ packing.todo # {}
  /\ LET m == First(packing.todo)
         rest == [packing EXCEPT !.todo = @ \ {m}] IN
     packing' =
       IF Oversized(m) THEN [rest EXCEPT !.oversized = Append(@, m)]
       ELSE IF Full(m)
       THEN [rest EXCEPT !.batches = Append(@, packing.current), !.current = Overflowing(m),
                         !.size = Envelope + Bytes(m) + Header]
       ELSE [rest EXCEPT !.current = Append(@, m), !.size = @ + Cost(m)]
  /\ UNCHANGED <<chunk, built>>

LastBatch ==
  /\ packing.step = "split" /\ packing.todo = {}
  /\ packing' = [packing EXCEPT !.step = "over",
                   !.batches = IF packing.current = <<>> THEN @ ELSE Append(@, packing.current)]
  /\ UNCHANGED <<chunk, built>>

Rest == packing.step = "over" /\ UNCHANGED vars

-----------------------------------------------------------------------------
Untouched ==
  /\ built = [m \in Messages |-> IF Picked(m) THEN "waiting" ELSE "left out"]
  /\ packing = [step |-> "translate", todo |-> {}, current |-> <<>>,
                size |-> Envelope, batches |-> <<>>, oversized |-> <<>>]

Init == chunk \in Chunks /\ Untouched

Next == Begin \/ Build \/ Translated \/ Pack \/ LastBatch \/ Rest

Spec == Init /\ [][Next]_vars

-----------------------------------------------------------------------------
(* Properties.                                                              *)

TranslateTypes ==
  /\ \A c \in DOMAIN chunk : chunk[c].kind \in Kinds
  /\ \A m \in Messages : Message(m).fate \in Fates
  /\ built \in [Messages -> {"left out", "waiting", "building", "built", "refused"}]
  /\ Cardinality(With("building")) <= MediaConcurrency
  /\ packing.step \in {"translate", "split", "over"}

Over == packing.step = "over"

Positions == UNION {{<<b, i>> : i \in DOMAIN packing.batches[b]} : b \in DOMAIN packing.batches}
Packed(x) == packing.batches[x[1]][x[2]]

\* The batches have every message that was built and is not too large, once, in the
\* order of the chunk, in whichever order the workers finished.
BatchesKeepOrder ==
  Over => /\ {Packed(x) : x \in Positions} = {m \in With("built") : ~Oversized(m)}
          /\ \A x, y \in Positions : Before(x, y) => Before(Packed(x), Packed(y))

\* The chats of a batch, and every byte of its messages.
ChatsOf(batch) == {batch[i][1] : i \in DOMAIN batch}
BytesOf(batch) == UNION {{i} \X (1..Bytes(batch[i])) : i \in DOMAIN batch}
SizeOf(batch) == Envelope + Header * Cardinality(ChatsOf(batch)) + Cardinality(BytesOf(batch))

\* No batch is empty, or over either limit when its bytes are counted anew.
BatchesWithinLimits ==
  \A b \in DOMAIN packing.batches :
    Len(packing.batches[b]) \in 1..MaxMessages /\ SizeOf(packing.batches[b]) <= MaxBytes

\* Every message of the chunk is accounted for once: published, too large, too
\* old, skipped, or of a chat that is reported for having no phone.
EveryMessageCounted ==
  Over => Cardinality(Messages) =
    Cardinality(Positions) + Len(packing.oversized) + Cardinality(OutOfWindow) + Cardinality(Skipped)
      + Cardinality(WithoutPhone)

\* The batches are the chunk: nothing is lost, doubled or put out of order, and no
\* batch is larger than what is published at once.
BatchesWhole == BatchesKeepOrder /\ BatchesWithinLimits /\ EveryMessageCounted
=============================================================================
