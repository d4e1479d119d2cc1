--------------------------- MODULE HistoryImport ---------------------------
(***************************************************************************)
(* The import of a channel's history: internal/history/importer.go (one    *)
(* queue and one goroutine per channel, Chunks of them at work at a time), *)
(* the row of internal/registry/history.go that says which import is live, *)
(* and what internal/gateway/history.go does to it from a pair command or  *)
(* a logout while chunks are being published.                              *)
(*                                                                         *)
(* What a chunk holds is its shape; module HistoryTranslate has how its    *)
(* messages become batches.  A chunk is known by its number of arrival, an *)
(* import by a number that grows.                                          *)
(***************************************************************************)
EXTENDS Naturals, Sequences, FiniteSets

CONSTANTS
  Channels,      \* channels of this instance
  Shapes,        \* kinds of chunks the phone sends
  Chats,         \* private chats without a phone number
  Chunks,        \* Limits.Chunks: chunks at work at a time
  StoreAttempts, \* storeAttempts: tries of a write to the registry
  Limits         \* bound: how many events of each kind

\* Chunks; a row begun, cleared or expired; a call (registry, broker, WhatsApp) that
\* fails or whose answer is lost; a stop or a crash.
Events == {"chunk", "row", "fault", "stop"}

Shape == [importable : BOOLEAN, batches : Nat, final : BOOLEAN, skips : SUBSET Chats]

ASSUME ConstantsAssumption ==
  /\ Chunks \in Nat \ {0} /\ StoreAttempts \in Nat \ {0}
  /\ Shapes \subseteq Shape /\ IsFiniteSet(Chats)
  /\ Limits \in [Events -> Nat] /\ Limits["row"] > 0

VARIABLES
  row,      \* gateway_history_imports, one row per channel
  queues,   \* Importer.queues, the chunks of each channel
  work,     \* the drain goroutine of each channel
  ending,   \* endEmptyImport at work or to come, one for a pair command, of each channel
  phase,    \* of the importer: up, closing, cancelled, down
  spent,    \* how many events happened
  log       \* history: what was published, and when imports began or were cleared

vars == <<row, queues, work, ending, phase, spent, log>>

-----------------------------------------------------------------------------
Imports == 1..Limits["row"]

\* A queued chunk: its number of arrival and its shape.
Chunk == [id : Nat, shape : Shapes]

NoRow == [import |-> 0, batches |-> 0, skipped |-> {}, finished |-> FALSE, expired |-> FALSE]
Row == [import : Imports \cup {0}, batches : Nat, skipped : SUBSET Chats,
        finished : BOOLEAN, expired : BOOLEAN]

\* liveHistoryImport.
Live(c) == row[c].import # 0 /\ ~row[c].expired

Steps == {"idle", "next", "slot", "download", "lookup", "skip", "check", "publish",
          "count", "finish", "release"}

\* A drain goroutine: its step, its chunk, what importChunk read of the row
\* (import, finished), the totals it carries, the message it is at (1.. are
\* batches, the one after the last is the end) and the tries of a write.
Work == [step : Steps, id : Nat, shape : Shapes, import : Imports \cup {0},
         finished : BOOLEAN, total : Nat, skipped : Nat, at : Nat, tries : Nat]

Idle  == [step |-> "idle"]
Ready == [step |-> "next"]

Draining(c) == work[c].step # "idle"
\* The goroutine has taken a place in Importer.chunks.
Working(c) == work[c].step \notin {"idle", "next", "slot"}

Happens(e) == spent[e] < Limits[e] /\ spent' = [spent EXCEPT ![e] = @ + 1]
Nothing    == UNCHANGED spent

Goto(c, step) == work' = [work EXCEPT ![c].step = step]

\* Importer.Import returns; the place in Importer.chunks is free again.
\* Mutant: a chunk that fails ends the goroutine.
ReturnsForGood(c) == work' = [work EXCEPT ![c] = Idle]
Return(c) == work' = [work EXCEPT ![c] = Ready]

IsBatch(c) == work[c].at <= work[c].shape.batches

\* A chunk that comes after the end publishes none of its own.
Ends(w) == w.shape.final /\ ~w.finished

\* The loop of publishChunk goes on to message n, to the end, or returns.
\* Mutant: the last batch is left out.
GoOnShort(w, n) ==
  LET more == n < w.shape.batches \/ (n = w.shape.batches + 1 /\ Ends(w))
  IN  [w EXCEPT !.at = n, !.tries = 0, !.step = IF more THEN "check" ELSE "release"]
GoOn(w, n) ==
  LET more == n <= w.shape.batches \/ (n = w.shape.batches + 1 /\ Ends(w))
  IN  [w EXCEPT !.at = n, !.tries = 0, !.step = IF more THEN "check" ELSE "release"]

-----------------------------------------------------------------------------
(* Accept and the drain of a channel.                                       *)

RowFrame    == UNCHANGED <<row, ending, phase>>
ChunkFrame  == RowFrame /\ UNCHANGED <<queues, log>>

\* A closing importer drops the chunk.
Accept(c, shape) ==
  /\ phase # "down" /\ Happens("chunk")
  /\ IF phase = "up"
     THEN /\ queues' = [queues EXCEPT ![c] = Append(@, [id |-> spent'["chunk"], shape |-> shape])]
          /\ work' = IF Draining(c) THEN work ELSE [work EXCEPT ![c] = Ready]
     ELSE UNCHANGED <<queues, work>>
  /\ RowFrame /\ UNCHANGED log

\* next: the goroutine takes the head of its queue, or takes the queue away.
TakeNext(c) ==
  /\ work[c].step = "next" /\ Nothing
  /\ IF queues[c] = <<>>
     THEN work' = [work EXCEPT ![c] = Idle] /\ UNCHANGED queues
     ELSE /\ queues' = [queues EXCEPT ![c] = Tail(@)]
          /\ work' = [work EXCEPT ![c] =
               [step |-> "slot", id |-> Head(queues[c]).id, shape |-> Head(queues[c]).shape,
                import |-> 0, finished |-> FALSE, total |-> 0, skipped |-> 0, at |-> 0, tries |-> 0]]
  /\ RowFrame /\ UNCHANGED log

\* Mutant: one place more.
PlaceTooMany == Cardinality({d \in Channels : Working(d)}) <= Chunks
PlaceFree == Cardinality({d \in Channels : Working(d)}) < Chunks

TakePlace(c) ==
  /\ phase # "cancelled" /\ work[c].step = "slot" /\ PlaceFree
  /\ Goto(c, "download") /\ Nothing /\ ChunkFrame

\* The context of the importer has ended: whatever it is doing returns an error.
Abort(c) ==
  /\ phase = "cancelled" /\ work[c].step \notin {"idle", "next"}
  /\ Return(c) /\ Nothing /\ ChunkFrame

-----------------------------------------------------------------------------
(* Import and importChunk.                                                  *)

At(c, step) == phase # "cancelled" /\ work[c].step = step

\* A chunk that cannot be downloaded is given up, and is not released.
Download(c) ==
  /\ At(c, "download")
  /\ \/ Nothing /\ Goto(c, IF work[c].shape.importable THEN "lookup" ELSE "release")
     \/ Happens("fault") /\ Return(c)
  /\ ChunkFrame

Skips(w) == w.shape.skips # {}

\* importChunk reads the row; without a live import the chunk is released.
Lookup(c) ==
  /\ At(c, "lookup")
  /\ \/ Nothing /\ ~Live(c) /\ Goto(c, "release")
     \/ /\ Nothing /\ Live(c)
        /\ LET w == [work[c] EXCEPT !.import = row[c].import, !.finished = row[c].finished,
                       !.total = row[c].batches, !.skipped = Cardinality(row[c].skipped)]
           IN  work' = [work EXCEPT ![c] = IF Skips(w) THEN [w EXCEPT !.step = "skip"] ELSE GoOn(w, 1)]
     \/ Happens("fault") /\ Return(c)
  /\ ChunkFrame

-----------------------------------------------------------------------------
(* persist: a write to the row, tried StoreAttempts times, after which      *)
(* publishChunk goes on without it.                                         *)

\* The WHERE of SkipHistoryChats and CountHistoryBatch, and of FinishHistoryImport.
Matches(c) == Live(c) /\ row[c].import = work[c].import
Unfinished(c) == row[c].import = work[c].import /\ ~row[c].finished

Written(c) ==
  CASE work[c].step = "skip"  -> [row[c] EXCEPT !.skipped = @ \cup work[c].shape.skips]
    [] work[c].step = "count" -> [row[c] EXCEPT !.batches = @ + 1]
    [] OTHER -> IF Unfinished(c) THEN [row[c] EXCEPT !.finished = TRUE] ELSE row[c]

\* Mutant: the end announces the count that was read before the chunk.
CountedBefore(w, r) == w
Counted(w, r) == [w EXCEPT !.total = r.batches]

\* How publishChunk goes on after the write, given what the row says (r).
Resumed(c, r) ==
  CASE work[c].step = "skip"  -> GoOn([work[c] EXCEPT !.skipped = Cardinality(r.skipped)], 1)
    [] work[c].step = "count" -> GoOn(Counted(work[c], r), work[c].at + 1)
    [] OTHER -> [work[c] EXCEPT !.step = "release"]

\* ... and when it gives up: a batch counts as one more, the chats are not told.
GivenUp(c) ==
  CASE work[c].step = "skip"  -> GoOn(work[c], 1)
    [] work[c].step = "count" -> GoOn([work[c] EXCEPT !.total = @ + 1], work[c].at + 1)
    [] OTHER -> [work[c] EXCEPT !.step = "release"]

Persisting(c) == At(c, "skip") \/ At(c, "count") \/ At(c, "finish")
Found(c) == work[c].step = "finish" \/ Matches(c)

Persist(c) ==
  /\ Persisting(c) /\ Nothing
  /\ IF Found(c)
     THEN row' = [row EXCEPT ![c] = Written(c)] /\ work' = [work EXCEPT ![c] = Resumed(c, Written(c))]
     ELSE Goto(c, "release") /\ UNCHANGED row   \* ErrNoHistoryImport
  /\ UNCHANGED <<queues, ending, phase, log>>

Retried(c) == [work[c] EXCEPT !.tries = @ + 1]

\* The write fails, or its answer is lost.
PersistFails(c) ==
  /\ Persisting(c) /\ Happens("fault")
  /\ row' = row \/ (Found(c) /\ row' = [row EXCEPT ![c] = Written(c)])
  /\ work' = [work EXCEPT ![c] = IF work[c].tries + 1 < StoreAttempts THEN Retried(c) ELSE GivenUp(c)]
  /\ UNCHANGED <<queues, ending, phase, log>>

-----------------------------------------------------------------------------
(* The retry loop: stillActive, then a publish.                             *)

\* Mutant: only the first try looks at the row.
StillActiveOnce(c) == work[c].tries > 0 \/ Matches(c)
StillActive(c) == Matches(c)

\* A lookup that fails is one more try and changes nothing.
Check(c) ==
  /\ At(c, "check") /\ Nothing
  /\ Goto(c, IF StillActive(c) THEN "publish" ELSE "release")
  /\ ChunkFrame

Message(c) ==
  IF IsBatch(c)
  THEN [kind |-> "batch", import |-> work[c].import, chunk |-> work[c].id, n |-> work[c].at,
        total |-> 0, skipped |-> 0]
  ELSE [kind |-> "done", import |-> work[c].import, chunk |-> work[c].id, n |-> work[c].at,
        total |-> work[c].total, skipped |-> work[c].skipped]

Says(c, m) == log' = [log EXCEPT ![c] = Append(@, m)]

Publish(c) ==
  /\ At(c, "publish") /\ Nothing /\ Says(c, Message(c))
  /\ work' = [work EXCEPT ![c].step = IF IsBatch(c) THEN "count" ELSE "finish", ![c].tries = 0]
  /\ RowFrame /\ UNCHANGED queues

\* The broker does not take the message, or its confirm is lost: retry.
\* Mutant: a message that was not confirmed is passed over.
PassesOver(c) == [work EXCEPT ![c].step = IF IsBatch(c) THEN "count" ELSE "finish", ![c].tries = 0]
Again(c) == [work EXCEPT ![c].step = "check", ![c].tries = 1]
PublishFails(c) ==
  /\ At(c, "publish") /\ Happens("fault")
  /\ UNCHANGED log \/ Says(c, Message(c))
  /\ work' = Again(c)
  /\ RowFrame /\ UNCHANGED queues

\* ReleaseHistory; a chunk that cannot be released stays at WhatsApp.
Release(c) ==
  /\ At(c, "release") /\ Return(c)
  /\ Nothing \/ Happens("fault")
  /\ ChunkFrame

-----------------------------------------------------------------------------
(* The gateway: pair commands, logout, time.                                *)

GatewayFrame == UNCHANGED <<queues, work, phase>>

Mark(kind, import) ==
  [kind |-> kind, import |-> import, chunk |-> 0, n |-> 0, total |-> 0, skipped |-> 0]

Ending == [step : {"publish", "finish"}, import : Imports]

\* recordHistoryChoice of a pair command with an import. A channel that stays
\* paired has nothing to import: endEmptyImport follows once it is connected,
\* while other pair commands go on.
Begin(c) ==
  /\ phase = "up" /\ Happens("row")
  /\ row' = [row EXCEPT ![c] = [NoRow EXCEPT !.import = spent'["row"]]]
  /\ Says(c, Mark("begin", spent'["row"]))
  /\ ending' \in {ending, [ending EXCEPT ![c] = @ \cup {[step |-> "publish", import |-> spent'["row"]]}]}
  /\ GatewayFrame

\* recordHistoryChoice without one, or the logout of the channel.
Clear(c) ==
  /\ phase = "up" /\ row[c] # NoRow /\ Happens("row")
  /\ row' = [row EXCEPT ![c] = NoRow] /\ Says(c, Mark("clear", 0))
  /\ UNCHANGED ending /\ GatewayFrame

\* Nobody looks whether the import is still the channel's.
PublishEmptyEnd(c) ==
  /\ \E e \in ending[c] :
       /\ e.step = "publish"
       /\ \/ /\ Nothing /\ Says(c, Mark("empty", e.import))
             /\ ending' = [ending EXCEPT ![c] = (@ \ {e}) \cup {[step |-> "finish", import |-> e.import]}]
          \/ /\ Happens("fault") /\ ending' = [ending EXCEPT ![c] = @ \ {e}]
             /\ UNCHANGED log \/ Says(c, Mark("empty", e.import))
  /\ UNCHANGED row /\ GatewayFrame

FinishEmptyImport(c) ==
  /\ \E e \in ending[c] :
       /\ e.step = "finish" /\ ending' = [ending EXCEPT ![c] = @ \ {e}]
       /\ \/ /\ Nothing
             /\ row' = IF row[c].import = e.import THEN [row EXCEPT ![c].finished = TRUE] ELSE row
          \/ Happens("fault") /\ UNCHANGED row
  /\ UNCHANGED log /\ GatewayFrame

\* HistoryQuietPeriod passes after the end.
Expire(c) ==
  /\ row[c].finished /\ ~row[c].expired /\ Happens("row")
  /\ row' = [row EXCEPT ![c].expired = TRUE]
  /\ UNCHANGED <<ending, log>> /\ GatewayFrame

-----------------------------------------------------------------------------
(* Stop and start.                                                          *)

StopFrame == UNCHANGED <<row, log>>

Close ==
  /\ phase = "up" /\ Happens("stop") /\ phase' = "closing"
  /\ StopFrame /\ UNCHANGED <<queues, work, ending>>

AllDrained == \A c \in Channels : ~Draining(c)

\* The timeout of Close.
Cancel ==
  /\ phase = "closing" /\ ~AllDrained /\ phase' = "cancelled" /\ Nothing
  /\ StopFrame /\ UNCHANGED <<queues, work, ending>>

Waited == AllDrained

GoDown ==
  /\ phase' = "down" /\ queues' = [c \in Channels |-> <<>>] /\ work' = [c \in Channels |-> Idle]
  /\ ending' = [c \in Channels |-> {}] /\ StopFrame

Closed == phase \in {"closing", "cancelled"} /\ Waited /\ Nothing /\ GoDown
Crash  == phase # "down" /\ Happens("stop") /\ GoDown

Restart ==
  /\ phase = "down" /\ phase' = "up" /\ Nothing /\ StopFrame /\ UNCHANGED <<queues, work, ending>>

Rest == phase = "up" /\ AllDrained /\ (\A c \in Channels : ending[c] = {}) /\ UNCHANGED vars

-----------------------------------------------------------------------------
\* Every channel has been paired with an import, whose chunks are to come.
Init ==
  /\ row = [c \in Channels |-> [NoRow EXCEPT !.import = 1]] /\ queues = [c \in Channels |-> <<>>]
  /\ work = [c \in Channels |-> Idle] /\ ending = [c \in Channels |-> {}]
  /\ phase = "up" /\ spent = [e \in Events |-> IF e = "row" THEN 1 ELSE 0]
  /\ log = [c \in Channels |-> <<Mark("begin", 1)>>]

Drain(c) ==
  \/ TakeNext(c) \/ TakePlace(c) \/ Abort(c) \/ Download(c) \/ Lookup(c) \/ Persist(c)
  \/ PersistFails(c) \/ Check(c) \/ Publish(c) \/ PublishFails(c) \/ Release(c)

Pairs(c) == Begin(c) \/ Clear(c) \/ PublishEmptyEnd(c) \/ FinishEmptyImport(c) \/ Expire(c)

Next ==
  \/ \E c \in Channels : Drain(c) \/ Pairs(c) \/ \E shape \in Shapes : Accept(c, shape)
  \/ Close \/ Cancel \/ Closed \/ Crash \/ Restart \/ Rest

Spec == Init /\ [][Next]_vars

\* Every goroutine runs, one waiting for a place too, the timer of
\* Close fires, and a process that stopped is started again.
Fairness ==
  /\ \A c \in Channels : WF_vars(Drain(c))
  /\ \A c \in Channels : WF_vars(PublishEmptyEnd(c) \/ FinishEmptyImport(c))
  /\ WF_vars(Cancel) /\ WF_vars(Closed) /\ WF_vars(Restart)

FairSpec == Spec /\ Fairness

-----------------------------------------------------------------------------
(* Properties.                                                              *)

\* The types; a goroutine for every queue that holds a chunk, none in a process
\* that is down; and no more than Chunks of them at work.
TypeOK ==
  /\ row \in [Channels -> Row] /\ queues \in [Channels -> Seq(Chunk)]
  /\ \A c \in Channels : work[c] \in Work \cup {Idle, Ready}
  /\ ending \in [Channels -> SUBSET Ending]
  /\ phase \in {"up", "closing", "cancelled", "down"}
  /\ spent \in [Events -> Nat] /\ \A e \in Events : spent[e] <= Limits[e]
  /\ \A c \in Channels : queues[c] # <<>> => Draining(c)
  /\ phase = "down" => AllDrained
  /\ Cardinality({c \in Channels : Working(c)}) <= Chunks

FromChunk(m) == m.kind \in {"batch", "done"}

\* What a channel publishes follows the order in which its chunks arrived and
\* the order of their batches, and skips none: a batch, and the end, come after
\* every batch before them in the chunk has been confirmed, across retries,
\* stops, crashes and chunks that fail.
WholeAndInOrder ==
  \A c \in Channels : \A j \in 1..Len(log[c]) :
    LET m == log[c][j] IN FromChunk(m) =>
      /\ \A i \in 1..(j - 1) : FromChunk(log[c][i]) =>
           \/ log[c][i].chunk < m.chunk
           \/ log[c][i].chunk = m.chunk /\ log[c][i].n <= m.n
      /\ m.n > 1 => \E i \in 1..(j - 1) : log[c][i].chunk = m.chunk /\ log[c][i].n = m.n - 1

\* Once a pair command has replaced the import of a channel, or it was cleared, its
\* chunks publish at most the one message in flight at that moment (stillActive is
\* asked before every try, but not with the publish), however often it is retried
\* and whatever chunks are still queued. docs/history-contract.md promises none:
\* see NothingOnceReplaced.
SilentOnceReplaced ==
  \A c \in Channels : \A b \in 1..Len(log[c]) :
    log[c][b].kind \in {"begin", "clear"} =>
      LET old   == {log[c][a].import : a \in 1..(b - 1)}
          later == {j \in b..Len(log[c]) : FromChunk(log[c][j]) /\ log[c][j].import \in old}
      IN  Cardinality(later) <= 1

\* docs/history-contract.md:43-45, of a second request with an import for a channel:
\* "substitui o importId: daí em diante nada (lote ou fim) é publicado para o
\* anterior". The code publishes what stillActive has let through, and an empty end.
NothingOnceReplaced ==
  \A c \in Channels : \A b \in 1..Len(log[c]) :
    log[c][b].kind = "begin" =>
      \A j \in b..Len(log[c]) :
        log[c][j].kind \in {"batch", "done", "empty"} => log[c][j].import >= log[c][b].import

\* A chunk is deleted at WhatsApp only when all its batches have been published,
\* or when the import they were for is no longer the channel's.
ReleasedWhenPublished ==
  \A c \in Channels :
    work[c].step = "release" /\ work[c].shape.importable /\ Matches(c) =>
      \A n \in 1..work[c].shape.batches :
        \E j \in 1..Len(log[c]) : log[c][j].chunk = work[c].id /\ log[c][j].n = n

\* The batches of an import published before position j.
BatchesBefore(c, import, j) ==
  {<<log[c][i].chunk, log[c][i].n>> :
     i \in {k \in 1..(j - 1) : log[c][k].kind = "batch" /\ log[c][k].import = import}}

\* The total an end announces is the number of batches published before it,
\* each counted once however often it was sent, and an import is ended once;
\* every failed call and every stop between a publish and its count, or its mark,
\* can put each of them out by one, and nothing else can.
EndsWithTotal ==
  \A c \in Channels : \A j \in 1..Len(log[c]) :
    log[c][j].kind = "done" =>
      LET sent  == Cardinality(BatchesBefore(c, log[c][j].import, j))
          slips == spent["fault"] + spent["stop"]
          ends  == {i \in 1..j : log[c][i].kind = "done" /\ log[c][i].import = log[c][j].import}
      IN  /\ log[c][j].total <= sent + slips /\ sent <= log[c][j].total + slips
          /\ Cardinality(ends) <= 1 + slips

\* Every queued chunk is taken up, whatever fails before it and however the
\* places in Importer.chunks are contended for.
QueuesDrain == \A c \in Channels : queues[c] # <<>> ~> queues[c] = <<>>

=============================================================================
