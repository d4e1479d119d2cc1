------------------------- MODULE HistoryImportProofs -------------------------
(***************************************************************************)
(* TypeOK, WholeAndInOrder, ReleasedWhenPublished, SilentOnceReplaced and  *)
(* EndsWithTotal of HistoryImport, for any channels, any shapes of chunks  *)
(* and any number of chunks, failures, stops and crashes.                  *)
(***************************************************************************)
EXTENDS HistoryImport, Integers, SequenceTheorems, FiniteSetTheorems, TLAPS

Places(s) == 1..Len(s)

\* The goroutine holds a chunk.
Busy(c) == work[c].step \notin {"idle", "next"}

-----------------------------------------------------------------------------
(* Types. No import is one that did not begin.                              *)

Began == 0..spent["row"]

Entry == [kind : {"batch", "done", "begin", "clear", "empty"}, import : Nat, chunk : Nat,
          n : Nat, total : Nat, skipped : Nat]

RowsOK   == row \in [Channels -> Row] /\ \A c \in Channels : row[c].import \in Began
QueuesOK == queues \in [Channels -> Seq(Chunk)]
WorkOK   == /\ work \in [Channels -> Work \cup {Idle, Ready}]
            /\ \A c \in Channels : Busy(c) => work[c].import \in Began
EndingOK == /\ ending \in [Channels -> SUBSET Ending]
            /\ \A c \in Channels : \A e \in ending[c] : e.import \in Began
PhaseOK  == phase \in {"up", "closing", "cancelled", "down"}
SpentOK  == spent \in [Events -> Nat] /\ \A e \in Events : spent[e] <= Limits[e]
LogOK    == /\ log \in [Channels -> Seq(Entry)]
            /\ \A c \in Channels : \A j \in Places(log[c]) : log[c][j].import \in Began

\* A queue that holds a chunk has its goroutine, and a process that is down has none.
Attended == /\ \A c \in Channels : queues[c] # <<>> => Draining(c)
            /\ phase = "down" => AllDrained

AtWork == {c \in Channels : Working(c)}
PlacesOK == IsFiniteSet(AtWork) /\ Cardinality(AtWork) <= Chunks

Typed == /\ RowsOK /\ QueuesOK /\ WorkOK /\ EndingOK /\ PhaseOK /\ SpentOK /\ LogOK
         /\ Attended /\ PlacesOK

LEMMA TypedIsTypeOK ==
  ASSUME Typed
  PROVE  TypeOK
<1>1. row \in [Channels -> Row] /\ queues \in [Channels -> Seq(Chunk)]
  BY DEF Typed, RowsOK, QueuesOK
<1>2. \A c \in Channels : work[c] \in Work \cup {Idle, Ready}
  BY DEF Typed, WorkOK
<1>3. ending \in [Channels -> SUBSET Ending]
  BY DEF Typed, EndingOK
<1>4. /\ phase \in {"up", "closing", "cancelled", "down"}
      /\ spent \in [Events -> Nat] /\ \A e \in Events : spent[e] <= Limits[e]
  BY DEF Typed, PhaseOK, SpentOK
<1>5. /\ \A c \in Channels : queues[c] # <<>> => Draining(c)
      /\ phase = "down" => AllDrained
      /\ Cardinality({c \in Channels : Working(c)}) <= Chunks
  BY DEF Typed, Attended, PlacesOK, AtWork
<1>. QED BY <1>1, <1>2, <1>3, <1>4, <1>5, Zenon DEF TypeOK

-----------------------------------------------------------------------------
(* What one step does to the goroutine of a channel.                        *)

LEMMA Spending ==
  ASSUME ConstantsAssumption, SpentOK, Nothing \/ \E e \in Events : Happens(e)
  PROVE  SpentOK' /\ \A e \in Events : spent[e] <= spent'[e]
<1>1. CASE Nothing
  BY <1>1 DEF SpentOK, Nothing
<1>2. ASSUME NEW e \in Events, Happens(e)
      PROVE  SpentOK' /\ \A f \in Events : spent[f] <= spent'[f]
  <2>1. spent \in [Events -> Nat] /\ spent' = [spent EXCEPT ![e] = spent[e] + 1] /\ spent[e] < Limits[e]
    BY <1>2 DEF SpentOK, Happens
  <2>2. spent' \in [Events -> Nat] /\ \A f \in Events : spent'[f] = IF f = e THEN spent[e] + 1 ELSE spent[f]
    BY <2>1
  <2>3. spent[e] \in Nat /\ Limits[e] \in Nat
    BY <2>1 DEF ConstantsAssumption
  <2>4. spent[e] + 1 <= Limits[e] /\ spent[e] <= spent[e] + 1
    BY <2>1, <2>3
  <2>5. \A f \in Events : spent[f] <= Limits[f] /\ spent[f] \in Nat
    BY <2>1 DEF SpentOK
  <2>. QED BY <2>2, <2>4, <2>5 DEF SpentOK
<1>. QED BY <1>1, <1>2

LEMMA GoesOn ==
  ASSUME NEW w \in Work, NEW n \in Nat
  PROVE  /\ GoOn(w, n) \in Work
         /\ GoOn(w, n).id = w.id /\ GoOn(w, n).shape = w.shape /\ GoOn(w, n).import = w.import
         /\ GoOn(w, n).at = n /\ GoOn(w, n).finished = w.finished
         /\ GoOn(w, n).step \in {"check", "release"}
         /\ (GoOn(w, n).step = "check" <=> n <= w.shape.batches \/ (n = w.shape.batches + 1 /\ Ends(w)))
<1> DEFINE more == n <= w.shape.batches \/ (n = w.shape.batches + 1 /\ Ends(w))
           s == IF more THEN "check" ELSE "release"
<1>1. GoOn(w, n) = [w EXCEPT !.at = n, !.tries = 0, !.step = s]
  BY DEF GoOn
<1>2. s \in {"check", "release"} /\ (s = "check" <=> more)
  OBVIOUS
<1>. HIDE DEF s, more
<1>3. [w EXCEPT !.at = n, !.tries = 0, !.step = s] \in Work
  BY <1>2 DEF Work, Steps
<1>4. DOMAIN w = {"step", "id", "shape", "import", "finished", "total", "skipped", "at", "tries"}
  BY DEF Work
<1>. QED BY <1>1, <1>2, <1>3, <1>4 DEF more

LEMMA SkippedCounts ==
  ASSUME ConstantsAssumption, NEW r \in Row
  PROVE  Cardinality(r.skipped) \in Nat
<1>1. r.skipped \subseteq Chats /\ IsFiniteSet(Chats)
  BY DEF Row, ConstantsAssumption
<1>. QED BY <1>1, FS_Subset, FS_CardinalityType

\* A busy goroutine has the whole record.
LEMMA BusyWork ==
  ASSUME WorkOK, NEW c \in Channels, Busy(c)
  PROVE  work[c] \in Work /\ work[c].shape \in Shapes /\ work[c].id \in Nat /\ work[c].at \in Nat
         /\ work[c].import \in Imports \cup {0} /\ work[c].import \in Began /\ work[c].tries \in Nat
         /\ work[c].total \in Nat /\ work[c].skipped \in Nat /\ work[c].step \in Steps
<1>1. work[c] \in Work \cup {Idle, Ready}
  BY DEF WorkOK
<1>2. Idle.step = "idle" /\ Ready.step = "next"
  BY DEF Idle, Ready
<1>3. work[c] \in Work
  BY <1>1, <1>2 DEF Busy
<1>. QED BY <1>3 DEF Work, WorkOK

LEMMA ShapeTyped ==
  ASSUME ConstantsAssumption, NEW s \in Shapes
  PROVE  s.batches \in Nat /\ s.importable \in BOOLEAN /\ s.final \in BOOLEAN /\ s.skips \subseteq Chats
BY DEF ConstantsAssumption, Shape

\* The goroutine of c goes on with its chunk, with a new record w.
Advances(c, w) ==
  /\ work' = [work EXCEPT ![c] = w] /\ w \in Work /\ w.step \notin {"idle", "next"}
  /\ Busy(c) /\ w.id = work[c].id /\ w.shape = work[c].shape
  /\ w.import \in {work[c].import, row[c].import}
  /\ w.step # "slot" /\ (Working(c) \/ PlaceFree)

\* Where a goroutine with the record w stands in its chunk. It is at the end of what it
\* releases, unless there was nothing to publish or nobody to publish it for.
Positioned(c, w) ==
  LET b == w.shape.batches
  IN  /\ w.at \in 0..(b + 1)
      /\ w.step \in {"slot", "download", "lookup", "skip"} => w.at = 0
      /\ w.step \in {"check", "publish"} => w.at > 0 /\ (w.at = b + 1 => Ends(w))
      /\ w.step = "count" => w.at \in 1..b
      /\ w.step = "finish" => w.at = b + 1
      /\ w.step = "release" =>
           w.at = b + 1 \/ ~w.shape.importable \/ ~(Live(c) /\ row[c].import = w.import)

\* ... without publishing.
Silently(c, w) ==
  /\ Positioned(c, w)
  /\ work[c].at <= w.at
  /\ \A n \in Nat \ {0} : n < w.at \/ (n = w.at /\ w.step = "count") =>
       n < work[c].at \/ (n = work[c].at /\ work[c].step = "count")
  /\ w.step = "publish" => Matches(c) /\ w.import = work[c].import
  /\ UNCHANGED <<queues, log>>

\* It gives the chunk up, or is done with it.
Leaves(c) == Return(c) /\ Busy(c) /\ UNCHANGED <<queues, log>>

-----------------------------------------------------------------------------
\* What Drain(c) does to the goroutine of c.

\* importChunk and the loop of publishChunk, without the publish.
Quietly(c) == \E w \in Work : Advances(c, w) /\ Silently(c, w)

\* A step within the same message.
LEMMA StaysAt ==
  ASSUME Typed, NEW c \in Channels, Busy(c), Working(c) \/ PlaceFree, Positioned(c, work[c]),
         NEW w \in Work, work' = [work EXCEPT ![c] = w], UNCHANGED <<queues, log>>,
         w.id = work[c].id, w.shape = work[c].shape, w.import = work[c].import, w.at = work[c].at,
         w.step \notin {"idle", "next", "slot", "count"},
         w.step = "publish" => Matches(c), Positioned(c, w)
  PROVE  Quietly(c)
<1>1. Advances(c, w)
  BY DEF Advances
<1>2. work[c].at \in Nat
  BY BusyWork DEF Typed
<1>3. Silently(c, w)
  BY <1>2 DEF Silently
<1>. QED BY <1>1, <1>3 DEF Quietly

LEMMA TakesPlace ==
  ASSUME Typed, NEW c \in Channels, TakePlace(c), Positioned(c, work[c])
  PROVE  Quietly(c)
<1> DEFINE w == [work[c] EXCEPT !.step = "download"]
<1>1. Busy(c) /\ work[c].step = "slot" /\ PlaceFree
  BY DEF TakePlace, Busy
<1>2. work[c] \in Work
  BY <1>1, BusyWork DEF Typed
<1>3. w \in Work /\ w.step = "download" /\ w.id = work[c].id /\ w.shape = work[c].shape
      /\ w.import = work[c].import /\ w.at = work[c].at
  BY <1>2 DEF Work, Steps
<1>4. work' = [work EXCEPT ![c] = w] /\ UNCHANGED <<queues, log>>
  BY DEF TakePlace, Goto, ChunkFrame
<1>. HIDE DEF w
<1>5. Positioned(c, w)
  BY <1>1, <1>3 DEF Positioned
<1>. QED BY <1>1, <1>3, <1>4, <1>5, StaysAt

LEMMA Downloads ==
  ASSUME Typed, NEW c \in Channels, Download(c), Positioned(c, work[c])
  PROVE  Quietly(c) \/ Leaves(c)
<1>1. Busy(c) /\ Working(c) /\ work[c].step = "download" /\ UNCHANGED <<queues, log>>
  BY DEF Download, At, Busy, Working, ChunkFrame
<1>2. work[c] \in Work
  BY <1>1, BusyWork DEF Typed
<1>3. CASE Return(c)
  BY <1>1, <1>3 DEF Leaves
<1>4. ASSUME NEW s \in {"lookup", "release"}, Goto(c, s), s = "release" => ~work[c].shape.importable
      PROVE  Quietly(c)
  <2> DEFINE w == [work[c] EXCEPT !.step = s]
  <2>1. w \in Work /\ w.step = s /\ w.id = work[c].id /\ w.shape = work[c].shape
        /\ w.import = work[c].import /\ w.at = work[c].at
    BY <1>2 DEF Work, Steps
  <2>2. work' = [work EXCEPT ![c] = w]
    BY <1>4 DEF Goto
  <2>. HIDE DEF w
  <2>3. Positioned(c, w)
    BY <1>1, <1>4, <2>1 DEF Positioned
  <2>. QED BY <1>1, <2>1, <2>2, <2>3, StaysAt
<1>5. (\E s \in {"lookup", "release"} : Goto(c, s) /\ (s = "release" => ~work[c].shape.importable))
        \/ Return(c)
  BY DEF Download
<1>. QED BY <1>3, <1>4, <1>5

\* The loop of publishChunk goes on from w to message n.
LEMMA GoesTo ==
  ASSUME Typed, ConstantsAssumption, NEW c \in Channels, Working(c),
         NEW w \in Work, w.id = work[c].id, w.shape = work[c].shape,
         w.import \in {work[c].import, row[c].import},
         NEW n \in Nat, n <= w.shape.batches + 1,
         work[c].at <= n, n <= work[c].at + 1, n = work[c].at + 1 => n = 1 \/ work[c].step = "count",
         work' = [work EXCEPT ![c] = GoOn(w, n)], UNCHANGED <<queues, log>>, n > 0
  PROVE  Quietly(c)
<1> DEFINE v == GoOn(w, n)
<1>1. v \in Work /\ v.id = w.id /\ v.shape = w.shape /\ v.import = w.import /\ v.at = n
      /\ v.finished = w.finished /\ v.step \in {"check", "release"}
  BY GoesOn
<1>2. v.step = "check" <=> n <= w.shape.batches \/ (n = w.shape.batches + 1 /\ Ends(w))
  BY GoesOn
<1>3. Ends(v) <=> Ends(w)
  BY <1>1 DEF Ends
<1>4. Busy(c) /\ work[c].at \in Nat /\ w.shape \in Shapes
  BY BusyWork DEF Typed, Working, Busy, Work
<1>5. w.shape.batches \in Nat
  BY <1>4, ShapeTyped
<1>. HIDE DEF v
<1>6. Advances(c, v)
  BY <1>1, <1>4, Zenon DEF Advances, v
<1>7. Positioned(c, v)
  BY <1>1, <1>2, <1>3, <1>5 DEF Positioned
<1>8. \A m \in Nat \ {0} : m < n => m < work[c].at \/ (m = work[c].at /\ work[c].step = "count")
  BY <1>4
<1>9. Silently(c, v)
  BY <1>1, <1>4, <1>7, <1>8 DEF Silently
<1>. QED BY <1>1, <1>6, <1>9 DEF Quietly

LEMMA LooksUp ==
  ASSUME Typed, ConstantsAssumption, NEW c \in Channels, Lookup(c), Positioned(c, work[c])
  PROVE  Quietly(c) \/ Leaves(c)
<1>1. Busy(c) /\ Working(c) /\ work[c].step = "lookup" /\ UNCHANGED <<queues, log>>
  BY DEF Lookup, At, Busy, Working, ChunkFrame
<1>2. work[c] \in Work /\ work[c].at = 0 /\ work[c].shape \in Shapes
  BY <1>1, BusyWork DEF Typed, Positioned
<1>3. CASE Return(c)
  BY <1>1, <1>3 DEF Leaves
<1>4. CASE ~Live(c) /\ Goto(c, "release")
  <2> DEFINE w == [work[c] EXCEPT !.step = "release"]
  <2>1. w \in Work /\ w.step = "release" /\ w.id = work[c].id /\ w.shape = work[c].shape
        /\ w.import = work[c].import /\ w.at = work[c].at
    BY <1>2 DEF Work, Steps
  <2>2. work' = [work EXCEPT ![c] = w]
    BY <1>4 DEF Goto
  <2>. HIDE DEF w
  <2>3. Positioned(c, w)
    BY <1>2, <1>4, <2>1, ShapeTyped DEF Positioned
  <2>. QED BY <1>1, <2>1, <2>2, <2>3, StaysAt
<1> DEFINE w == [work[c] EXCEPT !.import = row[c].import, !.finished = row[c].finished,
                   !.total = row[c].batches, !.skipped = Cardinality(row[c].skipped)]
<1>5. w \in Work /\ w.id = work[c].id /\ w.shape = work[c].shape /\ w.import = row[c].import
      /\ w.at = 0
  <2>1. row[c] \in Row /\ Cardinality(row[c].skipped) \in Nat
    BY SkippedCounts DEF Typed, RowsOK
  <2>2. row[c].import \in Imports \cup {0} /\ row[c].finished \in BOOLEAN /\ row[c].batches \in Nat
    BY <2>1 DEF Row
  <2>. QED BY <1>2, <2>1, <2>2 DEF Work
<1>6. ASSUME work' = [work EXCEPT ![c] = IF Skips(w) THEN [w EXCEPT !.step = "skip"] ELSE GoOn(w, 1)]
      PROVE  Quietly(c)
  <2>. HIDE DEF w
  <2>1. CASE ~Skips(w)
    <3>1. work' = [work EXCEPT ![c] = GoOn(w, 1)]
      BY <1>6, <2>1
    <3>2. 1 <= w.shape.batches + 1
      BY <1>2, <1>5, ShapeTyped
    <3>3. /\ work[c].at <= 1 /\ 1 <= work[c].at + 1 /\ 1 > 0 /\ 1 \in Nat
          /\ 1 = work[c].at + 1 => 1 = 1 \/ work[c].step = "count"
      BY <1>2
    <3>4. w.import \in {work[c].import, row[c].import}
      BY <1>5
    <3>. QED BY <1>1, <1>5, <3>1, <3>2, <3>3, <3>4, GoesTo, Zenon
  <2>2. CASE Skips(w)
    <3> DEFINE v == [w EXCEPT !.step = "skip"]
    <3>1. v \in Work /\ v.step = "skip" /\ v.id = work[c].id /\ v.shape = work[c].shape
          /\ v.import = row[c].import /\ v.at = 0
      BY <1>5 DEF Work, Steps
    <3>2. work' = [work EXCEPT ![c] = v]
      BY <1>6, <2>2
    <3>. HIDE DEF v
    <3>3. Positioned(c, v)
      BY <1>2, <3>1, ShapeTyped DEF Positioned
    <3>4. Advances(c, v)
      BY <1>1, <3>1, <3>2 DEF Advances
    <3>5. Silently(c, v)
      BY <1>1, <1>2, <3>1, <3>3 DEF Silently
    <3>. QED BY <3>1, <3>4, <3>5 DEF Quietly
  <2>. QED BY <2>1, <2>2
<1>. QED BY <1>3, <1>4, <1>6 DEF Lookup

LEMMA Checks ==
  ASSUME Typed, ConstantsAssumption, NEW c \in Channels, Check(c), Positioned(c, work[c])
  PROVE  Quietly(c)
<1>1. Busy(c) /\ Working(c) /\ work[c].step = "check" /\ UNCHANGED <<queues, log>>
  BY DEF Check, At, Busy, Working, ChunkFrame
<1>2. work[c] \in Work
  BY <1>1, BusyWork DEF Typed
<1>3. ASSUME NEW s \in {"publish", "release"}, Goto(c, s), s = "publish" <=> Matches(c)
      PROVE  Quietly(c)
  <2> DEFINE w == [work[c] EXCEPT !.step = s]
  <2>1. w \in Work /\ w.step = s /\ w.id = work[c].id /\ w.shape = work[c].shape
        /\ w.import = work[c].import /\ w.at = work[c].at /\ w.finished = work[c].finished
    BY <1>2 DEF Work, Steps
  <2>2. work' = [work EXCEPT ![c] = w]
    BY <1>3 DEF Goto
  <2>. HIDE DEF w
  <2>3. Positioned(c, w)
    BY <1>1, <1>3, <2>1 DEF Positioned, Matches, Ends
  <2>. QED BY <1>1, <1>3, <2>1, <2>2, <2>3, StaysAt
<1>. QED BY <1>3 DEF Check, StillActive

\* A write of an import leaves it the import of its row.
LEMMA WritesRow ==
  ASSUME ConstantsAssumption, Typed, NEW c \in Channels, Busy(c)
  PROVE  /\ Written(c) \in Row
         /\ Written(c).import = row[c].import /\ Written(c).expired = row[c].expired
<1>1. row[c] \in Row
  BY DEF Typed, RowsOK
<1>2. work[c].shape.skips \subseteq Chats
  BY BusyWork, ShapeTyped DEF Typed
<1> DEFINE r1 == [row[c] EXCEPT !.skipped = row[c].skipped \cup work[c].shape.skips]
           r2 == [row[c] EXCEPT !.batches = row[c].batches + 1]
           r3 == [row[c] EXCEPT !.finished = TRUE]
<1>3. Written(c) \in {r1, r2, r3, row[c]}
  BY DEF Written
<1>4. r1 \in Row /\ r1.import = row[c].import /\ r1.expired = row[c].expired
  BY <1>1, <1>2 DEF Row
<1>5. r2 \in Row /\ r2.import = row[c].import /\ r2.expired = row[c].expired
  BY <1>1 DEF Row
<1>6. r3 \in Row /\ r3.import = row[c].import /\ r3.expired = row[c].expired
  BY <1>1 DEF Row
<1>. HIDE DEF r1, r2, r3
<1>. QED BY <1>1, <1>3, <1>4, <1>5, <1>6

\* publishChunk goes on after a write, made or given up.
LEMMA GoesOnAfter ==
  ASSUME Typed, ConstantsAssumption, NEW c \in Channels, Persisting(c), Positioned(c, work[c]),
         UNCHANGED <<queues, log>>, NEW k \in Nat, NEW t \in Nat,
         \/ /\ work[c].step = "skip"
            /\ work' = [work EXCEPT ![c] = GoOn([work[c] EXCEPT !.skipped = k], 1)]
         \/ /\ work[c].step = "count"
            /\ work' = [work EXCEPT ![c] = GoOn([work[c] EXCEPT !.total = t], work[c].at + 1)]
         \/ /\ work[c].step = "finish" \/ ~Matches(c)
            /\ work' = [work EXCEPT ![c] = [work[c] EXCEPT !.step = "release"]]
  PROVE  Quietly(c)
<1>1. Busy(c) /\ Working(c) /\ work[c].step \in {"skip", "count", "finish"}
  BY DEF Persisting, At, Busy, Working
<1>2. work[c] \in Work /\ work[c].at \in Nat /\ work[c].shape.batches \in Nat
  BY <1>1, BusyWork, ShapeTyped DEF Typed
<1>3. CASE /\ work[c].step = "skip"
           /\ work' = [work EXCEPT ![c] = GoOn([work[c] EXCEPT !.skipped = k], 1)]
  <2> DEFINE w == [work[c] EXCEPT !.skipped = k]
  <2>1. w \in Work /\ w.id = work[c].id /\ w.shape = work[c].shape /\ w.import = work[c].import
    BY <1>2 DEF Work
  <2>2. work' = [work EXCEPT ![c] = GoOn(w, 1)]
    BY <1>3
  <2>. HIDE DEF w
  <2>3. work[c].at = 0
    BY <1>3 DEF Positioned
  <2>4. /\ work[c].at <= 1 /\ 1 <= work[c].at + 1 /\ 1 > 0 /\ 1 \in Nat /\ 1 <= w.shape.batches + 1
        /\ 1 = work[c].at + 1 => 1 = 1 \/ work[c].step = "count"
    BY <1>2, <2>1, <2>3
  <2>5. w.import \in {work[c].import, row[c].import}
    BY <2>1
  <2>. QED BY <1>1, <2>1, <2>2, <2>4, <2>5, GoesTo, Zenon
<1>4. CASE /\ work[c].step = "count"
           /\ work' = [work EXCEPT ![c] = GoOn([work[c] EXCEPT !.total = t], work[c].at + 1)]
  <2> DEFINE w == [work[c] EXCEPT !.total = t]
             n == work[c].at + 1
  <2>1. w \in Work /\ w.id = work[c].id /\ w.shape = work[c].shape /\ w.import = work[c].import
    BY <1>2 DEF Work
  <2>2. work' = [work EXCEPT ![c] = GoOn(w, n)]
    BY <1>4
  <2>. HIDE DEF w
  <2>3. work[c].at \in 1..work[c].shape.batches
    BY <1>4 DEF Positioned
  <2>4. /\ work[c].at <= n /\ n <= work[c].at + 1 /\ n > 0 /\ n \in Nat /\ n <= w.shape.batches + 1
        /\ n = work[c].at + 1 => n = 1 \/ work[c].step = "count"
    BY <1>2, <1>4, <2>1, <2>3
  <2>5. w.import \in {work[c].import, row[c].import}
    BY <2>1
  <2>. HIDE DEF n
  <2>. QED BY <1>1, <2>1, <2>2, <2>4, <2>5, GoesTo, Zenon
<1>5. CASE /\ work[c].step = "finish" \/ ~Matches(c)
           /\ work' = [work EXCEPT ![c] = [work[c] EXCEPT !.step = "release"]]
  <2> DEFINE w == [work[c] EXCEPT !.step = "release"]
  <2>1. w \in Work /\ w.step = "release" /\ w.id = work[c].id /\ w.shape = work[c].shape
        /\ w.import = work[c].import /\ w.at = work[c].at
    BY <1>2 DEF Work, Steps
  <2>2. work' = [work EXCEPT ![c] = w]
    BY <1>5
  <2>. HIDE DEF w
  <2>3. Positioned(c, w)
    BY <1>5, <2>1 DEF Positioned, Matches
  <2>. QED BY <1>1, <2>1, <2>2, <2>3, StaysAt
<1>. QED BY <1>3, <1>4, <1>5

LEMMA Persists ==
  ASSUME Typed, ConstantsAssumption, NEW c \in Channels, Persist(c), Positioned(c, work[c])
  PROVE  Quietly(c)
<1>1. Busy(c) /\ work[c].step \in {"skip", "count", "finish"} /\ UNCHANGED <<queues, log>> /\ Persisting(c)
  BY DEF Persist, Persisting, At, Busy
<1>2. Written(c) \in Row
  BY <1>1, WritesRow
<1>3. Written(c).batches \in Nat /\ Cardinality(Written(c).skipped) \in Nat
  BY <1>2, SkippedCounts DEF Row
<1>4. CASE Found(c) /\ work' = [work EXCEPT ![c] = Resumed(c, Written(c))]
  BY <1>1, <1>3, <1>4, GoesOnAfter DEF Resumed, Counted
<1>5. CASE ~Found(c) /\ Goto(c, "release")
  <2>1. ~Matches(c) /\ work' = [work EXCEPT ![c] = [work[c] EXCEPT !.step = "release"]]
    BY <1>5 DEF Found, Goto
  <2>. QED BY <1>1, <1>3, <2>1, GoesOnAfter
<1>. QED BY <1>4, <1>5 DEF Persist

LEMMA PersistsNot ==
  ASSUME Typed, ConstantsAssumption, NEW c \in Channels, PersistFails(c), Positioned(c, work[c])
  PROVE  Quietly(c)
<1>1. Busy(c) /\ Working(c) /\ work[c].step \in {"skip", "count", "finish"}
      /\ UNCHANGED <<queues, log>> /\ Persisting(c)
  BY DEF PersistFails, Persisting, At, Busy, Working
<1>2. work[c] \in Work /\ work[c].total \in Nat /\ work[c].skipped \in Nat /\ work[c].tries \in Nat
  BY <1>1, BusyWork DEF Typed
<1>3. CASE work' = [work EXCEPT ![c] = GivenUp(c)]
  <2>1. work[c].skipped \in Nat /\ work[c].total + 1 \in Nat /\ work[c] = [work[c] EXCEPT !.skipped = work[c].skipped]
    BY <1>2 DEF Work
  <2>. QED BY <1>1, <1>3, <2>1, GoesOnAfter DEF GivenUp
<1>4. CASE work' = [work EXCEPT ![c] = Retried(c)]
  <2> DEFINE w == Retried(c)
  <2>1. w \in Work /\ w.step = work[c].step /\ w.id = work[c].id /\ w.shape = work[c].shape
        /\ w.import = work[c].import /\ w.at = work[c].at /\ w.finished = work[c].finished
    BY <1>2 DEF Work, Retried
  <2>2. work' = [work EXCEPT ![c] = w]
    BY <1>4
  <2>. HIDE DEF w
  <2>3. Positioned(c, w)
    BY <1>1, <2>1 DEF Positioned
  <2>4. Advances(c, w)
    BY <1>1, <2>1, <2>2 DEF Advances
  <2>5. work[c].at \in Nat
    BY <1>1, BusyWork DEF Typed
  <2>6. Silently(c, w)
    BY <1>1, <2>1, <2>3, <2>5 DEF Silently
  <2>. QED BY <2>1, <2>4, <2>6 DEF Quietly
<1> DEFINE again == work[c].tries + 1 < StoreAttempts
<1>5. work' = [work EXCEPT ![c] = IF again THEN Retried(c) ELSE GivenUp(c)]
  BY DEF PersistFails
<1>. HIDE DEF again
<1>6. (again /\ work' = [work EXCEPT ![c] = Retried(c)]) \/ (~again /\ work' = [work EXCEPT ![c] = GivenUp(c)])
  BY <1>5, Zenon
<1>. QED BY <1>3, <1>4, <1>6

\* What a channel whose goroutine takes a step of its own keeps.
RowKept(c) ==
  /\ row' \in [Channels -> Row] /\ \A d \in Channels \ {c} : row'[d] = row[d]
  /\ row'[c].import = row[c].import /\ row'[c].expired = row[c].expired

LEMMA DrainKeepsRow ==
  ASSUME Typed, ConstantsAssumption, NEW c \in Channels, Drain(c)
  PROVE  RowKept(c)
<1>1. row \in [Channels -> Row]
  BY DEF Typed, RowsOK
<1>2. CASE row' = row
  BY <1>1, <1>2 DEF RowKept
<1>3. CASE Persisting(c) /\ row' = [row EXCEPT ![c] = Written(c)]
  <2>1. Busy(c)
    BY <1>3 DEF Persisting, At, Busy
  <2>. QED BY <1>1, <1>3, <2>1, WritesRow DEF RowKept
<1>4. TakeNext(c) \/ TakePlace(c) \/ Abort(c) \/ Download(c) \/ Lookup(c) \/ Check(c) \/ Publish(c)
        \/ PublishFails(c) \/ Release(c) => row' = row
  BY DEF TakeNext, TakePlace, Abort, Download, Lookup, Check, Publish, PublishFails, Release, ChunkFrame, RowFrame
<1>5. Persist(c) \/ PersistFails(c) => row' = row \/ (Persisting(c) /\ row' = [row EXCEPT ![c] = Written(c)])
  BY DEF Persist, PersistFails
<1>. QED BY <1>2, <1>3, <1>4, <1>5 DEF Drain

\* A publish, confirmed or not: the record that follows, and what the log gains.
Publishes(c) ==
  \E w \in Work :
    /\ Advances(c, w) /\ Positioned(c, w)
    /\ work[c].step = "publish" /\ w.step \in {"count", "finish", "check"}
    /\ w.at = work[c].at /\ w.import = work[c].import
    /\ UNCHANGED queues
    /\ \/ Says(c, Message(c))
       \/ UNCHANGED log /\ w.step = "check"

LEMMA Publishing ==
  ASSUME Typed, ConstantsAssumption, NEW c \in Channels, Publish(c) \/ PublishFails(c),
         Positioned(c, work[c])
  PROVE  Publishes(c)
<1>1. Busy(c) /\ Working(c) /\ work[c].step = "publish" /\ UNCHANGED queues
  BY DEF Publish, PublishFails, At, Busy, Working
<1>2. work[c] \in Work /\ work[c].at \in Nat /\ work[c].shape.batches \in Nat
  BY <1>1, BusyWork, ShapeTyped DEF Typed
<1>3. ASSUME NEW s \in {"count", "finish", "check"}, NEW k \in {0, 1},
             work' = [work EXCEPT ![c] = [work[c] EXCEPT !.step = s, !.tries = k]],
             s = "count" => IsBatch(c), s = "finish" => ~IsBatch(c),
             Says(c, Message(c)) \/ (UNCHANGED log /\ s = "check")
      PROVE  Publishes(c)
  <2> DEFINE w == [work[c] EXCEPT !.step = s, !.tries = k]
  <2>0. s \in Steps /\ k \in Nat
    BY DEF Steps
  <2>1. w \in Work /\ w.step = s /\ w.id = work[c].id /\ w.shape = work[c].shape
        /\ w.import = work[c].import /\ w.at = work[c].at /\ w.finished = work[c].finished
    BY <1>2, <2>0 DEF Work
  <2>2. work' = [work EXCEPT ![c] = w]
    BY <1>3
  <2>. HIDE DEF w
  <2>3. Positioned(c, w)
    BY <1>1, <1>2, <1>3, <2>1 DEF Positioned, IsBatch, Ends
  <2>4. Advances(c, w)
    BY <1>1, <2>1, <2>2 DEF Advances
  <2>. QED BY <1>1, <1>3, <2>1, <2>3, <2>4 DEF Publishes
<1>4. CASE Publish(c)
  <2>1. /\ Says(c, Message(c))
        /\ work' = [work EXCEPT ![c].step = IF IsBatch(c) THEN "count" ELSE "finish", ![c].tries = 0]
    BY <1>4 DEF Publish
  <2>2. work \in [Channels -> Work \cup {Idle, Ready}]
    BY DEF Typed, WorkOK
  <2>3. CASE IsBatch(c)
    <3>1. work' = [work EXCEPT ![c] = [work[c] EXCEPT !.step = "count", !.tries = 0]]
      BY <2>1, <2>2, <2>3
    <3>. QED BY <1>3, <2>1, <2>3, <3>1
  <2>4. CASE ~IsBatch(c)
    <3>1. work' = [work EXCEPT ![c] = [work[c] EXCEPT !.step = "finish", !.tries = 0]]
      BY <2>1, <2>2, <2>4
    <3>. QED BY <1>3, <2>1, <2>4, <3>1
  <2>. QED BY <2>3, <2>4
<1>5. CASE PublishFails(c)
  <2>1. work \in [Channels -> Work \cup {Idle, Ready}]
    BY DEF Typed, WorkOK
  <2>2. work' = [work EXCEPT ![c] = [work[c] EXCEPT !.step = "check", !.tries = 1]]
    BY <1>5, <2>1 DEF PublishFails, Again
  <2>3. UNCHANGED log \/ Says(c, Message(c))
    BY <1>5 DEF PublishFails
  <2>. QED BY <1>3, <2>2, <2>3
<1>. QED BY <1>4, <1>5

\* A step of the goroutine of c is one of these.
LEMMA DrainIs ==
  ASSUME Typed, ConstantsAssumption, NEW c \in Channels, Drain(c), Busy(c) => Positioned(c, work[c])
  PROVE  TakeNext(c) \/ Quietly(c) \/ Publishes(c) \/ Leaves(c)
<1>1. CASE TakeNext(c)
  BY <1>1
<1>2. CASE Abort(c) \/ Release(c)
  BY <1>2 DEF Abort, Release, At, Busy, ChunkFrame, Leaves
<1>3. ~TakeNext(c) => Busy(c)
  BY DEF Drain, TakePlace, Abort, Download, Lookup, Persist, Persisting, PersistFails, Check, Publish,
         PublishFails, Release, At, Busy
<1>4. CASE ~TakeNext(c)
  <2>1. Positioned(c, work[c])
    BY <1>3, <1>4
  <2>. QED BY <1>2, <1>4, <2>1, TakesPlace, Downloads, LooksUp, Persists, PersistsNot, Checks, Publishing,
              Zenon DEF Drain
<1>. QED BY <1>1, <1>4

-----------------------------------------------------------------------------
(* The types are kept.                                                      *)

LEMMA DrainFrame ==
  ASSUME NEW c \in Channels, Drain(c)
  PROVE  UNCHANGED <<ending, phase>> /\ (Nothing \/ Happens("fault")) /\ Draining(c)
BY DEF Drain, TakeNext, TakePlace, Abort, Download, Lookup, Persist, Persisting, PersistFails, Check, Publish,
       PublishFails, Release, At, Draining, ChunkFrame, RowFrame

LEMMA WorkMoves ==
  ASSUME Typed, NEW c \in Channels, NEW w \in Work \cup {Idle, Ready}, work' = [work EXCEPT ![c] = w]
  PROVE  /\ work' \in [Channels -> Work \cup {Idle, Ready}]
         /\ work'[c] = w /\ \A d \in Channels \ {c} : work'[d] = work[d]
BY DEF Typed, WorkOK

LEMMA FewerAtWork ==
  ASSUME PlacesOK, ConstantsAssumption, AtWork' \subseteq AtWork
  PROVE  PlacesOK'
<1>1. IsFiniteSet(AtWork') /\ Cardinality(AtWork') <= Cardinality(AtWork)
  BY FS_Subset DEF PlacesOK
<1>2. Cardinality(AtWork') \in Nat /\ Cardinality(AtWork) \in Nat /\ Chunks \in Nat
  BY <1>1, FS_CardinalityType DEF PlacesOK, ConstantsAssumption
<1>. QED BY <1>1, <1>2 DEF PlacesOK

\* A place is taken only when one is free.
LEMMA KeepsPlaces ==
  ASSUME Typed, ConstantsAssumption, NEW c \in Channels, NEW w \in Work \cup {Idle, Ready},
         work' = [work EXCEPT ![c] = w],
         w.step \in {"idle", "next", "slot"} \/ Working(c) \/ PlaceFree
  PROVE  PlacesOK'
<1>1. work'[c] = w /\ \A d \in Channels \ {c} : work'[d] = work[d]
  BY WorkMoves
<1>2. CASE w.step \in {"idle", "next", "slot"} \/ Working(c)
  <2>1. AtWork' \subseteq AtWork
    BY <1>1, <1>2 DEF AtWork, Working
  <2>. QED BY <2>1, FewerAtWork DEF Typed
<1>3. CASE PlaceFree
  <2>1. AtWork' \subseteq AtWork \cup {c}
    BY <1>1 DEF AtWork, Working
  <2>2. IsFiniteSet(AtWork) /\ Cardinality(AtWork) < Chunks
    BY <1>3 DEF Typed, PlacesOK, PlaceFree, AtWork
  <2>3. /\ IsFiniteSet(AtWork \cup {c})
        /\ Cardinality(AtWork \cup {c}) = Cardinality(AtWork) \/ Cardinality(AtWork \cup {c}) = Cardinality(AtWork) + 1
    BY <2>2, FS_AddElement
  <2>4. IsFiniteSet(AtWork') /\ Cardinality(AtWork') <= Cardinality(AtWork \cup {c})
    BY <2>1, <2>3, FS_Subset
  <2>5. Cardinality(AtWork') \in Nat /\ Cardinality(AtWork) \in Nat /\ Cardinality(AtWork \cup {c}) \in Nat
        /\ Chunks \in Nat
    BY <2>2, <2>3, <2>4, FS_CardinalityType DEF ConstantsAssumption
  <2>. QED BY <2>2, <2>3, <2>4, <2>5 DEF PlacesOK
<1>. QED BY <1>2, <1>3

\* What a step of the goroutine of c with the new record w keeps.
LEMMA KeepsWork ==
  ASSUME Typed, ConstantsAssumption, NEW c \in Channels, NEW w \in Work \cup {Idle, Ready},
         work' = [work EXCEPT ![c] = w], Drain(c),
         w.step \in {"idle", "next"} \/ w.import \in Began,
         w.step = "idle" => queues[c] = <<>> /\ UNCHANGED queues,
         \A d \in Channels \ {c} : queues'[d] = queues[d],
         w.step \in {"idle", "next", "slot"} \/ Working(c) \/ PlaceFree
  PROVE  RowsOK' /\ WorkOK' /\ EndingOK' /\ PhaseOK' /\ SpentOK' /\ Attended' /\ PlacesOK'
<1>1. /\ work' \in [Channels -> Work \cup {Idle, Ready}]
      /\ work'[c] = w /\ \A d \in Channels \ {c} : work'[d] = work[d]
  BY WorkMoves
<1>2. UNCHANGED <<ending, phase>> /\ (Nothing \/ Happens("fault")) /\ Draining(c)
  BY DrainFrame
<1>3. SpentOK' /\ Began' = Began
  <2>1. SpentOK'
    BY <1>2, Spending DEF Typed, Events
  <2>2. spent'["row"] = spent["row"]
    BY <1>2 DEF Typed, SpentOK, Nothing, Happens, Events
  <2>. QED BY <2>1, <2>2 DEF Began
<1>4. RowsOK'
  BY <1>3, DrainKeepsRow DEF RowKept, RowsOK, Typed
<1>5. WorkOK'
  BY <1>1, <1>3 DEF WorkOK, Busy, Typed
<1>6. EndingOK' /\ PhaseOK'
  BY <1>2, <1>3 DEF EndingOK, PhaseOK, Typed
<1>7. Attended'
  <2>1. phase # "down"
    BY <1>2 DEF Typed, Attended, AllDrained
  <2>2. (queues[c] = <<>> /\ queues' = queues) \/ Draining(c)'
    BY <1>1 DEF Draining
  <2>. QED BY <1>1, <1>2, <2>1, <2>2 DEF Attended, Draining, Typed
<1>8. PlacesOK'
  BY KeepsPlaces
<1>. QED BY <1>3, <1>4, <1>5, <1>6, <1>7, <1>8

LEMMA MessageTyped ==
  ASSUME Typed, NEW c \in Channels, Busy(c)
  PROVE  Message(c) \in Entry /\ Message(c).import = work[c].import /\ Message(c).import \in Began
         /\ Message(c).chunk = work[c].id /\ Message(c).n = work[c].at /\ FromChunk(Message(c))
<1>1. /\ work[c].id \in Nat /\ work[c].at \in Nat /\ work[c].total \in Nat /\ work[c].skipped \in Nat
      /\ work[c].import \in Nat /\ work[c].import \in Began
  BY BusyWork DEF Typed, Imports
<1>2. CASE IsBatch(c)
  <2>1. Message(c) = [kind |-> "batch", import |-> work[c].import, chunk |-> work[c].id, n |-> work[c].at,
                      total |-> 0, skipped |-> 0]
    BY <1>2 DEF Message
  <2>. QED BY <1>1, <2>1 DEF Entry, FromChunk
<1>3. CASE ~IsBatch(c)
  <2>1. Message(c) = [kind |-> "done", import |-> work[c].import, chunk |-> work[c].id, n |-> work[c].at,
                      total |-> work[c].total, skipped |-> work[c].skipped]
    BY <1>3 DEF Message
  <2>. QED BY <1>1, <2>1 DEF Entry, FromChunk
<1>. QED BY <1>2, <1>3

LEMMA SaysOne ==
  ASSUME LogOK, NEW c \in Channels, NEW m \in Entry, Says(c, m)
  PROVE  /\ log' \in [Channels -> Seq(Entry)] /\ \A d \in Channels \ {c} : log'[d] = log[d]
         /\ Len(log[c]) \in Nat /\ Len(log'[c]) = Len(log[c]) + 1
         /\ \A j \in Places(log[c]) : log'[c][j] = log[c][j]
         /\ log'[c][Len(log[c]) + 1] = m
<1>1. log[c] \in Seq(Entry) /\ log' = [log EXCEPT ![c] = Append(log[c], m)]
  BY DEF LogOK, Says
<1>2. /\ Append(log[c], m) \in Seq(Entry) /\ Len(Append(log[c], m)) = Len(log[c]) + 1 /\ Len(log[c]) \in Nat
      /\ \A j \in 1..Len(log[c]) : Append(log[c], m)[j] = log[c][j]
      /\ Append(log[c], m)[Len(log[c]) + 1] = m
  BY <1>1, AppendProperties, LenProperties
<1>. QED BY <1>1, <1>2 DEF LogOK, Places

LEMMA LogGrows ==
  ASSUME LogOK, NEW c \in Channels, NEW m \in Entry, Says(c, m), m.import \in Began', Began \subseteq Began'
  PROVE  LogOK'
<1>1. /\ log' \in [Channels -> Seq(Entry)] /\ \A d \in Channels \ {c} : log'[d] = log[d]
      /\ Len(log[c]) \in Nat /\ Len(log'[c]) = Len(log[c]) + 1
      /\ \A j \in Places(log[c]) : log'[c][j] = log[c][j]
      /\ log'[c][Len(log[c]) + 1] = m
  BY SaysOne
<1>2. \A j \in Places(log'[c]) : log'[c][j].import \in Began'
  <2>1. \A j \in Places(log'[c]) : j \in Places(log[c]) \/ j = Len(log[c]) + 1
    BY <1>1 DEF Places
  <2>. QED BY <1>1, <2>1 DEF LogOK
<1>3. \A d \in Channels \ {c} : \A j \in Places(log'[d]) : log'[d][j].import \in Began'
  BY <1>1 DEF LogOK
<1>. QED BY <1>1, <1>2, <1>3 DEF LogOK

LEMMA TakesNext ==
  ASSUME Typed, NEW c \in Channels, TakeNext(c)
  PROVE  \/ /\ queues[c] = <<>> /\ work' = [work EXCEPT ![c] = Idle] /\ UNCHANGED <<queues, log>>
         \/ \E w \in Work :
              /\ queues[c] # <<>> /\ work' = [work EXCEPT ![c] = w]
              /\ w.step = "slot" /\ w.id = queues[c][1].id /\ w.shape = queues[c][1].shape
              /\ w.import = 0 /\ w.at = 0
              /\ queues' \in [Channels -> Seq(Chunk)] /\ \A d \in Channels \ {c} : queues'[d] = queues[d]
              /\ Len(queues'[c]) = Len(queues[c]) - 1 /\ Len(queues[c]) \in Nat \ {0}
              /\ \A i \in Places(queues'[c]) : queues'[c][i] = queues[c][i + 1]
              /\ UNCHANGED log
<1>1. queues[c] \in Seq(Chunk) /\ queues \in [Channels -> Seq(Chunk)]
  BY DEF Typed, QueuesOK
<1>2. CASE queues[c] = <<>>
  BY <1>2 DEF TakeNext
<1>3. CASE queues[c] # <<>>
  <2> DEFINE w == [step |-> "slot", id |-> Head(queues[c]).id, shape |-> Head(queues[c]).shape,
                   import |-> 0, finished |-> FALSE, total |-> 0, skipped |-> 0, at |-> 0, tries |-> 0]
  <2>1. /\ Tail(queues[c]) \in Seq(Chunk) /\ Len(Tail(queues[c])) = Len(queues[c]) - 1
        /\ Len(queues[c]) \in Nat \ {0}
        /\ \A i \in 1..Len(Tail(queues[c])) : Tail(queues[c])[i] = queues[c][i + 1]
        /\ Head(queues[c]) = queues[c][1] /\ Head(queues[c]) \in Chunk
    BY <1>1, <1>3
  <2>2. w \in Work /\ w.step = "slot" /\ w.id = queues[c][1].id /\ w.shape = queues[c][1].shape
        /\ w.import = 0 /\ w.at = 0
    BY <2>1 DEF Work, Steps, Chunk
  <2>3. /\ work' = [work EXCEPT ![c] = w] /\ queues' = [queues EXCEPT ![c] = Tail(queues[c])]
        /\ UNCHANGED log
    BY <1>3 DEF TakeNext
  <2>. HIDE DEF w
  <2>4. queues' \in [Channels -> Seq(Chunk)] /\ queues'[c] = Tail(queues[c])
        /\ \A d \in Channels \ {c} : queues'[d] = queues[d]
    BY <1>1, <2>1, <2>3
  <2>. QED BY <1>3, <2>1, <2>2, <2>3, <2>4 DEF Places
<1>. QED BY <1>2, <1>3

LEMMA DrainKeepsTypes ==
  ASSUME Typed, ConstantsAssumption, NEW c \in Channels, Drain(c), Busy(c) => Positioned(c, work[c])
  PROVE  Typed'
<1> DEFINE Others == RowsOK' /\ WorkOK' /\ EndingOK' /\ PhaseOK' /\ SpentOK' /\ Attended' /\ PlacesOK'
<1>1. Others /\ QueuesOK' /\ LogOK' => Typed'
  BY DEF Typed
<1>2. spent'["row"] = spent["row"] /\ Began' = Began
  <2>1. spent'["row"] = spent["row"]
    BY DrainFrame DEF Typed, SpentOK, Nothing, Happens, Events
  <2>. QED BY <2>1 DEF Began
<1>3. UNCHANGED log => LogOK'
  BY <1>2 DEF Typed, LogOK
<1>4. UNCHANGED queues => QueuesOK' /\ \A d \in Channels \ {c} : queues'[d] = queues[d]
  BY DEF Typed, QueuesOK
<1>5. CASE TakeNext(c)
  <2>1. CASE queues[c] = <<>> /\ work' = [work EXCEPT ![c] = Idle] /\ UNCHANGED <<queues, log>>
    <3>1. Idle \in Work \cup {Idle, Ready} /\ Idle.step = "idle"
      BY DEF Idle
    <3>2. Others
      BY <1>4, <2>1, <3>1, KeepsWork
    <3>. QED BY <1>1, <1>3, <1>4, <2>1, <3>2
  <2>2. ASSUME NEW w \in Work, work' = [work EXCEPT ![c] = w], w.step = "slot", w.import = 0,
               queues' \in [Channels -> Seq(Chunk)], \A d \in Channels \ {c} : queues'[d] = queues[d],
               UNCHANGED log
        PROVE  Typed'
    <3>1. w.import \in Began
      BY <2>2 DEF Began, Typed, SpentOK, Events
    <3>2. Others
      BY <2>2, <3>1, KeepsWork
    <3>. QED BY <1>1, <1>3, <2>2, <3>2 DEF QueuesOK
  <2>. QED BY <1>5, <2>1, <2>2, TakesNext
<1>6. ASSUME NEW w \in Work, Advances(c, w)
      PROVE  Others \/ ~UNCHANGED queues
  <2>1. w.import \in Began
    BY <1>6, BusyWork DEF Advances, Typed, RowsOK
  <2>2. work' = [work EXCEPT ![c] = w] /\ w.step \notin {"idle", "next"} /\ (Working(c) \/ PlaceFree)
    BY <1>6 DEF Advances
  <2>. QED BY <1>4, <2>1, <2>2, KeepsWork
<1>7. CASE Quietly(c)
  BY <1>1, <1>3, <1>4, <1>6, <1>7 DEF Quietly, Silently
<1>8. CASE Publishes(c)
  <2>1. PICK w \in Work : /\ Advances(c, w) /\ UNCHANGED queues
                          /\ Says(c, Message(c)) \/ UNCHANGED log
    BY <1>8 DEF Publishes
  <2>2. Busy(c)
    BY <2>1 DEF Advances
  <2>3. LogOK'
    BY <1>2, <1>3, <2>1, <2>2, MessageTyped, LogGrows DEF Typed
  <2>. QED BY <1>1, <1>4, <1>6, <2>1, <2>3
<1>9. CASE Leaves(c)
  <2>1. work' = [work EXCEPT ![c] = Ready] /\ UNCHANGED <<queues, log>> /\ Ready.step = "next"
        /\ Ready \in Work \cup {Idle, Ready}
    BY <1>9 DEF Leaves, Return, Ready
  <2>2. Others
    BY <1>4, <2>1, KeepsWork
  <2>. QED BY <1>1, <1>3, <1>4, <2>1, <2>2
<1>. QED BY <1>5, <1>7, <1>8, <1>9, DrainIs

LEMMA NoRowTyped ==
  ASSUME NEW n \in Imports \cup {0}
  PROVE  [NoRow EXCEPT !.import = n] \in Row /\ [NoRow EXCEPT !.import = n].import = n
         /\ NoRow \in Row /\ NoRow.import = 0
<1>1. {} \in SUBSET Chats /\ 0 \in Nat /\ 0 \in Imports \cup {0}
  OBVIOUS
<1>2. NoRow \in Row /\ NoRow.import = 0
  BY <1>1 DEF NoRow, Row
<1>. QED BY <1>2 DEF Row

LEMMA MarkTyped ==
  ASSUME NEW k \in {"begin", "clear", "empty"}, NEW n \in Nat
  PROVE  Mark(k, n) \in Entry /\ Mark(k, n).import = n /\ Mark(k, n).kind = k /\ ~FromChunk(Mark(k, n))
BY DEF Mark, Entry, FromChunk

\* A gateway that only changes the row, the end of an empty import or the log.
LEMMA GatewayKeeps ==
  ASSUME Typed, ConstantsAssumption, GatewayFrame, Nothing \/ \E e \in {"row", "fault"} : Happens(e)
  PROVE  /\ QueuesOK' /\ WorkOK' /\ PhaseOK' /\ SpentOK' /\ Attended' /\ PlacesOK'
         /\ Began \subseteq Began' /\ spent["row"] \in Nat /\ spent'["chunk"] = spent["chunk"]
<1>1. SpentOK' /\ spent["row"] \in Nat /\ spent'["row"] \in Nat /\ spent["row"] <= spent'["row"]
      /\ spent'["chunk"] = spent["chunk"]
  <2>1. SpentOK' /\ \A e \in Events : spent[e] <= spent'[e]
    BY Spending DEF Typed, Events
  <2>2. spent'["chunk"] = spent["chunk"]
    BY DEF Typed, SpentOK, Nothing, Happens, Events
  <2>. QED BY <2>1, <2>2 DEF Typed, SpentOK, Events
<1>2. Began \subseteq Began'
  BY <1>1 DEF Began
<1>3. UNCHANGED <<queues, work, phase>>
  BY DEF GatewayFrame
<1>4. WorkOK'
  BY <1>2, <1>3 DEF Typed, WorkOK, Busy
<1>5. QueuesOK' /\ PhaseOK' /\ Attended' /\ PlacesOK'
  BY <1>3 DEF Typed, QueuesOK, PhaseOK, Attended, PlacesOK, Draining, AllDrained, AtWork, Working
<1>. QED BY <1>1, <1>2, <1>4, <1>5

LEMMA PairsFrame ==
  ASSUME NEW c \in Channels, Pairs(c)
  PROVE  GatewayFrame /\ (Nothing \/ \E e \in {"row", "fault"} : Happens(e))
BY DEF Pairs, Begin, Clear, PublishEmptyEnd, FinishEmptyImport, Expire

LEMMA EndingTyped ==
  ASSUME EndingOK, Began \subseteq Began', NEW c \in Channels, NEW es \in SUBSET Ending,
         \A e \in es : e \in ending[c] \/ e.import \in Began',
         ending' = [ending EXCEPT ![c] = es] \/ UNCHANGED ending
  PROVE  EndingOK'
<1>1. CASE ending' = [ending EXCEPT ![c] = es]
  <2>1. /\ ending' \in [Channels -> SUBSET Ending] /\ ending'[c] = es
        /\ \A d \in Channels \ {c} : ending'[d] = ending[d]
    BY <1>1 DEF EndingOK
  <2>. QED BY <2>1 DEF EndingOK
<1>2. CASE UNCHANGED ending
  BY <1>2 DEF EndingOK
<1>. QED BY <1>1, <1>2

LEMMA PairsKeepTypes ==
  ASSUME Typed, ConstantsAssumption, NEW c \in Channels, Pairs(c)
  PROVE  Typed'
<1> DEFINE Others == QueuesOK' /\ WorkOK' /\ PhaseOK' /\ SpentOK' /\ Attended' /\ PlacesOK'
<1>1. Others /\ Began \subseteq Began' /\ spent["row"] \in Nat
  BY PairsFrame, GatewayKeeps
<1>. HIDE DEF Others
<1>2. Others /\ RowsOK' /\ EndingOK' /\ LogOK' => Typed'
  BY DEF Typed, Others
<1>3. UNCHANGED row => RowsOK'
  BY <1>1 DEF Typed, RowsOK
<1>4. UNCHANGED ending => EndingOK'
  BY <1>1 DEF Typed, EndingOK
<1>5. UNCHANGED log => LogOK'
  BY <1>1 DEF Typed, LogOK
<1>6. /\ 0 \in Began' /\ row[c] \in Row /\ row[c].import \in Began'
      /\ ending[c] \subseteq Ending
      /\ \A e \in ending[c] : e.import \in Began' /\ e.import \in Nat
  <2>1. /\ ending[c] \subseteq Ending /\ \A e \in ending[c] : e.import \in Began
        /\ row[c] \in Row /\ row[c].import \in Began
    BY DEF Typed, EndingOK, RowsOK
  <2>. QED BY <1>1, <2>1 DEF Began
<1>7. ASSUME NEW r \in Row, r.import \in Began', row' = [row EXCEPT ![c] = r]
      PROVE  RowsOK'
  BY <1>1, <1>7 DEF Typed, RowsOK
<1>8. CASE Begin(c)
  <2> DEFINE n == spent'["row"]
             r == [NoRow EXCEPT !.import = n]
             es == ending[c] \cup {[step |-> "publish", import |-> n]}
  <2>1. n \in Imports /\ n \in Began' /\ n \in Nat
    <3>1. spent'["row"] = spent["row"] + 1 /\ spent["row"] < Limits["row"] /\ Limits["row"] \in Nat
      BY <1>8 DEF Begin, Happens, Typed, SpentOK, Events, ConstantsAssumption
    <3>. QED BY <1>1, <3>1 DEF Imports, Began
  <2>2. row' = [row EXCEPT ![c] = r] /\ Says(c, Mark("begin", n)) /\ ending' \in {ending, [ending EXCEPT ![c] = es]}
    BY <1>8 DEF Begin
  <2>3. r \in Row /\ r.import = n
    BY <2>1, NoRowTyped
  <2>4. es \in SUBSET Ending /\ \A e \in es : e \in ending[c] \/ e.import = n
    BY <1>6, <2>1 DEF Ending
  <2>5. LogOK'
    BY <1>1, <2>1, <2>2, MarkTyped, LogGrows DEF Typed
  <2>. HIDE DEF n, r, es
  <2>6. RowsOK'
    BY <1>7, <2>1, <2>2, <2>3
  <2>7. EndingOK'
    BY <1>1, <2>1, <2>2, <2>4, EndingTyped DEF Typed
  <2>. QED BY <1>1, <1>2, <2>5, <2>6, <2>7
<1>9. CASE Clear(c)
  <2>1. row' = [row EXCEPT ![c] = NoRow] /\ Says(c, Mark("clear", 0)) /\ UNCHANGED ending
    BY <1>9 DEF Clear
  <2>2. NoRow \in Row /\ NoRow.import = 0
    BY NoRowTyped
  <2>3. LogOK'
    BY <1>1, <1>6, <2>1, MarkTyped, LogGrows DEF Typed
  <2>. QED BY <1>1, <1>2, <1>4, <1>6, <1>7, <2>1, <2>2, <2>3
<1>10. ASSUME NEW e \in ending[c], NEW more,
              more \subseteq {[step |-> "finish", import |-> e.import]},
              ending' = [ending EXCEPT ![c] = (@ \ {e}) \cup more]
       PROVE  EndingOK'
  <2> DEFINE es == (ending[c] \ {e}) \cup more
  <2>1. es \in SUBSET Ending /\ \A f \in es : f \in ending[c] \/ f.import \in Began'
    BY <1>6, <1>10 DEF Ending
  <2>2. ending' = [ending EXCEPT ![c] = es]
    BY <1>10
  <2>. HIDE DEF es
  <2>. QED BY <1>1, <2>1, <2>2, EndingTyped DEF Typed
<1>11. CASE PublishEmptyEnd(c)
  <2>1. PICK e \in ending[c] :
          /\ UNCHANGED log \/ Says(c, Mark("empty", e.import))
          /\ \/ ending' = [ending EXCEPT ![c] = (@ \ {e}) \cup {[step |-> "finish", import |-> e.import]}]
             \/ ending' = [ending EXCEPT ![c] = @ \ {e}]
    BY <1>11 DEF PublishEmptyEnd
  <2>2. LogOK'
    BY <1>1, <1>5, <1>6, <2>1, MarkTyped, LogGrows DEF Typed
  <2>3. EndingOK'
    <3>1. CASE ending' = [ending EXCEPT ![c] = (@ \ {e}) \cup {[step |-> "finish", import |-> e.import]}]
      BY <1>10, <3>1
    <3>2. CASE ending' = [ending EXCEPT ![c] = @ \ {e}]
      <4>1. ending' = [ending EXCEPT ![c] = (@ \ {e}) \cup {}]
        BY <3>2
      <4>. QED BY <1>10, <4>1
    <3>. QED BY <2>1, <3>1, <3>2
  <2>4. UNCHANGED row
    BY <1>11 DEF PublishEmptyEnd
  <2>. QED BY <1>1, <1>2, <1>3, <2>2, <2>3, <2>4
<1>12. CASE FinishEmptyImport(c)
  <2> DEFINE r == [row[c] EXCEPT !.finished = TRUE]
  <2>1. PICK e \in ending[c] :
          /\ ending' = [ending EXCEPT ![c] = @ \ {e}]
          /\ row' = [row EXCEPT ![c] = r] \/ UNCHANGED row
    BY <1>12 DEF FinishEmptyImport
  <2>2. UNCHANGED log
    BY <1>12 DEF FinishEmptyImport
  <2>3. r \in Row /\ r.import = row[c].import
    BY <1>6 DEF Row
  <2>. HIDE DEF r
  <2>4. RowsOK'
    BY <1>3, <1>6, <1>7, <2>1, <2>3
  <2>5. ending' = [ending EXCEPT ![c] = (@ \ {e}) \cup {}]
    BY <2>1
  <2>6. EndingOK'
    BY <1>10, <2>5
  <2>. QED BY <1>1, <1>2, <1>5, <2>2, <2>4, <2>6
<1>13. CASE Expire(c)
  <2> DEFINE r == [row[c] EXCEPT !.expired = TRUE]
  <2>1. row' = [row EXCEPT ![c] = r] /\ UNCHANGED <<ending, log>>
    BY <1>13 DEF Expire
  <2>2. r \in Row /\ r.import = row[c].import
    BY <1>6 DEF Row
  <2>. HIDE DEF r
  <2>. QED BY <1>1, <1>2, <1>4, <1>5, <1>6, <1>7, <2>1, <2>2
<1>. QED BY <1>8, <1>9, <1>11, <1>12, <1>13 DEF Pairs

LEMMA Accepts ==
  ASSUME Typed, ConstantsAssumption, NEW c \in Channels, NEW shape \in Shapes, Accept(c, shape)
  PROVE  /\ spent["chunk"] \in Nat /\ spent'["chunk"] = spent["chunk"] + 1 /\ spent'["row"] = spent["row"]
         /\ UNCHANGED <<row, ending, phase, log>> /\ phase # "down"
         /\ \/ UNCHANGED <<queues, work>>
            \/ /\ queues' \in [Channels -> Seq(Chunk)] /\ \A d \in Channels \ {c} : queues'[d] = queues[d]
               /\ Len(queues[c]) \in Nat /\ Len(queues'[c]) = Len(queues[c]) + 1
               /\ \A i \in Places(queues[c]) : queues'[c][i] = queues[c][i]
               /\ queues'[c][Len(queues[c]) + 1].id = spent'["chunk"]
               /\ work' = IF Draining(c) THEN work ELSE [work EXCEPT ![c] = Ready]
<1>1. spent["chunk"] \in Nat /\ spent'["chunk"] = spent["chunk"] + 1 /\ spent'["row"] = spent["row"]
  BY DEF Accept, Happens, Typed, SpentOK, Events
<1>2. UNCHANGED <<row, ending, phase, log>> /\ phase # "down"
  BY DEF Accept, RowFrame
<1>3. ASSUME phase = "up"
      PROVE  /\ queues' \in [Channels -> Seq(Chunk)] /\ \A d \in Channels \ {c} : queues'[d] = queues[d]
             /\ Len(queues[c]) \in Nat /\ Len(queues'[c]) = Len(queues[c]) + 1
             /\ \A i \in Places(queues[c]) : queues'[c][i] = queues[c][i]
             /\ queues'[c][Len(queues[c]) + 1].id = spent'["chunk"]
             /\ work' = IF Draining(c) THEN work ELSE [work EXCEPT ![c] = Ready]
  <2> DEFINE m == [id |-> spent'["chunk"], shape |-> shape]
  <2>1. m \in Chunk /\ m.id = spent'["chunk"]
    BY <1>1 DEF Chunk
  <2>2. queues[c] \in Seq(Chunk) /\ queues \in [Channels -> Seq(Chunk)]
    BY DEF Typed, QueuesOK
  <2>3. queues' = [queues EXCEPT ![c] = Append(queues[c], m)]
        /\ work' = IF Draining(c) THEN work ELSE [work EXCEPT ![c] = Ready]
    BY <1>3 DEF Accept
  <2>. HIDE DEF m
  <2>4. /\ Append(queues[c], m) \in Seq(Chunk) /\ Len(Append(queues[c], m)) = Len(queues[c]) + 1
        /\ Len(queues[c]) \in Nat
        /\ \A i \in 1..Len(queues[c]) : Append(queues[c], m)[i] = queues[c][i]
        /\ Append(queues[c], m)[Len(queues[c]) + 1] = m
    BY <2>1, <2>2, AppendProperties, LenProperties
  <2>. QED BY <2>1, <2>2, <2>3, <2>4 DEF Places
<1>4. phase # "up" => UNCHANGED <<queues, work>>
  BY DEF Accept
<1>. QED BY <1>1, <1>2, <1>3, <1>4

LEMMA AcceptKeepsTypes ==
  ASSUME Typed, ConstantsAssumption, NEW c \in Channels, NEW shape \in Shapes, Accept(c, shape)
  PROVE  Typed'
<1>1. /\ spent'["row"] = spent["row"] /\ UNCHANGED <<row, ending, phase, log>> /\ phase # "down"
  BY Accepts
<1>2. SpentOK' /\ Began' = Began
  <2>1. SpentOK'
    BY Spending DEF Accept, Typed, Events
  <2>. QED BY <1>1, <2>1 DEF Began
<1>3. RowsOK' /\ EndingOK' /\ PhaseOK' /\ LogOK'
  BY <1>1, <1>2 DEF Typed, RowsOK, EndingOK, PhaseOK, LogOK
<1>4. CASE UNCHANGED <<queues, work>>
  <2>1. QueuesOK' /\ WorkOK' /\ Attended' /\ PlacesOK'
    BY <1>1, <1>2, <1>4 DEF Typed, QueuesOK, WorkOK, Busy, Attended, PlacesOK, Draining, AllDrained, AtWork, Working
  <2>. QED BY <1>2, <1>3, <2>1 DEF Typed
<1>5. CASE /\ queues' \in [Channels -> Seq(Chunk)] /\ \A d \in Channels \ {c} : queues'[d] = queues[d]
           /\ work' = IF Draining(c) THEN work ELSE [work EXCEPT ![c] = Ready]
  <2>1. Ready.step = "next"
    BY DEF Ready
  <2>2. /\ work' \in [Channels -> Work \cup {Idle, Ready}]
        /\ \A d \in Channels \ {c} : work'[d] = work[d]
        /\ work'[c] = Ready \/ (work'[c] = work[c] /\ Draining(c))
    BY <1>5 DEF Typed, WorkOK
  <2>3. WorkOK'
    BY <1>2, <2>1, <2>2 DEF Typed, WorkOK, Busy
  <2>4. AtWork' \subseteq AtWork
    BY <2>1, <2>2 DEF AtWork, Working
  <2>5. PlacesOK'
    BY <2>4, FewerAtWork DEF Typed
  <2>6. Attended'
    BY <1>1, <1>5, <2>1, <2>2 DEF Typed, Attended, Draining
  <2>. QED BY <1>2, <1>3, <1>5, <2>3, <2>5, <2>6 DEF Typed, QueuesOK
<1>. QED BY <1>4, <1>5, Accepts

\* The steps of the process, and none.
Lives == Close \/ Cancel \/ Closed \/ Crash \/ Restart \/ Rest \/ UNCHANGED vars

\* They leave what a channel has, or take all that is not stored from every channel.
Stays == UNCHANGED <<queues, work, ending>>
Emptied == /\ queues' = [c \in Channels |-> <<>>] /\ work' = [c \in Channels |-> Idle]
           /\ ending' = [c \in Channels |-> {}]

LEMMA LivesFrame ==
  ASSUME Typed, ConstantsAssumption, Lives
  PROVE  /\ UNCHANGED <<row, log>> /\ SpentOK' /\ spent'["row"] = spent["row"] /\ spent'["chunk"] = spent["chunk"]
         /\ PhaseOK'
         /\ \/ Stays /\ (phase' = "down" => phase = "down")
            \/ Emptied
<1>1. Nothing \/ Happens("stop")
  BY DEF Lives, Close, Cancel, Closed, Crash, Restart, Rest, Nothing, vars
<1>2. SpentOK'
  BY <1>1, Spending DEF Typed, Events
<1>3. spent'["row"] = spent["row"] /\ spent'["chunk"] = spent["chunk"]
  BY <1>1 DEF Typed, SpentOK, Nothing, Happens, Events
<1>4. /\ UNCHANGED <<row, log>> /\ PhaseOK'
      /\ \/ Stays /\ (phase' = "down" => phase = "down")
         \/ Emptied
  BY DEF Lives, Close, Cancel, Closed, Crash, Restart, Rest, vars, StopFrame, GoDown, Stays, Emptied, PhaseOK, Typed
<1>. QED BY <1>2, <1>3, <1>4

LEMMA LivesKeepTypes ==
  ASSUME Typed, ConstantsAssumption, Lives
  PROVE  Typed'
<1>1. /\ UNCHANGED <<row, log>> /\ SpentOK' /\ PhaseOK' /\ Began' = Began
  BY LivesFrame DEF Began
<1>2. RowsOK' /\ LogOK'
  BY <1>1 DEF Typed, RowsOK, LogOK
<1>3. CASE Stays /\ (phase' = "down" => phase = "down")
  <2>1. QueuesOK' /\ WorkOK' /\ EndingOK' /\ Attended' /\ PlacesOK'
    BY <1>1, <1>3 DEF Typed, Stays, QueuesOK, WorkOK, Busy, EndingOK, Attended, PlacesOK, Draining, AllDrained,
                      AtWork, Working
  <2>. QED BY <1>1, <1>2, <2>1 DEF Typed
<1>4. CASE Emptied
  <2>1. Idle.step = "idle"
    BY DEF Idle
  <2>2. 0 \in Began'
    BY <1>1 DEF SpentOK, Began, Events
  <2>3. QueuesOK' /\ WorkOK' /\ EndingOK' /\ Attended'
    BY <1>4, <2>1, <2>2 DEF Emptied, QueuesOK, WorkOK, Busy, EndingOK, Attended, Draining, AllDrained
  <2>4. AtWork' \subseteq AtWork
    BY <1>4, <2>1 DEF Emptied, AtWork, Working
  <2>5. PlacesOK'
    BY <2>4, FewerAtWork DEF Typed
  <2>. QED BY <1>1, <1>2, <2>3, <2>5 DEF Typed
<1>. QED BY <1>3, <1>4, LivesFrame

-----------------------------------------------------------------------------
(* The order of the chunks.                                                 *)

\* The chunks of a queue came one after the other, and after the chunk at work.
Queued(c) ==
  /\ \A i \in Places(queues[c]) : queues[c][i].id <= spent["chunk"]
  /\ \A i, j \in Places(queues[c]) : i < j => queues[c][i].id < queues[c][j].id
  /\ Busy(c) => /\ work[c].id <= spent["chunk"]
                /\ \A i \in Places(queues[c]) : work[c].id < queues[c][i].id

\* What is published comes from the chunk at work, up to where it is, or from an earlier one.
NotAhead(c) ==
  \A j \in Places(log[c]) : FromChunk(log[c][j]) =>
    /\ log[c][j].chunk <= spent["chunk"]
    /\ \A i \in Places(queues[c]) : log[c][j].chunk < queues[c][i].id
    /\ Busy(c) => \/ log[c][j].chunk < work[c].id
                  \/ log[c][j].chunk = work[c].id /\ log[c][j].n <= work[c].at

\* Every batch of the chunk at work before where it is has been published.
Sent(c) ==
  Busy(c) => \A n \in 1..work[c].shape.batches :
    n < work[c].at \/ (n = work[c].at /\ work[c].step = "count") =>
      \E j \in Places(log[c]) : log[c][j].chunk = work[c].id /\ log[c][j].n = n

InPosition(c) == Busy(c) => Positioned(c, work[c])

\* WholeAndInOrder for message j of a channel.
Whole(c, j) ==
  FromChunk(log[c][j]) =>
    /\ \A i \in 1..(j - 1) : FromChunk(log[c][i]) =>
         \/ log[c][i].chunk < log[c][j].chunk
         \/ log[c][i].chunk = log[c][j].chunk /\ log[c][i].n <= log[c][j].n
    /\ log[c][j].n > 1 =>
         \E i \in 1..(j - 1) : log[c][i].chunk = log[c][j].chunk /\ log[c][i].n = log[c][j].n - 1
WholeLog(c) == \A j \in Places(log[c]) : Whole(c, j)

(* The replaced imports.                                                    *)

Replaces(c, b) == b \in Places(log[c]) /\ log[c][b].kind \in {"begin", "clear"}

\* The channel had the import before position b.
Before(c, b, import) == \E a \in 1..(b - 1) : log[c][a].import = import

\* Message j, after b, is for one of those.
Late(c, b, j) == j \in b..Len(log[c]) /\ FromChunk(log[c][j]) /\ Before(c, b, log[c][j].import)

\* No import of before b is the one of the row; one message at most was late, and after
\* it the goroutine is not about to publish for such an import.
Quiet(c, b) ==
  /\ row[c].import # 0 => ~Before(c, b, row[c].import)
  /\ \A i, j \in Places(log[c]) : Late(c, b, i) /\ Late(c, b, j) => i = j
  /\ \A j \in Places(log[c]) : Late(c, b, j) /\ work[c].step = "publish" => ~Before(c, b, work[c].import)
Silent(c) == \A b \in Places(log[c]) : Replaces(c, b) => Quiet(c, b)

ChannelInv(c) == Queued(c) /\ NotAhead(c) /\ Sent(c) /\ InPosition(c) /\ WholeLog(c) /\ Silent(c)

IInv == Typed /\ \A c \in Channels : ChannelInv(c)

LEMMA InvIsWhole ==
  ASSUME IInv
  PROVE  WholeAndInOrder
BY DEF IInv, ChannelInv, WholeLog, Whole, WholeAndInOrder, Places

LEMMA InvIsReleased ==
  ASSUME ConstantsAssumption, IInv
  PROVE  ReleasedWhenPublished
<1> SUFFICES ASSUME NEW c \in Channels, work[c].step = "release", work[c].shape.importable, Matches(c),
                    NEW n \in 1..work[c].shape.batches
             PROVE  \E j \in 1..Len(log[c]) : log[c][j].chunk = work[c].id /\ log[c][j].n = n
  BY DEF ReleasedWhenPublished
<1>1. Busy(c)
  BY DEF Busy
<1>2. work[c].shape.batches \in Nat
  BY <1>1, BusyWork, ShapeTyped DEF IInv, Typed
<1>3. Positioned(c, work[c]) /\ Sent(c)
  BY <1>1 DEF IInv, ChannelInv, InPosition
<1>4. work[c].at = work[c].shape.batches + 1
  BY <1>3 DEF Positioned, Matches
<1>5. n < work[c].at
  BY <1>2, <1>4
<1>. QED BY <1>1, <1>3, <1>5 DEF Sent, Places

LEMMA InvIsSilent ==
  ASSUME IInv
  PROVE  SilentOnceReplaced
<1> SUFFICES ASSUME NEW c \in Channels, NEW b \in 1..Len(log[c]), log[c][b].kind \in {"begin", "clear"}
             PROVE  LET old   == {log[c][a].import : a \in 1..(b - 1)}
                        later == {j \in b..Len(log[c]) : FromChunk(log[c][j]) /\ log[c][j].import \in old}
                    IN  Cardinality(later) <= 1
  BY DEF SilentOnceReplaced
<1> DEFINE old   == {log[c][a].import : a \in 1..(b - 1)}
           later == {j \in b..Len(log[c]) : FromChunk(log[c][j]) /\ log[c][j].import \in old}
<1>1. \A i, j \in later : i = j
  <2>1. Quiet(c, b)
    BY DEF IInv, ChannelInv, Silent, Replaces, Places
  <2>2. Len(log[c]) \in Nat
    BY DEF IInv, Typed, LogOK
  <2>3. \A j \in later : j \in Places(log[c]) /\ Late(c, b, j)
    BY <2>2 DEF Places, Late, Before
  <2>. HIDE DEF later
  <2>. QED BY <2>1, <2>3 DEF Quiet
<1>. HIDE DEF later
<1>2. ASSUME later = {}
      PROVE  Cardinality(later) <= 1
  BY <1>2, FS_EmptySet
<1>3. ASSUME later # {}
      PROVE  Cardinality(later) <= 1
  <2>1. PICK j \in later : TRUE
    BY <1>3
  <2>2. later = {j}
    BY <1>1, <2>1
  <2>3. Cardinality({j}) = 1
    BY FS_Singleton
  <2>. QED BY <2>2, <2>3
<1>4. Cardinality(later) <= 1
  BY <1>2, <1>3
<1>. QED BY <1>4 DEF later

-----------------------------------------------------------------------------
(* What a step does to the order of a channel.                              *)

LEMMA LogShape ==
  ASSUME Typed, NEW c \in Channels
  PROVE  /\ Len(log[c]) \in Nat /\ Len(queues[c]) \in Nat
         /\ \A j \in Places(log[c]) : log[c][j] \in Entry /\ log[c][j].chunk \in Nat /\ log[c][j].n \in Nat
         /\ \A i \in Places(queues[c]) : queues[c][i].id \in Nat
         /\ spent["chunk"] \in Nat /\ row[c].import \in Nat
<1>1. log[c] \in Seq(Entry) /\ queues[c] \in Seq(Chunk) /\ row[c].import \in 0..spent["row"]
  BY DEF Typed, LogOK, QueuesOK, RowsOK, Began
<1>2. \A j \in Places(log[c]) : log[c][j] \in Entry
  BY <1>1 DEF Places
<1>3. \A j \in Places(queues[c]) : queues[c][j] \in Chunk
  BY <1>1 DEF Places
<1>. QED BY <1>1, <1>2, <1>3 DEF Entry, Chunk, Typed, SpentOK, Events

\* Nothing of the channel changes but the import of its row, which does not come back.
LEMMA Untouched ==
  ASSUME Typed, NEW c \in Channels, ChannelInv(c), UNCHANGED <<queues[c], work[c], log[c]>>,
         spent'["chunk"] \in Nat, spent["chunk"] <= spent'["chunk"],
         \/ row'[c].import = row[c].import /\ (row'[c].expired = row[c].expired \/ row'[c].expired)
         \/ row'[c].import = 0
  PROVE  ChannelInv(c)'
<1>1. Queued(c)' /\ NotAhead(c)'
  BY LogShape, BusyWork DEF ChannelInv, Queued, NotAhead, Busy, FromChunk, Places, Typed
<1>2. Sent(c)' /\ WholeLog(c)'
  BY DEF ChannelInv, Sent, Busy, Places, WholeLog, Whole, FromChunk
<1>3. InPosition(c)'
  <2>1. Live(c)' /\ row'[c].import = work[c].import => Live(c) /\ row[c].import = work[c].import
    BY DEF Live
  <2>. QED BY <2>1 DEF ChannelInv, InPosition, Busy, Positioned, Ends
<1>4. Silent(c)'
  <2>1. ASSUME NEW b \in Places(log[c]), Replaces(c, b)
        PROVE  Quiet(c, b)'
    <3>1. Quiet(c, b)
      BY <2>1 DEF ChannelInv, Silent
    <3>. QED BY <3>1 DEF Quiet, Before, Late, Places, FromChunk
  <2>. QED BY <2>1 DEF Silent, Replaces, Places
<1>. QED BY <1>1, <1>2, <1>3, <1>4 DEF ChannelInv

\* The goroutine goes on without a publish.
LEMMA QuietlyKeeps ==
  ASSUME Typed, ConstantsAssumption, NEW c \in Channels, ChannelInv(c), Quietly(c), RowKept(c),
         spent'["chunk"] = spent["chunk"]
  PROVE  ChannelInv(c)'
<1>1. PICK w \in Work : Advances(c, w) /\ Silently(c, w)
  BY DEF Quietly
<1>2. /\ work'[c] = w /\ Busy(c) /\ w.step \notin {"idle", "next"} /\ w.id = work[c].id
      /\ w.shape = work[c].shape /\ w.import \in {work[c].import, row[c].import}
      /\ queues'[c] = queues[c] /\ log'[c] = log[c]
  BY <1>1, WorkMoves DEF Advances, Silently
<1>3. /\ work[c].at \in Nat /\ w.at \in Nat /\ work[c].at <= w.at /\ work[c].id \in Nat
      /\ row'[c].import = row[c].import /\ row'[c].expired = row[c].expired
  BY <1>1, <1>2, BusyWork DEF Silently, RowKept, Typed, Work
<1>4. Busy(c)'
  BY <1>2 DEF Busy
<1>5. Queued(c)'
  BY <1>2, <1>4 DEF ChannelInv, Queued, Places
<1>6. NotAhead(c)'
  <2>1. ASSUME NEW j \in Places(log[c]), FromChunk(log[c][j])
        PROVE  \/ log[c][j].chunk < work[c].id
               \/ log[c][j].chunk = work[c].id /\ log[c][j].n <= w.at
    <3>1. \/ log[c][j].chunk < work[c].id
          \/ log[c][j].chunk = work[c].id /\ log[c][j].n <= work[c].at
      BY <1>2, <2>1 DEF ChannelInv, NotAhead
    <3>. QED BY <1>3, <3>1, LogShape
  <2>. QED BY <1>2, <2>1 DEF ChannelInv, NotAhead, Places, FromChunk
<1>7. Sent(c)'
  <2>1. w.shape.batches \in Nat
    BY ShapeTyped DEF Work
  <2>2. \A n \in 1..w.shape.batches : n < w.at \/ (n = w.at /\ w.step = "count") =>
          n < work[c].at \/ (n = work[c].at /\ work[c].step = "count")
    BY <1>1, <2>1 DEF Silently
  <2>. QED BY <1>2, <2>2 DEF ChannelInv, Sent, Places
<1>8. InPosition(c)'
  BY <1>1, <1>2, <1>3 DEF Silently, InPosition, Positioned, Live, Ends
<1>9. WholeLog(c)'
  BY <1>2 DEF ChannelInv, WholeLog, Whole, FromChunk, Places
<1>10. Silent(c)'
  <2>1. ASSUME NEW b \in Places(log[c]), Replaces(c, b)
        PROVE  Quiet(c, b)'
    <3>1. Quiet(c, b)
      BY <2>1 DEF ChannelInv, Silent
    <3>2. w.step = "publish" => ~Before(c, b, w.import)
      BY <1>1, <3>1 DEF Silently, Matches, Live, Quiet
    <3>. QED BY <1>2, <1>3, <3>1, <3>2 DEF Quiet, Before, Late, Places, FromChunk
  <2>. QED BY <1>2, <2>1 DEF Silent, Replaces, Places
<1>. QED BY <1>5, <1>6, <1>7, <1>8, <1>9, <1>10 DEF ChannelInv

\* Silence needs only that the goroutine is not newly about to publish.
LEMMA SilentStays ==
  ASSUME NEW c \in Channels, Silent(c), log'[c] = log[c], row'[c].import = row[c].import,
         work'[c].step = "publish" => work'[c] = work[c]
  PROVE  Silent(c)'
<1>1. ASSUME NEW b \in Places(log[c]), Replaces(c, b)
      PROVE  Quiet(c, b)'
  <2>1. Quiet(c, b)
    BY <1>1 DEF Silent
  <2>2. \A i : Before(c, b, i)' <=> Before(c, b, i)
    BY DEF Before
  <2>3. \A j : Late(c, b, j)' <=> Late(c, b, j)
    BY <2>2 DEF Late, FromChunk
  <2>4. \A j \in Places(log[c]) : Late(c, b, j) /\ work'[c].step = "publish" => ~Before(c, b, work'[c].import)
    BY <2>1 DEF Quiet
  <2>. QED BY <2>1, <2>2, <2>3, <2>4 DEF Quiet, Places
<1>. QED BY <1>1 DEF Silent, Replaces, Places

\* The channel has no chunk at work after the step: none, or one that waits in the queue.
LEMMA FreedKeeps ==
  ASSUME Typed, NEW c \in Channels, ChannelInv(c), ~Busy(c)', UNCHANGED log[c],
         queues'[c] = queues[c] \/ queues'[c] = <<>>,
         row'[c].import = row[c].import, spent'["chunk"] = spent["chunk"]
  PROVE  ChannelInv(c)'
<1>1. Queued(c)' /\ NotAhead(c)'
  BY LogShape DEF ChannelInv, Queued, NotAhead, FromChunk, Places
<1>2. Sent(c)' /\ InPosition(c)'
  BY DEF Sent, InPosition
<1>3. WholeLog(c)'
  BY DEF ChannelInv, WholeLog, Whole, FromChunk, Places
<1>4. Silent(c)'
  <2>1. work'[c].step # "publish"
    BY DEF Busy
  <2>. QED BY <2>1, SilentStays DEF ChannelInv
<1>. QED BY <1>1, <1>2, <1>3, <1>4 DEF ChannelInv

LEMMA TakeNextKeeps ==
  ASSUME Typed, ConstantsAssumption, NEW c \in Channels, ChannelInv(c), TakeNext(c), RowKept(c),
         spent'["chunk"] = spent["chunk"]
  PROVE  ChannelInv(c)'
<1>1. CASE queues[c] = <<>> /\ work' = [work EXCEPT ![c] = Idle] /\ UNCHANGED <<queues, log>>
  <2>1. Idle.step = "idle" /\ Idle \in Work \cup {Idle, Ready}
    BY DEF Idle
  <2>2. ~Busy(c)'
    BY <1>1, <2>1, WorkMoves DEF Busy
  <2>. QED BY <1>1, <2>2, FreedKeeps DEF RowKept
<1>2. ASSUME NEW w \in Work, work' = [work EXCEPT ![c] = w],
             w.step = "slot", w.id = queues[c][1].id, w.shape = queues[c][1].shape, w.at = 0,
             Len(queues'[c]) = Len(queues[c]) - 1, Len(queues[c]) \in Nat \ {0},
             \A i \in Places(queues'[c]) : queues'[c][i] = queues[c][i + 1], UNCHANGED log
      PROVE  ChannelInv(c)'
  <2>1. work'[c] = w /\ Busy(c)' /\ log'[c] = log[c] /\ row'[c].import = row[c].import
    BY <1>2, WorkMoves DEF Busy, RowKept
  <2>2. 1 \in Places(queues[c]) /\ \A i \in Places(queues'[c]) : i + 1 \in Places(queues[c]) /\ 1 < i + 1
    BY <1>2 DEF Places
  <2>3. /\ \A i \in Places(queues[c]) : queues[c][i].id <= spent["chunk"]
        /\ \A i, j \in Places(queues[c]) : i < j => queues[c][i].id < queues[c][j].id
    BY DEF ChannelInv, Queued
  <2>4. Queued(c)'
    <3>1. \A i, j \in Places(queues'[c]) : i < j => i + 1 < j + 1
      BY DEF Places
    <3>2. \A i \in Places(queues'[c]) : queues'[c][i].id <= spent["chunk"] /\ w.id < queues'[c][i].id
      BY <1>2, <2>2, <2>3
    <3>3. \A i, j \in Places(queues'[c]) : i < j => queues'[c][i].id < queues'[c][j].id
      BY <1>2, <2>2, <2>3, <3>1
    <3>4. w.id <= spent["chunk"]
      BY <1>2, <2>2, <2>3
    <3>. QED BY <2>1, <3>2, <3>3, <3>4 DEF Queued
  <2>5. NotAhead(c)'
    <3>1. \A j \in Places(log[c]) : FromChunk(log[c][j]) =>
             /\ log[c][j].chunk <= spent["chunk"]
             /\ \A i \in Places(queues'[c]) : log[c][j].chunk < queues'[c][i].id
             /\ log[c][j].chunk < w.id
      BY <1>2, <2>2 DEF ChannelInv, NotAhead
    <3>. QED BY <2>1, <3>1 DEF NotAhead, FromChunk, Places
  <2>6. w.shape.batches \in Nat
    BY ShapeTyped DEF Work
  <2>7. Sent(c)' /\ InPosition(c)'
    <3>1. \A n \in 1..w.shape.batches : ~(n < w.at \/ (n = w.at /\ w.step = "count"))
      BY <1>2, <2>6
    <3>2. w.at \in 0..(w.shape.batches + 1)
      BY <1>2, <2>6
    <3>. QED BY <1>2, <2>1, <3>1, <3>2 DEF Sent, InPosition, Positioned
  <2>8. WholeLog(c)'
    BY <2>1 DEF ChannelInv, WholeLog, Whole, FromChunk, Places
  <2>9. Silent(c)'
    <3>1. work'[c].step # "publish"
      BY <1>2, <2>1
    <3>. QED BY <2>1, <3>1, SilentStays DEF ChannelInv
  <2>. QED BY <2>4, <2>5, <2>7, <2>8, <2>9 DEF ChannelInv
<1>. QED BY <1>1, <1>2, TakesNext

LEMMA AcceptKeeps ==
  ASSUME Typed, ConstantsAssumption, NEW c \in Channels, ChannelInv(c), NEW shape \in Shapes, Accept(c, shape)
  PROVE  ChannelInv(c)'
<1>1. /\ spent["chunk"] \in Nat /\ spent'["chunk"] = spent["chunk"] + 1
      /\ UNCHANGED <<row, log>>
  BY Accepts
<1>2. CASE UNCHANGED <<queues, work>>
  BY <1>1, <1>2, Untouched
<1>3. CASE /\ Len(queues[c]) \in Nat /\ Len(queues'[c]) = Len(queues[c]) + 1
           /\ \A i \in Places(queues[c]) : queues'[c][i] = queues[c][i]
           /\ queues'[c][Len(queues[c]) + 1].id = spent'["chunk"]
           /\ work' = IF Draining(c) THEN work ELSE [work EXCEPT ![c] = Ready]
  <2>1. work'[c] = work[c] \/ (~Busy(c) /\ work'[c] = Ready)
    BY <1>3 DEF Draining, Busy, Typed, WorkOK
  <2>2. (Busy(c)' <=> Busy(c)) /\ (Busy(c)' => work'[c] = work[c]) /\ (work'[c].step = "publish" => work'[c] = work[c])
    BY <2>1 DEF Busy, Ready
  <2>3. \A i \in Places(queues'[c]) : \/ i \in Places(queues[c]) /\ queues'[c][i] = queues[c][i]
                                      \/ i = Len(queues[c]) + 1 /\ queues'[c][i].id = spent["chunk"] + 1
    <3>1. \A i \in Places(queues'[c]) : i \in Places(queues[c]) \/ i = Len(queues[c]) + 1
      BY <1>3 DEF Places
    <3>. QED BY <1>1, <1>3, <3>1
  <2>4. /\ \A i \in Places(queues[c]) : queues[c][i].id <= spent["chunk"] /\ queues[c][i].id \in Nat
        /\ \A i, j \in Places(queues[c]) : i < j => queues[c][i].id < queues[c][j].id
        /\ Busy(c) => /\ work[c].id <= spent["chunk"] /\ work[c].id \in Nat
                      /\ \A i \in Places(queues[c]) : work[c].id < queues[c][i].id
    BY LogShape, BusyWork DEF ChannelInv, Queued, Typed
  <2>5. Queued(c)'
    <3>1. \A i \in Places(queues'[c]) : queues'[c][i].id <= spent'["chunk"]
      BY <1>1, <2>3, <2>4
    <3>2. ASSUME NEW i \in Places(queues'[c]), NEW j \in Places(queues'[c]), i < j
          PROVE  queues'[c][i].id < queues'[c][j].id
      <4>1. i \in Places(queues[c]) /\ queues'[c][i] = queues[c][i]
        BY <1>3, <2>3, <3>2 DEF Places
      <4>2. CASE j \in Places(queues[c]) /\ queues'[c][j] = queues[c][j]
        BY <2>4, <3>2, <4>1, <4>2
      <4>3. CASE queues'[c][j].id = spent["chunk"] + 1
        BY <1>1, <2>4, <4>1, <4>3
      <4>. QED BY <2>3, <4>2, <4>3
    <3>3. Busy(c)' => /\ work'[c].id <= spent'["chunk"]
                      /\ \A i \in Places(queues'[c]) : work'[c].id < queues'[c][i].id
      BY <1>1, <2>2, <2>3, <2>4
    <3>. QED BY <3>1, <3>2, <3>3 DEF Queued
  <2>6. NotAhead(c)'
    <3>1. ASSUME NEW j \in Places(log[c]), FromChunk(log[c][j])
          PROVE  /\ log[c][j].chunk <= spent'["chunk"]
                 /\ \A i \in Places(queues'[c]) : log[c][j].chunk < queues'[c][i].id
      <4>1. log[c][j].chunk \in Nat /\ log[c][j].chunk <= spent["chunk"]
            /\ \A i \in Places(queues[c]) : log[c][j].chunk < queues[c][i].id
        BY <3>1, LogShape DEF ChannelInv, NotAhead
      <4>. QED BY <1>1, <2>3, <4>1
    <3>. QED BY <1>1, <2>2, <3>1 DEF ChannelInv, NotAhead, FromChunk, Places
  <2>7. Sent(c)' /\ InPosition(c)'
    BY <1>1, <2>2 DEF ChannelInv, Sent, InPosition, Positioned, Live, Ends, Places
  <2>8. WholeLog(c)'
    BY <1>1 DEF ChannelInv, WholeLog, Whole, FromChunk, Places
  <2>9. Silent(c)'
    BY <1>1, <2>2, SilentStays DEF ChannelInv
  <2>. QED BY <2>5, <2>6, <2>7, <2>8, <2>9 DEF ChannelInv
<1>. QED BY <1>2, <1>3, Accepts

\* A message of the chunk at work is published: it comes after every batch before it.
LEMMA PublishesKeep ==
  ASSUME Typed, ConstantsAssumption, NEW c \in Channels, ChannelInv(c), Publishes(c), RowKept(c),
         spent'["chunk"] = spent["chunk"]
  PROVE  ChannelInv(c)'
<1>1. PICK w \in Work :
        /\ Advances(c, w) /\ Positioned(c, w)
        /\ work[c].step = "publish" /\ w.step \in {"count", "finish", "check"}
        /\ w.at = work[c].at /\ w.import = work[c].import
        /\ UNCHANGED queues
        /\ \/ Says(c, Message(c))
           \/ UNCHANGED log /\ w.step = "check"
  BY DEF Publishes
<1>2. /\ work'[c] = w /\ Busy(c) /\ w.id = work[c].id /\ w.shape = work[c].shape
      /\ queues'[c] = queues[c] /\ row'[c].import = row[c].import /\ row'[c].expired = row[c].expired
      /\ work[c].at = w.at /\ w.import = work[c].import
      /\ w.step \notin {"idle", "next", "publish"}
  BY <1>1, WorkMoves DEF Advances, RowKept
<1>3. Busy(c)' /\ work[c].at \in Nat /\ work[c].id \in Nat /\ w.shape.batches \in Nat
  BY <1>2, BusyWork, ShapeTyped DEF Busy, Typed, Work
<1>4. Queued(c)'
  BY <1>2, <1>3 DEF ChannelInv, Queued, Places
<1>5. InPosition(c)'
  BY <1>1, <1>2 DEF InPosition, Positioned, Live, Ends
<1>6. CASE UNCHANGED log /\ w.step = "check"
  <2>1. NotAhead(c)'
    BY <1>2, <1>6 DEF ChannelInv, NotAhead, FromChunk, Places
  <2>3. Sent(c)'
    BY <1>2, <1>6 DEF ChannelInv, Sent, Places
  <2>4. WholeLog(c)'
    BY <1>6 DEF ChannelInv, WholeLog, Whole, FromChunk, Places
  <2>2. Silent(c)'
    BY <1>2, <1>6, SilentStays DEF ChannelInv
  <2>. QED BY <1>4, <1>5, <2>1, <2>2, <2>3, <2>4 DEF ChannelInv
<1>7. CASE Says(c, Message(c))
  <2> DEFINE m == Message(c)
             l == Len(log[c]) + 1
  <2>1. m \in Entry /\ m.import = work[c].import /\ m.chunk = work[c].id /\ m.n = work[c].at /\ FromChunk(m)
    BY <1>2, MessageTyped
  <2>2. /\ Len(log[c]) \in Nat /\ Len(log'[c]) = l /\ log'[c][l] = m
        /\ \A j \in Places(log[c]) : log'[c][j] = log[c][j]
    BY <1>7, <2>1, SaysOne DEF Typed
  <2>. HIDE DEF m
  <2>3. Places(log'[c]) = Places(log[c]) \cup {l} /\ l \notin Places(log[c]) /\ l \in Nat
    BY <2>2 DEF Places
  <2>. HIDE DEF l
  <2>4. NotAhead(c)'
    <3>1. ASSUME NEW j \in Places(log[c]), FromChunk(log[c][j])
          PROVE  /\ log[c][j].chunk <= spent["chunk"]
                 /\ \A i \in Places(queues[c]) : log[c][j].chunk < queues[c][i].id
                 /\ \/ log[c][j].chunk < work[c].id
                    \/ log[c][j].chunk = work[c].id /\ log[c][j].n <= work[c].at
      BY <1>2, <3>1 DEF ChannelInv, NotAhead
    <3>2. /\ m.chunk <= spent["chunk"] /\ m.n <= work[c].at
          /\ \A i \in Places(queues[c]) : m.chunk < queues[c][i].id
      BY <1>2, <1>3, <2>1 DEF ChannelInv, Queued
    <3>. QED BY <1>2, <1>3, <2>1, <2>2, <2>3, <3>1, <3>2 DEF NotAhead, FromChunk, Places
  <2>5. Sent(c)'
    <3>1. ASSUME NEW n \in 1..w.shape.batches, n < w.at \/ (n = w.at /\ w.step = "count")
          PROVE  \E j \in Places(log'[c]) : log'[c][j].chunk = w.id /\ log'[c][j].n = n
      <4>1. CASE n < w.at
        <5>1. PICK j \in Places(log[c]) : log[c][j].chunk = work[c].id /\ log[c][j].n = n
          BY <1>2, <4>1 DEF ChannelInv, Sent
        <5>. QED BY <1>2, <2>2, <2>3, <5>1
      <4>2. CASE n = w.at
        BY <1>2, <2>1, <2>2, <2>3, <4>2
      <4>. QED BY <3>1, <4>1, <4>2
    <3>. QED BY <1>2, <3>1 DEF Sent, Places
  <2>6. WholeLog(c)'
    <3> DEFINE Now(j) ==
          FromChunk(log'[c][j]) =>
            /\ \A i \in 1..(j - 1) : FromChunk(log'[c][i]) =>
                 \/ log'[c][i].chunk < log'[c][j].chunk
                 \/ log'[c][i].chunk = log'[c][j].chunk /\ log'[c][i].n <= log'[c][j].n
            /\ log'[c][j].n > 1 =>
                 \E i \in 1..(j - 1) : log'[c][i].chunk = log'[c][j].chunk /\ log'[c][i].n = log'[c][j].n - 1
    <3>1. ASSUME NEW j \in Places(log[c])
          PROVE  Now(j)
      <4>1. Whole(c, j)
        BY DEF ChannelInv, WholeLog
      <4>2. \A i \in 1..(j - 1) : i \in Places(log[c])
        BY <2>2 DEF Places
      <4>. QED BY <2>2, <4>1, <4>2 DEF Whole
    <3>2. Now(l)
      <4>1. \A i \in 1..(l - 1) : i \in Places(log[c]) /\ log'[c][i] = log[c][i]
        BY <2>2 DEF l, Places
      <4>2. \A i \in Places(log[c]) : FromChunk(log[c][i]) =>
              \/ log[c][i].chunk < m.chunk
              \/ log[c][i].chunk = m.chunk /\ log[c][i].n <= m.n
        BY <1>2, <2>1 DEF ChannelInv, NotAhead
      <4>3. ASSUME m.n > 1
            PROVE  \E i \in Places(log[c]) : log[c][i].chunk = m.chunk /\ log[c][i].n = m.n - 1
        <5>1. m.n - 1 \in 1..work[c].shape.batches /\ m.n - 1 < work[c].at
          <6>1. w.at \in 0..(w.shape.batches + 1)
            BY <1>1 DEF Positioned
          <6>. QED BY <1>2, <1>3, <2>1, <4>3, <6>1
        <5>. QED BY <1>2, <2>1, <5>1 DEF ChannelInv, Sent
      <4>4. Places(log[c]) = 1..(l - 1)
        BY <2>2 DEF l, Places
      <4>5. m.n > 1 => \E i \in 1..(l - 1) : log'[c][i].chunk = m.chunk /\ log'[c][i].n = m.n - 1
        BY <4>1, <4>3, <4>4
      <4>6. \A i \in 1..(l - 1) : FromChunk(log'[c][i]) =>
              \/ log'[c][i].chunk < m.chunk
              \/ log'[c][i].chunk = m.chunk /\ log'[c][i].n <= m.n
        BY <4>1, <4>2
      <4>. QED BY <2>2, <4>5, <4>6
    <3>. HIDE DEF Now
    <3>3. \A j \in Places(log'[c]) : Now(j)
      BY <2>3, <3>1, <3>2
    <3>. QED BY <3>3 DEF WholeLog, Whole, FromChunk, Places, Now
  <2>7. Silent(c)'
    <3>1. ASSUME NEW b \in Places(log'[c]), Replaces(c, b)'
          PROVE  Quiet(c, b)'
      <4> DEFINE LateNow(j) == /\ j \in b..Len(log'[c]) /\ FromChunk(log'[c][j])
                               /\ Before(c, b, log'[c][j].import)
      <4>1. b \in Places(log[c]) /\ Replaces(c, b)
        BY <2>1, <2>2, <2>3, <3>1 DEF Replaces, FromChunk
      <4>2. Quiet(c, b)
        BY <4>1 DEF ChannelInv, Silent
      <4>3. \A a \in 1..(b - 1) : log'[c][a] = log[c][a]
        <5>1. \A a \in 1..(b - 1) : a \in Places(log[c])
          BY <2>2, <4>1 DEF Places
        <5>. QED BY <2>2, <5>1
      <4>4. ASSUME NEW j \in Places(log[c]), LateNow(j)
            PROVE  Late(c, b, j)
        <5>1. log'[c][j] = log[c][j] /\ (j \in b..Len(log'[c]) <=> j \in b..Len(log[c]))
          BY <2>2 DEF Places, l
        <5>. QED BY <4>4, <5>1 DEF Late
      <4>5. LateNow(l) => Before(c, b, work[c].import)
        BY <2>1, <2>2
      <4>. HIDE DEF LateNow
      <4>6. ASSUME NEW i \in Places(log'[c]), NEW j \in Places(log'[c]), LateNow(i), LateNow(j)
            PROVE  i = j
        <5>1. CASE i \in Places(log[c]) /\ j \in Places(log[c])
          BY <4>2, <4>4, <4>6, <5>1 DEF Quiet
        <5>2. ASSUME NEW k \in Places(log[c]), LateNow(k), LateNow(l)
              PROVE  FALSE
          BY <1>1, <4>2, <4>4, <4>5, <5>2 DEF Quiet
        <5>. QED BY <2>3, <4>6, <5>1, <5>2
      <4>7. row'[c].import # 0 => ~Before(c, b, row'[c].import)
        BY <1>2, <4>2 DEF Quiet
      <4>8. work'[c].step # "publish"
        BY <1>2
      <4>9. \A i : (\E a \in 1..(b - 1) : log'[c][a].import = i) <=> Before(c, b, i)
        BY <4>3 DEF Before
      <4>10. \A j : Late(c, b, j)' => LateNow(j)
        BY <4>9 DEF Late, LateNow, FromChunk, Before
      <4>11. \A i, j \in Places(log'[c]) : Late(c, b, i)' /\ Late(c, b, j)' => i = j
        BY <4>6, <4>10
      <4>12. row'[c].import # 0 => ~\E a \in 1..(b - 1) : log'[c][a].import = row'[c].import
        BY <4>7, <4>9
      <4>. QED BY <4>8, <4>11, <4>12 DEF Quiet, Before, Places
    <3>. QED BY <3>1 DEF Silent
  <2>. QED BY <1>4, <1>5, <2>4, <2>5, <2>6, <2>7 DEF ChannelInv
<1>. QED BY <1>1, <1>6, <1>7

\* An import begins, is cleared or ends empty: the log gains a mark, and the import of
\* the row is the same, none, or one that no message has named.
LEMMA MarkKeeps ==
  ASSUME Typed, ConstantsAssumption, NEW c \in Channels, ChannelInv(c), UNCHANGED <<queues[c], work[c]>>,
         spent'["chunk"] = spent["chunk"], NEW m \in Entry, ~FromChunk(m), Says(c, m),
         \/ row'[c] = row[c] /\ m.kind = "empty"
         \/ row'[c].import \in {0, spent["row"] + 1}
  PROVE  ChannelInv(c)'
<1> DEFINE l == Len(log[c]) + 1
<1>1. /\ Len(log[c]) \in Nat /\ Len(log'[c]) = l /\ log'[c][l] = m
      /\ \A j \in Places(log[c]) : log'[c][j] = log[c][j]
  BY SaysOne DEF Typed
<1>2. Places(log'[c]) = Places(log[c]) \cup {l} /\ l \notin Places(log[c]) /\ l \in Nat
      /\ \A b \in Places(log'[c]) : \A a \in 1..(b - 1) : a \in Places(log[c])
  BY <1>1 DEF Places
<1>. HIDE DEF l
<1>3. \A j \in Places(log'[c]) : FromChunk(log'[c][j]) => j \in Places(log[c]) /\ log'[c][j] = log[c][j]
  BY <1>1, <1>2
<1>4. Queued(c)'
  BY DEF ChannelInv, Queued, Busy, Places
<1>5. NotAhead(c)'
  BY <1>3 DEF ChannelInv, NotAhead, Busy, FromChunk, Places
<1>6. Sent(c)'
  <2>1. ASSUME NEW n \in Nat, \E j \in Places(log[c]) : log[c][j].chunk = work[c].id /\ log[c][j].n = n
        PROVE  \E j \in Places(log'[c]) : log'[c][j].chunk = work[c].id /\ log'[c][j].n = n
    BY <1>1, <1>2, <2>1
  <2>2. ASSUME Busy(c)
        PROVE  \A n \in 1..work[c].shape.batches : n \in Nat
    <3>1. work[c].shape.batches \in Nat
      BY <2>2, BusyWork, ShapeTyped DEF Typed
    <3>. QED BY <3>1
  <2>. QED BY <2>1, <2>2 DEF ChannelInv, Sent, Busy, Places
<1>7. /\ spent["row"] \in Nat
      /\ \A j \in Places(log[c]) : log[c][j].import \in 0..spent["row"]
      /\ (Busy(c) => work[c].import \in 0..spent["row"])
  BY DEF Typed, SpentOK, LogOK, WorkOK, Began, Events
<1>8. InPosition(c)'
  <2>1. Busy(c) /\ Live(c)' /\ row'[c].import = work[c].import => Live(c) /\ row[c].import = work[c].import
    <3>1. CASE row'[c] = row[c]
      BY <3>1 DEF Live
    <3>2. CASE row'[c].import = 0
      BY <3>2 DEF Live
    <3>3. CASE row'[c].import = spent["row"] + 1
      <4>1. ASSUME Busy(c)
            PROVE  work[c].import # spent["row"] + 1
        <5>1. work[c].import \in 0..spent["row"] /\ spent["row"] \in Nat
          BY <1>7, <4>1
        <5>. QED BY <5>1
      <4>. QED BY <3>3, <4>1
    <3>. QED BY <3>1, <3>2, <3>3
  <2>. QED BY <2>1 DEF ChannelInv, InPosition, Busy, Positioned, Ends
<1>9. WholeLog(c)'
  <2> DEFINE Now(j) ==
        FromChunk(log'[c][j]) =>
          /\ \A i \in 1..(j - 1) : FromChunk(log'[c][i]) =>
               \/ log'[c][i].chunk < log'[c][j].chunk
               \/ log'[c][i].chunk = log'[c][j].chunk /\ log'[c][i].n <= log'[c][j].n
          /\ log'[c][j].n > 1 =>
               \E i \in 1..(j - 1) : log'[c][i].chunk = log'[c][j].chunk /\ log'[c][i].n = log'[c][j].n - 1
  <2>1. ASSUME NEW j \in Places(log[c])
        PROVE  Now(j)
    <3>1. Whole(c, j)
      BY DEF ChannelInv, WholeLog
    <3>2. \A i \in 1..(j - 1) : i \in Places(log[c])
      BY <1>2
    <3>. QED BY <1>1, <3>1, <3>2 DEF Whole
  <2>2. Now(l)
    BY <1>1
  <2>. HIDE DEF Now
  <2>3. \A j \in Places(log'[c]) : Now(j)
    BY <1>2, <2>1, <2>2
  <2>. QED BY <2>3 DEF WholeLog, Whole, FromChunk, Places, Now
<1>10. Silent(c)'
  <2>1. ASSUME NEW b \in Places(log'[c]), Replaces(c, b)'
        PROVE  Quiet(c, b)'
    <3>1. \A a \in 1..(b - 1) : a \in Places(log[c]) /\ log'[c][a] = log[c][a]
      BY <1>1, <1>2
    <3>2. \A i : (\E a \in 1..(b - 1) : log'[c][a].import = i) <=> Before(c, b, i)
      BY <3>1 DEF Before
    <3>3. ASSUME row'[c].import # 0
          PROVE  ~Before(c, b, row'[c].import)
      <4>1. CASE row'[c].import = spent["row"] + 1
        BY <1>7, <3>1, <4>1 DEF Before
      <4>2. CASE row'[c] = row[c] /\ m.kind = "empty"
        <5>1. b \in Places(log[c]) /\ Replaces(c, b)
          BY <1>1, <1>2, <2>1, <4>2 DEF Replaces
        <5>. QED BY <3>3, <4>2, <5>1 DEF ChannelInv, Silent, Quiet
      <4>. QED BY <3>3, <4>1, <4>2
    <3>4. ASSUME NEW j \in Places(log'[c]), Late(c, b, j)'
          PROVE  /\ j \in Places(log[c]) /\ Late(c, b, j)
                 /\ b \in Places(log[c]) /\ Replaces(c, b)
      <4>1. /\ j \in b..l /\ FromChunk(log'[c][j])
            /\ \E a \in 1..(b - 1) : log'[c][a].import = log'[c][j].import
        BY <1>1, <3>4 DEF Late, Before, FromChunk
      <4>2. j \in Places(log[c]) /\ log'[c][j] = log[c][j]
        BY <1>3, <4>1
      <4>3. b \in Places(log[c]) /\ j \in b..Len(log[c])
        BY <1>1, <1>2, <4>1, <4>2 DEF Places, l
      <4>4. Replaces(c, b)
        BY <1>1, <2>1, <4>3 DEF Replaces
      <4>. QED BY <3>2, <4>1, <4>2, <4>3, <4>4 DEF Late
    <3>5. \A i, j \in Places(log'[c]) : Late(c, b, i)' /\ Late(c, b, j)' => i = j
      BY <3>4 DEF ChannelInv, Silent, Quiet
    <3>6. \A j \in Places(log'[c]) : Late(c, b, j)' /\ work[c].step = "publish" => ~Before(c, b, work[c].import)
      BY <3>4 DEF ChannelInv, Silent, Quiet
    <3>7. row'[c].import # 0 => ~\E a \in 1..(b - 1) : log'[c][a].import = row'[c].import
      BY <3>2, <3>3
    <3>8. \A j \in Places(log'[c]) : Late(c, b, j)' /\ work'[c].step = "publish" =>
             ~\E a \in 1..(b - 1) : log'[c][a].import = work'[c].import
      BY <3>2, <3>6
    <3>. QED BY <3>5, <3>7, <3>8 DEF Quiet, Before, Places
  <2>. QED BY <2>1 DEF Silent, Places
<1>. QED BY <1>4, <1>5, <1>6, <1>8, <1>9, <1>10 DEF ChannelInv

LEMMA PairsKeep ==
  ASSUME Typed, ConstantsAssumption, NEW c \in Channels, ChannelInv(c), Pairs(c)
  PROVE  ChannelInv(c)'
<1>1. /\ UNCHANGED <<queues[c], work[c]>> /\ spent'["chunk"] = spent["chunk"] /\ spent["chunk"] \in Nat
      /\ row \in [Channels -> Row] /\ row[c].import \in Nat
  <2>1. GatewayFrame /\ spent'["chunk"] = spent["chunk"]
    BY PairsFrame, GatewayKeeps
  <2>. QED BY <2>1, LogShape DEF GatewayFrame, Typed, RowsOK
<1>2. CASE Begin(c)
  <2>1. spent'["row"] = spent["row"] + 1 /\ spent'["row"] \in Nat /\ spent'["row"] \in Imports \cup {0}
    BY <1>2 DEF Begin, Happens, Typed, SpentOK, Events, ConstantsAssumption, Imports
  <2>2. row' = [row EXCEPT ![c] = [NoRow EXCEPT !.import = spent'["row"]]] /\ Says(c, Mark("begin", spent'["row"]))
    BY <1>2 DEF Begin
  <2>3. row'[c].import = spent["row"] + 1
    BY <1>1, <2>1, <2>2, NoRowTyped
  <2>4. Mark("begin", spent'["row"]) \in Entry /\ ~FromChunk(Mark("begin", spent'["row"]))
    BY <2>1, MarkTyped
  <2>. QED BY <1>1, <2>2, <2>3, <2>4, MarkKeeps
<1>3. CASE Clear(c)
  <2>1. row'[c] = NoRow /\ Says(c, Mark("clear", 0)) /\ NoRow.import = 0
    BY <1>1, <1>3, NoRowTyped DEF Clear
  <2>2. Mark("clear", 0) \in Entry /\ ~FromChunk(Mark("clear", 0))
    BY MarkTyped
  <2>. QED BY <1>1, <2>1, <2>2, MarkKeeps
<1>4. CASE PublishEmptyEnd(c)
  <2>1. PICK e \in ending[c] : row' = row /\ (UNCHANGED log \/ Says(c, Mark("empty", e.import)))
    BY <1>4 DEF PublishEmptyEnd
  <2>2. e.import \in Nat
    BY DEF Typed, EndingOK, Ending, Imports
  <2>3. /\ Mark("empty", e.import) \in Entry /\ ~FromChunk(Mark("empty", e.import))
        /\ Mark("empty", e.import).kind = "empty"
    BY <2>2, MarkTyped
  <2>4. CASE UNCHANGED log
    BY <1>1, <2>1, <2>4, Untouched
  <2>5. CASE Says(c, Mark("empty", e.import))
    BY <1>1, <2>1, <2>3, <2>5, MarkKeeps
  <2>. QED BY <2>1, <2>4, <2>5
<1>5. CASE FinishEmptyImport(c) \/ Expire(c)
  <2>1. UNCHANGED log /\ (row' = row \/ row' = [row EXCEPT ![c].finished = TRUE] \/ row' = [row EXCEPT ![c].expired = TRUE])
    BY <1>5 DEF FinishEmptyImport, Expire
  <2>2. row'[c].import = row[c].import /\ (row'[c].expired = row[c].expired \/ row'[c].expired)
    BY <1>1, <2>1 DEF Row
  <2>. QED BY <1>1, <2>1, <2>2, Untouched
<1>. QED BY <1>2, <1>3, <1>4, <1>5 DEF Pairs

\* A step of the goroutine or of the gateway for a channel, or a chunk for it, leaves
\* every other channel alone.
LEMMA OthersStay ==
  ASSUME Typed, ConstantsAssumption, NEW c \in Channels, NEW d \in Channels \ {c}, ChannelInv(d),
         Drain(c) \/ Pairs(c) \/ \E shape \in Shapes : Accept(c, shape)
  PROVE  ChannelInv(d)'
<1>1. spent'["chunk"] \in Nat /\ spent["chunk"] <= spent'["chunk"]
  BY DrainFrame, PairsFrame, GatewayKeeps, Accepts DEF Typed, SpentOK, Nothing, Happens, Events
<1>2. UNCHANGED <<queues[d], work[d], log[d], row[d]>>
  <2>1. CASE Drain(c)
    BY <2>1 DEF Drain, TakeNext, TakePlace, Abort, Download, Lookup, Persist, PersistFails, Check, Publish,
       PublishFails, Release, ChunkFrame, RowFrame, Goto, Return, Says, Again, Typed, WorkOK, RowsOK, QueuesOK, LogOK
  <2>2. CASE Pairs(c)
    BY <2>2 DEF Pairs, Begin, Clear, PublishEmptyEnd, FinishEmptyImport, Expire, GatewayFrame, Says,
       Typed, WorkOK, RowsOK, QueuesOK, LogOK
  <2>3. CASE \E shape \in Shapes : Accept(c, shape)
    BY <2>3 DEF Accept, RowFrame, Typed, WorkOK, RowsOK, QueuesOK, LogOK
  <2>. QED BY <2>1, <2>2, <2>3
<1>. QED BY <1>1, <1>2, Untouched

LEMMA DrainKeeps ==
  ASSUME Typed, ConstantsAssumption, NEW c \in Channels, ChannelInv(c), Drain(c)
  PROVE  ChannelInv(c)'
<1>1. RowKept(c) /\ spent'["chunk"] = spent["chunk"]
  BY DrainKeepsRow, DrainFrame DEF Typed, SpentOK, Nothing, Happens, Events
<1>2. TakeNext(c) \/ Quietly(c) \/ Publishes(c) \/ Leaves(c)
  BY DrainIs DEF ChannelInv, InPosition
<1>3. CASE Leaves(c)
  <2>1. work' = [work EXCEPT ![c] = Ready] /\ UNCHANGED <<queues, log>> /\ Ready.step = "next"
    BY <1>3 DEF Leaves, Return, Ready
  <2>2. ~Busy(c)'
    BY <2>1, WorkMoves DEF Busy
  <2>. QED BY <1>1, <2>1, <2>2, FreedKeeps DEF RowKept
<1>. QED BY <1>1, <1>2, <1>3, TakeNextKeeps, QuietlyKeeps, PublishesKeep

LEMMA LivesKeep ==
  ASSUME Typed, ConstantsAssumption, NEW c \in Channels, ChannelInv(c), Lives
  PROVE  ChannelInv(c)'
<1>1. UNCHANGED <<row, log>> /\ spent'["chunk"] = spent["chunk"] /\ (Stays \/ Emptied)
  BY LivesFrame
<1>2. CASE Stays
  <2>1. spent["chunk"] \in Nat
    BY DEF Typed, SpentOK, Events
  <2>. QED BY <1>1, <1>2, <2>1, Untouched DEF Stays
<1>3. CASE Emptied
  <2>1. ~Busy(c)' /\ queues'[c] = <<>>
    BY <1>3 DEF Emptied, Busy, Idle
  <2>. QED BY <1>1, <2>1, FreedKeeps
<1>. QED BY <1>1, <1>2, <1>3

LEMMA Initially ==
  ASSUME ConstantsAssumption, Init
  PROVE  IInv
<1>1. /\ 1 \in Imports \cup {0} /\ [NoRow EXCEPT !.import = 1] \in Row /\ [NoRow EXCEPT !.import = 1].import = 1
  <2>1. 1 \in Imports \cup {0}
    BY DEF ConstantsAssumption, Imports, Events
  <2>. QED BY <2>1, NoRowTyped
<1>2. Mark("begin", 1) \in Entry /\ Mark("begin", 1).import = 1 /\ ~FromChunk(Mark("begin", 1))
  BY MarkTyped
<1>3. Idle.step = "idle"
  BY DEF Idle
<1>4. SpentOK /\ Began = 0..1 /\ spent["row"] = 1 /\ spent["chunk"] = 0
  BY DEF Init, ConstantsAssumption, SpentOK, Began, Events
<1>5. \A c \in Channels : row[c].import = 1 /\ queues[c] = <<>> /\ work[c] = Idle /\ log[c] = <<Mark("begin", 1)>>
  BY <1>1 DEF Init
<1>6. \A c \in Channels : ~Busy(c) /\ ~Working(c) /\ ~Draining(c)
  BY <1>3, <1>5 DEF Busy, Working, Draining
<1>7. \A c \in Channels : /\ log[c] \in Seq(Entry) /\ Len(log[c]) = 1 /\ Places(log[c]) = {1}
                          /\ log[c][1] = Mark("begin", 1) /\ Places(queues[c]) = {}
  <2> DEFINE m == Mark("begin", 1)
  <2>1. <<m>> \in Seq(Entry) /\ Len(<<m>>) = 1 /\ <<m>>[1] = m
    BY <1>2
  <2>2. Places(<<m>>) = {1} /\ Places(<<>>) = {}
    BY <2>1 DEF Places
  <2>. HIDE DEF m
  <2>3. \A c \in Channels : log[c] = <<m>> /\ queues[c] = <<>>
    BY <1>5 DEF m
  <2>4. \A c \in Channels : /\ log[c] \in Seq(Entry) /\ Len(log[c]) = 1 /\ Places(log[c]) = {1}
                            /\ log[c][1] = m /\ Places(queues[c]) = {}
    BY <2>1, <2>2, <2>3
  <2>. QED BY <2>4 DEF m
<1>8. RowsOK /\ QueuesOK /\ WorkOK /\ EndingOK /\ PhaseOK /\ LogOK
  <2>1. RowsOK
    <3> DEFINE r == [NoRow EXCEPT !.import = 1]
    <3>1. row = [c \in Channels |-> r] /\ r \in Row /\ r.import = 1
      BY <1>1 DEF Init
    <3>. HIDE DEF r
    <3>. QED BY <1>4, <3>1 DEF RowsOK
  <2>2. QueuesOK /\ PhaseOK
    BY DEF Init, QueuesOK, PhaseOK
  <2>3. WorkOK
    BY <1>6 DEF Init, WorkOK
  <2>4. EndingOK
    BY <1>3, <1>4 DEF Init, EndingOK
  <2>5. LogOK
    <3>1. log \in [Channels -> Seq(Entry)]
      BY <1>2 DEF Init
    <3>2. \A c \in Channels : \A j \in Places(log[c]) : log[c][j].import \in Began
      <4>1. 1 \in Began
        BY <1>4
      <4>. QED BY <1>2, <1>7, <4>1
    <3>. QED BY <3>1, <3>2 DEF LogOK
  <2>. QED BY <2>1, <2>2, <2>3, <2>4, <2>5
<1>9. Attended /\ PlacesOK
  <2>1. AtWork = {}
    BY <1>6 DEF AtWork
  <2>2. IsFiniteSet(AtWork) /\ Cardinality(AtWork) = 0
    BY <2>1, FS_EmptySet
  <2>3. Chunks \in Nat
    BY DEF ConstantsAssumption
  <2>. QED BY <1>5, <1>6, <2>2, <2>3 DEF Attended, PlacesOK, AllDrained
<1>10. ASSUME NEW c \in Channels
       PROVE  ChannelInv(c)
  <2>1. Queued(c) /\ NotAhead(c) /\ Sent(c) /\ InPosition(c) /\ WholeLog(c)
    <3>1. \A j \in Places(log[c]) : ~FromChunk(log[c][j])
      <4>1. \A j \in Places(log[c]) : log[c][j] = Mark("begin", 1)
        BY <1>7
      <4>. QED BY <1>2, <4>1
    <3>. QED BY <1>6, <1>7, <3>1 DEF Queued, NotAhead, Sent, InPosition, WholeLog, Whole
  <2>2. ASSUME NEW b \in Places(log[c])
        PROVE  Quiet(c, b)
    <3>1. b = 1 /\ ~\E a \in 1..(b - 1) : TRUE
      BY <1>7
    <3>. QED BY <3>1 DEF Quiet, Late, Before
  <2>. QED BY <2>1, <2>2 DEF ChannelInv, Silent
<1>. QED BY <1>4, <1>8, <1>9, <1>10 DEF IInv, Typed

LEMMA Inductive ==
  ASSUME ConstantsAssumption
  PROVE  Spec => []IInv
<1>1. Init => IInv
  BY Initially
<1>2. ASSUME IInv, [Next]_vars
      PROVE  IInv'
  <2>1. Typed /\ \A c \in Channels : ChannelInv(c)
    BY <1>2 DEF IInv
  <2>2. ASSUME NEW c \in Channels, Drain(c)
        PROVE  IInv'
    <3>1. Busy(c) => Positioned(c, work[c])
      BY <2>1 DEF ChannelInv, InPosition
    <3>2. Typed'
      BY <2>1, <2>2, <3>1, DrainKeepsTypes
    <3>3. \A d \in Channels : ChannelInv(d)'
      BY <2>1, <2>2, DrainKeeps, OthersStay
    <3>. QED BY <3>2, <3>3 DEF IInv
  <2>3. ASSUME NEW c \in Channels, Pairs(c)
        PROVE  IInv'
    <3>1. Typed'
      BY <2>1, <2>3, PairsKeepTypes
    <3>2. \A d \in Channels : ChannelInv(d)'
      BY <2>1, <2>3, PairsKeep, OthersStay
    <3>. QED BY <3>1, <3>2 DEF IInv
  <2>4. ASSUME NEW c \in Channels, NEW shape \in Shapes, Accept(c, shape)
        PROVE  IInv'
    <3>1. Typed'
      BY <2>1, <2>4, AcceptKeepsTypes
    <3>2. \A d \in Channels : ChannelInv(d)'
      BY <2>1, <2>4, AcceptKeeps, OthersStay
    <3>. QED BY <3>1, <3>2 DEF IInv
  <2>5. CASE Lives
    BY <2>1, <2>5, LivesKeepTypes, LivesKeep DEF IInv
  <2>. QED BY <1>2, <2>2, <2>3, <2>4, <2>5 DEF Next, Lives
<1>. QED BY <1>1, <1>2, PTL DEF Spec

-----------------------------------------------------------------------------
(* The totals: what the row and the goroutine count, against what was told. *)

\* The batches of an import that the log tells of, and the ends it tells.
ToldOf(c, i) ==
  {<<log[c][k].chunk, log[c][k].n>> : k \in {j \in Places(log[c]) : log[c][j].kind = "batch" /\ log[c][j].import = i}}
EndsOf(c, i) == {k \in Places(log[c]) : log[c][k].kind = "done" /\ log[c][k].import = i}

\* What failed or stopped, and how much of it the books of a channel may already be out by:
\* the stop that cancels a goroutine is paid for before it takes its chunk away.
Slips == spent["fault"] + spent["stop"]
Slack(c) == IF phase = "closing" \/ (phase = "cancelled" /\ Working(c)) THEN Slips - 1 ELSE Slips

\* The batch the goroutine is at, from its first check until it is counted.
Handling(c) == work[c].step \in {"check", "publish", "count"} /\ IsBatch(c)
InHand(c, i) == IF Handling(c) /\ work[c].import = i THEN {<<work[c].id, work[c].at>>} ELSE {}
Settled(c, i) == ToldOf(c, i) \ InHand(c, i)

Near(a, b, s) == a <= b + s /\ b <= a + s

\* What is counted has been told.
Counting(c) == work[c].step = "count" => <<work[c].id, work[c].at>> \in ToldOf(c, work[c].import)

\* The row of a live import, and the total its goroutine carries, know the batches.
RowKnows(c) == Live(c) => Near(row[c].batches, Cardinality(Settled(c, row[c].import)), Slack(c))
WorkKnows(c) ==
  work[c].step \in {"skip", "check", "publish", "count"} =>
    Near(work[c].total, Cardinality(Settled(c, work[c].import)), Slack(c))

\* An import that is not marked as ended has been ended once less.
Marking(c) == work[c].step = "finish" /\ work[c].import = row[c].import
RowEnds(c) ==
  Live(c) => /\ Cardinality(EndsOf(c, row[c].import)) <= Slack(c) + 1
             /\ row[c].finished \/ Marking(c) \/ Cardinality(EndsOf(c, row[c].import)) <= Slack(c)
WorkEnds(c) ==
  work[c].step \in {"skip", "check", "publish", "count"} /\ Ends(work[c]) =>
    Cardinality(EndsOf(c, work[c].import)) <= Slack(c)

\* EndsWithTotal for message j of a channel.
Booked(c, j) ==
  log[c][j].kind = "done" =>
    /\ Near(log[c][j].total, Cardinality(BatchesBefore(c, log[c][j].import, j)), Slips)
    /\ Cardinality({i \in 1..j : log[c][i].kind = "done" /\ log[c][i].import = log[c][j].import}) <= 1 + Slips
BookedLog(c) == \A j \in Places(log[c]) : Booked(c, j)

Books(c) ==
  Counting(c) /\ RowKnows(c) /\ WorkKnows(c) /\ RowEnds(c) /\ WorkEnds(c) /\ BookedLog(c)

LEMMA SlipsTyped ==
  ASSUME SpentOK
  PROVE  Slips \in Nat /\ \A c : Slack(c) \in Int /\ Slack(c) <= Slips
<1>1. spent["fault"] \in Nat /\ spent["stop"] \in Nat
  BY DEF SpentOK, Events
<1>2. Slips \in Nat
  BY <1>1 DEF Slips
<1>. QED BY <1>2 DEF Slack

LEMMA BooksFinite ==
  ASSUME Typed, NEW c \in Channels, NEW i
  PROVE  /\ IsFiniteSet(ToldOf(c, i)) /\ Cardinality(ToldOf(c, i)) \in Nat
         /\ IsFiniteSet(EndsOf(c, i)) /\ Cardinality(EndsOf(c, i)) \in Nat
<1>1. Len(log[c]) \in Nat
  BY LogShape
<1>2. IsFiniteSet(Places(log[c]))
  BY <1>1, FS_Interval DEF Places
<1> DEFINE K == {j \in Places(log[c]) : log[c][j].kind = "batch" /\ log[c][j].import = i}
           f == [k \in K |-> <<log[c][k].chunk, log[c][k].n>>]
<1>3. IsFiniteSet(K) /\ IsFiniteSet(EndsOf(c, i))
  BY <1>2, FS_Subset DEF EndsOf
<1>4. f \in Surjection(K, ToldOf(c, i))
  BY DEF ToldOf, Surjection
<1>. HIDE DEF K, f
<1>5. IsFiniteSet(ToldOf(c, i))
  BY <1>3, <1>4, FS_Surjection
<1>. QED BY <1>3, <1>5, FS_CardinalityType

\* A batch in hand may have been told already.
LEMMA SettledCounts ==
  ASSUME Typed, NEW c \in Channels, NEW i
  PROVE  /\ Cardinality(Settled(c, i)) \in Nat
         /\ Cardinality(Settled(c, i)) <= Cardinality(ToldOf(c, i))
         /\ Cardinality(ToldOf(c, i)) <= Cardinality(Settled(c, i)) + 1
         /\ InHand(c, i) = {} => Settled(c, i) = ToldOf(c, i)
         /\ Handling(c) /\ work[c].import = i /\ <<work[c].id, work[c].at>> \in ToldOf(c, i) =>
              Cardinality(ToldOf(c, i)) = Cardinality(Settled(c, i)) + 1
<1> DEFINE b == <<work[c].id, work[c].at>>
           T == ToldOf(c, i)
<1>1. IsFiniteSet(T) /\ Cardinality(T) \in Nat
  BY BooksFinite
<1>2. CASE Handling(c) /\ work[c].import = i
  <2>1. Settled(c, i) = T \ {b} /\ InHand(c, i) = {b}
    BY <1>2 DEF Settled, InHand
  <2>. HIDE DEF T, b
  <2>2. IsFiniteSet(T \ {b}) /\ Cardinality(T \ {b}) = IF b \in T THEN Cardinality(T) - 1 ELSE Cardinality(T)
    BY <1>1, FS_RemoveElement
  <2>3. Cardinality(T \ {b}) \in Nat
    BY <2>2, FS_CardinalityType
  <2>. QED BY <1>1, <2>1, <2>2, <2>3 DEF T, b
<1>3. CASE ~(Handling(c) /\ work[c].import = i)
  <2>1. Settled(c, i) = T
    BY <1>3 DEF Settled, InHand
  <2>. QED BY <1>1, <1>3, <2>1
<1>. QED BY <1>2, <1>3

-----------------------------------------------------------------------------
(* What a step does to the log, as the books see it.                        *)

\* The log of c stays, or gains a mark.
Marked(c) == log'[c] = log[c] \/ \E m \in Entry : ~FromChunk(m) /\ Says(c, m)

LEMMA NothingTold ==
  ASSUME Typed, NEW c \in Channels, Marked(c)
  PROVE  \A i : ToldOf(c, i)' = ToldOf(c, i) /\ EndsOf(c, i)' = EndsOf(c, i)
<1>1. CASE log'[c] = log[c]
  BY <1>1 DEF ToldOf, EndsOf, Places
<1>2. ASSUME NEW m \in Entry, ~FromChunk(m), Says(c, m)
      PROVE  \A i : ToldOf(c, i)' = ToldOf(c, i) /\ EndsOf(c, i)' = EndsOf(c, i)
  <2> DEFINE l == Len(log[c]) + 1
  <2>1. /\ Len(log[c]) \in Nat /\ Len(log'[c]) = l /\ log'[c][l] = m
        /\ \A j \in Places(log[c]) : log'[c][j] = log[c][j]
    BY <1>2, SaysOne DEF Typed
  <2>2. Places(log'[c]) = Places(log[c]) \cup {l}
    BY <2>1 DEF Places
  <2>3. m.kind # "batch" /\ m.kind # "done"
    BY <1>2 DEF FromChunk
  <2>. HIDE DEF l
  <2>4. ASSUME NEW i
        PROVE  EndsOf(c, i)' = EndsOf(c, i)
    BY <2>1, <2>2, <2>3 DEF EndsOf
  <2>5. ASSUME NEW i
        PROVE  ToldOf(c, i)' = ToldOf(c, i)
    <3>1. {j \in Places(log'[c]) : log'[c][j].kind = "batch" /\ log'[c][j].import = i}
            = {j \in Places(log[c]) : log[c][j].kind = "batch" /\ log[c][j].import = i}
      BY <2>1, <2>2, <2>3
    <3>. QED BY <2>1, <3>1 DEF ToldOf
  <2>. QED BY <2>4, <2>5
<1>. QED BY <1>1, <1>2 DEF Marked

\* What was booked stays so: failures and stops are never forgotten.
LEMMA PastStays ==
  ASSUME Typed, NEW c \in Channels, BookedLog(c), Slips <= Slips', Slips' \in Nat,
         \A k \in Places(log[c]) : log'[c][k] = log[c][k],
         NEW j \in Places(log[c])
  PROVE  Booked(c, j)'
<1>1. Slips \in Nat /\ Len(log[c]) \in Nat
  BY SlipsTyped, LogShape DEF Typed
<1>2. 1..j \subseteq Places(log[c]) /\ 1..(j - 1) \subseteq Places(log[c]) /\ j \in 1..j
  BY <1>1 DEF Places
<1>3. CASE log[c][j].kind # "done"
  BY <1>3 DEF Booked
<1>4. CASE log[c][j].kind = "done"
  <2> DEFINE i == log[c][j].import
             E == {k \in 1..j : log[c][k].kind = "done" /\ log[c][k].import = i}
             B == BatchesBefore(c, i, j)
  <2>1. Near(log[c][j].total, Cardinality(B), Slips) /\ Cardinality(E) <= 1 + Slips
    BY <1>4 DEF BookedLog, Booked
  <2>2. log[c][j].total \in Nat
    BY LogShape DEF Entry
  <2>3. Cardinality(B) \in Nat
    <3>1. B \subseteq ToldOf(c, i)
      BY <1>2 DEF BatchesBefore, ToldOf
    <3>. HIDE DEF B, i
    <3>. QED BY <3>1, BooksFinite, FS_Subset, FS_CardinalityType
  <2>4. Cardinality(E) \in Nat
    <3>1. E \subseteq EndsOf(c, i)
      BY <1>2 DEF EndsOf
    <3>. HIDE DEF E, i
    <3>. QED BY <3>1, BooksFinite, FS_Subset, FS_CardinalityType
  <2>5. BatchesBefore(c, log[c][j].import, j)' = B
    <3>1. log'[c][j].import = i
      BY DEF i
    <3>2. {k \in 1..(j - 1) : log'[c][k].kind = "batch" /\ log'[c][k].import = i}
            = {k \in 1..(j - 1) : log[c][k].kind = "batch" /\ log[c][k].import = i}
      BY <1>2
    <3>3. \A k \in 1..(j - 1) : log'[c][k] = log[c][k]
      BY <1>2
    <3>. QED BY <3>1, <3>2, <3>3 DEF BatchesBefore
  <2>6. {k \in 1..j : log'[c][k].kind = "done" /\ log'[c][k].import = log'[c][j].import} = E
    BY <1>2
  <2>7. log'[c][j].total = log[c][j].total
    OBVIOUS
  <2>. HIDE DEF B, E, i
  <2>8. Near(log[c][j].total, Cardinality(B), Slips') /\ Cardinality(E) <= 1 + Slips'
    BY <1>1, <2>1, <2>2, <2>3, <2>4 DEF Near
  <2>. QED BY <2>5, <2>6, <2>7, <2>8 DEF Booked, Near
<1>. QED BY <1>3, <1>4

LEMMA MarkedBooks ==
  ASSUME Typed, NEW c \in Channels, BookedLog(c), Slips <= Slips', Slips' \in Nat, Marked(c)
  PROVE  BookedLog(c)'
<1>1. CASE log'[c] = log[c]
  BY <1>1, PastStays DEF BookedLog, Places
<1>2. ASSUME NEW m \in Entry, ~FromChunk(m), Says(c, m)
      PROVE  BookedLog(c)'
  <2> DEFINE l == Len(log[c]) + 1
  <2>1. /\ Len(log[c]) \in Nat /\ Len(log'[c]) = l /\ log'[c][l] = m
        /\ \A j \in Places(log[c]) : log'[c][j] = log[c][j]
    BY <1>2, SaysOne DEF Typed
  <2>2. Places(log'[c]) = Places(log[c]) \cup {l}
    BY <2>1 DEF Places
  <2>3. m.kind # "done"
    BY <1>2 DEF FromChunk
  <2>4. ASSUME NEW j \in Places(log'[c])
        PROVE  Booked(c, j)'
    <3>1. CASE j \in Places(log[c])
      BY <2>1, <3>1, PastStays
    <3>2. CASE j = l
      BY <2>1, <2>3, <3>2 DEF Booked
    <3>. QED BY <2>2, <3>1, <3>2
  <2>. QED BY <2>4 DEF BookedLog
<1>. QED BY <1>1, <1>2 DEF Marked

\* Nothing was told of the import.
Fresh(c, i) == ToldOf(c, i) = {} /\ EndsOf(c, i) = {}

\* The goroutine stays at the same message, and what is written of it is paid for.
LEMMA BooksStay ==
  ASSUME Typed, NEW c \in Channels, Books(c), Marked(c), row[c] \in Row, row'[c] \in Row,
         Slips <= Slips', SpentOK', Slack(c) <= Slack(c)',
         work'[c] = work[c]
           \/ /\ work'[c].id = work[c].id /\ work'[c].at = work[c].at /\ work'[c].import = work[c].import
              /\ work'[c].shape = work[c].shape /\ work'[c].total = work[c].total
              /\ work'[c].finished = work[c].finished /\ Busy(c)
              /\ \/ work'[c].step = work[c].step
                 \/ work[c].step \in {"check", "publish"} /\ work'[c].step \in {"check", "publish"},
         Live(c)' => \/ /\ Live(c) /\ row'[c].import = row[c].import
                        /\ row'[c].finished \/ ~row[c].finished
                        /\ \/ row'[c].batches = row[c].batches
                           \/ row'[c].batches = row[c].batches + 1 /\ Slack(c) + 1 <= Slack(c)'
                     \/ Fresh(c, row'[c].import) /\ row'[c].batches = 0 /\ 0 <= Slack(c)'
  PROVE  Books(c)'
<1>1. \A i : ToldOf(c, i)' = ToldOf(c, i) /\ EndsOf(c, i)' = EndsOf(c, i)
  BY NothingTold
<1>2. /\ \/ work'[c].step = work[c].step
         \/ work[c].step \in {"check", "publish"} /\ work'[c].step \in {"check", "publish"}
      /\ work'[c].id = work[c].id /\ work'[c].at = work[c].at /\ work'[c].import = work[c].import
      /\ work'[c].shape = work[c].shape /\ work'[c].total = work[c].total
      /\ work'[c].finished = work[c].finished
  OBVIOUS
<1>3. \A i : Settled(c, i)' = Settled(c, i)
  <2>1. \A i : InHand(c, i)' = InHand(c, i)
    BY <1>2 DEF InHand, Handling, IsBatch
  <2>. QED BY <1>1, <2>1 DEF Settled
<1>4. /\ Slips \in Nat /\ Slips' \in Nat /\ Slack(c) \in Int /\ Slack(c)' \in Int
      /\ \A i : Cardinality(Settled(c, i)) \in Nat /\ Cardinality(EndsOf(c, i)) \in Nat
      /\ row[c].batches \in Nat /\ row'[c].batches \in Nat
  <2>1. \A i : Cardinality(Settled(c, i)) \in Nat
    BY SettledCounts
  <2>2. \A i : Cardinality(EndsOf(c, i)) \in Nat
    BY BooksFinite
  <2>. QED BY <2>1, <2>2, SlipsTyped DEF Typed, Row, Slips, Slack, SpentOK, Events
<1>5. Counting(c)'
  BY <1>1, <1>2 DEF Books, Counting
<1>6. RowKnows(c)' /\ RowEnds(c)'
  <2>1. CASE /\ Live(c) /\ row'[c].import = row[c].import
             /\ row'[c].finished \/ ~row[c].finished
             /\ \/ row'[c].batches = row[c].batches
                \/ row'[c].batches = row[c].batches + 1 /\ Slack(c) + 1 <= Slack(c)'
    <3>1. RowKnows(c)'
      BY <1>3, <1>4, <2>1 DEF Books, RowKnows, Near
    <3>2. RowEnds(c)'
      BY <1>1, <1>2, <1>4, <2>1 DEF Books, RowEnds, Marking
    <3>. QED BY <3>1, <3>2
  <2>2. CASE Fresh(c, row'[c].import) /\ row'[c].batches = 0 /\ 0 <= Slack(c)'
    <3>1. Settled(c, row'[c].import) = {} /\ EndsOf(c, row'[c].import) = {}
      BY <2>2 DEF Fresh, Settled
    <3>2. Cardinality(Settled(c, row'[c].import)) = 0 /\ Cardinality(EndsOf(c, row'[c].import)) = 0
      BY <3>1, FS_EmptySet
    <3>3. RowKnows(c)'
      BY <1>3, <1>4, <2>2, <3>2 DEF RowKnows, Near
    <3>4. RowEnds(c)'
      BY <1>1, <1>4, <2>2, <3>2 DEF RowEnds
    <3>. QED BY <3>3, <3>4
  <2>3. CASE ~Live(c)'
    BY <2>3 DEF RowKnows, RowEnds
  <2>. QED BY <2>1, <2>2, <2>3
<1>7. WorkKnows(c)'
  <2>1. work[c].step \in {"skip", "check", "publish", "count"} => work[c].total \in Nat
    BY BusyWork DEF Busy, Typed
  <2>. QED BY <1>2, <1>3, <1>4, <2>1 DEF Books, WorkKnows, Near
<1>9. WorkEnds(c)'
  BY <1>1, <1>2, <1>4 DEF Books, WorkEnds, Ends
<1>10. BookedLog(c)'
  BY <1>4, MarkedBooks DEF Books
<1>. QED BY <1>5, <1>6, <1>7, <1>9, <1>10 DEF Books

\* The goroutine has no message: it has not come to one, or leaves it, and what it leaves
\* halfway is paid for.
LEMMA BooksAside ==
  ASSUME Typed, NEW c \in Channels, Books(c), log'[c] = log[c], row[c] \in Row, row'[c] \in Row,
         Slips <= Slips', SpentOK',
         work'[c].step \in {"idle", "next", "slot", "download", "lookup", "release"},
         Live(c)' => /\ Live(c) /\ row'[c].import = row[c].import /\ row'[c].batches = row[c].batches
                     /\ \/ Slack(c) + 1 <= Slack(c)'
                        \/ /\ Slack(c) <= Slack(c)'
                           /\ ~(Handling(c) /\ work[c].import = row[c].import)
                           /\ row'[c].finished \/ (~row[c].finished /\ ~Marking(c))
  PROVE  Books(c)'
<1>1. \A i : ToldOf(c, i)' = ToldOf(c, i) /\ EndsOf(c, i)' = EndsOf(c, i)
  BY NothingTold DEF Marked
<1>2. \A i : Settled(c, i)' = ToldOf(c, i)
  <2>1. \A i : InHand(c, i)' = {}
    BY DEF InHand, Handling
  <2>. QED BY <1>1, <2>1 DEF Settled
<1>3. /\ Slips \in Nat /\ Slips' \in Nat /\ Slack(c) \in Int /\ Slack(c)' \in Int
      /\ row[c].batches \in Nat /\ row'[c].batches \in Nat
      /\ Cardinality(EndsOf(c, row[c].import)) \in Nat
  BY SlipsTyped, BooksFinite DEF Typed, Row, Slips, Slack, SpentOK, Events
<1> DEFINE S == Cardinality(Settled(c, row[c].import))
           T == Cardinality(ToldOf(c, row[c].import))
<1>4. /\ S \in Nat /\ T \in Nat /\ S <= T /\ T <= S + 1
      /\ ~(Handling(c) /\ work[c].import = row[c].import) => S = T
  BY SettledCounts, BooksFinite DEF InHand
<1>5. Counting(c)' /\ WorkKnows(c)' /\ WorkEnds(c)'
  BY DEF Counting, WorkKnows, WorkEnds
<1>6. RowKnows(c)'
  <2>1. Live(c)' => Near(row[c].batches, S, Slack(c))
    BY DEF Books, RowKnows
  <2>2. Live(c)' => Near(row'[c].batches, T, Slack(c)')
    <3>. HIDE DEF S, T
    <3>. QED BY <1>3, <1>4, <2>1 DEF Near
  <2>. QED BY <1>2, <2>2 DEF RowKnows, Near
<1>7. RowEnds(c)'
  BY <1>1, <1>3 DEF Books, RowEnds
<1>8. BookedLog(c)'
  BY <1>3, MarkedBooks DEF Books, Marked
<1>. QED BY <1>5, <1>6, <1>7, <1>8 DEF Books

\* The goroutine comes to a message nothing was told of, or to the end of its chunk.
LEMMA BooksReach ==
  ASSUME Typed, NEW c \in Channels, Books(c), log'[c] = log[c],
         Slips <= Slips', SpentOK',
         work'[c].step \in {"skip", "check", "release"},
         work'[c].step = "check" => <<work'[c].id, work'[c].at>> \notin ToldOf(c, work'[c].import),
         Live(c)' => /\ Near(row'[c].batches, Cardinality(ToldOf(c, row'[c].import)), Slack(c)')
                     /\ Cardinality(EndsOf(c, row'[c].import)) <= Slack(c)' + 1
                     /\ row'[c].finished \/ Cardinality(EndsOf(c, row'[c].import)) <= Slack(c)',
         work'[c].step # "release" =>
           /\ Near(work'[c].total, Cardinality(ToldOf(c, work'[c].import)), Slack(c)')
           /\ Ends(work'[c]) => Cardinality(EndsOf(c, work'[c].import)) <= Slack(c)'
  PROVE  Books(c)'
<1>1. \A i : ToldOf(c, i)' = ToldOf(c, i) /\ EndsOf(c, i)' = EndsOf(c, i)
  BY NothingTold DEF Marked
<1>2. \A i : Settled(c, i)' = ToldOf(c, i)
  <2>1. ASSUME NEW i
        PROVE  Settled(c, i)' = ToldOf(c, i)
    <3>1. InHand(c, i)' = {} \/ (InHand(c, i)' = {<<work'[c].id, work'[c].at>>} /\ work'[c].import = i
                                   /\ work'[c].step = "check")
      BY DEF InHand, Handling
    <3>. QED BY <1>1, <3>1 DEF Settled
  <2>. QED BY <2>1
<1>3. Slips' \in Nat
  BY SlipsTyped DEF Slips, SpentOK, Events
<1>4. Counting(c)'
  BY DEF Counting
<1>5. RowKnows(c)' /\ RowEnds(c)'
  BY <1>1, <1>2 DEF RowKnows, RowEnds, Near
<1>6. WorkKnows(c)' /\ WorkEnds(c)'
  BY <1>1, <1>2 DEF WorkKnows, WorkEnds, Near, Ends
<1>7. BookedLog(c)'
  BY <1>3, MarkedBooks DEF Books, Marked
<1>. QED BY <1>4, <1>5, <1>6, <1>7 DEF Books

\* The log of c gains the message the goroutine is at.
LEMMA BooksSpeak ==
  ASSUME Typed, NEW c \in Channels, Books(c), work[c].step = "publish", Positioned(c, work[c]),
         Says(c, Message(c)), row'[c] = row[c], row[c] \in Row, Slips <= Slips', SpentOK',
         work'[c].id = work[c].id, work'[c].at = work[c].at, work'[c].import = work[c].import,
         work'[c].shape = work[c].shape, work'[c].total = work[c].total,
         work'[c].finished = work[c].finished, ConstantsAssumption,
         \/ work'[c].step = (IF IsBatch(c) THEN "count" ELSE "finish") /\ Slack(c) <= Slack(c)'
         \/ work'[c].step = "check" /\ Slack(c) + 1 <= Slack(c)'
  PROVE  Books(c)'
<1> DEFINE l == Len(log[c]) + 1
           m == Message(c)
           b == <<work[c].id, work[c].at>>
<1>0. PICK i0 : i0 = work[c].import
  OBVIOUS
<1>1. Busy(c)
  BY DEF Busy
<1>2. m \in Entry /\ m.import = i0 /\ m.chunk = work[c].id /\ m.n = work[c].at
  BY <1>0, <1>1, MessageTyped
<1>3. /\ m.kind = "batch" <=> IsBatch(c)
      /\ m.kind = "done" <=> ~IsBatch(c)
      /\ ~IsBatch(c) => m.total = work[c].total
  BY DEF Message
<1>. HIDE DEF m
<1>4. /\ Len(log[c]) \in Nat /\ Len(log'[c]) = l /\ log'[c][l] = m
      /\ \A j \in Places(log[c]) : log'[c][j] = log[c][j]
  BY <1>2, SaysOne DEF Typed, m
<1>5. Places(log'[c]) = Places(log[c]) \cup {l} /\ l \notin Places(log[c]) /\ 1..(l - 1) = Places(log[c])
      /\ 1..l = Places(log'[c]) /\ l \in Nat
  BY <1>4 DEF Places
<1>. HIDE DEF l
<1>6. /\ Slips \in Nat /\ Slips' \in Nat /\ Slack(c) \in Int /\ Slack(c)' \in Int /\ Slack(c)' <= Slips'
      /\ work[c].total \in Nat /\ row[c].batches \in Nat
      /\ work[c].at \in Nat /\ work[c].shape.batches \in Nat
  BY <1>1, SlipsTyped, BusyWork, ShapeTyped DEF Typed, Row, Slips, Slack, SpentOK, Events
<1>7. \A i : /\ Cardinality(Settled(c, i)) \in Nat /\ Cardinality(EndsOf(c, i)) \in Nat
             /\ IsFiniteSet(EndsOf(c, i)) /\ Cardinality(ToldOf(c, i)) \in Nat
  BY SettledCounts, BooksFinite
<1>8. /\ work'[c].step \in {"check", "count", "finish"} /\ Slack(c) <= Slack(c)'
      /\ work'[c].step = "check" => Slack(c) + 1 <= Slack(c)'
      /\ work'[c].step = "count" => IsBatch(c)
      /\ work'[c].step = "finish" => ~IsBatch(c)
  BY <1>6
<1>9. IsBatch(c)' <=> IsBatch(c)
  BY DEF IsBatch
<1>10. \A j \in Places(log[c]) : Booked(c, j)'
  BY <1>4, <1>6, PastStays DEF Books
<1>11. CASE IsBatch(c)
  <2>1. \A i : EndsOf(c, i)' = EndsOf(c, i)
    BY <1>3, <1>4, <1>5, <1>11 DEF EndsOf
  <2>2. ASSUME NEW i
        PROVE  ToldOf(c, i)' = IF i = i0 THEN ToldOf(c, i) \cup {b} ELSE ToldOf(c, i)
    <3>1. {j \in Places(log'[c]) : log'[c][j].kind = "batch" /\ log'[c][j].import = i}
            = {j \in Places(log[c]) : log[c][j].kind = "batch" /\ log[c][j].import = i}
                \cup (IF i = i0 THEN {l} ELSE {})
      BY <1>2, <1>3, <1>4, <1>5, <1>11
    <3>2. <<log'[c][l].chunk, log'[c][l].n>> = b
      BY <1>2, <1>4
    <3>. HIDE DEF b
    <3>3. CASE i = i0
      BY <1>4, <3>1, <3>2, <3>3 DEF ToldOf
    <3>4. CASE i # i0
      BY <1>4, <3>1, <3>4 DEF ToldOf
    <3>. QED BY <3>3, <3>4
  <2>3. ASSUME NEW i
        PROVE  Settled(c, i)' = Settled(c, i)
    <3>1. InHand(c, i)' = InHand(c, i) /\ InHand(c, i) = IF i = i0 THEN {b} ELSE {}
      BY <1>0, <1>8, <1>9, <1>11 DEF InHand, Handling
    <3>. HIDE DEF b
    <3>. QED BY <2>2, <3>1 DEF Settled
  <2>4. Counting(c)'
    BY <1>0, <2>2 DEF Counting
  <2>5. RowKnows(c)'
    BY <1>6, <1>7, <1>8, <2>3 DEF Books, RowKnows, Live, Near
  <2>6. WorkKnows(c)'
    BY <1>6, <1>7, <1>8, <2>3 DEF Books, WorkKnows, Near
  <2>7. RowEnds(c)'
    BY <1>6, <1>7, <1>8, <2>1 DEF Books, RowEnds, Marking, Live
  <2>8. WorkEnds(c)'
    BY <1>6, <1>7, <1>8, <2>1 DEF Books, WorkEnds, Ends
  <2>9. ASSUME NEW j \in Places(log'[c])
        PROVE  Booked(c, j)'
    <3>1. CASE j = l
      BY <1>3, <1>4, <1>11, <3>1 DEF Booked
    <3>. QED BY <1>5, <1>10, <3>1
  <2>. QED BY <2>4, <2>5, <2>6, <2>7, <2>8, <2>9 DEF Books, BookedLog
<1>12. CASE ~IsBatch(c)
  <2>1. ASSUME NEW i
        PROVE  ToldOf(c, i)' = ToldOf(c, i)
    <3>1. {j \in Places(log'[c]) : log'[c][j].kind = "batch" /\ log'[c][j].import = i}
            = {j \in Places(log[c]) : log[c][j].kind = "batch" /\ log[c][j].import = i}
      BY <1>3, <1>4, <1>5, <1>12
    <3>. QED BY <1>4, <3>1 DEF ToldOf
  <2>2. ASSUME NEW i
        PROVE  /\ EndsOf(c, i)' = IF i = i0 THEN EndsOf(c, i) \cup {l} ELSE EndsOf(c, i)
               /\ Cardinality(EndsOf(c, i)') = IF i = i0 THEN Cardinality(EndsOf(c, i)) + 1 ELSE Cardinality(EndsOf(c, i))
    <3>1. EndsOf(c, i)' = IF i = i0 THEN EndsOf(c, i) \cup {l} ELSE EndsOf(c, i)
      BY <1>2, <1>3, <1>4, <1>5, <1>12 DEF EndsOf
    <3>2. l \notin EndsOf(c, i)
      BY <1>5 DEF EndsOf
    <3> DEFINE E == EndsOf(c, i)
    <3>3. IsFiniteSet(E) /\ l \notin E /\ EndsOf(c, i)' = IF i = i0 THEN E \cup {l} ELSE E
      BY <1>7, <3>1, <3>2
    <3>. HIDE DEF E
    <3>4. Cardinality(E \cup {l}) = Cardinality(E) + 1
      BY <3>3, FS_AddElement
    <3>. QED BY <3>3, <3>4 DEF E
  <2>3. \A i : Settled(c, i) = ToldOf(c, i) /\ Settled(c, i)' = ToldOf(c, i)
    BY <1>9, <1>12, <2>1 DEF Settled, InHand, Handling
  <2>4. Ends(work[c]) /\ (Ends(work[c]))'
    <3>1. work[c].at = work[c].shape.batches + 1
      BY <1>6, <1>12 DEF Positioned, IsBatch
    <3>2. Ends(work[c])
      BY <3>1 DEF Positioned
    <3>. QED BY <3>2 DEF Ends
  <2>5. Cardinality(EndsOf(c, i0)) <= Slack(c) /\ Near(work[c].total, Cardinality(ToldOf(c, i0)), Slack(c))
    BY <1>0, <2>3, <2>4 DEF Books, WorkEnds, WorkKnows
  <2>6. Counting(c)' /\ RowKnows(c)' /\ WorkKnows(c)'
    <3>1. Counting(c)'
      BY <1>8, <1>12 DEF Counting
    <3>2. RowKnows(c)'
      BY <1>6, <1>7, <1>8, <2>3 DEF Books, RowKnows, Live, Near
    <3>3. WorkKnows(c)'
      BY <1>6, <1>7, <1>8, <2>3 DEF Books, WorkKnows, Near
    <3>. QED BY <3>1, <3>2, <3>3
  <2>7. RowEnds(c)'
    <3>1. CASE row[c].import = i0
      <4>1. Cardinality(EndsOf(c, i0)') <= Slack(c) + 1 /\ Cardinality(EndsOf(c, i0)') \in Nat
        BY <1>6, <1>7, <2>2, <2>5
      <4>2. Marking(c)' \/ Slack(c) + 1 <= Slack(c)'
        BY <1>0, <1>8, <1>12, <3>1 DEF Marking
      <4>. QED BY <1>6, <1>8, <3>1, <4>1, <4>2 DEF RowEnds
    <3>2. CASE row[c].import # i0
      BY <1>0, <1>6, <1>7, <1>8, <2>2, <3>2 DEF Books, RowEnds, Marking, Live
    <3>. QED BY <3>1, <3>2
  <2>8. WorkEnds(c)'
    <3>. SUFFICES ASSUME work'[c].step = "check"
                  PROVE  Cardinality(EndsOf(c, i0)') <= Slack(c)'
      BY <1>0, <1>8, <1>12 DEF WorkEnds
    <3>. QED BY <1>6, <1>7, <1>8, <2>2, <2>5
  <2>9. ASSUME NEW j \in Places(log'[c])
        PROVE  Booked(c, j)'
    <3>1. CASE j = l
      <4>1. BatchesBefore(c, i0, j)' = ToldOf(c, i0)
        <5>1. {k \in 1..(j - 1) : log'[c][k].kind = "batch" /\ log'[c][k].import = i0}
                = {k \in Places(log[c]) : log[c][k].kind = "batch" /\ log[c][k].import = i0}
          BY <1>4, <1>5, <3>1
        <5>. QED BY <1>4, <5>1 DEF BatchesBefore, ToldOf
      <4>2. {k \in 1..j : log'[c][k].kind = "done" /\ log'[c][k].import = i0} = EndsOf(c, i0)'
        BY <1>5, <3>1 DEF EndsOf
      <4>3. log'[c][j].import = i0 /\ log'[c][j].total = work[c].total
        BY <1>2, <1>3, <1>4, <1>12, <3>1
      <4>4. Near(work[c].total, Cardinality(ToldOf(c, i0)), Slips') /\ Cardinality(EndsOf(c, i0)') <= 1 + Slips'
        <5>1. Cardinality(EndsOf(c, i0)') = Cardinality(EndsOf(c, i0)) + 1
          BY <2>2
        <5>. QED BY <1>6, <1>7, <1>8, <2>5, <5>1 DEF Near
      <4>. QED BY <4>1, <4>2, <4>3, <4>4 DEF Booked, Near
    <3>. QED BY <1>5, <1>10, <3>1
  <2>. QED BY <2>6, <2>7, <2>8, <2>9 DEF Books, BookedLog
<1>. QED BY <1>11, <1>12

-----------------------------------------------------------------------------
(* The steps of the goroutine of a channel.                                 *)

LEMMA SlackGrows ==
  ASSUME Typed, ConstantsAssumption, NEW c \in Channels, phase' = phase, Nothing \/ Happens("fault") \/ Happens("row"),
         phase = "cancelled" => (Working(c)' => Working(c))
  PROVE  /\ SpentOK' /\ Slips <= Slips' /\ Slack(c) <= Slack(c)'
         /\ Happens("fault") => Slack(c) + 1 <= Slack(c)'
         /\ phase = "cancelled" /\ Working(c) /\ ~Working(c)' => Slack(c) + 1 <= Slack(c)'
<1>1. SpentOK'
  BY Spending DEF Typed, Events
<1>2. /\ spent["fault"] \in Nat /\ spent["stop"] \in Nat /\ spent'["stop"] = spent["stop"]
      /\ spent'["fault"] = spent["fault"] + (IF Happens("fault") THEN 1 ELSE 0)
  BY DEF Typed, SpentOK, Nothing, Happens, Events
<1>3. Slips \in Nat /\ Slips' = Slips + (IF Happens("fault") THEN 1 ELSE 0)
  BY <1>2 DEF Slips
<1>. QED BY <1>1, <1>3 DEF Slack

\* Nothing of a batch that is still to come has been told.
LEMMA Untold ==
  ASSUME Typed, NEW c \in Channels, ChannelInv(c), Busy(c), NEW n \in Nat, n > work[c].at, NEW i
  PROVE  <<work[c].id, n>> \notin ToldOf(c, i)
<1> SUFFICES ASSUME NEW j \in Places(log[c]), log[c][j].kind = "batch", log[c][j].chunk = work[c].id,
                    log[c][j].n = n
             PROVE  FALSE
  BY DEF ToldOf
<1>1. log[c][j].chunk < work[c].id \/ log[c][j].n <= work[c].at
  BY DEF ChannelInv, NotAhead, FromChunk
<1>2. work[c].id \in Nat /\ work[c].at \in Nat
  BY BusyWork DEF Typed
<1>. QED BY <1>1, <1>2

\* publishChunk goes on to message n with the record v.
LEMMA BooksGoOn ==
  ASSUME Typed, NEW c \in Channels, ChannelInv(c), Books(c), log'[c] = log[c], Busy(c),
         NEW v \in Work, v.id = work[c].id, NEW n \in Nat, n > work[c].at, work' = [work EXCEPT ![c] = GoOn(v, n)],
         Slips <= Slips', SpentOK',
         Live(c)' => /\ Near(row'[c].batches, Cardinality(ToldOf(c, row'[c].import)), Slack(c)')
                     /\ Cardinality(EndsOf(c, row'[c].import)) <= Slack(c)' + 1
                     /\ row'[c].finished \/ Cardinality(EndsOf(c, row'[c].import)) <= Slack(c)',
         Near(v.total, Cardinality(ToldOf(c, v.import)), Slack(c)'),
         Ends(v) => Cardinality(EndsOf(c, v.import)) <= Slack(c)'
  PROVE  Books(c)'
<1> DEFINE w == GoOn(v, n)
<1>1. /\ w \in Work /\ w.id = v.id /\ w.shape = v.shape /\ w.import = v.import /\ w.at = n
      /\ w.finished = v.finished /\ w.step \in {"check", "release"}
  BY GoesOn
<1>2. w.total = v.total
  BY DEF GoOn, Work
<1>3. work'[c] = w
  BY <1>1, WorkMoves
<1>4. <<v.id, n>> \notin ToldOf(c, v.import)
  BY Untold
<1>5. Ends(w) <=> Ends(v)
  BY <1>1 DEF Ends
<1>. HIDE DEF w
<1>. QED BY <1>1, <1>2, <1>3, <1>4, <1>5, BooksReach

\* What the row of a live import knows while its goroutine is at no batch and not at the mark.
LEMMA RowAlone ==
  ASSUME Typed, NEW c \in Channels, Books(c), Live(c), ~Handling(c), ~Marking(c)
  PROVE  /\ Near(row[c].batches, Cardinality(ToldOf(c, row[c].import)), Slack(c))
         /\ Cardinality(EndsOf(c, row[c].import)) <= Slack(c) + 1
         /\ row[c].finished \/ Cardinality(EndsOf(c, row[c].import)) <= Slack(c)
<1>1. Settled(c, row[c].import) = ToldOf(c, row[c].import)
  BY SettledCounts DEF InHand
<1>. QED BY <1>1 DEF Books, RowKnows, RowEnds

LEMMA NearStays ==
  ASSUME NEW a \in Nat, NEW b \in Nat, NEW s \in Int, NEW t \in Int, Near(a, b, s), s <= t
  PROVE  Near(a, b, t) /\ (s + 1 <= t => Near(a + 1, b, t)) /\ Near(a + 1, b + 1, t)
BY DEF Near

LEMMA BooksTakeNext ==
  ASSUME Typed, ConstantsAssumption, NEW c \in Channels, Books(c), TakeNext(c)
  PROVE  Books(c)'
<1>1. work[c].step = "next" /\ row' = row /\ phase' = phase /\ Nothing /\ log' = log
  BY DEF TakeNext, RowFrame
<1>2. work'[c].step \in {"idle", "slot"}
  BY TakesNext, WorkMoves DEF Idle
<1>3. Slips <= Slips' /\ SpentOK' /\ Slack(c) <= Slack(c)'
  BY <1>1, <1>2, SlackGrows DEF Working
<1>4. ~Handling(c) /\ ~Marking(c) /\ row[c] \in Row
  BY <1>1 DEF Handling, Marking, Typed, RowsOK
<1>. QED BY <1>1, <1>2, <1>3, <1>4, BooksAside DEF Live

LEMMA BooksLeave ==
  ASSUME Typed, ConstantsAssumption, NEW c \in Channels, Books(c),
         TakePlace(c) \/ Abort(c) \/ Download(c) \/ Release(c)
  PROVE  Books(c)'
<1>1. row' = row /\ phase' = phase /\ log' = log /\ (Nothing \/ Happens("fault")) /\ row[c] \in Row
  BY DEF TakePlace, Abort, Download, Release, ChunkFrame, RowFrame, Typed, RowsOK
<1>2. /\ work'[c].step \in {"next", "download", "lookup", "release"}
      /\ phase = "cancelled" => Abort(c) /\ work'[c].step = "next"
  <2>1. /\ work \in [Channels -> Work \cup {Idle, Ready}] /\ Ready.step = "next"
        /\ Busy(c) => work[c] \in Work
    BY BusyWork DEF Typed, WorkOK, Ready
  <2>2. Busy(c)
    BY DEF TakePlace, Abort, Download, Release, At, Busy
  <2>3. \A s : [work[c] EXCEPT !.step = s].step = s
    BY <2>1, <2>2 DEF Work
  <2>4. Return(c) \/ \E s \in {"download", "lookup", "release"} : Goto(c, s)
    BY DEF TakePlace, Abort, Download, Release
  <2>5. work'[c].step \in {"next", "download", "lookup", "release"}
    BY <2>1, <2>3, <2>4 DEF Return, Goto
  <2>6. phase = "cancelled" => Abort(c)
    BY DEF TakePlace, Download, Release, At
  <2>7. Abort(c) => work'[c].step = "next"
    BY <2>1 DEF Abort, Return
  <2>. QED BY <2>5, <2>6, <2>7
<1>3. /\ Slips <= Slips' /\ SpentOK' /\ Slack(c) <= Slack(c)'
      /\ Abort(c) /\ Working(c) => Slack(c) + 1 <= Slack(c)'
  BY <1>1, <1>2, SlackGrows DEF Working, Abort
<1>4. ~Abort(c) \/ ~Working(c) => ~Handling(c) /\ ~Marking(c)
  BY DEF TakePlace, Abort, Download, Release, At, Working, Handling, Marking
<1>5. Slack(c) + 1 <= Slack(c)' \/ (Slack(c) <= Slack(c)' /\ ~Handling(c) /\ ~Marking(c))
  BY <1>3, <1>4
<1>. QED BY <1>1, <1>2, <1>3, <1>5, BooksAside DEF Live

LEMMA BooksLookup ==
  ASSUME Typed, ConstantsAssumption, NEW c \in Channels, ChannelInv(c), Books(c), Lookup(c)
  PROVE  Books(c)'
<1>1. /\ row' = row /\ phase' = phase /\ log' = log /\ (Nothing \/ Happens("fault")) /\ row[c] \in Row
      /\ phase # "cancelled" /\ work[c].step = "lookup" /\ Busy(c)
  BY DEF Lookup, At, Busy, ChunkFrame, RowFrame, Typed, RowsOK
<1>2. Slips <= Slips' /\ SpentOK' /\ Slack(c) <= Slack(c)' /\ Slack(c) \in Int /\ Slack(c)' \in Int
  BY <1>1, SlackGrows, SlipsTyped DEF Typed, Slack, Slips, SpentOK, Events
<1>3. ~Handling(c) /\ ~Marking(c) /\ work[c] \in Work /\ work[c].at = 0
  BY <1>1, BusyWork DEF Handling, Marking, Typed, ChannelInv, InPosition, Positioned
<1>4. CASE Goto(c, "release") \/ Return(c)
  <2>1. work'[c].step \in {"release", "next"}
    BY <1>3, <1>4 DEF Goto, Return, Ready, Work, Typed, WorkOK
  <2>. QED BY <1>1, <1>2, <1>3, <2>1, BooksAside DEF Live
<1> DEFINE w == [work[c] EXCEPT !.import = row[c].import, !.finished = row[c].finished,
                   !.total = row[c].batches, !.skipped = Cardinality(row[c].skipped)]
           i0 == row[c].import
<1>5. CASE Live(c) /\ work' = [work EXCEPT ![c] = IF Skips(w) THEN [w EXCEPT !.step = "skip"] ELSE GoOn(w, 1)]
  <2>1. /\ w \in Work /\ w.id = work[c].id /\ w.import = i0 /\ w.finished = row[c].finished
        /\ w.total = row[c].batches /\ w.at = 0 /\ w.shape = work[c].shape
    <3>1. /\ row[c].import \in Imports \cup {0} /\ row[c].finished \in BOOLEAN /\ row[c].batches \in Nat
          /\ Cardinality(row[c].skipped) \in Nat
      BY <1>1, SkippedCounts DEF Row
    <3>. QED BY <1>3, <3>1 DEF Work
  <2>. HIDE DEF w
  <2>2. /\ Near(row[c].batches, Cardinality(ToldOf(c, i0)), Slack(c))
        /\ Cardinality(EndsOf(c, i0)) <= Slack(c) + 1
        /\ row[c].finished \/ Cardinality(EndsOf(c, i0)) <= Slack(c)
    BY <1>3, <1>5, RowAlone
  <2>3. Cardinality(ToldOf(c, i0)) \in Nat /\ Cardinality(EndsOf(c, i0)) \in Nat /\ row[c].batches \in Nat
    BY <1>1, BooksFinite DEF Row
  <2>4. /\ Near(row[c].batches, Cardinality(ToldOf(c, i0)), Slack(c)')
        /\ Cardinality(EndsOf(c, i0)) <= Slack(c)' + 1
        /\ row[c].finished \/ Cardinality(EndsOf(c, i0)) <= Slack(c)'
    <3>. HIDE DEF i0
    <3>. QED BY <1>2, <2>2, <2>3, NearStays
  <2>5. Ends(w) => Cardinality(EndsOf(c, i0)) <= Slack(c)'
    BY <2>1, <2>4 DEF Ends
  <2>6. CASE Skips(w)
    <3>1. work'[c] = [w EXCEPT !.step = "skip"]
      BY <1>5, <2>6 DEF Typed, WorkOK
    <3>2. /\ work'[c].step = "skip" /\ work'[c].import = i0 /\ work'[c].total = row[c].batches
          /\ Ends(work'[c]) <=> Ends(w)
      BY <2>1, <3>1 DEF Work, Ends
    <3>. QED BY <1>1, <1>2, <2>4, <2>5, <3>2, BooksReach
  <2>7. CASE ~Skips(w)
    <3>1. work' = [work EXCEPT ![c] = GoOn(w, 1)] /\ 1 > work[c].at /\ 1 \in Nat
      BY <1>3, <1>5, <2>7
    <3>. QED BY <1>1, <1>2, <2>1, <2>4, <2>5, <3>1, BooksGoOn
  <2>. QED BY <2>6, <2>7
<1>6. Goto(c, "release") \/ Return(c) \/
        (Live(c) /\ work' = [work EXCEPT ![c] = IF Skips(w) THEN [w EXCEPT !.step = "skip"] ELSE GoOn(w, 1)])
  BY DEF Lookup
<1>. QED BY <1>4, <1>5, <1>6

\* A write to the row.
LEMMA WrittenIs ==
  ASSUME Typed, NEW c \in Channels
  PROVE  /\ work[c].step = "skip" =>
              Written(c).batches = row[c].batches /\ Written(c).finished = row[c].finished
         /\ work[c].step = "count" =>
              Written(c).batches = row[c].batches + 1 /\ Written(c).finished = row[c].finished
         /\ work[c].step = "finish" =>
              /\ Written(c).batches = row[c].batches
              /\ Written(c).finished <=> row[c].finished \/ row[c].import = work[c].import
<1>1. row[c] \in Row
  BY DEF Typed, RowsOK
<1>2. CASE work[c].step = "skip"
  BY <1>1, <1>2 DEF Written, Row
<1>3. CASE work[c].step = "count"
  BY <1>1, <1>3 DEF Written, Row
<1>4. CASE work[c].step = "finish"
  <2>1. Written(c) = IF Unfinished(c) THEN [row[c] EXCEPT !.finished = TRUE] ELSE row[c]
    BY <1>4 DEF Written
  <2>2. CASE Unfinished(c)
    BY <1>1, <1>4, <2>1, <2>2 DEF Row, Unfinished
  <2>3. CASE ~Unfinished(c)
    BY <1>1, <1>4, <2>1, <2>3 DEF Row, Unfinished
  <2>. QED BY <2>2, <2>3
<1>. QED BY <1>2, <1>3, <1>4

\* publishChunk goes on after a batch, which is now settled.
LEMMA BooksCount ==
  ASSUME Typed, ConstantsAssumption, NEW c \in Channels, ChannelInv(c), Books(c),
         work[c].step = "count", log'[c] = log[c], Slips <= Slips', SpentOK', Slack(c) <= Slack(c)',
         NEW t \in Nat, work' = [work EXCEPT ![c] = GoOn([work[c] EXCEPT !.total = t], work[c].at + 1)],
         row'[c] \in Row, row'[c].import = row[c].import, row'[c].expired = row[c].expired,
         row'[c].finished = row[c].finished,
         \/ row'[c].batches = row[c].batches
         \/ row'[c].batches = row[c].batches + 1 /\ Matches(c),
         \/ Slack(c) + 1 <= Slack(c)' /\ t = work[c].total + 1
         \/ Matches(c) /\ row'[c].batches = row[c].batches + 1 /\ t = row'[c].batches,
         Matches(c) /\ row'[c].batches = row[c].batches => Slack(c) + 1 <= Slack(c)'
  PROVE  Books(c)'
<1>0. PICK i0 : i0 = work[c].import
  OBVIOUS
<1>1. /\ Busy(c) /\ work[c] \in Work /\ work[c].at \in Nat /\ work[c].total \in Nat
      /\ Positioned(c, work[c]) /\ work[c].shape.batches \in Nat /\ row[c] \in Row
  BY BusyWork, ShapeTyped DEF Busy, Typed, ChannelInv, InPosition, RowsOK
<1>2. IsBatch(c) /\ Handling(c) /\ ~Marking(c)
  BY <1>1 DEF IsBatch, Positioned, Handling, Marking
<1> DEFINE v == [work[c] EXCEPT !.total = t]
<1>3. /\ v \in Work /\ v.id = work[c].id /\ v.import = i0 /\ v.total = t /\ v.shape = work[c].shape
      /\ v.finished = work[c].finished
  BY <1>0, <1>1 DEF Work
<1>4. Ends(v) <=> Ends(work[c])
  BY <1>3 DEF Ends
<1>5. work' = [work EXCEPT ![c] = GoOn(v, work[c].at + 1)] /\ work[c].at + 1 \in Nat /\ work[c].at + 1 > work[c].at
  BY <1>1
<1>. HIDE DEF v
<1>6. /\ Slips \in Nat /\ Slips' \in Nat /\ Slack(c) \in Int /\ Slack(c)' \in Int
      /\ row[c].batches \in Nat /\ row'[c].batches \in Nat
  BY <1>1, SlipsTyped DEF Typed, Row, Slips, Slack, SpentOK, Events
<1>7. \A i : /\ Cardinality(Settled(c, i)) \in Nat /\ Cardinality(EndsOf(c, i)) \in Nat
             /\ Cardinality(ToldOf(c, i)) \in Nat
             /\ Cardinality(ToldOf(c, i)) = IF i = i0 THEN Cardinality(Settled(c, i)) + 1 ELSE Cardinality(Settled(c, i))
  <2>1. <<work[c].id, work[c].at>> \in ToldOf(c, i0)
    BY <1>0 DEF Books, Counting
  <2>. QED BY <1>0, <1>2, <2>1, SettledCounts, BooksFinite DEF InHand
<1>8. Near(work[c].total, Cardinality(Settled(c, i0)), Slack(c))
  BY <1>0 DEF Books, WorkKnows
<1>9. Live(c)' <=> Live(c)
  BY DEF Live
<1>10. ASSUME Live(c)
       PROVE  /\ Near(row'[c].batches, Cardinality(ToldOf(c, row'[c].import)), Slack(c)')
              /\ Cardinality(EndsOf(c, row'[c].import)) <= Slack(c)' + 1
              /\ row'[c].finished \/ Cardinality(EndsOf(c, row'[c].import)) <= Slack(c)'
  <2>1. Near(row[c].batches, Cardinality(Settled(c, row[c].import)), Slack(c))
    BY <1>10 DEF Books, RowKnows
  <2>2. /\ Cardinality(EndsOf(c, row[c].import)) <= Slack(c) + 1
        /\ row[c].finished \/ Cardinality(EndsOf(c, row[c].import)) <= Slack(c)
    BY <1>2, <1>10 DEF Books, RowEnds
  <2>3. CASE row[c].import = i0
    <3>1. Matches(c)
      BY <1>0, <1>10, <2>3 DEF Matches
    <3>. QED BY <1>6, <1>7, <2>1, <2>2, <2>3, <3>1 DEF Near
  <2>4. CASE row[c].import # i0
    <3>1. ~Matches(c)
      BY <1>0, <2>4 DEF Matches
    <3>. QED BY <1>6, <1>7, <2>1, <2>2, <2>4, <3>1 DEF Near
  <2>. QED BY <2>3, <2>4
<1>11. Near(v.total, Cardinality(ToldOf(c, i0)), Slack(c)')
  <2>1. CASE Slack(c) + 1 <= Slack(c)' /\ t = work[c].total + 1
    BY <1>1, <1>3, <1>6, <1>7, <1>8, <2>1 DEF Near
  <2>2. CASE Matches(c) /\ t = row'[c].batches
    BY <1>0, <1>3, <1>10, <2>2 DEF Matches
  <2>. QED BY <2>1, <2>2
<1>12. Ends(v) => Cardinality(EndsOf(c, i0)) <= Slack(c)'
  BY <1>0, <1>4, <1>6, <1>7 DEF Books, WorkEnds
<1>. QED BY <1>1, <1>3, <1>5, <1>9, <1>10, <1>11, <1>12, BooksGoOn

\* publishChunk goes on after the chats were skipped, or were not.
LEMMA BooksSkip ==
  ASSUME Typed, ConstantsAssumption, NEW c \in Channels, ChannelInv(c), Books(c),
         work[c].step = "skip", log'[c] = log[c], Slips <= Slips', SpentOK', Slack(c) <= Slack(c)',
         NEW k \in Nat, work' = [work EXCEPT ![c] = GoOn([work[c] EXCEPT !.skipped = k], 1)],
         row'[c].import = row[c].import, row'[c].expired = row[c].expired,
         row'[c].finished = row[c].finished, row'[c].batches = row[c].batches
  PROVE  Books(c)'
<1>0. PICK i0 : i0 = work[c].import
  OBVIOUS
<1>1. /\ Busy(c) /\ work[c] \in Work /\ work[c].at = 0 /\ work[c].total \in Nat /\ row[c] \in Row
      /\ ~Handling(c) /\ ~Marking(c)
  BY BusyWork DEF Busy, Typed, ChannelInv, InPosition, RowsOK, Positioned, Handling, Marking
<1> DEFINE v == [work[c] EXCEPT !.skipped = k]
<1>2. /\ v \in Work /\ v.id = work[c].id /\ v.import = i0 /\ v.total = work[c].total
      /\ v.shape = work[c].shape /\ v.finished = work[c].finished
  BY <1>0, <1>1 DEF Work
<1>3. Ends(v) <=> Ends(work[c])
  BY <1>2 DEF Ends
<1>4. work' = [work EXCEPT ![c] = GoOn(v, 1)] /\ 1 \in Nat /\ 1 > work[c].at
  BY <1>1
<1>. HIDE DEF v
<1>5. /\ Slack(c) \in Int /\ Slack(c)' \in Int /\ row[c].batches \in Nat
      /\ \A i : Cardinality(ToldOf(c, i)) \in Nat /\ Cardinality(EndsOf(c, i)) \in Nat
  BY <1>1, SlipsTyped, BooksFinite DEF Typed, Row, Slips, Slack, SpentOK, Events
<1>6. Near(work[c].total, Cardinality(ToldOf(c, i0)), Slack(c)')
  <2>1. Settled(c, i0) = ToldOf(c, i0)
    BY <1>1, SettledCounts DEF InHand
  <2>2. Near(work[c].total, Cardinality(ToldOf(c, i0)), Slack(c))
    BY <1>0, <2>1 DEF Books, WorkKnows
  <2>. QED BY <1>1, <1>5, <2>2, NearStays
<1>7. Ends(v) => Cardinality(EndsOf(c, i0)) <= Slack(c)'
  BY <1>0, <1>3, <1>5 DEF Books, WorkEnds
<1>8. ASSUME Live(c)'
      PROVE  /\ Near(row'[c].batches, Cardinality(ToldOf(c, row'[c].import)), Slack(c)')
             /\ Cardinality(EndsOf(c, row'[c].import)) <= Slack(c)' + 1
             /\ row'[c].finished \/ Cardinality(EndsOf(c, row'[c].import)) <= Slack(c)'
  <2>1. /\ Near(row[c].batches, Cardinality(ToldOf(c, row[c].import)), Slack(c))
        /\ Cardinality(EndsOf(c, row[c].import)) <= Slack(c) + 1
        /\ row[c].finished \/ Cardinality(EndsOf(c, row[c].import)) <= Slack(c)
    BY <1>1, <1>8, RowAlone DEF Live
  <2>. QED BY <1>5, <2>1 DEF Near
<1>9. Near(v.total, Cardinality(ToldOf(c, v.import)), Slack(c)')
  BY <1>2, <1>6
<1>10. Ends(v) => Cardinality(EndsOf(c, v.import)) <= Slack(c)'
  BY <1>2, <1>7
<1>. QED BY <1>1, <1>2, <1>4, <1>8, <1>9, <1>10, BooksGoOn

\* The write to the row of c, with a goroutine that goes on.
LEMMA RowWritten ==
  ASSUME Typed, ConstantsAssumption, NEW c \in Channels, Persisting(c), row' = [row EXCEPT ![c] = Written(c)]
  PROVE  row'[c] = Written(c) /\ row'[c] \in Row /\ row'[c].import = row[c].import /\ row'[c].expired = row[c].expired
<1>1. Busy(c) /\ row \in [Channels -> Row]
  BY DEF Persisting, At, Busy, Typed, RowsOK
<1>. QED BY <1>1, WritesRow

LEMMA BooksPersist ==
  ASSUME Typed, ConstantsAssumption, NEW c \in Channels, ChannelInv(c), Books(c), Persist(c)
  PROVE  Books(c)'
<1>1. /\ Persisting(c) /\ Busy(c) /\ work[c].step \in {"skip", "count", "finish"} /\ log' = log /\ phase' = phase
      /\ Nothing /\ phase # "cancelled" /\ work[c] \in Work /\ row[c] \in Row
  BY BusyWork DEF Persist, Persisting, At, Busy, Typed, RowsOK
<1>2. Slips <= Slips' /\ SpentOK' /\ Slack(c) <= Slack(c)'
  BY <1>1, SlackGrows
<1>3. ASSUME work' = [work EXCEPT ![c] = [work[c] EXCEPT !.step = "release"]]
      PROVE  work'[c].step = "release"
  BY <1>1, <1>3 DEF Work, Typed, WorkOK
<1>4. CASE Found(c) /\ row' = [row EXCEPT ![c] = Written(c)] /\ work' = [work EXCEPT ![c] = Resumed(c, Written(c))]
  <2>1. row'[c] = Written(c) /\ row'[c] \in Row /\ row'[c].import = row[c].import /\ row'[c].expired = row[c].expired
    BY <1>1, <1>4, RowWritten
  <2>2. row'[c].batches \in Nat /\ Cardinality(Written(c).skipped) \in Nat
    BY <2>1, SkippedCounts DEF Row
  <2>3. CASE work[c].step = "skip"
    BY <1>1, <1>2, <1>4, <2>1, <2>2, <2>3, WrittenIs, BooksSkip DEF Resumed
  <2>4. CASE work[c].step = "count"
    <3>1. Matches(c) /\ row'[c].batches = row[c].batches + 1 /\ row'[c].finished = row[c].finished
      BY <1>4, <2>1, <2>4, WrittenIs DEF Found
    <3>2. work' = [work EXCEPT ![c] = GoOn([work[c] EXCEPT !.total = row'[c].batches], work[c].at + 1)]
      BY <1>4, <2>1, <2>4 DEF Resumed, Counted
    <3>3. row'[c].batches # row[c].batches
      BY <1>1, <3>1 DEF Row
    <3>4. PICK t \in Nat : t = row'[c].batches
      BY <2>2
    <3>. QED BY <1>1, <1>2, <2>1, <2>4, <3>1, <3>2, <3>3, <3>4, BooksCount
  <2>5. CASE work[c].step = "finish"
    <3>1. work'[c].step = "release"
      BY <1>3, <1>4, <2>5 DEF Resumed
    <3>2. ~Handling(c) /\ row'[c].batches = row[c].batches
          /\ (row'[c].finished <=> row[c].finished \/ row[c].import = work[c].import)
      BY <2>1, <2>5, WrittenIs DEF Handling
    <3>3. row'[c].finished \/ (~row[c].finished /\ ~Marking(c))
      BY <3>2 DEF Marking
    <3>. QED BY <1>1, <1>2, <2>1, <3>1, <3>2, <3>3, BooksAside DEF Live
  <2>. QED BY <1>1, <2>3, <2>4, <2>5
<1>5. CASE ~Found(c) /\ Goto(c, "release") /\ row' = row
  <2>1. work'[c].step = "release"
    BY <1>3, <1>5 DEF Goto
  <2>2. ~Marking(c) /\ (Live(c) => work[c].import # row[c].import)
    BY <1>5 DEF Found, Matches, Marking
  <2>. QED BY <1>1, <1>2, <1>5, <2>1, <2>2, BooksAside DEF Live
<1>. QED BY <1>4, <1>5 DEF Persist

LEMMA BooksPersistFails ==
  ASSUME Typed, ConstantsAssumption, NEW c \in Channels, ChannelInv(c), Books(c), PersistFails(c)
  PROVE  Books(c)'
<1>1. /\ Persisting(c) /\ Busy(c) /\ work[c].step \in {"skip", "count", "finish"} /\ log' = log /\ phase' = phase
      /\ Happens("fault") /\ phase # "cancelled" /\ work[c] \in Work /\ row[c] \in Row
      /\ work[c].total \in Nat /\ work[c].skipped \in Nat /\ row[c].batches \in Nat
  BY BusyWork DEF PersistFails, Persisting, At, Busy, Typed, RowsOK, Row
<1>2. Slips <= Slips' /\ SpentOK' /\ Slack(c) <= Slack(c)' /\ Slack(c) + 1 <= Slack(c)'
  BY <1>1, SlackGrows
<1>3. /\ row'[c] \in Row /\ row'[c].import = row[c].import /\ row'[c].expired = row[c].expired
      /\ row'[c] = row[c] \/ (row'[c] = Written(c) /\ Found(c))
  BY <1>1, RowWritten DEF PersistFails
<1>4. /\ work[c].step = "count" => /\ row'[c].finished = row[c].finished
                                   /\ \/ row'[c].batches = row[c].batches
                                      \/ row'[c].batches = row[c].batches + 1 /\ Matches(c)
      /\ work[c].step = "skip" => row'[c].finished = row[c].finished /\ row'[c].batches = row[c].batches
      /\ work[c].step = "finish" => /\ row'[c].finished \/ ~row[c].finished
                                    /\ row'[c].batches = row[c].batches
  BY <1>3, WrittenIs DEF Found
<1>5. CASE work' = [work EXCEPT ![c] = Retried(c)]
  <2>1. /\ work'[c].id = work[c].id /\ work'[c].at = work[c].at /\ work'[c].import = work[c].import
        /\ work'[c].shape = work[c].shape /\ work'[c].total = work[c].total
        /\ work'[c].finished = work[c].finished /\ work'[c].step = work[c].step
    BY <1>1, <1>5 DEF Retried, Work, Typed, WorkOK
  <2>2. /\ row'[c].finished \/ ~row[c].finished
        /\ row'[c].batches = row[c].batches \/ row'[c].batches = row[c].batches + 1
    BY <1>1, <1>4
  <2>3. Marked(c) /\ (Live(c)' => Live(c))
    BY <1>1, <1>3 DEF Marked, Live
  <2>. QED BY <1>1, <1>2, <1>3, <2>1, <2>2, <2>3, BooksStay
<1>6. CASE work' = [work EXCEPT ![c] = GivenUp(c)]
  <2>1. CASE work[c].step = "skip"
    <3>1. work[c].skipped \in Nat /\ work[c] = [work[c] EXCEPT !.skipped = work[c].skipped]
      BY <1>1 DEF Work
    <3>2. work' = [work EXCEPT ![c] = GoOn([work[c] EXCEPT !.skipped = work[c].skipped], 1)]
      BY <1>6, <2>1, <3>1 DEF GivenUp
    <3>3. PICK k \in Nat : k = work[c].skipped
      BY <3>1
    <3>. QED BY <1>1, <1>2, <1>3, <1>4, <2>1, <3>2, <3>3, BooksSkip
  <2>2. CASE work[c].step = "count"
    <3>1. PICK t \in Nat : t = work[c].total + 1
      BY <1>1
    <3>2. work' = [work EXCEPT ![c] = GoOn([work[c] EXCEPT !.total = t], work[c].at + 1)]
      BY <1>6, <2>2, <3>1 DEF GivenUp
    <3>. QED BY <1>1, <1>2, <1>3, <1>4, <2>2, <3>1, <3>2, BooksCount
  <2>3. CASE work[c].step = "finish"
    <3>1. work'[c].step = "release"
      BY <1>1, <1>6, <2>3 DEF GivenUp, Work, Typed, WorkOK
    <3>. QED BY <1>1, <1>2, <1>3, <1>4, <2>3, <3>1, BooksAside DEF Live
  <2>. QED BY <1>1, <2>1, <2>2, <2>3
<1> DEFINE again == work[c].tries + 1 < StoreAttempts
<1>7. work' = [work EXCEPT ![c] = IF again THEN Retried(c) ELSE GivenUp(c)]
  BY DEF PersistFails
<1>. HIDE DEF again
<1>8. (again /\ work' = [work EXCEPT ![c] = Retried(c)]) \/ (~again /\ work' = [work EXCEPT ![c] = GivenUp(c)])
  BY <1>7, Zenon
<1>. QED BY <1>5, <1>6, <1>8

LEMMA BooksCheck ==
  ASSUME Typed, ConstantsAssumption, NEW c \in Channels, Books(c), Check(c)
  PROVE  Books(c)'
<1>1. /\ Busy(c) /\ work[c].step = "check" /\ log' = log /\ phase' = phase /\ row' = row
      /\ Nothing /\ phase # "cancelled" /\ work[c] \in Work /\ row[c] \in Row
  BY BusyWork DEF Check, At, Busy, ChunkFrame, RowFrame, Typed, RowsOK
<1>2. Slips <= Slips' /\ SpentOK' /\ Slack(c) <= Slack(c)'
  BY <1>1, SlackGrows
<1>3. ASSUME NEW s, Goto(c, s)
      PROVE  /\ work'[c].step = s
             /\ work'[c].id = work[c].id /\ work'[c].at = work[c].at /\ work'[c].import = work[c].import
             /\ work'[c].shape = work[c].shape /\ work'[c].total = work[c].total
             /\ work'[c].finished = work[c].finished
  BY <1>1, <1>3 DEF Goto, Work, Typed, WorkOK
<1>4. CASE StillActive(c) /\ Goto(c, "publish")
  <2>1. /\ work'[c].step = "publish"
        /\ work'[c].id = work[c].id /\ work'[c].at = work[c].at /\ work'[c].import = work[c].import
        /\ work'[c].shape = work[c].shape /\ work'[c].total = work[c].total
        /\ work'[c].finished = work[c].finished
    BY <1>3, <1>4
  <2>. QED BY <1>1, <1>2, <2>1, BooksStay DEF Marked, Live
<1>5. CASE ~StillActive(c) /\ Goto(c, "release")
  <2>1. work'[c].step = "release"
    BY <1>3, <1>5
  <2>2. ~Marking(c) /\ (Live(c) => work[c].import # row[c].import)
    BY <1>1, <1>5 DEF StillActive, Matches, Marking
  <2>. QED BY <1>1, <1>2, <2>1, <2>2, BooksAside DEF Live
<1>. QED BY <1>4, <1>5 DEF Check

LEMMA BooksPublish ==
  ASSUME Typed, ConstantsAssumption, NEW c \in Channels, ChannelInv(c), Books(c), Publish(c) \/ PublishFails(c)
  PROVE  Books(c)'
<1>1. /\ Busy(c) /\ work[c].step = "publish" /\ phase' = phase /\ row' = row
      /\ (Nothing \/ Happens("fault")) /\ phase # "cancelled" /\ work[c] \in Work /\ row[c] \in Row
      /\ Positioned(c, work[c])
  BY BusyWork DEF Publish, PublishFails, At, Busy, RowFrame, Typed, RowsOK, ChannelInv, InPosition
<1>2. /\ Slips <= Slips' /\ SpentOK' /\ Slack(c) <= Slack(c)'
      /\ Happens("fault") => Slack(c) + 1 <= Slack(c)'
  BY <1>1, SlackGrows
<1>3. ASSUME NEW s, NEW k, work' = [work EXCEPT ![c] = [work[c] EXCEPT !.step = s, !.tries = k]]
      PROVE  /\ work'[c].step = s
             /\ work'[c].id = work[c].id /\ work'[c].at = work[c].at /\ work'[c].import = work[c].import
             /\ work'[c].shape = work[c].shape /\ work'[c].total = work[c].total
             /\ work'[c].finished = work[c].finished
  BY <1>1, <1>3 DEF Work, Typed, WorkOK
<1>4. work \in [Channels -> Work \cup {Idle, Ready}]
  BY DEF Typed, WorkOK
<1>5. CASE Publish(c)
  <2>1. /\ Says(c, Message(c))
        /\ work' = [work EXCEPT ![c].step = IF IsBatch(c) THEN "count" ELSE "finish", ![c].tries = 0]
    BY <1>5 DEF Publish
  <2>2. PICK s : s = IF IsBatch(c) THEN "count" ELSE "finish"
    OBVIOUS
  <2>3. work' = [work EXCEPT ![c] = [work[c] EXCEPT !.step = s, !.tries = 0]]
    BY <1>4, <2>1, <2>2
  <2>. QED BY <1>1, <1>2, <1>3, <2>1, <2>2, <2>3, BooksSpeak
<1>6. CASE PublishFails(c)
  <2>1. work' = [work EXCEPT ![c] = [work[c] EXCEPT !.step = "check", !.tries = 1]]
        /\ Happens("fault") /\ (log' = log \/ Says(c, Message(c)))
    BY <1>4, <1>6 DEF PublishFails, Again
  <2>2. /\ work'[c].step = "check"
        /\ work'[c].id = work[c].id /\ work'[c].at = work[c].at /\ work'[c].import = work[c].import
        /\ work'[c].shape = work[c].shape /\ work'[c].total = work[c].total
        /\ work'[c].finished = work[c].finished
    BY <1>3, <2>1
  <2>3. CASE Says(c, Message(c))
    BY <1>1, <1>2, <2>1, <2>2, <2>3, BooksSpeak
  <2>4. CASE log' = log
    BY <1>1, <1>2, <2>2, <2>4, BooksStay DEF Marked, Live
  <2>. QED BY <2>1, <2>3, <2>4
<1>. QED BY <1>5, <1>6

LEMMA BooksDrain ==
  ASSUME Typed, ConstantsAssumption, NEW c \in Channels, ChannelInv(c), Books(c), Drain(c)
  PROVE  Books(c)'
BY BooksTakeNext, BooksLeave, BooksLookup, BooksPersist, BooksPersistFails, BooksCheck, BooksPublish DEF Drain

\* A step that leaves the goroutine and the log of c, and does not end what its row tells.
LEMMA BooksUntouched ==
  ASSUME Typed, NEW c \in Channels, Books(c), Marked(c), row'[c] \in Row, work'[c] = work[c],
         Slips <= Slips', SpentOK', Slack(c) <= Slack(c)',
         Live(c)' => /\ Live(c) /\ row'[c].import = row[c].import /\ row'[c].batches = row[c].batches
                     /\ row'[c].finished \/ ~row[c].finished
  PROVE  Books(c)'
BY BooksStay DEF Typed, RowsOK

\* An import that begins: nothing in the log is of it.
LEMMA FreshImport ==
  ASSUME Typed, NEW c \in Channels
  PROVE  Fresh(c, spent["row"] + 1)
<1>1. spent["row"] \in Nat /\ \A j \in Places(log[c]) : log[c][j].import \in 0..spent["row"]
  BY DEF Typed, SpentOK, LogOK, Began, Events
<1>2. \A j \in Places(log[c]) : log[c][j].import # spent["row"] + 1
  BY <1>1
<1>. QED BY <1>2 DEF Fresh, ToldOf, EndsOf

LEMMA BooksPairs ==
  ASSUME Typed, ConstantsAssumption, NEW c \in Channels, Books(c), Pairs(c)
  PROVE  Books(c)'
<1>1. /\ work' = work /\ phase' = phase /\ (Nothing \/ Happens("row") \/ Happens("fault"))
      /\ row \in [Channels -> Row] /\ row[c].import \in Nat /\ Typed'
  BY PairsFrame, PairsKeepTypes, LogShape DEF GatewayFrame, Typed, RowsOK
<1>2. Slips <= Slips' /\ SpentOK' /\ Slack(c) <= Slack(c)' /\ Slack(c) \in Int /\ Slack(c)' \in Int
      /\ Slips \in Nat /\ Slips' \in Nat /\ row'[c] \in Row
  BY <1>1, SlackGrows, SlipsTyped DEF Typed, Slack, Slips, SpentOK, Events, Working, RowsOK
<1>3. CASE Begin(c)
  <2>1. spent'["row"] = spent["row"] + 1 /\ spent'["row"] \in Nat /\ spent'["row"] \in Imports \cup {0}
    BY <1>3 DEF Begin, Happens, Typed, SpentOK, Events, ConstantsAssumption, Imports
  <2>2. /\ row' = [row EXCEPT ![c] = [NoRow EXCEPT !.import = spent'["row"]]]
        /\ Says(c, Mark("begin", spent'["row"])) /\ phase = "up"
    BY <1>3 DEF Begin
  <2>3. row'[c].import = spent["row"] + 1 /\ row'[c].batches = 0
    BY <1>1, <2>1, <2>2 DEF NoRow
  <2>4. Marked(c)
    BY <2>1, <2>2, MarkTyped DEF Marked
  <2>5. 0 <= Slack(c)'
    BY <1>1, <1>2, <2>2 DEF Slack
  <2>6. row[c] \in Row
    BY <1>1
  <2>. QED BY <1>1, <1>2, <2>3, <2>4, <2>5, <2>6, FreshImport, BooksStay
<1>4. CASE Clear(c)
  <2>1. row'[c] = NoRow /\ Says(c, Mark("clear", 0)) /\ NoRow.import = 0
    BY <1>1, <1>4, NoRowTyped DEF Clear
  <2>2. ~Live(c)'
    BY <2>1 DEF Live
  <2>. QED BY <1>1, <1>2, <2>1, <2>2, MarkTyped, BooksUntouched DEF Marked
<1>5. CASE PublishEmptyEnd(c)
  <2>1. PICK e \in ending[c] : row' = row /\ (UNCHANGED log \/ Says(c, Mark("empty", e.import)))
    BY <1>5 DEF PublishEmptyEnd
  <2>2. e.import \in Nat
    BY DEF Typed, EndingOK, Ending, Imports
  <2>3. Marked(c)
    BY <2>1, <2>2, MarkTyped DEF Marked
  <2>. QED BY <1>1, <1>2, <2>1, <2>3, BooksUntouched DEF Live
<1>6. CASE FinishEmptyImport(c) \/ Expire(c)
  <2>1. /\ log' = log
        /\ \/ row' = row
           \/ row' = [row EXCEPT ![c].finished = TRUE]
           \/ row' = [row EXCEPT ![c].expired = TRUE]
    BY <1>6 DEF FinishEmptyImport, Expire
  <2>2. /\ row'[c].import = row[c].import /\ row'[c].batches = row[c].batches
        /\ row'[c].finished \/ ~row[c].finished
        /\ Live(c)' => Live(c)
    BY <1>1, <2>1 DEF Row, Live
  <2>. QED BY <1>1, <1>2, <2>1, <2>2, BooksUntouched DEF Marked
<1>. QED BY <1>3, <1>4, <1>5, <1>6 DEF Pairs

LEMMA BooksAccept ==
  ASSUME Typed, ConstantsAssumption, NEW c \in Channels, Books(c), NEW shape \in Shapes, Accept(c, shape)
  PROVE  Books(c)'
<1>1. /\ row' = row /\ log' = log /\ phase' = phase /\ SpentOK' /\ row[c] \in Row /\ Slips' = Slips
      /\ Slips \in Nat
  BY Accepts, AcceptKeepsTypes, SlipsTyped DEF Typed, RowsOK, Accept, Happens, SpentOK, Events, Slips
<1>2. work'[c] = work[c] \/ (work[c].step = "idle" /\ work'[c].step = "next")
  BY Accepts DEF Draining, Ready, Typed, WorkOK
<1>3. Slack(c) <= Slack(c)'
  BY <1>1, <1>2 DEF Slack, Working
<1>4. CASE work'[c] = work[c]
  BY <1>1, <1>3, <1>4, BooksUntouched DEF Marked, Live
<1>5. CASE work[c].step = "idle" /\ work'[c].step = "next"
  BY <1>1, <1>3, <1>5, BooksAside DEF Live, Handling, Marking
<1>. QED BY <1>2, <1>4, <1>5

\* A stop counts as a slip at once, and a channel that is closing owes it until it is cancelled or down.
LEMMA BooksLives ==
  ASSUME Typed, ConstantsAssumption, NEW c \in Channels, Books(c), Lives
  PROVE  Books(c)'
<1>1. row' = row /\ log' = log /\ SpentOK' /\ row[c] \in Row /\ Slips \in Nat /\ Slips' \in Nat
  BY LivesFrame, SlipsTyped DEF Typed, RowsOK, SpentOK, Events, Slips
<1>2. Nothing => Slips' = Slips
  BY DEF Nothing, Slips
<1>3. Happens("stop") => Slips' = Slips + 1
  BY DEF Happens, Slips, Typed, SpentOK, Events
<1>4. CASE Close \/ Cancel \/ Restart \/ Rest \/ UNCHANGED vars
  <2>1. work' = work
    BY <1>4 DEF Close, Cancel, Restart, Rest, vars
  <2>2. Slips <= Slips' /\ Slack(c) <= Slack(c)'
    <3>1. Working(c)' <=> Working(c)
      BY <2>1 DEF Working
    <3>2. CASE Close
      BY <1>1, <1>3, <3>2 DEF Close, Slack
    <3>3. CASE Cancel \/ Restart
      <4>1. Slips' = Slips /\ (phase = "closing" \/ phase = "down") /\ phase' \in {"cancelled", "up"}
            /\ (phase = "down" => phase' = "up")
        BY <1>2, <3>3 DEF Cancel, Restart
      <4>2. Slack(c)' \in {Slips, Slips - 1} /\ (phase = "closing" => Slack(c) = Slips - 1)
        BY <4>1 DEF Slack
      <4>3. phase = "down" => Slack(c)' = Slips /\ Slack(c) = Slips
        BY <4>1 DEF Slack
      <4>. QED BY <1>1, <4>1, <4>2, <4>3
    <3>4. CASE Rest \/ UNCHANGED vars
      BY <1>1, <2>1, <3>1, <3>4 DEF Rest, vars, Slack, Slips
    <3>. QED BY <1>4, <3>2, <3>3, <3>4
  <2>. QED BY <1>1, <2>1, <2>2, BooksUntouched DEF Marked, Live
<1>5. CASE Closed \/ Crash
  <2>1. work'[c] = Idle /\ Idle.step = "idle" /\ phase' = "down"
    BY <1>5 DEF Closed, Crash, GoDown, Idle
  <2>2. CASE Closed
    <3>1. ~Handling(c) /\ ~Marking(c)
      BY <2>2 DEF Closed, Waited, AllDrained, Draining, Handling, Marking
    <3>2. Slips' = Slips /\ Slack(c)' = Slips' /\ Slack(c) <= Slips
      BY <1>1, <1>2, <2>1, <2>2 DEF Closed, Slack
    <3>. QED BY <1>1, <2>1, <3>1, <3>2, BooksAside DEF Live
  <2>3. CASE Crash
    <3>1. Slips' = Slips + 1 /\ Slack(c)' = Slips' /\ Slack(c) <= Slips /\ Slack(c) \in Int
      BY <1>1, <1>3, <2>1, <2>3 DEF Crash, Slack
    <3>. QED BY <1>1, <2>1, <3>1, BooksAside DEF Live
  <2>. QED BY <1>5, <2>2, <2>3
<1>. QED BY <1>4, <1>5 DEF Lives

LEMMA SlipsGrow ==
  ASSUME SpentOK, SpentOK', spent["fault"] <= spent'["fault"], spent["stop"] <= spent'["stop"]
  PROVE  Slips <= Slips'
BY DEF Slips, SpentOK, Events

\* What happens to another channel.
LEMMA BooksStand ==
  ASSUME Typed, NEW c \in Channels, Books(c), UNCHANGED <<work[c], log[c], row[c], phase>>,
         SpentOK', Slips <= Slips'
  PROVE  Books(c)'
<1>1. Slips \in Nat /\ Slips' \in Nat /\ row[c] \in Row
  BY SlipsTyped DEF Typed, RowsOK, Slips, SpentOK, Events
<1>2. phase' = phase /\ (Working(c)' <=> Working(c))
  BY DEF Working
<1>3. Slack(c) <= Slack(c)'
  <2>1. PICK a \in Nat, b \in Nat : a = Slips /\ b = Slips'
    BY <1>1
  <2>2. a <= b
    BY <2>1, Zenon
  <2>3. a - 1 <= b - 1
    BY <2>2
  <2>4. (Slack(c) = a /\ Slack(c)' = b) \/ (Slack(c) = a - 1 /\ Slack(c)' = b - 1)
    BY <1>2, <2>1 DEF Slack
  <2>. QED BY <2>2, <2>3, <2>4, Zenon
<1>. QED BY <1>1, <1>3, BooksUntouched DEF Marked, Live

LEMMA BooksElsewhere ==
  ASSUME Typed, ConstantsAssumption, NEW c \in Channels, NEW d \in Channels \ {c}, Books(d),
         Drain(c) \/ Pairs(c) \/ \E shape \in Shapes : Accept(c, shape)
  PROVE  Books(d)'
<1>1. UNCHANGED <<work[d], log[d], row[d], phase>>
  <2>1. CASE Drain(c)
    BY <2>1 DEF Drain, TakeNext, TakePlace, Abort, Download, Lookup, Persist, PersistFails, Check, Publish,
       PublishFails, Release, ChunkFrame, RowFrame, Goto, Return, Says, Again, Typed, WorkOK, RowsOK, QueuesOK, LogOK
  <2>2. CASE Pairs(c)
    BY <2>2 DEF Pairs, Begin, Clear, PublishEmptyEnd, FinishEmptyImport, Expire, GatewayFrame, Says,
       Typed, WorkOK, RowsOK, QueuesOK, LogOK
  <2>3. CASE \E shape \in Shapes : Accept(c, shape)
    BY <2>3 DEF Accept, RowFrame, Typed, WorkOK, RowsOK, QueuesOK, LogOK
  <2>. QED BY <2>1, <2>2, <2>3
<1>2. Nothing \/ \E e \in Events : Happens(e)
  BY DrainFrame, PairsFrame DEF Accept, Events
<1>3. SpentOK' /\ spent["fault"] <= spent'["fault"] /\ spent["stop"] <= spent'["stop"]
  BY <1>2, Spending DEF Typed, Events
<1>4. Slips <= Slips'
  BY <1>3, SlipsGrow DEF Typed
<1>. QED BY <1>1, <1>3, <1>4, BooksStand

LEMMA BooksOpen ==
  ASSUME ConstantsAssumption, Init, NEW c \in Channels
  PROVE  Books(c)
<1>1. Typed
  BY Initially DEF IInv
<1>2. /\ log[c] = <<Mark("begin", 1)>> /\ work[c].step = "idle" /\ row[c].batches = 0 /\ row[c].import = 1
      /\ phase = "up"
  BY DEF Init, Idle, NoRow
<1>3. \A j \in Places(log[c]) : log[c][j].kind = "begin"
  <2>1. Places(log[c]) = {1} /\ log[c][1].kind = "begin"
    BY <1>2 DEF Places, Mark
  <2>. QED BY <2>1
<1>4. \A i : ToldOf(c, i) = {} /\ EndsOf(c, i) = {}
  BY <1>3 DEF ToldOf, EndsOf
<1>5. \A i : Cardinality(Settled(c, i)) = 0 /\ Cardinality(EndsOf(c, i)) = 0
  <2>1. \A i : Settled(c, i) = {}
    BY <1>4 DEF Settled
  <2>. QED BY <1>4, <2>1, FS_EmptySet
<1>6. Slack(c) \in Nat
  BY <1>1, <1>2, SlipsTyped DEF Slack, Typed
<1>. QED BY <1>2, <1>3, <1>5, <1>6 DEF Books, Counting, RowKnows, WorkKnows, RowEnds, WorkEnds, BookedLog, Booked, Near

BInv == \A c \in Channels : Books(c)

LEMMA BooksKept ==
  ASSUME ConstantsAssumption
  PROVE  Spec => [](IInv /\ BInv)
<1>1. Init => BInv
  BY BooksOpen DEF BInv
<1>2. ASSUME IInv, BInv, [Next]_vars
      PROVE  BInv'
  <2>1. Typed /\ \A c \in Channels : ChannelInv(c) /\ Books(c)
    BY <1>2 DEF IInv, BInv
  <2>2. ASSUME NEW c \in Channels,
               Drain(c) \/ Pairs(c) \/ \E shape \in Shapes : Accept(c, shape)
        PROVE  \A d \in Channels : Books(d)'
    <3>1. Books(c)'
      BY <2>1, <2>2, BooksDrain, BooksPairs, BooksAccept
    <3>2. \A d \in Channels \ {c} : Books(d)'
      BY <2>1, <2>2, BooksElsewhere
    <3>. QED BY <3>1, <3>2
  <2>3. CASE Lives
    BY <2>1, <2>3, BooksLives DEF BInv
  <2>. QED BY <1>2, <2>2, <2>3 DEF Next, Lives, BInv
<1>. QED BY <1>1, <1>2, Inductive, PTL DEF Spec

LEMMA BooksAreRight ==
  ASSUME BInv
  PROVE  EndsWithTotal
<1>. SUFFICES ASSUME NEW c \in Channels, NEW j \in 1..Len(log[c]), log[c][j].kind = "done"
              PROVE  LET sent  == Cardinality(BatchesBefore(c, log[c][j].import, j))
                         slips == spent["fault"] + spent["stop"]
                         ends  == {i \in 1..j : log[c][i].kind = "done" /\ log[c][i].import = log[c][j].import}
                     IN  /\ log[c][j].total <= sent + slips /\ sent <= log[c][j].total + slips
                         /\ Cardinality(ends) <= 1 + slips
  BY DEF EndsWithTotal
<1>1. Booked(c, j)
  BY DEF BInv, Books, BookedLog, Places
<1>. QED BY <1>1 DEF Booked, Near, Slips

-----------------------------------------------------------------------------
\* The types; a goroutine for every queue that holds a chunk, none in a process that is
\* down, and no more chunks at work than Importer.chunks has places.
THEOREM TypeCorrect ==
  ASSUME ConstantsAssumption
  PROVE  Spec => []TypeOK
<1>1. IInv => TypeOK
  BY TypedIsTypeOK DEF IInv
<1>. QED BY <1>1, Inductive, PTL

\* What a channel publishes of its history follows its chunks and their batches, with no
\* batch left out, whatever fails, stops or crashes.
THEOREM HistoryInOrder ==
  ASSUME ConstantsAssumption
  PROVE  Spec => []WholeAndInOrder
<1>1. IInv => WholeAndInOrder
  BY InvIsWhole
<1>. QED BY <1>1, Inductive, PTL

\* WhatsApp is told to delete a chunk only once all its batches have been published, or
\* the import they were for is no longer the channel's.
THEOREM ReleasedOnlyWhenPublished ==
  ASSUME ConstantsAssumption
  PROVE  Spec => []ReleasedWhenPublished
<1>1. IInv => ReleasedWhenPublished
  BY InvIsReleased
<1>. QED BY <1>1, Inductive, PTL

\* After a pair command or a logout has replaced or cleared an import, one message at
\* most is still published for it, the one that was being published.
THEOREM ReplacedFallsSilent ==
  ASSUME ConstantsAssumption
  PROVE  Spec => []SilentOnceReplaced
<1>1. IInv => SilentOnceReplaced
  BY InvIsSilent
<1>. QED BY <1>1, Inductive, PTL

\* The total an end announces is the number of batches published before it, each counted
\* once, and an import is ended once, but for one for each call that fails and each stop.
THEOREM TotalsRight ==
  ASSUME ConstantsAssumption
  PROVE  Spec => []EndsWithTotal
<1>1. BInv => EndsWithTotal
  BY BooksAreRight
<1>. QED BY <1>1, BooksKept, PTL

=============================================================================
