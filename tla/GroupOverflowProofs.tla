------------------------ MODULE GroupOverflowProofs ------------------------
(***************************************************************************)
(* Proofs about GroupOverflow, for any channels, backlog, prefetch and     *)
(* bounds: types, one goroutine per lane, no command lost, sends that      *)
(* never block, and, without faults, the refinement of ChannelFifo.        *)
(***************************************************************************)
EXTENDS MCGroupOverflow, SequenceTheorems, FiniteSetTheorems, TLAPS

-----------------------------------------------------------------------------
(* What the operations on queues (sequences) and on the broker's returned   *)
(* messages (bags) do to the set of their elements.                         *)

\* Append keeps every element and adds one.
LEMMA RangeOfAppend ==
  ASSUME NEW S, NEW s \in Seq(S), NEW e \in S
  PROVE  /\ Append(s, e) \in Seq(S)
         /\ ToSet(Append(s, e)) = ToSet(s) \cup {e}
<1> DEFINE t == Append(s, e)
<1>1. /\ t \in Seq(S) /\ Len(t) = Len(s) + 1 /\ t[Len(s) + 1] = e
      /\ \A i \in 1..Len(s) : t[i] = s[i]
  OBVIOUS
<1>2. DOMAIN s = 1..Len(s) /\ DOMAIN t = 1..(Len(s) + 1) /\ Len(s) \in Nat
  BY <1>1
<1>3. ToSet(t) = {t[i] : i \in 1..(Len(s) + 1)} /\ ToSet(s) = {s[i] : i \in 1..Len(s)}
  BY <1>2 DEF ToSet
<1>. HIDE DEF t
<1>4. ToSet(t) \subseteq ToSet(s) \cup {e}
  <2>. SUFFICES ASSUME NEW i \in 1..(Len(s) + 1)
                PROVE  t[i] \in ToSet(s) \cup {e}
    BY <1>3
  <2>1. i \in 1..Len(s) \/ i = Len(s) + 1
    BY <1>2
  <2>. QED BY <2>1, <1>1, <1>3
<1>5. ToSet(s) \cup {e} \subseteq ToSet(t)
  <2>1. 1..Len(s) \subseteq 1..(Len(s) + 1) /\ Len(s) + 1 \in 1..(Len(s) + 1)
    BY <1>2
  <2>. QED BY <2>1, <1>1, <1>3
<1>. QED BY <1>1, <1>4, <1>5 DEF t

\* A non-empty queue is its head and its tail.
LEMMA RangeOfTail ==
  ASSUME NEW S, NEW s \in Seq(S), s # <<>>
  PROVE  /\ Tail(s) \in Seq(S) /\ Head(s) \in S
         /\ ToSet(s) = {Head(s)} \cup ToSet(Tail(s))
<1>1. /\ Tail(s) \in Seq(S) /\ Head(s) \in S /\ Head(s) = s[1]
      /\ Len(s) \in Nat \ {0} /\ Len(Tail(s)) = Len(s) - 1
      /\ \A i \in 1..(Len(s) - 1) : Tail(s)[i] = s[i + 1]
  BY HeadTailProperties, EmptySeq, LenProperties
<1>2. DOMAIN s = 1..Len(s) /\ DOMAIN Tail(s) = 1..(Len(s) - 1)
  BY <1>1
<1>3. ToSet(s) = {s[i] : i \in 1..Len(s)}
      /\ ToSet(Tail(s)) = {Tail(s)[i] : i \in 1..(Len(s) - 1)}
  BY <1>2 DEF ToSet
<1>4. ToSet(s) \subseteq {Head(s)} \cup ToSet(Tail(s))
  <2>. SUFFICES ASSUME NEW i \in 1..Len(s), i # 1
                PROVE  s[i] \in ToSet(Tail(s))
    BY <1>1, <1>3
  <2>1. i - 1 \in 1..(Len(s) - 1) /\ s[(i - 1) + 1] = s[i]
    BY <1>1
  <2>. QED BY <2>1, <1>1, <1>3
<1>5. {Head(s)} \cup ToSet(Tail(s)) \subseteq ToSet(s)
  <2>1. \A i \in 1..(Len(s) - 1) : i + 1 \in 1..Len(s)
    BY <1>1
  <2>2. 1 \in 1..Len(s)
    BY <1>1
  <2>. QED BY <2>1, <2>2, <1>1, <1>3
<1>. QED BY <1>1, <1>4, <1>5

\* RemoveAt takes out one occurrence of one element.
LEMMA RangeOfRemoveAt ==
  ASSUME NEW S, NEW s \in Seq(S), NEW i \in DOMAIN s
  PROVE  /\ RemoveAt(s, i) \in Seq(S) /\ s[i] \in S
         /\ Len(RemoveAt(s, i)) = Len(s) - 1
         /\ ToSet(s) = ToSet(RemoveAt(s, i)) \cup {s[i]}
<1> DEFINE a == SubSeq(s, 1, i - 1)
           b == SubSeq(s, i + 1, Len(s))
           t == a \o b
<1>1. Len(s) \in Nat /\ DOMAIN s = 1..Len(s) /\ i \in 1..Len(s) /\ s[i] \in S
  OBVIOUS
<1>2. /\ a \in Seq(S) /\ Len(a) = i - 1 /\ \A j \in 1..(i - 1) : a[j] = s[j]
  BY <1>1
<1>3. /\ b \in Seq(S) /\ Len(b) = Len(s) - i
      /\ \A j \in 1..(Len(s) - i) : b[j] = s[i + j]
  BY <1>1
<1>. HIDE DEF a, b
<1>4. /\ t \in Seq(S) /\ Len(t) = Len(s) - 1
      /\ \A j \in 1..(i - 1) : t[j] = s[j]
      /\ \A j \in i..(Len(s) - 1) : t[j] = s[j + 1]
  <2>. /\ t \in Seq(S) /\ Len(t) = Len(a) + Len(b)
       /\ \A j \in 1..(Len(a) + Len(b)) :
            t[j] = IF j <= Len(a) THEN a[j] ELSE b[j - Len(a)]
    BY <1>2, <1>3, ConcatProperties
  <2>. HIDE DEF t
  <2>1. Len(t) = Len(s) - 1
    BY <1>1, <1>2, <1>3
  <2>2. \A j \in 1..(i - 1) : t[j] = s[j]
    BY <1>1, <1>2, <1>3
  <2>3. ASSUME NEW j \in i..(Len(s) - 1) PROVE t[j] = s[j + 1]
    <3>1. /\ j \in 1..(Len(a) + Len(b)) /\ ~(j <= Len(a))
          /\ j - Len(a) \in 1..(Len(s) - i) /\ i + (j - Len(a)) = j + 1
      BY <1>1, <1>2, <1>3
    <3>. QED BY <3>1, <1>3
  <2>. QED BY <2>1, <2>2, <2>3
<1>5. RemoveAt(s, i) = t
  BY DEF RemoveAt, a, b
<1>. HIDE DEF t
<1>6. ToSet(s) = {s[j] : j \in 1..Len(s)} /\ ToSet(t) = {t[j] : j \in 1..(Len(s) - 1)}
  BY <1>1, <1>4 DEF ToSet
<1>7. ToSet(s) \subseteq ToSet(t) \cup {s[i]}
  <2>. SUFFICES ASSUME NEW j \in 1..Len(s), j # i
                PROVE  s[j] \in ToSet(t)
    BY <1>6
  <2>1. CASE j < i
    BY <2>1, <1>1, <1>4, <1>6
  <2>2. CASE j > i
    <3>1. j - 1 \in i..(Len(s) - 1) /\ j - 1 \in 1..(Len(s) - 1) /\ (j - 1) + 1 = j
      BY <2>2, <1>1
    <3>. QED BY <3>1, <1>4, <1>6
  <2>. QED BY <2>1, <2>2, <1>1
<1>8. ToSet(t) \cup {s[i]} \subseteq ToSet(s)
  <2>. SUFFICES ASSUME NEW j \in 1..(Len(s) - 1)
                PROVE  t[j] \in ToSet(s)
    BY <1>1, <1>6
  <2>1. CASE j < i
    BY <2>1, <1>1, <1>4, <1>6
  <2>2. CASE j >= i
    <3>1. j \in i..(Len(s) - 1) /\ j + 1 \in 1..Len(s)
      BY <2>2, <1>1
    <3>. QED BY <3>1, <1>4, <1>6
  <2>. QED BY <2>1, <2>2, <1>1
<1>. QED BY <1>1, <1>4, <1>5, <1>7, <1>8

\* A sequence of length at most one that is not empty is a singleton.
LEMMA SingletonSeq ==
  ASSUME NEW S, NEW s \in Seq(S), Len(s) <= 1, s # <<>>
  PROVE  s[1] \in S /\ Len(s) = 1 /\ s = <<s[1]>>
<1>1. Len(s) \in Nat \ {0}
  BY EmptySeq
<1>2. Len(s) = 1
  <2>1. \A n \in Nat \ {0} : n <= 1 => n = 1
    OBVIOUS
  <2>. QED BY <1>1, <2>1, Zenon
<1>3. s[1] \in S
  BY <1>2, ElementOfSeq
<1>4. Len(<<s[1]>>) = 1 /\ <<s[1]>>[1] = s[1] /\ <<s[1]>> \in Seq(S)
  BY <1>3
<1>. QED BY <1>2, <1>3, <1>4, SeqEqual

\* Concatenation has the elements of both sequences.
LEMMA RangeOfConcat ==
  ASSUME NEW S, NEW s \in Seq(S), NEW t \in Seq(S)
  PROVE  /\ s \o t \in Seq(S)
         /\ ToSet(s \o t) = ToSet(s) \cup ToSet(t)
<1> DEFINE u == s \o t
<1>1. /\ u \in Seq(S) /\ Len(u) = Len(s) + Len(t)
      /\ \A i \in 1..Len(s) : u[i] = s[i]
      /\ \A i \in 1..Len(t) : u[Len(s) + i] = t[i]
      /\ Len(s) \in Nat /\ Len(t) \in Nat
  OBVIOUS
<1>2. /\ ToSet(s) = {s[i] : i \in 1..Len(s)} /\ ToSet(t) = {t[i] : i \in 1..Len(t)}
      /\ ToSet(u) = {u[i] : i \in 1..(Len(s) + Len(t))}
  BY <1>1 DEF ToSet
<1>. HIDE DEF u
<1>3. ToSet(u) \subseteq ToSet(s) \cup ToSet(t)
  <2>. SUFFICES ASSUME NEW i \in 1..(Len(s) + Len(t))
                PROVE  u[i] \in ToSet(s) \cup ToSet(t)
    BY <1>2
  <2>1. CASE i <= Len(s)
    BY <2>1, <1>1, <1>2
  <2>2. CASE i > Len(s)
    <3>1. i - Len(s) \in 1..Len(t) /\ Len(s) + (i - Len(s)) = i
      BY <2>2, <1>1
    <3>. QED BY <3>1, <1>1, <1>2
  <2>. QED BY <2>1, <2>2, <1>1
<1>4. ToSet(s) \subseteq ToSet(u)
  <2>1. 1..Len(s) \subseteq 1..(Len(s) + Len(t))
    BY <1>1
  <2>. QED BY <2>1, <1>1, <1>2
<1>5. ToSet(t) \subseteq ToSet(u)
  <2>1. \A i \in 1..Len(t) : Len(s) + i \in 1..(Len(s) + Len(t))
    BY <1>1
  <2>. QED BY <2>1, <1>1, <1>2
<1>. QED BY <1>1, <1>3, <1>4, <1>5 DEF u

\* A sequence seen as a bag has the elements of the sequence.
LEMMA BagOfSeq ==
  ASSUME NEW S, NEW s \in Seq(S)
  PROVE  IsABag(ToBag(s)) /\ DOMAIN ToBag(s) = ToSet(s) /\ ToSet(s) \subseteq S
<1>1. DOMAIN s = 1..Len(s) /\ Len(s) \in Nat /\ \A i \in DOMAIN s : s[i] \in S
  OBVIOUS
<1>2. DOMAIN ToBag(s) = Range(s) /\ Range(s) = ToSet(s) /\ ToSet(s) \subseteq S
  BY <1>1 DEF ToBag, Range, ToSet
<1>3. \A x \in Range(s) : Cardinality({i \in DOMAIN s : s[i] = x}) \in {n \in Nat : n > 0}
  <2>. TAKE x \in Range(s)
  <2>1. PICK i \in DOMAIN s : s[i] = x
    BY DEF Range
  <2>2. IsFiniteSet({j \in DOMAIN s : s[j] = x})
    <3>1. IsFiniteSet(1..Len(s))
      BY <1>1, FS_Interval
    <3>. QED BY <3>1, <1>1, FS_Subset
  <2>3. {j \in DOMAIN s : s[j] = x} # {}
    BY <2>1
  <2>4. Cardinality({j \in DOMAIN s : s[j] = x}) \in Nat
    BY <2>2, FS_CardinalityType
  <2>5. Cardinality({j \in DOMAIN s : s[j] = x}) # 0
    BY <2>2, <2>3, FS_EmptySet
  <2>. QED BY <2>4, <2>5
<1>. QED BY <1>2, <1>3 DEF ToBag, IsABag

\* Adding a bag keeps every element of both.
LEMMA BagSum ==
  ASSUME NEW A, NEW B, IsABag(A), IsABag(B)
  PROVE  IsABag(A (+) B) /\ DOMAIN (A (+) B) = DOMAIN A \cup DOMAIN B
BY DEF (+), IsABag

\* The bag of one message.
LEMMA SingletonBag ==
  ASSUME NEW d
  PROVE  IsABag(SetToBag({d})) /\ DOMAIN SetToBag({d}) = {d}
BY DEF SetToBag, IsABag

\* Taking one d away leaves every other element.
LEMMA BagTake ==
  ASSUME NEW A, IsABag(A), NEW d \in DOMAIN A
  PROVE  /\ IsABag(A (-) SetToBag({d}))
         /\ DOMAIN (A (-) SetToBag({d})) \subseteq DOMAIN A
         /\ DOMAIN A \subseteq DOMAIN (A (-) SetToBag({d})) \cup {d}
BY DEF (-), IsABag, SetToBag

-----------------------------------------------------------------------------
(* Operators of the model.                                                 *)

\* Disowning items changes neither their number nor their messages.
LEMMA DisownProperties ==
  ASSUME NEW items \in Seq(Item), NEW c
  PROVE  /\ Disown(items, c) \in Seq(Item)
         /\ Len(Disown(items, c)) = Len(items)
         /\ \A i \in 1..Len(items) :
              /\ Disown(items, c)[i].msg = items[i].msg
              /\ Disown(items, c)[i].step = items[i].step
<1>1. DOMAIN items = 1..Len(items) /\ Len(items) \in Nat
      /\ \A i \in 1..Len(items) : items[i] \in Item
  OBVIOUS
<1>2. \A i \in 1..Len(items) : Disown(items, c)[i] =
        IF items[i].msg.ch = c THEN [items[i] EXCEPT !.own = FALSE] ELSE items[i]
  BY <1>1 DEF Disown
<1>3. \A x \in Item : /\ [x EXCEPT !.own = FALSE] \in Item
                      /\ [x EXCEPT !.own = FALSE].msg = x.msg
                      /\ [x EXCEPT !.own = FALSE].step = x.step
  BY DEF Item
<1>4. \A i \in 1..Len(items) : /\ Disown(items, c)[i] \in Item
                               /\ Disown(items, c)[i].msg = items[i].msg
                               /\ Disown(items, c)[i].step = items[i].step
  BY <1>1, <1>2, <1>3
<1>5. Disown(items, c) \in [1..Len(items) -> Item]
  BY <1>1, <1>4 DEF Disown
<1>6. Disown(items, c) \in Seq(Item) /\ Len(Disown(items, c)) = Len(items)
  BY <1>1, <1>5, IsASeq, LenProperties
<1>. QED BY <1>4, <1>6

LEMMA MessagesOfProperties ==
  ASSUME NEW items \in Seq(Item)
  PROVE  /\ MessagesOf(items) \in Seq(Message)
         /\ ToSet(MessagesOf(items)) = {x.msg : x \in ToSet(items)}
         /\ ToSet(items) \subseteq Item
<1>1. DOMAIN items = 1..Len(items) /\ Len(items) \in Nat
      /\ \A i \in 1..Len(items) : items[i] \in Item
  OBVIOUS
<1>2. MessagesOf(items) \in [1..Len(items) -> Message]
  BY <1>1 DEF MessagesOf, Item
<1>3. MessagesOf(items) \in Seq(Message)
  BY <1>1, <1>2, IsASeq
<1>4. ToSet(MessagesOf(items)) = {items[i].msg : i \in 1..Len(items)}
  BY <1>1 DEF ToSet, MessagesOf
<1>5. ToSet(items) = {items[i] : i \in 1..Len(items)}
  BY <1>1 DEF ToSet
<1>6. {x.msg : x \in ToSet(items)} = {items[i].msg : i \in 1..Len(items)}
  BY <1>5
<1>. QED BY <1>1, <1>3, <1>4, <1>5, <1>6

\* A goroutine's slot holds one message or none.
LEMMA SlotProperties ==
  ASSUME NEW S
  PROVE  /\ <<>> \in Slot(S)
         /\ \A x \in S : <<x>> \in Slot(S)
         /\ \A s \in Slot(S) : s # <<>> => s[1] \in S /\ s = <<s[1]>>
         /\ Slot(S) \subseteq Seq(S)
<1>1. <<>> \in Slot(S) /\ Slot(S) \subseteq Seq(S)
  BY DEF Slot
<1>2. \A x \in S : <<x>> \in Slot(S)
  BY DEF Slot
<1>3. ASSUME NEW s \in Slot(S), s # <<>> PROVE s[1] \in S /\ s = <<s[1]>>
  <2>1. s \in Seq(S) /\ Len(s) <= 1
    BY <1>3 DEF Slot
  <2>. QED BY <1>3, <2>1, SingletonSeq
<1>. QED BY <1>1, <1>2, <1>3

\* The parts of TypeOK about what the consumer keeps in memory.
MemoryOK ==
  /\ loop \in LoopSteps /\ hand \in Slot(Message)
  /\ (hand = <<>>) = (loop = "receive")
  /\ lanes \in [Channels -> Lane]
  /\ fetching \in [Channels -> Nat] /\ running \in [Channels -> Seq(Message)]
  /\ requeue \in Seq(Message)
  /\ spills \in [Channels -> Spill]
  /\ spillQueue \in Seq(Item) /\ moving \in Slot(Item)

LEMMA FreshConsumerOK ==
  ASSUME FreshConsumer
  PROVE  MemoryOK'
<1>1. /\ NoLane \in Lane /\ NoSpill \in Spill
      /\ <<>> \in Slot(Message) /\ <<>> \in Slot(Item)
      /\ <<>> \in Seq(Message) /\ <<>> \in Seq(Item) /\ 0 \in Nat
  BY SlotProperties, EmptySeq DEF NoLane, Lane, NoSpill, Spill
<1>. QED BY <1>1 DEF FreshConsumer, MemoryOK, LoopSteps

LEMMA SetSpillOK ==
  ASSUME spillQueue \in Seq(Item), moving \in Slot(Item),
         spills \in [Channels -> Spill],
         NEW c \in Channels, NEW s \in Spill, SetSpill(c, s)
  PROVE  /\ spills' \in [Channels -> Spill]
         /\ spillQueue' \in Seq(Item) /\ moving' \in Slot(Item)
         /\ Len(spillQueue') = Len(spillQueue) /\ Len(moving') = Len(moving)
         /\ \A i \in 1..Len(spillQueue) : /\ spillQueue'[i].msg = spillQueue[i].msg
                                          /\ spillQueue'[i].step = spillQueue[i].step
         /\ \A i \in 1..Len(moving) : /\ moving'[i].msg = moving[i].msg
                                      /\ moving'[i].step = moving[i].step
<1>1. moving \in Seq(Item) /\ Len(moving) <= 1
  BY DEF Slot
<1>2. spills' \in [Channels -> Spill]
  BY DEF SetSpill
<1>3. CASE s = NoSpill
  <2>1. spillQueue' = Disown(spillQueue, c) /\ moving' = Disown(moving, c)
    BY <1>3 DEF SetSpill
  <2>2. moving' \in Slot(Item)
    BY <1>1, <2>1, DisownProperties DEF Slot
  <2>. QED BY <1>1, <1>2, <2>1, <2>2, DisownProperties
<1>4. CASE s # NoSpill
  BY <1>2, <1>4 DEF SetSpill
<1>. QED BY <1>3, <1>4

LEMMA SpillValues ==
  /\ NoSpill \in Spill /\ NewSpill \in Spill
  /\ \A s \in Spill : /\ [s EXCEPT !.next = s.next + 1] \in Spill
                      /\ [s EXCEPT !.quiet = TRUE] \in Spill
                      /\ [s EXCEPT !.quiet = FALSE] \in Spill
                      /\ [s EXCEPT !.expected = s.expected + 1, !.quiet = FALSE] \in Spill
                      /\ s.next \in Nat
<1>1. NoSpill \in Spill /\ NewSpill \in Spill
  BY DEF NoSpill, NewSpill, Spill
<1>2. ASSUME NEW s \in Spill
      PROVE  [s EXCEPT !.next = s.next + 1] \in Spill /\ s.next \in Nat
  BY DEF Spill
<1>3. ASSUME NEW s \in Spill, NEW b \in BOOLEAN
      PROVE  [s EXCEPT !.quiet = b] \in Spill
  BY DEF Spill
<1>4. ASSUME NEW s \in Spill
      PROVE  [s EXCEPT !.expected = s.expected + 1] \in Spill
  BY DEF Spill
<1>5. ASSUME NEW s \in Spill
      PROVE  [s EXCEPT !.expected = s.expected + 1, !.quiet = FALSE] \in Spill
  BY <1>3, <1>4
<1>. QED BY <1>1, <1>2, <1>3, <1>5

LEMMA AfterAdmissionOK ==
  ASSUME spills \in [Channels -> Spill], NEW c \in Channels, NEW d
  PROVE  AfterAdmission(c, d) \in Spill
BY SpillValues DEF AfterAdmission

\* Type correctness needs only that a process that is not running may still be
\* followed by another incarnation.
RestartsBounded == phase # "running" => nonce <= MaxRestarts

\* ... and that a lane only has the deliveries of its own channel.
LanesKeepTheirChannel ==
  \A c \in Channels : \A d \in LaneMessages(c) : d.ch = c

TypeInv == TypeOK /\ RestartsBounded /\ LanesKeepTheirChannel

LEMMA DispatchOK ==
  ASSUME TypeOK, NEW d \in Message, loop = "receive", Dispatch(d),
         UNCHANGED laneVars
  PROVE  MemoryOK'
<1>. USE DEF TypeOK, Dispatch, laneVars
<1>1. d.ch \in Channels
  BY DEF Message
<1>2. hand' \in Slot(Message) /\ hand' # <<>> /\ loop' \in LoopSteps \ {"receive"}
  BY SlotProperties DEF LoopSteps, Route
<1>3. spills' \in [Channels -> Spill] /\ spillQueue' \in Seq(Item) /\ moving' \in Slot(Item)
  <2>1. CASE HasSpill(d.ch) /\ Stalled(d.ch)
    BY <1>1, <2>1, SetSpillOK, SpillValues
  <2>2. CASE ~(HasSpill(d.ch) /\ Stalled(d.ch))
    BY <2>2 DEF spillVars
  <2>. QED BY <2>1, <2>2
<1>. QED BY <1>2, <1>3 DEF MemoryOK

\* What a crash gives back: every message of the consumer, and only messages.
LEMMA CrashBag ==
  ASSUME TypeOK, LanesKeepTheirChannel, Crash
  PROVE  /\ IsABag(returned') /\ DOMAIN returned' \subseteq Message
         /\ DOMAIN returned' =
              UNION {DOMAIN returned, ToSet(hand), ToSet(requeue),
                     UNION {LaneMessages(c) : c \in Channels},
                     ToSet(MessagesOf(spillQueue)), ToSet(MessagesOf(moving))}
<1>0. /\ IsABag(returned) /\ DOMAIN returned \subseteq Message
      /\ hand \in Slot(Message) /\ requeue \in Seq(Message)
      /\ spillQueue \in Seq(Item) /\ moving \in Slot(Item)
      /\ lanes \in [Channels -> Lane] /\ running \in [Channels -> Seq(Message)]
  BY DEF TypeOK
<1>1. \A c \in Channels : lanes[c].jobs \in Seq(Message)
  BY <1>0 DEF Lane
<1>2. \A c \in Channels : LaneMessages(c) \subseteq Message
  BY <1>0, <1>1, BagOfSeq DEF LaneMessages
<1>3. IsABag(LaneBag) /\ DOMAIN LaneBag = UNION {LaneMessages(c) : c \in Channels}
  <2>1. DOMAIN LaneBag = UNION {LaneMessages(c) : c \in Channels}
    BY DEF LaneBag
  <2>2. ASSUME NEW c \in Channels, NEW d \in LaneMessages(c)
        PROVE  LaneBag[d] \in {n \in Nat : n > 0}
    <3> DEFINE s == running[c] \o lanes[c].jobs
    <3>1. d.ch = c
      BY DEF LanesKeepTheirChannel
    <3>2. s \in Seq(Message) /\ d \in ToSet(s)
      BY <1>0, <1>1, RangeOfConcat DEF LaneMessages
    <3>3. LaneBag[d] = ToBag(s)[d]
      BY <3>1 DEF LaneBag
    <3>. HIDE DEF s
    <3>4. ToBag(s)[d] \in {n \in Nat : n > 0}
      BY <3>2, BagOfSeq DEF IsABag
    <3>. QED BY <3>3, <3>4
  <2> DEFINE D == UNION {LaneMessages(c) : c \in Channels}
  <2>3. LaneBag = [d \in D |-> LaneBag[d]]
    BY DEF LaneBag
  <2>4. \A d \in D : LaneBag[d] \in {n \in Nat : n > 0}
    BY <2>2
  <2>. HIDE DEF D
  <2>5. LaneBag \in [D -> {n \in Nat : n > 0}]
    BY <2>3, <2>4
  <2>. QED BY <2>1, <2>5 DEF D, IsABag
<1>4. /\ IsABag(ToBag(hand)) /\ DOMAIN ToBag(hand) = ToSet(hand)
      /\ ToSet(hand) \subseteq Message
  BY <1>0, SlotProperties, BagOfSeq
<1>5. /\ IsABag(ToBag(requeue)) /\ DOMAIN ToBag(requeue) = ToSet(requeue)
      /\ ToSet(requeue) \subseteq Message
  BY <1>0, BagOfSeq
<1>6. /\ IsABag(ToBag(MessagesOf(spillQueue)))
      /\ DOMAIN ToBag(MessagesOf(spillQueue)) = ToSet(MessagesOf(spillQueue))
      /\ ToSet(MessagesOf(spillQueue)) \subseteq Message
  BY <1>0, MessagesOfProperties, BagOfSeq
<1>7. /\ IsABag(ToBag(MessagesOf(moving)))
      /\ DOMAIN ToBag(MessagesOf(moving)) = ToSet(MessagesOf(moving))
      /\ ToSet(MessagesOf(moving)) \subseteq Message
  BY <1>0, SlotProperties, MessagesOfProperties, BagOfSeq
<1> DEFINE b1 == returned (+) ToBag(hand)
           b2 == b1 (+) ToBag(requeue)
           b3 == b2 (+) LaneBag
           b4 == b3 (+) ToBag(MessagesOf(spillQueue))
           b5 == b4 (+) ToBag(MessagesOf(moving))
<1>8. returned' = b5
  BY DEF Crash
<1>9. IsABag(b1) /\ DOMAIN b1 = DOMAIN returned \cup ToSet(hand)
  BY <1>0, <1>4, BagSum
<1>. HIDE DEF b1
<1>10. IsABag(b2) /\ DOMAIN b2 = DOMAIN b1 \cup ToSet(requeue)
  BY <1>5, <1>9, BagSum
<1>. HIDE DEF b2
<1>11. IsABag(b3) /\ DOMAIN b3 = DOMAIN b2 \cup UNION {LaneMessages(c) : c \in Channels}
  <2>1. IsABag(LaneBag)
    BY <1>3
  <2>2. IsABag(b2 (+) LaneBag) /\ DOMAIN (b2 (+) LaneBag) = DOMAIN b2 \cup DOMAIN LaneBag
    BY <1>10, <2>1, BagSum
  <2>. QED BY <1>3, <1>10, <2>2, Zenon
<1>. HIDE DEF b3
<1>12. IsABag(b4) /\ DOMAIN b4 = DOMAIN b3 \cup ToSet(MessagesOf(spillQueue))
  BY <1>6, <1>11, BagSum
<1>. HIDE DEF b4
<1>13. IsABag(b5) /\ DOMAIN b5 = DOMAIN b4 \cup ToSet(MessagesOf(moving))
  BY <1>7, <1>12, BagSum
<1>. HIDE DEF b5
<1>. QED BY <1>0, <1>2, <1>4, <1>5, <1>6, <1>7, <1>8, <1>9, <1>10, <1>11, <1>12, <1>13

LEMMA TypeStep ==
  ASSUME TypeInv, [Next]_vars
  PROVE  (TypeOK /\ RestartsBounded)'
<1>. USE ConstantsAssumption DEF TypeInv
<1>1. CASE UNCHANGED vars
  BY <1>1 DEF vars, brokerVars, loopVars, laneVars, spillVars, boundVars, histVars,
              TypeOK, RestartsBounded
<1>2. CASE Receive
  <2>. USE <1>2 DEF Receive
  <2>1. PICK d \in Message : /\ Dispatch(d)
                             /\ queue' \in Seq(Message)
                             /\ DOMAIN returned' \subseteq Message /\ IsABag(returned')
    <3>1. CASE queue # <<>> /\ Dispatch(Head(queue)) /\ queue' = Tail(queue)
               /\ UNCHANGED returned
      BY <3>1, RangeOfTail DEF TypeOK
    <3>2. CASE \E d \in DOMAIN returned : /\ Dispatch(d) /\ UNCHANGED queue
                                          /\ returned' = returned (-) SetToBag({d})
      <4>1. PICK d \in DOMAIN returned : /\ Dispatch(d) /\ UNCHANGED queue
                                          /\ returned' = returned (-) SetToBag({d})
        BY <3>2
      <4>2. IsABag(returned) /\ DOMAIN returned \subseteq Message
            /\ queue \in Seq(Message)
        BY DEF TypeOK
      <4>3. IsABag(returned') /\ DOMAIN returned' \subseteq DOMAIN returned
        BY <4>1, <4>2, BagTake
      <4>. QED BY <4>1, <4>2, <4>3
    <3>. QED BY <3>1, <3>2
  <2>2. MemoryOK'
    BY <2>1, DispatchOK
  <2>. QED BY <2>1, <2>2 DEF MemoryOK, TypeOK, RestartsBounded, boundVars, histVars
<1>3. CASE Offer
  <2>. USE <1>3 DEF Offer
  <2>1. hand # <<>> /\ hand[1] \in Message /\ hand[1].ch \in Channels
    BY SlotProperties DEF TypeOK, Message
  <2>2. CASE ~LaneFull(hand[1].ch)
    <3> DEFINE d == hand[1]
               c == d.ch
    <3>1. /\ lanes' = [lanes EXCEPT ![c] =
                         [present |-> TRUE, jobs |-> Append(@.jobs, d)]]
          /\ fetching' = [fetching EXCEPT ![c] = IF lanes[c].present THEN @ ELSE @ + 1]
          /\ SetSpill(c, AfterAdmission(c, d))
          /\ hand' = <<>> /\ loop' = "receive"
      BY <2>1, <2>2 DEF TypeOK, Lane, Busy
    <3>2. Append(lanes[c].jobs, d) \in Seq(Message)
      BY <2>1, RangeOfAppend DEF TypeOK, Lane
    <3>3. lanes' \in [Channels -> Lane] /\ fetching' \in [Channels -> Nat]
      <4>. DEFINE lane == [present |-> TRUE, jobs |-> Append(lanes[c].jobs, d)]
      <4>1. lane \in Lane
        BY <3>2 DEF Lane
      <4>2. lanes' = [lanes EXCEPT ![c] = lane]
        BY <3>1, Zenon
      <4>3. lanes \in [Channels -> Lane] /\ fetching \in [Channels -> Nat]
        BY DEF TypeOK
      <4>. HIDE DEF lane
      <4>4. lanes' \in [Channels -> Lane]
        BY <2>1, <4>1, <4>2, <4>3
      <4>5. fetching[c] \in Nat
        BY <2>1, <4>3
      <4>6. (IF lanes[c].present THEN fetching[c] ELSE fetching[c] + 1) \in Nat
        BY <4>5
      <4>7. fetching' \in [Channels -> Nat]
        BY <3>1, <4>3, <4>6
      <4>. QED BY <4>4, <4>7
    <3>4. spills' \in [Channels -> Spill] /\ spillQueue' \in Seq(Item)
          /\ moving' \in Slot(Item)
      BY <2>1, <3>1, SetSpillOK, AfterAdmissionOK DEF TypeOK
    <3>. QED BY <3>1, <3>3, <3>4, SlotProperties
             DEF TypeOK, LoopSteps, RestartsBounded, brokerVars, boundVars, histVars
  <2>3. CASE LaneFull(hand[1].ch)
    BY <2>1, <2>3 DEF TypeOK, LoopSteps, RestartsBounded, brokerVars, spillVars,
                      boundVars, histVars
  <2>. QED BY <2>2, <2>3
<1>4. CASE Send
  <2>. USE <1>4 DEF Send
  <2> DEFINE d == hand[1]
             c == d.ch
  <2>1. d \in Message /\ c \in Channels /\ d.seq \in Nat
    BY SlotProperties DEF TypeOK, Message
  <2>2. spills' \in [Channels -> Spill]
    BY <2>1, SpillValues DEF TypeOK
  <2>3. PICK q \in Nat : spillQueue' = Append(spillQueue,
                           [msg |-> d, seq |-> q, own |-> TRUE, step |-> "hold"])
    BY <2>1, SpillValues DEF TypeOK
  <2>4. spillQueue' \in Seq(Item)
    <3> DEFINE it == [msg |-> d, seq |-> q, own |-> TRUE, step |-> "hold"]
    <3>1. it \in Item
      BY <2>1 DEF Item, ItemSteps
    <3>2. spillQueue \in Seq(Item)
      BY DEF TypeOK
    <3>. HIDE DEF it
    <3>. QED BY <2>3, <3>1, <3>2, RangeOfAppend DEF it
  <2>. QED BY <2>2, <2>4, SlotProperties
           DEF TypeOK, LoopSteps, RestartsBounded, brokerVars, laneVars, boundVars,
               histVars
<1>5. ASSUME NEW c \in Channels, DrainPop(c)
      PROVE  (TypeOK /\ RestartsBounded)'
  <2>. USE <1>5 DEF DrainPop
  <2>1. /\ Head(lanes[c].jobs) \in Message /\ Tail(lanes[c].jobs) \in Seq(Message)
        /\ Head(lanes[c].jobs).n \in Nat \ {0}
    <3>1. lanes[c].jobs \in Seq(Message) /\ lanes[c].jobs # <<>>
      BY DEF TypeOK, Lane
    <3>2. Head(lanes[c].jobs) \in Message /\ Tail(lanes[c].jobs) \in Seq(Message)
      BY <3>1, RangeOfTail
    <3>. QED BY <3>2 DEF Message
  <2>2. lanes' \in [Channels -> Lane]
    BY <2>1 DEF TypeOK, Lane
  <2>3. fetching' \in [Channels -> Nat]
    <3>1. fetching \in [Channels -> Nat]
      BY DEF TypeOK
    <3>2. fetching[c] > 0 /\ fetching' = [fetching EXCEPT ![c] = @ - 1]
      OBVIOUS
    <3>. HIDE <1>5 DEF DrainPop
    <3>3. fetching[c] - 1 \in Nat
      BY <3>1, <3>2
    <3>. QED BY <3>1, <3>2, <3>3
  <2>4. running' \in [Channels -> Seq(Message)]
    BY <2>1, RangeOfAppend DEF TypeOK
  <2>5. started' \in [Channels -> SUBSET (Nat \ {0})]
    BY <2>1 DEF TypeOK
  <2>. QED BY <2>2, <2>3, <2>4, <2>5
           DEF TypeOK, RestartsBounded, brokerVars, loopVars, spillVars, boundVars
<1>6. ASSUME NEW c \in Channels, DrainExit(c)
      PROVE  (TypeOK /\ RestartsBounded)'
  <2>1. NoLane \in Lane
    BY EmptySeq DEF NoLane, Lane
  <2>2. fetching' \in [Channels -> Nat] /\ lanes' \in [Channels -> Lane]
    BY <1>6, <2>1 DEF DrainExit, TypeOK
  <2>. QED BY <1>6, <2>2 DEF DrainExit, TypeOK, RestartsBounded, brokerVars, loopVars,
                             spillVars, boundVars, histVars
<1>7. ASSUME NEW c \in Channels, NEW i \in DOMAIN running[c], Return(c, i)
      PROVE  /\ fetching' \in [Channels -> Nat]
             /\ running' \in [Channels -> Seq(Message)]
             /\ running[c][i] \in Message /\ running[c][i].n \in Nat \ {0}
  <2>1. running[c] \in Seq(Message) /\ fetching[c] \in Nat
    BY DEF TypeOK
  <2>2. RemoveAt(running[c], i) \in Seq(Message) /\ running[c][i] \in Message
    BY <1>7, <2>1, RangeOfRemoveAt
  <2>3. running[c][i].n \in Nat \ {0}
    BY <2>2 DEF Message
  <2>. QED BY <1>7, <2>1, <2>2, <2>3 DEF Return, TypeOK
<1>8. ASSUME NEW c \in Channels, Finish(c)
      PROVE  (TypeOK /\ RestartsBounded)'
  <2>1. PICK i \in DOMAIN running[c] :
          /\ Return(c, i) /\ UNCHANGED requeue
          /\ settled' = [settled EXCEPT ![c] = @ \cup {running[c][i].n}]
    BY <1>8 DEF Finish
  <2>2. settled' \in [Channels -> SUBSET (Nat \ {0})]
    BY <1>7, <2>1 DEF TypeOK
  <2>. QED BY <1>7, <2>1, <2>2 DEF Return, TypeOK, RestartsBounded, brokerVars,
                                   loopVars, spillVars, boundVars
<1>9. ASSUME NEW c \in Channels, Postpone(c)
      PROVE  (TypeOK /\ RestartsBounded)'
  <2>1. PICK i \in DOMAIN running[c] :
          Return(c, i) /\ UNCHANGED settled /\ requeue' = Append(requeue, running[c][i])
    BY <1>9 DEF Postpone
  <2>2. requeue' \in Seq(Message)
    BY <1>7, <2>1, RangeOfAppend DEF TypeOK
  <2>. QED BY <1>7, <2>1, <2>2 DEF Return, TypeOK, RestartsBounded, brokerVars,
                                   loopVars, spillVars, boundVars
<1>10. CASE TakeItem
  <2>1. Head(spillQueue) \in Item /\ Tail(spillQueue) \in Seq(Item)
    BY <1>10, RangeOfTail DEF TakeItem, TypeOK
  <2>2. spillQueue' \in Seq(Item) /\ moving' \in Slot(Item)
    BY <1>10, <2>1, SlotProperties DEF TakeItem
  <2>. QED BY <1>10, <2>2 DEF TakeItem, OverflowFrame, TypeOK, RestartsBounded,
                              brokerVars, loopVars, laneVars, boundVars, histVars
<1>11. ASSUME NEW from, NEW to \in ItemSteps, MoveStep(from, to)
       PROVE  /\ moving' \in Slot(Item)
              /\ CopyOf(moving[1]) \in Message /\ moving[1].msg \in Message
  <2>1. moving[1] \in Item
    BY <1>11, SlotProperties DEF MoveStep, TypeOK
  <2>2. [moving[1] EXCEPT !.step = to] \in Item
    BY <1>11, <2>1 DEF Item
  <2>3. moving[1].msg \in Message /\ moving[1].seq \in Nat /\ nonce \in Nat
    BY <2>1 DEF Item, TypeOK
  <2>4. CopyOf(moving[1]) \in Message
    BY <2>3 DEF CopyOf, Message
  <2>. QED BY <1>11, <2>2, <2>3, <2>4, SlotProperties DEF MoveStep
<1>12. CASE BeginPublish \/ PublishFailed
  BY <1>11, <1>12 DEF BeginPublish, PublishFailed, ItemSteps, OverflowFrame, TypeOK,
       RestartsBounded, brokerVars, loopVars, laneVars, boundVars, histVars
<1>13. CASE PublishConfirmed
  <2>1. queue' \in Seq(Message)
    BY <1>11, <1>13, RangeOfAppend DEF PublishConfirmed, ItemSteps, TypeOK
  <2>. QED BY <1>11, <1>13, <2>1 DEF PublishConfirmed, ItemSteps, OverflowFrame, TypeOK,
         RestartsBounded, loopVars, laneVars, boundVars, histVars
<1>14. CASE PublishUnconfirmed
  <2>1. queue' \in Seq(Message)
    BY <1>11, <1>14, RangeOfAppend DEF PublishUnconfirmed, ItemSteps, TypeOK
  <2>. QED BY <1>11, <1>14, <2>1 DEF PublishUnconfirmed, ItemSteps, OverflowFrame,
         TypeOK, RestartsBounded, loopVars, laneVars, boundVars, histVars
<1>15. CASE AckOriginal
  BY <1>15, SlotProperties DEF AckOriginal, OverflowFrame, TypeOK, RestartsBounded,
       brokerVars, loopVars, laneVars, boundVars, histVars
<1>16. CASE HandBack
  <2>1. moving[1].msg \in Message
    BY <1>16, SlotProperties DEF HandBack, TypeOK, Item
  <2>2. DOMAIN returned' \subseteq Message /\ IsABag(returned')
    <3> DEFINE b == SetToBag({moving[1].msg})
    <3>1. IsABag(b) /\ DOMAIN b = {moving[1].msg}
      BY SingletonBag
    <3>2. IsABag(returned) /\ DOMAIN returned \subseteq Message
      BY DEF TypeOK
    <3>3. returned' = returned (+) b
      BY <1>16 DEF HandBack
    <3>. HIDE DEF b
    <3>. QED BY <2>1, <3>1, <3>2, <3>3, BagSum
  <2>. QED BY <1>16, <2>2, SlotProperties DEF HandBack, OverflowFrame, TypeOK,
         RestartsBounded, loopVars, laneVars, boundVars, histVars
<1>17. ASSUME NEW c \in Channels, Publish(c)
       PROVE  (TypeOK /\ RestartsBounded)'
  <2>1. Command(c, arrived[c] + 1) \in Message
    <3>1. arrived[c] + 1 \in Nat \ {0}
      BY DEF TypeOK
    <3>. QED BY <3>1 DEF Command, Message
  <2>2. queue' \in Seq(Message) /\ arrived' \in [Channels -> 0..MaxCommands]
    BY <1>17, <2>1, RangeOfAppend DEF Publish, TypeOK
  <2>. QED BY <1>17, <2>2 DEF Publish, TypeOK, RestartsBounded, loopVars, laneVars,
         spillVars, boundVars, histVars
<1>18. ASSUME NEW c \in Channels, StallElapses(c)
       PROVE  (TypeOK /\ RestartsBounded)'
  <2>1. spills' \in [Channels -> Spill]
    BY <1>18, SpillValues DEF StallElapses, TypeOK
  <2>2. stalls' \in 0..MaxStalls
    <3>1. stalls \in 0..MaxStalls /\ stalls < MaxStalls /\ stalls' = stalls + 1
      BY <1>18 DEF StallElapses, TypeOK
    <3>. QED BY <3>1
  <2>3. UNCHANGED <<arrived, queue, returned, phase, nonce, loop, hand, lanes, fetching,
                    running, requeue, spillQueue, moving, lostConfirms, started, settled>>
    BY <1>18 DEF StallElapses, brokerVars, loopVars, laneVars, histVars
  <2>. QED BY <2>1, <2>2, <2>3 DEF TypeOK, RestartsBounded
<1>19. CASE BeginStop \/ DeliveriesEnd \/ CloseSpill
  BY <1>19 DEF BeginStop, DeliveriesEnd, CloseSpill, Advance, Phases, TypeOK,
       RestartsBounded, brokerVars, loopVars, spillVars, boundVars, histVars
<1>20. CASE RequeueInOrder
  <2>1. DOMAIN returned' \subseteq Message /\ IsABag(returned')
    <3>1. IsABag(returned) /\ DOMAIN returned \subseteq Message /\ requeue \in Seq(Message)
      BY DEF TypeOK
    <3>2. IsABag(ToBag(requeue)) /\ DOMAIN ToBag(requeue) \subseteq Message
      BY <3>1, BagOfSeq
    <3>3. returned' = returned (+) ToBag(requeue)
      BY <1>20 DEF RequeueInOrder
    <3>. QED BY <3>1, <3>2, <3>3, BagSum
  <2>2. requeue' \in Seq(Message)
    BY <1>20, EmptySeq DEF RequeueInOrder
  <2>. QED BY <1>20, <2>1, <2>2 DEF RequeueInOrder, Advance, Phases, TypeOK,
         RestartsBounded, loopVars, spillVars, boundVars, histVars
<1>21. CASE Crash
  <2>1. DOMAIN returned' \subseteq Message /\ IsABag(returned')
    BY <1>21, CrashBag DEF TypeOK
  <2>. QED BY <1>21, <2>1, FreshConsumerOK DEF Crash, MemoryOK, Phases, TypeOK,
         RestartsBounded, boundVars, histVars
<1>22. CASE Restart
  BY <1>22, FreshConsumerOK DEF Restart, MemoryOK, Phases, TypeOK, RestartsBounded,
       brokerVars, boundVars, histVars
<1>23. CASE Quiescent
  BY <1>1, <1>23 DEF Quiescent
<1>. QED BY <1>1, <1>2, <1>3, <1>4, <1>5, <1>6, <1>8, <1>9, <1>10, <1>12, <1>13, <1>14,
            <1>15, <1>16, <1>17, <1>18, <1>19, <1>20, <1>21, <1>22, <1>23
         DEF Next, ConsumerStep, OverflowStep, StopStep

-----------------------------------------------------------------------------
(* Lanes and their goroutines.                                             *)

\* A step of a lane's worker that returns from job i keeps the lane's books.
LEMMA ReturnKeepsLane ==
  ASSUME TypeOK, LanesKeepTheirChannel, Serial,
         NEW c \in Channels, NEW i \in DOMAIN running[c], Return(c, i)
  PROVE  (LanesKeepTheirChannel /\ Serial)'
<1>1. /\ running \in [Channels -> Seq(Message)] /\ fetching \in [Channels -> Nat]
      /\ running[c] \in Seq(Message)
  BY DEF TypeOK
<1>2. /\ Len(RemoveAt(running[c], i)) = Len(running[c]) - 1
      /\ ToSet(RemoveAt(running[c], i)) \subseteq ToSet(running[c])
      /\ Len(running[c]) \in Nat
  BY <1>1, RangeOfRemoveAt
<1>3. \A e \in Channels :
        /\ running'[e] = IF e = c THEN RemoveAt(running[c], i) ELSE running[e]
        /\ fetching'[e] = IF e = c THEN fetching[c] + 1 ELSE fetching[e]
        /\ lanes'[e] = lanes[e]
  BY <1>1 DEF Return
<1>4. \A e \in Channels : LaneMessages(e)' \subseteq LaneMessages(e)
  BY <1>2, <1>3 DEF LaneMessages
<1>5. LanesKeepTheirChannel'
  BY <1>4 DEF LanesKeepTheirChannel
<1>6. ASSUME NEW e \in Channels
      PROVE  fetching'[e] + Len(running'[e]) = fetching[e] + Len(running[e])
  BY <1>1, <1>2, <1>3
<1>7. Serial'
  BY <1>3, <1>6 DEF Serial
<1>. QED BY <1>5, <1>7

LEMMA LaneStep ==
  ASSUME TypeInv, Serial, [Next]_vars
  PROVE  (LanesKeepTheirChannel /\ Serial)'
<1>0. /\ running \in [Channels -> Seq(Message)] /\ fetching \in [Channels -> Nat]
      /\ lanes \in [Channels -> Lane] /\ \A c \in Channels : lanes[c].jobs \in Seq(Message)
      /\ hand \in Slot(Message) /\ (hand = <<>>) = (loop = "receive")
  BY DEF TypeInv, TypeOK, Lane
<1>. USE DEF TypeInv
<1>1. CASE UNCHANGED <<lanes, fetching, running>>
  BY <1>1 DEF LanesKeepTheirChannel, LaneMessages, Serial
<1>2. CASE Offer
  <2>1. PICK d \in Message, c \in Channels : d = hand[1] /\ c = d.ch
    BY <1>0, <1>2, SlotProperties DEF Offer, Message
  <2>2. CASE ~LaneFull(c)
    <3>1. /\ lanes' = [lanes EXCEPT ![c] =
                         [present |-> TRUE, jobs |-> Append(lanes[c].jobs, d)]]
          /\ fetching' = [fetching EXCEPT ![c] =
                            IF lanes[c].present THEN fetching[c] ELSE fetching[c] + 1]
          /\ running' = running
      BY <1>0, <1>2, <2>1, <2>2 DEF Offer, Lane, Busy
    <3>2. /\ lanes'[c].present = TRUE
          /\ lanes'[c].jobs = Append(lanes[c].jobs, d)
          /\ \A e \in Channels \ {c} : lanes'[e] = lanes[e] /\ fetching'[e] = fetching[e]
          /\ fetching'[c] = IF lanes[c].present THEN fetching[c] ELSE fetching[c] + 1
      BY <1>0, <2>1, <3>1
    <3>3. ToSet(lanes'[c].jobs) = ToSet(lanes[c].jobs) \cup {d}
      <4>1. lanes[c].jobs \in Seq(Message)
        BY <1>0, <2>1
      <4>2. ToSet(Append(lanes[c].jobs, d)) = ToSet(lanes[c].jobs) \cup {d}
        BY <2>1, <4>1, RangeOfAppend
      <4>. QED BY <3>2, <4>2, Zenon
    <3>4. LaneMessages(c)' = LaneMessages(c) \cup {d}
          /\ \A e \in Channels \ {c} : LaneMessages(e)' = LaneMessages(e)
      BY <3>1, <3>2, <3>3 DEF LaneMessages
    <3>5. LanesKeepTheirChannel'
      BY <2>1, <3>4 DEF LanesKeepTheirChannel
    <3>6. fetching[c] \in Nat /\ Len(running[c]) \in Nat
      BY <1>0, <2>1, LenProperties
    <3>7. Serial'
      <4>1. ASSUME NEW e \in Channels \ {c}
            PROVE  /\ fetching'[e] + Len(running'[e]) = IF lanes'[e].present THEN 1 ELSE 0
                   /\ ~lanes'[e].present => lanes'[e].jobs = <<>>
        BY <3>1, <3>2, <4>1 DEF Serial
      <4>2. fetching[c] + Len(running[c]) = IF lanes[c].present THEN 1 ELSE 0
        BY <2>1 DEF Serial
      <4>3. fetching'[c] + Len(running'[c]) = 1
        BY <3>1, <3>2, <3>6, <4>2
      <4>. QED BY <2>1, <3>2, <4>1, <4>3 DEF Serial
    <3>. QED BY <3>5, <3>7
  <2>3. CASE LaneFull(c)
    BY <1>1, <1>2, <2>1, <2>3 DEF Offer
  <2>. QED BY <2>2, <2>3
<1>3. ASSUME NEW c \in Channels, DrainPop(c)
      PROVE  (LanesKeepTheirChannel /\ Serial)'
  <2> DEFINE d == Head(lanes[c].jobs)
  <2>1. /\ Tail(lanes[c].jobs) \in Seq(Message) /\ d \in Message
        /\ ToSet(lanes[c].jobs) = {d} \cup ToSet(Tail(lanes[c].jobs))
    BY <1>0, <1>3, RangeOfTail DEF DrainPop
  <2>2. /\ running[c] \in Seq(Message) /\ Len(running[c]) \in Nat
        /\ ToSet(Append(running[c], d)) = ToSet(running[c]) \cup {d}
        /\ Len(Append(running[c], d)) = Len(running[c]) + 1
    BY <1>0, <2>1, RangeOfAppend, AppendProperties, LenProperties
  <2>3. /\ \A e \in Channels \ {c} : /\ lanes'[e] = lanes[e] /\ fetching'[e] = fetching[e]
                                     /\ running'[e] = running[e]
        /\ fetching'[c] = fetching[c] - 1 /\ running'[c] = Append(running[c], d)
        /\ lanes'[c].jobs = Tail(lanes[c].jobs) /\ lanes'[c].present = lanes[c].present
        /\ fetching[c] \in Nat /\ fetching[c] > 0 /\ lanes[c].jobs # <<>>
    BY <1>0, <1>3 DEF DrainPop, Lane
  <2>. HIDE DEF d
  <2>4. \A e \in Channels : LaneMessages(e)' = LaneMessages(e)
    BY <2>1, <2>2, <2>3 DEF LaneMessages
  <2>5. LanesKeepTheirChannel'
    BY <2>4 DEF LanesKeepTheirChannel
  <2>6. lanes[c].present
    BY <2>3 DEF Serial
  <2>7. Serial'
    <3>1. fetching'[c] + Len(running'[c]) = fetching[c] + Len(running[c])
      <4>1. Len(running'[c]) = Len(running[c]) + 1 /\ fetching'[c] = fetching[c] - 1
        BY <2>2, <2>3
      <4>2. fetching[c] \in Nat /\ Len(running[c]) \in Nat
        BY <2>2, <2>3
      <4>. QED BY <4>1, <4>2
    <3>. QED BY <2>3, <2>6, <3>1 DEF Serial
  <2>. QED BY <2>5, <2>7
<1>4. ASSUME NEW c \in Channels, DrainExit(c)
      PROVE  (LanesKeepTheirChannel /\ Serial)'
  <2>1. /\ \A e \in Channels \ {c} : lanes'[e] = lanes[e] /\ fetching'[e] = fetching[e]
        /\ running' = running /\ fetching'[c] = fetching[c] - 1
        /\ lanes'[c].jobs = <<>> /\ lanes'[c].present = FALSE
        /\ fetching[c] \in Nat /\ fetching[c] > 0 /\ lanes[c].jobs = <<>>
    BY <1>0, <1>4 DEF DrainExit, NoLane
  <2>2. Len(running[c]) \in Nat
    BY <1>0, LenProperties
  <2>3. LanesKeepTheirChannel'
    BY <2>1 DEF LanesKeepTheirChannel, LaneMessages
  <2>4. Serial'
    BY <2>1, <2>2 DEF Serial
  <2>. QED BY <2>3, <2>4
<1>5. ASSUME NEW c \in Channels, Finish(c) \/ Postpone(c)
      PROVE  (LanesKeepTheirChannel /\ Serial)'
  BY <1>5, ReturnKeepsLane DEF Finish, Postpone
<1>6. CASE FreshConsumer
  <2>1. \A c \in Channels : /\ lanes'[c].jobs = <<>> /\ lanes'[c].present = FALSE
                            /\ fetching'[c] = 0 /\ running'[c] = <<>>
    BY <1>6 DEF FreshConsumer, NoLane
  <2>2. Len(<<>>) = 0 /\ ToSet(<<>>) = {}
    BY DEF ToSet
  <2>. QED BY <2>1, <2>2 DEF LanesKeepTheirChannel, LaneMessages, Serial
<1>7. CASE UNCHANGED vars
  BY <1>1, <1>7 DEF vars, laneVars
<1>8. CASE Receive \/ Send \/ OverflowStep
  BY <1>1, <1>8 DEF Receive, Send, OverflowStep, TakeItem, BeginPublish, PublishConfirmed,
       PublishFailed, PublishUnconfirmed, AckOriginal, HandBack, OverflowFrame, laneVars
<1>9. ASSUME NEW c \in Channels, Publish(c) \/ StallElapses(c)
      PROVE  (LanesKeepTheirChannel /\ Serial)'
  BY <1>1, <1>9 DEF Publish, StallElapses, laneVars
<1>10. CASE StopStep \/ BeginStop
  BY <1>1, <1>10 DEF StopStep, BeginStop, DeliveriesEnd, CloseSpill, RequeueInOrder, Advance
<1>11. CASE Crash \/ Restart \/ Quiescent
  BY <1>6, <1>7, <1>11 DEF Crash, Restart, Quiescent
<1>. QED BY <1>2, <1>3, <1>4, <1>5, <1>7, <1>8, <1>9, <1>10, <1>11 DEF Next, ConsumerStep

-----------------------------------------------------------------------------
(* Stopping.                                                               *)

Idle(c) == fetching[c] = 0 /\ running[c] = <<>>

\* Each phase of a stop relies on what the phases before it have let go of.
StopOrder ==
  /\ phase \in {"cancelled", "closing", "down"} => loop = "receive"
  /\ phase = "closing" => \A c \in Channels : Idle(c)
  /\ DownHoldsNothing

LEMMA StopOrderStep ==
  ASSUME TypeInv, Serial, StopOrder, [Next]_vars
  PROVE  StopOrder'
<1>0. /\ phase \in Phases /\ (hand = <<>>) = (loop = "receive")
      /\ \A c \in Channels : fetching[c] \in Nat /\ running[c] \in Seq(Message)
  BY DEF TypeInv, TypeOK
<1>. USE DEF StopOrder, DownHoldsNothing, Idle
<1>1. CASE UNCHANGED <<phase, loop, hand, requeue, lanes, fetching, running,
                       spillQueue, moving>>
  BY <1>1
<1>2. CASE Receive \/ Offer \/ Send
  BY <1>0, <1>2 DEF Receive, Offer, Send
<1>3. ASSUME NEW c \in Channels, DrainPop(c) \/ DrainExit(c) \/ Finish(c) \/ Postpone(c)
      PROVE  StopOrder'
  <2>1. ~Idle(c)
    <3>1. CASE DrainPop(c) \/ DrainExit(c)
      BY <1>0, <3>1 DEF DrainPop, DrainExit
    <3>2. CASE Finish(c) \/ Postpone(c)
      <4>1. PICK i \in DOMAIN running[c] : TRUE
        BY <3>2 DEF Finish, Postpone
      <4>2. DOMAIN <<>> = {}
        OBVIOUS
      <4>. QED BY <4>1, <4>2
    <3>. QED BY <1>3, <3>1, <3>2
  <2>2. phase \notin {"closing", "down"}
    BY <2>1
  <2>3. phase' = phase /\ loop' = loop
    BY <1>3 DEF DrainPop, DrainExit, Finish, Postpone, Return, loopVars
  <2>. QED BY <2>2, <2>3
<1>4. CASE OverflowStep
  <2>1. /\ phase' = phase /\ loop' = loop /\ fetching' = fetching /\ running' = running
        /\ phase # "down"
    BY <1>4 DEF OverflowStep, TakeItem, BeginPublish, PublishConfirmed, PublishFailed,
       PublishUnconfirmed, AckOriginal, HandBack, MoveStep, OverflowFrame, loopVars, laneVars
  <2>. QED BY <2>1
<1>5. ASSUME NEW c \in Channels, Publish(c)
      PROVE  StopOrder'
  BY <1>1, <1>5 DEF Publish, loopVars, laneVars, spillVars
<1>6. ASSUME NEW c \in Channels, StallElapses(c)
      PROVE  StopOrder'
  BY <1>1, <1>6 DEF StallElapses, loopVars, laneVars
<1>7. CASE BeginStop \/ DeliveriesEnd \/ CloseSpill
  BY <1>0, <1>7 DEF BeginStop, DeliveriesEnd, CloseSpill, Advance, loopVars
<1>8. CASE RequeueInOrder
  <2>1. \A c \in Channels : Idle(c)
    BY <1>8 DEF RequeueInOrder, Advance
  <2>2. \A c \in Channels : lanes[c].jobs = <<>>
    <3>1. Len(<<>>) = 0
      OBVIOUS
    <3>. QED BY <2>1, <3>1 DEF Serial
  <2>. QED BY <1>0, <1>8, <2>1, <2>2 DEF RequeueInOrder, Advance, loopVars, spillVars
<1>9. CASE FreshConsumer
  BY <1>9 DEF FreshConsumer, NoLane
<1>10. CASE Crash \/ Restart \/ Quiescent \/ UNCHANGED vars
  <2>1. CASE Crash \/ Restart
    <3>1. FreshConsumer /\ phase' # "closing"
      BY <2>1 DEF Crash, Restart
    <3>. QED BY <1>9, <3>1
  <2>2. CASE Quiescent \/ UNCHANGED vars
    BY <1>1, <2>2 DEF Quiescent, vars, loopVars, laneVars, spillVars
  <2>. QED BY <1>10, <2>1, <2>2
<1>. QED BY <1>2, <1>3, <1>4, <1>5, <1>6, <1>7, <1>8, <1>10
         DEF Next, ConsumerStep, StopStep

-----------------------------------------------------------------------------
(* Items waiting for the overflow goroutine.                               *)

\* No item waits with its copy already made.
ItemsOnHold == \A i \in 1..Len(spillQueue) : spillQueue[i].step = "hold"

LEMMA SetSpillKeepsHold ==
  ASSUME TypeOK, ItemsOnHold, NEW c \in Channels, NEW s \in Spill, SetSpill(c, s)
  PROVE  ItemsOnHold'
BY SetSpillOK DEF TypeOK, ItemsOnHold

LEMMA ItemsOnHoldStep ==
  ASSUME TypeInv, ItemsOnHold, [Next]_vars
  PROVE  ItemsOnHold'
<1>0. spillQueue \in Seq(Item) /\ Len(spillQueue) \in Nat /\ Len(<<>>) = 0
  BY DEF TypeInv, TypeOK
<1>1. CASE UNCHANGED spillQueue
  BY <1>1 DEF ItemsOnHold
<1>2. CASE Receive
  <2>1. PICK d \in Message : Dispatch(d)
    <3>1. queue # <<>> => Head(queue) \in Message
      BY RangeOfTail DEF TypeInv, TypeOK
    <3>. QED BY <1>2, <3>1 DEF Receive, TypeInv, TypeOK
  <2>. QED BY <1>1, <2>1, SetSpillKeepsHold, SpillValues
           DEF Dispatch, Message, spillVars, TypeInv
<1>3. CASE Offer
  <2>1. PICK d \in Message, c \in Channels : d = hand[1] /\ c = d.ch
    BY <1>3, SlotProperties DEF Offer, Message, TypeInv, TypeOK
  <2>2. SetSpill(c, AfterAdmission(c, d)) \/ UNCHANGED spillQueue
    BY <1>3, <2>1 DEF Offer, spillVars
  <2>3. AfterAdmission(c, d) \in Spill
    BY <2>1, AfterAdmissionOK DEF TypeInv, TypeOK
  <2>. QED BY <1>1, <2>1, <2>2, <2>3, SetSpillKeepsHold DEF TypeInv
<1>4. CASE Send
  <2>1. PICK x : spillQueue' = Append(spillQueue, x) /\ x.step = "hold"
    BY <1>4 DEF Send
  <2>2. /\ Len(spillQueue') = Len(spillQueue) + 1
        /\ spillQueue'[Len(spillQueue) + 1] = x
        /\ \A i \in 1..Len(spillQueue) : spillQueue'[i] = spillQueue[i]
    BY <1>0, <2>1
  <2>3. ASSUME NEW i \in 1..Len(spillQueue') PROVE spillQueue'[i].step = "hold"
    <3>1. i \in 1..Len(spillQueue) \/ i = Len(spillQueue) + 1
      BY <1>0, <2>2
    <3>. QED BY <2>1, <2>2, <3>1 DEF ItemsOnHold
  <2>. QED BY <2>3 DEF ItemsOnHold
<1>5. CASE TakeItem
  <2>1. spillQueue # <<>> /\ spillQueue' = Tail(spillQueue)
    BY <1>5 DEF TakeItem
  <2>2. /\ Len(spillQueue') = Len(spillQueue) - 1 /\ Len(spillQueue) \in Nat \ {0}
        /\ \A i \in 1..Len(spillQueue) - 1 : spillQueue'[i] = spillQueue[i + 1]
    BY <1>0, <2>1, HeadTailProperties, EmptySeq
  <2>3. ASSUME NEW i \in 1..Len(spillQueue') PROVE spillQueue'[i].step = "hold"
    <3>1. i \in 1..Len(spillQueue) - 1 /\ i + 1 \in 1..Len(spillQueue)
      BY <2>2
    <3>. QED BY <2>2, <3>1 DEF ItemsOnHold
  <2>. QED BY <2>3 DEF ItemsOnHold
<1>6. CASE FreshConsumer
  BY <1>0, <1>6 DEF FreshConsumer, ItemsOnHold
<1>7. CASE \/ BeginPublish \/ PublishConfirmed \/ PublishFailed \/ PublishUnconfirmed
           \/ AckOriginal \/ HandBack
  BY <1>1, <1>7 DEF BeginPublish, PublishConfirmed, PublishFailed, PublishUnconfirmed,
                    AckOriginal, HandBack
<1>8. ASSUME NEW c \in Channels,
             \/ DrainPop(c) \/ DrainExit(c) \/ Finish(c) \/ Postpone(c)
             \/ Publish(c) \/ StallElapses(c)
      PROVE  ItemsOnHold'
  BY <1>1, <1>8 DEF DrainPop, DrainExit, Finish, Postpone, Return, Publish,
                    StallElapses, spillVars
<1>9. CASE StopStep \/ BeginStop \/ Quiescent \/ UNCHANGED vars
  BY <1>1, <1>9 DEF StopStep, BeginStop, DeliveriesEnd, CloseSpill, RequeueInOrder,
                    Advance, Quiescent, vars, spillVars
<1>10. CASE Crash \/ Restart
  BY <1>6, <1>10 DEF Crash, Restart
<1>. QED BY <1>2, <1>3, <1>4, <1>5, <1>7, <1>8, <1>9, <1>10
         DEF Next, ConsumerStep, OverflowStep

-----------------------------------------------------------------------------
(* No command lost.  The original of a copy that the broker confirmed is no *)
(* longer counted: its ack must not matter.                                 *)

Pending == IF moving # <<>> /\ moving[1].step # "copied" THEN {moving[1].msg} ELSE {}

LaneSet == UNION {LaneMessages(c) : c \in Channels}

Safe == UNION {ToSet(queue), DOMAIN returned, ToSet(hand), ToSet(requeue),
               ToSet(MessagesOf(spillQueue)), Pending, LaneSet}

CommandsKept ==
  \A c \in Channels : \A n \in 1..arrived[c] :
    n \in settled[c] \/ \E d \in Safe : d.ch = c /\ d.n = n

\* It is enough that a step keeps every safe message, a message of the same
\* command, or settles the command.
LEMMA KeptByStep ==
  ASSUME CommandsKept, arrived' = arrived,
         \A c \in Channels : settled[c] \subseteq settled'[c],
         \A d \in Safe : \/ d.n \in settled'[d.ch]
                         \/ \E e \in Safe' : e.ch = d.ch /\ e.n = d.n
  PROVE  CommandsKept'
BY DEF CommandsKept

LEMMA SetSpillKeepsMessages ==
  ASSUME TypeOK, NEW c \in Channels, NEW s \in Spill, SetSpill(c, s)
  PROVE  /\ ToSet(MessagesOf(spillQueue))' = ToSet(MessagesOf(spillQueue))
         /\ Pending' = Pending
<1>1. /\ spillQueue \in Seq(Item) /\ spillQueue' \in Seq(Item)
      /\ moving \in Slot(Item) /\ moving' \in Slot(Item)
      /\ Len(spillQueue') = Len(spillQueue) /\ Len(moving') = Len(moving)
      /\ \A i \in 1..Len(spillQueue) : spillQueue'[i].msg = spillQueue[i].msg
      /\ \A i \in 1..Len(moving) : /\ moving'[i].msg = moving[i].msg
                                   /\ moving'[i].step = moving[i].step
  BY SetSpillOK DEF TypeOK
<1>2. MessagesOf(spillQueue') = MessagesOf(spillQueue)
  <2>1. DOMAIN spillQueue = 1..Len(spillQueue) /\ DOMAIN spillQueue' = 1..Len(spillQueue)
    BY <1>1, LenProperties
  <2>. QED BY <1>1, <2>1 DEF MessagesOf
<1>3. moving \in Seq(Item) /\ moving' \in Seq(Item)
  BY <1>1 DEF Slot
<1>4. Pending' = Pending
  <2>1. CASE moving = <<>>
    BY <1>1, <1>3, <2>1, EmptySeq DEF Pending
  <2>2. CASE moving # <<>>
    <3>1. Len(moving) \in Nat \ {0} /\ moving' # <<>>
      BY <1>1, <1>3, <2>2, EmptySeq
    <3>2. moving'[1].msg = moving[1].msg /\ moving'[1].step = moving[1].step
      BY <1>1, <3>1
    <3>. QED BY <2>2, <3>1, <3>2 DEF Pending
  <2>. QED BY <2>1, <2>2
<1>. QED BY <1>2, <1>4

\* The pending message is the moving one until its copy is confirmed.
LEMMA PendingValues ==
  ASSUME TypeOK
  PROVE  /\ Pending \subseteq ToSet(MessagesOf(moving))
         /\ moving # <<>> => ToSet(MessagesOf(moving)) = {moving[1].msg}
<1>1. CASE moving = <<>>
  BY <1>1 DEF Pending
<1>2. CASE moving # <<>>
  <2>1. moving \in Seq(Item) /\ Len(moving) <= 1
    BY DEF TypeOK, Slot
  <2>2. Len(moving) = 1 /\ DOMAIN moving = 1..1
    BY <1>2, <2>1, SingletonSeq, LenProperties
  <2>3. ToSet(MessagesOf(moving)) = {moving[1].msg}
    BY <2>2 DEF ToSet, MessagesOf
  <2>. QED BY <1>2, <2>3 DEF Pending
<1>. QED BY <1>1, <1>2

LEMMA KeptStep ==
  ASSUME TypeInv, StopOrder, ItemsOnHold, CommandsKept, [Next]_vars
  PROVE  CommandsKept'
<1>0. /\ queue \in Seq(Message) /\ hand \in Slot(Message) /\ requeue \in Seq(Message)
      /\ IsABag(returned) /\ spillQueue \in Seq(Item) /\ moving \in Slot(Item)
      /\ (hand = <<>>) = (loop = "receive")
      /\ lanes \in [Channels -> Lane] /\ running \in [Channels -> Seq(Message)]
      /\ \A c \in Channels : lanes[c].jobs \in Seq(Message)
      /\ arrived \in [Channels -> 0..MaxCommands]
      /\ settled \in [Channels -> SUBSET (Nat \ {0})]
      /\ spills \in [Channels -> Spill]
  BY DEF TypeInv, TypeOK, Lane
<1>h. /\ ToSet(<<>>) = {} /\ \A d : ToSet(<<d>>) = {d}
      /\ hand # <<>> => hand[1] \in Message /\ hand = <<hand[1]>>
  BY <1>0, SlotProperties DEF ToSet
<1>s. ASSUME UNCHANGED <<arrived, settled>>,
             \A d \in Safe : \E e \in Safe' : e.ch = d.ch /\ e.n = d.n
      PROVE  CommandsKept'
  BY <1>s, KeptByStep
<1>u. ASSUME UNCHANGED <<lanes, running>> PROVE LaneSet' = LaneSet
  BY <1>u DEF LaneSet, LaneMessages
<1>1. CASE UNCHANGED <<arrived, settled, queue, returned, hand, requeue, lanes, running,
                       spillQueue, moving>>
  BY <1>1, <1>s, <1>u DEF Safe, Pending
<1>2. CASE Receive
  <2>1. /\ UNCHANGED <<arrived, settled, requeue, lanes, running>> /\ hand = <<>>
    BY <1>0, <1>2 DEF Receive, laneVars, histVars
  <2>2. ASSUME NEW d \in Message, Dispatch(d)
        PROVE  /\ hand' = <<d>> /\ Pending' = Pending
               /\ ToSet(MessagesOf(spillQueue))' = ToSet(MessagesOf(spillQueue))
    <3>1. CASE HasSpill(d.ch) /\ Stalled(d.ch)
      <4>1. d.ch \in Channels /\ SetSpill(d.ch, NoSpill) /\ hand' = <<d>>
        BY <2>2, <3>1 DEF Dispatch, Message
      <4>. QED BY <4>1, SetSpillKeepsMessages, SpillValues DEF TypeInv
    <3>2. CASE ~(HasSpill(d.ch) /\ Stalled(d.ch))
      BY <2>2, <3>2 DEF Dispatch, spillVars, Pending
    <3>. QED BY <3>1, <3>2
  <2>3. CASE queue # <<>> /\ Dispatch(Head(queue)) /\ queue' = Tail(queue)
             /\ UNCHANGED returned
    <3>1. Head(queue) \in Message /\ ToSet(queue) = {Head(queue)} \cup ToSet(Tail(queue))
      BY <1>0, <2>3, RangeOfTail
    <3>2. ToSet(hand') = {Head(queue)} /\ ToSet(hand) = {}
      BY <1>h, <2>1, <2>2, <2>3, <3>1
    <3>3. /\ queue' = Tail(queue) /\ returned' = returned /\ requeue' = requeue
          /\ Pending' = Pending /\ LaneSet' = LaneSet
          /\ ToSet(MessagesOf(spillQueue))' = ToSet(MessagesOf(spillQueue))
      BY <1>u, <2>1, <2>2, <2>3, <3>1
    <3>4. Safe \subseteq Safe'
      BY <3>1, <3>2, <3>3 DEF Safe
    <3>. QED BY <1>s, <2>1, <3>4
  <2>4. CASE \E d \in DOMAIN returned : /\ Dispatch(d) /\ UNCHANGED queue
                                        /\ returned' = returned (-) SetToBag({d})
    <3>1. PICK d \in DOMAIN returned : /\ Dispatch(d) /\ UNCHANGED queue
                                       /\ returned' = returned (-) SetToBag({d})
      BY <2>4
    <3>2. d \in Message /\ DOMAIN returned \subseteq DOMAIN returned' \cup {d}
      BY <1>0, <3>1, BagTake DEF TypeInv, TypeOK
    <3>3. ToSet(hand') = {d} /\ ToSet(hand) = {}
      BY <1>h, <2>1, <2>2, <3>1, <3>2
    <3>4. /\ queue' = queue /\ requeue' = requeue /\ Pending' = Pending /\ LaneSet' = LaneSet
          /\ ToSet(MessagesOf(spillQueue))' = ToSet(MessagesOf(spillQueue))
      BY <1>u, <2>1, <2>2, <3>1, <3>2
    <3>5. Safe \subseteq Safe'
      BY <3>2, <3>3, <3>4 DEF Safe
    <3>. QED BY <1>s, <2>1, <3>5
  <2>. QED BY <1>2, <2>3, <2>4 DEF Receive
<1>3. CASE Offer
  <2>1. /\ UNCHANGED <<arrived, settled, requeue, queue, returned, running>>
        /\ hand # <<>>
    BY <1>0, <1>3 DEF Offer, brokerVars, histVars
  <2>2. PICK d \in Message, c \in Channels : d = hand[1] /\ c = d.ch
    BY <1>h, <2>1 DEF Message
  <2>3. CASE ~LaneFull(c)
    <3>1. /\ lanes' = [lanes EXCEPT ![c] =
                         [present |-> TRUE, jobs |-> Append(lanes[c].jobs, d)]]
          /\ SetSpill(c, AfterAdmission(c, d))
          /\ hand' = <<>>
      BY <1>0, <1>3, <2>2, <2>3, ConstantsAssumption DEF Offer, Lane
    <3>2. ToSet(lanes'[c].jobs) = ToSet(lanes[c].jobs) \cup {d}
          /\ \A e \in Channels \ {c} : lanes'[e] = lanes[e]
      BY <1>0, <2>2, <3>1, RangeOfAppend
    <3>3. LaneSet \cup {d} \subseteq LaneSet'
      BY <2>1, <3>2 DEF LaneSet, LaneMessages
    <3>4. /\ ToSet(MessagesOf(spillQueue))' = ToSet(MessagesOf(spillQueue))
          /\ Pending' = Pending
      BY <1>0, <3>1, SetSpillKeepsMessages, AfterAdmissionOK DEF TypeInv
    <3>5. ToSet(hand) = {d}
      BY <1>h, <2>1, <2>2
    <3>. QED BY <1>s, <2>1, <3>3, <3>4, <3>5 DEF Safe
  <2>4. CASE LaneFull(c)
    BY <1>1, <1>3, <2>1, <2>2, <2>4 DEF Offer, spillVars
  <2>. QED BY <2>3, <2>4
<1>4. CASE Send
  <2>1. /\ UNCHANGED <<arrived, settled, requeue, queue, returned, lanes, running, moving>>
        /\ hand # <<>> /\ hand' = <<>>
    BY <1>0, <1>4 DEF Send, brokerVars, histVars, laneVars
  <2>2. PICK d \in Message : d = hand[1] /\ ToSet(hand) = {d} /\ d.seq \in Nat
    BY <1>h, <2>1 DEF Message
  <2>3. PICK x : spillQueue' = Append(spillQueue, x) /\ x \in Item /\ x.msg = d
    <3>1. PICK q \in Nat : spillQueue' = Append(spillQueue,
                             [msg |-> d, seq |-> q, own |-> TRUE, step |-> "hold"])
      <4>1. hand[1].ch \in Channels
        BY <2>2 DEF Message
      <4>. QED BY <1>0, <1>4, <2>2, <4>1, SpillValues DEF Send
    <3>2. PICK x : x = [msg |-> d, seq |-> q, own |-> TRUE, step |-> "hold"]
      OBVIOUS
    <3>3. x \in Item /\ x.msg = d
      BY <3>2 DEF Item, ItemSteps
    <3>. QED BY <3>1, <3>2, <3>3
  <2>4. spillQueue' \in Seq(Item) /\ ToSet(spillQueue') = ToSet(spillQueue) \cup {x}
    BY <1>0, <2>3, RangeOfAppend
  <2>5. ToSet(MessagesOf(spillQueue))' = ToSet(MessagesOf(spillQueue)) \cup {d}
    BY <1>0, <2>3, <2>4, MessagesOfProperties
  <2>. QED BY <1>s, <1>u, <2>1, <2>2, <2>5 DEF Safe, Pending
<1>5. ASSUME NEW c \in Channels, DrainPop(c)
      PROVE  CommandsKept'
  <2> DEFINE d == Head(lanes[c].jobs)
  <2>1. d \in Message /\ ToSet(lanes[c].jobs) = {d} \cup ToSet(Tail(lanes[c].jobs))
        /\ ToSet(Append(running[c], d)) = ToSet(running[c]) \cup {d}
    BY <1>0, <1>5, RangeOfTail, RangeOfAppend DEF DrainPop
  <2>2. /\ \A e \in Channels \ {c} : lanes'[e] = lanes[e] /\ running'[e] = running[e]
        /\ running'[c] = Append(running[c], d) /\ lanes'[c].jobs = Tail(lanes[c].jobs)
    BY <1>0, <1>5 DEF DrainPop, Lane
  <2>. HIDE DEF d
  <2>3. LaneSet' = LaneSet
    <3>1. \A e \in Channels : LaneMessages(e)' = LaneMessages(e)
      BY <2>1, <2>2 DEF LaneMessages
    <3>. QED BY <3>1 DEF LaneSet
  <2>. QED BY <1>s, <1>5, <2>3 DEF DrainPop, Safe, Pending, brokerVars, loopVars, spillVars
<1>6. ASSUME NEW c \in Channels, DrainExit(c)
      PROVE  CommandsKept'
  <2>1. \A e \in Channels : lanes'[e].jobs = lanes[e].jobs /\ running'[e] = running[e]
    BY <1>0, <1>6 DEF DrainExit, NoLane
  <2>2. LaneSet' = LaneSet
    BY <2>1 DEF LaneSet, LaneMessages
  <2>. QED BY <1>s, <1>6, <2>2 DEF DrainExit, Safe, Pending, brokerVars, loopVars,
                                   histVars, spillVars
<1>7. ASSUME NEW c \in Channels, NEW i \in DOMAIN running[c], Return(c, i)
      PROVE  /\ LaneSet \subseteq LaneSet' \cup {running[c][i]}
             /\ running[c][i] \in Message /\ running[c][i].ch = c
             /\ UNCHANGED <<arrived, queue, returned, hand, spillQueue, moving>>
  <2>1. ToSet(running[c]) = ToSet(RemoveAt(running[c], i)) \cup {running[c][i]}
        /\ running[c][i] \in Message
    BY <1>0, <1>7, RangeOfRemoveAt
  <2>2. /\ lanes' = lanes /\ running'[c] = RemoveAt(running[c], i)
        /\ \A e \in Channels \ {c} : running'[e] = running[e]
    BY <1>0, <1>7 DEF Return
  <2>3. LaneSet \subseteq LaneSet' \cup {running[c][i]}
    BY <2>1, <2>2 DEF LaneSet, LaneMessages
  <2>4. running[c][i].ch = c
    BY <2>1 DEF TypeInv, LanesKeepTheirChannel, LaneMessages
  <2>. QED BY <1>7, <2>1, <2>3, <2>4 DEF Return, brokerVars, loopVars, spillVars
<1>8. ASSUME NEW c \in Channels, Finish(c)
      PROVE  CommandsKept'
  <2>1. PICK i \in DOMAIN running[c] :
          /\ Return(c, i) /\ UNCHANGED requeue
          /\ settled' = [settled EXCEPT ![c] = @ \cup {running[c][i].n}]
    BY <1>8 DEF Finish
  <2>2. \A e \in Channels : settled[e] \subseteq settled'[e]
    BY <1>0, <2>1
  <2>3. running[c][i].n \in settled'[c] /\ running[c][i].ch = c
    BY <1>0, <1>7, <2>1
  <2>4. Safe \subseteq Safe' \cup {running[c][i]}
    BY <1>7, <2>1 DEF Safe, Pending
  <2>. QED BY <1>7, <2>1, <2>2, <2>3, <2>4, KeptByStep
<1>9. ASSUME NEW c \in Channels, Postpone(c)
      PROVE  CommandsKept'
  <2>1. PICK i \in DOMAIN running[c] :
          Return(c, i) /\ UNCHANGED settled /\ requeue' = Append(requeue, running[c][i])
    BY <1>9 DEF Postpone
  <2>2. ToSet(requeue') = ToSet(requeue) \cup {running[c][i]}
    BY <1>0, <1>7, <2>1, RangeOfAppend
  <2>3. Safe \subseteq Safe'
    BY <1>7, <2>1, <2>2 DEF Safe, Pending
  <2>. QED BY <1>7, <1>s, <2>1, <2>3
<1>10. CASE TakeItem
  <2>1. UNCHANGED <<arrived, settled, queue, returned, hand, requeue, lanes, running>>
    BY <1>10 DEF TakeItem, OverflowFrame, brokerVars, loopVars, laneVars, histVars
  <2>2. /\ spillQueue # <<>> /\ spillQueue' = Tail(spillQueue)
        /\ moving' = <<Head(spillQueue)>> /\ moving = <<>>
    BY <1>10 DEF TakeItem
  <2>3. Head(spillQueue) \in Item /\ Tail(spillQueue) \in Seq(Item)
        /\ ToSet(spillQueue) = {Head(spillQueue)} \cup ToSet(Tail(spillQueue))
    BY <1>0, <2>2, RangeOfTail
  <2>4. Head(spillQueue).step = "hold" /\ Pending = {}
    <3>1. Head(spillQueue) = spillQueue[1] /\ Len(spillQueue) \in Nat \ {0}
      BY <1>0, <2>2, EmptySeq
    <3>. QED BY <2>2, <3>1 DEF ItemsOnHold, Pending
  <2>5. Pending' = {Head(spillQueue).msg}
    BY <2>2, <2>4 DEF Pending
  <2>6. ToSet(MessagesOf(spillQueue)) = {Head(spillQueue).msg} \cup ToSet(MessagesOf(spillQueue))'
    BY <1>0, <2>2, <2>3, MessagesOfProperties
  <2>. QED BY <1>s, <1>u, <2>1, <2>4, <2>5, <2>6 DEF Safe
<1>11. ASSUME NEW from, NEW to, MoveStep(from, to), from # "copied", OverflowFrame
       PROVE  /\ moving # <<>> /\ moving[1].msg \in Message
              /\ Pending = {moving[1].msg}
              /\ Pending' = IF to = "copied" THEN {} ELSE Pending
              /\ UNCHANGED <<arrived, settled, hand, requeue, lanes, running>>
  <2>1. moving # <<>> /\ moving[1] \in Item /\ moving[1].step # "copied"
    BY <1>0, <1>11, SlotProperties DEF MoveStep
  <2>2. /\ moving' # <<>> /\ moving'[1].step = to /\ moving'[1].msg = moving[1].msg
    BY <1>11, <2>1 DEF MoveStep, Item
  <2>3. moving[1].msg \in Message
    BY <2>1 DEF Item
  <2>. QED BY <1>11, <2>1, <2>2, <2>3 DEF Pending, OverflowFrame, loopVars, laneVars, histVars
<1>12. CASE BeginPublish \/ PublishFailed
  <2>1. UNCHANGED <<queue, returned, spillQueue>> /\ OverflowFrame
    BY <1>12 DEF BeginPublish, PublishFailed, brokerVars
  <2>2. PICK from, to : MoveStep(from, to) /\ from # "copied" /\ to # "copied"
    BY <1>12 DEF BeginPublish, PublishFailed
  <2>. QED BY <1>s, <1>u, <1>11, <2>1, <2>2 DEF Safe
<1>13. CASE PublishConfirmed \/ PublishUnconfirmed
  <2>1. /\ queue' = Append(queue, CopyOf(moving[1])) /\ UNCHANGED <<returned, spillQueue>>
        /\ OverflowFrame
    BY <1>13 DEF PublishConfirmed, PublishUnconfirmed
  <2>2. PICK to : MoveStep("publishing", to)
    BY <1>13 DEF PublishConfirmed, PublishUnconfirmed
  <2>3. moving # <<>> /\ moving[1] \in Item /\ nonce \in Nat
    BY <1>0, <2>2, SlotProperties DEF MoveStep, TypeInv, TypeOK
  <2>4. PICK m \in Message : m = CopyOf(moving[1]) /\ m.ch = moving[1].msg.ch
                             /\ m.n = moving[1].msg.n
    <3>1. moving[1].msg \in Message /\ moving[1].seq \in Nat
      BY <2>3 DEF Item
    <3>2. PICK m : m = [moving[1].msg EXCEPT !.nonce = nonce, !.seq = moving[1].seq]
      OBVIOUS
    <3>3. m \in Message /\ m.ch = moving[1].msg.ch /\ m.n = moving[1].msg.n
      BY <2>3, <3>1, <3>2 DEF Message
    <3>. QED BY <3>2, <3>3 DEF CopyOf
  <2>5. ToSet(queue') = ToSet(queue) \cup {m}
    BY <1>0, <2>1, <2>4, RangeOfAppend
  <2>6. /\ Pending = {moving[1].msg}
        /\ UNCHANGED <<arrived, settled, hand, requeue, lanes, running>>
    BY <1>11, <2>1, <2>2
  <2>7. \A d \in Safe : d \in Safe' \/ d = moving[1].msg
    BY <1>u, <2>1, <2>5, <2>6 DEF Safe
  <2>8. m \in Safe'
    BY <2>5 DEF Safe
  <2>. QED BY <1>s, <2>4, <2>6, <2>7, <2>8
<1>14. CASE AckOriginal
  <2>1. Pending = {} /\ Pending' = {}
    BY <1>14 DEF AckOriginal, Pending
  <2>. QED BY <1>s, <1>u, <1>14, <2>1
           DEF AckOriginal, OverflowFrame, Safe, brokerVars, loopVars, laneVars, histVars
<1>15. CASE HandBack
  <2>1. PICK m : m = moving[1].msg /\ Pending = {m} /\ Pending' = {}
                 /\ returned' = returned (+) SetToBag({m})
    BY <1>15 DEF HandBack, Pending
  <2>2. DOMAIN returned' = DOMAIN returned \cup {m}
    <3>1. IsABag(SetToBag({m})) /\ DOMAIN SetToBag({m}) = {m}
      BY SingletonBag
    <3>2. IsABag(returned)
      BY <1>0
    <3>3. DOMAIN (returned (+) SetToBag({m})) = DOMAIN returned \cup {m}
      BY <3>1, <3>2, BagSum, Zenon
    <3>. QED BY <2>1, <3>3
  <2>. QED BY <1>s, <1>u, <1>15, <2>1, <2>2
           DEF HandBack, OverflowFrame, Safe, loopVars, laneVars, histVars
<1>16. ASSUME NEW c \in Channels, Publish(c)
       PROVE  CommandsKept'
  <2>1. /\ UNCHANGED <<settled, returned, hand, requeue, lanes, running, spillQueue, moving>>
        /\ arrived' = [arrived EXCEPT ![c] = arrived[c] + 1]
        /\ queue' = Append(queue, Command(c, arrived[c] + 1))
    BY <1>16 DEF Publish, loopVars, laneVars, spillVars, histVars
  <2>2. PICK m \in Message : /\ queue' = Append(queue, m)
                             /\ m.ch = c /\ m.n = arrived[c] + 1
    <3>1. arrived[c] + 1 \in Nat \ {0}
      BY <1>0
    <3>2. Command(c, arrived[c] + 1) \in Message
      BY <3>1 DEF Command, Message
    <3>. QED BY <2>1, <3>2 DEF Command
  <2>3. ToSet(queue') = ToSet(queue) \cup {m}
    BY <1>0, <2>2, RangeOfAppend
  <2>4. Safe' = Safe \cup {m}
    BY <1>u, <2>1, <2>3 DEF Safe, Pending
  <2>5. ASSUME NEW e \in Channels, NEW n \in 1..arrived'[e]
        PROVE  n \in settled'[e] \/ \E d \in Safe' : d.ch = e /\ d.n = n
    <3>1. arrived[e] \in Nat /\ arrived[c] \in Nat
      BY <1>0
    <3>2. n \in 1..arrived[e] \/ (e = c /\ n = arrived[c] + 1)
      BY <1>0, <2>1, <3>1
    <3>. QED BY <2>1, <2>2, <2>4, <3>2 DEF CommandsKept
  <2>. QED BY <2>5 DEF CommandsKept
<1>17. ASSUME NEW c \in Channels, StallElapses(c)
       PROVE  CommandsKept'
  BY <1>1, <1>17 DEF StallElapses, brokerVars, loopVars, laneVars, histVars
<1>18. CASE BeginStop \/ DeliveriesEnd \/ CloseSpill
  BY <1>1, <1>18 DEF BeginStop, DeliveriesEnd, CloseSpill, Advance, brokerVars, loopVars,
                     spillVars, histVars
<1>19. CASE RequeueInOrder
  <2>1. /\ UNCHANGED <<arrived, settled, queue, hand, lanes, running, spillQueue, moving>>
        /\ returned' = returned (+) ToBag(requeue) /\ requeue' = <<>>
    BY <1>19 DEF RequeueInOrder, Advance, loopVars, spillVars, histVars
  <2>2. IsABag(ToBag(requeue)) /\ DOMAIN ToBag(requeue) = ToSet(requeue)
    BY <1>0, BagOfSeq
  <2>3. DOMAIN returned' = DOMAIN returned \cup ToSet(requeue)
    BY <1>0, <2>1, <2>2, BagSum
  <2>. QED BY <1>s, <1>u, <2>1, <2>3 DEF Safe, Pending
<1>20. CASE Crash
  <2>1. UNCHANGED <<arrived, settled, queue>>
    BY <1>20 DEF Crash, histVars
  <2>2. DOMAIN returned' =
          UNION {DOMAIN returned, ToSet(hand), ToSet(requeue),
                 UNION {LaneMessages(c) : c \in Channels},
                 ToSet(MessagesOf(spillQueue)), ToSet(MessagesOf(moving))}
    BY <1>20, CrashBag DEF TypeInv
  <2>3. Pending \subseteq ToSet(MessagesOf(moving))
    BY PendingValues DEF TypeInv
  <2>4. Safe \subseteq ToSet(queue) \cup DOMAIN returned'
    BY <2>2, <2>3 DEF Safe, LaneSet
  <2>5. ToSet(queue') \cup DOMAIN returned' \subseteq Safe'
    BY DEF Safe
  <2>. QED BY <1>s, <2>1, <2>4, <2>5
<1>21. CASE Restart
  <2>1. UNCHANGED <<arrived, settled, queue, returned>> /\ phase = "down"
    BY <1>21 DEF Restart, brokerVars, histVars
  <2>2. /\ hand = <<>> /\ requeue = <<>> /\ spillQueue = <<>> /\ moving = <<>>
        /\ \A c \in Channels : running[c] = <<>> /\ lanes[c].jobs = <<>>
    BY <2>1 DEF StopOrder, DownHoldsNothing
  <2>3. LaneSet = {} /\ Pending = {} /\ ToSet(MessagesOf(spillQueue)) = {}
    BY <1>h, <2>2 DEF LaneSet, LaneMessages, Pending, MessagesOf, ToSet
  <2>4. Safe = ToSet(queue) \cup DOMAIN returned
    BY <1>h, <2>2, <2>3 DEF Safe
  <2>5. ToSet(queue') \cup DOMAIN returned' \subseteq Safe'
    BY DEF Safe
  <2>. QED BY <1>s, <2>1, <2>4, <2>5
<1>22. CASE Quiescent \/ UNCHANGED vars
  BY <1>1, <1>22 DEF Quiescent, vars, brokerVars, loopVars, laneVars, spillVars, histVars
<1>. QED BY <1>2, <1>3, <1>4, <1>5, <1>6, <1>8, <1>9, <1>10, <1>12, <1>13, <1>14, <1>15,
            <1>16, <1>17, <1>18, <1>19, <1>20, <1>21, <1>22
         DEF Next, ConsumerStep, OverflowStep, StopStep

-----------------------------------------------------------------------------
(* The numbers of a spill.                                                 *)

\* admitted advances expected below next, and drops the spill when they meet.
LEMMA AdmissionKeepsNumbers ==
  ASSUME TypeOK, SpillExpectsAssigned, NEW c \in Channels, NEW d,
         AfterAdmission(c, d) # NoSpill
  PROVE  AfterAdmission(c, d).expected < AfterAdmission(c, d).next
<1>1. spills[c] \in Spill /\ spills[c].expected \in Nat /\ spills[c].next \in Nat
  BY DEF TypeOK, Spill
<1>2. CASE ~HasSpill(c)
  BY <1>2 DEF AfterAdmission, HasSpill
<1>3. CASE HasSpill(c)
  <2>1. spills[c].expected < spills[c].next
    BY <1>3 DEF SpillExpectsAssigned
  <2> DEFINE s == spills[c]
             quiet == [s EXCEPT !.quiet = FALSE]
             advanced == [s EXCEPT !.expected = s.expected + 1, !.quiet = FALSE]
  <2>2. /\ quiet.expected = s.expected /\ quiet.next = s.next
        /\ advanced.expected = s.expected + 1 /\ advanced.next = s.next
    BY <1>1 DEF Spill
  <2>3. \/ AfterAdmission(c, d) = s \/ AfterAdmission(c, d) = quiet
        \/ AfterAdmission(c, d) = advanced /\ s.expected + 1 # s.next
    BY <1>3 DEF AfterAdmission
  <2>4. s.expected < s.next /\ s.expected \in Nat /\ s.next \in Nat
    BY <1>1, <2>1
  <2>. HIDE DEF s, quiet, advanced
  <2>5. s.expected + 1 # s.next => s.expected + 1 < s.next
    BY <2>4
  <2>. QED BY <2>2, <2>3, <2>4, <2>5
<1>. QED BY <1>2, <1>3

LEMMA NumbersStep ==
  ASSUME TypeOK, SpillExpectsAssigned, [Next]_vars
  PROVE  SpillExpectsAssigned'
<1>0. spills \in [Channels -> Spill]
  BY DEF TypeOK
<1>1. CASE UNCHANGED spills
  BY <1>1 DEF SpillExpectsAssigned, HasSpill
<1>2. ASSUME NEW c \in Channels, NEW s, spills' = [spills EXCEPT ![c] = s],
             s # NoSpill => s.expected < s.next
      PROVE  SpillExpectsAssigned'
  BY <1>0, <1>2 DEF SpillExpectsAssigned, HasSpill
<1>3. CASE Receive
  <2>1. PICK d \in Message : Dispatch(d)
    <3>1. queue # <<>> => Head(queue) \in Message
      BY RangeOfTail DEF TypeOK
    <3>. QED BY <1>3, <3>1 DEF Receive, TypeOK
  <2>. QED BY <1>1, <1>2, <2>1 DEF Dispatch, SetSpill, spillVars, Message
<1>4. CASE Offer
  <2>1. PICK d \in Message, c \in Channels : d = hand[1] /\ c = d.ch
    BY <1>4, SlotProperties DEF Offer, Message, TypeOK
  <2>2. \/ spills' = [spills EXCEPT ![c] = AfterAdmission(c, d)] \/ UNCHANGED spills
    BY <1>4, <2>1 DEF Offer, SetSpill, spillVars
  <2>. QED BY <1>1, <1>2, <2>2, AdmissionKeepsNumbers
<1>5. CASE Send
  <2>1. PICK d \in Message, c \in Channels : d = hand[1] /\ c = d.ch
    BY <1>5, SlotProperties DEF Send, Message, TypeOK
  <2>2. PICK s \in Spill :
          /\ s.expected <= s.next
          /\ \/ spills' = [spills EXCEPT ![c] = [s EXCEPT !.next = s.next + 1]]
             \/ spills' = [spills EXCEPT ![c] = spills[c]]
    <3>1. CASE HasSpill(c)
      <4>1. spills[c] \in Spill /\ spills[c].expected < spills[c].next
            /\ spills[c].expected \in Nat /\ spills[c].next \in Nat
        BY <1>0, <3>1 DEF SpillExpectsAssigned, Spill
      <4>2. spills[c].expected <= spills[c].next
        BY <4>1
      <4>. QED BY <1>5, <2>1, <3>1, <4>1, <4>2 DEF Send
    <3>2. CASE ~HasSpill(c)
      <4>1. NewSpill.expected <= NewSpill.next
        BY DEF NewSpill
      <4>. QED BY <1>5, <2>1, <3>2, <4>1, SpillValues DEF Send
    <3>. QED BY <3>1, <3>2
  <2>3. CASE spills' = [spills EXCEPT ![c] = spills[c]]
    BY <1>0, <1>1, <2>3
  <2>4. CASE spills' = [spills EXCEPT ![c] = [s EXCEPT !.next = s.next + 1]]
    <3>1. PICK q : q = [s EXCEPT !.next = s.next + 1]
      OBVIOUS
    <3>2. /\ q.expected = s.expected /\ q.next = s.next + 1
          /\ s.expected \in Nat /\ s.next \in Nat
      BY <3>1 DEF Spill
    <3>3. q.expected < q.next
      BY <2>2, <3>2
    <3>. QED BY <1>2, <2>4, <3>1, <3>3
  <2>. QED BY <2>2, <2>3, <2>4
<1>6. ASSUME NEW c \in Channels, StallElapses(c)
      PROVE  SpillExpectsAssigned'
  <2>1. /\ [spills[c] EXCEPT !.quiet = TRUE].expected = spills[c].expected
        /\ [spills[c] EXCEPT !.quiet = TRUE].next = spills[c].next
    BY <1>0 DEF Spill
  <2>2. spills[c].expected < spills[c].next
    BY <1>6 DEF StallElapses, SpillExpectsAssigned
  <2>. QED BY <1>2, <1>6, <2>1, <2>2 DEF StallElapses
<1>7. CASE OverflowStep
  BY <1>1, <1>7 DEF OverflowStep, TakeItem, BeginPublish, PublishConfirmed, PublishFailed,
       PublishUnconfirmed, AckOriginal, HandBack, OverflowFrame
<1>8. ASSUME NEW c \in Channels,
             DrainPop(c) \/ DrainExit(c) \/ Finish(c) \/ Postpone(c) \/ Publish(c)
      PROVE  SpillExpectsAssigned'
  BY <1>1, <1>8 DEF DrainPop, DrainExit, Finish, Postpone, Return, Publish, spillVars
<1>9. CASE StopStep \/ BeginStop \/ Quiescent \/ UNCHANGED vars
  BY <1>1, <1>9 DEF StopStep, BeginStop, DeliveriesEnd, CloseSpill, RequeueInOrder,
                    Advance, Quiescent, vars, spillVars
<1>10. CASE Crash \/ Restart
  BY <1>10 DEF Crash, Restart, FreshConsumer, SpillExpectsAssigned, HasSpill
<1>. QED BY <1>3, <1>4, <1>5, <1>6, <1>7, <1>8, <1>9, <1>10 DEF Next, ConsumerStep

-----------------------------------------------------------------------------
(* SendNeverBlocks: every delivery the consumer holds has one place, so the *)
(* prefetch bounds what the overflow is asked to carry.                     *)

WithinPrefetch == IsFiniteSet(LanePlaces) /\ Held <= Prefetch

LEMMA PlacesAre ==
  \A x : x \in LanePlaces <=> \E c \in Channels : \E i \in 1..InLane(c) : x = <<c, i>>
BY DEF LanePlaces

LEMMA Counts ==
  ASSUME NEW x \in Nat, NEW y \in Nat
  PROVE  /\ x + y \in Nat
         /\ (x + 1) + y = (x + y) + 1
         /\ x + (y + 1) = (x + y) + 1
  OBVIOUS

LEMMA LaneSeqs ==
  ASSUME TypeOK, NEW c \in Channels
  PROVE  lanes[c].jobs \in Seq(Message) /\ running[c] \in Seq(Message)
BY DEF TypeOK, Lane

LEMMA InLaneType ==
  ASSUME TypeOK, NEW c \in Channels
  PROVE  InLane(c) \in Nat /\ Len(running[c]) \in Nat /\ Len(lanes[c].jobs) \in Nat
<1>2. Len(running[c]) \in Nat /\ Len(lanes[c].jobs) \in Nat
  BY LaneSeqs, LenProperties
<1>3. InLane(c) = Len(running[c]) + Len(lanes[c].jobs)
  BY DEF InLane
<1>4. InLane(c) \in Nat
  BY <1>2, <1>3, Counts, Zenon
<1>. QED BY <1>2, <1>4

\* The lanes may hand a delivery from the backlog to a goroutine: the places stay.
LEMMA PlacesStay ==
  ASSUME \A c \in Channels : InLane(c)' = InLane(c)
  PROVE  LanePlaces' = LanePlaces
BY DEF LanePlaces

LEMMA PlacesGrow ==
  ASSUME TypeOK, IsFiniteSet(LanePlaces), NEW c \in Channels,
         InLane(c)' = InLane(c) + 1,
         \A k \in Channels \ {c} : InLane(k)' = InLane(k)
  PROVE  IsFiniteSet(LanePlaces') /\ Cardinality(LanePlaces') = Cardinality(LanePlaces) + 1
<1> DEFINE new == <<c, InLane(c) + 1>>
<1>1. InLane(c) \in Nat
  BY InLaneType
<1>2. LanePlaces' = UNION {{k} \X (1..InLane(k)') : k \in Channels}
  BY DEF LanePlaces
<1>3. \A x : x \in LanePlaces' <=> \E k \in Channels : \E i \in 1..InLane(k)' : x = <<k, i>>
  BY <1>2
<1>4. new \notin LanePlaces
  BY <1>1, PlacesAre
<1>5. LanePlaces \subseteq LanePlaces'
  <2>. SUFFICES ASSUME NEW k \in Channels, NEW i \in 1..InLane(k)
                PROVE  <<k, i>> \in LanePlaces'
    BY PlacesAre
  <2>1. i \in 1..InLane(k)'
    BY <1>1
  <2>. QED BY <2>1, <1>3
<1>6. new \in LanePlaces'
  <2>1. InLane(c) + 1 \in 1..InLane(c)'
    BY <1>1
  <2>. QED BY <2>1, <1>3
<1>7. LanePlaces' \subseteq LanePlaces \cup {new}
  <2>. SUFFICES ASSUME NEW k \in Channels, NEW i \in 1..InLane(k)'
                PROVE  <<k, i>> \in LanePlaces \cup {new}
    BY <1>3
  <2>1. CASE k = c /\ i = InLane(c) + 1
    BY <2>1
  <2>2. CASE ~(k = c /\ i = InLane(c) + 1)
    <3>1. i \in 1..InLane(k)
      BY <2>2, <1>1
    <3>. QED BY <3>1, PlacesAre
  <2>. QED BY <2>1, <2>2
<1>. HIDE DEF new
<1>8. LanePlaces' = LanePlaces \cup {new}
  BY <1>5, <1>6, <1>7
<1>. QED BY <1>4, <1>8, FS_AddElement

LEMMA PlacesShrink ==
  ASSUME TypeOK, IsFiniteSet(LanePlaces), NEW c \in Channels,
         InLane(c)' \in Nat, InLane(c) = InLane(c)' + 1,
         \A k \in Channels \ {c} : InLane(k)' = InLane(k)
  PROVE  IsFiniteSet(LanePlaces') /\ Cardinality(LanePlaces) = Cardinality(LanePlaces') + 1
<1> DEFINE old == <<c, InLane(c)>>
<1>2. LanePlaces' = UNION {{k} \X (1..InLane(k)') : k \in Channels}
  BY DEF LanePlaces
<1>3. \A x : x \in LanePlaces' <=> \E k \in Channels : \E i \in 1..InLane(k)' : x = <<k, i>>
  BY <1>2
<1>4. old \notin LanePlaces'
  BY <1>3
<1>5. LanePlaces' \subseteq LanePlaces
  <2>. SUFFICES ASSUME NEW k \in Channels, NEW i \in 1..InLane(k)'
                PROVE  <<k, i>> \in LanePlaces
    BY <1>3
  <2>1. i \in 1..InLane(k)
    OBVIOUS
  <2>. QED BY <2>1, PlacesAre
<1>6. old \in LanePlaces
  <2>1. InLane(c) \in 1..InLane(c)
    OBVIOUS
  <2>. QED BY <2>1, PlacesAre
<1>7. LanePlaces \subseteq LanePlaces' \cup {old}
  <2>. SUFFICES ASSUME NEW k \in Channels, NEW i \in 1..InLane(k)
                PROVE  <<k, i>> \in LanePlaces' \cup {old}
    BY PlacesAre
  <2>1. CASE k = c /\ i = InLane(c)
    BY <2>1
  <2>2. CASE ~(k = c /\ i = InLane(c))
    <3>1. i \in 1..InLane(k)'
      BY <2>2
    <3>. QED BY <3>1, <1>3
  <2>. QED BY <2>1, <2>2
<1>. HIDE DEF old
<1>8. LanePlaces = LanePlaces' \cup {old}
  BY <1>5, <1>6, <1>7
<1>9. IsFiniteSet(LanePlaces')
  BY <1>5, FS_Subset
<1>. QED BY <1>4, <1>8, <1>9, FS_AddElement

LEMMA HeldParts ==
  ASSUME TypeOK, IsFiniteSet(LanePlaces)
  PROVE  /\ Len(hand) \in Nat /\ Len(requeue) \in Nat /\ Len(spillQueue) \in Nat
         /\ Len(moving) \in Nat /\ Cardinality(LanePlaces) \in Nat
         /\ Len(<<>>) = 0
         /\ (hand # <<>> => Len(hand) = 1) /\ (moving # <<>> => Len(moving) = 1)
<1>1. Cardinality(LanePlaces) \in Nat
  BY FS_CardinalityType
<1>2. /\ hand \in Seq(Message) /\ requeue \in Seq(Message) /\ spillQueue \in Seq(Item)
      /\ moving \in Seq(Item) /\ Len(hand) <= 1 /\ Len(moving) <= 1
  BY DEF TypeOK, Slot
<1>3. hand # <<>> => Len(hand) = 1
  BY <1>2, SingletonSeq
<1>4. moving # <<>> => Len(moving) = 1
  BY <1>2, SingletonSeq
<1>. QED BY <1>1, <1>2, <1>3, <1>4

\* Only Receive takes a delivery more, and only while the broker may send one; every
\* other step moves deliveries from place to place or lets go of them.
LEMMA PrefetchStep ==
  ASSUME TypeOK, TypeOK', WithinPrefetch, [Next]_vars
  PROVE  WithinPrefetch'
<1> DEFINE h == Len(hand)    r == Len(requeue)    s == Len(spillQueue)
           m == Len(moving)  p == Cardinality(LanePlaces)
<1>0. /\ IsFiniteSet(LanePlaces) /\ h + r + s + m + p <= Prefetch /\ Prefetch \in Nat
      /\ h \in Nat /\ r \in Nat /\ s \in Nat /\ m \in Nat /\ p \in Nat
  BY HeldParts, ConstantsAssumption DEF WithinPrefetch, Held
<1>a. Held' = h' + r' + s' + m' + p'
  BY DEF Held
<1>b. ASSUME UNCHANGED <<running, lanes>>
      PROVE  LanePlaces' = LanePlaces
  <2>1. \A c \in Channels : InLane(c)' = InLane(c)
    BY <1>b DEF InLane
  <2>. QED BY <2>1, PlacesStay
<1>c. ASSUME LanePlaces' = LanePlaces,
             h' \in Nat, r' \in Nat, s' \in Nat, m' \in Nat,
             h' + r' + s' + m' <= h + r + s + m
      PROVE  WithinPrefetch'
  <2>1. p' = p
    BY <1>c
  <2>. HIDE DEF h, r, s, m, p
  <2>2. PICK a \in Nat, b \in Nat, c \in Nat, d \in Nat :
          a = h' /\ b = r' /\ c = s' /\ d = m'
    BY <1>c, Zenon
  <2>3. a + b + c + d <= h + r + s + m
    BY <1>c, <2>2, Zenon
  <2>4. a + b + c + d + p <= Prefetch
    BY <1>0, <2>3
  <2>5. Held' = a + b + c + d + p
    BY <1>a, <2>1, <2>2, Zenon
  <2>. QED BY <1>0, <1>c, <2>4, <2>5, Zenon DEF WithinPrefetch
<1>d. h' \in Nat /\ r' \in Nat /\ s' \in Nat /\ m' \in Nat
  <2>1. /\ hand' \in Seq(Message) /\ requeue' \in Seq(Message) /\ spillQueue' \in Seq(Item)
        /\ moving' \in Seq(Item)
    BY DEF TypeOK, Slot
  <2>. QED BY <2>1
<1>e. ASSUME UNCHANGED <<running, lanes, hand, requeue, spillQueue, moving>>
      PROVE  WithinPrefetch'
  <2>1. h' = h /\ r' = r /\ s' = s /\ m' = m
    BY <1>e
  <2>2. LanePlaces' = LanePlaces
    BY <1>b, <1>e
  <2>. HIDE DEF h, r, s, m, p
  <2>. QED BY <2>1, <2>2, <1>0, <1>c, <1>d
<1>1. CASE Receive
  <2>1. PICK d \in Message : Dispatch(d)
    <3>1. queue # <<>> => Head(queue) \in Message
      BY RangeOfTail DEF TypeOK
    <3>. QED BY <1>1, <3>1 DEF Receive, TypeOK
  <2>2. /\ hand = <<>> /\ hand' = <<d>> /\ UNCHANGED <<running, lanes, requeue>>
        /\ Held < Prefetch
    BY <1>1, <2>1 DEF Receive, Dispatch, laneVars, TypeOK
  <2>3. s' = s /\ m' = m
    <3>1. CASE HasSpill(d.ch) /\ Stalled(d.ch)
      <4>1. d.ch \in Channels /\ NoSpill \in Spill /\ SetSpill(d.ch, NoSpill)
        BY <2>1, <3>1, SpillValues DEF Dispatch, Message
      <4>. QED BY <4>1, SetSpillOK DEF TypeOK
    <3>2. CASE ~(HasSpill(d.ch) /\ Stalled(d.ch))
      BY <2>1, <3>2 DEF Dispatch, spillVars
    <3>. QED BY <3>1, <3>2
  <2>4. h = 0 /\ h' = 1 /\ r' = r
    BY <2>2
  <2>5. LanePlaces' = LanePlaces /\ p' = p
    BY <1>b, <2>2
  <2>6. h + r + s + m + p < Prefetch
    BY <2>2 DEF Held
  <2>. HIDE DEF h, r, s, m, p
  <2>7. h' + r' + s' + m' + p' <= Prefetch
    BY <2>3, <2>4, <2>5, <2>6, <1>0
  <2>. QED BY <2>5, <2>7, <1>0, <1>a DEF WithinPrefetch
<1>2. CASE Offer
  <2>1. PICK d \in Message, c \in Channels : d = hand[1] /\ c = d.ch /\ hand # <<>>
    BY <1>2, SlotProperties DEF Offer, Message, TypeOK
  <2>2. CASE ~LaneFull(c)
    <3>1. /\ lanes' = [lanes EXCEPT ![c] =
                         [present |-> TRUE, jobs |-> Append(lanes[c].jobs, d)]]
          /\ SetSpill(c, AfterAdmission(c, d)) /\ hand' = <<>>
          /\ UNCHANGED <<running, requeue>>
      BY <1>2, <2>1, <2>2 DEF Offer
    <3>2. s' = s /\ m' = m
      BY <3>1, AfterAdmissionOK, SetSpillOK DEF TypeOK
    <3>3. h = 1 /\ h' = 0 /\ r' = r
      BY <2>1, <3>1, HeldParts, <1>0
    <3>4. lanes'[c].jobs = Append(lanes[c].jobs, d)
          /\ \A k \in Channels \ {c} : lanes'[k] = lanes[k]
      BY <3>1 DEF TypeOK
    <3>5. Len(lanes'[c].jobs) = Len(lanes[c].jobs) + 1
      BY <3>4, LaneSeqs
    <3>6. InLane(c)' = InLane(c) + 1
      <4>1. UNCHANGED running
        BY <3>1
      <4>2. InLane(c)' = Len(running[c]) + (Len(lanes[c].jobs) + 1)
        BY <3>5, <4>1 DEF InLane
      <4>3. InLane(c) = Len(running[c]) + Len(lanes[c].jobs)
        BY DEF InLane
      <4>4. /\ Len(running[c]) + (Len(lanes[c].jobs) + 1)
                 = (Len(running[c]) + Len(lanes[c].jobs)) + 1
        BY InLaneType, Counts, Zenon
      <4>. QED BY <4>2, <4>3, <4>4, Zenon
    <3>7. \A k \in Channels \ {c} : InLane(k)' = InLane(k)
      BY <3>1, <3>4 DEF InLane
    <3>8. IsFiniteSet(LanePlaces') /\ p' = p + 1
      BY <1>0, <3>6, <3>7, PlacesGrow
    <3>. HIDE DEF h, r, s, m, p
    <3>9. h' + r' + s' + m' + p' <= Prefetch
      BY <3>2, <3>3, <3>8, <1>0
    <3>. QED BY <3>8, <3>9, <1>a DEF WithinPrefetch
  <2>3. CASE LaneFull(c)
    BY <1>2, <1>e, <2>1, <2>3 DEF Offer, spillVars
  <2>. QED BY <2>2, <2>3
<1>3. CASE Send
  <2>1. hand # <<>> /\ hand' = <<>> /\ UNCHANGED <<running, lanes, requeue, moving>>
    BY <1>3 DEF Send, laneVars, TypeOK
  <2>2. PICK it : spillQueue' = Append(spillQueue, it)
    BY <1>3 DEF Send
  <2>3. s' = s + 1
    BY <2>2 DEF TypeOK
  <2>4. h = 1 /\ h' = 0 /\ r' = r /\ m' = m
    BY <2>1, <1>0, HeldParts
  <2>5. LanePlaces' = LanePlaces
    BY <1>b, <2>1
  <2>. HIDE DEF h, r, s, m, p
  <2>. QED BY <2>3, <2>4, <2>5, <1>0, <1>c, <1>d
<1>4. ASSUME NEW c \in Channels, DrainPop(c)
      PROVE  WithinPrefetch'
  <2>1. /\ lanes[c].jobs # <<>> /\ lanes' = [lanes EXCEPT ![c].jobs = Tail(@)]
        /\ running' = [running EXCEPT ![c] = Append(@, Head(lanes[c].jobs))]
        /\ UNCHANGED <<hand, requeue, spillQueue, moving>>
    BY <1>4 DEF DrainPop, loopVars, spillVars
  <2>2. /\ lanes'[c].jobs = Tail(lanes[c].jobs)
        /\ running'[c] = Append(running[c], Head(lanes[c].jobs))
        /\ \A k \in Channels \ {c} : lanes'[k] = lanes[k] /\ running'[k] = running[k]
    BY <2>1 DEF TypeOK, Lane
  <2>3. PICK w \in Nat : Len(lanes[c].jobs) = w + 1 /\ Len(lanes'[c].jobs) = w
    <3>1. /\ Len(Tail(lanes[c].jobs)) = Len(lanes[c].jobs) - 1
          /\ Len(lanes[c].jobs) \in Nat \ {0}
      BY <2>1, LaneSeqs
    <3>2. PICK w \in Nat : Len(lanes[c].jobs) = w + 1
      <4>1. \A n \in Nat \ {0} : n - 1 \in Nat /\ n = (n - 1) + 1
        OBVIOUS
      <4>. QED BY <3>1, <4>1, Zenon
    <3>3. \A n \in Nat : (n + 1) - 1 = n
      OBVIOUS
    <3>4. Len(Tail(lanes[c].jobs)) = w
      BY <3>1, <3>2, <3>3, Zenon
    <3>. QED BY <2>2, <3>2, <3>4, Zenon
  <2>4. Len(running'[c]) = Len(running[c]) + 1
    BY <2>2, LaneSeqs
  <2>5. InLane(c)' = InLane(c)
    <3>1. /\ InLane(c)' = (Len(running[c]) + 1) + w
          /\ InLane(c) = Len(running[c]) + (w + 1)
      BY <2>3, <2>4 DEF InLane
    <3>2. /\ (Len(running[c]) + 1) + w = (Len(running[c]) + w) + 1
          /\ Len(running[c]) + (w + 1) = (Len(running[c]) + w) + 1
      BY InLaneType, Counts, Zenon
    <3>. QED BY <3>1, <3>2, Zenon
  <2>6. \A k \in Channels \ {c} : InLane(k)' = InLane(k)
    BY <2>2 DEF InLane
  <2>7. LanePlaces' = LanePlaces
    BY <2>5, <2>6, PlacesStay
  <2>8. h' = h /\ r' = r /\ s' = s /\ m' = m
    BY <2>1
  <2>. HIDE DEF h, r, s, m, p
  <2>. QED BY <2>7, <2>8, <1>0, <1>c, <1>d
<1>5. ASSUME NEW c \in Channels, DrainExit(c)
      PROVE  WithinPrefetch'
  <2>1. /\ lanes[c].jobs = <<>> /\ lanes' = [lanes EXCEPT ![c] = NoLane]
        /\ UNCHANGED <<running, hand, requeue, spillQueue, moving>>
    BY <1>5 DEF DrainExit, loopVars, spillVars
  <2>2. /\ lanes'[c].jobs = lanes[c].jobs
        /\ \A k \in Channels \ {c} : lanes'[k] = lanes[k]
    BY <2>1 DEF TypeOK, NoLane
  <2>3. \A k \in Channels : InLane(k)' = InLane(k)
    BY <2>1, <2>2 DEF InLane
  <2>4. LanePlaces' = LanePlaces
    BY <2>3, PlacesStay
  <2>5. h' = h /\ r' = r /\ s' = s /\ m' = m
    BY <2>1
  <2>. HIDE DEF h, r, s, m, p
  <2>. QED BY <2>4, <2>5, <1>0, <1>c, <1>d
<1>6. ASSUME NEW c \in Channels, NEW i \in DOMAIN running[c], Return(c, i)
      PROVE  /\ IsFiniteSet(LanePlaces') /\ p' \in Nat /\ p = p' + 1
             /\ h' = h /\ s' = s /\ m' = m
  <2>1. /\ running' = [running EXCEPT ![c] = RemoveAt(@, i)]
        /\ UNCHANGED <<lanes, hand, spillQueue, moving>>
    BY <1>6 DEF Return, loopVars, spillVars
  <2>2. /\ running'[c] = RemoveAt(running[c], i)
        /\ \A k \in Channels \ {c} : running'[k] = running[k]
    BY <2>1 DEF TypeOK
  <2>3. PICK w \in Nat : Len(running[c]) = w + 1 /\ Len(running'[c]) = w
    <3>1. /\ Len(RemoveAt(running[c], i)) = Len(running[c]) - 1
          /\ Len(running[c]) \in Nat \ {0}
      BY LaneSeqs, RangeOfRemoveAt
    <3>. QED BY <2>2, <3>1
  <2>5. InLane(c)' \in Nat /\ InLane(c) = InLane(c)' + 1
    <3>1. /\ InLane(c)' = w + Len(lanes[c].jobs)
          /\ InLane(c) = (w + 1) + Len(lanes[c].jobs)
      BY <2>1, <2>3 DEF InLane
    <3>. QED BY <3>1, InLaneType, Counts, Zenon
  <2>6. \A k \in Channels \ {c} : InLane(k)' = InLane(k)
    BY <2>1, <2>2 DEF InLane
  <2>7. IsFiniteSet(LanePlaces') /\ p = p' + 1
    BY <1>0, <2>5, <2>6, PlacesShrink
  <2>8. p' \in Nat
    BY <2>7, FS_CardinalityType
  <2>. QED BY <2>1, <2>7, <2>8
<1>7. ASSUME NEW c \in Channels, Finish(c)
      PROVE  WithinPrefetch'
  <2>1. PICK i \in DOMAIN running[c] : Return(c, i) /\ UNCHANGED requeue
    BY <1>7 DEF Finish
  <2>2. /\ IsFiniteSet(LanePlaces') /\ p' \in Nat /\ p = p' + 1
        /\ h' = h /\ s' = s /\ m' = m /\ r' = r
    BY <2>1, <1>6
  <2>. HIDE DEF h, r, s, m, p
  <2>3. PICK w \in Nat : w = p' /\ p = w + 1
    BY <2>2, Zenon
  <2>4. h + r + s + m + w <= Prefetch
    <3>1. p = w + 1
      BY <2>3
    <3>. QED BY <1>0, <3>1
  <2>5. Held' = h + r + s + m + w
    BY <1>a, <2>2, <2>3, Zenon
  <2>. QED BY <2>2, <2>4, <2>5, Zenon DEF WithinPrefetch
<1>8. ASSUME NEW c \in Channels, Postpone(c)
      PROVE  WithinPrefetch'
  <2>1. PICK i \in DOMAIN running[c] :
          Return(c, i) /\ requeue' = Append(requeue, running[c][i])
    BY <1>8 DEF Postpone
  <2>2. r' = r + 1
    BY <2>1 DEF TypeOK
  <2>3. /\ IsFiniteSet(LanePlaces') /\ p' \in Nat /\ p = p' + 1
        /\ h' = h /\ s' = s /\ m' = m
    BY <2>1, <1>6
  <2>. HIDE DEF h, r, s, m, p
  <2>4. PICK w \in Nat : w = p' /\ p = w + 1
    BY <2>3, Zenon
  <2>5. h + (r + 1) + s + m + w <= Prefetch
    <3>1. p = w + 1
      BY <2>4
    <3>. QED BY <1>0, <3>1
  <2>6. Held' = h + (r + 1) + s + m + w
    BY <1>a, <2>2, <2>3, <2>4, Zenon
  <2>. QED BY <2>3, <2>5, <2>6, Zenon DEF WithinPrefetch
<1>9. CASE TakeItem
  <2>1. /\ moving = <<>> /\ spillQueue # <<>> /\ moving' = <<Head(spillQueue)>>
        /\ spillQueue' = Tail(spillQueue) /\ UNCHANGED <<running, lanes, hand, requeue>>
    BY <1>9 DEF TakeItem, OverflowFrame, laneVars, loopVars
  <2>2. s' = s - 1 /\ m = 0 /\ m' = 1
    BY <2>1 DEF TypeOK
  <2>3. h' = h /\ r' = r /\ LanePlaces' = LanePlaces
    BY <1>b, <2>1
  <2>. HIDE DEF h, r, s, m, p
  <2>. QED BY <2>2, <2>3, <1>0, <1>c, <1>d
<1>10. CASE BeginPublish \/ PublishConfirmed \/ PublishFailed \/ PublishUnconfirmed
  <2>1. PICK x : moving # <<>> /\ moving' = <<x>>
    BY <1>10 DEF BeginPublish, PublishConfirmed, PublishFailed, PublishUnconfirmed, MoveStep
  <2>2. UNCHANGED <<running, lanes, hand, requeue, spillQueue>>
    BY <1>10 DEF BeginPublish, PublishConfirmed, PublishFailed, PublishUnconfirmed,
                 OverflowFrame, laneVars, loopVars
  <2>3. m = 1 /\ m' = 1
    BY <2>1, <1>0, HeldParts
  <2>4. h' = h /\ r' = r /\ s' = s /\ LanePlaces' = LanePlaces
    BY <1>b, <2>2
  <2>. HIDE DEF h, r, s, m, p
  <2>. QED BY <2>3, <2>4, <1>0, <1>c, <1>d
<1>11. CASE AckOriginal \/ HandBack
  <2>1. moving' = <<>> /\ UNCHANGED <<running, lanes, hand, requeue, spillQueue>>
    BY <1>11 DEF AckOriginal, HandBack, OverflowFrame, laneVars, loopVars
  <2>2. m' = 0
    BY <2>1
  <2>3. h' = h /\ r' = r /\ s' = s /\ LanePlaces' = LanePlaces
    BY <1>b, <2>1
  <2>. HIDE DEF h, r, s, m, p
  <2>. QED BY <2>2, <2>3, <1>0, <1>c, <1>d
<1>12. CASE RequeueInOrder
  <2>1. requeue' = <<>> /\ UNCHANGED <<running, lanes, hand, spillQueue, moving>>
    BY <1>12 DEF RequeueInOrder, Advance, loopVars, spillVars
  <2>2. r' = 0
    BY <2>1
  <2>3. h' = h /\ s' = s /\ m' = m /\ LanePlaces' = LanePlaces
    BY <1>b, <2>1
  <2>. HIDE DEF h, r, s, m, p
  <2>. QED BY <2>2, <2>3, <1>0, <1>c, <1>d
<1>13. CASE Crash \/ Restart
  <2>1. FreshConsumer
    BY <1>13 DEF Crash, Restart
  <2>2. h' = 0 /\ r' = 0 /\ s' = 0 /\ m' = 0
    BY <2>1 DEF FreshConsumer
  <2>3. \A c \in Channels : Len(running'[c]) = 0 /\ Len(lanes'[c].jobs) = 0
    BY <2>1 DEF FreshConsumer, NoLane
  <2>4. \A c \in Channels : InLane(c)' = 0
    <3>1. 0 + 0 = 0
      OBVIOUS
    <3>. QED BY <2>3, <3>1 DEF InLane
  <2>5. LanePlaces' = {}
    <3>1. LanePlaces' = UNION {{k} \X (1..InLane(k)') : k \in Channels}
      BY DEF LanePlaces
    <3>2. 1..0 = {}
      OBVIOUS
    <3>. QED BY <3>1, <3>2, <2>4
  <2>6. IsFiniteSet(LanePlaces') /\ p' = 0
    BY <2>5, FS_EmptySet
  <2>. HIDE DEF h, r, s, m, p
  <2>7. h' + r' + s' + m' + p' <= Prefetch
    BY <2>2, <2>6, <1>0
  <2>. QED BY <2>6, <2>7, <1>a DEF WithinPrefetch
<1>14. ASSUME NEW c \in Channels, Publish(c) \/ StallElapses(c)
       PROVE  WithinPrefetch'
  BY <1>e, <1>14 DEF Publish, StallElapses, laneVars, loopVars, spillVars
<1>15. CASE DeliveriesEnd \/ CloseSpill \/ BeginStop
  BY <1>e, <1>15 DEF DeliveriesEnd, CloseSpill, BeginStop, Advance, loopVars, spillVars
<1>16. CASE UNCHANGED vars
  BY <1>e, <1>16 DEF vars, laneVars, loopVars, spillVars
<1>17. Quiescent => UNCHANGED vars
  BY DEF Quiescent
<1>. QED BY <1>1, <1>2, <1>3, <1>4, <1>5, <1>7, <1>8, <1>9, <1>10, <1>11, <1>12, <1>13,
            <1>14, <1>15, <1>16, <1>17
         DEF Next, ConsumerStep, OverflowStep, StopStep

-----------------------------------------------------------------------------
(* The theorems.                                                           *)

IInv == /\ TypeInv /\ Serial /\ StopOrder /\ ItemsOnHold /\ CommandsKept
        /\ SpillExpectsAssigned /\ WithinPrefetch

LEMMA InitEstablishes ==
  ASSUME Init
  PROVE  IInv
<1>. USE ConstantsAssumption DEF Init
<1>a. /\ <<>> \in Slot(Message) /\ <<>> \in Slot(Item) /\ NoSpill \in Spill
  BY SlotProperties, SpillValues
<1>b. /\ <<>> \in Seq(Message) /\ <<>> \in Seq(Item) /\ Len(<<>>) = 0
      /\ ToSet(<<>>) = {}
  BY DEF ToSet
<1>c. NoLane \in Lane
  BY <1>b DEF NoLane, Lane
<1>0. /\ <<>> \in Slot(Message) /\ <<>> \in Slot(Item) /\ <<>> \in Seq(Message)
      /\ <<>> \in Seq(Item) /\ NoLane \in Lane /\ NoSpill \in Spill
      /\ Len(<<>>) = 0 /\ ToSet(<<>>) = {}
  BY <1>a, <1>b, <1>c
<1>1. DOMAIN returned = {} /\ IsABag(returned)
  BY DEF EmptyBag, SetToBag, IsABag
<1>2. TypeOK /\ RestartsBounded
  BY <1>0, <1>1 DEF TypeOK, Phases, LoopSteps, RestartsBounded
<1>3. \A c \in Channels : LaneMessages(c) = {} /\ lanes[c] = NoLane
  BY <1>0 DEF LaneMessages, NoLane
<1>4. LanesKeepTheirChannel /\ Serial
  BY <1>0, <1>3 DEF LanesKeepTheirChannel, Serial, NoLane
<1>5. StopOrder /\ ItemsOnHold /\ CommandsKept /\ SpillExpectsAssigned
  BY <1>0 DEF StopOrder, DownHoldsNothing, ItemsOnHold, CommandsKept,
              SpillExpectsAssigned, HasSpill
<1>6. WithinPrefetch
  <2>1. 1..0 = {} /\ \A c \in Channels : InLane(c) = 0
    BY <1>0 DEF InLane, NoLane
  <2>2. LanePlaces = {}
    BY <2>1 DEF LanePlaces
  <2>3. IsFiniteSet(LanePlaces) /\ Cardinality(LanePlaces) = 0
    BY <2>2, FS_EmptySet
  <2>. QED BY <2>3, <1>0 DEF WithinPrefetch, Held
<1>. QED BY <1>2, <1>4, <1>5, <1>6 DEF IInv, TypeInv

LEMMA NextPreserves ==
  ASSUME IInv, [Next]_vars
  PROVE  IInv'
<1>1. TypeInv' /\ Serial' /\ StopOrder' /\ ItemsOnHold' /\ CommandsKept'
      /\ SpillExpectsAssigned'
  BY TypeStep, LaneStep, StopOrderStep, ItemsOnHoldStep, KeptStep,
     NumbersStep DEF IInv, TypeInv
<1>2. WithinPrefetch'
  BY <1>1, PrefetchStep DEF IInv, TypeInv
<1>. QED BY <1>1, <1>2 DEF IInv

LEMMA Inductive == Spec => []IInv
BY InitEstablishes, NextPreserves, PTL DEF Spec

\* Every variable keeps its type, whatever the channels, the backlog, the prefetch
\* and the number of faults: lanes, the overflow and the broker only ever exchange
\* messages.
THEOREM TypeCorrect == Spec => []TypeOK
<1>1. IInv => TypeOK
  BY DEF IInv, TypeInv
<1>. QED BY <1>1, Inductive, PTL

\* lanes.run and lanes.drain never let two jobs of one channel run at once and never
\* leave a job without a goroutine.
THEOREM LaneExclusion == Spec => []Serial
<1>1. IInv => Serial
  BY DEF IInv
<1>. QED BY <1>1, Inductive, PTL

\* A stop (lanes.wait, overflow.close, requeueInOrder) ends with no delivery left
\* in the consumer.
THEOREM StopsClean == Spec => []DownHoldsNothing
<1>1. IInv => DownHoldsNothing
  BY DEF IInv, StopOrder
<1>. QED BY <1>1, Inductive, PTL

\* A channel with a spill always waits for a number that send has given out.
THEOREM SpillNumbers == Spec => []SpillExpectsAssigned
<1>1. IInv => SpillExpectsAssigned
  BY DEF IInv
<1>. QED BY <1>1, Inductive, PTL

\* moveToTail acks an original only after its copy is confirmed: no interleaving
\* of lanes, overflow, lost confirms, stops, crashes and restarts loses a command.
THEOREM NothingLost == Spec => []NoCommandLost
<1>1. IInv => NoCommandLost
  <2>. SUFFICES ASSUME IInv, NEW c \in Channels, NEW n \in 1..arrived[c],
                       n \notin settled[c]
                PROVE  \E d \in MessagesIn(c) : d.n = n
    BY DEF NoCommandLost
  <2>1. PICK d \in Safe : d.ch = c /\ d.n = n
    BY DEF IInv, CommandsKept
  <2>2. Pending \subseteq ToSet(MessagesOf(moving))
    BY PendingValues DEF IInv, TypeInv
  <2>3. d \in LaneSet => d \in LaneMessages(c)
    BY <2>1 DEF LaneSet, IInv, TypeInv, LanesKeepTheirChannel
  <2>. QED BY <2>1, <2>2, <2>3 DEF Safe, MessagesIn
<1>. QED BY <1>1, Inductive, PTL

\* The consumer goroutine never waits in overflow.send: with a delivery in its hand
\* it holds at most Prefetch - 1 others, fewer than the channel's capacity.
THEOREM SendsGoThrough == Spec => []SendNeverBlocks
<1>1. IInv => SendNeverBlocks
  <2>. SUFFICES ASSUME IInv, loop = "send"
                PROVE  Len(spillQueue) < Prefetch
    BY DEF SendNeverBlocks, OverflowCapacity
  <2>1. TypeOK /\ IsFiniteSet(LanePlaces) /\ Held <= Prefetch
    BY DEF IInv, TypeInv, WithinPrefetch
  <2>2. hand # <<>>
    BY <2>1 DEF TypeOK
  <2>3. /\ Len(hand) = 1 /\ Len(requeue) \in Nat /\ Len(spillQueue) \in Nat
        /\ Len(moving) \in Nat /\ Cardinality(LanePlaces) \in Nat
    BY <2>1, <2>2, HeldParts
  <2>. QED BY <2>1, <2>3, ConstantsAssumption DEF Held
<1>. QED BY <1>1, Inductive, PTL

-----------------------------------------------------------------------------
(* ChannelFifo: while nothing fails, the lanes and the overflow run the     *)
(* commands of each channel one after the other, in the order in which they *)
(* were published.                                                          *)

\* No confirm is lost, no spill stalls, and the process is not stopped.
NoFaults == MaxLostConfirms = 0 /\ MaxStalls = 0 /\ MaxRestarts = 0

Faultless ==
  /\ phase = "running" /\ nonce = 1 /\ returned = EmptyBag /\ requeue = <<>>
  /\ \A c \in Channels : ~spills[c].quiet

\* What the consumer goroutine has in front of it, and what the overflow goroutine
\* will put at the end of that: the items as the copies they will be.
Line == hand \o queue
OnBelt == IF moving # <<>> /\ moving[1].step # "copied" THEN moving ELSE <<>>
Copies(items) == [i \in DOMAIN items |-> CopyOf(items[i])]
Belt == Copies(OnBelt) \o Copies(spillQueue)
Chain == Line \o Belt

\* The commands of a channel that have entered its lane are the first ones, and all
\* those that have a number of the spill have been published.
Started(c)  == Cardinality(started[c])
Admitted(c) == Started(c) + Len(lanes[c].jobs)

LaneInOrder(c) ==
  /\ Started(c) \in Nat /\ started[c] = 1..Started(c)
  /\ \A i \in 1..Len(lanes[c].jobs) : lanes[c].jobs[i].n = Started(c) + i
  /\ running[c] = <<>> => settled[c] = 1..Started(c)
  /\ running[c] # <<>> => /\ Started(c) > 0 /\ running[c][1].n = Started(c)
                          /\ settled[c] = 1..(Started(c) - 1)
  /\ Admitted(c) + spills[c].next <= arrived[c] + spills[c].expected

\* The other ones are in the chain: first, wherever they are, those with a number of
\* the spill s, in the order of their numbers; then the others, all in the line.  Of
\* the channel of d, m commands have entered the lane and a have been published.
Seated(d, inLine, m, s, a) ==
  /\ d.n <= a
  /\ \/ d.nonce = 0 /\ inLine /\ d.n + s.expected > m + s.next
     \/ /\ d.nonce = 1 /\ s # NoSpill /\ s.expected <= d.seq /\ d.seq < s.next
        /\ d.n + s.expected = m + d.seq + 1

Placed(i) ==
  LET d == Chain[i]  c == d.ch IN
  Seated(d, i <= Len(Line), Admitted(c), spills[c], arrived[c])

\* No command is twice in the chain, and the originals of a channel are in order.
Before(d, e) ==
  d.ch = e.ch => /\ d.n # e.n
                 /\ d.nonce = 0 /\ e.nonce = 0 => d.n < e.n

ChainInOrder ==
  /\ \A i \in 1..Len(Chain) : Placed(i)
  /\ \A i, j \in 1..Len(Chain) : i < j => Before(Chain[i], Chain[j])

\* overflow.admits let the delivery through, and nothing has changed since.
OfferDue ==
  loop = "offer" => LET d == hand[1] IN
    ~HasSpill(d.ch) \/ (d.nonce = 1 /\ d.seq <= spills[d.ch].expected)

FifoInv == /\ Faultless /\ OfferDue /\ ChainInOrder
           /\ \A c \in Channels : LaneInOrder(c)

-----------------------------------------------------------------------------
(* What can happen without faults.                                          *)

LEMMA FaultlessNext ==
  ASSUME NoFaults, TypeOK, Faultless, [Next]_vars
  PROVE  \/ Receive \/ Offer \/ Send
         \/ TakeItem \/ BeginPublish \/ PublishConfirmed \/ PublishFailed \/ AckOriginal
         \/ \E c \in Channels : DrainPop(c) \/ DrainExit(c) \/ Finish(c) \/ Publish(c)
         \/ UNCHANGED vars
<1>1. /\ lostConfirms = 0 /\ stalls = 0 /\ phase = "running" /\ nonce = 1
      /\ MaxRestarts = 0 /\ MaxLostConfirms = 0 /\ MaxStalls = 0
  BY DEF NoFaults, TypeOK, Faultless
<1>2. ~PublishUnconfirmed /\ ~HandBack
  BY <1>1 DEF PublishUnconfirmed, HandBack
<1>3. ~StopStep /\ ~BeginStop /\ ~Crash /\ ~Restart
  BY <1>1 DEF StopStep, DeliveriesEnd, CloseSpill, RequeueInOrder, BeginStop, Advance,
              Crash, Restart
<1>4. \A c \in Channels : ~Postpone(c) /\ ~StallElapses(c)
  BY <1>1 DEF Postpone, StallElapses
<1>5. Quiescent => UNCHANGED vars
  BY DEF Quiescent
<1>. QED BY <1>2, <1>3, <1>4, <1>5 DEF Next, ConsumerStep, OverflowStep

\* The consumer goroutine always takes the head of the queue, and no spill is dropped.
LEMMA FaultlessReceive ==
  ASSUME TypeOK, Faultless, Receive
  PROVE  /\ queue # <<>> /\ queue' = Tail(queue) /\ hand = <<>>
         /\ hand' = <<Head(queue)>> /\ loop' = Route(Head(queue).ch, Head(queue))
         /\ Head(queue) \in Message
         /\ UNCHANGED <<spillVars, returned>>
<1>1. DOMAIN returned = {}
  BY DEF Faultless, EmptyBag, SetToBag
<1>2. queue # <<>> /\ queue' = Tail(queue) /\ Dispatch(Head(queue)) /\ UNCHANGED returned
  BY <1>1 DEF Receive
<1>3. Head(queue) \in Message
  BY <1>2, RangeOfTail DEF TypeOK
<1>4. ~Stalled(Head(queue).ch)
  BY <1>3 DEF Stalled, Faultless, Message
<1>5. hand = <<>>
  BY DEF Receive, TypeOK
<1>. QED BY <1>2, <1>3, <1>4, <1>5 DEF Dispatch

LEMMA NotQuiet ==
  ASSUME TypeOK, Faultless, NEW c \in Channels, NEW d
  PROVE  ~AfterAdmission(c, d).quiet
<1>1. spills[c] \in Spill /\ ~spills[c].quiet
  BY DEF TypeOK, Faultless
<1>2. \A s \in Spill : /\ ~[s EXCEPT !.quiet = FALSE].quiet
                       /\ ~[s EXCEPT !.expected = s.expected + 1, !.quiet = FALSE].quiet
  BY DEF Spill
<1>3. ~NoSpill.quiet
  BY DEF NoSpill
<1>. QED BY <1>1, <1>2, <1>3 DEF AfterAdmission

LEMMA FaultlessStep ==
  ASSUME NoFaults, TypeOK, TypeOK', Faultless, [Next]_vars
  PROVE  Faultless'
<1>0. hand \in Slot(Message) /\ (hand = <<>>) = (loop = "receive")
  BY DEF TypeOK
<1>1. CASE UNCHANGED <<phase, nonce, returned, requeue, spills>>
  BY <1>1 DEF Faultless
<1>2. CASE Receive
  BY <1>1, <1>2, FaultlessReceive DEF Receive, laneVars, spillVars
<1>3. CASE Offer
  <2>1. PICK d \in Message, c \in Channels : d = hand[1] /\ c = d.ch
    BY <1>0, <1>3, SlotProperties DEF Offer, Message
  <2>2. UNCHANGED <<phase, nonce, returned, requeue>>
    BY <1>3 DEF Offer, brokerVars
  <2>3. CASE UNCHANGED spills
    BY <1>1, <2>2, <2>3
  <2>4. CASE spills' = [spills EXCEPT ![c] = AfterAdmission(c, d)]
    <3>1. \A k \in Channels : ~spills'[k].quiet
      BY <2>1, <2>4, NotQuiet DEF Faultless, TypeOK
    <3>. QED BY <2>2, <3>1 DEF Faultless
  <2>. QED BY <1>3, <2>1, <2>3, <2>4 DEF Offer, SetSpill, spillVars
<1>4. CASE Send
  <2>1. PICK d \in Message, c \in Channels : d = hand[1] /\ c = d.ch
    BY <1>0, <1>4, SlotProperties DEF Send, Message
  <2>2. UNCHANGED <<phase, nonce, returned, requeue>>
    BY <1>4 DEF Send, brokerVars, laneVars
  <2>3. spills[c] \in Spill /\ ~spills[c].quiet /\ NewSpill \in Spill /\ ~NewSpill.quiet
    BY SpillValues DEF TypeOK, Faultless, NewSpill
  <2>4. \A s \in Spill : [s EXCEPT !.next = s.next + 1].quiet = s.quiet
    BY DEF Spill
  <2>5. PICK s : spills' = [spills EXCEPT ![c] = s] /\ ~s.quiet
    BY <1>4, <2>1, <2>3, <2>4 DEF Send
  <2>6. \A k \in Channels : ~spills'[k].quiet
    BY <2>1, <2>5 DEF Faultless, TypeOK
  <2>. QED BY <2>2, <2>6 DEF Faultless
<1>5. CASE TakeItem \/ BeginPublish \/ PublishConfirmed \/ PublishFailed \/ AckOriginal
  BY <1>1, <1>5 DEF TakeItem, BeginPublish, PublishConfirmed, PublishFailed, AckOriginal,
                    OverflowFrame, brokerVars, laneVars
<1>6. ASSUME NEW c \in Channels, DrainPop(c) \/ DrainExit(c) \/ Finish(c) \/ Publish(c)
      PROVE  Faultless'
  BY <1>1, <1>6 DEF DrainPop, DrainExit, Finish, Return, Publish, brokerVars, laneVars,
                    spillVars
<1>7. CASE UNCHANGED vars
  BY <1>1, <1>7 DEF vars, brokerVars, laneVars, spillVars
<1>. QED BY <1>2, <1>3, <1>4, <1>5, <1>6, <1>7, FaultlessNext

-----------------------------------------------------------------------------
(* What the steps do to the chain.                                          *)

LEMMA CopyValues ==
  ASSUME nonce \in Nat, NEW x \in Item
  PROVE  /\ CopyOf(x) \in Message
         /\ CopyOf(x) = [ch |-> x.msg.ch, n |-> x.msg.n, nonce |-> nonce, seq |-> x.seq]
<1>1. x.msg \in Message /\ x.seq \in Nat
  BY DEF Item
<1> DEFINE y == [ch |-> x.msg.ch, n |-> x.msg.n, nonce |-> nonce, seq |-> x.seq]
<1> DEFINE z == [x.msg EXCEPT !.nonce = nonce, !.seq = x.seq]
<1>2. /\ z \in Message
      /\ z.ch = x.msg.ch /\ z.n = x.msg.n /\ z.nonce = nonce /\ z.seq = x.seq
  BY <1>1 DEF Message
<1>3. y \in Message
  BY <1>1 DEF Message
<1>4. /\ y.ch = x.msg.ch /\ y.n = x.msg.n /\ y.nonce = nonce /\ y.seq = x.seq
  OBVIOUS
<1>. HIDE DEF y, z
<1>5. z = y
  BY <1>2, <1>3, <1>4 DEF Message
<1>. QED BY <1>3, <1>5 DEF CopyOf, y, z

LEMMA CopiesProperties ==
  ASSUME nonce \in Nat, NEW items \in Seq(Item)
  PROVE  /\ Copies(items) \in Seq(Message) /\ Len(Copies(items)) = Len(items)
         /\ \A i \in 1..Len(items) : Copies(items)[i] = CopyOf(items[i])
         /\ ToSet(Copies(items)) = {CopyOf(x) : x \in ToSet(items)}
<1>1. DOMAIN items = 1..Len(items) /\ Len(items) \in Nat
      /\ \A i \in 1..Len(items) : items[i] \in Item
  OBVIOUS
<1>2. Copies(items) = [i \in 1..Len(items) |-> CopyOf(items[i])]
  BY <1>1 DEF Copies
<1>3. \A i \in 1..Len(items) : CopyOf(items[i]) \in Message
  BY <1>1, CopyValues
<1>4. Copies(items) \in [1..Len(items) -> Message]
  BY <1>2, <1>3
<1>5. Copies(items) \in Seq(Message) /\ Len(Copies(items)) = Len(items)
  BY <1>1, <1>4, IsASeq, LenProperties
<1>6. \A i \in 1..Len(items) : Copies(items)[i] = CopyOf(items[i])
  BY <1>2
<1>7. ToSet(Copies(items)) = {CopyOf(items[i]) : i \in 1..Len(items)}
  BY <1>2, <1>6 DEF ToSet
<1>8. ToSet(items) = {items[i] : i \in 1..Len(items)}
  BY <1>1 DEF ToSet
<1>9. {CopyOf(x) : x \in ToSet(items)} = {CopyOf(items[i]) : i \in 1..Len(items)}
  BY <1>8
<1>. QED BY <1>5, <1>6, <1>7, <1>9

LEMMA CopiesOfOne ==
  ASSUME nonce \in Nat, NEW x \in Item
  PROVE  Copies(<<x>>) = <<CopyOf(x)>>
<1>1. <<x>> \in Seq(Item) /\ Len(<<x>>) = 1 /\ <<x>>[1] = x /\ 1 \in 1..Len(<<x>>)
  OBVIOUS
<1>2. Copies(<<x>>) \in Seq(Message) /\ Len(Copies(<<x>>)) = 1
  BY <1>1, CopiesProperties
<1>3. Copies(<<x>>)[1] = CopyOf(<<x>>[1])
  BY <1>1, CopiesProperties
<1>4. CopyOf(x) \in Message
  BY CopyValues
<1> DEFINE e == CopyOf(x)
<1>5. <<e>> \in Seq(Message) /\ Len(<<e>>) = 1 /\ <<e>>[1] = e
  BY <1>4
<1>6. Copies(<<x>>)[1] = e
  BY <1>1, <1>3
<1>. HIDE DEF e
<1>7. \A i \in 1..1 : i = 1
  OBVIOUS
<1>8. Copies(<<x>>) = <<e>>
  BY <1>2, <1>5, <1>6, <1>7, SeqEqual
<1>. QED BY <1>8 DEF e

\* A copy says nothing of the step of its item, nor of whose spill it is.
LEMMA SameCopies ==
  ASSUME nonce \in Nat, nonce' = nonce, NEW s \in Seq(Item), NEW t \in Seq(Item),
         Len(s) = Len(t),
         \A i \in 1..Len(s) : s[i].msg = t[i].msg /\ s[i].seq = t[i].seq
  PROVE  Copies(s) = Copies(t)
<1>1. /\ Copies(s) \in Seq(Message) /\ Copies(t) \in Seq(Message)
      /\ Len(Copies(s)) = Len(Copies(t)) /\ Len(Copies(s)) = Len(s)
  BY CopiesProperties
<1>2. ASSUME NEW i \in 1..Len(s) PROVE Copies(s)[i] = Copies(t)[i]
  <2>1. s[i] \in Item /\ t[i] \in Item /\ s[i].msg = t[i].msg /\ s[i].seq = t[i].seq
    OBVIOUS
  <2>2. CopyOf(s[i]) = CopyOf(t[i])
    BY <2>1, CopyValues
  <2>3. Copies(s)[i] = CopyOf(s[i]) /\ Copies(t)[i] = CopyOf(t[i])
    BY CopiesProperties
  <2>. QED BY <2>2, <2>3
<1>. QED BY <1>1, <1>2, SeqEqual

LEMMA DisownKeepsCopies ==
  ASSUME nonce \in Nat, nonce' = nonce, NEW items \in Seq(Item), NEW c
  PROVE  Copies(Disown(items, c)) = Copies(items)
<1>1. DOMAIN items = 1..Len(items) /\ \A i \in 1..Len(items) : items[i] \in Item
  OBVIOUS
<1>2. \A i \in 1..Len(items) : Disown(items, c)[i] =
        IF items[i].msg.ch = c THEN [items[i] EXCEPT !.own = FALSE] ELSE items[i]
  BY <1>1 DEF Disown
<1>3. \A x \in Item : [x EXCEPT !.own = FALSE].seq = x.seq
  BY DEF Item
<1>4. \A i \in 1..Len(items) : Disown(items, c)[i].seq = items[i].seq
  BY <1>1, <1>2, <1>3
<1>. QED BY <1>4, DisownProperties, SameCopies

LEMMA ChainParts ==
  ASSUME TypeOK
  PROVE  /\ nonce \in Nat /\ hand \in Seq(Message) /\ queue \in Seq(Message)
         /\ OnBelt \in Seq(Item) /\ spillQueue \in Seq(Item) /\ moving \in Seq(Item)
         /\ Copies(OnBelt) \in Seq(Message) /\ Copies(spillQueue) \in Seq(Message)
         /\ Line \in Seq(Message) /\ Belt \in Seq(Message) /\ Chain \in Seq(Message)
         /\ Len(Line) \in Nat /\ Len(Belt) \in Nat /\ Len(Chain) = Len(Line) + Len(Belt)
         /\ Len(Line) = Len(hand) + Len(queue) /\ Len(hand) \in Nat /\ Len(queue) \in Nat
<1>1. /\ nonce \in Nat /\ hand \in Seq(Message) /\ queue \in Seq(Message)
      /\ spillQueue \in Seq(Item) /\ moving \in Seq(Item)
  BY ConstantsAssumption DEF TypeOK, Slot
<1>2. OnBelt \in Seq(Item)
  BY <1>1, EmptySeq DEF OnBelt
<1>3. Copies(OnBelt) \in Seq(Message) /\ Copies(spillQueue) \in Seq(Message)
  BY <1>1, <1>2, CopiesProperties
<1>4. /\ Line \in Seq(Message) /\ Len(Line) = Len(hand) + Len(queue)
      /\ Len(hand) \in Nat /\ Len(queue) \in Nat
  BY <1>1, ConcatProperties, LenProperties DEF Line
<1>5. Belt \in Seq(Message)
  BY <1>3, ConcatProperties DEF Belt
<1>6. /\ Chain \in Seq(Message) /\ Len(Chain) = Len(Line) + Len(Belt)
      /\ Len(Line) \in Nat /\ Len(Belt) \in Nat
  BY <1>4, <1>5, ConcatProperties, LenProperties DEF Chain
<1>. QED BY <1>1, <1>2, <1>3, <1>4, <1>5, <1>6

LEMMA ChainItems ==
  ASSUME TypeOK
  PROVE  \A i \in 1..Len(Chain) :
           /\ Chain[i] \in Message
           /\ Chain[i] = IF i <= Len(Line) THEN Line[i] ELSE Belt[i - Len(Line)]
<1>1. /\ Line \in Seq(Message) /\ Belt \in Seq(Message) /\ Chain \in Seq(Message)
      /\ Len(Chain) = Len(Line) + Len(Belt)
  BY ChainParts
<1>2. \A i \in 1..Len(Chain) : Chain[i] \in Message
  BY <1>1, ElementOfSeq
<1>3. \A i \in 1..Len(Chain) : Chain[i] = IF i <= Len(Line) THEN Line[i] ELSE Belt[i - Len(Line)]
  BY <1>1, ConcatProperties DEF Chain
<1>. QED BY <1>2, <1>3

LEMMA BeltStays ==
  ASSUME UNCHANGED <<nonce, moving, spillQueue>>
  PROVE  Belt' = Belt
BY DEF Belt, OnBelt, Copies, CopyOf

\* Dropping a spill changes whose the items are, not what they will be copied to.
LEMMA SetSpillKeepsBelt ==
  ASSUME TypeOK, nonce' = nonce, NEW c \in Channels, NEW s \in Spill, SetSpill(c, s)
  PROVE  Belt' = Belt
<1>0. /\ nonce \in Nat /\ moving \in Seq(Item) /\ spillQueue \in Seq(Item)
      /\ Len(moving) \in Nat
  BY ChainParts, LenProperties
<1>1. CASE s = NoSpill
  <2>1. spillQueue' = Disown(spillQueue, c) /\ moving' = Disown(moving, c)
    BY <1>1 DEF SetSpill
  <2>2. Copies(spillQueue)' = Copies(spillQueue)
    <3>1. Copies(Disown(spillQueue, c)) = Copies(spillQueue)
      BY <1>0, DisownKeepsCopies
    <3>2. Copies(spillQueue)' = Copies(Disown(spillQueue, c))
      BY <2>1 DEF Copies, CopyOf
    <3>. QED BY <3>1, <3>2
  <2>3. Copies(OnBelt)' = Copies(OnBelt)
    <3>1. Copies(Disown(moving, c)) = Copies(moving)
      BY <1>0, DisownKeepsCopies
    <3>2. Copies(moving)' = Copies(Disown(moving, c))
      BY <2>1 DEF Copies, CopyOf
    <3>3. CASE moving = <<>>
      <4>1. moving' = <<>>
        BY <1>0, <2>1, <3>3, DisownProperties, EmptySeq
      <4>. QED BY <3>3, <4>1 DEF OnBelt, Copies
    <3>4. CASE moving # <<>>
      <4>1. Len(moving) \in Nat \ {0}
        BY <1>0, <3>4, EmptySeq
      <4>2. moving'[1].step = moving[1].step /\ moving' # <<>>
        BY <1>0, <2>1, <4>1, DisownProperties, EmptySeq
      <4>3. CASE moving[1].step = "copied"
        BY <4>2, <4>3 DEF OnBelt, Copies
      <4>4. CASE moving[1].step # "copied"
        <5>1. OnBelt = moving /\ OnBelt' = moving'
          BY <3>4, <4>2, <4>4 DEF OnBelt
        <5>2. Copies(OnBelt) = Copies(moving)
          BY <5>1
        <5>3. Copies(OnBelt)' = Copies(moving)'
          BY <5>1 DEF Copies, CopyOf
        <5>. QED BY <3>1, <3>2, <5>2, <5>3
      <4>. QED BY <4>3, <4>4
    <3>. QED BY <3>3, <3>4
  <2>. QED BY <2>2, <2>3 DEF Belt
<1>2. CASE s # NoSpill
  BY <1>2, BeltStays DEF SetSpill
<1>. QED BY <1>1, <1>2

\* The consumer goroutine takes the head of the queue: the line is the same.
LEMMA ReceiveKeepsChain ==
  ASSUME TypeOK, Faultless, Receive
  PROVE  Chain' = Chain /\ Len(Line') = Len(Line)
<1>1. /\ queue # <<>> /\ queue' = Tail(queue) /\ hand = <<>> /\ hand' = <<Head(queue)>>
      /\ UNCHANGED <<nonce, moving, spillQueue>>
  BY FaultlessReceive DEF Receive, spillVars
<1>2. queue \in Seq(Message)
  BY ChainParts
<1>3. Line' = <<Head(queue)>> \o Tail(queue) /\ Line = <<>> \o queue
  BY <1>1 DEF Line
<1>4. Line = queue
  BY <1>2, <1>3, ConcatEmptySeq
<1>5. <<Head(queue)>> \o Tail(queue) = queue
  <2>1. /\ Head(queue) \in Message /\ Tail(queue) \in Seq(Message) /\ Head(queue) = queue[1]
        /\ Len(Tail(queue)) = Len(queue) - 1
        /\ \A i \in 1..Len(Tail(queue)) : Tail(queue)[i] = queue[i + 1]
        /\ Len(queue) \in Nat \ {0}
    BY <1>1, <1>2, HeadTailProperties, EmptySeq
  <2>2. <<Head(queue)>> \in Seq(Message) /\ Len(<<Head(queue)>>) = 1
        /\ <<Head(queue)>>[1] = Head(queue)
    BY <2>1
  <2> DEFINE u == <<Head(queue)>> \o Tail(queue)
  <2>3. /\ u \in Seq(Message) /\ Len(u) = 1 + Len(Tail(queue))
        /\ \A i \in 1..(1 + Len(Tail(queue))) :
             u[i] = IF i <= 1 THEN <<Head(queue)>>[i] ELSE Tail(queue)[i - 1]
    BY <2>1, <2>2, ConcatProperties
  <2>. HIDE DEF u
  <2>4. Len(u) = Len(queue)
    BY <2>1, <2>3
  <2>5. ASSUME NEW i \in 1..Len(u) PROVE u[i] = queue[i]
    <3>1. CASE i = 1
      BY <2>1, <2>2, <2>3, <2>4, <3>1
    <3>2. CASE i # 1
      <4>1. ~(i <= 1) /\ i - 1 \in 1..Len(Tail(queue)) /\ (i - 1) + 1 = i
            /\ i \in 1..(1 + Len(Tail(queue)))
        BY <2>1, <2>4, <3>2
      <4>. QED BY <2>1, <2>3, <4>1
    <3>. QED BY <3>1, <3>2
  <2>. QED BY <1>2, <2>3, <2>4, <2>5, SeqEqual DEF u
<1>6. Line' = Line
  BY <1>3, <1>4, <1>5
<1>. QED BY <1>1, <1>6, BeltStays DEF Chain

\* The overflow goroutine takes the next item: the belt is the same.
LEMMA TakeItemKeepsChain ==
  ASSUME TypeOK, ItemsOnHold, TakeItem
  PROVE  Chain' = Chain /\ Len(Line') = Len(Line)
<1>1. /\ moving = <<>> /\ spillQueue # <<>> /\ moving' = <<Head(spillQueue)>>
      /\ spillQueue' = Tail(spillQueue) /\ UNCHANGED <<hand, queue, nonce>>
  BY DEF TakeItem, OverflowFrame, brokerVars, loopVars
<1>2. /\ spillQueue \in Seq(Item) /\ nonce \in Nat
      /\ Head(spillQueue) \in Item /\ Tail(spillQueue) \in Seq(Item)
      /\ Head(spillQueue) = spillQueue[1] /\ Len(spillQueue) \in Nat \ {0}
      /\ Len(Tail(spillQueue)) = Len(spillQueue) - 1
      /\ \A i \in 1..Len(Tail(spillQueue)) : Tail(spillQueue)[i] = spillQueue[i + 1]
  BY <1>1, ChainParts, HeadTailProperties, EmptySeq
<1> DEFINE x == Head(spillQueue)
           t == Tail(spillQueue)
           e == CopyOf(x)
<1>3. x.step = "hold"
  BY <1>2 DEF ItemsOnHold
<1>4. OnBelt = <<>> /\ OnBelt' = <<x>>
  BY <1>1, <1>3 DEF OnBelt
<1>5. Copies(<<>>) = <<>>
  BY DEF Copies
<1>6. Copies(<<x>>) = <<e>> /\ e \in Message
  BY <1>2, CopyValues, CopiesOfOne
<1>7. Belt = Copies(spillQueue)
  <2>1. Belt = <<>> \o Copies(spillQueue)
    BY <1>4, <1>5 DEF Belt
  <2>2. Copies(spillQueue) \in Seq(Message)
    BY ChainParts
  <2>. QED BY <2>1, <2>2, ConcatEmptySeq
<1>8. Belt' = <<e>> \o Copies(t)
  <2>1. Belt' = Copies(OnBelt)' \o Copies(spillQueue)'
    BY DEF Belt
  <2>2. Copies(spillQueue)' = Copies(t)
    BY <1>1 DEF Copies, CopyOf
  <2>3. Copies(OnBelt)' = Copies(<<x>>)
    BY <1>1, <1>4 DEF Copies, CopyOf
  <2>. QED BY <2>1, <2>2, <2>3, <1>6
<1>9. <<e>> \o Copies(t) = Copies(spillQueue)
  <2>1. /\ Copies(t) \in Seq(Message) /\ Len(Copies(t)) = Len(t)
        /\ \A i \in 1..Len(t) : Copies(t)[i] = CopyOf(t[i])
    BY <1>2, CopiesProperties
  <2>2. /\ Copies(spillQueue) \in Seq(Message) /\ Len(Copies(spillQueue)) = Len(spillQueue)
        /\ \A i \in 1..Len(spillQueue) : Copies(spillQueue)[i] = CopyOf(spillQueue[i])
    BY <1>2, CopiesProperties
  <2>3. <<e>> \in Seq(Message) /\ Len(<<e>>) = 1 /\ <<e>>[1] = e
    BY <1>6
  <2> DEFINE u == <<e>> \o Copies(t)
  <2>4. /\ u \in Seq(Message) /\ Len(u) = 1 + Len(Copies(t))
        /\ \A i \in 1..(1 + Len(Copies(t))) :
             u[i] = IF i <= 1 THEN <<e>>[i] ELSE Copies(t)[i - 1]
    BY <2>1, <2>3, ConcatProperties
  <2>. HIDE DEF u
  <2>5. Len(u) = Len(Copies(spillQueue))
    <3>1. Len(t) = Len(spillQueue) - 1 /\ Len(spillQueue) \in Nat
      BY <1>2
    <3>. HIDE DEF t, x, e
    <3>. QED BY <3>1, <2>1, <2>2, <2>4
  <2>6. ASSUME NEW i \in 1..Len(u) PROVE u[i] = Copies(spillQueue)[i]
    <3>1. CASE i = 1
      <4>1. u[1] = e /\ Copies(spillQueue)[1] = CopyOf(spillQueue[1])
        BY <1>2, <2>1, <2>2, <2>3, <2>4
      <4>. QED BY <1>2, <3>1, <4>1
    <3>2. CASE i # 1
      <4>0. Len(t) = Len(spillQueue) - 1 /\ Len(spillQueue) \in Nat /\ Len(Copies(t)) = Len(t)
            /\ i \in 1..Len(spillQueue)
        BY <1>2, <2>1, <2>2, <2>5
      <4>. HIDE DEF t, x, e
      <4>1. ~(i <= 1) /\ i - 1 \in 1..Len(t) /\ (i - 1) + 1 = i
            /\ i \in 1..(1 + Len(Copies(t))) /\ i \in 1..Len(spillQueue)
        BY <4>0, <3>2
      <4>2. u[i] = CopyOf(t[i - 1])
        BY <2>1, <2>4, <4>1
      <4>3. t[i - 1] = spillQueue[i]
        BY <1>2, <4>1 DEF t
      <4>. QED BY <2>2, <4>1, <4>2, <4>3
    <3>. QED BY <3>1, <3>2
  <2>. QED BY <2>2, <2>4, <2>5, <2>6, SeqEqual DEF u
<1>10. Line' = Line
  BY <1>1 DEF Line
<1>11. Belt' = Belt
  BY <1>7, <1>8, <1>9
<1>. QED BY <1>10, <1>11 DEF Chain

\* A confirmed copy passes from the head of the belt to the end of the line.
LEMMA ConfirmKeepsChain ==
  ASSUME TypeOK, PublishConfirmed
  PROVE  Chain' = Chain /\ Len(Line') = Len(Line) + 1
<1> DEFINE x == moving[1]
           e == CopyOf(x)
<1>1. /\ moving # <<>> /\ x.step = "publishing" /\ moving' = <<[x EXCEPT !.step = "copied"]>>
      /\ queue' = Append(queue, e) /\ UNCHANGED <<hand, nonce, spillQueue>>
  BY DEF PublishConfirmed, MoveStep, OverflowFrame, loopVars
<1>2. /\ hand \in Seq(Message) /\ queue \in Seq(Message) /\ moving \in Slot(Item)
      /\ Copies(spillQueue) \in Seq(Message) /\ nonce \in Nat /\ Line \in Seq(Message)
      /\ Len(Line) \in Nat
  BY ChainParts DEF TypeOK
<1>3. x \in Item /\ moving = <<x>>
  BY <1>1, <1>2, SlotProperties
<1>4. e \in Message
  BY <1>2, <1>3, CopyValues
<1>5. [x EXCEPT !.step = "copied"].step = "copied"
  BY <1>3 DEF Item
<1>6. OnBelt = <<x>> /\ OnBelt' = <<>>
  <2>1. OnBelt = moving
    BY <1>1 DEF OnBelt
  <2>2. moving'[1].step = "copied"
    BY <1>1, <1>5
  <2>. QED BY <1>3, <2>1, <2>2 DEF OnBelt
<1>7. Copies(<<>>) = <<>>
  BY DEF Copies
<1>8. Copies(<<x>>) = <<e>>
  BY <1>2, <1>3, CopiesOfOne
<1>9. Belt = <<e>> \o Copies(spillQueue)
  BY <1>6, <1>8 DEF Belt
<1>10. Belt' = Copies(spillQueue)
  <2>1. Belt' = Copies(OnBelt)' \o Copies(spillQueue)'
    BY DEF Belt
  <2>2. Copies(spillQueue)' = Copies(spillQueue)
    BY <1>1 DEF Copies, CopyOf
  <2>3. Copies(OnBelt)' = <<>>
    BY <1>6 DEF Copies
  <2>. QED BY <2>1, <2>2, <2>3, <1>2, ConcatEmptySeq
<1>. HIDE DEF e, x
<1>11. Line' = Line \o <<e>>
  <2>1. Append(queue, e) = queue \o <<e>>
    BY <1>2, <1>4, AppendIsConcat
  <2>2. Line' = hand \o (queue \o <<e>>)
    BY <1>1, <2>1 DEF Line
  <2>3. <<e>> \in Seq(Message)
    BY <1>4
  <2>. QED BY <1>2, <2>2, <2>3, ConcatAssociative DEF Line
<1>12. Len(Line') = Len(Line) + 1
  <2>1. <<e>> \in Seq(Message) /\ Len(<<e>>) = 1
    BY <1>4
  <2>. QED BY <1>2, <1>11, <2>1, ConcatProperties
<1>13. Chain' = (Line \o <<e>>) \o Copies(spillQueue)
  BY <1>10, <1>11 DEF Chain
<1>14. Chain = Line \o (<<e>> \o Copies(spillQueue))
  BY <1>9 DEF Chain
<1>15. <<e>> \in Seq(Message)
  BY <1>4
<1>. QED BY <1>2, <1>12, <1>13, <1>14, <1>15, ConcatAssociative

LEMMA MoveStepKeepsChain ==
  ASSUME TypeOK, BeginPublish \/ PublishFailed \/ AckOriginal
  PROVE  Chain' = Chain /\ Len(Line') = Len(Line)
<1>1. UNCHANGED <<hand, queue, nonce, spillQueue>>
  BY DEF BeginPublish, PublishFailed, AckOriginal, OverflowFrame, loopVars, brokerVars
<1>2. moving \in Slot(Item) /\ nonce \in Nat
  BY ChainParts DEF TypeOK
<1>3. Copies(OnBelt)' = Copies(OnBelt)
  <2>1. CASE AckOriginal
    BY <2>1 DEF AckOriginal, OnBelt, Copies
  <2>2. CASE BeginPublish \/ PublishFailed
    <3> DEFINE x == moving[1]
    <3>1. PICK to \in {"publishing", "hold"} :
            moving # <<>> /\ x.step # "copied" /\ moving' = <<[x EXCEPT !.step = to]>>
      BY <2>2 DEF BeginPublish, PublishFailed, MoveStep
    <3>2. x \in Item /\ moving = <<x>>
      BY <1>2, <3>1, SlotProperties
    <3> DEFINE y == [x EXCEPT !.step = to]
    <3>3. y \in Item /\ y.step = to /\ y.msg = x.msg /\ y.seq = x.seq
      BY <3>2 DEF Item, ItemSteps
    <3>4. moving' = <<y>>
      BY <3>1
    <3>. HIDE DEF y
    <3>5. OnBelt = <<x>> /\ OnBelt' = <<y>>
      BY <3>1, <3>2, <3>3, <3>4 DEF OnBelt
    <3>. HIDE DEF x
    <3>6. <<x>> \in Seq(Item) /\ <<y>> \in Seq(Item)
          /\ Len(<<x>>) = Len(<<y>>)
          /\ \A i \in 1..Len(<<y>>) : <<y>>[i].msg = <<x>>[i].msg /\ <<y>>[i].seq = <<x>>[i].seq
      BY <3>2, <3>3
    <3>7. Copies(<<y>>) = Copies(<<x>>)
      BY <1>1, <1>2, <3>6, SameCopies
    <3>8. Copies(OnBelt)' = Copies(<<y>>)
      BY <1>1, <3>5 DEF Copies, CopyOf
    <3>. QED BY <3>5, <3>7, <3>8
  <2>. QED BY <2>1, <2>2
<1>4. Copies(spillQueue)' = Copies(spillQueue)
  BY <1>1 DEF Copies, CopyOf
<1>5. Belt' = Belt
  BY <1>3, <1>4 DEF Belt
<1>6. Line' = Line
  BY <1>1 DEF Line
<1>. QED BY <1>5, <1>6 DEF Chain

\* A new command joins the line behind every other one of it.
LEMMA PublishInserts ==
  ASSUME TypeOK, NEW c \in Channels, Publish(c)
  PROVE  /\ Command(c, arrived[c] + 1) \in Message
         /\ Len(Chain') = Len(Chain) + 1 /\ Len(Line') = Len(Line) + 1
         /\ Chain'[Len(Line) + 1] = Command(c, arrived[c] + 1)
         /\ \A i \in 1..Len(Line) : Chain'[i] = Chain[i]
         /\ \A i \in (Len(Line) + 1)..Len(Chain) : Chain'[i + 1] = Chain[i]
<1> DEFINE e == Command(c, arrived[c] + 1)
<1>1. queue' = Append(queue, e) /\ UNCHANGED <<hand, nonce, moving, spillQueue>>
  BY DEF Publish, loopVars, spillVars
<1>2. e \in Message
  <2>1. arrived[c] \in Nat
    BY DEF TypeOK
  <2>2. arrived[c] + 1 \in Nat \ {0}
    BY <2>1
  <2>. QED BY <2>2 DEF Message, Command
<1>3. /\ hand \in Seq(Message) /\ queue \in Seq(Message)
      /\ Line \in Seq(Message) /\ Belt \in Seq(Message)
      /\ Len(Line) \in Nat /\ Len(Belt) \in Nat /\ Len(Chain) = Len(Line) + Len(Belt)
  BY ChainParts
<1>. HIDE DEF e
<1>4. <<e>> \in Seq(Message) /\ Len(<<e>>) = 1 /\ <<e>>[1] = e
  BY <1>2
<1>5. Line' = Line \o <<e>>
  <2>1. Append(queue, e) = queue \o <<e>>
    BY <1>2, <1>3, AppendIsConcat
  <2>2. Line' = hand \o (queue \o <<e>>)
    BY <1>1, <2>1 DEF Line
  <2>. QED BY <1>3, <1>4, <2>2, ConcatAssociative DEF Line
<1> DEFINE l == Line \o <<e>>
           u == l \o Belt
<1>6. /\ l \in Seq(Message) /\ Len(l) = Len(Line) + 1
      /\ \A i \in 1..(Len(Line) + 1) : l[i] = IF i <= Len(Line) THEN Line[i] ELSE <<e>>[i - Len(Line)]
  BY <1>3, <1>4, ConcatProperties
<1>7. Chain' = u
  BY <1>1, <1>5, BeltStays DEF Chain
<1>. HIDE DEF l
<1>8. /\ Len(u) = Len(l) + Len(Belt)
      /\ \A i \in 1..(Len(l) + Len(Belt)) : u[i] = IF i <= Len(l) THEN l[i] ELSE Belt[i - Len(l)]
  BY <1>3, <1>6, ConcatProperties
<1>. HIDE DEF u
<1>9. \A i \in 1..Len(Chain) : Chain[i] = IF i <= Len(Line) THEN Line[i] ELSE Belt[i - Len(Line)]
  BY ChainItems
<1>10. Len(u) = Len(Chain) + 1
  BY <1>3, <1>6, <1>8
<1>11. u[Len(Line) + 1] = e
  <2>1. Len(Line) + 1 \in 1..(Len(l) + Len(Belt)) /\ Len(Line) + 1 <= Len(l)
        /\ ~(Len(Line) + 1 <= Len(Line)) /\ (Len(Line) + 1) - Len(Line) = 1
        /\ Len(Line) + 1 \in 1..(Len(Line) + 1)
    BY <1>3, <1>6
  <2>2. u[Len(Line) + 1] = l[Len(Line) + 1]
    BY <1>8, <2>1
  <2>3. l[Len(Line) + 1] = <<e>>[1]
    BY <1>6, <2>1
  <2>. QED BY <1>4, <2>2, <2>3
<1>12. ASSUME NEW i \in 1..Len(Line) PROVE u[i] = Chain[i]
  <2>1. /\ i \in 1..(Len(l) + Len(Belt)) /\ i <= Len(l) /\ i \in 1..(Len(Line) + 1)
        /\ i <= Len(Line) /\ i \in 1..Len(Chain)
    BY <1>3, <1>6
  <2>2. u[i] = l[i] /\ l[i] = Line[i]
    BY <1>6, <1>8, <2>1
  <2>. QED BY <1>9, <2>1, <2>2
<1>13. ASSUME NEW i \in (Len(Line) + 1)..Len(Chain) PROVE u[i + 1] = Chain[i]
  <2>1. /\ i + 1 \in 1..(Len(l) + Len(Belt)) /\ ~(i + 1 <= Len(l))
        /\ ~(i <= Len(Line)) /\ i \in 1..Len(Chain) /\ (i + 1) - Len(l) = i - Len(Line)
    BY <1>3, <1>6
  <2>2. u[i + 1] = Belt[i - Len(Line)]
    BY <1>8, <2>1
  <2>3. Chain[i] = Belt[i - Len(Line)]
    BY <1>9, <2>1
  <2>. QED BY <2>2, <2>3
<1>14. Len(Line') = Len(Line) + 1
  BY <1>5, <1>6 DEF l
<1>. QED BY <1>2, <1>7, <1>10, <1>11, <1>12, <1>13, <1>14 DEF e

\* Behind the delivery in the consumer goroutine's hand.
Rest == queue \o Belt

LEMMA HeadOfChain ==
  ASSUME TypeOK, hand # <<>>
  PROVE  /\ hand[1] \in Message /\ Chain[1] = hand[1] /\ 1 \in 1..Len(Chain)
         /\ Rest \in Seq(Message) /\ Len(Chain) = Len(Rest) + 1 /\ Len(Rest) \in Nat
         /\ \A i \in 1..Len(Rest) : Rest[i] = Chain[i + 1]
         /\ Len(Line) = Len(queue) + 1
<1> DEFINE h == hand[1]
<1>1. hand \in Slot(Message)
  BY DEF TypeOK
<1>2. h \in Message /\ hand = <<h>>
  BY <1>1, SlotProperties
<1>3. queue \in Seq(Message) /\ Belt \in Seq(Message) /\ Len(queue) \in Nat
  BY ChainParts
<1>. HIDE DEF h
<1>4. <<h>> \in Seq(Message) /\ Len(<<h>>) = 1 /\ <<h>>[1] = h
  BY <1>2
<1>5. Chain = <<h>> \o Rest
  <2>1. Chain = (<<h>> \o queue) \o Belt
    BY <1>2 DEF Chain, Line
  <2>. QED BY <1>3, <1>4, <2>1, ConcatAssociative DEF Rest
<1>6. Rest \in Seq(Message) /\ Len(Rest) \in Nat
  BY <1>3, ConcatProperties, LenProperties DEF Rest
<1>7. /\ Len(Chain) = 1 + Len(Rest)
      /\ \A i \in 1..(1 + Len(Rest)) : Chain[i] = IF i <= 1 THEN <<h>>[i] ELSE Rest[i - 1]
  BY <1>4, <1>5, <1>6, ConcatProperties
<1>8. 1 \in 1..(1 + Len(Rest)) /\ 1 \in 1..Len(Chain)
  BY <1>6, <1>7
<1>9. Chain[1] = h
  BY <1>4, <1>7, <1>8
<1>10. ASSUME NEW i \in 1..Len(Rest) PROVE Rest[i] = Chain[i + 1]
  <2>1. i + 1 \in 1..(1 + Len(Rest)) /\ ~(i + 1 <= 1) /\ (i + 1) - 1 = i
    BY <1>6
  <2>. QED BY <1>7, <2>1
<1>11. Len(Line) = Len(queue) + 1
  <2>1. Line = <<h>> \o queue
    BY <1>2 DEF Line
  <2>2. Len(Line) = 1 + Len(queue)
    BY <1>3, <1>4, <2>1, ConcatProperties
  <2>. QED BY <1>3, <2>2
<1>12. Len(Chain) = Len(Rest) + 1
  BY <1>6, <1>7
<1>. QED BY <1>2, <1>6, <1>8, <1>9, <1>10, <1>11, <1>12 DEF h

\* A delivery that enters its lane leaves the chain.
LEMMA AdmitTakesHead ==
  ASSUME TypeOK, Offer, hand' = <<>>
  PROVE  Chain' = Rest /\ Len(Line') + 1 = Len(Line)
<1>1. /\ hand # <<>> /\ UNCHANGED <<queue, nonce>>
  BY DEF Offer, TypeOK, brokerVars
<1>2. hand[1].ch \in Channels
  BY <1>1, HeadOfChain DEF Message
<1>3. Belt' = Belt
  <2>1. CASE SetSpill(hand[1].ch, AfterAdmission(hand[1].ch, hand[1]))
    <3>1. AfterAdmission(hand[1].ch, hand[1]) \in Spill
      BY <1>2, AfterAdmissionOK DEF TypeOK
    <3>. QED BY <1>1, <1>2, <2>1, <3>1, SetSpillKeepsBelt
  <2>2. CASE UNCHANGED spillVars
    BY <1>1, <2>2, BeltStays DEF spillVars
  <2>. QED BY <2>1, <2>2 DEF Offer
<1>4. queue \in Seq(Message) /\ Len(queue) \in Nat
  BY ChainParts
<1>5. Line' = queue
  <2>1. Line' = <<>> \o queue
    BY <1>1 DEF Line
  <2>. QED BY <1>4, <2>1, ConcatEmptySeq
<1>6. Chain' = Rest
  BY <1>3, <1>5 DEF Chain, Rest
<1>7. Len(Line) = Len(queue) + 1
  BY <1>1, HeadOfChain
<1>. QED BY <1>5, <1>6, <1>7

\* The item that send makes of delivery d when the next free number is given.
Numbers(d) == ~HasSpill(d.ch) \/ ~Copied(d)
NumberOf(d) == IF Numbers(d) THEN (IF HasSpill(d.ch) THEN spills[d.ch].next ELSE 1) ELSE d.seq
SentCopy(d) == [ch |-> d.ch, n |-> d.n, nonce |-> nonce, seq |-> NumberOf(d)]

\* A delivery that goes to the overflow becomes, numbered, the last of the chain.
LEMMA SendTurnsChain ==
  ASSUME TypeOK, Send
  PROVE  /\ hand # <<>> /\ SentCopy(hand[1]) \in Message
         /\ Chain' = Append(Rest, SentCopy(hand[1])) /\ Len(Line') + 1 = Len(Line)
<1> DEFINE d == hand[1]
           q == NumberOf(d)
           it == [msg |-> d, seq |-> q, own |-> TRUE, step |-> "hold"]
           e == SentCopy(d)
<1>1. /\ hand # <<>> /\ hand' = <<>> /\ UNCHANGED <<queue, nonce, moving>>
      /\ spillQueue' = Append(spillQueue, it)
  <2>1. hand # <<>> /\ hand' = <<>> /\ UNCHANGED <<queue, nonce, moving>>
    BY DEF Send, TypeOK, brokerVars
  <2>2. spillQueue' = Append(spillQueue, it)
    BY DEF Send, NumberOf, Numbers, NewSpill
  <2>. QED BY <2>1, <2>2
<1>2. d \in Message
  BY <1>1, HeadOfChain
<1>3. q \in Nat
  <2>1. d.seq \in Nat /\ d.ch \in Channels
    BY <1>2 DEF Message
  <2>2. spills[d.ch].next \in Nat
    BY <2>1, SpillValues DEF TypeOK
  <2>. QED BY <2>1, <2>2 DEF NumberOf
<1>. HIDE DEF q
<1>4. it \in Item /\ it.msg = d /\ it.seq = q
  BY <1>2, <1>3 DEF Item, ItemSteps
<1>5. /\ nonce \in Nat /\ queue \in Seq(Message) /\ spillQueue \in Seq(Item)
      /\ Copies(OnBelt) \in Seq(Message) /\ Copies(spillQueue) \in Seq(Message)
      /\ Belt \in Seq(Message) /\ Len(queue) \in Nat
  BY ChainParts
<1>6. CopyOf(it) = e /\ e \in Message
  <2>. HIDE DEF it
  <2>1. CopyOf(it) \in Message
        /\ CopyOf(it) = [ch |-> it.msg.ch, n |-> it.msg.n, nonce |-> nonce, seq |-> it.seq]
    BY <1>4, <1>5, CopyValues
  <2>2. CopyOf(it) = e
    BY <1>4, <2>1 DEF SentCopy, q
  <2>. QED BY <2>1, <2>2
<1>. HIDE DEF it, d, e
<1>7. Copies(spillQueue)' = Copies(spillQueue) \o <<e>>
  <2> DEFINE s == Append(spillQueue, it)
  <2>1. /\ s \in Seq(Item) /\ Len(s) = Len(spillQueue) + 1 /\ s[Len(spillQueue) + 1] = it
        /\ \A i \in 1..Len(spillQueue) : s[i] = spillQueue[i]
    BY <1>4, <1>5, AppendProperties
  <2>2. Copies(spillQueue)' = Copies(s)
    BY <1>1 DEF Copies, CopyOf
  <2>. HIDE DEF s
  <2>3. /\ Copies(s) \in Seq(Message) /\ Len(Copies(s)) = Len(s)
        /\ \A i \in 1..Len(s) : Copies(s)[i] = CopyOf(s[i])
    BY <1>5, <2>1, CopiesProperties
  <2>4. /\ Len(Copies(spillQueue)) = Len(spillQueue) /\ Len(spillQueue) \in Nat
        /\ \A i \in 1..Len(spillQueue) : Copies(spillQueue)[i] = CopyOf(spillQueue[i])
    BY <1>5, CopiesProperties, LenProperties
  <2> DEFINE u == Append(Copies(spillQueue), e)
  <2>5. /\ u \in Seq(Message) /\ Len(u) = Len(Copies(spillQueue)) + 1
        /\ u[Len(Copies(spillQueue)) + 1] = e
        /\ \A i \in 1..Len(Copies(spillQueue)) : u[i] = Copies(spillQueue)[i]
    BY <1>5, <1>6, AppendProperties
  <2>. HIDE DEF u
  <2>6. ASSUME NEW i \in 1..Len(s) PROVE Copies(s)[i] = u[i]
    <3>1. CASE i = Len(spillQueue) + 1
      BY <1>6, <2>1, <2>3, <2>4, <2>5, <3>1
    <3>2. CASE i \in 1..Len(spillQueue)
      BY <2>1, <2>3, <2>4, <2>5, <3>2
    <3>. QED BY <2>1, <2>4, <3>1, <3>2
  <2>7. Copies(s) = u
    BY <2>1, <2>3, <2>4, <2>5, <2>6, SeqEqual
  <2>8. u = Copies(spillQueue) \o <<e>>
    BY <1>5, <1>6, AppendIsConcat DEF u
  <2>. QED BY <2>2, <2>7, <2>8
<1>8. <<e>> \in Seq(Message)
  BY <1>6
<1>9. Belt' = Belt \o <<e>>
  <2>1. Copies(OnBelt)' = Copies(OnBelt)
    BY <1>1 DEF Copies, CopyOf, OnBelt
  <2>2. Belt' = Copies(OnBelt) \o (Copies(spillQueue) \o <<e>>)
    BY <1>7, <2>1 DEF Belt
  <2>. QED BY <1>5, <1>8, <2>2, ConcatAssociative DEF Belt
<1>10. Line' = queue
  <2>1. Line' = <<>> \o queue
    BY <1>1 DEF Line
  <2>. QED BY <1>5, <2>1, ConcatEmptySeq
<1>11. Chain' = Rest \o <<e>>
  <2>1. Chain' = queue \o (Belt \o <<e>>)
    BY <1>9, <1>10 DEF Chain
  <2>. QED BY <1>5, <1>8, <2>1, ConcatAssociative DEF Rest
<1>12. Chain' = Append(Rest, e)
  <2>1. Rest \in Seq(Message)
    BY <1>1, HeadOfChain
  <2>. QED BY <1>6, <1>11, <2>1, AppendIsConcat
<1>13. Len(Line') + 1 = Len(Line)
  BY <1>1, <1>5, <1>10, HeadOfChain
<1>. QED BY <1>1, <1>6, <1>12, <1>13 DEF d, e

\* The elements of the chain.
LEMMA ChainElements ==
  ASSUME TypeOK
  PROVE  /\ ToSet(Chain) = UNION {ToSet(hand), ToSet(queue), ToSet(Copies(OnBelt)),
                                  ToSet(Copies(spillQueue))}
         /\ ToSet(Chain) = {Chain[i] : i \in 1..Len(Chain)}
<1>1. /\ hand \in Seq(Message) /\ queue \in Seq(Message) /\ Line \in Seq(Message)
      /\ Copies(OnBelt) \in Seq(Message) /\ Copies(spillQueue) \in Seq(Message)
      /\ Belt \in Seq(Message) /\ Chain \in Seq(Message)
  BY ChainParts
<1>2. ToSet(Line) = ToSet(hand) \cup ToSet(queue)
  BY <1>1, RangeOfConcat DEF Line
<1>3. ToSet(Belt) = ToSet(Copies(OnBelt)) \cup ToSet(Copies(spillQueue))
  BY <1>1, RangeOfConcat DEF Belt
<1>4. ToSet(Chain) = ToSet(Line) \cup ToSet(Belt)
  BY <1>1, RangeOfConcat DEF Chain
<1>5. ToSet(Chain) = {Chain[i] : i \in 1..Len(Chain)}
  BY <1>1, LenProperties DEF ToSet
<1>. QED BY <1>2, <1>3, <1>4, <1>5

LEMMA LaneValues ==
  ASSUME TypeOK, NEW c \in Channels, LaneInOrder(c)
  PROVE  /\ Started(c) \in Nat /\ Len(lanes[c].jobs) \in Nat /\ Admitted(c) \in Nat
         /\ Started(c) <= Admitted(c) /\ Admitted(c) = Started(c) + Len(lanes[c].jobs)
<1>1. Len(lanes[c].jobs) \in Nat
  BY InLaneType
<1>2. PICK k \in Nat : k = Started(c)
  BY DEF LaneInOrder
<1>3. PICK l \in Nat : l = Len(lanes[c].jobs)
  BY <1>1
<1>4. Admitted(c) = k + l
  BY <1>2, <1>3 DEF Admitted
<1>5. k + l \in Nat /\ k <= k + l
  OBVIOUS
<1>. QED BY <1>2, <1>3, <1>4, <1>5, Zenon

\* While nothing fails, a command that has not entered its lane is in the chain.
LEMMA WaitingInChain ==
  ASSUME TypeInv, Faultless, CommandsKept, Serial, NEW c \in Channels, LaneInOrder(c),
         NEW n \in Nat, n > Admitted(c), n <= arrived[c]
  PROVE  \E i \in 1..Len(Chain) : Chain[i].ch = c /\ Chain[i].n = n
<1>0. TypeOK /\ LanesKeepTheirChannel
  BY DEF TypeInv
<1>1. /\ Started(c) \in Nat /\ Len(lanes[c].jobs) \in Nat /\ Admitted(c) \in Nat
      /\ Started(c) <= Admitted(c)
  BY <1>0, LaneValues
<1>2. n \notin settled[c]
  <2>1. settled[c] \subseteq 1..Started(c)
    BY <1>1 DEF LaneInOrder
  <2>. QED BY <1>1, <2>1
<1>3. PICK d \in Safe : d.ch = c /\ d.n = n
  <2>1. arrived[c] \in Nat /\ n \in 1..arrived[c]
    BY <1>0, <1>1 DEF TypeOK
  <2>. QED BY <1>2, <2>1 DEF CommandsKept
<1>4. d \notin LaneSet
  <2>. SUFFICES ASSUME NEW k \in Channels, d \in LaneMessages(k)
                PROVE  FALSE
    BY DEF LaneSet
  <2>1. k = c
    BY <1>0, <1>3 DEF LanesKeepTheirChannel
  <2>2. lanes[c].jobs \in Seq(Message) /\ running[c] \in Seq(Message)
    BY <1>0, LaneSeqs
  <2>3. CASE d \in ToSet(lanes[c].jobs)
    <3>1. PICK i \in 1..Len(lanes[c].jobs) : d = lanes[c].jobs[i]
      BY <2>2, <2>3 DEF ToSet
    <3>2. n = Started(c) + i
      BY <1>3, <3>1 DEF LaneInOrder
    <3>3. Admitted(c) = Started(c) + Len(lanes[c].jobs)
      BY DEF Admitted
    <3>4. \A a, l \in Nat : \A k1 \in 1..l : ~(a + k1 > a + l)
      OBVIOUS
    <3>. QED BY <1>1, <3>2, <3>3, <3>4
  <2>4. CASE d \in ToSet(running[c])
    <3>1. PICK i \in 1..Len(running[c]) : d = running[c][i]
      BY <2>2, <2>4 DEF ToSet
    <3>2. Len(running[c]) <= 1
      <4>1. fetching[c] \in Nat /\ Len(running[c]) \in Nat
        BY <1>0, <2>2 DEF TypeOK
      <4>2. fetching[c] + Len(running[c]) <= 1
        BY DEF Serial
      <4>. QED BY <4>1, <4>2
    <3>3. i = 1 /\ running[c] # <<>>
      BY <2>2, <3>2
    <3>4. n = Started(c)
      BY <1>3, <3>1, <3>3 DEF LaneInOrder
    <3>. QED BY <1>1, <3>4
  <2>. QED BY <2>1, <2>3, <2>4 DEF LaneMessages
<1>5. d \notin DOMAIN returned /\ d \notin ToSet(requeue)
  BY DEF Faultless, EmptyBag, SetToBag, ToSet
<1>6. \E e \in ToSet(Chain) : e.ch = c /\ e.n = n
  <2>0. /\ spillQueue \in Seq(Item) /\ moving \in Seq(Item) /\ OnBelt \in Seq(Item)
        /\ nonce \in Nat
    BY <1>0, ChainParts
  <2>1. CASE d \in ToSet(hand) \cup ToSet(queue)
    BY <1>0, <1>3, <2>1, ChainElements
  <2>2. CASE d \in ToSet(MessagesOf(spillQueue))
    <3>1. PICK x \in ToSet(spillQueue) : x \in Item /\ d = x.msg
      BY <2>0, <2>2, MessagesOfProperties
    <3>2. CopyOf(x) \in ToSet(Chain)
      <4>1. CopyOf(x) \in ToSet(Copies(spillQueue))
        BY <2>0, <3>1, CopiesProperties
      <4>. QED BY <1>0, <4>1, ChainElements
    <3>3. CopyOf(x).ch = c /\ CopyOf(x).n = n
      BY <1>3, <2>0, <3>1, CopyValues
    <3>. QED BY <3>2, <3>3
  <2>3. CASE d \in Pending
    <3>1. moving # <<>> /\ OnBelt = moving /\ d = moving[1].msg
      BY <2>3 DEF Pending, OnBelt
    <3>2. moving[1] \in Item /\ moving[1] \in ToSet(moving)
      <4>1. Len(moving) \in Nat \ {0} /\ DOMAIN moving = 1..Len(moving)
        BY <2>0, <3>1, EmptySeq, LenProperties
      <4>2. 1 \in 1..Len(moving)
        BY <4>1
      <4>. QED BY <2>0, <4>1, <4>2, ElementOfSeq DEF ToSet
    <3>3. CopyOf(moving[1]) \in ToSet(Chain)
      <4>1. CopyOf(moving[1]) \in ToSet(Copies(OnBelt))
        BY <2>0, <3>1, <3>2, CopiesProperties
      <4>. QED BY <1>0, <4>1, ChainElements
    <3>4. CopyOf(moving[1]).ch = c /\ CopyOf(moving[1]).n = n
      BY <1>3, <2>0, <3>1, <3>2, CopyValues
    <3>. QED BY <3>3, <3>4
  <2>. QED BY <1>3, <1>4, <1>5, <2>1, <2>2, <2>3 DEF Safe
<1>. QED BY <1>0, <1>6, ChainElements

\* The first original of a channel in the line is its first command without a number.
LEMMA LeastOriginal ==
  ASSUME TypeInv, Faultless, CommandsKept, Serial, SpillExpectsAssigned,
         ChainInOrder, hand # <<>>,
         LaneInOrder(hand[1].ch), hand[1].nonce = 0
  PROVE  LET c == hand[1].ch IN
         hand[1].n + spills[c].expected = Admitted(c) + spills[c].next + 1
<1> DEFINE d == hand[1]
           c == d.ch
           m == Admitted(c)
           e == spills[c].expected
           x == spills[c].next
<1>0. TypeOK
  BY DEF TypeInv
<1>1. d \in Message /\ Chain[1] = d /\ 1 \in 1..Len(Chain)
  BY <1>0, HeadOfChain
<1>2. c \in Channels /\ d.n \in Nat
  BY <1>1 DEF Message
<1>3. e \in Nat /\ x \in Nat /\ arrived[c] \in Nat /\ (HasSpill(c) \/ x = e)
  BY <1>0, <1>2 DEF TypeOK, Spill, HasSpill, NoSpill
<1>4. m \in Nat
  BY <1>0, <1>2, LaneValues
<1>5. d.n <= arrived[c] /\ d.n + e > m + x
  BY <1>1 DEF ChainInOrder, Placed, Seated
<1>6. e <= x
  BY <1>2, <1>3 DEF SpillExpectsAssigned
<1>. HIDE DEF m, e, x, c, d
<1>7. PICK k \in Nat : k + e = m + x + 1 /\ k > m /\ k <= d.n
  <2>1. (m + x + 1) - e \in Nat /\ ((m + x + 1) - e) + e = m + x + 1
        /\ (m + x + 1) - e > m /\ (m + x + 1) - e <= d.n
    BY <1>2, <1>3, <1>4, <1>5, <1>6
  <2>. QED BY <2>1, Zenon
<1>8. k <= arrived[c]
  BY <1>2, <1>3, <1>5, <1>7
<1>9. PICK i \in 1..Len(Chain) : Chain[i].ch = c /\ Chain[i].n = k
  BY <1>2, <1>7, <1>8, WaitingInChain DEF m, c, d
<1>10. Chain[i].nonce = 0
  <2>1. Placed(i)
    BY DEF ChainInOrder
  <2>2. Chain[i].nonce = 0 \/ (Chain[i].seq < x /\ k + e = m + Chain[i].seq + 1)
    BY <1>9, <2>1 DEF Placed, Seated, m, e, x
  <2>3. Chain[i].seq \in Nat
    BY <1>0, ChainItems DEF Message
  <2>4. \A q \in Nat : q < x => m + q + 1 # m + x + 1
    BY <1>3, <1>4
  <2>. QED BY <1>7, <2>2, <2>3, <2>4
<1>11. i = 1
  <2>. SUFFICES ASSUME i # 1 PROVE FALSE
    OBVIOUS
  <2>1. 1 < i
    BY <1>1
  <2>2. Before(Chain[1], Chain[i])
    BY <1>1, <2>1 DEF ChainInOrder
  <2>3. Chain[1].ch = c /\ Chain[1].nonce = 0 /\ Chain[1].n = d.n
    BY <1>1 DEF c, d
  <2>4. d.n < k
    BY <1>9, <1>10, <2>2, <2>3 DEF Before
  <2>. QED BY <1>2, <1>7, <2>4
<1>12. d.n = k
  BY <1>1, <1>9, <1>11
<1>. QED BY <1>7, <1>12 DEF m, e, x, c, d

-----------------------------------------------------------------------------
(* The order of the chain.                                                  *)

\* Once the first command of the channel, d, has entered its lane.
LEMMA AdmitSeats ==
  ASSUME NEW d \in Message, NEW t \in Message, NEW m \in Nat, NEW a \in Nat,
         NEW s \in Spill, NEW s2 \in Spill, NEW in, NEW in2, in => in2,
         d.n = m + 1, t.n # d.n, Seated(t, in, m, s, a),
         \/ s = NoSpill /\ s2 = NoSpill
         \/ s # NoSpill /\ s.expected + 1 = s.next /\ s2 = NoSpill
         \/ s # NoSpill /\ s2.expected = s.expected + 1 /\ s2.next = s.next
  PROVE  Seated(t, in2, m + 1, s2, a)
<1>1. /\ t.n \in Nat /\ t.seq \in Nat /\ s.expected \in Nat /\ s.next \in Nat
      /\ s2.expected \in Nat /\ s2.next \in Nat
  BY DEF Message, Spill
<1>2. NoSpill.expected = 0 /\ NoSpill.next = 0
  BY DEF NoSpill
<1>3. t.n <= a /\ t.n # m + 1
  BY DEF Seated
<1>4. CASE t.nonce = 0 /\ in /\ t.n + s.expected > m + s.next
  <2>1. t.n + s2.expected > (m + 1) + s2.next
    BY <1>1, <1>2, <1>3, <1>4
  <2>. QED BY <1>3, <1>4, <2>1 DEF Seated
<1>5. CASE /\ t.nonce = 1 /\ s # NoSpill /\ s.expected <= t.seq /\ t.seq < s.next
           /\ t.n + s.expected = m + t.seq + 1
  <2>1. t.seq # s.expected
    BY <1>1, <1>3, <1>5
  <2>2. s2.expected = s.expected + 1 /\ s2.next = s.next
    BY <1>1, <1>5, <2>1
  <2>3. s2 # NoSpill
    BY <1>1, <1>2, <2>2
  <2>4. /\ s2.expected <= t.seq /\ t.seq < s2.next
        /\ t.n + s2.expected = (m + 1) + t.seq + 1
    BY <1>1, <1>5, <2>1, <2>2
  <2>. QED BY <1>3, <1>5, <2>3, <2>4 DEF Seated
<1>. QED BY <1>4, <1>5 DEF Seated

\* Once d, the first command without a number, has got the next number.
LEMMA NumberSeats ==
  ASSUME NEW d \in Message, NEW t \in Message, NEW m \in Nat, NEW a \in Nat,
         NEW s \in Spill, NEW s2 \in Spill, NEW in, NEW in2, in => in2,
         d.n + s.expected = m + s.next + 1, t.n # d.n, Seated(t, in, m, s, a),
         \/ s = NoSpill /\ s2.expected = 1 /\ s2.next = 2
         \/ s # NoSpill /\ s2.expected = s.expected /\ s2.next = s.next + 1
  PROVE  Seated(t, in2, m, s2, a)
<1>1. /\ t.n \in Nat /\ t.seq \in Nat /\ s.expected \in Nat /\ s.next \in Nat
      /\ s2.expected \in Nat /\ s2.next \in Nat /\ d.n \in Nat
  BY DEF Message, Spill
<1>2. NoSpill.expected = 0 /\ NoSpill.next = 0
  BY DEF NoSpill
<1>3. t.n <= a
  BY DEF Seated
<1>4. CASE t.nonce = 0 /\ in /\ t.n + s.expected > m + s.next
  <2>1. t.n + s2.expected > m + s2.next
    BY <1>1, <1>2, <1>4
  <2>. QED BY <1>3, <1>4, <2>1 DEF Seated
<1>5. CASE /\ t.nonce = 1 /\ s # NoSpill /\ s.expected <= t.seq /\ t.seq < s.next
           /\ t.n + s.expected = m + t.seq + 1
  <2>1. s2.expected = s.expected /\ s2.next = s.next + 1
    BY <1>5
  <2>2. s2 # NoSpill
    BY <1>1, <1>2, <2>1
  <2>3. /\ s2.expected <= t.seq /\ t.seq < s2.next
        /\ t.n + s2.expected = m + t.seq + 1
    BY <1>1, <1>5, <2>1
  <2>. QED BY <1>3, <1>5, <2>2, <2>3 DEF Seated
<1>. QED BY <1>4, <1>5 DEF Seated

LEMMA OrderStays ==
  ASSUME TypeOK, TypeOK', ChainInOrder, Chain' = Chain,
         Len(Line') = Len(Line) \/ Len(Line') = Len(Line) + 1,
         \A c \in Channels : Admitted(c)' = Admitted(c), UNCHANGED <<spills, arrived>>
  PROVE  ChainInOrder'
<1>1. Len(Line) \in Nat
  BY ChainParts
<1>2. ASSUME NEW i \in 1..Len(Chain) PROVE Placed(i)'
  <2>1. PICK d \in Message, c \in Channels : d = Chain[i] /\ c = d.ch
    BY ChainItems DEF Message
  <2>2. Seated(d, i <= Len(Line), Admitted(c), spills[c], arrived[c])
    BY <2>1 DEF ChainInOrder, Placed
  <2>3. i <= Len(Line) => i <= Len(Line')
    BY <1>1
  <2>4. Seated(d, i <= Len(Line'), Admitted(c), spills[c], arrived[c])
    BY <2>2, <2>3 DEF Seated
  <2>5. Chain'[i] = d /\ Admitted(c)' = Admitted(c)
    BY <2>1
  <2>. QED BY <2>1, <2>4, <2>5 DEF Placed, Seated
<1>3. ASSUME NEW i \in 1..Len(Chain), NEW j \in 1..Len(Chain), i < j
      PROVE  Before(Chain[i], Chain[j])'
  BY <1>3 DEF ChainInOrder, Before
<1>. QED BY <1>2, <1>3 DEF ChainInOrder

LEMMA SeatedLater ==
  ASSUME NEW t \in Message, NEW m, NEW s, NEW a \in Nat, NEW a2 \in Nat, a <= a2,
         NEW in, NEW in2, in => in2, Seated(t, in, m, s, a)
  PROVE  Seated(t, in2, m, s, a2)
<1>1. t.n \in Nat /\ t.n <= a
  BY DEF Message, Seated
<1>2. t.n <= a2
  BY <1>1
<1>. QED BY <1>2 DEF Seated

\* A command published now is after the originals of its channel, and before its copies.
LEMMA PublishKeepsOrder ==
  ASSUME TypeOK, ChainInOrder, NEW c \in Channels, LaneInOrder(c), Publish(c)
  PROVE  ChainInOrder'
<1> DEFINE L == Len(Line)
           K == Len(Chain)
           e == Command(c, arrived[c] + 1)
           Old(i) == IF i <= L THEN i ELSE i - 1
<1>1. /\ e \in Message /\ Len(Chain') = K + 1 /\ Len(Line') = L + 1 /\ Chain'[L + 1] = e
      /\ \A i \in 1..L : Chain'[i] = Chain[i]
      /\ \A i \in (L + 1)..K : Chain'[i + 1] = Chain[i]
  BY PublishInserts
<1>2. /\ L \in Nat /\ K \in Nat /\ L <= K
      /\ \A i \in 1..K : Chain[i] \in Message
  <2>1. L \in Nat /\ Len(Belt) \in Nat /\ K = L + Len(Belt)
    BY ChainParts
  <2>. QED BY <2>1, ChainItems
<1>3. /\ e.ch = c /\ e.n = arrived[c] + 1 /\ e.nonce = 0 /\ arrived[c] \in Nat
      /\ arrived' = [arrived EXCEPT ![c] = @ + 1] /\ UNCHANGED <<lanes, started, spills>>
  BY DEF Command, Publish, TypeOK, laneVars, histVars, spillVars
<1>4. \A k \in Channels : arrived[k] \in Nat /\ arrived'[k] \in Nat /\ arrived[k] <= arrived'[k]
  BY <1>3 DEF TypeOK
<1>5. \A k \in Channels : Admitted(k)' = Admitted(k)
  BY <1>3 DEF Admitted, Started
<1>. HIDE DEF L, K, e
<1>6. ASSUME NEW i \in 1..K PROVE Placed(i)
  BY DEF ChainInOrder, K
<1>7. ASSUME NEW i \in 1..(K + 1), i # L + 1
      PROVE  Old(i) \in 1..K /\ Chain'[i] = Chain[Old(i)] /\ (Old(i) <= L => i <= L + 1)
  <2>1. CASE i <= L
    BY <1>1, <1>2, <2>1
  <2>2. CASE i > L + 1
    <3>1. i - 1 \in (L + 1)..K /\ (i - 1) + 1 = i /\ Old(i) = i - 1
      BY <1>2, <2>2
    <3>. QED BY <1>1, <1>2, <3>1
  <2>. QED BY <1>2, <1>7, <2>1, <2>2
<1>8. ASSUME NEW i \in 1..K
      PROVE  /\ Chain[i].n \in Nat
             /\ Chain[i].ch = c => Chain[i].n <= arrived[c] /\ Chain[i].n < arrived[c] + 1
             /\ i > L => Chain[i].nonce = 1
  <2>1. Chain[i] \in Message
    BY <1>2
  <2>2. Chain[i].n \in Nat
    BY <2>1 DEF Message
  <2>3. Chain[i].ch = c => Chain[i].n <= arrived[c]
    BY <1>6 DEF Placed, Seated
  <2>4. i > L => Chain[i].nonce = 1
    <3>1. i > L => ~(i <= L)
      BY <1>2
    <3>. QED BY <1>6, <3>1 DEF Placed, Seated, L
  <2>. QED BY <1>3, <2>2, <2>3, <2>4
<1>9. ASSUME NEW i \in 1..(K + 1) PROVE Placed(i)'
  <2>1. CASE i = L + 1
    <3>1. i <= Len(Line')
      BY <1>1, <1>2, <2>1
    <3>2. spills[c].expected \in Nat /\ spills[c].next \in Nat
      BY DEF TypeOK, Spill
    <3>3. Admitted(c) \in Nat /\ Admitted(c) + spills[c].next <= arrived[c] + spills[c].expected
      BY LaneValues DEF LaneInOrder
    <3>4. e.n + spills[c].expected > Admitted(c) + spills[c].next
      BY <1>3, <3>2, <3>3
    <3>5. Chain'[i] = e /\ e.n <= arrived'[c]
      BY <1>1, <1>3, <2>1 DEF TypeOK
    <3>. QED BY <1>3, <1>5, <3>1, <3>4, <3>5 DEF Placed, Seated
  <2>2. CASE i # L + 1
    <3>1. PICK o \in 1..K : o = Old(i) /\ Chain'[i] = Chain[o] /\ (o <= L => i <= L + 1)
      BY <1>7, <2>2
    <3>2. PICK d \in Message, k \in Channels : d = Chain[o] /\ k = d.ch
      BY <1>2 DEF Message
    <3>3. Seated(d, o <= L, Admitted(k), spills[k], arrived[k])
      BY <1>6, <3>2 DEF Placed, L
    <3>4. Seated(d, i <= Len(Line'), Admitted(k), spills[k], arrived'[k])
      <4>1. o <= L => i <= Len(Line')
        BY <1>1, <3>1
      <4>. QED BY <1>4, <3>3, <4>1, SeatedLater
    <3>5. Chain'[i] = d /\ Admitted(k)' = Admitted(k) /\ spills'[k] = spills[k]
      BY <1>3, <1>5, <3>1, <3>2
    <3>. QED BY <3>2, <3>4, <3>5 DEF Placed, Seated
  <2>. QED BY <2>1, <2>2
<1>10. ASSUME NEW i \in 1..(K + 1), NEW j \in 1..(K + 1), i < j
       PROVE  Before(Chain[i], Chain[j])'
  <2>1. CASE i = L + 1
    <3>1. PICK o \in 1..K : o = Old(j) /\ Chain'[j] = Chain[o] /\ o > L
      <4>1. j # L + 1 /\ Old(j) = j - 1 /\ j - 1 > L
        BY <1>2, <1>10, <2>1
      <4>. QED BY <1>7, <4>1
    <3>2. Chain[o].nonce = 1 /\ Chain[o].n \in Nat
          /\ (Chain[o].ch = c => Chain[o].n < arrived[c] + 1)
      BY <1>8, <3>1
    <3>. QED BY <1>1, <1>3, <2>1, <3>1, <3>2 DEF Before
  <2>2. CASE j = L + 1
    <3>1. PICK o \in 1..K : Chain'[i] = Chain[o]
      <4>1. i # L + 1
        BY <1>2, <1>10, <2>2
      <4>. QED BY <1>7, <4>1
    <3>2. Chain[o].n \in Nat /\ (Chain[o].ch = c => Chain[o].n < arrived[c] + 1)
      BY <1>8
    <3>. QED BY <1>1, <1>3, <2>2, <3>1, <3>2 DEF Before
  <2>3. CASE i # L + 1 /\ j # L + 1
    <3>1. PICK o \in 1..K, p \in 1..K : /\ o = Old(i) /\ Chain'[i] = Chain[o]
                                        /\ p = Old(j) /\ Chain'[j] = Chain[p]
      BY <1>7, <2>3
    <3>2. o < p
      BY <1>2, <1>10, <2>3, <3>1
    <3>3. Before(Chain[o], Chain[p])
      BY <3>2 DEF ChainInOrder, K
    <3>. QED BY <3>1, <3>3 DEF Before
  <2>. QED BY <2>1, <2>2, <2>3
<1>. QED BY <1>1, <1>9, <1>10 DEF ChainInOrder

\* The delivery offered to its lane is the next command of its channel.
LEMMA NextOffered ==
  ASSUME TypeInv, Faultless, CommandsKept, Serial, SpillExpectsAssigned,
         ChainInOrder, OfferDue, loop = "offer", LaneInOrder(hand[1].ch)
  PROVE  LET d == hand[1]  c == d.ch IN
         /\ d.n = Admitted(c) + 1
         /\ HasSpill(c) => Copied(d) /\ d.seq = spills[c].expected
<1> DEFINE d == hand[1]
           c == d.ch
           m == Admitted(c)
<1>0. TypeOK /\ hand # <<>>
  BY DEF TypeInv, TypeOK
<1>1. d \in Message /\ Chain[1] = d /\ 1 \in 1..Len(Chain)
  BY <1>0, HeadOfChain
<1>2. c \in Channels /\ d.n \in Nat /\ d.seq \in Nat
  BY <1>1 DEF Message
<1>3. spills[c].expected \in Nat /\ spills[c].next \in Nat
  BY <1>0, <1>2 DEF TypeOK, Spill
<1>4. m \in Nat
  BY <1>0, <1>2, LaneValues
<1>5. \/ d.nonce = 0
      \/ /\ HasSpill(c) /\ spills[c].expected <= d.seq
         /\ d.n + spills[c].expected = m + d.seq + 1
  BY <1>1 DEF ChainInOrder, Placed, Seated, HasSpill
<1>6. CASE ~HasSpill(c)
  <2>1. d.n + spills[c].expected = m + spills[c].next + 1
    BY <1>0, <1>5, <1>6, LeastOriginal
  <2>2. spills[c].expected = 0 /\ spills[c].next = 0
    BY <1>6 DEF HasSpill, NoSpill
  <2>. QED BY <1>2, <1>4, <1>6, <2>1, <2>2
<1>7. CASE HasSpill(c)
  <2>1. d.nonce = 1 /\ d.seq <= spills[c].expected
    BY <1>7 DEF OfferDue
  <2>2. d.seq = spills[c].expected
    BY <1>2, <1>3, <1>5, <2>1
  <2>3. d.n = m + 1
    BY <1>2, <1>3, <1>4, <1>5, <2>1, <2>2
  <2>4. Copied(d)
    BY <2>1 DEF Copied, Faultless
  <2>. QED BY <2>2, <2>3, <2>4
<1>. QED BY <1>6, <1>7

\* What remains of the spill then.
LEMMA SpillAfterNext ==
  ASSUME TypeOK, NEW d, NEW c \in Channels, HasSpill(c) => Copied(d) /\ d.seq = spills[c].expected
  PROVE  LET s == spills[c]  t == AfterAdmission(c, d) IN
         /\ t \in Spill
         /\ \/ s = NoSpill /\ t = NoSpill
            \/ s # NoSpill /\ s.expected + 1 = s.next /\ t = NoSpill
            \/ s # NoSpill /\ t.expected = s.expected + 1 /\ t.next = s.next
<1>1. spills[c] \in Spill
  BY DEF TypeOK
<1>2. \A s \in Spill :
        LET t == [s EXCEPT !.expected = s.expected + 1, !.quiet = FALSE] IN
        t \in Spill /\ t.expected = s.expected + 1 /\ t.next = s.next
  <2>1. \A s \in Spill : \A e \in Nat :
          LET t == [s EXCEPT !.expected = e, !.quiet = FALSE] IN
          t \in Spill /\ t.expected = e /\ t.next = s.next
    BY DEF Spill
  <2>2. \A s \in Spill : s.expected + 1 \in Nat
    BY DEF Spill
  <2>. QED BY <2>1, <2>2, Zenon
<1>3. NoSpill \in Spill
  BY SpillValues
<1>4. CASE ~HasSpill(c)
  BY <1>1, <1>4 DEF AfterAdmission, HasSpill
<1>5. CASE HasSpill(c) /\ spills[c].expected + 1 = spills[c].next
  BY <1>3, <1>5 DEF AfterAdmission, HasSpill
<1>6. CASE HasSpill(c) /\ spills[c].expected + 1 # spills[c].next
  <2>1. AfterAdmission(c, d) =
          [spills[c] EXCEPT !.expected = spills[c].expected + 1, !.quiet = FALSE]
    BY <1>6 DEF AfterAdmission
  <2>. QED BY <1>1, <1>2, <1>6, <2>1 DEF HasSpill
<1>. QED BY <1>4, <1>5, <1>6

\* What entering its lane does to the numbers of the delivery's channel.
LEMMA Admission ==
  ASSUME TypeOK, Offer, hand' = <<>>
  PROVE  LET d == hand[1]  c == d.ch IN
         /\ hand # <<>> /\ d \in Message /\ c \in Channels
         /\ lanes' = [lanes EXCEPT ![c] =
                        [present |-> TRUE, jobs |-> Append(lanes[c].jobs, d)]]
         /\ SetSpill(c, AfterAdmission(c, d))
         /\ loop' = "receive" /\ UNCHANGED <<arrived, started, settled, running>>
<1>1. hand # <<>>
  BY DEF Offer, TypeOK
<1>2. hand[1] \in Message
  BY <1>1, HeadOfChain
<1>3. hand[1].ch \in Channels
  BY <1>2 DEF Message
<1>. QED BY <1>1, <1>2, <1>3 DEF Offer, histVars, TypeOK

LEMMA AdmissionCounts ==
  ASSUME TypeOK, Offer, hand' = <<>>, \A c \in Channels : LaneInOrder(c)
  PROVE  \A k \in Channels :
           Admitted(k)' = IF k = hand[1].ch THEN Admitted(k) + 1 ELSE Admitted(k)
<1> DEFINE d == hand[1]
           c == d.ch
<1>1. /\ d \in Message /\ c \in Channels /\ UNCHANGED started
      /\ lanes' = [lanes EXCEPT ![c] =
                     [present |-> TRUE, jobs |-> Append(lanes[c].jobs, d)]]
  BY Admission
<1>2. TAKE k \in Channels
<1>3. lanes[k].jobs \in Seq(Message) /\ lanes \in [Channels -> Lane]
  BY LaneSeqs DEF TypeOK
<1>4. /\ Started(k) \in Nat /\ Len(lanes[k].jobs) \in Nat
      /\ Admitted(k) = Started(k) + Len(lanes[k].jobs)
  BY LaneValues
<1>. HIDE DEF d, c
<1>5. Len(Append(lanes[k].jobs, d)) = Len(lanes[k].jobs) + 1
  BY <1>1, <1>3, AppendProperties
<1>6. CASE k = c
  <2>1. Len(lanes'[k].jobs) = Len(lanes[k].jobs) + 1
    BY <1>1, <1>3, <1>5, <1>6
  <2>2. Admitted(k)' = Started(k) + (Len(lanes[k].jobs) + 1)
    BY <1>1, <2>1 DEF Admitted, Started
  <2>. QED BY <1>4, <1>6, <2>2 DEF c, d
<1>7. CASE k # c
  <2>1. lanes'[k] = lanes[k]
    BY <1>1, <1>3, <1>7
  <2>. QED BY <1>1, <1>7, <2>1 DEF Admitted, Started, c, d
<1>. QED BY <1>6, <1>7

\* The rest of the chain moves up by one when a delivery leaves the hand.
LEMMA AdmitKeepsOrder ==
  ASSUME TypeInv, TypeOK', Faultless, CommandsKept, Serial, SpillExpectsAssigned,
         ChainInOrder, OfferDue, \A c \in Channels : LaneInOrder(c),
         Offer, hand' = <<>>
  PROVE  ChainInOrder'
<1> DEFINE d == hand[1]
           c == d.ch
           N == Len(Rest)
<1>0. TypeOK /\ hand # <<>> /\ loop = "offer"
  BY DEF TypeInv, TypeOK, Offer
<1>1. /\ d \in Message /\ c \in Channels /\ SetSpill(c, AfterAdmission(c, d))
      /\ arrived' = arrived
  BY <1>0, Admission
<1>2. /\ Chain[1] = d /\ Len(Chain) = N + 1 /\ N \in Nat
      /\ \A i \in 1..N : Rest[i] = Chain[i + 1]
  BY <1>0, HeadOfChain
<1>3. Chain' = Rest /\ Len(Line') + 1 = Len(Line)
  BY <1>0, AdmitTakesHead
<1>4. Len(Line) \in Nat /\ Len(Line') \in Nat
  <2>1. Len(Line) = Len(queue) + 1 /\ Len(queue) \in Nat
    BY <1>0, HeadOfChain, ChainParts
  <2>2. Len(Line') = Len(queue)
    BY <1>3, <2>1 DEF Line, Offer
  <2>. QED BY <2>1, <2>2
<1>5. d.n = Admitted(c) + 1 /\ (HasSpill(c) => Copied(d) /\ d.seq = spills[c].expected)
  BY <1>0, <1>1, NextOffered
<1>6. \A k \in Channels : Admitted(k)' = IF k = c THEN Admitted(k) + 1 ELSE Admitted(k)
  BY <1>0, AdmissionCounts
<1>7. /\ spills' = [spills EXCEPT ![c] = AfterAdmission(c, d)]
      /\ spills \in [Channels -> Spill]
  BY <1>0, <1>1 DEF SetSpill, TypeOK
<1>8. \A k \in Channels : Admitted(k) \in Nat /\ arrived[k] \in Nat /\ spills[k] \in Spill
  <2>1. ASSUME NEW k \in Channels PROVE Admitted(k) \in Nat
    BY <1>0, LaneValues
  <2>. QED BY <1>0, <2>1 DEF TypeOK
<1>. HIDE DEF N, d, c
<1>9. ASSUME NEW i \in 1..N PROVE Placed(i)'
  <2>1. i + 1 \in 1..Len(Chain) /\ 1 < i + 1 /\ 1 \in 1..Len(Chain)
    BY <1>2
  <2>2. PICK t \in Message, k \in Channels : t = Chain[i + 1] /\ k = t.ch
    BY <1>0, <2>1, ChainItems DEF Message
  <2>3. Seated(t, i + 1 <= Len(Line), Admitted(k), spills[k], arrived[k])
    BY <2>1, <2>2 DEF ChainInOrder, Placed
  <2>4. Chain'[i] = t
    BY <1>2, <1>3, <2>2
  <2>5. i + 1 <= Len(Line) => i <= Len(Line')
    BY <1>3, <1>4
  <2>6. Seated(t, i <= Len(Line'), Admitted(k)', spills'[k], arrived[k])
    <3>1. CASE k = c
      <4>1. t.n # d.n
        <5>1. Before(Chain[1], Chain[i + 1])
          BY <2>1 DEF ChainInOrder
        <5>. QED BY <1>2, <2>2, <3>1, <5>1 DEF Before, c
      <4>2. LET s == spills[c]  s2 == AfterAdmission(c, d) IN
            /\ s2 \in Spill
            /\ \/ s = NoSpill /\ s2 = NoSpill
               \/ s # NoSpill /\ s.expected + 1 = s.next /\ s2 = NoSpill
               \/ s # NoSpill /\ s2.expected = s.expected + 1 /\ s2.next = s.next
        BY <1>0, <1>1, <1>5, SpillAfterNext
      <4>3. Seated(t, i <= Len(Line'), Admitted(c) + 1, AfterAdmission(c, d), arrived[c])
        BY <1>1, <1>5, <1>8, <2>3, <2>5, <3>1, <4>1, <4>2, AdmitSeats
      <4>4. spills'[c] = AfterAdmission(c, d)
        BY <1>1, <1>7
      <4>. QED BY <1>6, <3>1, <4>3, <4>4
    <3>2. CASE k # c
      <4>1. spills'[k] = spills[k] /\ Admitted(k)' = Admitted(k)
        BY <1>6, <1>7, <3>2
      <4>2. Seated(t, i <= Len(Line'), Admitted(k), spills[k], arrived[k])
        BY <2>3, <2>5 DEF Seated
      <4>. QED BY <4>1, <4>2
    <3>. QED BY <3>1, <3>2
  <2>. QED BY <1>1, <2>2, <2>4, <2>6 DEF Placed, Seated
<1>10. ASSUME NEW i \in 1..N, NEW j \in 1..N, i < j
       PROVE  Before(Chain[i], Chain[j])'
  <2>1. i + 1 \in 1..Len(Chain) /\ j + 1 \in 1..Len(Chain) /\ i + 1 < j + 1
    BY <1>2, <1>10
  <2>2. Before(Chain[i + 1], Chain[j + 1])
    BY <2>1 DEF ChainInOrder
  <2>. QED BY <1>2, <1>3, <2>2 DEF Before
<1>11. Len(Chain') = N
  BY <1>3 DEF N
<1>. QED BY <1>9, <1>10, <1>11 DEF ChainInOrder

\* The numbers of the channel once the overflow has taken the delivery.
LEMMA Numbering ==
  ASSUME TypeInv, Faultless, CommandsKept, Serial, SpillExpectsAssigned,
         ChainInOrder, \A c \in Channels : LaneInOrder(c), Send
  PROVE  LET d == hand[1]  c == d.ch  s == spills[c]  s2 == spills'[c] IN
         /\ hand # <<>> /\ d \in Message /\ c \in Channels
         /\ \A k \in Channels : k # c => spills'[k] = spills[k]
         /\ s2 \in Spill /\ s2 # NoSpill
         /\ \/ /\ d.n + s.expected = Admitted(c) + s.next + 1
               /\ SentCopy(d).seq + 1 = s2.next
               /\ \/ s = NoSpill /\ s2.expected = 1 /\ s2.next = 2
                  \/ s # NoSpill /\ s2.expected = s.expected /\ s2.next = s.next + 1
            \/ SentCopy(d).seq = d.seq /\ d.nonce = 1 /\ s2 = s
<1> DEFINE d == hand[1]
           c == d.ch
           s == spills[c]
<1>0. TypeOK /\ hand # <<>>
  BY DEF TypeInv, TypeOK, Send
<1>1. d \in Message /\ c \in Channels /\ Chain[1] = d /\ 1 \in 1..Len(Chain)
  BY <1>0, HeadOfChain DEF Message
<1>2. spills \in [Channels -> Spill] /\ s \in Spill /\ nonce = 1
  BY <1>0, <1>1 DEF TypeOK, Faultless
<1>3. \/ d.nonce = 0
      \/ d.nonce = 1 /\ HasSpill(c)
  BY <1>1 DEF ChainInOrder, Placed, Seated, HasSpill
<1>4. /\ HasSpill(c) /\ Copied(d) => spills' = [spills EXCEPT ![c] = s]
      /\ HasSpill(c) /\ ~Copied(d) => spills' = [spills EXCEPT ![c] = [s EXCEPT !.next = s.next + 1]]
      /\ ~HasSpill(c) => spills' = [spills EXCEPT ![c] = [NewSpill EXCEPT !.next = NewSpill.next + 1]]
  BY DEF Send
<1>5. /\ \A v \in Spill : LET w == [v EXCEPT !.next = v.next + 1] IN
                          w \in Spill /\ w.next = v.next + 1 /\ w.expected = v.expected
      /\ NewSpill \in Spill /\ NewSpill.next = 1 /\ NewSpill.expected = 1
  BY SpillValues DEF Spill, NewSpill
<1>6. SentCopy(d).seq = NumberOf(d)
  BY DEF SentCopy
<1>7. s.next \in Nat /\ s.expected \in Nat /\ d.n \in Nat
  BY <1>1, <1>2 DEF Spill, Message
<1>8. NoSpill.next = 0
  BY DEF NoSpill
<1>9. d.nonce = 0 => d.n + s.expected = Admitted(c) + s.next + 1
  BY <1>0, <1>1, LeastOriginal
<1>. HIDE DEF d, c, s
<1>10. CASE HasSpill(c) /\ Copied(d)
  <2>1. spills'[c] = s /\ \A k \in Channels : k # c => spills'[k] = spills[k]
    BY <1>1, <1>2, <1>4, <1>10
  <2>2. d.nonce = 1 /\ NumberOf(d) = d.seq
    BY <1>2, <1>10 DEF Copied, NumberOf, Numbers, c
  <2>3. s # NoSpill
    BY <1>10 DEF HasSpill, s
  <2>. QED BY <1>0, <1>1, <1>2, <1>6, <2>1, <2>2, <2>3 DEF d, c, s
<1>11. CASE HasSpill(c) /\ ~Copied(d)
  <2> DEFINE w == [s EXCEPT !.next = s.next + 1]
  <2>1. w \in Spill /\ w.next = s.next + 1 /\ w.expected = s.expected
    BY <1>2, <1>5
  <2>2. spills' = [spills EXCEPT ![c] = w]
    BY <1>4, <1>11
  <2>. HIDE DEF w
  <2>3. spills'[c] = w /\ \A k \in Channels : k # c => spills'[k] = spills[k]
    BY <1>1, <1>2, <2>2
  <2>4. d.nonce = 0
    BY <1>2, <1>3, <1>11 DEF Copied
  <2>5. NumberOf(d) = s.next /\ s # NoSpill
    BY <1>11 DEF NumberOf, Numbers, HasSpill, c, s
  <2>6. w # NoSpill
    BY <1>7, <1>8, <2>1
  <2>. QED BY <1>0, <1>1, <1>6, <1>9, <2>1, <2>3, <2>4, <2>5, <2>6 DEF d, c, s
<1>12. CASE ~HasSpill(c)
  <2> DEFINE w == [NewSpill EXCEPT !.next = NewSpill.next + 1]
  <2>1. w \in Spill /\ w.next = 2 /\ w.expected = 1
    BY <1>5
  <2>2. spills' = [spills EXCEPT ![c] = w]
    BY <1>4, <1>12
  <2>. HIDE DEF w
  <2>3. spills'[c] = w /\ \A k \in Channels : k # c => spills'[k] = spills[k]
    BY <1>1, <1>2, <2>2
  <2>4. d.nonce = 0
    BY <1>3, <1>12
  <2>5. NumberOf(d) = 1 /\ s = NoSpill
    BY <1>12 DEF NumberOf, Numbers, HasSpill, c, s
  <2>6. w # NoSpill
    BY <1>8, <2>1
  <2>. QED BY <1>0, <1>1, <1>6, <1>9, <2>1, <2>3, <2>4, <2>5, <2>6 DEF d, c, s
<1>. QED BY <1>10, <1>11, <1>12

\* Where the last of the chain is then.
LEMMA LastSeat ==
  ASSUME NEW d \in Message, NEW e \in Message, NEW m \in Nat, NEW a \in Nat,
         NEW s \in Spill, NEW s2 \in Spill, s2 # NoSpill, NEW in, NEW in2,
         s # NoSpill => s.expected < s.next, e.n = d.n, e.nonce = 1,
         Seated(d, in, m, s, a),
         \/ /\ d.n + s.expected = m + s.next + 1
            /\ e.seq + 1 = s2.next
            /\ \/ s = NoSpill /\ s2.expected = 1 /\ s2.next = 2
               \/ s # NoSpill /\ s2.expected = s.expected /\ s2.next = s.next + 1
         \/ e.seq = d.seq /\ d.nonce = 1 /\ s2 = s
  PROVE  Seated(e, in2, m, s2, a)
<1>1. /\ d.n \in Nat /\ d.seq \in Nat /\ e.seq \in Nat /\ s.expected \in Nat
      /\ s.next \in Nat /\ s2.expected \in Nat /\ s2.next \in Nat
  BY DEF Message, Spill
<1>2. NoSpill.expected = 0 /\ NoSpill.next = 0
  BY DEF NoSpill
<1>3. e.n <= a
  BY DEF Seated
<1>4. CASE /\ d.n + s.expected = m + s.next + 1 /\ e.seq + 1 = s2.next
           /\ s = NoSpill /\ s2.expected = 1 /\ s2.next = 2
  <2>1. s2.expected <= e.seq /\ e.seq < s2.next /\ d.n + s2.expected = m + e.seq + 1
    BY <1>1, <1>2, <1>4
  <2>. QED BY <1>3, <2>1 DEF Seated
<1>5. CASE /\ d.n + s.expected = m + s.next + 1 /\ e.seq + 1 = s2.next
           /\ s # NoSpill /\ s2.expected = s.expected /\ s2.next = s.next + 1
  <2>1. s2.expected <= e.seq /\ e.seq < s2.next /\ d.n + s2.expected = m + e.seq + 1
    BY <1>1, <1>5
  <2>. QED BY <1>3, <2>1 DEF Seated
<1>6. CASE e.seq = d.seq /\ d.nonce = 1 /\ s2 = s
  <2>1. /\ s2.expected <= e.seq /\ e.seq < s2.next
        /\ d.n + s2.expected = m + e.seq + 1
    BY <1>6 DEF Seated
  <2>. QED BY <1>3, <2>1 DEF Seated
<1>. QED BY <1>4, <1>5, <1>6

LEMMA SendKeepsOrder ==
  ASSUME TypeInv, Faultless, CommandsKept, Serial, SpillExpectsAssigned,
         ChainInOrder, \A c \in Channels : LaneInOrder(c), Send
  PROVE  ChainInOrder'
<1>0. TypeOK /\ hand # <<>>
  BY DEF TypeInv, TypeOK, Send
<1>1. PICK d, c, e, N : /\ d \in Message /\ c \in Channels /\ d = hand[1] /\ c = d.ch
                        /\ e = SentCopy(d) /\ N = Len(Rest)
  BY <1>0, HeadOfChain DEF Message
<1>2. /\ Chain[1] = d /\ Len(Chain) = N + 1 /\ N \in Nat /\ Rest \in Seq(Message)
      /\ \A i \in 1..N : Rest[i] = Chain[i + 1]
  BY <1>0, <1>1, HeadOfChain
<1>3. Chain' = Append(Rest, e) /\ Len(Line') + 1 = Len(Line) /\ e \in Message
  BY <1>0, <1>1, SendTurnsChain
<1>4. /\ Len(Chain') = N + 1 /\ Chain'[N + 1] = e
      /\ \A i \in 1..N : Chain'[i] = Chain[i + 1]
  BY <1>1, <1>2, <1>3, AppendProperties
<1>5. e.ch = c /\ e.n = d.n /\ e.nonce = 1
  BY <1>1 DEF SentCopy, Faultless
<1>6. UNCHANGED <<arrived, lanes, started>>
  BY DEF Send, laneVars, histVars
<1>7. ASSUME NEW k \in Channels
      PROVE  /\ Admitted(k) \in Nat /\ arrived[k] \in Nat /\ spills[k] \in Spill
             /\ Admitted(k)' = Admitted(k)
  <2>1. Admitted(k) \in Nat
    BY <1>0, LaneValues
  <2>. QED BY <1>0, <1>6, <2>1 DEF TypeOK, Admitted, Started
<1>8. LET s == spills[c]  s2 == spills'[c] IN
      /\ \A k \in Channels : k # c => spills'[k] = spills[k]
      /\ s2 \in Spill /\ s2 # NoSpill
      /\ \/ /\ d.n + s.expected = Admitted(c) + s.next + 1
            /\ e.seq + 1 = s2.next
            /\ \/ s = NoSpill /\ s2.expected = 1 /\ s2.next = 2
               \/ s # NoSpill /\ s2.expected = s.expected /\ s2.next = s.next + 1
         \/ e.seq = d.seq /\ d.nonce = 1 /\ s2 = s
  BY <1>1, Numbering
<1>9. Len(Line) \in Nat /\ Len(Line') \in Nat
  <2>1. Len(Line) = Len(queue) + 1 /\ Len(queue) \in Nat
    BY <1>0, HeadOfChain, ChainParts
  <2>2. Line' = <<>> \o queue
    BY DEF Line, Send, brokerVars
  <2>3. Line' = queue
    BY <1>0, <2>2, ChainParts, ConcatEmptySeq
  <2>. QED BY <2>1, <2>3
<1>10. ASSUME NEW i \in 1..N
       PROVE  /\ Chain[i + 1] \in Message /\ Placed(i + 1)
              /\ Chain[i + 1].ch = c => Chain[i + 1].n # d.n
  <2>1. i + 1 \in 1..Len(Chain) /\ 1 < i + 1 /\ 1 \in 1..Len(Chain)
    BY <1>2
  <2>2. Before(Chain[1], Chain[i + 1]) /\ Placed(i + 1)
    BY <2>1 DEF ChainInOrder
  <2>3. Chain[i + 1] \in Message
    BY <1>0, <2>1, ChainItems
  <2>. QED BY <1>2, <2>2, <1>1, <2>3 DEF Before
<1>11. ASSUME NEW i \in 1..N PROVE Placed(i)'
  <2>1. PICK t \in Message, k \in Channels : t = Chain[i + 1] /\ k = t.ch
    BY <1>10 DEF Message
  <2>2. Seated(t, i + 1 <= Len(Line), Admitted(k), spills[k], arrived[k])
    BY <1>10, <2>1 DEF Placed
  <2>3. i + 1 <= Len(Line) => i <= Len(Line')
    BY <1>2, <1>3, <1>9
  <2>4. Seated(t, i <= Len(Line'), Admitted(k), spills'[k], arrived[k])
    <3>1. CASE k = c /\ spills'[c] # spills[c]
      <4>1. t.n # d.n
        BY <1>10, <2>1, <3>1
      <4>2. /\ spills[c] \in Spill /\ spills'[c] \in Spill
            /\ Admitted(c) \in Nat /\ arrived[c] \in Nat
        BY <1>1, <1>7, <1>8
      <4>3. /\ d.n + spills[c].expected = Admitted(c) + spills[c].next + 1
            /\ \/ spills[c] = NoSpill /\ spills'[c].expected = 1 /\ spills'[c].next = 2
               \/ /\ spills[c] # NoSpill /\ spills'[c].expected = spills[c].expected
                  /\ spills'[c].next = spills[c].next + 1
        BY <1>8, <3>1
      <4>4. Seated(t, i + 1 <= Len(Line), Admitted(c), spills[c], arrived[c])
        BY <2>2, <3>1
      <4> DEFINE b == i + 1 <= Len(Line)
                 b2 == i <= Len(Line')
      <4>6. b => b2
        BY <2>3
      <4>. HIDE DEF b, b2
      <4>7. Seated(t, b, Admitted(c), spills[c], arrived[c])
        BY <4>4 DEF b
      <4>5. Seated(t, b2, Admitted(c), spills'[c], arrived[c])
        <5>1. PICK m \in Nat, a \in Nat : m = Admitted(c) /\ a = arrived[c]
          BY <4>2
        <5>2. PICK s \in Spill, s2 \in Spill : s = spills[c] /\ s2 = spills'[c]
          BY <4>2
        <5>3. d.n + s.expected = m + s.next + 1
          BY <4>3, <5>1, <5>2
        <5>4. \/ s = NoSpill /\ s2.expected = 1 /\ s2.next = 2
              \/ s # NoSpill /\ s2.expected = s.expected /\ s2.next = s.next + 1
          BY <4>3, <5>2
        <5>5. Seated(t, b, m, s, a)
          BY <4>7, <5>1, <5>2
        <5>6. d \in Message
          BY <1>1
        <5>7. Seated(t, b2, m, s2, a)
          BY <4>1, <4>6, <5>3, <5>4, <5>5, <5>6, NumberSeats
        <5>. QED BY <5>1, <5>2, <5>7
      <4>. QED BY <3>1, <4>5 DEF b2
    <3>2. CASE spills'[k] = spills[k]
      BY <2>2, <2>3, <3>2 DEF Seated
    <3>. QED BY <1>8, <3>1, <3>2
  <2>5. Chain'[i] = t /\ Admitted(k)' = Admitted(k) /\ arrived'[k] = arrived[k]
    BY <1>4, <1>6, <1>7, <2>1
  <2>. QED BY <2>1, <2>4, <2>5 DEF Placed, Seated
<1>12. Placed(N + 1)'
  <2>1. Seated(d, 1 <= Len(Line), Admitted(c), spills[c], arrived[c])
    <3>1. 1 \in 1..Len(Chain)
      BY <1>2
    <3>. QED BY <1>1, <1>2, <3>1 DEF ChainInOrder, Placed
  <2>2. spills[c] # NoSpill => spills[c].expected < spills[c].next
    BY <1>1 DEF SpillExpectsAssigned, HasSpill
  <2>5. /\ spills[c] \in Spill /\ spills'[c] \in Spill /\ spills'[c] # NoSpill
        /\ Admitted(c) \in Nat /\ arrived[c] \in Nat
        /\ \/ /\ d.n + spills[c].expected = Admitted(c) + spills[c].next + 1
              /\ e.seq + 1 = spills'[c].next
              /\ \/ spills[c] = NoSpill /\ spills'[c].expected = 1 /\ spills'[c].next = 2
                 \/ /\ spills[c] # NoSpill /\ spills'[c].expected = spills[c].expected
                    /\ spills'[c].next = spills[c].next + 1
           \/ e.seq = d.seq /\ d.nonce = 1 /\ spills'[c] = spills[c]
    BY <1>1, <1>7, <1>8
  <2>3. Seated(e, N + 1 <= Len(Line'), Admitted(c), spills'[c], arrived[c])
    <3> DEFINE b == 1 <= Len(Line)
               b2 == N + 1 <= Len(Line')
    <3>. HIDE DEF b, b2
    <3>1. Seated(d, b, Admitted(c), spills[c], arrived[c])
      BY <2>1 DEF b
    <3>2. Seated(e, b2, Admitted(c), spills'[c], arrived[c])
      BY <1>1, <1>3, <1>5, <2>2, <2>5, <3>1, LastSeat
    <3>. QED BY <3>2 DEF b2
  <2>4. Admitted(c)' = Admitted(c) /\ arrived'[c] = arrived[c]
    BY <1>1, <1>6, <1>7
  <2>. QED BY <1>4, <1>5, <2>3, <2>4 DEF Placed, Seated
<1>13. ASSUME NEW i \in 1..(N + 1), NEW j \in 1..(N + 1), i < j
       PROVE  Before(Chain[i], Chain[j])'
  <2>1. i \in 1..N
    BY <1>2, <1>13
  <2>2. CASE j = N + 1
    BY <1>4, <1>5, <1>10, <2>1, <2>2 DEF Before
  <2>3. CASE j # N + 1
    <3>1. /\ j \in 1..N /\ i + 1 \in 1..Len(Chain) /\ j + 1 \in 1..Len(Chain)
          /\ i + 1 < j + 1
      BY <1>2, <1>13, <2>3
    <3>2. Before(Chain[i + 1], Chain[j + 1])
      BY <3>1 DEF ChainInOrder
    <3>. QED BY <1>4, <2>1, <3>1, <3>2 DEF Before
  <2>. QED BY <2>2, <2>3
<1>14. ASSUME NEW i \in 1..(N + 1) PROVE Placed(i)'
  <2>1. i \in 1..N \/ i = N + 1
    BY <1>2
  <2>. QED BY <1>11, <1>12, <2>1
<1>. QED BY <1>4, <1>13, <1>14 DEF ChainInOrder

-----------------------------------------------------------------------------
(* The order in the lanes.                                                 *)

LEMMA IntervalCount ==
  ASSUME NEW k \in Nat
  PROVE  Cardinality(1..k) = k
<1>1. Cardinality(1..k) = IF 1 > k THEN 0 ELSE k - 1 + 1
  BY FS_Interval
<1>. QED BY <1>1

LEMMA LaneStays ==
  ASSUME NEW c \in Channels, LaneInOrder(c), lanes'[c].jobs = lanes[c].jobs,
         running'[c] = running[c], started'[c] = started[c], settled'[c] = settled[c],
         arrived'[c] = arrived[c], spills'[c] = spills[c]
  PROVE  LaneInOrder(c)'
<1>1. Started(c)' = Started(c)
  BY DEF Started
<1>2. Admitted(c)' = Admitted(c)
  BY <1>1 DEF Admitted
<1>. QED BY <1>1, <1>2 DEF LaneInOrder

LEMMA AdmitKeepsLanes ==
  ASSUME TypeInv, Faultless, CommandsKept, Serial, SpillExpectsAssigned,
         ChainInOrder, OfferDue, \A c \in Channels : LaneInOrder(c),
         Offer, hand' = <<>>, NEW k \in Channels
  PROVE  LaneInOrder(k)'
<1>0. TypeOK /\ hand # <<>> /\ loop = "offer"
  BY DEF TypeInv, TypeOK, Offer
<1>1. PICK d, c : /\ d \in Message /\ c \in Channels /\ d = hand[1] /\ c = d.ch
                  /\ lanes' = [lanes EXCEPT ![c] =
                                 [present |-> TRUE, jobs |-> Append(lanes[c].jobs, d)]]
                  /\ SetSpill(c, AfterAdmission(c, d))
                  /\ UNCHANGED <<arrived, started, settled, running>>
  BY <1>0, Admission
<1>2. lanes \in [Channels -> Lane] /\ spills \in [Channels -> Spill] /\ arrived[c] \in Nat
  BY <1>0, <1>1 DEF TypeOK
<1>3. spills' = [spills EXCEPT ![c] = AfterAdmission(c, d)]
  BY <1>1 DEF SetSpill
<1>4. CASE k # c
  BY <1>1, <1>2, <1>3, <1>4, LaneStays
<1>5. CASE k = c
  <2>1. PICK m \in Nat, u \in Nat, l \in Nat :
          /\ m = Admitted(c) /\ u = Started(c) /\ l = Len(lanes[c].jobs) /\ m = u + l
    BY <1>0, <1>1, LaneValues
  <2>a. \A i : i = l + 1 => m + 1 = u + i
    <3>1. m = u + l
      BY <2>1
    <3>2. m + 1 = u + (l + 1)
      BY <3>1
    <3>. QED BY <3>2
  <2>2. d.n = m + 1 /\ (HasSpill(c) => Copied(d) /\ d.seq = spills[c].expected)
    BY <1>0, <1>1, <2>1, NextOffered
  <2>3. d.n <= arrived[c]
    <3>1. Chain[1] = d /\ 1 \in 1..Len(Chain)
      BY <1>0, <1>1, HeadOfChain
    <3>. QED BY <1>1, <3>1 DEF ChainInOrder, Placed, Seated
  <2>4. PICK s, s2 : /\ s = spills[c] /\ s2 = AfterAdmission(c, d)
                     /\ s \in Spill /\ s2 \in Spill
                     /\ \/ s = NoSpill /\ s2 = NoSpill
                        \/ s # NoSpill /\ s.expected + 1 = s.next /\ s2 = NoSpill
                        \/ s # NoSpill /\ s2.expected = s.expected + 1 /\ s2.next = s.next
    BY <1>0, <1>1, <1>2, <2>2, SpillAfterNext
  <2>5. spills'[c] = s2
    BY <1>1, <1>2, <1>3, <2>4
  <2>6. lanes[c].jobs \in Seq(Message) /\ lanes'[c].jobs = Append(lanes[c].jobs, d)
    BY <1>0, <1>1, <1>2, LaneSeqs
  <2>7. /\ Len(lanes'[c].jobs) = l + 1 /\ lanes'[c].jobs[l + 1] = d
        /\ \A i \in 1..l : lanes'[c].jobs[i] = lanes[c].jobs[i]
    <3>1. PICK j \in Seq(Message) : j = lanes[c].jobs
      BY <2>6
    <3>2. /\ Len(Append(j, d)) = Len(j) + 1 /\ Append(j, d)[Len(j) + 1] = d
          /\ \A i \in 1..Len(j) : Append(j, d)[i] = j[i]
      BY <1>1, AppendProperties
    <3>. QED BY <2>1, <2>6, <3>1, <3>2
  <2>8. Started(c)' = u /\ Admitted(c)' = m + 1
    <3>1. Started(c)' = u
      BY <1>1, <2>1 DEF Started
    <3>2. Admitted(c)' = u + (l + 1)
      BY <2>7, <3>1 DEF Admitted
    <3>. QED BY <2>a, <3>1, <3>2
  <2>9. /\ started'[c] = 1..u
        /\ running'[c] = <<>> => settled'[c] = 1..u
        /\ running'[c] # <<>> => /\ u > 0 /\ running'[c][1].n = u
                                 /\ settled'[c] = 1..(u - 1)
    BY <1>1, <2>1 DEF LaneInOrder
  <2>10. ASSUME NEW i \in 1..(l + 1) PROVE lanes'[c].jobs[i].n = u + i
    <3>1. CASE i \in 1..l
      <4>1. lanes[c].jobs[i].n = u + i
        BY <1>1, <2>1, <3>1 DEF LaneInOrder
      <4>. QED BY <2>7, <3>1, <4>1
    <3>2. CASE i = l + 1
      <4>1. m + 1 = u + i
        BY <2>a, <3>2
      <4>. QED BY <2>2, <2>7, <3>2, <4>1
    <3>3. i \in 1..l \/ i = l + 1
      BY <2>1
    <3>. QED BY <3>1, <3>2, <3>3
  <2>11. (m + 1) + s2.next <= arrived'[c] + s2.expected
    <3>1. m + s.next <= arrived[c] + s.expected
      BY <1>1, <2>1, <2>4 DEF LaneInOrder
    <3>2. NoSpill.next = 0 /\ NoSpill.expected = 0
      BY DEF NoSpill
    <3>3. s.next \in Nat /\ s.expected \in Nat /\ arrived'[c] = arrived[c] /\ m + 1 <= arrived[c]
      BY <1>1, <2>2, <2>3, <2>4 DEF Spill
    <3>4. CASE s2 = NoSpill
      BY <1>2, <2>1, <3>2, <3>3, <3>4
    <3>5. CASE s2.expected = s.expected + 1 /\ s2.next = s.next
      <4>1. (m + 1) + s.next <= arrived[c] + (s.expected + 1)
        BY <1>2, <3>1, <3>3
      <4>. QED BY <3>3, <3>5, <4>1
    <3>. QED BY <2>4, <3>4, <3>5
  <2>12. \A i \in 1..Len(lanes'[c].jobs) : lanes'[c].jobs[i].n = Started(c)' + i
    BY <2>7, <2>8, <2>10
  <2>13. Admitted(c)' + spills'[c].next <= arrived'[c] + spills'[c].expected
    BY <2>5, <2>8, <2>11
  <2>14. /\ Started(c)' \in Nat /\ started'[c] = 1..Started(c)'
         /\ running'[c] = <<>> => settled'[c] = 1..Started(c)'
         /\ running'[c] # <<>> => /\ Started(c)' > 0 /\ running'[c][1].n = Started(c)'
                                  /\ settled'[c] = 1..(Started(c)' - 1)
    BY <2>1, <2>8, <2>9
  <2>. QED BY <1>5, <2>12, <2>13, <2>14 DEF LaneInOrder
<1>. QED BY <1>4, <1>5

LEMMA SendKeepsLanes ==
  ASSUME TypeInv, Faultless, CommandsKept, Serial, SpillExpectsAssigned,
         ChainInOrder, \A c \in Channels : LaneInOrder(c), Send, NEW k \in Channels
  PROVE  LaneInOrder(k)'
<1>0. TypeOK /\ hand # <<>>
  BY DEF TypeInv, TypeOK, Send
<1>1. UNCHANGED <<arrived, lanes, running, started, settled>>
  BY DEF Send, laneVars, histVars
<1>2. PICK d, c, s, s2 :
        /\ d \in Message /\ c \in Channels /\ d = hand[1] /\ c = d.ch
        /\ s = spills[c] /\ s2 = spills'[c]
        /\ \A e \in Channels : e # c => spills'[e] = spills[e]
        /\ \/ /\ d.n + s.expected = Admitted(c) + s.next + 1
              /\ \/ s = NoSpill /\ s2.expected = 1 /\ s2.next = 2
                 \/ s # NoSpill /\ s2.expected = s.expected /\ s2.next = s.next + 1
           \/ s2 = s
  BY Numbering
<1>3. CASE k # c \/ s2 = s
  BY <1>1, <1>2, <1>3, LaneStays
<1>4. CASE k = c /\ s2 # s
  <2>1. d.n <= arrived[c]
    <3>1. Chain[1] = d /\ 1 \in 1..Len(Chain)
      BY <1>0, <1>2, HeadOfChain
    <3>. QED BY <1>2, <3>1 DEF ChainInOrder, Placed, Seated
  <2>2. PICK m \in Nat, a \in Nat : m = Admitted(c) /\ a = arrived[c]
    <3>1. Admitted(c) \in Nat
      BY <1>0, <1>2, LaneValues
    <3>2. arrived[c] \in Nat
      BY <1>0, <1>2 DEF TypeOK
    <3>. QED BY <3>1, <3>2
  <2>3. s.next \in Nat /\ s.expected \in Nat /\ d.n \in Nat
    BY <1>0, <1>2 DEF TypeOK, Spill, Message
  <2>4. NoSpill.next = 0 /\ NoSpill.expected = 0
    BY DEF NoSpill
  <2>5. d.n + s.expected = m + s.next + 1
    BY <1>2, <1>4, <2>2
  <2>6. m + s2.next <= a + s2.expected
    <3>1. CASE s = NoSpill /\ s2.expected = 1 /\ s2.next = 2
      BY <2>1, <2>2, <2>3, <2>4, <2>5, <3>1
    <3>2. CASE s2.expected = s.expected /\ s2.next = s.next + 1
      BY <2>1, <2>2, <2>3, <2>5, <3>2
    <3>. QED BY <1>2, <1>4, <3>1, <3>2
  <2>7. Started(c)' = Started(c)
    BY <1>1 DEF Started
  <2>8. Admitted(c)' = m
    BY <1>1, <2>2, <2>7 DEF Admitted
  <2>9. Admitted(c)' + spills'[c].next <= arrived'[c] + spills'[c].expected
    BY <1>1, <1>2, <2>2, <2>6, <2>8
  <2>. QED BY <1>1, <1>2, <1>4, <2>7, <2>9 DEF LaneInOrder
<1>. QED BY <1>2, <1>3, <1>4

\* A command that starts is the first of its channel that has not.
LEMMA StartsNext ==
  ASSUME TypeOK, Serial, NEW c \in Channels, LaneInOrder(c), DrainPop(c)
  PROVE  /\ running[c] = <<>> /\ Head(lanes[c].jobs).n = Started(c) + 1
         /\ Head(lanes[c].jobs) \in Message
         /\ running' = [running EXCEPT ![c] = <<Head(lanes[c].jobs)>>]
         /\ started' = [started EXCEPT ![c] = 1..(Started(c) + 1)]
         /\ Len(lanes'[c].jobs) + 1 = Len(lanes[c].jobs)
         /\ \A i \in 1..Len(lanes'[c].jobs) : lanes'[c].jobs[i] = lanes[c].jobs[i + 1]
         /\ Started(c)' = Started(c) + 1
         /\ \A k \in Channels \ {c} : lanes'[k] = lanes[k]
<1>1. PICK j \in Seq(Message), u \in Nat :
        j = lanes[c].jobs /\ u = Started(c) /\ started[c] = 1..u
  BY LaneSeqs DEF LaneInOrder
<1>2. /\ j # <<>> /\ fetching[c] > 0 /\ fetching[c] \in Nat
      /\ running' = [running EXCEPT ![c] = Append(running[c], Head(j))]
      /\ lanes' = [lanes EXCEPT ![c].jobs = Tail(j)]
      /\ started' = [started EXCEPT ![c] = started[c] \cup {Head(j).n}]
  BY <1>1 DEF DrainPop, TypeOK
<1>3. /\ Head(j) \in Message /\ Tail(j) \in Seq(Message) /\ Len(Tail(j)) = Len(j) - 1
      /\ \A i \in 1..Len(Tail(j)) : Tail(j)[i] = j[i + 1]
      /\ Head(j) = j[1] /\ Len(j) \in Nat \ {0}
  BY <1>2, HeadTailProperties, EmptySeq, LenProperties
<1>4. running[c] = <<>>
  <2>1. running[c] \in Seq(Message) /\ Len(running[c]) \in Nat
    BY LaneSeqs, LenProperties
  <2>2. fetching[c] + Len(running[c]) <= 1
    BY DEF Serial
  <2>3. Len(running[c]) = 0
    BY <1>2, <2>1, <2>2
  <2>. QED BY <2>1, <2>3, EmptySeq
<1>5. Head(j).n = u + 1
  <2>1. 1 \in 1..Len(j)
    BY <1>3
  <2>2. lanes[c].jobs[1].n = Started(c) + 1
    BY <1>1, <2>1 DEF LaneInOrder
  <2>. QED BY <1>1, <1>3, <2>2
<1>6. running' = [running EXCEPT ![c] = <<Head(j)>>]
  <2>1. Append(<<>>, Head(j)) = <<Head(j)>>
    BY <1>3
  <2>. QED BY <1>2, <1>4, <2>1
<1>7. started' = [started EXCEPT ![c] = 1..(u + 1)]
  <2>1. (1..u) \cup {u + 1} = 1..(u + 1)
    OBVIOUS
  <2>. QED BY <1>1, <1>2, <1>5, <2>1
<1>8. Started(c)' = u + 1
  <2>1. started'[c] = 1..(u + 1)
    BY <1>7 DEF TypeOK
  <2>2. u + 1 \in Nat
    OBVIOUS
  <2>3. Cardinality(1..(u + 1)) = u + 1
    BY <2>2, IntervalCount
  <2>. QED BY <2>1, <2>3 DEF Started
<1>9. lanes'[c].jobs = Tail(j) /\ \A k \in Channels \ {c} : lanes'[k] = lanes[k]
  BY <1>2 DEF TypeOK, Lane
<1>10. Len(lanes'[c].jobs) + 1 = Len(j)
  BY <1>3, <1>9
<1>. QED BY <1>1, <1>3, <1>4, <1>5, <1>6, <1>7, <1>8, <1>9, <1>10

LEMMA StartKeepsLanes ==
  ASSUME TypeOK, Serial, NEW c \in Channels, NEW k \in Channels, LaneInOrder(c),
         LaneInOrder(k), DrainPop(c)
  PROVE  LaneInOrder(k)'
<1>1. UNCHANGED <<arrived, spills, settled>>
  BY DEF DrainPop, spillVars
<1>2. CASE k # c
  <2>1. /\ running'[k] = running[k] /\ started'[k] = started[k] /\ lanes'[k] = lanes[k]
    BY <1>2, StartsNext DEF DrainPop, TypeOK
  <2>. QED BY <1>1, <1>2, <2>1, LaneStays
<1>3. CASE k = c
  <2>1. PICK h \in Message, u \in Nat, l \in Nat, l2 \in Nat :
          /\ h = Head(lanes[c].jobs) /\ u = Started(c) /\ l = Len(lanes[c].jobs)
          /\ l2 = Len(lanes'[c].jobs) /\ l2 + 1 = l
    <3>1. PICK u \in Nat, l \in Nat : u = Started(c) /\ l = Len(lanes[c].jobs)
      BY LaneValues
    <3>2. Len(lanes'[c].jobs) + 1 = l /\ Head(lanes[c].jobs) \in Message
      BY <3>1, StartsNext
    <3>3. Len(lanes'[c].jobs) \in Nat
      <4>1. lanes' = [lanes EXCEPT ![c].jobs = Tail(lanes[c].jobs)] /\ lanes[c].jobs # <<>>
        BY DEF DrainPop
      <4>2. lanes'[c].jobs = Tail(lanes[c].jobs)
        BY <4>1 DEF TypeOK, Lane
      <4>3. Tail(lanes[c].jobs) \in Seq(Message)
        BY <4>1, LaneSeqs, RangeOfTail
      <4>. QED BY <4>2, <4>3, LenProperties
    <3>. QED BY <3>1, <3>2, <3>3
  <2>2. /\ running[c] = <<>> /\ h.n = u + 1
        /\ running' = [running EXCEPT ![c] = <<h>>]
        /\ started' = [started EXCEPT ![c] = 1..(u + 1)]
        /\ \A i \in 1..l2 : lanes'[c].jobs[i] = lanes[c].jobs[i + 1]
        /\ Started(c)' = u + 1
    BY <2>1, StartsNext
  <2>3. running'[c] = <<h>> /\ started'[c] = 1..(u + 1)
    BY <2>2 DEF TypeOK
  <2>4. /\ running'[c] # <<>> /\ running'[c][1].n = u + 1 /\ u + 1 \in Nat /\ u + 1 > 0
        /\ (u + 1) - 1 = u
    <3>1. <<h>> # <<>> /\ <<h>>[1] = h
      OBVIOUS
    <3>2. u + 1 \in Nat /\ u + 1 > 0 /\ (u + 1) - 1 = u
      OBVIOUS
    <3>. QED BY <2>2, <2>3, <3>1, <3>2
  <2>5. settled'[c] = 1..u
    BY <1>1, <2>1, <2>2 DEF LaneInOrder
  <2>6. ASSUME NEW i \in 1..l2 PROVE lanes'[c].jobs[i].n = (u + 1) + i
    <3>1. i + 1 \in 1..l /\ u + (i + 1) = (u + 1) + i
      BY <2>1
    <3>2. lanes[c].jobs[i + 1].n = u + (i + 1)
      BY <2>1, <3>1 DEF LaneInOrder
    <3>. QED BY <2>2, <3>1, <3>2
  <2>7. Admitted(c)' = Admitted(c)
    <3>1. Admitted(c)' = (u + 1) + l2
      BY <2>1, <2>2 DEF Admitted
    <3>2. Admitted(c) = u + l
      BY <2>1 DEF Admitted
    <3>3. (u + 1) + l2 = u + l
      <4>1. l2 + 1 = l
        BY <2>1
      <4>. QED BY <4>1
    <3>. QED BY <3>1, <3>2, <3>3
  <2>8. Admitted(c)' + spills'[c].next <= arrived'[c] + spills'[c].expected
    BY <1>1, <2>7 DEF LaneInOrder
  <2>9. \A i \in 1..Len(lanes'[c].jobs) : lanes'[c].jobs[i].n = Started(c)' + i
    BY <2>1, <2>2, <2>6
  <2>10. /\ Started(c)' \in Nat /\ started'[c] = 1..Started(c)' /\ Started(c)' > 0
         /\ running'[c][1].n = Started(c)' /\ settled'[c] = 1..(Started(c)' - 1)
    BY <2>2, <2>3, <2>4, <2>5
  <2>. QED BY <1>3, <2>4, <2>8, <2>9, <2>10 DEF LaneInOrder
<1>. QED BY <1>2, <1>3

\* The command that ends is the only one that runs.
LEMMA FinishesLast ==
  ASSUME TypeOK, Serial, NEW c \in Channels, LaneInOrder(c), Finish(c)
  PROVE  /\ running[c] # <<>> /\ running[c][1].n = Started(c)
         /\ running' = [running EXCEPT ![c] = <<>>]
         /\ settled' = [settled EXCEPT ![c] = settled[c] \cup {running[c][1].n}]
         /\ settled'[c] = 1..Started(c)
<1>1. PICK i \in DOMAIN running[c] :
        /\ running' = [running EXCEPT ![c] = RemoveAt(running[c], i)]
        /\ settled' = [settled EXCEPT ![c] = settled[c] \cup {running[c][i].n}]
  BY DEF Finish, Return
<1>2. running[c] \in Seq(Message) /\ Len(running[c]) \in Nat
  BY LaneSeqs, LenProperties
<1>3. Len(running[c]) <= 1
  <2>1. fetching[c] \in Nat
    BY DEF TypeOK
  <2>2. fetching[c] + Len(running[c]) <= 1
    BY DEF Serial
  <2>. QED BY <1>2, <2>1, <2>2
<1>4. i = 1 /\ Len(running[c]) = 1 /\ running[c] # <<>>
  <2>1. i \in 1..Len(running[c])
    BY <1>2
  <2>3. PICK w \in Nat : w = Len(running[c])
    BY <1>2
  <2>4. w <= 1 /\ i \in 1..w
    BY <1>3, <2>1, <2>3
  <2>5. i = 1 /\ w = 1
    BY <2>4
  <2>2. i = 1 /\ Len(running[c]) = 1
    BY <2>3, <2>5
  <2>. QED BY <1>2, <2>2, EmptySeq
<1>5. RemoveAt(running[c], i) = <<>>
  <2>1. /\ Len(RemoveAt(running[c], i)) = Len(running[c]) - 1
        /\ RemoveAt(running[c], i) \in Seq(Message)
    BY <1>1, <1>2, RangeOfRemoveAt
  <2>2. Len(RemoveAt(running[c], i)) = 0
    BY <1>4, <2>1
  <2>. QED BY <2>1, <2>2, EmptySeq
<1>6. PICK u \in Nat : /\ u = Started(c) /\ u > 0 /\ running[c][1].n = u
                       /\ settled[c] = 1..(u - 1)
  BY <1>4 DEF LaneInOrder
<1>7. settled'[c] = (1..(u - 1)) \cup {u}
  BY <1>1, <1>4, <1>6 DEF TypeOK
<1>8. (1..(u - 1)) \cup {u} = 1..u
  BY <1>6
<1>. QED BY <1>1, <1>4, <1>5, <1>6, <1>7, <1>8

LEMMA FinishKeepsLanes ==
  ASSUME TypeOK, Serial, NEW c \in Channels, NEW k \in Channels, LaneInOrder(c),
         LaneInOrder(k), Finish(c)
  PROVE  LaneInOrder(k)'
<1>1. UNCHANGED <<arrived, spills, lanes, started>>
  BY DEF Finish, Return, spillVars
<1>2. /\ running[c] # <<>> /\ running' = [running EXCEPT ![c] = <<>>]
      /\ settled' = [settled EXCEPT ![c] = settled[c] \cup {running[c][1].n}]
      /\ settled'[c] = 1..Started(c)
  BY FinishesLast
<1>3. CASE k # c
  <2>1. running'[k] = running[k] /\ settled'[k] = settled[k]
    BY <1>2, <1>3 DEF TypeOK
  <2>. QED BY <1>1, <2>1, LaneStays
<1>4. CASE k = c
  <2>1. running'[c] = <<>>
    BY <1>2 DEF TypeOK
  <2>2. Started(c)' = Started(c) /\ Admitted(c)' = Admitted(c)
    BY <1>1 DEF Admitted, Started
  <2>. QED BY <1>1, <1>2, <1>4, <2>1, <2>2 DEF LaneInOrder
<1>. QED BY <1>3, <1>4

LEMMA PublishKeepsLanes ==
  ASSUME TypeOK, NEW c \in Channels, NEW k \in Channels, LaneInOrder(c), LaneInOrder(k),
         Publish(c)
  PROVE  LaneInOrder(k)'
<1>1. /\ UNCHANGED <<spills, lanes, running, started, settled>>
      /\ arrived' = [arrived EXCEPT ![c] = arrived[c] + 1]
  BY DEF Publish, laneVars, spillVars, histVars
<1>2. CASE k # c
  <2>1. arrived'[k] = arrived[k]
    BY <1>1, <1>2 DEF TypeOK
  <2>. QED BY <1>1, <2>1, LaneStays
<1>3. CASE k = c
  <2>1. PICK a \in Nat : a = arrived[c] /\ arrived'[c] = a + 1
    BY <1>1 DEF TypeOK
  <2>2. PICK m \in Nat : m = Admitted(c)
    BY LaneValues
  <2>3. PICK x \in Nat, e \in Nat : x = spills[c].next /\ e = spills[c].expected
    BY DEF TypeOK, Spill
  <2>4. m + x <= a + e
    BY <2>1, <2>2, <2>3 DEF LaneInOrder
  <2>5. m + x <= (a + 1) + e
    BY <2>4
  <2>6. Started(c)' = Started(c) /\ Admitted(c)' = m
    BY <1>1, <2>2 DEF Admitted, Started
  <2>7. Admitted(c)' + spills'[c].next <= arrived'[c] + spills'[c].expected
    BY <1>1, <2>1, <2>3, <2>5, <2>6
  <2>. QED BY <1>1, <1>3, <2>6, <2>7 DEF LaneInOrder
<1>. QED BY <1>2, <1>3

LEMMA OfferStep ==
  ASSUME NoFaults, TypeOK, Faultless, OfferDue, [Next]_vars
  PROVE  OfferDue'
<1>1. CASE Receive
  <2>1. PICK h \in Message : h = Head(queue) /\ hand' = <<h>> /\ loop' = Route(h.ch, h)
                             /\ UNCHANGED spills
    BY <1>1, FaultlessReceive DEF spillVars
  <2>2. hand'[1] = h /\ h.ch \in Channels
    BY <2>1 DEF Message
  <2>3. nonce = 1 /\ ~Stalled(h.ch)
    BY <2>2 DEF Faultless, Stalled
  <2>4. loop' = "offer" => ~HasSpill(h.ch) \/ (h.nonce = 1 /\ h.seq <= spills[h.ch].expected)
    BY <2>1, <2>3 DEF Route, Admits, Copied
  <2>. QED BY <2>1, <2>2, <2>4 DEF OfferDue, HasSpill
<1>2. CASE Offer \/ Send
  BY <1>2 DEF Offer, Send, OfferDue
<1>3. CASE UNCHANGED <<loop, hand, spills>>
  BY <1>3 DEF OfferDue, HasSpill
<1>4. CASE TakeItem \/ BeginPublish \/ PublishConfirmed \/ PublishFailed \/ AckOriginal
  BY <1>3, <1>4 DEF TakeItem, BeginPublish, PublishConfirmed, PublishFailed, AckOriginal,
                    OverflowFrame, loopVars
<1>5. ASSUME NEW c \in Channels, DrainPop(c) \/ DrainExit(c) \/ Finish(c) \/ Publish(c)
      PROVE  OfferDue'
  BY <1>3, <1>5 DEF DrainPop, DrainExit, Finish, Return, Publish, loopVars, spillVars
<1>6. CASE UNCHANGED vars
  BY <1>3, <1>6 DEF vars, loopVars, spillVars
<1>. QED BY <1>1, <1>2, <1>4, <1>5, <1>6, FaultlessNext

\* Offer does one of two things.
LEMMA OfferCases ==
  ASSUME TypeOK, Offer
  PROVE  hand' = <<>> \/ UNCHANGED <<hand, lanes, spillVars>>
BY DEF Offer

LEMMA LanesStep ==
  ASSUME NoFaults, TypeInv, CommandsKept, Serial, SpillExpectsAssigned, FifoInv,
         [Next]_vars, NEW k \in Channels
  PROVE  LaneInOrder(k)'
<1>0. TypeOK /\ Faultless /\ ChainInOrder /\ OfferDue /\ LaneInOrder(k)
  BY DEF TypeInv, FifoInv
<1>1. ASSUME lanes'[k].jobs = lanes[k].jobs,
             UNCHANGED <<running, started, settled, arrived, spills>>
      PROVE  LaneInOrder(k)'
  BY <1>0, <1>1, LaneStays
<1>2. CASE Receive
  <2>1. UNCHANGED <<lanes, running, started, settled, arrived>>
    BY <1>2 DEF Receive, laneVars, histVars
  <2>2. UNCHANGED spills
    BY <1>0, <1>2, FaultlessReceive DEF spillVars
  <2>. QED BY <1>1, <2>1, <2>2
<1>3. CASE Offer
  <2>1. CASE hand' = <<>>
    BY <1>0, <1>3, <2>1, AdmitKeepsLanes DEF FifoInv
  <2>2. CASE UNCHANGED <<hand, lanes, spillVars>>
    <3>1. UNCHANGED <<running, started, settled, arrived>>
      BY <1>3 DEF Offer, histVars
    <3>. QED BY <1>1, <2>2, <3>1 DEF spillVars
  <2>. QED BY <1>0, <1>3, <2>1, <2>2, OfferCases
<1>4. CASE Send
  BY <1>0, <1>4, SendKeepsLanes DEF FifoInv
<1>5. CASE TakeItem \/ BeginPublish \/ PublishConfirmed \/ PublishFailed \/ AckOriginal
  BY <1>1, <1>5 DEF TakeItem, BeginPublish, PublishConfirmed, PublishFailed, AckOriginal,
                    OverflowFrame, laneVars, histVars
<1>6. ASSUME NEW c \in Channels, DrainPop(c) PROVE LaneInOrder(k)'
  BY <1>0, <1>6, StartKeepsLanes DEF FifoInv
<1>7. ASSUME NEW c \in Channels, DrainExit(c) PROVE LaneInOrder(k)'
  <2>1. /\ lanes[c].jobs = <<>> /\ lanes' = [lanes EXCEPT ![c] = NoLane]
        /\ UNCHANGED <<running, started, settled, arrived, spills>>
    BY <1>7 DEF DrainExit, histVars, spillVars
  <2>2. NoLane.jobs = <<>>
    BY DEF NoLane
  <2>3. lanes'[k].jobs = lanes[k].jobs
    BY <1>0, <2>1, <2>2 DEF TypeOK
  <2>. QED BY <1>1, <2>1, <2>3
<1>8. ASSUME NEW c \in Channels, Finish(c) PROVE LaneInOrder(k)'
  BY <1>0, <1>8, FinishKeepsLanes DEF FifoInv
<1>9. ASSUME NEW c \in Channels, Publish(c) PROVE LaneInOrder(k)'
  BY <1>0, <1>9, PublishKeepsLanes DEF FifoInv
<1>10. CASE UNCHANGED vars
  BY <1>1, <1>10 DEF vars, laneVars, histVars, spillVars
<1>. QED BY <1>0, <1>2, <1>3, <1>4, <1>5, <1>6, <1>7, <1>8, <1>9, <1>10, FaultlessNext

LEMMA OrderStep ==
  ASSUME NoFaults, TypeInv, TypeOK', CommandsKept, Serial, SpillExpectsAssigned,
         ItemsOnHold, FifoInv, [Next]_vars
  PROVE  ChainInOrder'
<1>0. TypeOK /\ Faultless /\ ChainInOrder /\ OfferDue /\ \A c \in Channels : LaneInOrder(c)
  BY DEF TypeInv, FifoInv
<1>1. ASSUME Chain' = Chain, Len(Line') = Len(Line) \/ Len(Line') = Len(Line) + 1,
             UNCHANGED <<lanes, started, spills, arrived>>
      PROVE  ChainInOrder'
  <2>1. \A c \in Channels : Admitted(c)' = Admitted(c)
    BY <1>1 DEF Admitted, Started
  <2>. QED BY <1>0, <1>1, <2>1, OrderStays
<1>2. ASSUME UNCHANGED <<hand, queue, nonce, moving, spillQueue>>
      PROVE  Chain' = Chain /\ Len(Line') = Len(Line)
  <2>1. Belt' = Belt
    BY <1>2, BeltStays
  <2>. QED BY <1>2, <2>1 DEF Chain, Line
<1>3. CASE Receive
  <2>1. Chain' = Chain /\ Len(Line') = Len(Line)
    BY <1>0, <1>3, ReceiveKeepsChain
  <2>2. UNCHANGED <<lanes, started, spills, arrived>>
    BY <1>0, <1>3, FaultlessReceive DEF Receive, laneVars, histVars, spillVars
  <2>. QED BY <1>1, <2>1, <2>2
<1>4. CASE Offer
  <2>1. CASE hand' = <<>>
    BY <1>0, <1>4, <2>1, AdmitKeepsOrder
  <2>2. CASE UNCHANGED <<hand, lanes, spillVars>>
    <3>1. UNCHANGED <<queue, nonce, started, arrived>>
      BY <1>4 DEF Offer, brokerVars, histVars
    <3>2. UNCHANGED <<moving, spillQueue, spills>>
      BY <2>2 DEF spillVars
    <3>3. Chain' = Chain /\ Len(Line') = Len(Line)
      BY <1>2, <2>2, <3>1, <3>2
    <3>. QED BY <1>1, <2>2, <3>1, <3>2, <3>3
  <2>. QED BY <1>0, <1>4, <2>1, <2>2, OfferCases
<1>5. CASE Send
  BY <1>0, <1>5, SendKeepsOrder
<1>6. CASE TakeItem \/ BeginPublish \/ PublishConfirmed \/ PublishFailed \/ AckOriginal
  <2>1. UNCHANGED <<lanes, started, spills, arrived>>
    BY <1>6 DEF TakeItem, BeginPublish, PublishConfirmed, PublishFailed, AckOriginal,
                OverflowFrame, laneVars, histVars
  <2>2. Chain' = Chain /\ (Len(Line') = Len(Line) \/ Len(Line') = Len(Line) + 1)
    BY <1>0, <1>6, TakeItemKeepsChain, ConfirmKeepsChain, MoveStepKeepsChain
  <2>. QED BY <1>1, <2>1, <2>2
<1>7. ASSUME NEW c \in Channels, DrainPop(c) PROVE ChainInOrder'
  <2>1. UNCHANGED <<hand, queue, nonce, moving, spillQueue, spills, arrived>>
    BY <1>7 DEF DrainPop, brokerVars, loopVars, spillVars
  <2>2. Chain' = Chain /\ Len(Line') = Len(Line)
    BY <1>2, <2>1
  <2>3. ASSUME NEW k \in Channels PROVE Admitted(k)' = Admitted(k)
    <3>1. CASE k = c
      <4>1. PICK u \in Nat, l \in Nat : u = Started(c) /\ l = Len(lanes[c].jobs)
        BY <1>0, LaneValues
      <4>2. Started(c)' = u + 1 /\ Len(lanes'[c].jobs) + 1 = l
        BY <1>0, <1>7, <4>1, StartsNext
      <4>3. PICK l2 \in Nat : l2 = Len(lanes'[c].jobs)
        <5>1. lanes'[c].jobs \in Seq(Message)
          BY DEF TypeOK, Lane
        <5>. QED BY <5>1, LenProperties
      <4>4. (u + 1) + l2 = u + l
        <5>1. l2 + 1 = l
          BY <4>2, <4>3
        <5>. QED BY <5>1
      <4>. QED BY <3>1, <4>1, <4>2, <4>3, <4>4 DEF Admitted
    <3>2. CASE k # c
      <4>1. lanes'[k] = lanes[k] /\ started'[k] = started[k]
        <5>1. started' = [started EXCEPT ![c] = 1..(Started(c) + 1)] /\ lanes'[k] = lanes[k]
          BY <1>0, <1>7, <3>2, StartsNext
        <5>. QED BY <1>0, <3>2, <5>1 DEF TypeOK
      <4>. QED BY <4>1 DEF Admitted, Started
    <3>. QED BY <3>1, <3>2
  <2>. QED BY <1>0, <2>1, <2>2, <2>3, OrderStays
<1>8. ASSUME NEW c \in Channels, DrainExit(c) PROVE ChainInOrder'
  <2>1. /\ lanes[c].jobs = <<>> /\ lanes' = [lanes EXCEPT ![c] = NoLane]
        /\ UNCHANGED <<hand, queue, nonce, moving, spillQueue, spills, arrived, started>>
    BY <1>8 DEF DrainExit, brokerVars, loopVars, spillVars, histVars
  <2>2. NoLane.jobs = <<>>
    BY DEF NoLane
  <2>3. \A k \in Channels : lanes'[k].jobs = lanes[k].jobs
    BY <1>0, <2>1, <2>2 DEF TypeOK
  <2>4. \A k \in Channels : Admitted(k)' = Admitted(k)
    BY <2>1, <2>3 DEF Admitted, Started
  <2>5. Chain' = Chain /\ Len(Line') = Len(Line)
    BY <1>2, <2>1
  <2>. QED BY <1>0, <2>1, <2>4, <2>5, OrderStays
<1>9. ASSUME NEW c \in Channels, Finish(c) PROVE ChainInOrder'
  <2>1. UNCHANGED <<hand, queue, nonce, moving, spillQueue, spills, arrived, started, lanes>>
    BY <1>9 DEF Finish, Return, brokerVars, loopVars, spillVars
  <2>. QED BY <1>1, <1>2, <2>1
<1>10. ASSUME NEW c \in Channels, Publish(c) PROVE ChainInOrder'
  BY <1>0, <1>10, PublishKeepsOrder
<1>11. CASE UNCHANGED vars
  <2>1. UNCHANGED <<hand, queue, nonce, moving, spillQueue, spills, arrived, started, lanes>>
    BY <1>11 DEF vars, brokerVars, loopVars, laneVars, spillVars, histVars
  <2>. QED BY <1>1, <1>2, <2>1
<1>. QED BY <1>0, <1>3, <1>4, <1>5, <1>6, <1>7, <1>8, <1>9, <1>10, <1>11, FaultlessNext

LEMMA FifoInit ==
  ASSUME NoFaults, Init
  PROVE  FifoInv
<1>. USE DEF Init
<1>1. \A c \in Channels : spills[c] = NoSpill /\ lanes[c] = NoLane /\ running[c] = <<>>
                          /\ started[c] = {} /\ settled[c] = {} /\ arrived[c] = 0
  OBVIOUS
<1>2. Faultless
  BY <1>1 DEF Faultless, NoSpill
<1>3. OfferDue
  BY DEF OfferDue
<1>4. Len(Chain) = 0
  <2>1. OnBelt = <<>>
    BY DEF OnBelt
  <2>2. Copies(<<>>) = <<>>
    BY DEF Copies
  <2>3. Belt = <<>> \o <<>> /\ Line = <<>> \o <<>>
    BY <2>1, <2>2 DEF Belt, Line
  <2>4. <<>> \o <<>> = <<>> /\ Len(<<>>) = 0
    BY EmptySeq, ConcatEmptySeq
  <2>. QED BY <2>3, <2>4 DEF Chain
<1>5. ChainInOrder
  BY <1>4 DEF ChainInOrder
<1>6. ASSUME NEW c \in Channels PROVE LaneInOrder(c)
  <2>1. Cardinality({}) = 0
    BY FS_EmptySet
  <2>2. Started(c) = 0
    BY <1>1, <2>1 DEF Started
  <2>3. lanes[c].jobs = <<>> /\ Len(<<>>) = 0
    BY <1>1 DEF NoLane
  <2>4. Admitted(c) = 0
    BY <2>2, <2>3 DEF Admitted
  <2>5. NoSpill.next = 0 /\ NoSpill.expected = 0
    BY DEF NoSpill
  <2>6. Admitted(c) + spills[c].next <= arrived[c] + spills[c].expected
    BY <1>1, <2>4, <2>5
  <2>7. 1..0 = {}
    OBVIOUS
  <2>. QED BY <1>1, <2>2, <2>3, <2>6, <2>7 DEF LaneInOrder
<1>. QED BY <1>2, <1>3, <1>5, <1>6 DEF FifoInv

LEMMA FifoStep ==
  ASSUME NoFaults, IInv, IInv', FifoInv, [Next]_vars
  PROVE  FifoInv'
<1>1. /\ TypeInv /\ TypeOK /\ TypeOK' /\ CommandsKept /\ Serial /\ SpillExpectsAssigned
      /\ ItemsOnHold
  BY DEF IInv, TypeInv
<1>2. Faultless'
  BY <1>1, FaultlessStep DEF FifoInv
<1>3. OfferDue'
  BY <1>1, OfferStep DEF FifoInv
<1>4. ChainInOrder'
  BY <1>1, OrderStep
<1>5. \A c \in Channels : LaneInOrder(c)'
  BY <1>1, LanesStep
<1>. QED BY <1>2, <1>3, <1>4, <1>5 DEF FifoInv

LEMMA FifoInductive ==
  ASSUME NoFaults
  PROVE  Spec => [](IInv /\ FifoInv)
<1>1. Init => FifoInv
  BY FifoInit
<1>2. IInv /\ IInv' /\ FifoInv /\ [Next]_vars => FifoInv'
  BY FifoStep
<1>. QED BY <1>1, <1>2, Inductive, PTL DEF Spec

\* The steps of the lanes are steps of the executors; the other ones are not seen.
LEMMA StartIsStart ==
  ASSUME TypeOK, Serial, SpillExpectsAssigned, NEW c \in Channels, LaneInOrder(c),
         DrainPop(c)
  PROVE  Fifo!Start(c)
<1>1. PICK h \in Message, u \in Nat :
        /\ h = Head(lanes[c].jobs) /\ u = Started(c) /\ h.n = u + 1 /\ running[c] = <<>>
        /\ running' = [running EXCEPT ![c] = <<h>>]
  <2>1. Started(c) \in Nat
    BY DEF LaneInOrder
  <2>. QED BY <2>1, StartsNext
<1>2. UNCHANGED <<arrived, settled>>
  BY DEF DrainPop
<1>3. settled[c] = 1..u
  BY <1>1 DEF LaneInOrder
<1>4. u + 1 <= arrived[c]
  <2>1. PICK m \in Nat, l \in Nat, a \in Nat, x \in Nat, e \in Nat :
          /\ m = Admitted(c) /\ l = Len(lanes[c].jobs) /\ a = arrived[c]
          /\ x = spills[c].next /\ e = spills[c].expected
    <3>1. Admitted(c) \in Nat /\ Len(lanes[c].jobs) \in Nat
      BY LaneValues
    <3>2. arrived[c] \in Nat /\ spills[c].next \in Nat /\ spills[c].expected \in Nat
      BY DEF TypeOK, Spill
    <3>. QED BY <3>1, <3>2
  <2>2. m = u + l
    BY <1>1, <2>1 DEF Admitted
  <2>3. m + x <= a + e
    BY <2>1 DEF LaneInOrder
  <2>4. e <= x
    <3>1. CASE HasSpill(c)
      BY <2>1, <3>1 DEF SpillExpectsAssigned
    <3>2. CASE ~HasSpill(c)
      BY <2>1, <3>2 DEF HasSpill, NoSpill
    <3>. QED BY <3>1, <3>2
  <2>5. l # 0
    BY <2>1, LaneSeqs, EmptySeq DEF DrainPop
  <2>6. u + 1 <= a
    BY <2>2, <2>3, <2>4, <2>5
  <2>. QED BY <2>1, <2>6
<1>5. running'[c] = <<h>> /\ \A k \in Channels : k # c => running'[k] = running[k]
  BY <1>1 DEF TypeOK
<1>6. <<h>> # <<>> /\ <<h>>[1] = h
  OBVIOUS
<1> DEFINE current == [k \in Channels |-> IF running[k] = <<>> THEN 0 ELSE running[k][1].n]
<1>7. current[c] = 0
  BY <1>1
<1>8. current' = [current EXCEPT ![c] = u + 1]
  <2> DEFINE now(k) == IF running[k] = <<>> THEN 0 ELSE running[k][1].n
  <2>1. now(c)' = u + 1
    BY <1>1, <1>5, <1>6
  <2>2. \A k \in Channels : k # c => now(k)' = now(k)
    BY <1>5
  <2>3. current = [k \in Channels |-> now(k)] /\ current' = [k \in Channels |-> now(k)']
    OBVIOUS
  <2>. HIDE DEF now, current
  <2>. QED BY <2>1, <2>2, <2>3
<1>9. u + 1 \in 1..arrived[c] /\ settled[c] = 1..((u + 1) - 1)
  BY <1>3, <1>4 DEF TypeOK
<1>. QED BY <1>2, <1>7, <1>8, <1>9 DEF Fifo!Start

LEMMA FinishIsFinish ==
  ASSUME TypeOK, Serial, NEW c \in Channels, LaneInOrder(c), Finish(c)
  PROVE  Fifo!Finish(c)
<1>1. /\ running[c] # <<>> /\ running[c][1].n = Started(c)
      /\ running' = [running EXCEPT ![c] = <<>>]
      /\ settled' = [settled EXCEPT ![c] = settled[c] \cup {running[c][1].n}]
  BY FinishesLast
<1>2. UNCHANGED arrived
  BY DEF Finish, Return
<1>3. running[c][1].n # 0
  BY <1>1 DEF LaneInOrder
<1>4. running'[c] = <<>> /\ \A k \in Channels : k # c => running'[k] = running[k]
  BY <1>1 DEF TypeOK
<1> DEFINE current == [k \in Channels |-> IF running[k] = <<>> THEN 0 ELSE running[k][1].n]
<1>5. current[c] = running[c][1].n
  BY <1>1
<1>6. current' = [current EXCEPT ![c] = 0]
  BY <1>4
<1>. QED BY <1>1, <1>2, <1>3, <1>5, <1>6 DEF Fifo!Finish

LEMMA FifoSteps ==
  ASSUME NoFaults, IInv, FifoInv, [Next]_vars
  PROVE  [Fifo!Next]_(Fifo!vars)
<1>0. /\ TypeOK /\ Serial /\ SpillExpectsAssigned /\ Faultless
      /\ \A c \in Channels : LaneInOrder(c)
  BY DEF IInv, TypeInv, FifoInv
<1>1. ASSUME UNCHANGED <<arrived, running, settled>>
      PROVE  UNCHANGED Fifo!vars
  BY <1>1 DEF Fifo!vars
<1>2. CASE Receive \/ Offer \/ Send
  <2>1. UNCHANGED <<arrived, running, settled>>
    BY <1>2 DEF Receive, Offer, Send, laneVars, histVars
  <2>. QED BY <1>1, <2>1
<1>3. CASE TakeItem \/ BeginPublish \/ PublishConfirmed \/ PublishFailed \/ AckOriginal
  <2>1. UNCHANGED <<arrived, running, settled>>
    BY <1>3 DEF TakeItem, BeginPublish, PublishConfirmed, PublishFailed, AckOriginal,
                OverflowFrame, laneVars, histVars
  <2>. QED BY <1>1, <2>1
<1>4. ASSUME NEW c \in Channels, DrainPop(c) PROVE Fifo!Next
  BY <1>0, <1>4, StartIsStart DEF Fifo!Next
<1>5. ASSUME NEW c \in Channels, DrainExit(c) PROVE UNCHANGED Fifo!vars
  BY <1>1, <1>5 DEF DrainExit, histVars
<1>6. ASSUME NEW c \in Channels, Finish(c) PROVE Fifo!Next
  BY <1>0, <1>6, FinishIsFinish DEF Fifo!Next
<1>7. ASSUME NEW c \in Channels, Publish(c) PROVE Fifo!Next
  <2>1. UNCHANGED <<running, settled>>
    BY <1>7 DEF Publish, laneVars, histVars
  <2>2. Fifo!Arrive(c)
    BY <1>7, <2>1 DEF Publish, Fifo!Arrive
  <2>. QED BY <2>2 DEF Fifo!Next
<1>8. CASE UNCHANGED vars
  BY <1>1, <1>8 DEF vars, laneVars, histVars
<1>. QED BY <1>0, <1>2, <1>3, <1>4, <1>5, <1>6, <1>7, <1>8, FaultlessNext

\* Without faults, the lanes and the overflow are executors that run the commands of
\* each channel one after the other, each once, in the order of their publication.
THEOREM ImplementsFifo ==
  ASSUME NoFaults
  PROVE  Spec => Fifo!Init /\ [][Fifo!Next]_(Fifo!vars)
<1>1. Init => Fifo!Init
  BY DEF Init, Fifo!Init
<1>2. IInv /\ FifoInv /\ [Next]_vars => [Fifo!Next]_(Fifo!vars)
  BY FifoSteps
<1>. QED BY <1>1, <1>2, FifoInductive, PTL DEF Spec

\* Without faults the commands of a channel start in the order they were published.
THEOREM StartsInOrder ==
  ASSUME NoFaults
  PROVE  Spec => []InOrder
<1>1. FifoInv => InOrder
  BY DEF FifoInv, LaneInOrder, InOrder, Started
<1>. QED BY <1>1, FifoInductive, PTL
=============================================================================
