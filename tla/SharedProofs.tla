---------------------------- MODULE SharedProofs ----------------------------
(***************************************************************************)
(* The components that module MCShared checks in one run, each proved of   *)
(* its own specification: the pairing slot, the ownership of the shards,   *)
(* the channels' state, the info caches, the rpc server, the sound of a    *)
(* call, the inbound events, the translation of history; at the end, that  *)
(* the run takes each through its own specification. CallReply has a       *)
(* module of its own.                                                      *)
(***************************************************************************)
EXTENDS MCShared, CallReplyProofs, SequenceTheorems, FiniteSetTheorems,
        WellFoundedInduction, TLAPS

(***************************************************************************)
(* PairingSlot: SlotTypes and PropsMatchPairing, for any pairings and any  *)
(* capacity. The props follow the pairings because an import is alone      *)
(* inside, which the queue of the semaphore has to preserve.               *)
(***************************************************************************)

\* Those in the queue are waiting, each once.
Queued ==
  /\ \A i \in 1..Len(waiters) : slotStep[waiters[i]] = "waiting"
  /\ \A i, j \in 1..Len(waiters) : waiters[i] = waiters[j] => i = j

\* A pairing with an import is alone inside.
Alone == \A h \in Histories, p \in Pairings : h \in Inside /\ p \in Inside => p = h

\* It found the base there.
FoundBase == \A h \in Histories : slotStep[h] = "holding" => previous[h] = "base"

SlotInv == SlotTypes /\ Queued /\ Alone /\ FoundBase /\ PropsMatchPairing

-----------------------------------------------------------------------------
\* What RemoveAt leaves, place by place.
LEMMA Removed ==
  ASSUME NEW S, NEW s \in Seq(S), NEW i \in 1..Len(s)
  PROVE  /\ RemoveAt(s, i) \in Seq(S) /\ Len(RemoveAt(s, i)) = Len(s) - 1
         /\ \A j \in 1..(Len(s) - 1) : RemoveAt(s, i)[j] = IF j < i THEN s[j] ELSE s[j + 1]
<1> DEFINE a == SubSeq(s, 1, i - 1)
           b == SubSeq(s, i + 1, Len(s))
<1>1. Len(s) \in Nat
  OBVIOUS
<1>2. a \in Seq(S) /\ Len(a) = i - 1 /\ \A j \in 1..(i - 1) : a[j] = s[j]
  BY <1>1
<1>3. b \in Seq(S) /\ Len(b) = Len(s) - i /\ \A j \in 1..(Len(s) - i) : b[j] = s[i + j]
  BY <1>1
<1>. HIDE DEF a, b
<1>4. /\ a \o b \in Seq(S) /\ Len(a \o b) = Len(a) + Len(b)
      /\ \A j \in 1..(Len(a) + Len(b)) : (a \o b)[j] = IF j <= Len(a) THEN a[j] ELSE b[j - Len(a)]
  BY <1>2, <1>3, ConcatProperties
<1>5. ASSUME NEW j \in 1..(Len(s) - 1)
      PROVE  (a \o b)[j] = IF j < i THEN s[j] ELSE s[j + 1]
  <2>1. CASE j < i
    BY <2>1, <1>1, <1>2, <1>3, <1>4
  <2>2. CASE ~(j < i)
    <3>1. /\ j \in 1..(Len(a) + Len(b)) /\ ~(j <= Len(a))
          /\ j - Len(a) \in 1..(Len(s) - i) /\ i + (j - Len(a)) = j + 1
      BY <2>2, <1>1, <1>2, <1>3
    <3>. QED BY <3>1, <2>2, <1>3, <1>4
  <2>. QED BY <2>1, <2>2
<1>6. RemoveAt(s, i) = a \o b
  BY DEF RemoveAt, a, b
<1>7. Len(a) + Len(b) = Len(s) - 1
  BY <1>1, <1>2, <1>3
<1>8. Len(a \o b) = Len(s) - 1 /\ a \o b \in Seq(S)
  BY <1>4, <1>7
<1>. QED BY <1>5, <1>6, <1>8, Zenon

LEMMA SlotInitially ==
  ASSUME PairingConstants, SlotInit
  PROVE  SlotInv
BY DEF PairingConstants, SlotInit, SlotInv, SlotTypes, SlotSteps, Props, Queued, Alone, Inside, FoundBase, PropsMatchPairing

-----------------------------------------------------------------------------
(* Every step keeps the types and the queue.                                *)

LEMMA SlotKeepsTypes ==
  ASSUME PairingConstants, SlotInv, [SlotNext]_slotVars
  PROVE  SlotTypes'
<1>. USE DEF SlotInv, SlotTypes, SlotSteps, Props
<1>1. ASSUME NEW p \in Pairings, Ask(p) PROVE SlotTypes'
  BY <1>1 DEF Ask, SlotGoes, PropsFrame
<1>2. CASE Grant
  BY <1>2, HeadTailProperties DEF Grant, SlotGoes, PropsFrame
<1>3. ASSUME NEW p \in Pairings, TimeOut(p) PROVE SlotTypes'
  BY <1>3, Removed DEF TimeOut, SlotGoes, PropsFrame
<1>4. ASSUME NEW p \in Pairings, Take(p) \/ Restore(p) \/ ReleaseSlot(p) PROVE SlotTypes'
  BY <1>4 DEF Take, Restore, ReleaseSlot, SlotGoes, PropsFrame
<1>5. CASE UNCHANGED slotVars
  BY <1>5 DEF slotVars
<1>. QED BY <1>1, <1>2, <1>3, <1>4, <1>5 DEF SlotNext, Step, SlotRest

LEMMA KeepsQueue ==
  ASSUME PairingConstants, SlotInv, [SlotNext]_slotVars
  PROVE  Queued'
<1>. USE DEF SlotInv, SlotTypes, Queued
<1>0. waiters \in Seq(Pairings) /\ slotStep \in [Pairings -> SlotSteps]
  OBVIOUS
<1>1. ASSUME NEW p \in Pairings, Ask(p) PROVE Queued'
  <2>1. /\ waiters' = Append(waiters, p) /\ Len(waiters') = Len(waiters) + 1
        /\ waiters'[Len(waiters) + 1] = p /\ \A i \in 1..Len(waiters) : waiters'[i] = waiters[i]
    BY <1>1, <1>0, AppendProperties DEF Ask
  <2>2. \A i \in 1..Len(waiters) : waiters[i] # p /\ waiters[i] \in Pairings
    BY <1>1, <1>0 DEF Ask
  <2>3. /\ slotStep'[p] = "waiting"
        /\ \A q \in Pairings : q # p => slotStep'[q] = slotStep[q]
    BY <1>1, <1>0 DEF Ask, SlotGoes
  <2>4. 1..Len(waiters') = 1..Len(waiters) \cup {Len(waiters) + 1}
    BY <2>1, <1>0
  <2>. QED BY <2>1, <2>2, <2>3, <2>4, <1>0
<1>2. CASE Grant
  <2>1. /\ waiters # <<>> /\ waiters' = Tail(waiters) /\ Len(waiters') = Len(waiters) - 1
        /\ \A i \in 1..(Len(waiters) - 1) : waiters'[i] = waiters[i + 1]
    BY <1>2, <1>0, HeadTailProperties DEF Grant
  <2>2. Head(waiters) = waiters[1] /\ 1 \in 1..Len(waiters) /\ waiters[1] \in Pairings
    BY <2>1, <1>0, HeadTailProperties
  <2>3. \A q \in Pairings : q # waiters[1] => slotStep'[q] = slotStep[q]
    BY <1>2, <2>2, <1>0 DEF Grant, SlotGoes
  <2>4. \A i \in 1..(Len(waiters) - 1) :
          i + 1 \in 1..Len(waiters) /\ waiters[i + 1] \in Pairings /\ waiters[i + 1] # waiters[1]
    BY <2>2, <1>0
  <2>. QED BY <2>1, <2>3, <2>4, <1>0
<1>3. ASSUME NEW p \in Pairings, TimeOut(p) PROVE Queued'
  <2>1. PICK i \in 1..Len(waiters) : waiters[i] = p /\ waiters' = RemoveAt(waiters, i)
    BY <1>3, <1>0 DEF TimeOut
  <2>2. /\ Len(waiters') = Len(waiters) - 1
        /\ \A j \in 1..(Len(waiters) - 1) : waiters'[j] = IF j < i THEN waiters[j] ELSE waiters[j + 1]
    BY <2>1, <1>0, Removed
  <2> DEFINE old(j) == IF j < i THEN j ELSE j + 1
  <2>3. \A j \in 1..(Len(waiters) - 1) :
          /\ old(j) \in 1..Len(waiters) /\ old(j) # i /\ waiters'[j] = waiters[old(j)]
          /\ waiters[old(j)] \in Pairings
    BY <2>2, <1>0
  <2>4. \A j, k \in 1..(Len(waiters) - 1) : old(j) = old(k) => j = k
    BY <1>0
  <2>5. \A q \in Pairings : q # p => slotStep'[q] = slotStep[q]
    BY <1>3, <1>0 DEF TimeOut, SlotGoes
  <2>. HIDE DEF old
  <2>6. ASSUME NEW j \in 1..Len(waiters')
        PROVE  slotStep'[waiters'[j]] = "waiting" /\ waiters'[j] \in Pairings
    <3>1. j \in 1..(Len(waiters) - 1)
      BY <2>2
    <3>2. waiters[old(j)] # p
      BY <2>1, <2>3, <3>1, <1>0
    <3>. QED BY <2>3, <2>5, <3>1, <3>2, <1>0
  <2>7. ASSUME NEW j \in 1..Len(waiters'), NEW k \in 1..Len(waiters'), waiters'[j] = waiters'[k]
        PROVE  j = k
    <3>1. j \in 1..(Len(waiters) - 1) /\ k \in 1..(Len(waiters) - 1)
      BY <2>2
    <3>2. old(j) = old(k)
      BY <2>3, <2>7, <3>1, <1>0
    <3>. QED BY <2>4, <3>1, <3>2
  <2>. QED BY <2>6, <2>7
<1>4. ASSUME NEW p \in Pairings, Take(p) \/ Restore(p) \/ ReleaseSlot(p) PROVE Queued'
  <2>1. waiters' = waiters /\ slotStep[p] # "waiting" /\ \A q \in Pairings : q # p => slotStep'[q] = slotStep[q]
    BY <1>4, <1>0 DEF Take, Restore, ReleaseSlot, SlotGoes
  <2>. QED BY <2>1, <1>0
<1>5. CASE UNCHANGED slotVars
  BY <1>5 DEF slotVars
<1>. QED BY <1>1, <1>2, <1>3, <1>4, <1>5 DEF SlotNext, Step, SlotRest

-----------------------------------------------------------------------------
(* Who is inside, and the props.                                            *)

LEMMA KeepsAlone ==
  ASSUME PairingConstants, SlotInv, [SlotNext]_slotVars
  PROVE  Alone'
<1>. USE DEF SlotInv, SlotTypes, PairingConstants
<1>1. CASE Grant
  <2> DEFINE g == Head(waiters)
  <2>1. g \in Pairings /\ slotStep' = [slotStep EXCEPT ![g] = "granted"] /\ Fits(g)
    BY <1>1, HeadTailProperties DEF Grant, SlotGoes
  <2>. HIDE DEF g
  <2>2. Inside' = Inside \cup {g}
    BY <2>1 DEF Inside
  <2>3. CASE g \in Histories
    BY <2>1, <2>2, <2>3 DEF Fits, Alone
  <2>4. CASE g \notin Histories
    BY <2>1, <2>2, <2>4 DEF Fits, Alone
  <2>. QED BY <2>3, <2>4
<1>2. CASE Inside' \subseteq Inside
  BY <1>2 DEF Alone
<1>3. ASSUME NEW p \in Pairings, Step(p) PROVE Inside' \subseteq Inside
  BY <1>3 DEF Step, Ask, TimeOut, Take, Restore, ReleaseSlot, SlotGoes, Inside
<1>4. CASE UNCHANGED slotVars
  BY <1>4 DEF slotVars, Inside, Alone
<1>. QED BY <1>1, <1>2, <1>3, <1>4 DEF SlotNext, SlotRest

LEMMA KeepsProps ==
  ASSUME PairingConstants, SlotInv, [SlotNext]_slotVars
  PROVE  (FoundBase /\ PropsMatchPairing)'
<1>. USE DEF SlotInv, SlotTypes, SlotSteps, PairingConstants, FoundBase, PropsMatchPairing
<1>1. ASSUME NEW p \in Pairings, Ask(p) \/ TimeOut(p) \/ ReleaseSlot(p)
      PROVE  (FoundBase /\ PropsMatchPairing)'
  BY <1>1 DEF Ask, TimeOut, ReleaseSlot, SlotGoes, PropsFrame
<1>2. CASE Grant
  <2>1. Head(waiters) \in Pairings /\ slotStep[Head(waiters)] = "waiting"
    BY <1>2, HeadTailProperties DEF Grant, Queued
  <2>. QED BY <1>2, <2>1 DEF Grant, SlotGoes, PropsFrame
<1>3. ASSUME NEW p \in Pairings, Take(p)
      PROVE  (FoundBase /\ PropsMatchPairing)'
  <2>1. CASE p \in Histories
    <3>1. \A q \in Pairings : slotStep[q] # "holding"
      BY <1>3, <2>1 DEF Take, Alone, Inside
    <3>. QED BY <1>3, <2>1, <3>1 DEF Take, SlotGoes
  <2>2. CASE p \notin Histories
    <3>1. \A h \in Histories : slotStep[h] # "holding"
      BY <1>3, <2>2 DEF Take, Alone, Inside
    <3>2. props = "base"
      BY <3>1
    <3>. QED BY <1>3, <2>2, <3>2 DEF Take, SlotGoes
  <2>. QED BY <2>1, <2>2
<1>4. ASSUME NEW p \in Pairings, Restore(p)
      PROVE  (FoundBase /\ PropsMatchPairing)'
  <2>1. CASE p \in Histories
    <3>1. previous[p] = "base" /\ \A q \in Pairings : slotStep[q] = "holding" => q = p
      BY <1>4, <2>1 DEF Restore, Alone, Inside
    <3>. QED BY <1>4, <2>1, <3>1 DEF Restore, SlotGoes
  <2>2. CASE p \notin Histories
    BY <1>4, <2>2 DEF Restore, SlotGoes
  <2>. QED BY <2>1, <2>2
<1>5. CASE UNCHANGED slotVars
  BY <1>5 DEF slotVars
<1>. QED BY <1>1, <1>2, <1>3, <1>4, <1>5 DEF SlotNext, Step, SlotRest

-----------------------------------------------------------------------------
LEMMA SlotInductive ==
  ASSUME PairingConstants
  PROVE  SlotSpec => []SlotInv
<1>1. SlotInit => SlotInv
  BY SlotInitially
<1>2. SlotInv /\ [SlotNext]_slotVars => SlotInv'
  BY SlotKeepsTypes, KeepsQueue, KeepsAlone, KeepsProps DEF SlotInv
<1>. QED BY <1>1, <1>2, PTL DEF SlotSpec

\* Types of the slot and its queue.
THEOREM SlotTypeCorrect ==
  ASSUME PairingConstants
  PROVE  SlotSpec => []SlotTypes
<1>1. SlotInv => SlotTypes
  BY DEF SlotInv
<1>. QED BY <1>1, SlotInductive, PTL

\* The process-wide props are those of every pairing that may register, an ordinary
\* one or an import, for every number of pairings and every capacity.
THEOREM PropsFollow ==
  ASSUME PairingConstants
  PROVE  SlotSpec => []PropsMatchPairing
<1>1. SlotInv => PropsMatchPairing
  BY DEF SlotInv
<1>. QED BY <1>1, SlotInductive, PTL

(***************************************************************************)
(* ShardOwnership: OwnershipTypes and OwnsWhileActive, for any number of   *)
(* instances and shards and any amount of trouble. What an instance owns   *)
(* follows from the step of gateway.run it is at.                          *)
(***************************************************************************)

\* An instance that is down or still claims has nothing at work; the one that
\* claims has every shard before its cursor, unless a lease lapsed.
Claiming(i) ==
  /\ process[i] \in {"down", "claiming"} => i \notin serves \cup online
  /\ process[i] = "claiming" /\ i \notin excused =>
       \A s \in Shard : s < cursor[i] => lease[s] = i

\* One that has booted has every shard until it releases the first.
Owning(i) ==
  i \notin excused =>
    /\ process[i] \in {"booting", "running", "draining", "aborting"} => \A s \in Shard : lease[s] = i
    /\ process[i] = "aborting" => i \notin serves
    /\ process[i] = "releasing" => i \notin serves \cup online

ShardInv == OwnershipTypes /\ \A i \in Instances : Claiming(i) /\ Owning(i)

-----------------------------------------------------------------------------
LEMMA ShardInitially ==
  ASSUME OwnershipConstants, OwnershipInit
  PROVE  ShardInv
BY DEF OwnershipConstants, OwnershipInit, ShardInv, OwnershipTypes, Shard, Phases, Claiming, Owning

LEMMA ShardKeepsTypes ==
  ASSUME OwnershipConstants, ShardInv, [OwnershipNext]_shardVars
  PROVE  OwnershipTypes'
<1>. USE DEF OwnershipConstants, ShardInv, OwnershipTypes, Phases, Smooth, Mishap, GoTo, Gone
<1>1. ASSUME NEW i \in Instances, Start(i) PROVE OwnershipTypes'
  BY <1>1 DEF Start
<1>2. ASSUME NEW i \in Instances, Claim(i) PROVE OwnershipTypes'
  <2>1. cursor[i] \in Shard /\ cursor[i] + 1 \in 0..Shards
    BY <1>2 DEF Claim, Shard
  <2>. QED BY <1>2, <2>1 DEF Claim
<1>3. ASSUME NEW i \in Instances, Boot(i) \/ Started(i) \/ Stop(i) \/ Crash(i)
      PROVE  OwnershipTypes'
  BY <1>3 DEF Boot, Started, Stop, Crash
<1>4. ASSUME NEW i \in Instances, BootFails(i) \/ Drained(i) \/ Disconnect(i) \/ Exit(i)
      PROVE  OwnershipTypes'
  BY <1>4 DEF BootFails, Drained, Disconnect, Exit
<1>5. ASSUME NEW i \in Instances, Release(i) PROVE OwnershipTypes'
  <2>1. cursor[i] \in Shard /\ cursor[i] + 1 \in 0..Shards /\ Freed(i, cursor[i]) \in Instances \cup {NoOwner}
    BY <1>5 DEF Release, Shard, Freed
  <2>. QED BY <1>5, <2>1 DEF Release
<1>6. ASSUME NEW s \in Shard, Expire(s) PROVE OwnershipTypes'
  BY <1>6 DEF Expire
<1>7. CASE UNCHANGED shardVars
  BY <1>7 DEF shardVars
<1>. QED BY <1>1, <1>2, <1>3, <1>4, <1>5, <1>6, <1>7 DEF OwnershipNext, Life

-----------------------------------------------------------------------------
\* A step of one instance leaves another at its own step.
Apart(i, j) ==
  /\ process'[j] = process[j] /\ cursor'[j] = cursor[j]
  /\ (j \in serves' <=> j \in serves) /\ (j \in online' <=> j \in online)
  /\ (j \in excused' <=> j \in excused)

Of(i) == Start(i) \/ Life(i) \/ BootFails(i) \/ Stop(i) \/ Crash(i)

LEMMA OthersApart ==
  ASSUME OwnershipConstants, ShardInv, NEW i \in Instances, Of(i), NEW j \in Instances \ {i}
  PROVE  Apart(i, j)
<1>. USE DEF ShardInv, OwnershipTypes, GoTo, Gone, Apart
<1>1. CASE Start(i) \/ Claim(i) \/ Boot(i) \/ Started(i)
  BY <1>1 DEF Start, Claim, Boot, Started
<1>2. CASE BootFails(i) \/ Stop(i) \/ Drained(i) \/ Disconnect(i)
  BY <1>2 DEF BootFails, Stop, Drained, Disconnect
<1>3. CASE Release(i) \/ Exit(i) \/ Crash(i)
  BY <1>3 DEF Release, Exit, Crash
<1>. QED BY <1>1, <1>2, <1>3 DEF Of, Life

\* Nor does it take a lease of another: claims and releases look at the owner.
LEMMA LeasesStay ==
  ASSUME OwnershipConstants, ShardInv, NEW i \in Instances, Of(i),
         NEW s \in Shard, lease[s] \in Instances \ {i}
  PROVE  lease'[s] = lease[s]
<1>. USE DEF OwnershipConstants, ShardInv, OwnershipTypes
<1>1. CASE Claim(i)
  BY <1>1 DEF Claim, Claims
<1>2. CASE Release(i)
  <2>1. cursor[i] \in Shard
    BY <1>2 DEF Release, Shard
  <2>. QED BY <1>2, <2>1 DEF Release, Freed
<1>3. CASE Start(i) \/ Boot(i) \/ Started(i) \/ Drained(i) \/ Disconnect(i) \/ Exit(i)
           \/ BootFails(i) \/ Stop(i) \/ Crash(i)
  BY <1>3 DEF Start, Boot, Started, Drained, Disconnect, Exit, BootFails, Stop, Crash
<1>. QED BY <1>1, <1>2, <1>3 DEF Of, Life

LEMMA OthersKeep ==
  ASSUME OwnershipConstants, ShardInv, NEW i \in Instances, Of(i), NEW j \in Instances \ {i}
  PROVE  (Claiming(j) /\ Owning(j))'
<1>1. Apart(i, j) /\ Claiming(j) /\ Owning(j) /\ NoOwner \notin Instances
  BY OthersApart DEF ShardInv, OwnershipConstants
<1>2. \A s \in Shard : lease[s] = j => lease'[s] = j
  BY LeasesStay
<1>. QED BY <1>1, <1>2 DEF Apart, Claiming, Owning

-----------------------------------------------------------------------------
(* The instance that takes a step.                                          *)

LEMMA StepKeeps ==
  ASSUME OwnershipConstants, ShardInv, NEW i \in Instances, Of(i)
  PROVE  (Claiming(i) /\ Owning(i))'
<1>. USE DEF OwnershipConstants, ShardInv, OwnershipTypes, GoTo, Gone, Claiming, Owning
<1>1. CASE Start(i)
  BY <1>1 DEF Start, Shard
<1>2. CASE Claim(i)
  <2>1. cursor[i] \in Shard /\ process[i] = "claiming"
    BY <1>2 DEF Claim, Shard
  <2>2. CASE process'[i] = "down"
    BY <1>2, <2>1, <2>2 DEF Claim
  <2>3. CASE process'[i] # "down"
    <3>1. /\ lease' = [lease EXCEPT ![cursor[i]] = i] /\ cursor'[i] = cursor[i] + 1
          /\ UNCHANGED <<process, serves, online, excused>>
      BY <1>2, <2>3 DEF Claim
    <3>2. \A s \in Shard : s < cursor[i] + 1 => s < cursor[i] \/ s = cursor[i]
      BY <2>1 DEF Shard
    <3>. QED BY <2>1, <3>1, <3>2
  <2>. QED BY <2>2, <2>3
<1>3. CASE Boot(i)
  <2>1. \A s \in Shard : s < cursor[i]
    BY <1>3 DEF Boot, Shard
  <2>. QED BY <1>3, <2>1 DEF Boot
<1>4. CASE Started(i) \/ BootFails(i) \/ Stop(i)
  BY <1>4 DEF Started, BootFails, Stop
<1>5. CASE Drained(i) \/ Disconnect(i)
  BY <1>5 DEF Drained, Disconnect
<1>6. CASE Release(i)
  BY <1>6 DEF Release
<1>7. CASE Exit(i) \/ Crash(i)
  BY <1>7 DEF Exit, Crash
<1>. QED BY <1>1, <1>2, <1>3, <1>4, <1>5, <1>6, <1>7 DEF Of, Life

\* A lease that lapses under an instance excuses it.
LEMMA ExpireKeeps ==
  ASSUME OwnershipConstants, ShardInv, NEW s \in Shard, Expire(s), NEW j \in Instances
  PROVE  (Claiming(j) /\ Owning(j))'
<1>. USE DEF OwnershipConstants, ShardInv, OwnershipTypes, Claiming, Owning
<1>1. /\ lease' = [lease EXCEPT ![s] = NoOwner] /\ lease[s] \in Instances
      /\ UNCHANGED <<process, cursor, serves, online>>
  BY DEF Expire
<1>2. CASE process[lease[s]] = "down"
  BY <1>1, <1>2 DEF Expire
<1>3. CASE process[lease[s]] # "down"
  <2>1. excused' = excused \cup {lease[s]}
    BY <1>3 DEF Expire
  <2>. QED BY <1>1, <2>1
<1>. QED BY <1>2, <1>3

-----------------------------------------------------------------------------
LEMMA ShardInductive ==
  ASSUME OwnershipConstants
  PROVE  OwnershipSpec => []ShardInv
<1>1. OwnershipInit => ShardInv
  BY ShardInitially
<1>2. ASSUME ShardInv, [OwnershipNext]_shardVars PROVE ShardInv'
  <2>1. ASSUME NEW i \in Instances, Of(i), NEW j \in Instances
        PROVE  (Claiming(j) /\ Owning(j))'
    BY <1>2, <2>1, OthersKeep, StepKeeps
  <2>2. CASE UNCHANGED shardVars
    BY <1>2, <2>2 DEF shardVars, ShardInv, OwnershipTypes, Claiming, Owning
  <2>3. ASSUME NEW j \in Instances PROVE (Claiming(j) /\ Owning(j))'
    <3>1. CASE \E i \in Instances : Of(i)
      BY <2>1, <3>1
    <3>2. CASE \E s \in Shard : Expire(s)
      BY <1>2, <3>2, ExpireKeeps
    <3>3. CASE UNCHANGED shardVars
      BY <2>2, <3>3 DEF ShardInv
    <3>. QED BY <1>2, <3>1, <3>2, <3>3 DEF OwnershipNext, Of
  <2>. QED BY <1>2, <2>3, ShardKeepsTypes DEF ShardInv
<1>. QED BY <1>1, <1>2, PTL DEF OwnershipSpec

\* Types of the leases and the processes.
THEOREM ShardTypeCorrect ==
  ASSUME OwnershipConstants
  PROVE  OwnershipSpec => []OwnershipTypes
<1>1. ShardInv => OwnershipTypes
  BY DEF ShardInv
<1>. QED BY <1>1, ShardInductive, PTL

\* Who serves or is online owns every shard, or is excused, whatever the others do.
THEOREM Ownership ==
  ASSUME OwnershipConstants
  PROVE  OwnershipSpec => []OwnsWhileActive
<1>1. ShardInv => OwnsWhileActive
  BY DEF ShardInv, OwnershipTypes, Phases, Claiming, Owning, OwnsWhileActive
<1>. QED BY <1>1, ShardInductive, PTL
-----------------------------------------------------------------------------
(***************************************************************************)
(* ChannelState: ChannelTypes, MemoryKeepsUp and LogoutToldOnce, for any   *)
(* versions, commands and logouts at one time, and events.                 *)
(***************************************************************************)

\* What SetSettings is about to set is not older than the row, and memory keeps up
\* whether or not a command is at work.
KeepsUp ==
  /\ handler.step = "set" /\ stored.paired => handler.version >= stored.version
  /\ handler.step # "set" /\ stored.paired /\ ~behind => memory >= stored.version

\* The lanes that are about to tell a logout.
Telling == {n \in LogoutLanes : logout[n] = "status"}

\* Each of them has used up the flag, as has each that told.
ToldByFlag ==
  IsFiniteSet(Telling) /\ tellings + Cardinality(Telling) + (IF told THEN 0 ELSE 1) <= 1 + rearmed

ChannelInv == ChannelTypes /\ KeepsUp /\ ToldByFlag

-----------------------------------------------------------------------------
SettingsSteps ==
  \/ \E v \in Versions : SettingsCommand(v)
  \/ SaveSettings \/ SetSettings \/ RemoveCommand \/ Forget \/ DeleteRow
ConnectSteps == \E k \in Connectors : Lookup(k) \/ SetRead(k) \/ ResumeOnDemand(k)
LogoutSteps(n) == LoggedOut(n) \/ TellLogout(n) \/ ForgetLoggedOut(n) \/ DeleteLoggedOut(n)

LEMMA NothingStored == ChannelConstants => NoStored \in Stored
BY DEF ChannelConstants, NoStored, Stored

LEMMA ChannelKeepsTypes ==
  ASSUME ChannelConstants, ChannelInv, [ChannelNext]_channelVars
  PROVE  ChannelTypes'
<1>. USE DEF ChannelConstants, ChannelInv, ChannelTypes, Stored, NoStored, Versions, Handler
<1>0. used' \in [ChannelEvents -> Nat]
  <2>1. CASE \E e \in ChannelEvents : Occurs(e)
    BY <2>1 DEF Occurs
  <2>2. CASE used' = used
    BY <2>2
  <2>3. (\E e \in ChannelEvents : Occurs(e)) \/ used' = used
    <3>1. {"command", "connect", "pair", "logout", "fault"} \subseteq ChannelEvents
      BY DEF ChannelEvents
    <3>2. CASE SettingsSteps
      BY <3>1, <3>2 DEF SettingsSteps, SettingsCommand, SaveSettings, SetSettings, RemoveCommand, Forget,
           DeleteRow, Calm
    <3>3. CASE ConnectSteps
      BY <3>1, <3>3 DEF ConnectSteps, Lookup, SetRead, ResumeOnDemand, Calm
    <3>4. CASE PairCommand \/ Paired \/ Restart
      BY <3>1, <3>4 DEF PairCommand, Paired, Restart, Calm
    <3>5. ASSUME NEW n \in LogoutLanes, LogoutSteps(n)
          PROVE  (\E e \in ChannelEvents : Occurs(e)) \/ used' = used
      BY <3>1, <3>5 DEF LogoutSteps, LoggedOut, TellLogout, ForgetLoggedOut, DeleteLoggedOut, Calm
    <3>. QED BY <3>2, <3>3, <3>4, <3>5
           DEF ChannelNext, SettingsSteps, ConnectSteps, LogoutSteps, ChannelRest, channelVars
  <2>. QED BY <2>1, <2>2, <2>3
<1>1. ASSUME NEW v \in Versions, SettingsCommand(v) PROVE ChannelTypes'
  BY <1>0, <1>1 DEF SettingsCommand, SettingsFrame
<1>2. CASE SaveSettings
  <2>1. stored' \in Stored
    BY <1>2 DEF SaveSettings
  <2>2. handler' \in [step : {"idle", "save", "set", "forget", "delete"}, version : 0..MaxVersion]
    BY <1>2 DEF SaveSettings
  <2>3. behind' \in BOOLEAN
    BY <1>2 DEF SaveSettings
  <2>. QED BY <1>0, <1>2, <2>1, <2>2, <2>3 DEF SaveSettings, SettingsFrame
<1>3. CASE SetSettings \/ RemoveCommand \/ Forget
  <2>1. told' \in BOOLEAN /\ session' \in BOOLEAN /\ behind' \in BOOLEAN
    BY <1>3, Zenon DEF SetSettings, RemoveCommand, Forget, SettingsFrame
  <2>. QED BY <1>0, <1>3, <2>1 DEF SetSettings, RemoveCommand, Forget, SettingsFrame
<1>5. CASE DeleteRow
  <2>1. stored' \in Stored
    BY <1>5, NothingStored DEF DeleteRow
  <2>. QED BY <1>0, <1>5, <2>1 DEF DeleteRow, SettingsFrame
<1>6. ASSUME NEW k \in Connectors, Lookup(k) PROVE ChannelTypes'
  <2>1. [step |-> "set", version |-> stored.version] \in [step : {"idle", "set", "resume"}, version : 0..MaxVersion]
    OBVIOUS
  <2>. QED BY <1>0, <1>6, <2>1 DEF Lookup, ConnectFrame
<1>7. ASSUME NEW k \in Connectors, SetRead(k) PROVE ChannelTypes'
  <2>1. behind' \in BOOLEAN /\ memory' \in 0..MaxVersion
    BY <1>7, Zenon DEF SetRead
  <2>. QED BY <1>0, <1>7, <2>1 DEF SetRead, ConnectFrame
<1>8. ASSUME NEW k \in Connectors, ResumeOnDemand(k) PROVE ChannelTypes'
  <2>1. session' \in BOOLEAN
    BY <1>8, Zenon DEF ResumeOnDemand
  <2>. QED BY <1>0, <1>8, <2>1 DEF ResumeOnDemand, ConnectFrame
<1>9. CASE PairCommand
  <2>1. told' \in BOOLEAN
    BY <1>9, Zenon DEF PairCommand
  <2>. QED BY <1>0, <1>9, <2>1 DEF PairCommand, EventFrame
<1>10. CASE Paired
  BY <1>0, <1>10 DEF Paired, EventFrame
<1>11. CASE Restart
  <2>1. /\ handler' \in [step : {"idle", "save", "set", "forget", "delete"}, version : 0..MaxVersion]
        /\ connector' \in [Connectors -> [step : {"idle", "set", "resume"}, version : 0..MaxVersion]]
        /\ logout' \in [LogoutLanes -> {"idle", "status", "forget", "delete"}]
    BY <1>11 DEF Restart
  <2>2. stored.paired \in BOOLEAN /\ stored.version \in 0..MaxVersion
    OBVIOUS
  <2>3. memory' \in 0..MaxVersion
    <3>1. memory' = stored.version \/ memory' = 0
      BY <1>11, Zenon DEF Restart
    <3>. QED BY <2>2, <3>1
  <2>4. told' \in BOOLEAN /\ behind' \in BOOLEAN
    BY <1>11, Zenon DEF Restart
  <2>5. session' \in {FALSE, stored.paired} \/ session' = FALSE
    BY <1>11, Zenon DEF Restart
  <2>6. session' \in BOOLEAN
    BY <2>2, <2>5, Zenon
  <2>. QED BY <1>0, <1>11, <2>1, <2>3, <2>4, <2>6 DEF Restart
<1>12. ASSUME NEW n \in LogoutLanes, LogoutSteps(n) PROVE ChannelTypes'
  <2>1. CASE LoggedOut(n)
    BY <1>0, <2>1 DEF LoggedOut, EventFrame, LogoutTo, Marks
  <2>2. CASE TellLogout(n)
    BY <1>0, <2>2 DEF TellLogout, EventFrame, LogoutTo
  <2>3. CASE ForgetLoggedOut(n)
    <3>1. session' \in BOOLEAN /\ behind' \in BOOLEAN
      BY <2>3, Zenon DEF ForgetLoggedOut
    <3>. QED BY <1>0, <2>3, <3>1 DEF ForgetLoggedOut, EventFrame, LogoutTo
  <2>4. CASE DeleteLoggedOut(n)
    <3>1. stored' \in Stored
      BY <2>4, NothingStored DEF DeleteLoggedOut
    <3>. QED BY <1>0, <2>4, <3>1 DEF DeleteLoggedOut, EventFrame, LogoutTo
  <2>. QED BY <1>12, <2>1, <2>2, <2>3, <2>4 DEF LogoutSteps
<1>13. CASE UNCHANGED channelVars
  BY <1>13 DEF channelVars, commandVars
<1>. QED BY <1>1, <1>2, <1>3, <1>5, <1>6, <1>7, <1>8, <1>9, <1>10, <1>11, <1>12, <1>13
       DEF ChannelNext, LogoutSteps, ChannelRest

LEMMA ChannelKeepsUp ==
  ASSUME ChannelConstants, ChannelInv, [ChannelNext]_channelVars
  PROVE  KeepsUp'
<1>. USE DEF ChannelConstants, ChannelInv, ChannelTypes, Stored, NoStored, Versions, KeepsUp
<1>1. ASSUME NEW v \in Versions, SettingsCommand(v) PROVE KeepsUp'
  BY <1>1 DEF SettingsCommand, Quiet, Handler
<1>2. CASE SaveSettings
  BY <1>2 DEF SaveSettings, Handler, Updates, Continues, Newer
<1>3. CASE SetSettings \/ RemoveCommand \/ Forget \/ DeleteRow
  BY <1>3 DEF SetSettings, RemoveCommand, Quiet, Forget, DeleteRow, Handler
<1>4. ASSUME NEW k \in Connectors, Lookup(k) \/ SetRead(k) \/ ResumeOnDemand(k) PROVE KeepsUp'
  <2>1. CASE SetRead(k)
    <3>1. connector[k].version \in 0..MaxVersion /\ stored.version \in 0..MaxVersion
      OBVIOUS
    <3>. QED BY <2>1, <3>1 DEF SetRead, ConnectFrame
  <2>2. CASE Lookup(k) \/ ResumeOnDemand(k)
    BY <2>2 DEF Lookup, ResumeOnDemand, ConnectFrame
  <2>. QED BY <1>4, <2>1, <2>2
<1>5. CASE PairCommand \/ Paired \/ Restart
  <2>1. CASE PairCommand \/ Paired
    BY <2>1 DEF PairCommand, Paired, EventFrame
  <2>2. CASE Restart
    <3>1. /\ handler' = [step |-> "idle", version |-> 0] /\ UNCHANGED stored
          /\ memory' = stored.version \/ behind' = TRUE
      BY <2>2, Zenon DEF Restart
    <3>. QED BY <3>1
  <2>. QED BY <1>5, <2>1, <2>2
<1>6. ASSUME NEW n \in LogoutLanes, LogoutSteps(n) PROVE KeepsUp'
  BY <1>6 DEF LogoutSteps, LoggedOut, TellLogout, ForgetLoggedOut, DeleteLoggedOut, EventFrame
<1>7. CASE UNCHANGED channelVars
  BY <1>7 DEF channelVars, commandVars
<1>. QED BY <1>1, <1>2, <1>3, <1>4, <1>5, <1>6, <1>7 DEF ChannelNext, LogoutSteps, ChannelRest

\* The flag goes to the first who reports a logout, and comes back with a pair
\* command or a start.
LEMMA ChannelKeepsFlag ==
  ASSUME ChannelConstants, ChannelInv, [ChannelNext]_channelVars
  PROVE  ToldByFlag'
<1>. USE DEF ChannelInv, ChannelTypes, ToldByFlag
<1>0. Cardinality(Telling) \in Nat
  BY FS_CardinalityType
<1>1. CASE UNCHANGED <<told, logout, tellings, rearmed>>
  BY <1>1 DEF Telling
<1>2. CASE PairCommand
  BY <1>0, <1>2 DEF PairCommand, EventFrame, Telling
<1>3. CASE Restart
  <2>1. Telling' = {}
    BY <1>3 DEF Restart, Telling
  <2>. QED BY <1>0, <1>3, <2>1, FS_EmptySet DEF Restart
<1>4. ASSUME NEW n \in LogoutLanes, LoggedOut(n) PROVE ToldByFlag'
  <2>1. told' = TRUE /\ UNCHANGED <<tellings, rearmed>> /\ n \notin Telling
    BY <1>4 DEF LoggedOut, Marks, Telling
  <2>2. CASE told
    <3>1. Telling' = Telling
      BY <1>4, <2>2 DEF LoggedOut, LogoutTo, Telling
    <3>. QED BY <2>1, <2>2, <3>1
  <2>3. CASE ~told
    <3>1. Telling' = Telling \cup {n}
      BY <1>4, <2>3 DEF LoggedOut, LogoutTo, Telling
    <3>2. IsFiniteSet(Telling') /\ Cardinality(Telling') = Cardinality(Telling) + 1
      BY <2>1, <3>1, FS_AddElement
    <3>. QED BY <1>0, <2>1, <2>3, <3>2
  <2>. QED BY <2>2, <2>3
<1>5. ASSUME NEW n \in LogoutLanes, TellLogout(n) PROVE ToldByFlag'
  <2>1. Telling' = Telling \ {n} /\ n \in Telling
    BY <1>5 DEF TellLogout, LogoutTo, Telling
  <2>2. IsFiniteSet(Telling') /\ Cardinality(Telling') = Cardinality(Telling) - 1
    BY <2>1, FS_RemoveElement
  <2>. QED BY <1>0, <1>5, <2>2 DEF TellLogout, EventFrame
<1>6. ASSUME NEW n \in LogoutLanes, ForgetLoggedOut(n) \/ DeleteLoggedOut(n) PROVE ToldByFlag'
  <2>1. Telling' = Telling
    BY <1>6 DEF ForgetLoggedOut, DeleteLoggedOut, LogoutTo, Telling
  <2>. QED BY <1>6, <2>1 DEF ForgetLoggedOut, DeleteLoggedOut
<1>7. CASE SettingsSteps
  BY <1>1, <1>7 DEF SettingsSteps, SettingsCommand, SaveSettings, SetSettings, RemoveCommand, Forget,
       DeleteRow, SettingsFrame
<1>8. CASE ConnectSteps \/ Paired
  BY <1>1, <1>8 DEF ConnectSteps, Lookup, SetRead, ResumeOnDemand, ConnectFrame, Paired, EventFrame
<1>9. CASE UNCHANGED channelVars
  BY <1>1, <1>9 DEF channelVars, commandVars
<1>. QED BY <1>2, <1>3, <1>4, <1>5, <1>6, <1>7, <1>8, <1>9
       DEF ChannelNext, SettingsSteps, ConnectSteps, ChannelRest

LEMMA ChannelInductive ==
  ASSUME ChannelConstants
  PROVE  ChannelSpec => []ChannelInv
<1>1. ChannelInit => ChannelInv
  <2>. SUFFICES ASSUME ChannelInit PROVE ChannelInv
    OBVIOUS
  <2>. USE DEF ChannelInit
  <2>1. /\ connector \in [Connectors -> [step : {"idle", "set", "resume"}, version : 0..MaxVersion]]
        /\ logout \in [LogoutLanes -> {"idle", "status", "forget", "delete"}]
        /\ used \in [ChannelEvents -> Nat]
    BY DEF ChannelConstants
  <2>2. /\ told \in BOOLEAN /\ session \in BOOLEAN /\ behind \in BOOLEAN
        /\ stored.paired /\ stored.version = 0
    BY Zenon
  <2>5. /\ stored \in Stored /\ memory \in 0..MaxVersion /\ tellings \in Nat /\ rearmed \in Nat
        /\ handler \in [step : {"idle", "save", "set", "forget", "delete"}, version : 0..MaxVersion]
    BY DEF ChannelConstants, Stored
  <2>6. ChannelTypes /\ KeepsUp
    BY <2>1, <2>2, <2>5 DEF ChannelTypes, KeepsUp
  <2>3. Telling = {}
    BY DEF Telling
  <2>4. ToldByFlag
    BY <2>3, FS_EmptySet DEF ToldByFlag
  <2>. QED BY <2>4, <2>6 DEF ChannelInv
<1>2. ChannelInv /\ [ChannelNext]_channelVars => ChannelInv'
  BY ChannelKeepsTypes, ChannelKeepsUp, ChannelKeepsFlag DEF ChannelInv
<1>. QED BY <1>1, <1>2, PTL DEF ChannelSpec

\* Types of the row, its copy in memory and those who read and write them.
THEOREM ChannelTypeCorrect ==
  ASSUME ChannelConstants
  PROVE  ChannelSpec => []ChannelTypes
<1>1. ChannelInv => ChannelTypes
  BY DEF ChannelInv
<1>. QED BY <1>1, ChannelInductive, PTL

\* No old version of the settings comes back into memory, unless a command that
\* resumes the channel or a failure of the registry brings it.
THEOREM SettingsKeepUp ==
  ASSUME ChannelConstants
  PROVE  ChannelSpec => []MemoryKeepsUp
<1>1. ChannelInv => MemoryKeepsUp
  BY DEF ChannelInv, KeepsUp, MemoryKeepsUp, Quiet
<1>. QED BY <1>1, ChannelInductive, PTL

\* A logout is told once, whoever reports it and in whatever order.
THEOREM ToldOnce ==
  ASSUME ChannelConstants
  PROVE  ChannelSpec => []LogoutToldOnce
<1>1. ChannelInv => LogoutToldOnce
  BY FS_CardinalityType DEF ChannelInv, ChannelTypes, ToldByFlag, LogoutToldOnce
<1>. QED BY <1>1, ChannelInductive, PTL
-----------------------------------------------------------------------------
(***************************************************************************)
(* InfoCache: CacheTypes and FreshAfterChange, for any groups, people,     *)
(* callers and changes.                                                    *)
(***************************************************************************)

\* A value that may be put into entry e: nothing, or one that neither those who
\* hold the entry nor those who find it under its key may call old.
CacheFits(value, e) ==
  value # 0 =>
    /\ \A j \in Callers : caller[j].step # "idle" /\ caller[j].entry = e => value >= caller[j].due
    /\ \A x \in Infos : index[x] = e => value >= heard[x]

\* Events tell of changes that happened, some are heard, and callers know of those.
InTime ==
  /\ \A x \in Infos : heard[x] <= announced[x] /\ announced[x] <= truth[x]
  /\ \A k \in Callers : caller[k].step # "idle" => caller[k].due <= heard[caller[k].key]

\* An entry is made for one key and is never used for another.
OneKeyEach ==
  /\ \A x, y \in Infos : index[x] # 0 /\ index[x] = index[y] => x = y
  /\ \A k \in Callers, x \in Infos :
       caller[k].step # "idle" /\ index[x] = caller[k].entry => caller[k].key = x
  /\ \A k, j \in Callers :
       caller[k].step # "idle" /\ caller[j].step # "idle" /\ caller[k].entry = caller[j].entry =>
         caller[k].key = caller[j].key

\* What is in the entries and what a caller brings fits.
AllFit ==
  /\ \A e \in Made : CacheFits(entries[e].value, e)
  /\ \A k \in Callers : caller[k].step = "storing" /\ caller[k].ok => CacheFits(caller[k].seen, caller[k].entry)

CallerShape ==
  [step : CallerSteps, key : Infos \cup {0}, entry : Nat, due : Nat, seen : Nat, ok : BOOLEAN]

CacheShapes ==
  /\ caller \in [Callers -> CallerShape]
  /\ \A k \in Callers : caller[k].step # "idle" => caller[k].key \in Infos /\ caller[k].entry \in Made
  /\ Made = 1..Cardinality(Made) /\ Cardinality(Made) \in Nat
  /\ returned \in [value : Nat, due : Nat]

CacheInv == CacheTypes /\ CacheShapes /\ InTime /\ OneKeyEach /\ AllFit /\ FreshAfterChange

-----------------------------------------------------------------------------
(* The entry that Obtain finds or makes.                                    *)

Obtains(k, x, e) ==
  /\ index' = [index EXCEPT ![x] = e] /\ e \in 1..MaxEntries
  /\ caller' \in [Callers -> CallerShape] /\ \A j \in Callers \ {k} : caller'[j] = caller[j]
  /\ caller'[k].step = "obtained" /\ caller'[k].key = x /\ caller'[k].entry = e
  /\ caller'[k].due = heard[x]
  /\ UNCHANGED <<truth, announced, heard, listening, returned>> /\ caller[k].step = "idle"
  /\ \/ e = index[x] /\ e \in Made /\ entries' = entries
     \/ /\ index[x] = 0 /\ e = Cardinality(Made) + 1 /\ e \notin Made
        /\ entries' = [n \in Made \cup {e} |-> IF n = e THEN NewEntry ELSE entries[n]]

LEMMA Obtained ==
  ASSUME CacheConstants, CacheInv, NEW k \in Callers, NEW x \in Infos, Obtain(k, x)
  PROVE  \E e \in Nat \ {0} : Obtains(k, x, e)
<1>. DEFINE made == Cardinality(Made) + 1
            e == IF index[x] # 0 THEN index[x] ELSE made
<1>1. made \in Nat \ {0} /\ made \notin Made /\ Made \subseteq 1..MaxEntries /\ index[x] \in Made \cup {0}
  BY DEF CacheInv, CacheTypes, CacheShapes
<1>2. Made \subseteq Nat \ {0}
  BY <1>1 DEF CacheConstants
<1>3. e \in Nat \ {0} /\ e <= MaxEntries
  BY <1>1, <1>2 DEF Obtain
<1>4. e \in 1..MaxEntries
  BY <1>3 DEF CacheConstants
<1>5. /\ caller' \in [Callers -> CallerShape] /\ \A j \in Callers \ {k} : caller'[j] = caller[j]
      /\ caller'[k].step = "obtained" /\ caller'[k].key = x /\ caller'[k].entry = e
      /\ caller'[k].due = heard[x]
  <2> DEFINE call == [NoCall EXCEPT !.step = "obtained", !.key = x, !.entry = e, !.due = heard[x]]
  <2>1. NoCall \in CallerShape
    BY DEF NoCall, CallerShape, CallerSteps
  <2>2. /\ call \in CallerShape
        /\ call.step = "obtained" /\ call.key = x /\ call.entry = e /\ call.due = heard[x]
    BY <1>3, <2>1 DEF CallerShape, CallerSteps, CacheInv, CacheTypes
  <2>3. caller' = [caller EXCEPT ![k] = call] /\ caller \in [Callers -> CallerShape]
    BY Zenon DEF Obtain, CacheInv, CacheShapes
  <2>. HIDE DEF call
  <2>. QED BY <2>2, <2>3
<1>6. /\ index' = [index EXCEPT ![x] = e] /\ caller[k].step = "idle"
      /\ UNCHANGED <<truth, announced, heard, listening, returned>>
      /\ entries' = IF index[x] # 0 THEN entries
                    ELSE [n \in Made \cup {e} |-> IF n = e THEN NewEntry ELSE entries[n]]
  BY DEF Obtain, WorldFrame
<1>7. \/ e = index[x] /\ e \in Made /\ entries' = entries
      \/ /\ index[x] = 0 /\ e = made /\ e \notin Made
         /\ entries' = [n \in Made \cup {e} |-> IF n = e THEN NewEntry ELSE entries[n]]
  BY <1>1, <1>6
<1>. HIDE DEF e
<1>. QED BY <1>3, <1>4, <1>5, <1>6, <1>7 DEF Obtains

\* What is returned and stored.
LEMMA Brought ==
  ASSUME CacheConstants, CacheInv, NEW k \in Callers, Store(k)
  PROVE  \E value \in Nat :
           /\ CacheFits(value, caller[k].entry)
           /\ entries' = [entries EXCEPT ![caller[k].entry] = [value |-> value, loaded |-> TRUE, fresh |-> TRUE]]
           /\ Return(k, value)
<1>. USE DEF CacheInv, CacheTypes, CacheShapes, CallerShape, Entry
<1>1. PICK value \in Resolved(k) :
        /\ entries' = [entries EXCEPT ![caller[k].entry] = [value |-> value, loaded |-> TRUE, fresh |-> TRUE]]
        /\ Return(k, value)
  BY DEF Store
<1>2. caller[k].step = "storing" /\ caller[k].entry \in Made /\ caller[k].seen \in Nat
  BY DEF Store
<1>3. entries[caller[k].entry].value \in Nat /\ CacheFits(entries[caller[k].entry].value, caller[k].entry)
  BY <1>2 DEF AllFit
<1>4. CacheFits(0, caller[k].entry)
  BY DEF CacheFits
<1>5. caller[k].ok => CacheFits(caller[k].seen, caller[k].entry)
  BY <1>2 DEF AllFit
<1>6. value \in {0, entries[caller[k].entry].value} \/ (caller[k].ok /\ value = caller[k].seen)
  BY <1>1 DEF Resolved, NameAfter, PictureAfter
<1>7. value \in Nat /\ CacheFits(value, caller[k].entry)
  BY <1>2, <1>3, <1>4, <1>5, <1>6
<1>. QED BY <1>1, <1>7

-----------------------------------------------------------------------------
LEMMA CallerTyped ==
  ASSUME CacheInv, NEW k \in Callers, NEW c \in CallerShape, c.entry \in Made \cup {0},
         c.step # "idle" => c.key \in Infos /\ c.entry \in Made,
         caller' = [caller EXCEPT ![k] = c], UNCHANGED <<truth, announced, heard, listening, index>>,
         Made' = Made, \A e \in Made : entries'[e] \in Entry,
         returned' \in [value : Nat, due : Nat]
  PROVE  (CacheTypes /\ CacheShapes)'
<1>1. CacheTypes /\ CacheShapes
  BY DEF CacheInv
<1>2. /\ caller' \in [Callers -> CallerShape] /\ caller'[k] = c
      /\ \A j \in Callers \ {k} : caller'[j] = caller[j]
  BY <1>1 DEF CacheShapes
<1>3. c.step \in CallerSteps
  BY DEF CallerShape
<1>. QED BY <1>1, <1>2, <1>3 DEF CacheTypes, CacheShapes

LEMMA CacheKeepsTypes ==
  ASSUME CacheConstants, CacheInv, [CacheNext]_cacheVars
  PROVE  (CacheTypes /\ CacheShapes)'
<1>0. /\ NoCall \in CallerShape /\ NoCall.step = "idle" /\ NoCall.entry = 0
      /\ \A e \in Made : entries[e] \in Entry
      /\ caller \in [Callers -> CallerShape] /\ truth \in [Infos -> Nat]
      /\ announced \in [Infos -> Nat] /\ heard \in [Infos -> Nat] /\ index \in [Infos -> Made \cup {0}]
      /\ listening \in BOOLEAN
      /\ \A k \in Callers : caller[k].step # "idle" => caller[k].key \in Infos /\ caller[k].entry \in Made
      /\ returned \in [value : Nat, due : Nat]
  BY DEF NoCall, CallerShape, CallerSteps, CacheInv, CacheTypes, CacheShapes
<1>1. ASSUME NEW x \in Infos, Change(x) \/ NameChanged(x) \/ Evict(x)
      PROVE  (CacheTypes /\ CacheShapes)'
  <2>1. UNCHANGED <<caller, returned, Made>> /\ UNCHANGED entries
    BY <1>1 DEF Change, NameChanged, Hears, Ignores, Evict, Invalidate, WorldFrame, Made
  <2>2. /\ truth' \in [Infos -> Nat] /\ announced' \in [Infos -> Nat] /\ heard' \in [Infos -> Nat]
        /\ index' \in [Infos -> Made \cup {0}] /\ listening' \in BOOLEAN
    <3>1. CASE Change(x)
      BY <1>0, <3>1 DEF Change
    <3>2. CASE NameChanged(x)
      BY <1>0, <3>2 DEF NameChanged, Hears, Ignores, Invalidate
    <3>3. CASE Evict(x)
      BY <1>0, <3>3 DEF Evict, WorldFrame
    <3>. QED BY <1>1, <3>1, <3>2, <3>3
  <2>. QED BY <2>1, <2>2 DEF CacheInv, CacheTypes, CacheShapes
<1>2. ASSUME NEW k \in Callers, Enter(k) PROVE (CacheTypes /\ CacheShapes)'
  <2>1. /\ UNCHANGED <<truth, announced, heard, listening, index, entries, Made>>
        /\ caller[k].step = "obtained" /\ caller[k].key \in Infos /\ caller[k].entry \in Made
    BY <1>0, <1>2 DEF Enter, WorldFrame, Made
  <2>2. CASE Return(k, entries[caller[k].entry].value)
    <3>1. returned' \in [value : Nat, due : Nat] /\ caller' = [caller EXCEPT ![k] = NoCall]
      BY <1>0, <2>1, <2>2 DEF Return, Entry, CallerShape
    <3>. QED BY <1>0, <2>1, <3>1, CallerTyped
  <2>3. CASE caller' = [caller EXCEPT ![k].step = "asking"] /\ UNCHANGED returned
    <3> DEFINE c == [caller[k] EXCEPT !.step = "asking"]
    <3>1. c \in CallerShape /\ c.key = caller[k].key /\ c.entry = caller[k].entry
      BY <1>0 DEF CallerShape, CallerSteps
    <3>2. caller' = [caller EXCEPT ![k] = c]
      BY <2>3
    <3>. HIDE DEF c
    <3>. QED BY <1>0, <2>1, <2>3, <3>1, <3>2, CallerTyped
  <2>. QED BY <1>2, <2>2, <2>3 DEF Enter
<1>3. ASSUME NEW k \in Callers, AskWhatsApp(k) PROVE (CacheTypes /\ CacheShapes)'
  <2>1. /\ UNCHANGED <<truth, announced, heard, listening, index, entries, returned, Made>>
        /\ caller[k].step = "asking" /\ caller[k].key \in Infos /\ caller[k].entry \in Made
    BY <1>0, <1>3 DEF AskWhatsApp, WorldFrame, Made
  <2>2. PICK ok \in BOOLEAN :
          caller' = [caller EXCEPT ![k].step = "storing", ![k].seen = truth[caller[k].key], ![k].ok = ok]
    BY <1>3 DEF AskWhatsApp
  <2> DEFINE c == [caller[k] EXCEPT !.step = "storing", !.seen = truth[caller[k].key], !.ok = ok]
  <2>3. c \in CallerShape /\ c.key = caller[k].key /\ c.entry = caller[k].entry
    BY <1>0, <2>1 DEF CallerShape, CallerSteps
  <2>4. caller' = [caller EXCEPT ![k] = c]
    BY <1>0, <2>2
  <2>. HIDE DEF c
  <2>. QED BY <1>0, <2>1, <2>3, <2>4, CallerTyped
<1>4. ASSUME NEW k \in Callers, Store(k) PROVE (CacheTypes /\ CacheShapes)'
  <2>1. PICK value \in Nat :
          /\ entries' = [entries EXCEPT ![caller[k].entry] = [value |-> value, loaded |-> TRUE, fresh |-> TRUE]]
          /\ Return(k, value)
    BY <1>4, Brought
  <2>2. UNCHANGED <<truth, announced, heard, listening, index>> /\ caller[k].step = "storing" /\ caller[k].entry \in Made
    BY <1>0, <1>4 DEF Store, WorldFrame
  <2>3. Made' = Made /\ \A e \in Made : entries'[e] \in Entry
    BY <1>0, <2>1, <2>2 DEF Made, Entry
  <2>4. returned' \in [value : Nat, due : Nat] /\ caller' = [caller EXCEPT ![k] = NoCall]
    BY <1>0, <2>1, <2>2 DEF Return, CallerShape
  <2>. QED BY <1>0, <2>2, <2>3, <2>4, CallerTyped
<1>5. ASSUME NEW k \in Callers, NEW x \in Infos, Obtain(k, x) PROVE (CacheTypes /\ CacheShapes)'
  <2>0. Made = 1..Cardinality(Made) /\ Cardinality(Made) \in Nat /\ Made \subseteq 1..MaxEntries
    BY DEF CacheInv, CacheTypes, CacheShapes
  <2>1. PICK e \in Nat \ {0} : Obtains(k, x, e)
    BY <1>5, Obtained
  <2>. USE DEF Obtains
  <2>2. Made' = Made \cup {e} /\ \A n \in Made' : entries'[n] \in Entry
    <3>1. CASE e \in Made /\ entries' = entries
      BY <1>0, <3>1 DEF Made
    <3>2. CASE entries' = [n \in Made \cup {e} |-> IF n = e THEN NewEntry ELSE entries[n]]
      <4>1. NewEntry \in Entry
        BY DEF NewEntry, Entry
      <4>. QED BY <1>0, <3>2, <4>1 DEF Made
    <3>. QED BY <2>1, <3>1, <3>2
  <2>3. Made' = 1..Cardinality(Made') /\ Cardinality(Made') \in Nat
    <3>1. CASE e \in Made
      <4>1. Made' = Made
        BY <2>2, <3>1
      <4>. QED BY <2>0, <4>1
    <3>2. CASE e = Cardinality(Made) + 1
      <4>1. Made' = 1..(Cardinality(Made) + 1)
        BY <2>0, <2>2, <3>2
      <4>2. Cardinality(Made') = Cardinality(Made) + 1
        BY <2>0, <4>1, FS_Interval
      <4>. QED BY <2>0, <4>1, <4>2
    <3>. QED BY <2>1, <3>1, <3>2
  <2>4. index' \in [Infos -> Made' \cup {0}] /\ Made' \subseteq 1..MaxEntries
    BY <1>0, <2>0, <2>1, <2>2
  <2>5. \A j \in Callers : caller'[j].entry \in Made' \cup {0} /\ caller'[j].step \in CallerSteps
    BY <2>1, <2>2 DEF CacheInv, CacheTypes, CallerShape, CallerSteps
  <2>6. \A j \in Callers :
          caller'[j].step # "idle" => caller'[j].key \in Infos /\ caller'[j].entry \in Made'
    BY <1>0, <2>1, <2>2
  <2>. QED BY <1>0, <2>1, <2>2, <2>3, <2>4, <2>5, <2>6 DEF CacheTypes, CacheShapes
<1>6. ASSUME NEW e \in Made, EntryExpires(e) PROVE (CacheTypes /\ CacheShapes)'
  <2>1. UNCHANGED <<truth, announced, heard, listening, index, caller, returned, Made>>
    BY <1>6 DEF EntryExpires, WorldFrame, Made
  <2>2. \A n \in Made : entries'[n] \in Entry
    BY <1>0, <1>6, Zenon DEF EntryExpires, Made, Entry
  <2>. QED BY <2>1, <2>2 DEF CacheInv, CacheTypes, CacheShapes
<1>7. CASE UNCHANGED cacheVars
  <2>1. UNCHANGED <<truth, announced, heard, listening, index, caller, returned, entries, Made>>
    BY <1>7 DEF cacheVars, Made
  <2>. QED BY <2>1 DEF CacheInv, CacheTypes, CacheShapes
<1>8. CASE Listen
  <2>1. UNCHANGED <<truth, announced, heard, index, caller, returned, entries, Made>> /\ listening' \in BOOLEAN
    BY <1>0, <1>8 DEF Listen, Made
  <2>. QED BY <2>1 DEF CacheInv, CacheTypes, CacheShapes
<1>. QED BY <1>1, <1>2, <1>3, <1>4, <1>5, <1>6, <1>7, <1>8 DEF CacheNext, CacheRest

Lasting == InTime /\ OneKeyEach /\ AllFit /\ FreshAfterChange

\* A change of a name leaves its entry to those who hold it.
LEMMA WorldKeeps ==
  ASSUME CacheConstants, CacheInv, NEW x \in Infos, Change(x) \/ NameChanged(x) \/ Evict(x)
  PROVE  Lasting'
<1>0. /\ truth \in [Infos -> Nat] /\ announced \in [Infos -> Nat] /\ heard \in [Infos -> Nat]
      /\ index \in [Infos -> Made \cup {0}]
      /\ InTime /\ OneKeyEach /\ AllFit /\ FreshAfterChange
      /\ \A k \in Callers : caller[k].due \in Nat
      /\ \A k \in Callers : caller[k].step # "idle" => caller[k].key \in Infos /\ caller[k].entry # 0
      /\ \A e \in Made : e # 0
  BY DEF CacheInv, CacheTypes, CacheShapes, CallerShape
<1>1. UNCHANGED <<caller, entries, returned, Made>>
  BY DEF Made, Change, NameChanged, Hears, Ignores, Invalidate, Evict, WorldFrame
<1>2. /\ \A y \in Infos : index'[y] # 0 => index'[y] = index[y] /\ heard'[y] = heard[y]
      /\ \A y \in Infos : heard'[y] \in Nat /\ heard[y] <= heard'[y]
      /\ \A y \in Infos : heard'[y] <= announced'[y] /\ announced'[y] <= truth'[y]
  <2>1. CASE Change(x)
    BY <1>0, <2>1 DEF Change, InTime
  <2>2. CASE NameChanged(x)
    BY <1>0, <2>2 DEF NameChanged, Hears, Ignores, Invalidate, InTime
  <2>3. CASE Evict(x)
    BY <1>0, <2>3 DEF Evict, WorldFrame, InTime
  <2>. QED BY <2>1, <2>2, <2>3
<1>4. InTime'
  <2>1. ASSUME NEW k \in Callers, caller'[k].step # "idle" PROVE caller'[k].due <= heard'[caller'[k].key]
    <3>1. caller[k].key \in Infos /\ caller[k].due <= heard[caller[k].key]
      BY <1>0, <1>1, <2>1 DEF InTime
    <3>. QED BY <1>0, <1>1, <1>2, <3>1
  <2>. QED BY <1>2, <2>1 DEF InTime
<1>5. OneKeyEach'
  BY <1>0, <1>1, <1>2 DEF OneKeyEach
<1>6. ASSUME NEW value, NEW e \in Made, CacheFits(value, e) PROVE CacheFits(value, e)'
  BY <1>0, <1>1, <1>2, <1>6 DEF CacheFits
<1>7. AllFit'
  <2>1. \A k \in Callers : caller[k].step = "storing" => caller[k].entry \in Made
    BY DEF CacheInv, CacheShapes
  <2>. QED BY <1>0, <1>1, <1>6, <2>1 DEF AllFit
<1>. QED BY <1>0, <1>1, <1>4, <1>5, <1>7 DEF Lasting, FreshAfterChange

\* A step of a caller that keeps its entry, or ends its call.
LEMMA CallersFewer ==
  ASSUME CacheConstants, CacheInv, UNCHANGED <<truth, announced, heard, listening, index>>, NEW k \in Callers,
         \A j \in Callers \ {k} : caller'[j] = caller[j],
         caller[k].step # "idle",
         \/ caller'[k].step = "idle"
         \/ /\ caller'[k].entry = caller[k].entry /\ caller'[k].key = caller[k].key
            /\ caller'[k].due = caller[k].due
  PROVE  /\ InTime' /\ OneKeyEach'
         /\ \A value, e : CacheFits(value, e) => CacheFits(value, e)'
<1>1. \A j \in Callers : caller'[j].step # "idle" =>
         /\ caller[j].step # "idle" /\ caller'[j].entry = caller[j].entry
         /\ caller'[j].key = caller[j].key /\ caller'[j].due = caller[j].due
  OBVIOUS
<1>2. InTime'
  BY <1>1 DEF CacheInv, InTime
<1>3. OneKeyEach'
  BY <1>1 DEF CacheInv, OneKeyEach
<1>4. \A value, e : CacheFits(value, e) => CacheFits(value, e)'
  BY <1>1 DEF CacheFits
<1>. QED BY <1>2, <1>3, <1>4

LEMMA EnterKeeps ==
  ASSUME CacheConstants, CacheInv, NEW k \in Callers, Enter(k)
  PROVE  Lasting'
<1>1. caller[k].step = "obtained" /\ caller[k].entry \in Made /\ caller \in [Callers -> CallerShape]
  BY DEF Enter, CacheInv, CacheShapes
<1>2. UNCHANGED <<truth, announced, heard, listening, index, entries, Made>>
  BY DEF Enter, WorldFrame, Made
<1>3. CASE Return(k, entries[caller[k].entry].value)
  <2>1. caller' = [caller EXCEPT ![k] = NoCall]
    BY <1>3 DEF Return
  <2>2. caller'[k].step = "idle" /\ \A j \in Callers \ {k} : caller'[j] = caller[j]
    BY <1>1, <2>1 DEF NoCall
  <2>3. InTime' /\ OneKeyEach' /\ \A value, e : CacheFits(value, e) => CacheFits(value, e)'
    BY <1>1, <1>2, <2>2, CallersFewer
  <2>4. AllFit'
    BY <1>2, <2>2, <2>3 DEF AllFit, CacheInv
  <2>5. FreshAfterChange'
    BY <1>1, <1>3 DEF Return, FreshAfterChange, CacheInv, AllFit, CacheFits
  <2>. QED BY <2>3, <2>4, <2>5 DEF Lasting
<1>4. CASE caller' = [caller EXCEPT ![k].step = "asking"] /\ UNCHANGED returned
  <2>1. /\ \A j \in Callers \ {k} : caller'[j] = caller[j]
        /\ caller'[k].step = "asking" /\ caller'[k].entry = caller[k].entry
        /\ caller'[k].key = caller[k].key /\ caller'[k].due = caller[k].due
    BY <1>1, <1>4 DEF CallerShape
  <2>2. InTime' /\ OneKeyEach' /\ \A value, e : CacheFits(value, e) => CacheFits(value, e)'
    BY <1>1, <1>2, <2>1, CallersFewer
  <2>3. AllFit'
    BY <1>2, <2>1, <2>2 DEF AllFit, CacheInv
  <2>. QED BY <1>4, <2>2, <2>3 DEF Lasting, FreshAfterChange, CacheInv
<1>. QED BY <1>3, <1>4 DEF Enter

\* What WhatsApp answers is no older than what the events have told.
LEMMA AskKeeps ==
  ASSUME CacheConstants, CacheInv, NEW k \in Callers, AskWhatsApp(k)
  PROVE  Lasting'
<1>1. /\ caller[k].step = "asking" /\ caller[k].entry \in Made /\ caller \in [Callers -> CallerShape]
      /\ caller[k].key \in Infos
  BY DEF AskWhatsApp, CacheInv, CacheShapes
<1>2. UNCHANGED <<truth, announced, heard, listening, index, entries, returned, Made>>
  BY DEF AskWhatsApp, WorldFrame, Made
<1>3. /\ \A j \in Callers \ {k} : caller'[j] = caller[j]
      /\ caller'[k].step = "storing" /\ caller'[k].entry = caller[k].entry
      /\ caller'[k].key = caller[k].key /\ caller'[k].due = caller[k].due
      /\ caller'[k].seen = truth[caller[k].key]
  BY <1>1 DEF AskWhatsApp, CallerShape
<1>4. InTime' /\ OneKeyEach' /\ \A value, e : CacheFits(value, e) => CacheFits(value, e)'
  BY <1>1, <1>2, <1>3, CallersFewer
<1>5. CacheFits(caller'[k].seen, caller'[k].entry)
  <2>1. \A j \in Callers : caller[j].step # "idle" /\ caller[j].entry = caller[k].entry =>
          caller[j].key = caller[k].key /\ caller[j].due <= heard[caller[k].key] /\ caller[j].due \in Nat
    BY <1>1 DEF CacheInv, OneKeyEach, InTime, CallerShape
  <2>2. \A x \in Infos : index[x] = caller[k].entry => x = caller[k].key
    BY <1>1 DEF CacheInv, OneKeyEach
  <2>3. heard[caller[k].key] \in Nat /\ truth[caller[k].key] \in Nat /\ announced[caller[k].key] \in Nat
    BY <1>1 DEF CacheInv, CacheTypes
  <2>4. heard[caller[k].key] <= announced[caller[k].key] /\ announced[caller[k].key] <= truth[caller[k].key]
    BY <1>1 DEF CacheInv, CacheTypes, InTime
  <2>. QED BY <1>3, <2>1, <2>2, <2>3, <2>4 DEF CacheFits
<1>6. AllFit'
  BY <1>2, <1>3, <1>4, <1>5 DEF AllFit, CacheInv
<1>. QED BY <1>2, <1>4, <1>6 DEF Lasting, FreshAfterChange, CacheInv

LEMMA StoreKeeps ==
  ASSUME CacheConstants, CacheInv, NEW k \in Callers, Store(k)
  PROVE  Lasting'
<1>1. caller[k].step = "storing" /\ caller[k].entry \in Made /\ caller \in [Callers -> CallerShape]
  BY DEF Store, CacheInv, CacheShapes
<1>2. UNCHANGED <<truth, announced, heard, listening, index>>
  BY DEF Store, WorldFrame
<1>3. PICK value \in Nat :
        /\ CacheFits(value, caller[k].entry)
        /\ entries' = [entries EXCEPT ![caller[k].entry] = [value |-> value, loaded |-> TRUE, fresh |-> TRUE]]
        /\ Return(k, value)
  BY Brought
<1>4. caller'[k].step = "idle" /\ \A j \in Callers \ {k} : caller'[j] = caller[j]
  BY <1>1, <1>3 DEF Return, NoCall
<1>5. InTime' /\ OneKeyEach' /\ \A v, e : CacheFits(v, e) => CacheFits(v, e)'
  BY <1>1, <1>2, <1>4, CallersFewer
<1>6. /\ Made' = Made /\ entries'[caller[k].entry].value = value
      /\ \A e \in Made \ {caller[k].entry} : entries'[e] = entries[e]
  BY <1>1, <1>3 DEF Made
<1>7. AllFit'
  BY <1>1, <1>3, <1>4, <1>5, <1>6 DEF AllFit, CacheInv
<1>8. FreshAfterChange'
  BY <1>1, <1>3 DEF Return, FreshAfterChange, CacheFits
<1>. QED BY <1>5, <1>7, <1>8 DEF Lasting

\* Who finds an entry under its key is due no more than the entry fits.
LEMMA ObtainKeeps ==
  ASSUME CacheConstants, CacheInv, NEW k \in Callers, NEW x \in Infos, Obtain(k, x)
  PROVE  Lasting'
<1>0. /\ InTime /\ OneKeyEach /\ AllFit /\ FreshAfterChange
      /\ announced \in [Infos -> Nat] /\ heard \in [Infos -> Nat] /\ index \in [Infos -> Made \cup {0}]
      /\ \A j \in Callers : caller[j].step # "idle" => caller[j].key \in Infos /\ caller[j].entry \in Made
      /\ \A n \in Made : n # 0
  BY DEF CacheInv, CacheTypes, CacheShapes
<1>1. PICK e \in Nat \ {0} : Obtains(k, x, e)
  BY Obtained
<1>. USE DEF Obtains
<1>2. index'[x] = e /\ \A y \in Infos \ {x} : index'[y] = index[y] /\ index[y] # e
  BY <1>0, <1>1 DEF OneKeyEach
<1>3. \A j \in Callers \ {k} : caller[j].step # "idle" /\ caller[j].entry = e => caller[j].key = x
  BY <1>0, <1>1 DEF OneKeyEach
<1>4. InTime'
  BY <1>0, <1>1 DEF InTime
<1>5. OneKeyEach'
  BY <1>0, <1>1, <1>2, <1>3 DEF OneKeyEach
<1>6. ASSUME NEW value, NEW n \in Made, CacheFits(value, n) PROVE CacheFits(value, n)'
  BY <1>0, <1>1, <1>2, <1>6 DEF CacheFits
<1>7. AllFit'
  <2>1. ASSUME NEW j \in Callers, caller'[j].step = "storing", caller'[j].ok
        PROVE  CacheFits(caller[j].seen, caller[j].entry)'
    <3>1. caller'[j] = caller[j] /\ caller[j].entry \in Made
      BY <1>0, <1>1, <2>1
    <3>. QED BY <1>0, <1>6, <2>1, <3>1 DEF AllFit
  <2>2. CASE e \in Made /\ entries' = entries
    BY <1>0, <1>6, <2>1, <2>2 DEF AllFit, Made
  <2>3. CASE entries' = [n \in Made \cup {e} |-> IF n = e THEN NewEntry ELSE entries[n]] /\ e \notin Made
    <3>1. /\ Made' = Made \cup {e} /\ entries'[e].value = 0
          /\ \A n \in Made : entries'[n] = entries[n]
      BY <2>3 DEF Made, NewEntry
    <3>2. CacheFits(0, e)'
      BY DEF CacheFits
    <3>. QED BY <1>0, <1>6, <2>1, <3>1, <3>2 DEF AllFit
  <2>. QED BY <1>1, <2>2, <2>3
<1>. QED BY <1>0, <1>1, <1>4, <1>5, <1>7 DEF Lasting, FreshAfterChange

-----------------------------------------------------------------------------
LEMMA CacheInductive ==
  ASSUME CacheConstants
  PROVE  CacheSpec => []CacheInv
<1>1. CacheInit => CacheInv
  <2>. SUFFICES ASSUME CacheInit PROVE CacheInv
    OBVIOUS
  <2>1. Made = {} /\ 1..0 = {}
    BY DEF CacheInit, Made
  <2>2. NoCall \in CallerShape /\ NoCall.step = "idle" /\ NoCall.entry = 0
    BY DEF NoCall, CallerShape, CallerSteps
  <2>3. CacheTypes
    BY <2>1, <2>2 DEF CacheInit, CacheTypes, CallerSteps
  <2>4. CacheShapes
    BY <2>1, <2>2, FS_EmptySet DEF CacheInit, CacheShapes
  <2>5. InTime /\ OneKeyEach /\ AllFit /\ FreshAfterChange
    BY <2>1, <2>2 DEF CacheInit, InTime, OneKeyEach, AllFit, FreshAfterChange
  <2>. QED BY <2>3, <2>4, <2>5 DEF CacheInv
<1>2. ASSUME CacheInv, [CacheNext]_cacheVars PROVE CacheInv'
  <2>0. ASSUME UNCHANGED <<truth, announced, heard, index, caller, returned, Made>>,
               \A n \in Made : entries'[n].value = entries[n].value
        PROVE  Lasting'
    BY <1>2, <2>0 DEF Lasting, CacheInv, InTime, OneKeyEach, AllFit, CacheFits, FreshAfterChange
  <2>1. ASSUME NEW e \in Made, EntryExpires(e) PROVE Lasting'
    <3>1. UNCHANGED <<truth, announced, heard, listening, index, caller, returned, Made>>
      BY <2>1 DEF EntryExpires, WorldFrame, Made
    <3>2. \A n \in Made : entries'[n].value = entries[n].value
      BY <1>2, <2>1 DEF EntryExpires, Made, CacheInv, CacheTypes, Entry
    <3>. QED BY <2>0, <3>1, <3>2
  <2>2. ASSUME UNCHANGED cacheVars PROVE Lasting'
    <3>1. UNCHANGED <<truth, announced, heard, listening, index, caller, returned, Made>> /\ entries' = entries
      BY <2>2 DEF cacheVars, Made
    <3>. QED BY <2>0, <3>1
  <2>3. ASSUME NEW x \in Infos, Change(x) \/ NameChanged(x) \/ Evict(x) PROVE Lasting'
    BY <1>2, <2>3, WorldKeeps
  <2>4. ASSUME NEW k \in Callers, Enter(k) \/ AskWhatsApp(k) \/ Store(k) PROVE Lasting'
    BY <1>2, <2>4, EnterKeeps, AskKeeps, StoreKeeps
  <2>5. ASSUME NEW k \in Callers, NEW x \in Infos, Obtain(k, x) PROVE Lasting'
    BY <1>2, <2>5, ObtainKeeps
  <2>6. ASSUME Listen PROVE Lasting'
    <3>1. UNCHANGED <<truth, announced, heard, index, caller, returned, Made>> /\ entries' = entries
      BY <2>6 DEF Listen, Made
    <3>. QED BY <2>0, <3>1
  <2>7. Lasting'
    BY <1>2, <2>1, <2>2, <2>3, <2>4, <2>5, <2>6 DEF CacheNext, CacheRest
  <2>. QED BY <1>2, <2>7, CacheKeepsTypes DEF CacheInv, Lasting
<1>. QED BY <1>1, <1>2, PTL DEF CacheSpec

\* Types of the entries, the index and the callers.
THEOREM CacheTypeCorrect ==
  ASSUME CacheConstants
  PROVE  CacheSpec => []CacheTypes
<1>1. CacheInv => CacheTypes
  BY DEF CacheInv
<1>. QED BY <1>1, CacheInductive, PTL

\* A name is never older than its last change that was heard when the caller asked,
\* however many lookups cross the event and however often the channel stops listening.
THEOREM NamesFresh ==
  ASSUME CacheConstants
  PROVE  CacheSpec => []FreshAfterChange
<1>1. CacheInv => FreshAfterChange
  BY DEF CacheInv
<1>. QED BY <1>1, CacheInductive, PTL
-----------------------------------------------------------------------------
(***************************************************************************)
(* RpcServer: RpcTypes and AckedMeansReplied, for any requests,            *)
(* operations, prefetch and faults. What a request is owed follows it from *)
(* the reply to the ack.                                                   *)
(***************************************************************************)

\* What lets a request be acknowledged.
Answered(r) == r \in replied \/ r \notin Answerable \/ r \in excusable

RpcInv == RpcTypes /\ AckedMeansReplied /\ \A r \in Requests : serving[r] = "acking" => Answered(r)

LEMMA RpcKeepsTypes ==
  ASSUME RpcConstants, RpcInv, [RpcNext]_rpcVars
  PROVE  RpcTypes'
<1>. USE DEF RpcConstants, RpcInv, RpcTypes, Places, ServeSteps, Put, Goto, Well, Fault, History
<1>1. Requeued \in [Requests -> Places]
  BY DEF Requeued
<1>2. ASSUME NEW r \in Requests, Call(r) \/ DeadlinePasses(r) \/ DropLate(r) \/ Deliver(r)
      PROVE  RpcTypes'
  BY <1>2 DEF Call, DeadlinePasses, DropLate, Deliver
<1>3. ASSUME NEW r \in Requests, Serve(r) PROVE RpcTypes'
  <2>1. CASE StartServing(r) \/ Answer(r) \/ Ack(r)
    BY <2>1 DEF StartServing, Answer, Ack, NotYet, Settles, ServeFrame
  <2>2. CASE Reply(r)
    BY <2>2 DEF Reply, ServeFrame
  <2>. QED BY <1>3, <2>1, <2>2 DEF Serve
<1>4. ASSUME NEW o \in Operations, Handle(o) PROVE RpcTypes'
  BY <1>4 DEF Handle, LifeFrame
<1>5. CASE Closed \/ RpcRestart \/ Close
  BY <1>5 DEF Closed, RpcRestart, Close, LifeFrame
<1>6. CASE LoseLink
  <2>1. faults' \in 0..RpcFaults
    BY <1>6 DEF LoseLink
  <2>2. linked' \in BOOLEAN
    BY <1>6, Zenon DEF LoseLink
  <2>. QED BY <1>1, <1>6, <2>1, <2>2 DEF LoseLink
<1>7. CASE Leave \/ RpcCrash
  <2>1. [r \in Requests |-> "none"] \in [Requests -> ServeSteps]
    OBVIOUS
  <2>2. GoDown /\ faults' \in 0..RpcFaults
    BY <1>7 DEF Leave, RpcCrash
  <2>. QED BY <1>1, <2>1, <2>2 DEF GoDown
<1>8. CASE UNCHANGED rpcVars
  BY <1>8 DEF rpcVars, requestVars
<1>. QED BY <1>2, <1>3, <1>4, <1>5, <1>6, <1>7, <1>8 DEF RpcNext, Delivering, Serving, RpcLife

\* An ack comes after the step that made it due; nothing else settles a request,
\* and what was answered stays answered.
LEMMA RpcKeepsAnswered ==
  ASSUME RpcConstants, RpcInv, [RpcNext]_rpcVars
  PROVE  (AckedMeansReplied /\ \A r \in Requests : serving[r] = "acking" => Answered(r))'
<1>. USE DEF RpcInv, RpcTypes, AckedMeansReplied, Answered, Put, Goto, History
<1>1. \A q \in Requests : Requeued[q] = "settled" => request[q] = "settled"
  BY DEF Requeued
<1>2. ASSUME NEW r \in Requests, Serve(r)
      PROVE  (AckedMeansReplied /\ \A q \in Requests : serving[q] = "acking" => Answered(q))'
  <2>1. CASE StartServing(r) \/ Answer(r)
    BY <2>1 DEF StartServing, Answer, NotYet
  <2>2. CASE Reply(r)
    BY <2>2 DEF Reply
  <2>3. CASE Ack(r)
    BY <2>3 DEF Ack, Settles
  <2>. QED BY <1>2, <2>1, <2>2, <2>3 DEF Serve
<1>3. ASSUME NEW r \in Requests, Call(r) \/ DeadlinePasses(r) \/ DropLate(r) \/ Deliver(r)
      PROVE  (AckedMeansReplied /\ \A q \in Requests : serving[q] = "acking" => Answered(q))'
  BY <1>3 DEF Call, DeadlinePasses, DropLate, Deliver
<1>4. CASE (\E o \in Operations : Handle(o)) \/ Closed \/ RpcRestart \/ Close
  BY <1>4 DEF Handle, Closed, RpcRestart, Close, LifeFrame
<1>5. CASE LoseLink \/ Leave \/ RpcCrash
  BY <1>1, <1>5 DEF LoseLink, Leave, RpcCrash, GoDown
<1>6. CASE UNCHANGED rpcVars
  BY <1>6 DEF rpcVars, requestVars
<1>. QED BY <1>2, <1>3, <1>4, <1>5, <1>6 DEF RpcNext, Delivering, Serving, RpcLife

LEMMA RpcInductive ==
  ASSUME RpcConstants
  PROVE  RpcSpec => []RpcInv
<1>1. RpcInit => RpcInv
  BY DEF RpcConstants, RpcInit, RpcInv, RpcTypes, Places, ServeSteps, AckedMeansReplied
<1>2. RpcInv /\ [RpcNext]_rpcVars => RpcInv'
  BY RpcKeepsTypes, RpcKeepsAnswered DEF RpcInv
<1>. QED BY <1>1, <1>2, PTL DEF RpcSpec

\* Types of the requests, their goroutines and the server.
THEOREM RpcTypeCorrect ==
  ASSUME RpcConstants
  PROVE  RpcSpec => []RpcTypes
<1>1. RpcInv => RpcTypes
  BY DEF RpcInv
<1>. QED BY <1>1, RpcInductive, PTL

\* No request is acknowledged and forgotten, across lost connections, stops and crashes.
THEOREM RequestsAnswered ==
  ASSUME RpcConstants
  PROVE  RpcSpec => []AckedMeansReplied
<1>1. RpcInv => AckedMeansReplied
  BY DEF RpcInv
<1>. QED BY <1>1, RpcInductive, PTL
-----------------------------------------------------------------------------
(***************************************************************************)
(* CallAudio: AudioTypes, NothingStaleHeard and RecordingWhole, for any    *)
(* sound, ring and queue size, and errors.                                 *)
(***************************************************************************)

RingNames == {"peer", "operator"}
FinishSteps == {"on", "stopping", "video", "tracks", "done"}

SoundShapes ==
  /\ spoken \in [Sounds -> Nat] /\ spoken["operator"] <= MaxSpoken
  /\ outbound \in [announcement : 0..2, queue : Seq(Nat), pending : Nat, closed : BOOLEAN]
  /\ Len(outbound.queue) <= QueueFrames
  /\ barrier \in Nat /\ barrier <= spoken["operator"]

\* Whatever of the operator is still to be read came after the barrier.
NothingOld ==
  /\ \A i \in 1..Len(outbound.queue) : outbound.queue[i] > barrier
  /\ outbound.pending # NoFrame => outbound.pending > barrier
  /\ ~stale

Track == [length : [TrackNames -> Nat], peer : Seq(Nat), frames : Nat, failed : BOOLEAN]

RecordShapes ==
  /\ rings \in [RingNames -> Seq(Nat)] /\ \A r \in RingNames : Len(rings[r]) <= RingFrames
  /\ recorder \in [started : BOOLEAN, closing : BOOLEAN, step : FinishSteps]
  /\ tracks \in Track
  /\ videoFile \in {"none", "open", "failed", "closed"} /\ disk \subseteq TrackNames \cup {"video"}
  /\ kept \in Seq(Nat) /\ overrun \in BOOLEAN

\* What the peer's ring took is in its track or still in the ring.
InTrackOrRing == ~tracks.failed /\ ~overrun => tracks.peer \o rings["peer"] = kept

\* What Finish has done by each of its steps.
Finishing ==
  /\ ~recorder.started => rings["peer"] = <<>>
  /\ recorder.step # "on" => recorder.closing
  /\ recorder.step \in {"video", "tracks", "done"} /\ ~tracks.failed => rings["peer"] = <<>>
  /\ recorder.step \in {"tracks", "done"} => videoFile = "closed"
  /\ recorder.step = "done" => disk = {}
  /\ \A t \in DOMAIN uploads : recorder.step = "done" /\ uploads[t] = tracks.frames

SoundInv == SoundShapes /\ NothingOld
RecordInv == RecordShapes /\ InTrackOrRing /\ Finishing
AudioInv == SoundInv /\ RecordInv

-----------------------------------------------------------------------------
(* Sequences.                                                               *)

LEMMA TrackGrows ==
  ASSUME NEW t \in Track, NEW n \in TrackNames, NEW i \in Nat
  PROVE  [t EXCEPT !.length[n] = @ + i] \in Track
<1>1. ASSUME NEW S, NEW T, NEW u \in [length : [T -> Nat], peer : S, frames : Nat, failed : BOOLEAN], NEW m \in T
      PROVE  [u EXCEPT !.length[m] = @ + i] \in [length : [T -> Nat], peer : S, frames : Nat, failed : BOOLEAN]
  OBVIOUS
<1>2. t \in [length : [TrackNames -> Nat], peer : Seq(Nat), frames : Nat, failed : BOOLEAN]
  BY DEF Track
<1>3. [t EXCEPT !.length[n] = @ + i] \in [length : [TrackNames -> Nat], peer : Seq(Nat), frames : Nat, failed : BOOLEAN]
  BY <1>1, <1>2, Zenon
<1>. QED BY <1>3 DEF Track

LEMMA NewestKeeps ==
  ASSUME NEW s \in Seq(Nat), NEW n \in Nat \ {0}
  PROVE  /\ Newest(s, n) \in Seq(Nat) /\ Len(Newest(s, n)) <= n
         /\ Len(s) <= n => Newest(s, n) = s
         /\ \A i \in 1..Len(Newest(s, n)) : \E j \in 1..Len(s) : Newest(s, n)[i] = s[j]
<1>1. CASE Len(s) > n
  <2> DEFINE from == Len(s) - n + 1
  <2>1. /\ from \in Int /\ Len(s) \in Int /\ from >= 1 /\ from <= Len(s) /\ Len(s) - from + 1 = n
        /\ \A i \in from..Len(s) : s[i] \in Nat
    BY <1>1
  <2>2. Newest(s, n) = SubSeq(s, from, Len(s))
    BY <1>1 DEF Newest
  <2>. HIDE DEF from
  <2>3. /\ Newest(s, n) \in Seq(Nat) /\ Len(Newest(s, n)) = n
        /\ \A i \in 1..n : Newest(s, n)[i] = s[from + i - 1]
    BY <2>1, <2>2, SubSeqProperties
  <2>4. \A i \in 1..n : from + i - 1 \in 1..Len(s)
    BY <2>1
  <2>5. \A i \in 1..Len(Newest(s, n)) : \E j \in 1..Len(s) : Newest(s, n)[i] = s[j]
    BY <2>3, <2>4
  <2>. QED BY <1>1, <2>3, <2>5
<1>2. CASE ~(Len(s) > n)
  <2>1. Newest(s, n) = s
    BY <1>2, SubSeqFull DEF Newest
  <2>. QED BY <1>2, <2>1
<1>. QED BY <1>1, <1>2

LEMMA ShiftKeeps ==
  ASSUME NEW s \in Seq(Nat)
  PROVE  /\ Shift(s) \in Seq(Nat) /\ Len(Shift(s)) <= Len(s) /\ NextFrame(s) \in Nat
         /\ s = <<>> => Shift(s) = <<>>
         /\ \A i \in 1..Len(Shift(s)) : \E j \in 1..Len(s) : Shift(s)[i] = s[j]
         /\ NextFrame(s) # NoFrame => \E j \in 1..Len(s) : NextFrame(s) = s[j]
<1>1. CASE s = <<>>
  BY <1>1 DEF Shift, NextFrame, NoFrame
<1>2. CASE s # <<>>
  <2>1. /\ Tail(s) \in Seq(Nat) /\ Len(Tail(s)) = Len(s) - 1 /\ Len(s) \in Nat \ {0}
        /\ \A i \in 1..(Len(s) - 1) : Tail(s)[i] = s[i + 1]
    BY <1>2, HeadTailProperties
  <2>2. s[1] \in Nat /\ 1 \in 1..Len(s)
    BY <2>1
  <2>3. \A i \in 1..Len(Tail(s)) : i + 1 \in 1..Len(s) /\ Tail(s)[i] = s[i + 1]
    BY <2>1
  <2>. QED BY <1>2, <2>1, <2>2, <2>3 DEF Shift, NextFrame
<1>. QED BY <1>1, <1>2

\* A frame that goes from the ring to the track stays in its place.
LEMMA Passes ==
  ASSUME NEW t \in Seq(Nat), NEW r \in Seq(Nat)
  PROVE  /\ r # <<>> => Append(t, Head(r)) \o Tail(r) = t \o r
         /\ \A f \in Nat : t \o Append(r, f) = Append(t \o r, f)
         /\ t \o <<>> = t
<1>1. ASSUME r # <<>> PROVE Append(t, Head(r)) \o Tail(r) = t \o r
  <2>1. /\ Head(r) = r[1] /\ Head(r) \in Nat /\ Tail(r) \in Seq(Nat) /\ Len(Tail(r)) = Len(r) - 1
        /\ \A i \in 1..(Len(r) - 1) : Tail(r)[i] = r[i + 1]
    BY <1>1, HeadTailProperties
  <2>2. <<Head(r)>> \in Seq(Nat) /\ Append(t, Head(r)) = t \o <<Head(r)>>
    BY <2>1, AppendIsConcat
  <2>3. <<Head(r)>> \o Tail(r) = r
    BY <1>1
  <2>4. (t \o <<Head(r)>>) \o Tail(r) = t \o (<<Head(r)>> \o Tail(r))
    <3> DEFINE h == <<Head(r)>>
               b == Tail(r)
    <3>1. h \in Seq(Nat) /\ b \in Seq(Nat)
      BY <2>1, <2>2
    <3>. HIDE DEF h, b
    <3>2. (t \o h) \o b = t \o (h \o b)
      BY <3>1, ConcatAssociative
    <3>. QED BY <3>2 DEF h, b
  <2>. QED BY <2>2, <2>3, <2>4, Zenon
<1>2. ASSUME NEW f \in Nat PROVE t \o Append(r, f) = Append(t \o r, f)
  OBVIOUS
<1>3. t \o <<>> = t
  BY ConcatEmptySeq
<1>. QED BY <1>1, <1>2, <1>3

-----------------------------------------------------------------------------
(* What the peer hears.                                                     *)

SoundSteps == Speak \/ Play \/ ClearOperator \/ Read \/ CloseOutbound

\* A step that leaves the operator and the outbound side alone.
LEMMA SoundStays ==
  ASSUME SoundInv, UNCHANGED soundVars, spoken' \in [Sounds -> Nat], spoken'["operator"] = spoken["operator"]
  PROVE  SoundInv'
BY DEF SoundInv, SoundShapes, NothingOld, soundVars

LEMMA Speaking ==
  ASSUME AudioConstants, SoundInv, NEW s \in Sounds, NEW max, Speaks(s, max)
  PROVE  /\ spoken' \in [Sounds -> Nat] /\ spoken'[s] = spoken[s] + 1 /\ spoken[s] < max
         /\ \A t \in Sounds \ {s} : spoken'[t] = spoken[t]
BY DEF SoundInv, SoundShapes, Speaks

LEMMA SoundKeeps ==
  ASSUME AudioConstants, SoundInv, SoundSteps
  PROVE  SoundInv'
<1>0. /\ MaxSpoken \in Nat /\ QueueFrames \in Nat \ {0}
      /\ spoken \in [Sounds -> Nat] /\ spoken["operator"] <= MaxSpoken /\ "operator" \in Sounds
      /\ outbound \in [announcement : 0..2, queue : Seq(Nat), pending : Nat, closed : BOOLEAN]
      /\ Len(outbound.queue) <= QueueFrames
      /\ barrier \in Nat /\ barrier <= spoken["operator"]
      /\ \A i \in 1..Len(outbound.queue) : outbound.queue[i] > barrier
      /\ outbound.pending # NoFrame => outbound.pending > barrier
      /\ ~stale
  BY DEF AudioConstants, SoundInv, SoundShapes, NothingOld, Sounds
<1>1. CASE Speak
  <2>1. /\ spoken' \in [Sounds -> Nat] /\ spoken'["operator"] = spoken["operator"] + 1
        /\ spoken["operator"] < MaxSpoken /\ UNCHANGED <<barrier, stale>>
    BY <1>0, <1>1, Speaking DEF Speak
  <2>2. CASE outbound' = outbound
    BY <1>0, <2>1, <2>2 DEF SoundInv, SoundShapes, NothingOld
  <2>3. CASE outbound' = [outbound EXCEPT !.queue = Newest(Append(@, spoken'["operator"]), QueueFrames)]
    <3> DEFINE q == Append(outbound.queue, spoken'["operator"])
    <3>1. /\ q \in Seq(Nat) /\ Len(q) = Len(outbound.queue) + 1
          /\ q[Len(outbound.queue) + 1] = spoken'["operator"]
          /\ \A i \in 1..Len(outbound.queue) : q[i] = outbound.queue[i]
      BY <1>0, <2>1, AppendProperties
    <3>. HIDE DEF q
    <3>2. \A i \in 1..Len(q) : q[i] > barrier
      <4>1. Len(outbound.queue) \in Nat /\ spoken["operator"] \in Nat
        BY <1>0
      <4>2. q[Len(outbound.queue) + 1] > barrier
        BY <1>0, <2>1, <3>1, <4>1
      <4>3. \A i \in 1..Len(q) : i \in 1..Len(outbound.queue) \/ i = Len(outbound.queue) + 1
        BY <3>1, <4>1
      <4>. QED BY <1>0, <3>1, <4>2, <4>3
    <3>3. /\ Newest(q, QueueFrames) \in Seq(Nat) /\ Len(Newest(q, QueueFrames)) <= QueueFrames
          /\ \A i \in 1..Len(Newest(q, QueueFrames)) : \E j \in 1..Len(q) : Newest(q, QueueFrames)[i] = q[j]
      BY <1>0, <3>1, NewestKeeps
    <3>4. \A i \in 1..Len(Newest(q, QueueFrames)) : Newest(q, QueueFrames)[i] > barrier
      BY <3>2, <3>3
    <3>5. /\ outbound' \in [announcement : 0..2, queue : Seq(Nat), pending : Nat, closed : BOOLEAN]
          /\ outbound'.queue = Newest(q, QueueFrames) /\ outbound'.pending = outbound.pending
      BY <1>0, <2>3, <3>3 DEF q
    <3>. QED BY <1>0, <2>1, <3>3, <3>4, <3>5 DEF SoundInv, SoundShapes, NothingOld
  <2>. QED BY <1>1, <2>2, <2>3 DEF Speak
<1>2. CASE Play \/ ClearOperator \/ CloseOutbound
  <2>1. /\ outbound' \in [announcement : 0..2, queue : Seq(Nat), pending : Nat, closed : BOOLEAN]
        /\ outbound'.queue = <<>> /\ outbound'.pending = NoFrame
    <3> DEFINE o == Emptied(outbound)
    <3>0. /\ o \in [announcement : 0..2, queue : Seq(Nat), pending : Nat, closed : BOOLEAN]
          /\ o.queue = <<>> /\ o.pending = NoFrame
      <4>1. <<>> \in Seq(Nat) /\ NoFrame \in Nat
        BY DEF NoFrame
      <4>. QED BY <1>0, <4>1 DEF Emptied
    <3>1. CASE Play
      <4>1. PICK frames \in 1..2 : outbound' = [o EXCEPT !.announcement = frames]
        BY <3>1 DEF Play
      <4>. HIDE DEF o
      <4>. QED BY <3>0, <4>1
    <3>2. CASE ClearOperator
      BY <3>0, <3>2 DEF ClearOperator
    <3>3. CASE CloseOutbound
      <4>1. outbound' = [o EXCEPT !.announcement = 0, !.closed = TRUE]
        BY <3>3, Zenon DEF CloseOutbound
      <4>2. 0 \in 0..2
        OBVIOUS
      <4>. HIDE DEF o
      <4>. QED BY <3>0, <4>1, <4>2
    <3>. QED BY <1>2, <3>1, <3>2, <3>3
  <2>2. /\ spoken' \in [Sounds -> Nat] /\ spoken'["operator"] = spoken["operator"]
        /\ barrier' \in {barrier, spoken["operator"]} /\ stale' = stale
    <3>1. CASE Play
      BY <1>0, <3>1, Speaking DEF Play, Sounds
    <3>2. CASE ClearOperator
      BY <1>0, <3>2, Speaking DEF ClearOperator, Sounds
    <3>3. CASE CloseOutbound
      BY <1>0, <3>3 DEF CloseOutbound, Silent
    <3>. QED BY <1>2, <3>1, <3>2, <3>3
  <2>. QED BY <1>0, <2>1, <2>2 DEF SoundInv, SoundShapes, NothingOld
<1>3. CASE Read
  <2>1. /\ Shift(outbound.queue) \in Seq(Nat) /\ Len(Shift(outbound.queue)) <= QueueFrames
        /\ NextFrame(outbound.queue) \in Nat
        /\ \A i \in 1..Len(Shift(outbound.queue)) : Shift(outbound.queue)[i] > barrier
        /\ NextFrame(outbound.queue) # NoFrame => NextFrame(outbound.queue) > barrier
    <3>1. outbound.queue \in Seq(Nat) /\ Len(outbound.queue) \in Nat /\ Len(Shift(outbound.queue)) \in Nat
      BY <1>0, ShiftKeeps
    <3>2. Len(Shift(outbound.queue)) <= QueueFrames
      <4>1. Len(Shift(outbound.queue)) <= Len(outbound.queue)
        BY <3>1, ShiftKeeps
      <4>. QED BY <1>0, <3>1, <4>1
    <3>3. ASSUME NEW i \in 1..Len(Shift(outbound.queue)) PROVE Shift(outbound.queue)[i] > barrier
      <4>1. PICK j \in 1..Len(outbound.queue) : Shift(outbound.queue)[i] = outbound.queue[j]
        BY <3>1, ShiftKeeps
      <4>. QED BY <1>0, <4>1
    <3>4. ASSUME NextFrame(outbound.queue) # NoFrame PROVE NextFrame(outbound.queue) > barrier
      <4>1. PICK j \in 1..Len(outbound.queue) : NextFrame(outbound.queue) = outbound.queue[j]
        BY <3>1, <3>4, ShiftKeeps
      <4>. QED BY <1>0, <4>1
    <3>. QED BY <3>1, <3>2, <3>3, <3>4, ShiftKeeps
  <2>2. Given \notin 1..barrier
    BY <1>0, <2>1 DEF Given, Announced, NoFrame
  <2>3. spoken' = spoken /\ barrier' = barrier /\ ~stale'
    BY <1>0, <1>3, <2>2 DEF Read, Silent
  <2>4. /\ outbound' \in [announcement : 0..2, queue : Seq(Nat), pending : Nat, closed : BOOLEAN]
        /\ outbound'.queue \in {outbound.queue, Shift(outbound.queue)}
        /\ outbound'.pending \in {outbound.pending, NoFrame, NextFrame(outbound.queue)}
    <3>1. CASE outbound' = [outbound EXCEPT !.announcement = @ - 1] /\ outbound.announcement > 0
      <4>1. outbound.announcement - 1 \in 0..2
        BY <1>0, <3>1
      <4>. QED BY <1>0, <3>1, <4>1
    <3>2. CASE outbound' = [outbound EXCEPT !.pending = NoFrame]
      BY <1>0, <3>2 DEF NoFrame
    <3>3. CASE outbound' = [outbound EXCEPT !.pending = NextFrame(outbound.queue), !.queue = Shift(@)]
      BY <1>0, <2>1, <3>3
    <3>. QED BY <1>3, <3>1, <3>2, <3>3 DEF Read, Rest
  <2>. QED BY <1>0, <2>1, <2>3, <2>4 DEF SoundInv, SoundShapes, NothingOld
<1>. QED BY <1>1, <1>2, <1>3 DEF SoundSteps

-----------------------------------------------------------------------------
(* The recording.                                                           *)

\* A frame for a ring, as long as Finish has not begun.
LEMMA RecordKeeps ==
  ASSUME AudioConstants, RecordInv, NEW ring \in RingNames, NEW frame \in Nat, Record(ring, frame), FileFrame
  PROVE  RecordInv'
<1>0. /\ RecordShapes /\ InTrackOrRing /\ Finishing /\ RingFrames \in Nat \ {0}
      /\ rings \in [RingNames -> Seq(Nat)] /\ rings[ring] \in Seq(Nat)
      /\ kept \in Seq(Nat) /\ tracks.peer \in Seq(Nat)
  BY DEF RecordInv, RecordShapes, AudioConstants, Track
<1>1. UNCHANGED <<tracks, videoFile, disk, uploads>>
  BY DEF FileFrame
<1>2. CASE recorder.closing
  <2>1. UNCHANGED <<rings, recorder, overrun, kept>>
    BY <1>2 DEF Record
  <2>. QED BY <1>0, <1>1, <2>1 DEF RecordInv, RecordShapes, InTrackOrRing, Finishing
<1>3. CASE ~recorder.closing
  <2> DEFINE q == Append(rings[ring], frame)
  <2>1. /\ rings' = [rings EXCEPT ![ring] = Newest(q, RingFrames)]
        /\ overrun' = (overrun \/ Len(rings[ring]) = RingFrames)
        /\ recorder' = [recorder EXCEPT !.started = TRUE]
        /\ kept' = IF ring = "peer" THEN Append(kept, frame) ELSE kept
    BY <1>3 DEF Record
  <2>2. q \in Seq(Nat) /\ Len(q) = Len(rings[ring]) + 1
    BY <1>0, AppendProperties
  <2>. HIDE DEF q
  <2>3. /\ Newest(q, RingFrames) \in Seq(Nat) /\ Len(Newest(q, RingFrames)) <= RingFrames
        /\ Len(q) <= RingFrames => Newest(q, RingFrames) = q
    BY <1>0, <2>2, NewestKeeps
  <2>4. rings' \in [RingNames -> Seq(Nat)] /\ \A r \in RingNames : Len(rings'[r]) <= RingFrames
    BY <1>0, <2>1, <2>3 DEF RecordShapes
  <2>5. /\ recorder' \in [started : BOOLEAN, closing : BOOLEAN, step : FinishSteps]
        /\ recorder'.started /\ recorder'.closing = recorder.closing /\ recorder'.step = recorder.step
    BY <1>0, <2>1 DEF RecordShapes
  <2>6. kept' \in Seq(Nat)
    BY <1>0, <2>1
  <2>7. overrun' \in BOOLEAN
    BY <2>1, Zenon
  <2>8. recorder.step = "on"
    BY <1>0, <1>3 DEF Finishing, RecordShapes
  <2>9. InTrackOrRing'
    <3>. SUFFICES ASSUME ~tracks'.failed, ~overrun' PROVE tracks'.peer \o rings'["peer"] = kept'
      BY DEF InTrackOrRing
    <3>1. /\ tracks.peer \o rings["peer"] = kept /\ Len(rings[ring]) # RingFrames
      BY <1>0, <1>1, <2>1 DEF InTrackOrRing
    <3>2. CASE ring = "peer"
      <4>1. Len(rings[ring]) \in Nat /\ Len(rings[ring]) <= RingFrames
        BY <1>0 DEF RecordShapes
      <4>2. rings'["peer"] = Append(rings["peer"], frame)
        BY <1>0, <2>1, <2>2, <2>3, <3>1, <3>2, <4>1 DEF q
      <4>3. tracks.peer \o Append(rings["peer"], frame) = Append(kept, frame)
        <5>1. tracks.peer \o Append(rings["peer"], frame) = Append(tracks.peer \o rings["peer"], frame)
          BY <1>0, <3>2, Passes
        <5>. QED BY <3>1, <5>1
      <4>4. tracks'.peer = tracks.peer /\ kept' = Append(kept, frame)
        BY <1>1, <2>1, <3>2
      <4>. QED BY <4>2, <4>3, <4>4
    <3>3. CASE ring # "peer"
      BY <1>0, <1>1, <2>1, <3>1, <3>3 DEF RingNames
    <3>. QED BY <3>2, <3>3
  <2>10. RecordShapes'
    BY <1>0, <1>1, <2>4, <2>5, <2>6, <2>7 DEF RecordShapes
  <2>11. Finishing'
    BY <1>0, <1>1, <2>5, <2>8 DEF Finishing
  <2>. QED BY <2>9, <2>10, <2>11 DEF RecordInv
<1>. QED BY <1>2, <1>3

\* A frame goes from the rings to the tracks, or the recording fails.
LEMMA WriteKeeps ==
  ASSUME AudioConstants, RecordInv, WriteFrame
  PROVE  RecordInv'
<1>0. /\ RecordShapes /\ InTrackOrRing /\ Finishing
      /\ rings \in [RingNames -> Seq(Nat)] /\ "peer" \in RingNames /\ "operator" \in RingNames
      /\ tracks \in Track
  BY DEF RecordInv, RecordShapes, RingNames
<1>1. /\ UNCHANGED <<recorder, videoFile, uploads, kept, overrun>>
      /\ recorder.started /\ recorder.step \in {"on", "stopping"} /\ ~tracks.failed
      /\ rings' = [r \in RingNames |-> Shift(rings[r])]
  BY DEF WriteFrame, RingNames
<1>2. rings' \in [RingNames -> Seq(Nat)] /\ \A r \in RingNames : Len(rings'[r]) <= RingFrames
  <2>1. ASSUME NEW r \in RingNames PROVE rings'[r] \in Seq(Nat) /\ Len(rings'[r]) <= RingFrames
    <3>1. /\ rings[r] \in Seq(Nat) /\ rings'[r] = Shift(rings[r]) /\ Len(rings[r]) <= RingFrames
          /\ RingFrames \in Nat
      BY <1>0, <1>1 DEF RecordShapes, AudioConstants
    <3>2. Shift(rings[r]) \in Seq(Nat) /\ Len(Shift(rings[r])) <= Len(rings[r])
      BY <3>1, ShiftKeeps
    <3>. QED BY <3>1, <3>2
  <2>. QED BY <1>1, <2>1
<1>3. /\ disk' \subseteq TrackNames \cup {"video"}
      /\ tracks' \in Track
      /\ ~tracks'.failed => tracks'.peer = Heard(3)
  <2>1. ASSUME NEW n \in 0..3, WriteTracks(n)
        PROVE  /\ disk' \subseteq TrackNames \cup {"video"}
               /\ tracks' \in Track
               /\ ~tracks'.failed => tracks'.peer = Heard(3)
    <3>1. disk' \subseteq TrackNames \cup {"video"}
      BY <1>0, <2>1 DEF WriteTracks, RecordShapes
    <3>2. Heard(n) \in Seq(Nat)
      <4>1. rings["peer"] \in Seq(Nat) /\ tracks.peer \in Seq(Nat)
        BY <1>0 DEF Track
      <4>2. ASSUME rings["peer"] # <<>> PROVE Append(tracks.peer, Head(rings["peer"])) \in Seq(Nat)
        <5>1. Head(rings["peer"]) \in Nat
          BY <4>1, <4>2, HeadTailProperties
        <5>. QED BY <4>1, <5>1, AppendProperties
      <4>. QED BY <4>1, <4>2 DEF Heard
    <3>3. Longer(n) \in Track
      <4> DEFINE one == [tracks EXCEPT !.length["mix"] = @ + (IF n > 0 THEN 1 ELSE 0)]
                 two == [one EXCEPT !.length["peer"] = @ + (IF n > 1 THEN 1 ELSE 0)]
                 all == [two EXCEPT !.length["operator"] = @ + (IF n > 2 THEN 1 ELSE 0)]
      <4>0. /\ (IF n > 0 THEN 1 ELSE 0) \in Nat /\ (IF n > 1 THEN 1 ELSE 0) \in Nat
            /\ (IF n > 2 THEN 1 ELSE 0) \in Nat /\ tracks \in Track
            /\ "mix" \in TrackNames /\ "peer" \in TrackNames /\ "operator" \in TrackNames
        BY <1>0 DEF TrackNames
      <4>1. one \in Track
        BY <4>0, TrackGrows
      <4>2. two \in Track
        BY <4>0, <4>1, TrackGrows
      <4>3. all \in Track
        BY <4>0, <4>2, TrackGrows
      <4>4. Longer(n) = all
        BY DEF Longer
      <4>. QED BY <4>3, <4>4
    <3>4. /\ tracks' \in Track
          /\ tracks'.peer = Heard(n) /\ tracks'.failed = (n # 3)
      <4>1. tracks' = [Longer(n) EXCEPT !.peer = Heard(n), !.frames = IF n = 3 THEN @ + 1 ELSE @, !.failed = (n # 3)]
        BY <2>1 DEF WriteTracks
      <4>2. Longer(n).frames + 1 \in Nat /\ (n # 3) \in BOOLEAN
        BY <3>3 DEF Track
      <4>. QED BY <3>2, <3>3, <4>1, <4>2 DEF Track
    <3>. QED BY <3>1, <3>4
  <2>2. CASE OpenFails
    BY <1>0, <2>2 DEF OpenFails, LeavesNone, RecordShapes, Track
  <2>3. (\E n \in 0..3 : WriteTracks(n)) \/ OpenFails
    BY DEF WriteFrame
  <2>. QED BY <2>1, <2>2, <2>3
<1>4. InTrackOrRing'
  <2>. SUFFICES ASSUME ~tracks'.failed, ~overrun' PROVE tracks'.peer \o rings'["peer"] = kept'
    BY DEF InTrackOrRing
  <2>1. /\ tracks.peer \o rings["peer"] = kept /\ tracks'.peer = Heard(3)
        /\ rings'["peer"] = Shift(rings["peer"]) /\ rings["peer"] \in Seq(Nat) /\ tracks.peer \in Seq(Nat)
    <3>1. tracks.peer \o rings["peer"] = kept
      BY <1>0, <1>1 DEF InTrackOrRing
    <3>2. rings'["peer"] = Shift(rings["peer"]) /\ rings["peer"] \in Seq(Nat)
      BY <1>0, <1>1
    <3>3. tracks.peer \in Seq(Nat)
      BY <1>0 DEF Track
    <3>. QED BY <1>3, <3>1, <3>2, <3>3
  <2>2. CASE rings["peer"] = <<>>
    BY <1>1, <2>1, <2>2 DEF Heard, Shift
  <2>3. CASE rings["peer"] # <<>>
    <3>1. tracks'.peer = Append(tracks.peer, Head(rings["peer"])) /\ rings'["peer"] = Tail(rings["peer"])
      BY <2>1, <2>3 DEF Heard, Shift
    <3>2. Append(tracks.peer, Head(rings["peer"])) \o Tail(rings["peer"]) = tracks.peer \o rings["peer"]
      BY <2>1, <2>3, Passes
    <3>. QED BY <1>1, <2>1, <3>1, <3>2
  <2>. QED BY <2>2, <2>3
<1>5. RecordShapes'
  BY <1>0, <1>1, <1>2, <1>3 DEF RecordShapes
<1>6. Finishing'
  BY <1>0, <1>1 DEF Finishing
<1>. QED BY <1>4, <1>5, <1>6 DEF RecordInv

FinishesBy == BeginFinish \/ Stopped \/ CloseVideo \/ Upload

\* Finish: the rings are empty once it has drained them, nothing opens a file for
\* the video after it has been closed, and the tracks are cut to one length.
LEMMA FinishKeeps ==
  ASSUME AudioConstants, RecordInv, FinishesBy \/ WriteVideo
  PROVE  RecordInv'
<1>0. /\ RecordShapes /\ InTrackOrRing /\ Finishing
      /\ recorder \in [started : BOOLEAN, closing : BOOLEAN, step : FinishSteps]
  BY DEF RecordInv, RecordShapes
<1>1. UNCHANGED <<rings, tracks, kept, overrun>>
  BY DEF FinishesBy, BeginFinish, Stopped, CloseVideo, Upload, WriteVideo, FinishFrame, FileFrame
<1>2. InTrackOrRing'
  BY <1>0, <1>1 DEF InTrackOrRing
<1>3. CASE BeginFinish
  <2>1. /\ recorder' \in [started : BOOLEAN, closing : BOOLEAN, step : FinishSteps]
        /\ recorder'.closing /\ recorder'.started = recorder.started /\ recorder.step = "on"
        /\ recorder'.step = IF recorder.started THEN "stopping" ELSE "video"
    BY <1>0, <1>3 DEF BeginFinish, FinishSteps
  <2>2. UNCHANGED <<videoFile, disk, uploads>>
    BY <1>3 DEF BeginFinish, FileFrame
  <2>. QED BY <1>0, <1>1, <1>2, <2>1, <2>2 DEF RecordInv, RecordShapes, Finishing
<1>4. CASE Stopped
  <2>1. /\ recorder' \in [started : BOOLEAN, closing : BOOLEAN, step : FinishSteps]
        /\ recorder'.closing = recorder.closing /\ recorder'.started = recorder.started
        /\ recorder.step = "stopping" /\ recorder'.step = "video"
    BY <1>0, <1>4 DEF Stopped, FinishTo, FinishSteps
  <2>2. UNCHANGED <<videoFile, disk, uploads>> /\ (tracks.failed \/ rings["peer"] = <<>>)
    BY <1>4 DEF Stopped, FileFrame, QueueDrained
  <2>. QED BY <1>0, <1>1, <1>2, <2>1, <2>2 DEF RecordInv, RecordShapes, Finishing
<1>5. CASE CloseVideo
  <2>1. /\ recorder' \in [started : BOOLEAN, closing : BOOLEAN, step : FinishSteps]
        /\ recorder'.closing = recorder.closing /\ recorder'.started = recorder.started
        /\ recorder.step = "video" /\ recorder'.step = "tracks"
    BY <1>0, <1>5 DEF CloseVideo, FinishTo, FinishSteps
  <2>2. UNCHANGED <<disk, uploads>> /\ videoFile' = "closed"
    BY <1>5 DEF CloseVideo
  <2>. QED BY <1>0, <1>1, <1>2, <2>1, <2>2 DEF RecordInv, RecordShapes, Finishing
<1>6. CASE Upload
  <2>1. /\ recorder' \in [started : BOOLEAN, closing : BOOLEAN, step : FinishSteps]
        /\ recorder'.closing = recorder.closing /\ recorder'.started = recorder.started
        /\ recorder.step = "tracks" /\ recorder'.step = "done"
    BY <1>0, <1>6 DEF Upload, FinishTo, FinishSteps
  <2>2. videoFile' = videoFile /\ disk' = {}
    BY <1>6 DEF Upload
  <2>3. uploads' = uploads \/ \E ts \in SUBSET TrackNames : uploads' = Uploaded(ts)
    BY <1>6 DEF Upload
  <2>4. \A t \in DOMAIN uploads' : uploads'[t] = tracks'.frames
    BY <1>0, <1>1, <2>3 DEF Uploaded, Cut, Finishing
  <2>. QED BY <1>0, <1>1, <1>2, <2>1, <2>2, <2>4 DEF RecordInv, RecordShapes, Finishing
<1>7. CASE WriteVideo
  <2>1. UNCHANGED <<recorder, uploads>>
    BY <1>7 DEF WriteVideo
  <2>2. CASE UNCHANGED <<videoFile, disk>>
    BY <1>0, <1>1, <1>2, <2>1, <2>2 DEF RecordInv, RecordShapes, Finishing
  <2>3. CASE TakesVideo /\ videoFile' \in {"open", "failed"} /\ disk' \in {disk, disk \cup {"video"}}
    BY <1>0, <1>1, <1>2, <2>1, <2>3 DEF RecordInv, RecordShapes, Finishing, TakesVideo, FinishSteps
  <2>. QED BY <1>7, <2>2, <2>3 DEF WriteVideo
<1>. QED BY <1>3, <1>4, <1>5, <1>6, <1>7 DEF FinishesBy

LEMMA RecordingStays == ASSUME RecordInv, UNCHANGED recVars PROVE RecordInv'
BY DEF RecordInv, RecordShapes, InTrackOrRing, Finishing, recVars

-----------------------------------------------------------------------------
LEMMA AudioInductive ==
  ASSUME AudioConstants
  PROVE  AudioSpec => []AudioInv
<1>1. AudioInit => AudioInv
  <2>. SUFFICES ASSUME AudioInit PROVE AudioInv
    OBVIOUS
  <2>1. SoundInv
    BY DEF AudioInit, AudioConstants, SoundInv, SoundShapes, NothingOld, Sounds, NoFrame
  <2>2. RecordShapes
    <3>1. /\ recorder \in [started : BOOLEAN, closing : BOOLEAN, step : FinishSteps]
          /\ overrun \in BOOLEAN
      BY DEF AudioInit, FinishSteps
    <3>2. tracks \in Track
      BY DEF AudioInit, TrackNames, Track
    <3>3. rings \in [RingNames -> Seq(Nat)] /\ \A r \in RingNames : Len(rings[r]) <= RingFrames
      BY DEF AudioInit, AudioConstants, RingNames
    <3>. QED BY <3>1, <3>2, <3>3 DEF AudioInit, RecordShapes
  <2>3. InTrackOrRing /\ Finishing
    BY DEF AudioInit, InTrackOrRing, Finishing
  <2>. QED BY <2>1, <2>2, <2>3 DEF AudioInv, RecordInv
<1>2. ASSUME AudioInv, [AudioNext]_audioVars PROVE AudioInv'
  <2>0. SoundInv /\ RecordInv /\ spoken \in [Sounds -> Nat]
    BY <1>2 DEF AudioInv, SoundInv, SoundShapes
  <2>1. SoundInv'
    <3>1. CASE SoundSteps
      BY <2>0, <3>1, SoundKeeps
    <3>2. CASE PeerAudio \/ WriteVideo
      <4>1. /\ UNCHANGED soundVars /\ spoken' \in [Sounds -> Nat]
            /\ spoken'["operator"] = spoken["operator"]
        BY <2>0, <3>2, Speaking DEF PeerAudio, WriteVideo, Sounds
      <4>. QED BY <2>0, <4>1, SoundStays
    <3>3. CASE WriteFrame \/ FinishesBy \/ UNCHANGED audioVars
      <4>1. UNCHANGED soundVars /\ spoken' = spoken
        BY <3>3 DEF WriteFrame, FinishesBy, BeginFinish, Stopped, CloseVideo, Upload, FinishFrame, Silent,
             audioVars
      <4>. QED BY <2>0, <4>1, SoundStays
    <3>. QED BY <1>2, <3>1, <3>2, <3>3 DEF AudioNext, SoundSteps, FinishesBy, Over
  <2>2. RecordInv'
    <3>1. CASE PeerAudio
      <4>1. spoken'["peer"] \in Nat
        BY <2>0, <3>1, Speaking DEF PeerAudio, Sounds
      <4>. QED BY <2>0, <3>1, <4>1, RecordKeeps DEF PeerAudio, RingNames
    <3>2. CASE Read
      <4>1. Given \in Nat
        BY <2>0, ShiftKeeps DEF Given, SoundInv, SoundShapes, Announced, AudioConstants
      <4>. QED BY <2>0, <3>2, <4>1, RecordKeeps, RecordingStays DEF Read, RingNames
    <3>3. CASE Speak \/ Play \/ ClearOperator \/ CloseOutbound \/ UNCHANGED audioVars
      <4>1. UNCHANGED recVars
        BY <3>3 DEF Speak, Play, ClearOperator, CloseOutbound, NotRecorded, audioVars
      <4>. QED BY <2>0, <4>1, RecordingStays
    <3>4. CASE WriteFrame \/ FinishesBy \/ WriteVideo
      BY <2>0, <3>4, WriteKeeps, FinishKeeps
    <3>. QED BY <1>2, <3>1, <3>2, <3>3, <3>4 DEF AudioNext, FinishesBy, Over
  <2>. QED BY <2>1, <2>2 DEF AudioInv
<1>. QED BY <1>1, <1>2, PTL DEF AudioSpec

\* Types of the queue, the rings and the recorder.
THEOREM AudioTypeCorrect ==
  ASSUME AudioConstants
  PROVE  AudioSpec => []AudioTypes
<1>1. AudioInv => AudioTypes
  BY DEF AudioInv, SoundInv, SoundShapes, RecordInv, RecordShapes, RingNames, FinishSteps, AudioTypes
<1>. QED BY <1>1, AudioInductive, PTL

\* However speech, announcements and leaving operators cross the reads, nothing of an
\* operator is heard after what silenced it.
THEOREM NothingStale ==
  ASSUME AudioConstants
  PROVE  AudioSpec => []NothingStaleHeard
<1>1. AudioInv => NothingStaleHeard
  BY DEF AudioInv, SoundInv, NothingOld, NothingStaleHeard
<1>. QED BY <1>1, AudioInductive, PTL

\* A recording is whole, of one length and leaves no file, for every ring size and every
\* moment at which Finish, a full ring or a failing disk may meet the frames.
THEOREM Recorded ==
  ASSUME AudioConstants
  PROVE  AudioSpec => []RecordingWhole
<1>1. ASSUME AudioInv PROVE RecordingWhole
  <2>1. TracksAligned /\ NoFileLeft
    BY <1>1 DEF AudioInv, RecordInv, Finishing, TracksAligned, NoFileLeft
  <2>2. NothingCutOff
    <3>. SUFFICES ASSUME recorder.step = "done", ~tracks.failed, ~overrun PROVE tracks.peer = kept
      BY DEF NothingCutOff
    <3>1. tracks.peer \o rings["peer"] = kept /\ rings["peer"] = <<>> /\ tracks.peer \in Seq(Nat)
      BY <1>1 DEF AudioInv, RecordInv, RecordShapes, InTrackOrRing, Finishing, Track
    <3>. QED BY <3>1, Passes
  <2>. QED BY <2>1, <2>2 DEF RecordingWhole
<1>. QED BY <1>1, AudioInductive, PTL
(***************************************************************************)
(* InboundEvents: InboundTypes and EventsFaithful, for any events.         *)
(***************************************************************************)

\* The switch over the fields of a message finds one that the message has.
LEMMA FieldFound ==
  ASSUME NEW msg, NEW k \in DOMAIN Inbound!Order, Inbound!Matches(msg, k)
  PROVE  Inbound!FirstOf(msg) \in msg.fields \cap Inbound!Range(Inbound!Order)
<1> DEFINE Found == {i \in DOMAIN Inbound!Order : Inbound!Matches(msg, i)}
<1>1. DOMAIN Inbound!Order = 1..28
  BY DEF Inbound!Order
<1>2. Found \subseteq Nat /\ k \in Found
  BY <1>1
<1> DEFINE Less == {p \in Nat \X Nat : p[1] < p[2]}
<1>a. IsWellFoundedOn(Less, Nat)
  BY NatLessThanWellFounded, Zenon DEF OpToRel
<1>3. PICK i \in Found : \A j \in Found : ~(<<j, i>> \in Less)
  <2>. HIDE DEF Less, Found
  <2>. QED BY <1>2, <1>a, WFMin
<1>4. \A j \in Found : i <= j
  <2>. SUFFICES ASSUME NEW j \in Found PROVE i <= j
    OBVIOUS
  <2>1. i \in Nat /\ j \in Nat /\ <<j, i>> \in Nat \X Nat
    BY <1>2
  <2>2. ~(<<j, i>>[1] < <<j, i>>[2])
    BY <1>3, <2>1
  <2>. QED BY <2>1, <2>2
<1>5. \E l \in DOMAIN Inbound!Order :
        Inbound!Matches(msg, l) /\ \A j \in DOMAIN Inbound!Order : Inbound!Matches(msg, j) => l <= j
  BY <1>3, <1>4
<1> DEFINE n == CHOOSE l \in DOMAIN Inbound!Order :
        Inbound!Matches(msg, l) /\ \A j \in DOMAIN Inbound!Order : Inbound!Matches(msg, j) => l <= j
<1>6. n \in DOMAIN Inbound!Order /\ Inbound!Matches(msg, n)
  BY <1>5
<1>7. Inbound!FirstOf(msg) = Inbound!Order[n]
  BY DEF Inbound!FirstOf
<1>8. Inbound!Order[n] \in Inbound!Range(Inbound!Order)
  BY <1>6 DEF Inbound!Range
<1>. QED BY <1>6, <1>7, <1>8 DEF Inbound!Matches

\* What buildInbound makes of a message that has something to show.
LEMMA TypesShown ==
  \A f \in Inbound!Range(Inbound!Order) : Inbound!TypeOf[f] \notin {Inbound!Skip, Inbound!Failed}
<1>1. Inbound!Range(Inbound!Order) \cap {"skip", "failed"} = {}
  BY DEF Inbound!Range, Inbound!Order
<1>2. ASSUME NEW f \in Inbound!Range(Inbound!Order)
      PROVE  Inbound!TypeOf[f] \in {"text", "video", "location", "contacts", f}
  BY <1>2 DEF Inbound!TypeOf
<1>. QED BY <1>1, <1>2 DEF Inbound!Skip, Inbound!Failed

LEMMA SomethingShown ==
  ASSUME NEW msg, ~arrival.mediaFails,
         msg.fields \cap Inbound!MayBeEmpty = {},
         ~(msg.fields \subseteq Inbound!KeyFields)
  PROVE  Inbound!Shown(msg) \notin {Inbound!Skip, Inbound!Failed}
<1>1. CASE ~ \E i \in DOMAIN Inbound!Order : Inbound!Matches(msg, i)
  BY <1>1 DEF Inbound!Shown, Inbound!Skip, Inbound!Failed
<1>2. CASE \E i \in DOMAIN Inbound!Order : Inbound!Matches(msg, i)
  <2> DEFINE f == Inbound!FirstOf(msg)
  <2>1. f \in msg.fields \cap Inbound!Range(Inbound!Order)
    BY <1>2, FieldFound
  <2>2. f \notin {"poll", "richResponse"}
    BY <2>1 DEF Inbound!MayBeEmpty
  <2>3. Inbound!TypeOf[f] \notin {Inbound!Skip, Inbound!Failed}
    BY <2>1, TypesShown
  <2>. HIDE DEF f
  <2>4. CASE f \in Inbound!Media
    <3>1. Inbound!Stored(f) \notin {Inbound!Skip, Inbound!Failed}
      <4>1. Inbound!TypeOf["audio"] \notin {Inbound!Skip, Inbound!Failed}
        <5>1. "audio" \in Inbound!Range(Inbound!Order)
          <6>1. Inbound!Order[6] = "audio" /\ 6 \in DOMAIN Inbound!Order
            BY DEF Inbound!Order
          <6>. QED BY <6>1 DEF Inbound!Range
        <5>. QED BY <5>1, TypesShown
      <4>. QED BY <2>3 DEF Inbound!Stored, Inbound!Skip, Inbound!Failed
    <3>2. Inbound!Shown(msg) = Inbound!Stored(f)
      BY <1>2, <2>2, <2>4 DEF Inbound!Shown, f, Inbound!Media, Inbound!KindOfRich
    <3>. QED BY <3>1, <3>2
  <2>5. CASE f \notin Inbound!Media /\ f \in DOMAIN Inbound!KindOfRich
    <3>1. Inbound!Shown(msg) = Inbound!Rich(f, msg.parts)
      BY <1>2, <2>2, <2>5 DEF Inbound!Shown, f
    <3>2. Inbound!RichAs(f, msg.parts) \in DOMAIN Inbound!KindOfRich
      BY <2>5 DEF Inbound!RichAs, Inbound!KindOfRich
    <3>3. \A g \in DOMAIN Inbound!KindOfRich : Inbound!KindOfRich[g] \notin {Inbound!Skip, Inbound!Failed}
      BY DEF Inbound!KindOfRich, Inbound!Skip, Inbound!Failed
    <3>. QED BY <3>1, <3>2, <3>3 DEF Inbound!Rich, Inbound!Fallback, Inbound!Skip, Inbound!Failed
  <2>6. CASE f \notin Inbound!Media /\ f \notin DOMAIN Inbound!KindOfRich
    <3>1. Inbound!Shown(msg) = Inbound!TypeOf[f]
      BY <1>2, <2>2, <2>6 DEF Inbound!Shown, f
    <3>. QED BY <2>3, <3>1
  <2>. QED BY <2>4, <2>5, <2>6
<1>. QED BY <1>1, <1>2

\* However deep it is wrapped.
LEMMA SomethingBuilt ==
  ASSUME ~arrival.mediaFails,
         arrival.msg.fields \cap (Inbound!NotContent \ Inbound!KeyFields) = {},
         arrival.msg.fields \cap Inbound!MayBeEmpty = {},
         arrival.msg.fields \ Inbound!KeyFields # {}
  PROVE  Inbound!Content(Inbound!Unwrapped) \notin {Inbound!Skip, Inbound!Failed}
<1> DEFINE m == Inbound!Unwrapped
<1>1. m = arrival.msg \/ m = Inbound!Wrapper
  BY DEF Inbound!Unwrapped, Inbound!Unwrap
<1>2. Inbound!Wrapper.fields = {"wrapper"}
  BY DEF Inbound!Wrapper
<1>3. /\ {"secretEncrypted", "pollUpdate", "protocol", "conversation"} \cap m.fields = {}
      /\ m.fields \cap Inbound!SilentNotices = {}
      /\ m.fields \cap Inbound!MayBeEmpty = {}
      /\ ~(m.fields \subseteq Inbound!KeyFields)
  <2>1. CASE m = arrival.msg
    BY <2>1 DEF Inbound!NotContent, Inbound!KeyFields, Inbound!SilentNotices, Inbound!MayBeEmpty
  <2>2. CASE m = Inbound!Wrapper
    BY <1>2, <2>2 DEF Inbound!KeyFields, Inbound!SilentNotices, Inbound!MayBeEmpty
  <2>. QED BY <1>1, <2>1, <2>2
<1>. HIDE DEF m
<1>4. Inbound!Content(m) = Inbound!Shown(m)
  BY <1>3 DEF Inbound!Content, Inbound!IsSilentNotice
<1>. QED BY <1>3, <1>4, SomethingShown DEF m

\* Whom an event names.
LEMMA EventNames ==
  ASSUME NEW type
  PROVE  LET e == Inbound!Event(type) IN
         /\ Inbound!InGroup =>
              /\ e.top = Inbound!NoOne /\ e.from = "group"
              /\ e.participant.who = (IF arrival.fromMe THEN "nobody" ELSE "peer")
         /\ ~Inbound!InGroup =>
              e.top.who = "peer" /\ (e.top.lid \/ e.top.pn) /\ (e.from = "lid" => ~e.top.pn)
<1>1. Inbound!Sender.who = (IF arrival.fromMe THEN "channel" ELSE "peer")
  BY DEF Inbound!Sender
<1>2. ~Inbound!InGroup => Inbound!Chat.who = "peer"
  BY DEF Inbound!Chat
<1>3. ASSUME NEW jid
      PROVE  LET id == Inbound!Resolve(jid) IN id.who = jid.who /\ (id.lid \/ id.pn)
  BY DEF Inbound!Resolve
<1>4. \A id : Inbound!From(id) = "lid" => ~id.pn
  BY DEF Inbound!From
<1>5. Inbound!Identity = Inbound!Resolve(IF arrival.fromMe THEN Inbound!Chat ELSE Inbound!Sender)
  BY DEF Inbound!Identity, Inbound!IdentityJID
<1>6. /\ Inbound!Identity.lid \/ Inbound!Identity.pn
      /\ ~Inbound!InGroup \/ ~arrival.fromMe => Inbound!Identity.who = "peer"
  BY <1>1, <1>2, <1>3, <1>5
<1>7. Inbound!NoOne.who = "nobody"
  BY DEF Inbound!NoOne
<1>. QED BY <1>4, <1>6, <1>7 DEF Inbound!Event

\* What is true of an arrival, and of what was told of it.
Told == arrival.ids \in Nat /\ Inbound!InboundTypes /\ EventsFaithful

LEMMA Few == \A n \in Nat : {0, 1, n} \subseteq 0..(n + 1)
OBVIOUS

LEMMA FewEvents ==
  ASSUME arrival.ids \in Nat, arrival' = arrival, outcome'.done = TRUE,
         Len(outcome'.events) \in 0..(arrival.ids + 1)
  PROVE  Inbound!InboundTypes'
<1>1. Len(outcome'.events) <= arrival'.ids + 1
  OBVIOUS
<1>2. outcome'.done \in BOOLEAN
  OBVIOUS
<1>. QED BY <1>1, <1>2 DEF Inbound!InboundTypes

LEMMA MessageTold ==
  ASSUME arrival.ids \in Nat, Inbound!HandleMessage
  PROVE  Told'
<1> DEFINE type == Inbound!Content(Inbound!Unwrapped)
           silent == Inbound!Unheard \/ Inbound!Ignored \/ ~arrival.session
                       \/ type \in {Inbound!Skip, Inbound!Failed}
           events == IF silent THEN <<>> ELSE <<Inbound!Event(type)>>
<1>1. /\ arrival' = arrival /\ arrival.event = "message"
      /\ outcome' = [done |-> TRUE, events |-> events]
  BY DEF Inbound!HandleMessage, Inbound!Finish
<1>2. outcome'.done = TRUE /\ outcome'.events = events
  BY <1>1
<1>3. events # <<>> => events[1] = Inbound!Event(type) /\ Len(events) = 1 /\ ~silent
  BY DEF events
<1>4. silent => events = <<>>
  OBVIOUS
<1>4b. ~silent => events # <<>>
  OBVIOUS
<1>. HIDE DEF events, silent, type
<1>5. Inbound!InboundTypes'
  <2>1. events = <<>> \/ Len(events) = 1
    BY <1>3
  <2>2. Len(events) \in 0..(arrival.ids + 1)
    <3>1. CASE events = <<>>
      BY <3>1
    <3>2. CASE Len(events) = 1
      BY <3>2
    <3>. QED BY <2>1, <3>1, <3>2
  <2>. QED BY <1>1, <1>2, <2>2, FewEvents
<1>6. Inbound!SenderKept'
  <2>. SUFFICES ASSUME events # <<>>
                PROVE  LET e == events[1] IN
                       IF Inbound!InGroup
                       THEN e.top = Inbound!NoOne /\ e.from = "group"
                              /\ e.participant.who = (IF arrival.fromMe THEN "nobody" ELSE "peer")
                       ELSE e.top.who = "peer" /\ (e.top.lid \/ e.top.pn) /\ (e.from = "lid" => ~e.top.pn)
    BY <1>1, <1>2 DEF Inbound!SenderKept, Inbound!InGroup, Inbound!NoOne
  <2>. QED BY <1>3, EventNames
<1>7. Inbound!ContentShown'
  <2>. SUFFICES ASSUME arrival.session, ~Inbound!Unheard, ~Inbound!Ignored, ~arrival.mediaFails,
                       arrival.msg.fields \cap (Inbound!NotContent \ Inbound!KeyFields) = {},
                       arrival.msg.fields \cap Inbound!MayBeEmpty = {},
                       arrival.msg.fields \ Inbound!KeyFields # {}
                PROVE  events # <<>>
    BY <1>1, <1>2 DEF Inbound!ContentShown, Inbound!Unheard, Inbound!InGroup, Inbound!Ignored
  <2>1. type \notin {Inbound!Skip, Inbound!Failed}
    BY SomethingBuilt DEF type
  <2>. QED BY <1>4b, <2>1 DEF silent
<1>8. Inbound!ReceiptsByChat'
  BY <1>1 DEF Inbound!ReceiptsByChat, Inbound!Handled
<1>. QED BY <1>1, <1>5, <1>6, <1>7, <1>8 DEF Told, EventsFaithful, Inbound!EventsFaithful

LEMMA ReceiptTold ==
  ASSUME arrival.ids \in Nat, Inbound!HandleReceipt
  PROVE  Told'
<1> DEFINE status == Inbound!StatusFor[arrival.receipt]
           one == [key |-> "group status", status |-> status, ids |-> arrival.ids]
           each == [i \in 1..arrival.ids |-> [key |-> "status", status |-> status, ids |-> 1]]
<1>1. /\ arrival' = arrival /\ arrival.event = "receipt"
      /\ outcome'.done = TRUE
      /\ outcome'.events = <<>> \/ (Inbound!InGroup /\ outcome'.events = <<one>>)
           \/ (~Inbound!InGroup /\ outcome'.events = each)
  BY DEF Inbound!HandleReceipt, Inbound!Finish, Inbound!OfGroup
<1>2. /\ \A i \in DOMAIN <<one>> : <<one>>[i] = one
      /\ Len(<<one>>) = 1
  <2>. HIDE DEF one
  <2>. QED OBVIOUS
<1>3. /\ \A i \in DOMAIN each : each[i].key = "status" /\ each[i].ids = 1
      /\ Len(each) = arrival.ids
  <2> DEFINE single == [key |-> "status", status |-> status, ids |-> 1]
  <2>1. single.key = "status" /\ single.ids = 1
    OBVIOUS
  <2>. HIDE DEF single
  <2>2. each \in [1..arrival.ids -> {single}] /\ \A i \in DOMAIN each : each[i] = single
    BY DEF single
  <2>. HIDE DEF each
  <2>3. each \in Seq({single})
    BY <2>2, IsASeq
  <2>4. Len(each) \in Nat /\ DOMAIN each = 1..Len(each) /\ DOMAIN each = 1..arrival.ids
    BY <2>2, <2>3, LenProperties
  <2>. QED BY <2>1, <2>2, <2>4
<1>4. one.key = "group status" /\ one.ids = arrival.ids
  OBVIOUS
<1>. HIDE DEF one, each
<1>5. Inbound!InboundTypes'
  <2>1. Len(outcome'.events) \in {0, 1, arrival.ids}
    BY <1>1, <1>2, <1>3
  <2>. QED BY <1>1, <2>1, Few, FewEvents
<1>6. Inbound!ReceiptsByChat'
  <2>. SUFFICES ASSUME NEW i \in DOMAIN outcome'.events
                PROVE  /\ outcome'.events[i].key = (IF Inbound!InGroup THEN "group status" ELSE "status")
                       /\ outcome'.events[i].ids = (IF Inbound!InGroup THEN arrival.ids ELSE 1)
    BY <1>1 DEF Inbound!ReceiptsByChat, Inbound!InGroup
  <2>0. DOMAIN <<>> = {}
    OBVIOUS
  <2>1. CASE outcome'.events = <<>>
    BY <2>0, <2>1
  <2>2. CASE Inbound!InGroup /\ outcome'.events = <<one>>
    BY <1>2, <1>4, <2>2
  <2>3. CASE ~Inbound!InGroup /\ outcome'.events = each
    BY <1>3, <2>3
  <2>. QED BY <1>1, <2>1, <2>2, <2>3
<1>7. Inbound!SenderKept' /\ Inbound!ContentShown'
  BY <1>1 DEF Inbound!SenderKept, Inbound!ContentShown, Inbound!Handled
<1>. QED BY <1>1, <1>5, <1>6, <1>7 DEF Told, EventsFaithful, Inbound!EventsFaithful

LEMMA ConnectionTold ==
  ASSUME arrival.ids \in Nat, Inbound!HandleConnection
  PROVE  Told'
<1>1. /\ arrival' = arrival /\ outcome'.done = TRUE /\ Len(outcome'.events) \in {0, 1}
  BY DEF Inbound!HandleConnection, Inbound!Finish
<1>2. arrival.event \notin {"message", "receipt"}
  BY DEF Inbound!HandleConnection, Inbound!ChannelStatus
<1>3. Len(outcome'.events) \in 0..(arrival.ids + 1)
  BY <1>1, Few
<1>4. Inbound!InboundTypes'
  BY <1>1, <1>3, FewEvents
<1>. QED BY <1>1, <1>2, <1>4 DEF Told, EventsFaithful, Inbound!EventsFaithful, Inbound!SenderKept,
       Inbound!ContentShown, Inbound!ReceiptsByChat, Inbound!Handled

LEMMA ToldAtFirst ==
  ASSUME arrival.ids \in Nat, Inbound!Unhandled
  PROVE  Told
<1>1. outcome.done = FALSE /\ outcome.events = <<>>
  BY DEF Inbound!Unhandled
<1>2. Inbound!InboundTypes
  <2>1. outcome.done \in BOOLEAN
    BY <1>1
  <2>2. Len(outcome.events) <= arrival.ids + 1
    BY <1>1
  <2>. QED BY <2>1, <2>2 DEF Inbound!InboundTypes
<1>. QED BY <1>1, <1>2 DEF Told, EventsFaithful, Inbound!EventsFaithful, Inbound!SenderKept,
       Inbound!ContentShown, Inbound!ReceiptsByChat, Inbound!Handled

LEMMA ToldThroughout ==
  ASSUME Told, [Inbound!Next]_inboundVars
  PROVE  Told'
<1>1. CASE UNCHANGED inboundVars
  BY <1>1 DEF Told, inboundVars, EventsFaithful, Inbound!EventsFaithful, Inbound!SenderKept, Inbound!InboundTypes,
       Inbound!ContentShown, Inbound!ReceiptsByChat, Inbound!Handled, Inbound!InGroup, Inbound!Unheard,
       Inbound!Ignored
<1>2. CASE Inbound!HandleMessage \/ Inbound!HandleReceipt \/ Inbound!HandleConnection
  BY <1>2, MessageTold, ReceiptTold, ConnectionTold DEF Told
<1>3. CASE Inbound!Rest
  BY <1>1, <1>3 DEF Inbound!Rest, Inbound!vars, inboundVars
<1>. QED BY <1>1, <1>2, <1>3 DEF Inbound!Next

\* Whatever arrives, what the backend is told of it is right: the peer or the member it is
\* about, no content lost that a person can see, a receipt in the form of its chat.
THEOREM EventsTold ==
  ASSUME NEW CONSTANT Letters, \A a \in Letters : a.ids \in Nat
  PROVE  arrival \in Letters /\ Inbound!Unhandled /\ [][Inbound!Next]_inboundVars => []EventsFaithful
<1>1. arrival \in Letters /\ Inbound!Unhandled => Told
  BY ToldAtFirst
<1>2. Told /\ [Inbound!Next]_inboundVars => Told'
  BY ToldThroughout
<1>3. Told => EventsFaithful
  BY DEF Told
<1>. QED BY <1>1, <1>2, <1>3, PTL

(***************************************************************************)
(* HistoryTranslate: TranslateTypes and BatchesWhole, for any history sync *)
(* and limits.                                                             *)
(***************************************************************************)

TextInv == chunk \in Texts!Syncs /\ Texts!TranslateTypes /\ "step" \in DOMAIN packing

\* The instance counts as its surroundings do.
LEMMA SameCount == \A S : Texts!Cardinality(S) = Cardinality(S)
BY DEF Texts!Cardinality, Cardinality

\* A message of a sync is a pair of numbers, in a chat of a known kind, with a known fate and a size.
LEMMA MessageIs ==
  ASSUME chunk \in Texts!Syncs, NEW m \in Texts!Messages
  PROVE  /\ m = <<m[1], m[2]>> /\ m[1] \in 1..Len(chunk) /\ m[2] \in Nat
         /\ m[2] \in 1..Len(chunk[m[1]].messages) /\ Len(chunk[m[1]].messages) \in Nat
         /\ chunk[m[1]].kind \in Texts!Kinds /\ Texts!Message(m).fate \in Texts!Fates
         /\ Texts!Bytes(m) \in Nat \ {0}
<1> DEFINE M == [fate : Texts!Fates, size : Nat]
           C == [kind : Texts!Kinds, messages : Seq(M)]
<1>0. PICK c \in DOMAIN chunk : m \in {<<c, p>> : p \in DOMAIN chunk[c].messages}
  BY DEF Texts!Messages
<1>1. PICK p \in DOMAIN chunk[c].messages : m = <<c, p>>
  BY <1>0
<1>2. chunk[c] \in C /\ c \in 1..Len(chunk)
  BY LenProperties, ElementOfSeq DEF Texts!Syncs
<1>3. /\ chunk[c].kind \in Texts!Kinds /\ chunk[c].messages \in Seq(M)
      /\ Len(chunk[c].messages) \in Nat /\ p \in 1..Len(chunk[c].messages)
  BY <1>2, LenProperties
<1>4. chunk[c].messages[p] \in M
  BY <1>3, ElementOfSeq
<1>5. Texts!Message(m) \in M
  BY <1>1, <1>4 DEF Texts!Message
<1>6. Texts!Bytes(m) \in Nat \ {0} /\ Texts!Message(m).fate \in Texts!Fates
  BY <1>5 DEF Texts!Bytes
<1>. QED BY <1>1, <1>2, <1>3, <1>6

LEMMA MessagesFinite ==
  ASSUME chunk \in Texts!Syncs
  PROVE  IsFiniteSet(Texts!Messages)
<1> DEFINE of(c) == {<<c, p>> : p \in DOMAIN chunk[c].messages}
           chats == {of(c) : c \in DOMAIN chunk}
           f == [c \in DOMAIN chunk |-> of(c)]
           M == [fate : Texts!Fates, size : Nat]
<1>1. Len(chunk) \in Nat /\ DOMAIN chunk = 1..Len(chunk)
  BY LenProperties DEF Texts!Syncs
<1>2. IsFiniteSet(DOMAIN chunk)
  BY <1>1, FS_Interval
<1>3. IsFiniteSet(chats)
  <2>1. f \in Surjection(DOMAIN chunk, chats)
    BY DEF Surjection
  <2>. HIDE DEF f, chats
  <2>. QED BY <1>2, <2>1, FS_Surjection
<1>4. ASSUME NEW c \in DOMAIN chunk
      PROVE  IsFiniteSet(of(c))
  <2>1. chunk[c] \in [kind : Texts!Kinds, messages : Seq(M)]
    BY <1>1, ElementOfSeq DEF Texts!Syncs
  <2>2. Len(chunk[c].messages) \in Nat /\ DOMAIN chunk[c].messages = 1..Len(chunk[c].messages)
    BY <2>1, LenProperties
  <2>3. IsFiniteSet(DOMAIN chunk[c].messages)
    BY <2>2, FS_Interval
  <2> DEFINE P == DOMAIN chunk[c].messages
             g == [p \in P |-> <<c, p>>]
  <2>4. g \in Surjection(P, of(c))
    BY DEF Surjection
  <2>. HIDE DEF g, of, P
  <2>5. IsFiniteSet(P)
    BY <2>3 DEF P
  <2>. QED BY <2>4, <2>5, FS_Surjection
<1>5. IsFiniteSet(UNION chats)
  <2>1. \A S \in chats : IsFiniteSet(S)
    BY <1>4
  <2>. HIDE DEF chats
  <2>. QED BY <1>3, <2>1, FS_UNION
<1>. QED BY <1>5 DEF Texts!Messages

-----------------------------------------------------------------------------
(* The order of places.                                                     *)

Pairs == Nat \X Nat

LEMMA Orders ==
  ASSUME NEW x \in Pairs, NEW y \in Pairs
  PROVE  /\ ~(Texts!Before(x, y) /\ Texts!Before(y, x)) /\ ~Texts!Before(x, x)
         /\ x # y => Texts!Before(x, y) \/ Texts!Before(y, x)
BY DEF Pairs, Texts!Before

LEMMA OrdersOn ==
  ASSUME NEW x \in Pairs, NEW y \in Pairs, NEW z \in Pairs, Texts!Before(x, y), Texts!Before(y, z)
  PROVE  Texts!Before(x, z)
BY DEF Pairs, Texts!Before

LEMMA MessagesPairs ==
  ASSUME chunk \in Texts!Syncs
  PROVE  Texts!Messages \subseteq Pairs
<1>1. ASSUME NEW m \in Texts!Messages PROVE m \in Pairs
  BY MessageIs DEF Pairs
<1>. QED BY <1>1

\* What is not empty has a first place.
LEMMA FirstIs ==
  ASSUME NEW S \in SUBSET Pairs, S # {}
  PROVE  Texts!First(S) \in S /\ \A n \in S \ {Texts!First(S)} : Texts!Before(Texts!First(S), n)
<1> DEFINE Less == {p \in Nat \X Nat : p[1] < p[2]}
           Earlier == LexPairOrdering(Less, Less, Nat, Nat)
<1>1. IsWellFoundedOn(Less, Nat)
  BY NatLessThanWellFounded, Zenon DEF OpToRel
<1>2. IsWellFoundedOn(Earlier, Nat \X Nat)
  <2>. HIDE DEF Less
  <2>. QED BY <1>1, WFLexPairOrdering
<1>3. PICK m \in S : \A n \in S : ~(<<n, m>> \in Earlier)
  <2>1. S \subseteq Nat \X Nat
    BY DEF Pairs
  <2>. HIDE DEF Earlier
  <2>. QED BY <1>2, <2>1, WFMin
<1>4. \A n \in S \ {m} : Texts!Before(m, n)
  <2>. SUFFICES ASSUME NEW n \in S, n # m, ~Texts!Before(m, n)
                PROVE  FALSE
    OBVIOUS
  <2>1. m \in Pairs /\ n \in Pairs
    OBVIOUS
  <2>2. Texts!Before(n, m)
    BY <2>1, Orders
  <2>3. /\ n[1] \in Nat /\ n[2] \in Nat /\ m[1] \in Nat /\ m[2] \in Nat
        /\ n[1] < m[1] \/ (n[1] = m[1] /\ n[2] < m[2])
    BY <2>1, <2>2 DEF Pairs, Texts!Before
  <2>4. <<n[1], m[1]>> \in Less \/ (n[1] = m[1] /\ <<n[2], m[2]>> \in Less)
    BY <2>3
  <2>5. <<n, m>> \in (Nat \X Nat) \X (Nat \X Nat)
    BY <2>1 DEF Pairs
  <2>. HIDE DEF Less
  <2>6. <<n, m>> \in Earlier
    BY <2>4, <2>5 DEF LexPairOrdering
  <2>. QED BY <1>3, <2>6
<1>5. \E m0 \in S : \A n \in S \ {m0} : Texts!Before(m0, n)
  BY <1>4
<1>. QED BY <1>5, Zenon DEF Texts!First

-----------------------------------------------------------------------------
\* The chats and the messages of a sync are of the known kinds and fates.
LEMMA MessagesTyped ==
  ASSUME chunk \in Texts!Syncs
  PROVE  /\ \A c \in DOMAIN chunk : chunk[c].kind \in Texts!Kinds
         /\ \A m \in Texts!Messages : Texts!Message(m).fate \in Texts!Fates
<1> DEFINE C == [kind : Texts!Kinds, messages : Seq([fate : Texts!Fates, size : Nat])]
<1>1. ASSUME NEW c \in DOMAIN chunk
      PROVE  chunk[c].kind \in Texts!Kinds
  <2>1. chunk[c] \in C
    BY <1>1, LenProperties, ElementOfSeq DEF Texts!Syncs
  <2>. QED BY <2>1
<1>. QED BY <1>1, MessageIs

LEMMA TextStarts ==
  ASSUME Texts!TranslateConstants, chunk \in Texts!Syncs, Texts!Untouched
  PROVE  TextInv
<1>1. built \in [Texts!Messages -> {"left out", "waiting", "building", "built", "refused"}]
  BY DEF Texts!Untouched
<1>2. Texts!With("building") = {}
  BY DEF Texts!Untouched, Texts!With
<1>3. Cardinality(Texts!With("building")) <= MediaConcurrency
  BY <1>2, FS_EmptySet DEF Texts!TranslateConstants
<1>4. packing.step = "translate" /\ "step" \in DOMAIN packing
  BY DEF Texts!Untouched
<1>5. /\ \A c \in DOMAIN chunk : chunk[c].kind \in Texts!Kinds
      /\ \A m \in Texts!Messages : Texts!Message(m).fate \in Texts!Fates
  BY MessagesTyped
<1>6. Texts!TranslateTypes
  BY <1>1, <1>3, <1>4, <1>5, SameCount DEF Texts!TranslateTypes
<1>. QED BY <1>4, <1>6 DEF TextInv

LEMMA TextSteps ==
  ASSUME Texts!TranslateConstants, TextInv, [Texts!Next]_textsVars
  PROVE  TextInv'
<1> DEFINE Fate == {"left out", "waiting", "building", "built", "refused"}
           W == Texts!With("building")
<1>0. chunk' = chunk /\ Texts!Messages' = Texts!Messages
  <2>1. chunk' = chunk
    BY DEF Texts!Next, Texts!Begin, Texts!Build, Texts!Translated, Texts!Pack, Texts!LastBatch,
           Texts!Rest, Texts!vars, textsVars
  <2>. QED BY <2>1 DEF Texts!Messages
<1>1. chunk \in Texts!Syncs /\ chunk' \in Texts!Syncs
  BY <1>0 DEF TextInv
<1>2. /\ \A c \in DOMAIN chunk' : chunk'[c].kind \in Texts!Kinds
      /\ \A m \in Texts!Messages' : (Texts!Message(m).fate)' \in Texts!Fates
  BY <1>0, <1>1, MessagesTyped DEF Texts!Message
<1>3. /\ built \in [Texts!Messages -> Fate]
      /\ packing.step \in {"translate", "split", "over"} /\ "step" \in DOMAIN packing
  BY DEF TextInv, Texts!TranslateTypes
<1>3a. Cardinality(W) <= MediaConcurrency /\ MediaConcurrency \in Nat
  BY SameCount DEF TextInv, Texts!TranslateTypes, Texts!TranslateConstants
<1>4. W = {m \in Texts!Messages : built[m] = "building"}
      /\ W' = {m \in Texts!Messages : built'[m] = "building"}
  BY <1>0 DEF Texts!With
<1>5. IsFiniteSet(W) /\ Cardinality(W) \in Nat
  BY <1>1, <1>4, MessagesFinite, FS_Subset, FS_CardinalityType
<1>. HIDE DEF W
<1>6. built' \in [Texts!Messages -> Fate] /\ Cardinality(W') <= MediaConcurrency
  <2>1. CASE Texts!Begin
    <3>1. Texts!First(Texts!With("waiting")) \in Texts!Messages
      <4>1. Texts!With("waiting") # {} /\ Texts!With("waiting") \subseteq Texts!Messages
        BY <2>1 DEF Texts!Begin, Texts!With
      <4>2. Texts!Messages \subseteq Pairs
        BY <1>1, MessagesPairs
      <4>. QED BY <4>1, <4>2, FirstIs
    <3>2. PICK m \in Texts!Messages : built' = [built EXCEPT ![m] = "building"] /\ Cardinality(W) < MediaConcurrency
      BY <2>1, <3>1, SameCount DEF Texts!Begin, W
    <3>3. W' = W \cup {m}
      BY <1>3, <1>4, <3>2
    <3>4. Cardinality(W') \in {Cardinality(W), Cardinality(W) + 1}
      BY <1>5, <3>3, FS_AddElement
    <3>5. Cardinality(W') <= MediaConcurrency
      BY <1>3a, <1>5, <3>2, <3>4
    <3>6. built' \in [Texts!Messages -> Fate]
      BY <1>3, <3>2
    <3>. QED BY <3>5, <3>6
  <2>2. CASE Texts!Build
    <3>1. PICK m \in Texts!With("building"), fate \in {"built", "refused"} :
            built' = [built EXCEPT ![m] = fate]
      BY <2>2 DEF Texts!Build
    <3>2. W' \subseteq W
      BY <1>3, <1>4, <3>1
    <3>3. Cardinality(W') <= Cardinality(W) /\ Cardinality(W') \in Nat
      BY <1>5, <3>2, FS_Subset, FS_CardinalityType
    <3>4. Cardinality(W') <= MediaConcurrency
      BY <1>3a, <1>5, <3>3
    <3>5. built' \in [Texts!Messages -> Fate]
      BY <1>3, <3>1
    <3>. QED BY <3>4, <3>5
  <2>3. CASE Texts!Translated \/ Texts!Pack \/ Texts!LastBatch \/ Texts!Rest \/ UNCHANGED textsVars
    <3>1. built' = built
      BY <2>3 DEF Texts!Translated, Texts!Pack, Texts!LastBatch, Texts!Rest, Texts!vars, textsVars
    <3>2. W' = W
      BY <1>4, <3>1
    <3>. QED BY <1>3, <1>3a, <3>1, <3>2
  <2>. QED BY <2>1, <2>2, <2>3 DEF Texts!Next
<1>7. packing'.step \in {"translate", "split", "over"} /\ "step" \in DOMAIN packing'
  <2>1. CASE Texts!Begin \/ Texts!Build \/ Texts!Rest \/ UNCHANGED textsVars
    BY <1>3, <2>1 DEF Texts!Begin, Texts!Build, Texts!Rest, Texts!vars, textsVars
  <2>2. CASE Texts!Translated \/ Texts!Pack \/ Texts!LastBatch
    BY <1>3, <2>2 DEF Texts!Translated, Texts!Pack, Texts!LastBatch
  <2>. QED BY <2>1, <2>2 DEF Texts!Next
<1>8. Texts!TranslateTypes'
  BY <1>0, <1>2, <1>6, <1>7, SameCount DEF Texts!TranslateTypes, W
<1>. QED BY <1>1, <1>7, <1>8 DEF TextInv

-----------------------------------------------------------------------------
(* Batches: sequences of sequences of places.                               *)

SpotsOf(A) == UNION {{<<b, i>> : i \in DOMAIN A[b]} : b \in DOMAIN A}
Spot(A, x) == A[x[1]][x[2]]
Contents(A) == {Spot(A, x) : x \in SpotsOf(A)}
InPlace(A) == \A x, y \in SpotsOf(A) : Texts!Before(x, y) => Texts!Before(Spot(A, x), Spot(A, y))

LEMMA InSpots ==
  ASSUME NEW A, NEW x
  PROVE  x \in SpotsOf(A) <=> \E b \in DOMAIN A : \E i \in DOMAIN A[b] : x = <<b, i>>
BY DEF SpotsOf

LEMMA SpotIs ==
  ASSUME NEW S, NEW A \in Seq(Seq(S)), NEW x \in SpotsOf(A)
  PROVE  /\ x \in Pairs /\ x = <<x[1], x[2]>> /\ x[1] \in 1..Len(A) /\ x[2] \in 1..Len(A[x[1]])
         /\ A[x[1]] \in Seq(S) /\ Spot(A, x) \in S
<1>1. PICK b \in DOMAIN A : x \in {<<b, i>> : i \in DOMAIN A[b]}
  BY DEF SpotsOf
<1>2. PICK i \in DOMAIN A[b] : x = <<b, i>>
  BY <1>1
<1>3. b \in 1..Len(A) /\ Len(A) \in Nat /\ A[b] \in Seq(S)
  BY LenProperties, ElementOfSeq
<1>4. i \in 1..Len(A[b]) /\ Len(A[b]) \in Nat /\ A[b][i] \in S
  BY <1>2, <1>3, LenProperties, ElementOfSeq
<1>. QED BY <1>2, <1>3, <1>4 DEF Pairs, Spot

\* B is A with m at a spot after those of A.
Grows(A, B, m) ==
  \E s \in Pairs : /\ SpotsOf(B) = SpotsOf(A) \cup {s} /\ Spot(B, s) = m
                   /\ \A x \in SpotsOf(A) : Texts!Before(x, s) /\ Spot(B, x) = Spot(A, x)

LEMMA NewBatch ==
  ASSUME NEW S, NEW A \in Seq(Seq(S)), NEW m \in S
  PROVE  Append(A, <<m>>) \in Seq(Seq(S)) /\ Grows(A, Append(A, <<m>>), m)
<1> DEFINE B == Append(A, <<m>>)
           n == Len(A) + 1
           s == <<n, 1>>
<1>1. <<m>> \in Seq(S) /\ Len(A) \in Nat /\ s \in Pairs
  BY LenProperties DEF Pairs
<1>2. /\ B \in Seq(Seq(S)) /\ DOMAIN A = 1..Len(A) /\ DOMAIN B = DOMAIN A \cup {n}
      /\ B[n] = <<m>> /\ \A b \in DOMAIN A : B[b] = A[b]
  BY <1>1, AppendProperties, LenProperties
<1>3. DOMAIN B[n] = {1} /\ B[n][1] = m
  BY <1>2
<1>4. SpotsOf(B) = SpotsOf(A) \cup {s}
  <2>. HIDE DEF B, n
  <2>1. ASSUME NEW x
        PROVE  x \in SpotsOf(B) <=> x \in SpotsOf(A) \/ x = s
    <3>1. \A b \in DOMAIN A : DOMAIN B[b] = DOMAIN A[b]
      BY <1>2
    <3>2. /\ x \in SpotsOf(B) <=> \E b \in DOMAIN B : \E i \in DOMAIN B[b] : x = <<b, i>>
          /\ x \in SpotsOf(A) <=> \E b \in DOMAIN A : \E i \in DOMAIN A[b] : x = <<b, i>>
      BY InSpots
    <3>3. DOMAIN B = DOMAIN A \cup {n}
      BY <1>2
    <3>4. (\E b \in DOMAIN B : \E i \in DOMAIN B[b] : x = <<b, i>>)
            <=> (\E b \in DOMAIN A : \E i \in DOMAIN B[b] : x = <<b, i>>) \/ \E i \in DOMAIN B[n] : x = <<n, i>>
      BY <3>3, Zenon
    <3>5. (\E i \in DOMAIN B[n] : x = <<n, i>>) <=> x = s
      BY <1>3 DEF n
    <3>. QED BY <3>1, <3>2, <3>4, <3>5
  <2>. QED BY <2>1
<1>5. ASSUME NEW x \in SpotsOf(A)
      PROVE  Texts!Before(x, s) /\ Spot(B, x) = Spot(A, x)
  <2>1. x[1] \in 1..Len(A)
    BY SpotIs
  <2>2. x[1] < n /\ B[x[1]] = A[x[1]]
    BY <1>1, <1>2, <2>1
  <2>. QED BY <2>2 DEF Texts!Before, Spot
<1>6. Spot(B, s) = m
  BY <1>3 DEF Spot
<1>. HIDE DEF B, s
<1>7. Grows(A, B, m)
  BY <1>1, <1>4, <1>5, <1>6 DEF Grows
<1>. QED BY <1>2, <1>7 DEF B

LEMMA LongerBatch ==
  ASSUME NEW S, NEW C \in Seq(Seq(S)), NEW d \in Seq(S), NEW m \in S
  PROVE  /\ Append(C, Append(d, m)) \in Seq(Seq(S))
         /\ Grows(Append(C, d), Append(C, Append(d, m)), m)
<1> DEFINE e == Append(d, m)
           A == Append(C, d)
           B == Append(C, e)
           n == Len(C) + 1
           l == Len(d) + 1
           s == <<n, l>>
<1>1. /\ e \in Seq(S) /\ Len(C) \in Nat /\ Len(d) \in Nat /\ s \in Pairs
      /\ DOMAIN d = 1..Len(d) /\ DOMAIN e = DOMAIN d \cup {l} /\ e[l] = m
      /\ \A i \in DOMAIN d : e[i] = d[i]
  BY AppendProperties, LenProperties DEF Pairs
<1>. HIDE DEF e, l
<1>2. /\ A \in Seq(Seq(S)) /\ B \in Seq(Seq(S)) /\ DOMAIN C = 1..Len(C)
      /\ DOMAIN A = DOMAIN C \cup {n} /\ DOMAIN B = DOMAIN C \cup {n}
      /\ A[n] = d /\ B[n] = e /\ \A b \in DOMAIN C : B[b] = C[b] /\ A[b] = C[b]
      /\ Len(A) = n
  BY <1>1, AppendProperties, LenProperties
<1>. HIDE DEF A, B, n
<1>3. SpotsOf(B) = SpotsOf(A) \cup {s}
  <2>1. ASSUME NEW x
        PROVE  x \in SpotsOf(B) <=> x \in SpotsOf(A) \/ x = s
    <3>1. x \in SpotsOf(B) <=> (\E b \in DOMAIN C : \E i \in DOMAIN B[b] : x = <<b, i>>)
                                 \/ \E i \in DOMAIN B[n] : x = <<n, i>>
      <4>1. x \in SpotsOf(B) <=> \E b \in DOMAIN B : \E i \in DOMAIN B[b] : x = <<b, i>>
        BY InSpots
      <4>. QED BY <1>2, <4>1, Zenon
    <3>2. x \in SpotsOf(A) <=> (\E b \in DOMAIN C : \E i \in DOMAIN A[b] : x = <<b, i>>)
                                 \/ \E i \in DOMAIN A[n] : x = <<n, i>>
      <4>1. x \in SpotsOf(A) <=> \E b \in DOMAIN A : \E i \in DOMAIN A[b] : x = <<b, i>>
        BY InSpots
      <4>. QED BY <1>2, <4>1, Zenon
    <3>3. \A b \in DOMAIN C : DOMAIN B[b] = DOMAIN A[b]
      BY <1>2
    <3>4. (\E i \in DOMAIN B[n] : x = <<n, i>>) <=> (\E i \in DOMAIN A[n] : x = <<n, i>>) \/ x = s
      BY <1>1, <1>2
    <3>. QED BY <3>1, <3>2, <3>3, <3>4
  <2>. QED BY <2>1
<1>4. ASSUME NEW x \in SpotsOf(A)
      PROVE  Texts!Before(x, s) /\ Spot(B, x) = Spot(A, x)
  <2>1. x[1] \in 1..n /\ x[2] \in 1..Len(A[x[1]])
    BY <1>2, SpotIs
  <2>2. CASE x[1] = n
    BY <1>1, <1>2, <2>1, <2>2 DEF Texts!Before, Spot, l
  <2>3. CASE x[1] # n
    <3>1. x[1] \in DOMAIN C /\ x[1] < n
      BY <1>1, <1>2, <2>1, <2>3 DEF n
    <3>. QED BY <1>2, <3>1 DEF Texts!Before, Spot
  <2>. QED BY <2>2, <2>3
<1>5. Spot(B, s) = m
  BY <1>1, <1>2 DEF Spot
<1>. HIDE DEF s
<1>6. Grows(A, B, m)
  BY <1>1, <1>3, <1>4, <1>5 DEF Grows
<1>. QED BY <1>2, <1>6 DEF A, B, e

LEMMA GrownInPlace ==
  ASSUME NEW A \in Seq(Seq(Pairs)), NEW B, NEW m \in Pairs, Grows(A, B, m), InPlace(A),
         \A n \in Contents(A) : Texts!Before(n, m)
  PROVE  InPlace(B) /\ Contents(B) = Contents(A) \cup {m}
<1>1. PICK s \in Pairs : /\ SpotsOf(B) = SpotsOf(A) \cup {s} /\ Spot(B, s) = m
                         /\ \A x \in SpotsOf(A) : Texts!Before(x, s) /\ Spot(B, x) = Spot(A, x)
  BY DEF Grows
<1>2. Contents(B) = Contents(A) \cup {m}
  BY <1>1 DEF Contents
<1>3. ASSUME NEW x \in SpotsOf(B), NEW y \in SpotsOf(B), Texts!Before(x, y)
      PROVE  Texts!Before(Spot(B, x), Spot(B, y))
  <2>1. CASE x \in SpotsOf(A) /\ y \in SpotsOf(A)
    BY <1>1, <1>3, <2>1 DEF InPlace
  <2>2. CASE x \in SpotsOf(A) /\ y = s
    BY <1>1, <2>2 DEF Contents
  <2>3. CASE x = s
    <3>1. y # s /\ y \in SpotsOf(A)
      BY <1>1, <1>3, <2>3, Orders
    <3>2. Texts!Before(y, s) /\ y \in Pairs
      BY <1>1, <3>1, SpotIs
    <3>. QED BY <1>3, <2>3, <3>2, Orders
  <2>. QED BY <1>1, <2>1, <2>2, <2>3
<1>. QED BY <1>2, <1>3 DEF InPlace

-----------------------------------------------------------------------------
(* The size of a batch.                                                     *)

LEMMA SizeFinite ==
  ASSUME chunk \in Texts!Syncs, NEW d \in Seq(Texts!Messages)
  PROVE  /\ IsFiniteSet(Texts!ChatsOf(d)) /\ Cardinality(Texts!ChatsOf(d)) \in Nat
         /\ IsFiniteSet(Texts!BytesOf(d)) /\ Cardinality(Texts!BytesOf(d)) \in Nat
<1> DEFINE D == DOMAIN d
           of(i) == {i} \X (1..Texts!Bytes(d[i]))
           all == {of(i) : i \in D}
           f == [i \in D |-> d[i][1]]
           g == [i \in D |-> of(i)]
<1>1. IsFiniteSet(D) /\ D = 1..Len(d) /\ Len(d) \in Nat
  BY LenProperties, FS_Interval
<1>2. IsFiniteSet(Texts!ChatsOf(d))
  <2>1. f \in Surjection(D, Texts!ChatsOf(d))
    BY DEF Surjection, Texts!ChatsOf
  <2>. HIDE DEF f, D
  <2>. QED BY <1>1, <2>1, FS_Surjection
<1>3. IsFiniteSet(all)
  <2>1. g \in Surjection(D, all)
    BY DEF Surjection
  <2>. HIDE DEF g, D, all
  <2>. QED BY <1>1, <2>1, FS_Surjection
<1>4. ASSUME NEW i \in D
      PROVE  IsFiniteSet(of(i))
  <2>1. d[i] \in Texts!Messages
    BY ElementOfSeq, <1>1
  <2>2. Texts!Bytes(d[i]) \in Int /\ 1 \in Int
    BY <2>1, MessageIs
  <2>3. IsFiniteSet({i}) /\ IsFiniteSet(1..Texts!Bytes(d[i]))
    BY <2>2, FS_Interval, FS_Singleton
  <2>. QED BY <2>3, FS_Product
<1>5. IsFiniteSet(UNION all)
  <2>1. \A S \in all : IsFiniteSet(S)
    BY <1>4
  <2>. HIDE DEF all
  <2>. QED BY <1>3, <2>1, FS_UNION
<1>6. IsFiniteSet(Texts!BytesOf(d))
  BY <1>5 DEF Texts!BytesOf
<1>. QED BY <1>2, <1>6, FS_CardinalityType

LEMMA SizeGrows ==
  ASSUME Texts!TranslateConstants, chunk \in Texts!Syncs, NEW d \in Seq(Texts!Messages), NEW m \in Texts!Messages
  PROVE  /\ Texts!SizeOf(d) \in Nat
         /\ Texts!SizeOf(Append(d, m)) =
              Texts!SizeOf(d) + Texts!Bytes(m) + (IF m[1] \in Texts!ChatsOf(d) THEN 0 ELSE Header)
<1> DEFINE e == Append(d, m)
           l == Len(d) + 1
           C == Texts!ChatsOf(d)
           B == Texts!BytesOf(d)
           N == {l} \X (1..Texts!Bytes(m))
<1>1. /\ Len(d) \in Nat /\ DOMAIN d = 1..Len(d) /\ DOMAIN e = DOMAIN d \cup {l} /\ e[l] = m
      /\ l \notin DOMAIN d /\ \A i \in DOMAIN d : e[i] = d[i]
  BY AppendProperties, LenProperties
<1>2. /\ IsFiniteSet(C) /\ Cardinality(C) \in Nat /\ IsFiniteSet(B) /\ Cardinality(B) \in Nat
      /\ Texts!Bytes(m) \in Nat
  BY SizeFinite, MessageIs
<1>. HIDE DEF e, l
<1>3. Texts!ChatsOf(e) = C \cup {m[1]}
  BY <1>1 DEF Texts!ChatsOf
<1>4. ASSUME NEW x
      PROVE  x \in Texts!BytesOf(e) <=> x \in B \/ x \in N
  <2>1. x \in Texts!BytesOf(e) <=> \E i \in DOMAIN e : x \in {i} \X (1..Texts!Bytes(e[i]))
    BY DEF Texts!BytesOf
  <2>2. x \in B <=> \E i \in DOMAIN d : x \in {i} \X (1..Texts!Bytes(d[i]))
    BY DEF Texts!BytesOf
  <2>3. (\E i \in DOMAIN e : x \in {i} \X (1..Texts!Bytes(e[i])))
          <=> (\E i \in DOMAIN d : x \in {i} \X (1..Texts!Bytes(e[i]))) \/ x \in {l} \X (1..Texts!Bytes(e[l]))
    BY <1>1, Zenon
  <2>4. \A i \in DOMAIN d : Texts!Bytes(e[i]) = Texts!Bytes(d[i])
    BY <1>1
  <2>. QED BY <1>1, <2>1, <2>2, <2>3, <2>4
<1>5. B \cap N = {}
  <2>1. \A x \in B : x[1] \in DOMAIN d
    BY DEF Texts!BytesOf
  <2>. HIDE DEF B
  <2>. QED BY <1>1, <2>1
<1>6. IsFiniteSet(N) /\ Cardinality(N) = Texts!Bytes(m)
  <2> DEFINE I == 1..Texts!Bytes(m)
  <2>1. IsFiniteSet(I) /\ Cardinality(I) = Texts!Bytes(m)
    BY <1>2, FS_Interval
  <2>2. IsFiniteSet({l}) /\ Cardinality({l}) = 1
    BY FS_Singleton
  <2>. HIDE DEF I
  <2>3. IsFiniteSet({l} \X I) /\ Cardinality({l} \X I) = Cardinality({l}) * Cardinality(I)
    BY <2>1, <2>2, FS_Product
  <2>. QED BY <1>2, <2>1, <2>2, <2>3 DEF I
<1>7. Texts!BytesOf(e) = B \cup N
  BY <1>4
<1>. HIDE DEF B, N, C
<1>8. Cardinality(Texts!BytesOf(e)) = Cardinality(B) + Texts!Bytes(m)
  <2>1. Cardinality(B \cup N) = Cardinality(B) + Cardinality(N) - Cardinality(B \cap N)
    BY <1>2, <1>6, FS_Union
  <2>2. Cardinality(B \cap N) = 0
    BY <1>5, FS_EmptySet
  <2>. QED BY <1>2, <1>6, <1>7, <2>1, <2>2
<1>9. Cardinality(Texts!ChatsOf(e)) = IF m[1] \in C THEN Cardinality(C) ELSE Cardinality(C) + 1
  BY <1>2, <1>3, FS_AddElement
<1>10. Header \in Nat /\ Envelope \in Nat
  BY DEF Texts!TranslateConstants
<1>11. /\ Texts!SizeOf(d) = Envelope + Header * Cardinality(C) + Cardinality(B)
       /\ Texts!SizeOf(e) = Envelope + Header * Cardinality(Texts!ChatsOf(e)) + Cardinality(Texts!BytesOf(e))
  BY SameCount DEF Texts!SizeOf, C, B
<1>12. Header * (Cardinality(C) + 1) = Header * Cardinality(C) + Header /\ Header * Cardinality(C) \in Nat
  BY <1>2, <1>10
<1>13. Texts!SizeOf(e) = Texts!SizeOf(d) + Texts!Bytes(m) + (IF m[1] \in C THEN 0 ELSE Header)
  BY <1>2, <1>8, <1>9, <1>10, <1>11, <1>12
<1>14. Texts!SizeOf(d) \in Nat
  BY <1>2, <1>10, <1>11, <1>12
<1>. QED BY <1>13, <1>14 DEF e, C

LEMMA SizeStarts ==
  ASSUME Texts!TranslateConstants, chunk \in Texts!Syncs
  PROVE  /\ Texts!SizeOf(<<>>) = Envelope
         /\ \A m \in Texts!Messages : Texts!SizeOf(<<m>>) = Envelope + Header + Texts!Bytes(m)
<1>1. Texts!ChatsOf(<<>>) = {} /\ Texts!BytesOf(<<>>) = {}
  BY DEF Texts!ChatsOf, Texts!BytesOf
<1>2. Header \in Nat /\ Envelope \in Nat
  BY DEF Texts!TranslateConstants
<1>3. Texts!SizeOf(<<>>) = Envelope
  <2>1. Texts!SizeOf(<<>>) = Envelope + Header * Cardinality({}) + Cardinality({})
    BY <1>1, SameCount DEF Texts!SizeOf
  <2>2. Cardinality({}) = 0
    BY FS_EmptySet
  <2>. QED BY <1>2, <2>1, <2>2
<1>4. ASSUME NEW m \in Texts!Messages
      PROVE  Texts!SizeOf(<<m>>) = Envelope + Header + Texts!Bytes(m)
  <2>1. Append(<<>>, m) = <<m>> /\ <<>> \in Seq(Texts!Messages)
    OBVIOUS
  <2>2. Texts!Bytes(m) \in Nat
    BY MessageIs
  <2>3. Texts!SizeOf(Append(<<>>, m)) = Texts!SizeOf(<<>>) + Texts!Bytes(m) + Header
    BY <1>1, <2>1, SizeGrows
  <2>. QED BY <1>2, <1>3, <2>1, <2>2, <2>3
<1>. QED BY <1>3, <1>4

-----------------------------------------------------------------------------
(* What Split has done and what is left.                                    *)

\* The messages left out are those Translate does not pick.
LeftOut == \A m \in Texts!Messages : built[m] = "left out" <=> ~Texts!Picked(m)

\* A batch that may be published.
Publishable(batch) == Len(batch) \in 1..MaxMessages /\ Texts!SizeOf(batch) <= MaxBytes

\* A, of batches, and O, of messages too large, are what was built but for T, which comes last.
Shares(A, T, O) ==
  /\ A \in Seq(Seq(Texts!Messages)) /\ O \in Seq(Texts!Messages) /\ T \subseteq Texts!With("built")
  /\ \A m \in Texts!With("built") \ T : \A n \in T : Texts!Before(m, n)
  /\ Contents(A) = {m \in Texts!With("built") \ T : ~Texts!Oversized(m)} /\ InPlace(A)
  /\ \A b \in DOMAIN A : Publishable(A[b])
  /\ {O[k] : k \in DOMAIN O} = {m \in Texts!With("built") \ T : Texts!Oversized(m)}
  /\ \A j, k \in DOMAIN O : O[j] = O[k] => j = k

\* The batches, with the one at hand.
Filled ==
  IF packing.step = "split" /\ packing.current # <<>> THEN Append(packing.batches, packing.current)
  ELSE packing.batches

PackTyped ==
  packing \in [step : {"translate", "split", "over"}, todo : SUBSET Texts!Messages,
               current : Seq(Texts!Messages), size : Nat, batches : Seq(Seq(Texts!Messages)),
               oversized : Seq(Texts!Messages)]

Splitting ==
  /\ packing.step = "translate" =>
       packing.todo = {} /\ packing.current = <<>> /\ packing.size = Envelope
         /\ packing.batches = <<>> /\ packing.oversized = <<>>
  /\ packing.step # "translate" =>
       Texts!AllBuilt /\ Shares(Filled, packing.todo, packing.oversized)
  /\ packing.step = "split" => packing.size = Texts!SizeOf(packing.current)
  /\ packing.step = "over" => packing.todo = {}

BatchInv == TextInv /\ LeftOut /\ PackTyped /\ Splitting

-----------------------------------------------------------------------------
\* The first of what is left goes into the batches, or to the ones too large.
LEMMA SharesGrow ==
  ASSUME chunk \in Texts!Syncs, NEW A, NEW B, NEW T, NEW O, NEW m \in T,
         Shares(A, T, O), \A n \in T \ {m} : Texts!Before(m, n)
  PROVE  /\ Texts!Oversized(m) => Shares(A, T \ {m}, Append(O, m))
         /\ ~Texts!Oversized(m) /\ B \in Seq(Seq(Texts!Messages)) /\ Grows(A, B, m)
              /\ (\A b \in DOMAIN B : Publishable(B[b]))
            => Shares(B, T \ {m}, O)
<1> DEFINE W == Texts!With("built")
           M == Texts!Messages
           S == W \ T
           R == W \ (T \ {m})
<1>1. /\ A \in Seq(Seq(M)) /\ O \in Seq(M) /\ T \subseteq W
      /\ \A x \in S : \A n \in T : Texts!Before(x, n)
      /\ Contents(A) = {x \in S : ~Texts!Oversized(x)} /\ InPlace(A)
      /\ \A b \in DOMAIN A : Publishable(A[b])
      /\ {O[k] : k \in DOMAIN O} = {x \in S : Texts!Oversized(x)}
      /\ \A j, k \in DOMAIN O : O[j] = O[k] => j = k
  BY DEF Shares
<1>2. W \subseteq M /\ M \subseteq Pairs
  BY MessagesPairs DEF Texts!With
<1>. HIDE DEF W, M
<1>3. R = S \cup {m} /\ m \in M /\ m \notin S /\ T \ {m} \subseteq W /\ m \in Pairs
  BY <1>1, <1>2
<1>4. \A x \in R : \A n \in T \ {m} : Texts!Before(x, n)
  BY <1>1, <1>3
<1>. HIDE DEF R, S
<1>5. ASSUME Texts!Oversized(m)
      PROVE  Shares(A, T \ {m}, Append(O, m))
  <2> DEFINE P == Append(O, m)
             l == Len(O) + 1
  <2>1. /\ P \in Seq(M) /\ DOMAIN P = DOMAIN O \cup {l} /\ P[l] = m
        /\ \A k \in DOMAIN O : P[k] = O[k]
    BY <1>1, <1>3, AppendProperties, LenProperties
  <2>. HIDE DEF P, l
  <2>2. {P[k] : k \in DOMAIN P} = {O[k] : k \in DOMAIN O} \cup {m}
    BY <2>1
  <2>3. {P[k] : k \in DOMAIN P} = {x \in R : Texts!Oversized(x)}
    BY <1>1, <1>3, <1>5, <2>2
  <2>4. \A k \in DOMAIN O : O[k] \in S
    BY <1>1
  <2>5. \A j, k \in DOMAIN P : P[j] = P[k] => j = k
    BY <1>1, <1>3, <2>1, <2>4
  <2>6. Contents(A) = {x \in R : ~Texts!Oversized(x)}
    BY <1>1, <1>3, <1>5
  <2>. QED BY <1>1, <1>3, <1>4, <2>1, <2>3, <2>5, <2>6 DEF Shares, R, P, W, M
<1>6. ASSUME ~Texts!Oversized(m), B \in Seq(Seq(M)), Grows(A, B, m),
             \A b \in DOMAIN B : Publishable(B[b])
      PROVE  Shares(B, T \ {m}, O)
  <2>1. \A n \in Contents(A) : Texts!Before(n, m)
    BY <1>1
  <2>2. A \in Seq(Seq(Pairs))
    BY <1>1, <1>2, SeqMonotonic
  <2>3. InPlace(B) /\ Contents(B) = Contents(A) \cup {m}
    BY <1>1, <1>3, <1>6, <2>1, <2>2, GrownInPlace
  <2>4. Contents(B) = {x \in R : ~Texts!Oversized(x)}
    BY <1>1, <1>3, <1>6, <2>3
  <2>5. {O[k] : k \in DOMAIN O} = {x \in R : Texts!Oversized(x)}
    BY <1>1, <1>3, <1>6
  <2>. QED BY <1>1, <1>3, <1>4, <1>6, <2>3, <2>4, <2>5 DEF Shares, R, W, M
<1>. QED BY <1>5, <1>6 DEF M

\* The chat of the last message is the one its batch has open.
LEMMA OpenIs ==
  ASSUME chunk \in Texts!Syncs, NEW C \in Seq(Seq(Texts!Messages)), NEW d \in Seq(Texts!Messages),
         d # <<>>, NEW m \in Texts!Messages, InPlace(Append(C, d)),
         \A n \in Contents(Append(C, d)) : Texts!Before(n, m)
  PROVE  d[Len(d)][1] = m[1] <=> m[1] \in Texts!ChatsOf(d)
<1> DEFINE A == Append(C, d)
           n == Len(C) + 1
           l == Len(d)
<1>1. /\ l \in Nat \ {0} /\ DOMAIN d = 1..l /\ Len(C) \in Nat
      /\ A[n] = d /\ DOMAIN A = 1..n
  BY LenProperties, AppendProperties, EmptySeq
<1>2. d[l] \in Texts!Messages /\ l \in DOMAIN d
  BY <1>1, ElementOfSeq
<1>. HIDE DEF A, l, n
<1>3. ASSUME NEW i \in DOMAIN d, d[i][1] = m[1]
      PROVE  d[l][1] = m[1]
  <2>1. CASE i = l
    BY <1>3, <2>1
  <2>2. CASE i # l
    <3>1. <<n, i>> \in SpotsOf(A) /\ <<n, l>> \in SpotsOf(A)
      <4>1. n \in DOMAIN A /\ i \in DOMAIN A[n] /\ l \in DOMAIN A[n]
        BY <1>1, <1>2 DEF n
      <4>. QED BY <4>1, InSpots, Zenon
    <3>2. Texts!Before(<<n, i>>, <<n, l>>)
      BY <1>1, <1>3, <2>2 DEF Texts!Before
    <3>3. Spot(A, <<n, i>>) = d[i] /\ Spot(A, <<n, l>>) = d[l]
      BY <1>1 DEF Spot
    <3>4. Texts!Before(d[i], d[l]) /\ Texts!Before(d[l], m)
      BY <3>1, <3>2, <3>3 DEF A, InPlace, Contents
    <3>5. d[i] \in Texts!Messages
      BY <1>1, <1>3, ElementOfSeq DEF l
    <3>6. d[i] \in Pairs /\ d[l] \in Pairs /\ m \in Pairs
      BY <1>2, <3>5, MessagesPairs
    <3>. QED BY <1>3, <3>4, <3>6 DEF Pairs, Texts!Before
  <2>. QED BY <2>1, <2>2
<1>4. m[1] \in Texts!ChatsOf(d) <=> \E i \in DOMAIN d : d[i][1] = m[1]
  BY DEF Texts!ChatsOf
<1>. QED BY <1>2, <1>3, <1>4 DEF l

-----------------------------------------------------------------------------
LEMMA SplitStarts ==
  ASSUME Texts!TranslateConstants, chunk \in Texts!Syncs, Texts!Untouched
  PROVE  BatchInv
<1>1. TextInv
  BY TextStarts
<1>2. LeftOut
  BY DEF Texts!Untouched, LeftOut
<1>3. packing = [step |-> "translate", todo |-> {}, current |-> <<>>,
                 size |-> Envelope, batches |-> <<>>, oversized |-> <<>>]
  BY DEF Texts!Untouched
<1>4. PackTyped
  BY <1>3 DEF PackTyped, Texts!TranslateConstants
<1>5. Splitting
  BY <1>3 DEF Splitting
<1>. QED BY <1>1, <1>2, <1>4, <1>5 DEF BatchInv

\* What a step that leaves the workers alone keeps.
LEMMA TextsRigid ==
  ASSUME chunk' = chunk, built' = built
  PROVE  /\ (LeftOut' <=> LeftOut) /\ (Texts!AllBuilt' <=> Texts!AllBuilt)
         /\ \A A, T, O : Shares(A, T, O)' <=> Shares(A, T, O)
         /\ \A d : Texts!SizeOf(d)' = Texts!SizeOf(d)
         /\ Texts!Messages' = Texts!Messages
<1>1. /\ Texts!Messages' = Texts!Messages /\ \A m : Texts!Message(m)' = Texts!Message(m)
      /\ \A m : Texts!Picked(m)' <=> Texts!Picked(m)
  BY DEF Texts!Messages, Texts!Message, Texts!Picked
<1>2. /\ \A m : Texts!Bytes(m)' = Texts!Bytes(m)
      /\ \A m : Texts!Oversized(m)' <=> Texts!Oversized(m)
  BY <1>1 DEF Texts!Bytes, Texts!Oversized
<1>3. \A f : Texts!With(f)' = Texts!With(f)
  BY <1>1 DEF Texts!With
<1>4. \A d : Texts!SizeOf(d)' = Texts!SizeOf(d)
  BY <1>2 DEF Texts!SizeOf, Texts!BytesOf
<1>5. \A d : Publishable(d)' <=> Publishable(d)
  BY <1>4 DEF Publishable
<1>6. LeftOut' <=> LeftOut
  BY <1>1 DEF LeftOut
<1>7. Texts!AllBuilt' <=> Texts!AllBuilt
  BY <1>3 DEF Texts!AllBuilt
<1>8. ASSUME NEW A, NEW T, NEW O
      PROVE  Shares(A, T, O)' <=> Shares(A, T, O)
  BY <1>1, <1>2, <1>3, <1>5 DEF Shares
<1>. QED BY <1>1, <1>4, <1>6, <1>7, <1>8

\* Nothing is begun or built once everything is: the workers move only before Split.
LEMMA WorkersStep ==
  ASSUME Texts!TranslateConstants, BatchInv, Texts!Begin \/ Texts!Build
  PROVE  LeftOut' /\ PackTyped' /\ Splitting'
<1>1. chunk' = chunk /\ packing' = packing /\ Texts!Messages' = Texts!Messages
  BY DEF Texts!Begin, Texts!Build, Texts!Messages
<1>2. PackTyped' /\ chunk \in Texts!Syncs /\ LeftOut
  BY <1>1 DEF BatchInv, PackTyped, TextInv
<1>3. PICK m \in Texts!Messages, fate \in {"building", "built", "refused"} :
        built' = [built EXCEPT ![m] = fate] /\ built[m] \in {"waiting", "building"}
  <2>1. CASE Texts!Begin
    <3>1. Texts!With("waiting") # {} /\ Texts!With("waiting") \subseteq Pairs
      BY <1>2, <2>1, MessagesPairs DEF Texts!Begin, Texts!With
    <3>2. Texts!First(Texts!With("waiting")) \in Texts!With("waiting")
      BY <3>1, FirstIs
    <3>. QED BY <2>1, <3>2 DEF Texts!Begin, Texts!With
  <2>2. CASE Texts!Build
    BY <2>2 DEF Texts!Build, Texts!With
  <2>. QED BY <2>1, <2>2
<1>4. ~Texts!AllBuilt
  BY <1>3 DEF Texts!AllBuilt, Texts!With
<1>5. packing.step = "translate"
  BY <1>4 DEF BatchInv, Splitting
<1>6. Splitting'
  BY <1>1, <1>5 DEF BatchInv, Splitting
<1>7. built \in [Texts!Messages -> {"left out", "waiting", "building", "built", "refused"}]
  BY DEF BatchInv, TextInv, Texts!TranslateTypes
<1>8. LeftOut'
  <2>1. \A n \in Texts!Messages : Texts!Picked(n)' <=> Texts!Picked(n)
    BY <1>1 DEF Texts!Picked, Texts!Message
  <2>2. \A n \in Texts!Messages : built'[n] = "left out" <=> built[n] = "left out"
    BY <1>3, <1>7
  <2>. QED BY <1>1, <1>2, <2>1, <2>2 DEF LeftOut
<1>. QED BY <1>2, <1>6, <1>8

LEMMA TranslatedStep ==
  ASSUME Texts!TranslateConstants, BatchInv, Texts!Translated
  PROVE  PackTyped' /\ Splitting'
<1>1. /\ chunk' = chunk /\ built' = built /\ packing.step = "translate" /\ Texts!AllBuilt
      /\ packing' = [packing EXCEPT !.step = "split", !.todo = Texts!With("built")]
  BY DEF Texts!Translated
<1>2. /\ Texts!Messages' = Texts!Messages /\ Texts!AllBuilt'
      /\ \A A, T, O : Shares(A, T, O)' <=> Shares(A, T, O)
      /\ \A d : Texts!SizeOf(d)' = Texts!SizeOf(d)
  BY <1>1, TextsRigid
<1>3. /\ packing.current = <<>> /\ packing.size = Envelope /\ packing.batches = <<>>
      /\ packing.oversized = <<>> /\ PackTyped /\ chunk \in Texts!Syncs
  BY <1>1 DEF BatchInv, Splitting, TextInv
<1>4. /\ packing'.step = "split" /\ packing'.todo = Texts!With("built") /\ packing'.current = <<>>
      /\ packing'.size = Envelope /\ packing'.batches = <<>> /\ packing'.oversized = <<>>
  BY <1>1, <1>3 DEF PackTyped
<1>5. PackTyped'
  BY <1>1, <1>2, <1>3 DEF PackTyped, Texts!With
<1>6. Filled' = <<>>
  BY <1>4 DEF Filled
<1>7. Shares(<<>>, Texts!With("built"), <<>>)
  <2>1. SpotsOf(<<>>) = {}
    BY DEF SpotsOf
  <2>2. Contents(<<>>) = {} /\ InPlace(<<>>)
    BY <2>1 DEF Contents, InPlace
  <2>. QED BY <2>2 DEF Shares
<1>8. Shares(Filled, packing.todo, packing.oversized)'
  <2>1. PICK T : T = Texts!With("built")
    OBVIOUS
  <2>2. Shares(<<>>, T, <<>>)'
    BY <1>2, <1>7, <2>1
  <2>. QED BY <1>4, <1>6, <2>1, <2>2
<1>9. packing'.size = Texts!SizeOf(packing.current)'
  BY <1>2, <1>3, <1>4, SizeStarts
<1>10. Splitting'
  BY <1>2, <1>4, <1>8, <1>9 DEF Splitting
<1>. QED BY <1>5, <1>10

LEMMA LastBatchStep ==
  ASSUME Texts!TranslateConstants, BatchInv, Texts!LastBatch
  PROVE  PackTyped' /\ Splitting'
<1>1. /\ chunk' = chunk /\ built' = built /\ packing.step = "split" /\ packing.todo = {}
      /\ packing' = [packing EXCEPT !.step = "over",
                       !.batches = IF packing.current = <<>> THEN @ ELSE Append(@, packing.current)]
  BY DEF Texts!LastBatch
<1>2. /\ Texts!Messages' = Texts!Messages /\ (Texts!AllBuilt' <=> Texts!AllBuilt)
      /\ \A A, T, O : Shares(A, T, O)' <=> Shares(A, T, O)
  BY <1>1, TextsRigid
<1>3. PackTyped /\ Texts!AllBuilt /\ Shares(Filled, packing.todo, packing.oversized)
  BY <1>1 DEF BatchInv, Splitting
<1>4. /\ packing'.step = "over" /\ packing'.todo = {} /\ packing'.oversized = packing.oversized
      /\ packing'.batches = Filled
  BY <1>1, <1>3 DEF PackTyped, Filled
<1>5. PackTyped'
  <2>1. Filled \in Seq(Seq(Texts!Messages))
    BY <1>3 DEF Shares
  <2>. QED BY <1>1, <1>2, <1>3, <1>4, <2>1 DEF PackTyped
<1>6. Filled' = Filled
  BY <1>4 DEF Filled
<1>7. Shares(Filled, packing.todo, packing.oversized)'
  <2>1. PICK A, T, O : A = Filled /\ T = packing.todo /\ O = packing.oversized
    OBVIOUS
  <2>2. Shares(A, T, O)'
    BY <1>2, <1>3, <2>1
  <2>. QED BY <1>1, <1>4, <1>6, <2>1, <2>2
<1>8. Splitting'
  BY <1>2, <1>3, <1>4, <1>7 DEF Splitting
<1>. QED BY <1>5, <1>8

\* What Pack does with the message at hand, once the rest is written out.
LEMMA PackStep ==
  ASSUME Texts!TranslateConstants, BatchInv, Texts!Pack
  PROVE  PackTyped' /\ Splitting'
<1>1. chunk' = chunk /\ built' = built /\ packing.step = "split" /\ packing.todo # {}
  BY DEF Texts!Pack
<1>2. /\ Texts!Messages' = Texts!Messages /\ (Texts!AllBuilt' <=> Texts!AllBuilt)
      /\ \A A, T, O : Shares(A, T, O)' <=> Shares(A, T, O)
      /\ \A d : Texts!SizeOf(d)' = Texts!SizeOf(d)
  BY <1>1, TextsRigid
<1>3. /\ PackTyped /\ Texts!AllBuilt /\ Shares(Filled, packing.todo, packing.oversized)
      /\ packing.size = Texts!SizeOf(packing.current) /\ chunk \in Texts!Syncs
  BY <1>1 DEF BatchInv, Splitting, TextInv
<1>4. PICK C, d, A, T, O :
        /\ C = packing.batches /\ d = packing.current /\ T = packing.todo /\ O = packing.oversized
        /\ A = IF d = <<>> THEN C ELSE Append(C, d)
  OBVIOUS
<1>5. Filled = A /\ Shares(A, T, O)
  BY <1>1, <1>3, <1>4 DEF Filled
<1>6. PICK m : m = Texts!First(T)
  OBVIOUS
<1>7. m \in T /\ \A n \in T \ {m} : Texts!Before(m, n)
  <2>1. T # {} /\ T \subseteq Pairs
    BY <1>1, <1>3, <1>4, MessagesPairs DEF PackTyped
  <2>. QED BY <1>6, <2>1, FirstIs
<1>8. /\ C \in Seq(Seq(Texts!Messages)) /\ d \in Seq(Texts!Messages) /\ T \subseteq Texts!Messages
      /\ O \in Seq(Texts!Messages) /\ m \in Texts!Messages
  BY <1>3, <1>4, <1>7 DEF PackTyped
<1>9. /\ Texts!Bytes(m) \in Nat /\ Texts!SizeOf(d) \in Nat /\ Header \in Nat /\ Envelope \in Nat
      /\ MaxMessages \in Nat \ {0} /\ MaxBytes \in Nat \ {0}
  BY <1>3, <1>8, MessageIs, SizeGrows DEF Texts!TranslateConstants
\* It is enough to say what the step leaves.
<1>10. ASSUME NEW C2 \in Seq(Seq(Texts!Messages)), NEW d2 \in Seq(Texts!Messages), NEW z2 \in Nat,
              NEW O2 \in Seq(Texts!Messages),
              packing' = [packing EXCEPT !.todo = T \ {m}, !.batches = C2, !.current = d2,
                                         !.size = z2, !.oversized = O2],
              z2 = Texts!SizeOf(d2),
              Shares(IF d2 = <<>> THEN C2 ELSE Append(C2, d2), T \ {m}, O2)
       PROVE  PackTyped' /\ Splitting'
  <2>1. PICK A2 : A2 = IF d2 = <<>> THEN C2 ELSE Append(C2, d2)
    OBVIOUS
  <2>2. /\ packing'.step = "split" /\ packing'.todo = T \ {m} /\ packing'.batches = C2
        /\ packing'.current = d2 /\ packing'.size = z2 /\ packing'.oversized = O2
    BY <1>1, <1>3, <1>10 DEF PackTyped
  <2>3. PackTyped'
    <3>1. T \ {m} \subseteq Texts!Messages
      BY <1>8
    <3>. QED BY <1>2, <1>3, <1>10, <3>1 DEF PackTyped
  <2>4. Filled' = A2
    BY <2>1, <2>2 DEF Filled
  <2>5. Shares(A2, T \ {m}, O2)'
    BY <1>2, <1>10, <2>1
  <2>6. Shares(Filled, packing.todo, packing.oversized)'
    BY <2>2, <2>4, <2>5
  <2>7. packing'.size = Texts!SizeOf(packing.current)'
    BY <1>2, <1>10, <2>2
  <2>8. Splitting'
    BY <1>2, <1>3, <2>2, <2>6, <2>7 DEF Splitting
  <2>. QED BY <2>3, <2>8
<1>11. CASE Texts!Oversized(m)
  <2>1. packing' = [packing EXCEPT !.todo = T \ {m}, !.batches = C, !.current = d,
                                   !.size = packing.size, !.oversized = Append(O, m)]
    <3>1. packing' = [[packing EXCEPT !.todo = @ \ {m}] EXCEPT !.oversized = Append(@, m)]
      BY <1>4, <1>6, <1>11 DEF Texts!Pack
    <3>. QED BY <1>3, <1>4, <3>1 DEF PackTyped
  <2>2. Shares(A, T \ {m}, Append(O, m))
    BY <1>3, <1>5, <1>7, <1>11, SharesGrow
  <2>3. Append(O, m) \in Seq(Texts!Messages) /\ packing.size \in Nat
    BY <1>3, <1>8 DEF PackTyped
  <2>. QED BY <1>3, <1>4, <1>8, <1>10, <2>1, <2>2, <2>3
<1>12. ASSUME ~Texts!Oversized(m), NEW B \in Seq(Seq(Texts!Messages)), Grows(A, B, m),
              \A b \in DOMAIN B : Publishable(B[b])
       PROVE  Shares(B, T \ {m}, O)
  BY <1>3, <1>5, <1>7, <1>12, SharesGrow
<1>13. \A b \in DOMAIN A : Publishable(A[b])
  BY <1>5 DEF Shares
<1>14. Texts!SizeOf(<<m>>) = Envelope + Header + Texts!Bytes(m) /\ Texts!SizeOf(<<>>) = Envelope
  BY <1>3, <1>8, SizeStarts
<1>15. ASSUME ~Texts!Oversized(m)
       PROVE  Publishable(<<m>>)
  BY <1>9, <1>14, <1>15 DEF Publishable, Texts!Oversized
\* Adding a batch of its own.
<1>16. ASSUME ~Texts!Oversized(m)
       PROVE  Append(A, <<m>>) \in Seq(Seq(Texts!Messages)) /\ Shares(Append(A, <<m>>), T \ {m}, O)
  <2>1. A \in Seq(Seq(Texts!Messages))
    BY <1>5 DEF Shares
  <2>2. Append(A, <<m>>) \in Seq(Seq(Texts!Messages)) /\ Grows(A, Append(A, <<m>>), m)
    BY <1>8, <2>1, NewBatch
  <2>3. \A b \in DOMAIN Append(A, <<m>>) : Publishable(Append(A, <<m>>)[b])
    <3>1. <<m>> \in Seq(Texts!Messages) /\ Len(A) \in Nat
      BY <1>8, <2>1, LenProperties
    <3>2. /\ DOMAIN Append(A, <<m>>) = (DOMAIN A) \cup {Len(A) + 1}
          /\ Append(A, <<m>>)[Len(A) + 1] = <<m>>
          /\ \A b \in DOMAIN A : Append(A, <<m>>)[b] = A[b]
      BY <2>1, <3>1, AppendProperties, LenProperties
    <3>. QED BY <1>13, <1>15, <1>16, <3>2
  <2>. QED BY <1>12, <1>16, <2>2, <2>3
<1>17. CASE ~Texts!Oversized(m) /\ Texts!Full(m)
  <2>1. d # <<>>
    BY <1>4, <1>17 DEF Texts!Full
  <2>2. packing' = [packing EXCEPT !.todo = T \ {m}, !.batches = A, !.current = <<m>>,
                                   !.size = Envelope + Texts!Bytes(m) + Header, !.oversized = O]
    <3>1. packing' = [[packing EXCEPT !.todo = @ \ {m}]
                        EXCEPT !.batches = Append(@, packing.current), !.current = <<m>>,
                               !.size = Envelope + Texts!Bytes(m) + Header]
      BY <1>4, <1>6, <1>17 DEF Texts!Pack, Texts!Overflowing
    <3>. QED BY <1>3, <1>4, <2>1, <3>1 DEF PackTyped
  <2>3. /\ A \in Seq(Seq(Texts!Messages)) /\ <<m>> \in Seq(Texts!Messages) /\ <<m>> # <<>>
        /\ Envelope + Texts!Bytes(m) + Header \in Nat
        /\ Envelope + Texts!Bytes(m) + Header = Texts!SizeOf(<<m>>)
    BY <1>5, <1>8, <1>9, <1>14 DEF Shares
  <2>. QED BY <1>8, <1>10, <1>16, <1>17, <2>2, <2>3
<1>18. CASE ~Texts!Oversized(m) /\ ~Texts!Full(m)
  <2>1. PICK z : z = packing.size + Texts!Cost(m)
    OBVIOUS
  <2>2. packing' = [packing EXCEPT !.todo = T \ {m}, !.batches = C, !.current = Append(d, m),
                                   !.size = z, !.oversized = O]
    <3>1. packing' = [[packing EXCEPT !.todo = @ \ {m}]
                        EXCEPT !.current = Append(@, m), !.size = @ + Texts!Cost(m)]
      BY <1>4, <1>6, <1>18 DEF Texts!Pack
    <3>. QED BY <1>3, <1>4, <2>1, <3>1 DEF PackTyped
  <2>3. Append(d, m) \in Seq(Texts!Messages) /\ Append(d, m) # <<>> /\ Len(Append(d, m)) = Len(d) + 1
        /\ Len(d) \in Nat
    BY <1>8, AppendProperties, LenProperties
  <2>4. CASE d = <<>>
    <3>1. z = Envelope + Header + Texts!Bytes(m)
      BY <1>3, <1>4, <1>9, <1>14, <2>1, <2>4 DEF Texts!Cost, Texts!Open
    <3>2. Append(d, m) = <<m>> /\ A = C
      BY <1>4, <2>4
    <3>3. z \in Nat /\ z = Texts!SizeOf(Append(d, m))
      BY <1>9, <1>14, <3>1, <3>2
    <3>4. Shares(Append(C, Append(d, m)), T \ {m}, O)
      BY <1>16, <1>18, <3>2
    <3>. QED BY <1>8, <1>10, <2>2, <2>3, <3>3, <3>4
  <2>5. CASE d # <<>>
    <3>1. A = Append(C, d)
      BY <1>4, <2>5
    <3>2. /\ Len(d) # MaxMessages /\ ~(z > MaxBytes)
          /\ Texts!Open(m) <=> d[Len(d)][1] = m[1]
      BY <1>4, <1>18, <2>1, <2>5 DEF Texts!Full, Texts!Open
    <3>3. InPlace(Append(C, d)) /\ \A n \in Contents(Append(C, d)) : Texts!Before(n, m)
      BY <1>5, <1>7, <3>1 DEF Shares
    <3>4. Texts!Open(m) <=> m[1] \in Texts!ChatsOf(d)
      BY <1>3, <1>8, <2>5, <3>2, <3>3, OpenIs
    <3>5. Texts!SizeOf(Append(d, m)) =
            Texts!SizeOf(d) + Texts!Bytes(m) + (IF m[1] \in Texts!ChatsOf(d) THEN 0 ELSE Header)
      BY <1>3, <1>8, SizeGrows
    <3>6. z \in Nat /\ z = Texts!SizeOf(Append(d, m))
      BY <1>3, <1>4, <1>9, <2>1, <3>4, <3>5 DEF Texts!Cost
    <3>7. /\ Append(C, Append(d, m)) \in Seq(Seq(Texts!Messages))
          /\ Grows(A, Append(C, Append(d, m)), m)
      BY <1>8, <3>1, LongerBatch
    <3>8. \A b \in DOMAIN Append(C, Append(d, m)) : Publishable(Append(C, Append(d, m))[b])
      <4>1. /\ Len(C) \in Nat /\ DOMAIN A = (DOMAIN C) \cup {Len(C) + 1} /\ A[Len(C) + 1] = d
            /\ \A b \in DOMAIN C : A[b] = C[b]
        BY <1>8, <3>1, AppendProperties, LenProperties
      <4>2. /\ DOMAIN Append(C, Append(d, m)) = (DOMAIN C) \cup {Len(C) + 1}
            /\ Append(C, Append(d, m))[Len(C) + 1] = Append(d, m)
            /\ \A b \in DOMAIN C : Append(C, Append(d, m))[b] = C[b]
        BY <1>8, <2>3, AppendProperties, LenProperties
      <4>3. Len(d) \in 1..MaxMessages
        BY <1>13, <4>1 DEF Publishable
      <4>4. Publishable(Append(d, m))
        BY <1>9, <2>3, <3>2, <3>6, <4>3 DEF Publishable
      <4>. QED BY <1>13, <4>1, <4>2, <4>4
    <3>9. Shares(Append(C, Append(d, m)), T \ {m}, O)
      BY <1>12, <1>18, <3>7, <3>8
    <3>. QED BY <1>8, <1>10, <2>2, <2>3, <3>6, <3>9
  <2>. QED BY <2>4, <2>5
<1>. QED BY <1>11, <1>17, <1>18

LEMMA BatchSteps ==
  ASSUME Texts!TranslateConstants, BatchInv, [Texts!Next]_textsVars
  PROVE  BatchInv'
<1>1. TextInv'
  BY TextSteps DEF BatchInv
<1>2. ASSUME chunk' = chunk, built' = built
      PROVE  LeftOut'
  BY <1>2, TextsRigid DEF BatchInv
<1>3. CASE Texts!Begin \/ Texts!Build
  BY <1>1, <1>3, WorkersStep DEF BatchInv
<1>4. CASE Texts!Translated
  BY <1>1, <1>2, <1>4, TranslatedStep DEF BatchInv, Texts!Translated
<1>5. CASE Texts!Pack
  BY <1>1, <1>2, <1>5, PackStep DEF BatchInv, Texts!Pack
<1>6. CASE Texts!LastBatch
  BY <1>1, <1>2, <1>6, LastBatchStep DEF BatchInv, Texts!LastBatch
<1>7. CASE Texts!Rest \/ UNCHANGED textsVars
  <2>1. chunk' = chunk /\ built' = built /\ packing' = packing
    BY <1>7 DEF Texts!Rest, Texts!vars, textsVars
  <2>2. /\ Texts!Messages' = Texts!Messages /\ (Texts!AllBuilt' <=> Texts!AllBuilt)
        /\ \A A, T, O : Shares(A, T, O)' <=> Shares(A, T, O)
        /\ \A d : Texts!SizeOf(d)' = Texts!SizeOf(d)
    BY <2>1, TextsRigid
  <2>3. PackTyped'
    BY <2>1, <2>2 DEF BatchInv, PackTyped
  <2>4. PICK A, T, O : A = Filled /\ T = packing.todo /\ O = packing.oversized
    OBVIOUS
  <2>5. Shares(A, T, O)' <=> Shares(A, T, O)
    BY <2>2
  <2>6. Filled' = Filled
    BY <2>1 DEF Filled
  <2>7. Shares(Filled, packing.todo, packing.oversized)' <=> Shares(Filled, packing.todo, packing.oversized)
    BY <2>1, <2>4, <2>5, <2>6
  <2>8. Texts!SizeOf(packing.current)' = Texts!SizeOf(packing.current)
    <3>1. PICK d : d = packing.current
      OBVIOUS
    <3>2. Texts!SizeOf(d)' = Texts!SizeOf(d)
      BY <2>2
    <3>. QED BY <2>1, <3>1, <3>2
  <2>9. Splitting'
    BY <2>1, <2>2, <2>7, <2>8 DEF BatchInv, Splitting
  <2>. QED BY <1>1, <1>2, <2>1, <2>3, <2>9 DEF BatchInv
<1>. QED BY <1>3, <1>4, <1>5, <1>6, <1>7 DEF Texts!Next

-----------------------------------------------------------------------------
\* Spots in place are told apart by what is there.
LEMMA SpotsDiffer ==
  ASSUME NEW A \in Seq(Seq(Pairs)), InPlace(A), NEW x \in SpotsOf(A), NEW y \in SpotsOf(A),
         Spot(A, x) = Spot(A, y)
  PROVE  x = y
<1>1. x \in Pairs /\ y \in Pairs /\ Spot(A, x) \in Pairs
  BY SpotIs
<1>2. ~Texts!Before(Spot(A, x), Spot(A, x))
  BY <1>1, Orders
<1>. QED BY <1>1, <1>2, Orders DEF InPlace

\* What has the members of a set for its values, each once, is as long as the set is large.
LEMMA AsManyAs ==
  ASSUME NEW D, NEW R, IsFiniteSet(R), NEW f \in [D -> R], \A r \in R : \E x \in D : f[x] = r,
         \A x, y \in D : f[x] = f[y] => x = y
  PROVE  IsFiniteSet(D) /\ Cardinality(D) = Cardinality(R)
<1>1. f \in Injection(D, R) /\ f \in Surjection(D, R)
  BY DEF Injection, Surjection, IsInjective
<1>. QED BY <1>1, FS_Injection

LEMMA DisjointAdd ==
  ASSUME NEW S, NEW T, IsFiniteSet(S), IsFiniteSet(T), S \cap T = {}
  PROVE  /\ IsFiniteSet(S \cup T) /\ Cardinality(S) \in Nat /\ Cardinality(T) \in Nat
         /\ Cardinality(S \cup T) = Cardinality(S) + Cardinality(T)
<1>1. /\ IsFiniteSet(S \cup T)
      /\ Cardinality(S \cup T) = Cardinality(S) + Cardinality(T) - Cardinality(S \cap T)
  BY FS_Union
<1>2. Cardinality(S \cap T) = 0
  BY FS_EmptySet
<1>3. Cardinality(S) \in Nat /\ Cardinality(T) \in Nat
  BY FS_CardinalityType
<1>. QED BY <1>1, <1>2, <1>3

LEMMA OverIs ==
  ASSUME BatchInv, Texts!Over
  PROVE  Shares(packing.batches, {}, packing.oversized)
<1>1. packing.step = "over" /\ packing.todo = {}
  BY DEF BatchInv, Splitting, Texts!Over
<1>2. Shares(Filled, packing.todo, packing.oversized)
  BY <1>1 DEF BatchInv, Splitting
<1>3. Filled = packing.batches
  BY <1>1 DEF Filled
<1>. QED BY <1>1, <1>2, <1>3

LEMMA OrderKept ==
  ASSUME BatchInv
  PROVE  Texts!BatchesKeepOrder
<1>1. Texts!Positions = SpotsOf(packing.batches)
  BY DEF Texts!Positions, SpotsOf
<1>2. \A x : Texts!Packed(x) = Spot(packing.batches, x)
  BY DEF Texts!Packed, Spot
<1>3. ASSUME Texts!Over
      PROVE  /\ {Texts!Packed(x) : x \in Texts!Positions} = {m \in Texts!With("built") : ~Texts!Oversized(m)}
             /\ \A x, y \in Texts!Positions :
                  Texts!Before(x, y) => Texts!Before(Texts!Packed(x), Texts!Packed(y))
  <2>1. /\ Contents(packing.batches) = {m \in Texts!With("built") \ {} : ~Texts!Oversized(m)}
        /\ InPlace(packing.batches)
    BY <1>3, OverIs DEF Shares
  <2>. QED BY <1>1, <1>2, <2>1 DEF Contents, InPlace
<1>. QED BY <1>3 DEF Texts!BatchesKeepOrder

LEMMA LimitsKept ==
  ASSUME BatchInv
  PROVE  Texts!BatchesWithinLimits
<1> DEFINE C == packing.batches
           d == packing.current
<1>1. PackTyped /\ packing.step \in {"translate", "split", "over"}
  BY DEF BatchInv, PackTyped
<1>2. C \in Seq(Seq(Texts!Messages)) /\ d \in Seq(Texts!Messages)
  BY <1>1 DEF PackTyped
<1>3. ASSUME NEW b \in DOMAIN C
      PROVE  Publishable(C[b])
  <2>1. packing.step # "translate"
    BY <1>3 DEF BatchInv, Splitting
  <2>2. \A a \in DOMAIN Filled : Publishable(Filled[a])
    BY <2>1 DEF BatchInv, Splitting, Shares
  <2>3. b \in DOMAIN Filled /\ Filled[b] = C[b]
    <3>1. CASE Filled = C
      BY <1>3, <3>1
    <3>2. CASE Filled = Append(C, d)
      BY <1>2, <1>3, <3>2, AppendProperties, LenProperties
    <3>. QED BY <3>1, <3>2 DEF Filled
  <2>. QED BY <2>2, <2>3
<1>. QED BY <1>3 DEF Publishable, Texts!BatchesWithinLimits

LEMMA AllCounted ==
  ASSUME BatchInv
  PROVE  Texts!EveryMessageCounted
<1>. SUFFICES ASSUME Texts!Over
              PROVE  Texts!Cardinality(Texts!Messages) =
                       Texts!Cardinality(Texts!Positions) + Len(packing.oversized)
                         + Texts!Cardinality(Texts!OutOfWindow) + Texts!Cardinality(Texts!Skipped)
                         + Texts!Cardinality(Texts!WithoutPhone)
  BY DEF Texts!EveryMessageCounted
<1> DEFINE M == Texts!Messages
           W == Texts!With("built")
           P == {m \in W : ~Texts!Oversized(m)}
           V == {m \in W : Texts!Oversized(m)}
           D == Texts!OutOfWindow
           S == Texts!Skipped
           F == Texts!WithoutPhone
           A == packing.batches
           O == packing.oversized
<1>1. /\ A \in Seq(Seq(M)) /\ O \in Seq(M) /\ Contents(A) = P /\ InPlace(A)
      /\ {O[k] : k \in DOMAIN O} = V /\ \A j, k \in DOMAIN O : O[j] = O[k] => j = k
  BY OverIs DEF Shares
<1>2. chunk \in Texts!Syncs /\ IsFiniteSet(M) /\ M \subseteq Pairs
  BY MessagesFinite, MessagesPairs DEF BatchInv, TextInv
<1>3. P \subseteq M /\ V \subseteq M /\ D \subseteq M /\ S \subseteq M /\ F \subseteq M
  BY DEF Texts!With, Texts!OutOfWindow, Texts!Skipped, Texts!WithoutPhone
<1>4. \A m \in M : /\ chunk[m[1]].kind \in {"private", "other", "phoneless"}
                   /\ Texts!Message(m).fate \in {"fine", "skipped", "old"}
                   /\ built[m] \in {"left out", "built", "refused"}
                   /\ built[m] = "left out" <=> ~Texts!Picked(m)
  <2>1. Texts!AllBuilt
    BY DEF BatchInv, Splitting, Texts!Over
  <2>2. built \in [M -> {"left out", "waiting", "building", "built", "refused"}]
    BY DEF BatchInv, TextInv, Texts!TranslateTypes
  <2>3. \A m \in M : built[m] \notin {"waiting", "building"}
    BY <2>1 DEF Texts!AllBuilt, Texts!With
  <2>4. \A m \in M : chunk[m[1]].kind \in Texts!Kinds /\ Texts!Message(m).fate \in Texts!Fates
    BY <1>2, MessageIs
  <2>5. \A m \in M : built[m] = "left out" <=> ~Texts!Picked(m)
    BY DEF BatchInv, LeftOut
  <2>. QED BY <2>2, <2>3, <2>4, <2>5 DEF Texts!Kinds, Texts!Fates
<1>5. M = (((P \cup V) \cup D) \cup S) \cup F
  BY <1>3, <1>4 DEF Texts!With, Texts!OutOfWindow, Texts!Skipped, Texts!WithoutPhone, Texts!Picked
<1>6. /\ P \cap V = {} /\ (P \cup V) \cap D = {} /\ ((P \cup V) \cup D) \cap S = {}
      /\ (((P \cup V) \cup D) \cup S) \cap F = {}
  BY <1>3, <1>4 DEF Texts!With, Texts!OutOfWindow, Texts!Skipped, Texts!WithoutPhone, Texts!Picked
<1>7. IsFiniteSet(P) /\ IsFiniteSet(V) /\ IsFiniteSet(D) /\ IsFiniteSet(S) /\ IsFiniteSet(F)
  BY <1>2, <1>3, FS_Subset
<1>8. Texts!Positions = SpotsOf(A)
  BY DEF Texts!Positions, SpotsOf
<1>. HIDE DEF M, P, V, D, S, F, A, O
<1>9. Cardinality(SpotsOf(A)) = Cardinality(P)
  <2> DEFINE f == [x \in SpotsOf(A) |-> Spot(A, x)]
  <2>1. A \in Seq(Seq(Pairs))
    BY <1>1, <1>2, SeqMonotonic
  <2>2. f \in [SpotsOf(A) -> P] /\ \A r \in P : \E x \in SpotsOf(A) : f[x] = r
    BY <1>1 DEF Contents
  <2>3. \A x, y \in SpotsOf(A) : f[x] = f[y] => x = y
    BY <1>1, <2>1, SpotsDiffer
  <2>. HIDE DEF f
  <2>. QED BY <1>7, <2>2, <2>3, AsManyAs
<1>10. Len(O) = Cardinality(V)
  <2>1. Len(O) \in Nat /\ DOMAIN O = 1..Len(O) /\ O = [k \in DOMAIN O |-> O[k]]
    BY <1>1, LenProperties
  <2>2. O \in [DOMAIN O -> V] /\ \A r \in V : \E k \in DOMAIN O : O[k] = r
    BY <1>1, <2>1
  <2>3. Cardinality(DOMAIN O) = Cardinality(V)
    BY <1>1, <1>7, <2>2, AsManyAs
  <2>4. Cardinality(1..Len(O)) = Len(O)
    BY <2>1, FS_Interval
  <2>. QED BY <2>1, <2>3, <2>4
<1>11. /\ Cardinality(P \cup V) = Cardinality(P) + Cardinality(V) /\ IsFiniteSet(P \cup V)
       /\ Cardinality(P) \in Nat /\ Cardinality(V) \in Nat
  BY <1>6, <1>7, DisjointAdd
<1>12. /\ Cardinality((P \cup V) \cup D) = Cardinality(P \cup V) + Cardinality(D)
       /\ IsFiniteSet((P \cup V) \cup D) /\ Cardinality(D) \in Nat
  BY <1>6, <1>7, <1>11, DisjointAdd
<1>13. /\ Cardinality(((P \cup V) \cup D) \cup S) = Cardinality((P \cup V) \cup D) + Cardinality(S)
       /\ IsFiniteSet(((P \cup V) \cup D) \cup S) /\ Cardinality(S) \in Nat
  BY <1>6, <1>7, <1>12, DisjointAdd
<1>14. /\ Cardinality(M) = Cardinality(((P \cup V) \cup D) \cup S) + Cardinality(F)
       /\ Cardinality(F) \in Nat
  BY <1>5, <1>6, <1>7, <1>13, DisjointAdd
<1>15. Cardinality(M) = Cardinality(SpotsOf(A)) + Len(O) + Cardinality(D) + Cardinality(S) + Cardinality(F)
  BY <1>9, <1>10, <1>11, <1>12, <1>13, <1>14
<1>. QED BY <1>8, <1>15, SameCount DEF M, A, O, D, S, F

-----------------------------------------------------------------------------
\* Whatever the chunk and the limits, the batches have each message that was built and is
\* not too large, once and in the chunk's order; none is empty or over a limit when its
\* bytes are counted anew; and every message of the chunk is counted once (Translate, Split).
THEOREM BatchesAreWhole ==
  ASSUME Texts!TranslateConstants
  PROVE  chunk \in Texts!Syncs /\ Texts!Untouched /\ [][Texts!Next]_textsVars => []BatchesWhole
<1>1. chunk \in Texts!Syncs /\ Texts!Untouched => BatchInv
  BY SplitStarts
<1>2. BatchInv /\ [Texts!Next]_textsVars => BatchInv'
  BY BatchSteps
<1>3. BatchInv => BatchesWhole
  BY OrderKept, LimitsKept, AllCounted DEF BatchesWhole, Texts!BatchesWhole
<1>. QED BY <1>1, <1>2, <1>3, PTL

(***************************************************************************)
(* MCShared: the run takes every component through its own specification,  *)
(* so what is proved of them holds of it.                                  *)
(***************************************************************************)

\* A step of the run is a step of one component, or leaves it alone.
LEMMA OneMoves ==
  ASSUME [Next]_vars
  PROVE  /\ [SlotNext]_slotVars /\ [OwnershipNext]_shardVars /\ [ReplyNext]_replyVars
         /\ [ChannelNext]_channelVars /\ [CacheNext]_cacheVars /\ [RpcNext]_rpcVars
         /\ [AudioNext]_audioVars /\ [Texts!Next]_textsVars /\ [Inbound!Next]_inboundVars
<1>1. CASE SlotNext /\ NotSlot
  BY <1>1 DEF NotSlot
<1>2. CASE OwnershipNext /\ NotShard
  BY <1>2 DEF NotShard
<1>3. CASE ReplyNext /\ NotReply
  BY <1>3 DEF NotReply
<1>4. CASE ChannelNext /\ NotState
  BY <1>4 DEF NotState
<1>5. CASE CacheNext /\ NotCache
  BY <1>5 DEF NotCache
<1>6. CASE RpcNext /\ NotRpc
  BY <1>6 DEF NotRpc
<1>7. CASE AudioNext /\ NotAudio
  BY <1>7 DEF NotAudio
<1>8. CASE Texts!Next /\ NotTexts
  BY <1>8 DEF NotTexts
<1>9. CASE Inbound!Next /\ NotInbound
  BY <1>9 DEF NotInbound
<1>10. CASE UNCHANGED vars
  BY <1>10 DEF vars
<1>. QED BY <1>1, <1>2, <1>3, <1>4, <1>5, <1>6, <1>7, <1>8, <1>9, <1>10 DEF Next

\* Whichever component the run is about, each behaves as its own specification says.
THEOREM EachItsOwn ==
  Spec => /\ SlotSpec /\ OwnershipSpec /\ ReplySpec /\ ChannelSpec /\ CacheSpec /\ RpcSpec /\ AudioSpec
          /\ [][Texts!Next]_textsVars /\ [][Inbound!Next]_inboundVars
<1>1. Init => /\ SlotInit /\ OwnershipInit /\ ReplyInit /\ ChannelInit /\ CacheInit /\ RpcInit /\ AudioInit
  BY DEF Init
<1>2. [Next]_vars =>
         /\ [SlotNext]_slotVars /\ [OwnershipNext]_shardVars /\ [ReplyNext]_replyVars
         /\ [ChannelNext]_channelVars /\ [CacheNext]_cacheVars /\ [RpcNext]_rpcVars
         /\ [AudioNext]_audioVars /\ [Texts!Next]_textsVars /\ [Inbound!Next]_inboundVars
  BY OneMoves
<1>. QED BY <1>1, <1>2, PTL DEF Spec, SlotSpec, OwnershipSpec, ReplySpec, ChannelSpec, CacheSpec, RpcSpec, AudioSpec

-----------------------------------------------------------------------------
LEMMA TextsBegin ==
  ASSUME Init
  PROVE  BatchInv
<1>1. chunk \in Texts!Syncs
  <2>1. MCChunks \subseteq Texts!Syncs
    BY SharedAssumption DEF Texts!TranslateConstants
  <2>2. <<>> \in Texts!Syncs
    BY EmptySeq DEF Texts!Syncs
  <2>. QED BY <2>1, <2>2 DEF Init, Texts!Init, NoTexts!Init
<1>2. Texts!Untouched
  <2>1. Texts!Messages = NoTexts!Messages
    BY DEF Texts!Messages, NoTexts!Messages
  <2>2. \A m : Texts!Picked(m) <=> NoTexts!Picked(m)
    BY DEF Texts!Picked, NoTexts!Picked, Texts!Message, NoTexts!Message
  <2>3. NoTexts!Untouched => Texts!Untouched
    BY <2>1, <2>2 DEF Texts!Untouched, NoTexts!Untouched
  <2>. QED BY <2>3 DEF Init, Texts!Init, NoTexts!Init
<1>3. Texts!TranslateConstants
  BY SharedAssumption
<1>. QED BY <1>1, <1>2, <1>3, SplitStarts

LEMMA InboundBegins ==
  ASSUME Init
  PROVE  Told
<1>1. arrival \in MCArrivals \cup {Letter} /\ Inbound!Unhandled
  BY DEF Init, In!Init, Inbound!Init, In!Unhandled, Inbound!Unhandled
<1>2. arrival.ids \in Nat
  <2>1. Letter.ids = 0
    BY DEF Letter
  <2>2. \A a \in MCArrivals : a.ids \in Nat
    BY SharedAssumption DEF Inbound!InboundConstants
  <2>. QED BY <1>1, <2>1, <2>2
<1>. QED BY <1>1, <1>2, ToldAtFirst

LEMMA TextsAndEvents == Spec => [](BatchInv /\ Told)
<1>1. Init => BatchInv /\ Told
  BY TextsBegin, InboundBegins
<1>2. BatchInv /\ Told /\ [Texts!Next]_textsVars /\ [Inbound!Next]_inboundVars => (BatchInv /\ Told)'
  BY SharedAssumption, BatchSteps, ToldThroughout
<1>. QED BY <1>1, <1>2, EachItsOwn, PTL DEF Spec

\* The types of every component, through every behaviour of the run.
THEOREM AllTypes == Spec => []Types
<1>. USE SharedAssumption
<1>1. Spec => /\ []SlotTypes /\ []OwnershipTypes /\ []ChannelTypes
              /\ []CacheTypes /\ []RpcTypes /\ []AudioTypes
  BY EachItsOwn, SlotTypeCorrect, ShardTypeCorrect, ChannelTypeCorrect, CacheTypeCorrect,
     RpcTypeCorrect, AudioTypeCorrect, PTL
<1>2. Spec => []ReplyTypes
  BY EachItsOwn, TypeCorrect, PTL
<1>3. BatchInv /\ Told => Texts!TranslateTypes /\ Inbound!InboundTypes
  BY DEF BatchInv, TextInv, Told
<1>4. /\ SlotTypes /\ OwnershipTypes /\ ReplyTypes /\ ChannelTypes /\ CacheTypes /\ RpcTypes /\ AudioTypes
      /\ Texts!TranslateTypes /\ Inbound!InboundTypes
      => Types
  BY DEF Types
<1>. QED BY <1>1, <1>2, <1>3, <1>4, TextsAndEvents, PTL

\* What the run checks of the nine components besides their types and that requests end: the
\* props of those that may register, the owner of the shards, one reply in a window, the
\* settings in memory, a logout told once, names no older than a change heard, an answer before an
\* acknowledgement, nothing heard late, whole recordings, whole batches, events as they were.
THEOREM AllHold ==
  Spec => []( /\ PropsMatchPairing /\ OwnsWhileActive /\ OncePerWindow /\ MemoryKeepsUp
              /\ LogoutToldOnce /\ FreshAfterChange /\ AckedMeansReplied /\ NothingStaleHeard
              /\ RecordingWhole /\ BatchesWhole /\ EventsFaithful )
<1>. USE SharedAssumption
<1>1. Spec => /\ []PropsMatchPairing /\ []OwnsWhileActive /\ []OncePerWindow /\ []MemoryKeepsUp
              /\ []LogoutToldOnce /\ []FreshAfterChange /\ []AckedMeansReplied
              /\ []NothingStaleHeard /\ []RecordingWhole
  BY EachItsOwn, PropsFollow, Ownership, Once, SettingsKeepUp, ToldOnce, NamesFresh,
     RequestsAnswered, NothingStale, Recorded, PTL
<1>2. BatchInv /\ Told => BatchesWhole /\ EventsFaithful
  BY OrderKept, LimitsKept, AllCounted DEF BatchesWhole, Texts!BatchesWhole, Told
<1>. QED BY <1>1, <1>2, TextsAndEvents, PTL
=============================================================================
