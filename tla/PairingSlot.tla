----------------------------- MODULE PairingSlot -----------------------------
(***************************************************************************)
(* The pairing slot of internal/deviceprops: a pairing with an import      *)
(* replaces the process-wide store.DeviceProps, which WhatsApp is told at  *)
(* registration, so it takes the whole of the semaphore that every other   *)
(* pairing takes one place of. The semaphore (golang.org/x/sync) serves    *)
(* its waiters in the order they came.                                     *)
(***************************************************************************)
EXTENDS Naturals, Sequences, FiniteSets, SequencesExt

CONSTANTS
  Pairings,   \* pairings, each asks once
  Histories,  \* those with importHistory
  Capacity    \* pairingCapacity

\* What the constants have to be.
PairingConstants ==
  Histories \subseteq Pairings /\ IsFiniteSet(Pairings) /\ Capacity \in Nat \ {0}

VARIABLES
  slotStep,  \* of Acquire and of the function it returns
  waiters,   \* who waits for the semaphore, in order
  props,     \* store.DeviceProps: base, or withHistory(base)
  previous   \* what the pairing found there

slotVars == <<slotStep, waiters, props, previous>>

-----------------------------------------------------------------------------
SlotSteps == {"new", "waiting", "granted", "holding", "restored", "over"}
Props == {"base", "history"}

\* The pairings that have a place of the semaphore.
Inside == {p \in Pairings : slotStep[p] \in {"granted", "holding", "restored"}}

\* A history pairing weighs pairingCapacity, any other 1.
\* Mutant: it weighs 1 as well.
FitsAsOne(p) == Cardinality(Inside) < Capacity
Fits(p) ==
  IF p \in Histories THEN Inside = {} ELSE Inside \cap Histories = {} /\ Cardinality(Inside) < Capacity

SlotGoes(p, step) == slotStep' = [slotStep EXCEPT ![p] = step]
PropsFrame == UNCHANGED <<props, previous>>

Ask(p) ==
  /\ slotStep[p] = "new" /\ SlotGoes(p, "waiting") /\ waiters' = Append(waiters, p) /\ PropsFrame

Grant ==
  /\ waiters # <<>> /\ Fits(Head(waiters))
  /\ SlotGoes(Head(waiters), "granted") /\ waiters' = Tail(waiters) /\ PropsFrame

\* The wait is over (ErrSlotBusy), or the context of the pair command is.
TimeOut(p) ==
  /\ slotStep[p] = "waiting" /\ SlotGoes(p, "over")
  /\ \E i \in DOMAIN waiters : waiters[i] = p /\ waiters' = RemoveAt(waiters, i)
  /\ PropsFrame

\* Acquire returns; the pairing connects, and WhatsApp is told the props.
Take(p) ==
  /\ slotStep[p] = "granted" /\ SlotGoes(p, "holding")
  /\ previous' = [previous EXCEPT ![p] = props]
  /\ props' = IF p \in Histories THEN "history" ELSE props
  /\ UNCHANGED waiters

\* The function that Acquire returned, which does this once.
Restore(p) ==
  /\ slotStep[p] = "holding" /\ SlotGoes(p, "restored")
  /\ props' = IF p \in Histories THEN previous[p] ELSE props
  /\ UNCHANGED <<waiters, previous>>

ReleaseSlot(p) == slotStep[p] = "restored" /\ SlotGoes(p, "over") /\ UNCHANGED waiters /\ PropsFrame

SlotRest == (\A p \in Pairings : slotStep[p] = "over") /\ UNCHANGED slotVars

-----------------------------------------------------------------------------
SlotInit ==
  /\ slotStep = [p \in Pairings |-> "new"] /\ waiters = <<>>
  /\ props = "base" /\ previous = [p \in Pairings |-> "base"]

Step(p) == Ask(p) \/ TimeOut(p) \/ Take(p) \/ Restore(p) \/ ReleaseSlot(p)

SlotNext == (\E p \in Pairings : Step(p)) \/ Grant \/ SlotRest

SlotSpec == SlotInit /\ [][SlotNext]_slotVars

-----------------------------------------------------------------------------
(* Properties.                                                              *)

SlotTypes ==
  /\ slotStep \in [Pairings -> SlotSteps] /\ waiters \in Seq(Pairings)
  /\ props \in Props /\ previous \in [Pairings -> Props]

\* While a pairing may register, the process-wide props are the ones of its own
\* kind, whichever pairings took, left or gave up the slot before and meanwhile: an
\* ordinary pairing never registers under the props of an import, nor an import
\* under the base; without an import at work they are the base.
PropsMatchPairing ==
  /\ \A p \in Pairings : slotStep[p] = "holding" =>
       props = IF p \in Histories THEN "history" ELSE "base"
  /\ (\A h \in Histories : slotStep[h] # "holding") => props = "base"
=============================================================================
