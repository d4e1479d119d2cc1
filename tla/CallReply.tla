------------------------------ MODULE CallReply ------------------------------
(***************************************************************************)
(* Calls that a channel does not take (internal/call/autoreject.go): they  *)
(* are rejected, published as auto_rejected and answered by a message      *)
(* (autoreply.go, gateway/callreply.go), of which a Cooldown lets a caller *)
(* have one per window.                                                    *)
(*                                                                         *)
(* A caller is known by a LID, a phone number, or both, and not by the     *)
(* same ones every time: the registry of whatsmeow learns them.            *)
(***************************************************************************)
EXTENDS Naturals, FiniteSets

CONSTANTS
  Rings,      \* calls that come in, each once
  Identities, \* LIDs and phone numbers
  KnownAs,    \* the identities the sender of a call is resolved to
  Groups,     \* the calls that are group calls
  Window,     \* CallRejectMessageCooldown
  MaxTime,    \* bound of the clock
  MaxSlips    \* bound of each kind of failure

\* What the constants have to be.
ReplyConstants ==
  /\ KnownAs \in [Rings -> SUBSET Identities] /\ Groups \subseteq Rings
  /\ Window \in Nat \ {0} /\ MaxTime \in Nat /\ MaxSlips \in Nat

VARIABLES
  clock,
  held,      \* Cooldown.last: the reservation of each identity
  counter,   \* Cooldown.counter
  reply,     \* what happens to each call
  outbox,    \* history: the messages WhatsApp was given, by call
  slips      \* history: rejects and sends that failed, and publishes that did

replyVars == <<clock, held, counter, reply, outbox, slips>>

-----------------------------------------------------------------------------
Slips == {"reject", "send", "publish"}
ReplySteps == {"none", "rejected", "send", "publish", "release", "over", "tracked"}

Free == [at |-> 0, token |-> 0]
Reservation == [at : 0..MaxTime, token : Nat]

NoReply == [step |-> "none", at |-> 0, token |-> 0]

Slip(s) == slips[s] < MaxSlips /\ slips' = [slips EXCEPT ![s] = @ + 1]
Fine    == UNCHANGED slips
ReplyGoTo(r, step) == reply' = [reply EXCEPT ![r].step = step]
CooldownFrame == UNCHANGED <<clock, held, counter>>

Tick ==
  /\ clock < MaxTime /\ clock' = clock + 1
  /\ Fine /\ UNCHANGED <<held, counter, reply, outbox>>

\* autoReject: a call that cannot be rejected is left to the operators.
Reject(r) ==
  /\ reply[r].step = "none"
  /\ \/ Fine /\ ReplyGoTo(r, "rejected")
     \/ Slip("reject") /\ ReplyGoTo(r, "tracked")
  /\ CooldownFrame /\ UNCHANGED outbox

-----------------------------------------------------------------------------
(* Cooldown.                                                                *)

Cooling(x) == held[x].token # 0 /\ clock - held[x].at < Window

\* cooldownKeys. Mutant: a caller is known by one identity only.
OneKey(r) == IF KnownAs[r] = {} THEN {} ELSE {CHOOSE x \in KnownAs[r] : TRUE}
Keys(r) == KnownAs[r]

Allowed(r) == Keys(r) # {} /\ \A x \in Keys(r) : ~Cooling(x)

\* The entries that Allow finds expired go; then it takes every key of the caller.
Swept == [x \in Identities |-> IF Cooling(x) THEN held[x] ELSE Free]

\* autoReply; group calls get none.
AutoReply(r) ==
  /\ reply[r].step = "rejected" /\ Fine /\ UNCHANGED <<clock, outbox>>
  /\ IF r \in Groups \/ KnownAs[r] = {}
     THEN ReplyGoTo(r, "over") /\ UNCHANGED <<held, counter>>
     ELSE IF Allowed(r)
     THEN /\ counter' = counter + 1
          /\ held' = [x \in Identities |->
               IF x \in Keys(r) THEN [at |-> clock, token |-> counter + 1] ELSE Swept[x]]
          /\ reply' = [reply EXCEPT ![r] = [step |-> "send", at |-> clock, token |-> counter + 1]]
     ELSE ReplyGoTo(r, "over") /\ held' = Swept /\ UNCHANGED counter

\* Release deletes the entries that still carry the token of the reservation.
Releases(r, x) == x \in Keys(r) /\ held[x].token = reply[r].token

-----------------------------------------------------------------------------
(* callAutoReplier.Reply, in a goroutine of its own; it may outlast the     *)
(* window. A send whose answer is lost has reached WhatsApp.                *)

Sent(r) == outbox' = outbox \cup {r}

Send(r) ==
  /\ reply[r].step = "send"
  /\ \/ Fine /\ Sent(r) /\ ReplyGoTo(r, "publish")
     \/ Slip("send") /\ (Sent(r) \/ UNCHANGED outbox) /\ ReplyGoTo(r, "release")
  /\ CooldownFrame

\* The message is published as one the channel sent.
Publish(r) ==
  /\ reply[r].step = "publish"
  /\ \/ Fine /\ ReplyGoTo(r, "over")
     \/ Slip("publish") /\ ReplyGoTo(r, "release")
  /\ CooldownFrame /\ UNCHANGED outbox

\* Reply returned an error.
ReleaseReservation(r) ==
  /\ reply[r].step = "release" /\ ReplyGoTo(r, "over") /\ Fine
  /\ held' = [x \in Identities |-> IF Releases(r, x) THEN Free ELSE held[x]]
  /\ UNCHANGED <<clock, counter, outbox>>

ReplyRest == clock = MaxTime /\ (\A r \in Rings : reply[r].step \in {"over", "tracked"}) /\ UNCHANGED replyVars

-----------------------------------------------------------------------------
ReplyInit ==
  /\ clock = 0 /\ held = [x \in Identities |-> Free] /\ counter = 0
  /\ reply = [r \in Rings |-> NoReply] /\ outbox = {} /\ slips = [s \in Slips |-> 0]

ReplyNext ==
  \/ Tick \/ ReplyRest
  \/ \E r \in Rings : Reject(r) \/ AutoReply(r) \/ Send(r) \/ Publish(r) \/ ReleaseReservation(r)

ReplySpec == ReplyInit /\ [][ReplyNext]_replyVars

-----------------------------------------------------------------------------
(* Properties.                                                              *)

ReplyTypes ==
  /\ clock \in 0..MaxTime /\ held \in [Identities -> Reservation] /\ counter \in Nat
  /\ reply \in [Rings -> [step : ReplySteps, at : 0..MaxTime, token : Nat]]
  /\ outbox \subseteq Rings /\ slips \in [Slips -> Nat]

Replying(r) == reply[r].step \in {"send", "publish", "release"}

\* A reply at work that is younger than the window holds every identity of its
\* caller, whatever other replies to that caller failed late: no second
\* message to any of them is begun meanwhile.
ReservationKept ==
  \A r \in Rings : Replying(r) /\ clock - reply[r].at < Window =>
    \A x \in KnownAs[r] : held[x].token = reply[r].token

\* The messages to identity x whose place was taken in the window from t on.
InWindow(x, t) ==
  {r \in outbox : x \in KnownAs[r] /\ reply[r].at >= t /\ reply[r].at - t < Window}

\* A caller, by any of its identities, is sent at most one message in a window,
\* and one more for every reply that failed after WhatsApp may have had it.
OncePerWindow ==
  \A x \in Identities, t \in 0..MaxTime :
    Cardinality(InWindow(x, t)) <= 1 + slips["send"] + slips["publish"]

\* docs/call-contract.md: at most one message per caller and window, the
\* reservation being released when the sending fails or exceeds its time.
OneMessage ==
  \A x \in Identities, t \in 0..MaxTime :
    Cardinality(InWindow(x, t)) <= 1 + slips["send"]
=============================================================================
