--------------------------- MODULE CallReplyProofs ---------------------------
(***************************************************************************)
(* ReplyTypes, ReservationKept and OncePerWindow of CallReply, for any     *)
(* calls, identities, window and failures. The token is what keeps a reply *)
(* that fails late from releasing the reservation of a later one.          *)
(***************************************************************************)
EXTENDS CallReply, FiniteSetTheorems, TLAPS

\* Tokens are handed out once, and a reservation carries the time of its reply.
Tokens ==
  /\ \A x \in Identities : held[x].token <= counter
  /\ \A r \in Rings : reply[r].token <= counter
  /\ \A r \in Rings : Replying(r) => reply[r].token # 0
  /\ \A r, q \in Rings : reply[r].token # 0 /\ reply[r].token = reply[q].token => r = q
  /\ \A x \in Identities, r \in Rings :
       held[x].token # 0 /\ held[x].token = reply[r].token => held[x].at = reply[r].at

IInv == ReplyTypes /\ Tokens /\ ReservationKept

-----------------------------------------------------------------------------
LEMMA Initially ==
  ASSUME ReplyConstants, ReplyInit
  PROVE  IInv
BY DEF ReplyConstants, ReplyInit, IInv, ReplyTypes, Tokens, ReservationKept, Replying, Free, NoReply,
       Reservation, ReplySteps, Slips

\* Steps that change no reservation and no token.
Advances(r) == Reject(r) \/ Send(r) \/ Publish(r)

LEMMA KeepsTypes ==
  ASSUME ReplyConstants, IInv, [ReplyNext]_replyVars
  PROVE  ReplyTypes'
<1>. USE DEF ReplyConstants, IInv, ReplyTypes, Reservation, ReplySteps, ReplyGoTo, Fine, Slip, CooldownFrame
<1>1. CASE Tick
  BY <1>1 DEF Tick
<1>2. ASSUME NEW r \in Rings, Advances(r) PROVE ReplyTypes'
  BY <1>2 DEF Advances, Reject, Send, Publish, Sent
<1>3. ASSUME NEW r \in Rings, AutoReply(r) PROVE ReplyTypes'
  <2>1. \A x \in Identities : Swept[x] \in Reservation
    BY DEF Swept, Free
  <2>2. Swept \in [Identities -> Reservation]
    BY <2>1 DEF Swept
  <2>3. /\ counter + 1 \in Nat /\ [at |-> clock, token |-> counter + 1] \in Reservation
        /\ [step |-> "send", at |-> clock, token |-> counter + 1] \in
             [step : ReplySteps, at : 0..MaxTime, token : Nat]
    OBVIOUS
  <2>4. held' \in [Identities -> Reservation]
    BY <1>3, <2>1, <2>2, <2>3 DEF AutoReply
  <2>5. clock' = clock /\ outbox' = outbox /\ slips' = slips
    BY <1>3 DEF AutoReply
  <2>6. counter' \in {counter, counter + 1}
    BY <1>3, Zenon DEF AutoReply
  <2>7. \/ reply' = [reply EXCEPT ![r].step = "over"]
        \/ reply' = [reply EXCEPT ![r] = [step |-> "send", at |-> clock, token |-> counter + 1]]
    BY <1>3, Zenon DEF AutoReply
  <2>8. reply' \in [Rings -> [step : ReplySteps, at : 0..MaxTime, token : Nat]]
    BY <2>3, <2>7
  <2>. QED BY <2>3, <2>4, <2>5, <2>6, <2>8
<1>4. ASSUME NEW r \in Rings, ReleaseReservation(r) PROVE ReplyTypes'
  BY <1>4 DEF ReleaseReservation, Free
<1>5. CASE UNCHANGED replyVars
  BY <1>5 DEF replyVars
<1>. QED BY <1>1, <1>2, <1>3, <1>4, <1>5 DEF ReplyNext, ReplyRest, Advances

-----------------------------------------------------------------------------
\* The reservations of a reply at work in its window are cooling, so neither the
\* sweep nor another caller takes them.
LEMMA Guarded ==
  ASSUME ReplyConstants, IInv, NEW q \in Rings, Replying(q), clock - reply[q].at < Window,
         NEW x \in KnownAs[q]
  PROVE  x \in Identities /\ held[x].token = reply[q].token /\ Cooling(x)
BY DEF ReplyConstants, IInv, ReplyTypes, Tokens, ReservationKept, Cooling, Reservation

LEMMA TickKeeps ==
  ASSUME ReplyConstants, IInv, Tick
  PROVE  (Tokens /\ ReservationKept)'
<1>1. \A r \in Rings : clock' - reply[r].at < Window => clock - reply[r].at < Window
  BY DEF ReplyConstants, IInv, ReplyTypes, Tick
<1>. QED BY <1>1 DEF IInv, Tokens, ReservationKept, Replying, Tick

LEMMA AdvanceKeeps ==
  ASSUME ReplyConstants, IInv, NEW r \in Rings, Advances(r)
  PROVE  (Tokens /\ ReservationKept)'
<1>. USE DEF IInv, ReplyTypes
<1>1. /\ UNCHANGED <<clock, held, counter>>
      /\ \A q \in Rings : reply'[q].at = reply[q].at /\ reply'[q].token = reply[q].token
  BY DEF Advances, Reject, Send, Publish, ReplyGoTo, CooldownFrame
<1>2. \A q \in Rings : Replying(q)' => Replying(q)
  BY DEF Advances, Reject, Send, Publish, ReplyGoTo, Replying
<1>. QED BY <1>1, <1>2 DEF Tokens, ReservationKept

LEMMA AutoReplyKeeps ==
  ASSUME ReplyConstants, IInv, NEW r \in Rings, AutoReply(r)
  PROVE  (Tokens /\ ReservationKept)'
<1>. USE DEF IInv, ReplyTypes
<1>1. counter \in Nat /\ clock' = clock /\ ~Replying(r)
  BY DEF AutoReply, Replying
<1>2. \A x \in Identities : Swept[x].token # 0 => Swept[x] = held[x]
  BY DEF Swept, Free
<1>3. CASE UNCHANGED <<held, counter>> /\ ReplyGoTo(r, "over")
  <2>1. \A q \in Rings : reply'[q].at = reply[q].at /\ reply'[q].token = reply[q].token
    BY <1>3 DEF ReplyGoTo
  <2>2. \A q \in Rings : Replying(q)' => Replying(q)
    BY <1>3 DEF ReplyGoTo, Replying
  <2>. QED BY <1>1, <1>3, <2>1, <2>2 DEF Tokens, ReservationKept
<1>4. CASE /\ Allowed(r) /\ counter' = counter + 1
           /\ held' = [x \in Identities |->
                IF x \in Keys(r) THEN [at |-> clock, token |-> counter + 1] ELSE Swept[x]]
           /\ reply' = [reply EXCEPT ![r] = [step |-> "send", at |-> clock, token |-> counter + 1]]
  <2>1. \A q \in Rings \ {r} : reply'[q] = reply[q] /\ reply[q].token # counter + 1
    BY <1>1, <1>4 DEF Tokens
  <2>2. reply'[r].at = clock /\ reply'[r].token = counter + 1 /\ counter + 1 # 0
    BY <1>1, <1>4
  <2>3. \A x \in Identities :
          \/ held'[x].at = clock /\ held'[x].token = counter + 1
          \/ held'[x] = Swept[x] /\ Swept[x].token <= counter
    BY <1>1, <1>4 DEF Tokens, Swept, Free
  <2>4. Tokens'
    <3>1. /\ \A x \in Identities : held'[x].token <= counter'
          /\ \A q \in Rings : reply'[q].token <= counter'
      <4>1. \A x \in Identities : held'[x].token <= counter'
        <5>1. \A x \in Identities : Swept[x].token \in Nat
          BY DEF Swept, Free, Reservation
        <5>. QED BY <1>1, <1>4, <2>3, <5>1
      <4>2. ASSUME NEW q \in Rings PROVE reply'[q].token <= counter'
        <5>1. CASE q = r
          BY <1>1, <1>4, <2>2, <5>1
        <5>2. CASE q # r
          BY <1>1, <1>4, <2>1, <5>2 DEF Tokens
        <5>. QED BY <5>1, <5>2
      <4>. QED BY <4>1, <4>2
    <3>2. \A q \in Rings : Replying(q)' => reply'[q].token # 0
      BY <2>1, <2>2 DEF Tokens, Replying
    <3>3. \A p, q \in Rings : reply'[p].token # 0 /\ reply'[p].token = reply'[q].token => p = q
      BY <2>1, <2>2 DEF Tokens
    <3>4. ASSUME NEW x \in Identities, NEW q \in Rings,
                 held'[x].token # 0, held'[x].token = reply'[q].token
          PROVE  held'[x].at = reply'[q].at
      <4>1. CASE held'[x].at = clock /\ held'[x].token = counter + 1
        BY <3>4, <4>1, <2>1, <2>2
      <4>2. CASE held'[x] = Swept[x] /\ Swept[x].token <= counter
        <5>1. q # r /\ held'[x] = held[x] /\ held[x].token # 0 /\ held[x].token = reply[q].token
          BY <3>4, <4>2, <1>1, <1>2, <2>1, <2>2
        <5>. QED BY <5>1, <2>1 DEF Tokens
      <4>. QED BY <2>3, <4>1, <4>2
    <3>. QED BY <3>1, <3>2, <3>3, <3>4 DEF Tokens
  <2>5. ASSUME NEW q \in Rings, Replying(q)', clock' - reply'[q].at < Window, NEW x \in KnownAs[q]
        PROVE  held'[x].token = reply'[q].token
    <3>1. CASE q = r
      BY <3>1, <1>4, <2>2 DEF Keys, ReplyConstants
    <3>2. CASE q # r
      <4>1. Replying(q) /\ clock - reply[q].at < Window
        BY <2>5, <3>2, <2>1, <1>1 DEF Replying
      <4>2. x \in Identities /\ held[x].token = reply[q].token /\ Cooling(x)
        BY <4>1, Guarded
      <4>3. x \notin Keys(r) /\ Swept[x] = held[x]
        BY <1>4, <4>2 DEF Allowed, Swept
      <4>. QED BY <1>4, <3>2, <2>1, <4>2, <4>3
    <3>. QED BY <3>1, <3>2
  <2>. QED BY <2>4, <2>5 DEF ReservationKept
<1>5. CASE ReplyGoTo(r, "over") /\ held' = Swept /\ UNCHANGED counter
  <2>1. \A q \in Rings : reply'[q].at = reply[q].at /\ reply'[q].token = reply[q].token
    BY <1>5 DEF ReplyGoTo
  <2>2. \A q \in Rings : Replying(q)' => Replying(q)
    BY <1>5 DEF ReplyGoTo, Replying
  <2>3. \A x \in Identities : held'[x].token <= counter
    BY <1>1, <1>5 DEF Tokens, Swept, Free
  <2>4. Tokens'
    BY <1>2, <1>5, <2>1, <2>2, <2>3 DEF Tokens
  <2>5. ASSUME NEW q \in Rings, Replying(q)', clock' - reply'[q].at < Window, NEW x \in KnownAs[q]
        PROVE  held'[x].token = reply'[q].token
    <3>1. x \in Identities /\ held[x].token = reply[q].token /\ Cooling(x)
      BY <2>5, <2>1, <2>2, <1>1, Guarded
    <3>2. held'[x] = held[x]
      BY <1>5, <3>1 DEF Swept
    <3>. QED BY <2>1, <3>1, <3>2
  <2>. QED BY <2>4, <2>5 DEF ReservationKept
<1>. QED BY <1>3, <1>4, <1>5 DEF AutoReply

LEMMA ReleaseKeeps ==
  ASSUME ReplyConstants, IInv, NEW r \in Rings, ReleaseReservation(r)
  PROVE  (Tokens /\ ReservationKept)'
<1>. USE DEF IInv, ReplyTypes
<1>1. /\ UNCHANGED <<clock, counter>> /\ counter \in Nat
      /\ \A q \in Rings : reply'[q].at = reply[q].at /\ reply'[q].token = reply[q].token
  BY DEF ReleaseReservation, ReplyGoTo
<1>2. \A q \in Rings : Replying(q)' => Replying(q) /\ q # r
  BY DEF ReleaseReservation, ReplyGoTo, Replying
<1>3. \A x \in Identities : held'[x] = IF Releases(r, x) THEN Free ELSE held[x]
  BY DEF ReleaseReservation
<1>4. Tokens'
  BY <1>1, <1>2, <1>3 DEF Tokens, Free
<1>5. ASSUME NEW q \in Rings, Replying(q)', clock' - reply'[q].at < Window, NEW x \in KnownAs[q]
      PROVE  held'[x].token = reply'[q].token
  <2>1. x \in Identities /\ held[x].token = reply[q].token /\ Replying(q) /\ q # r
    BY <1>5, <1>1, <1>2, Guarded
  <2>2. ~Releases(r, x)
    BY <2>1 DEF Releases, Tokens
  <2>. QED BY <1>1, <1>3, <2>1, <2>2
<1>. QED BY <1>4, <1>5 DEF ReservationKept

-----------------------------------------------------------------------------
LEMMA Inductive ==
  ASSUME ReplyConstants
  PROVE  ReplySpec => []IInv
<1>1. ReplyInit => IInv
  BY Initially
<1>2. ASSUME IInv, [ReplyNext]_replyVars PROVE IInv'
  <2>1. CASE UNCHANGED replyVars
    BY <1>2, <2>1 DEF replyVars, IInv, ReplyTypes, Tokens, ReservationKept, Replying
  <2>2. (Tokens /\ ReservationKept)'
    BY <1>2, <2>1, TickKeeps, AdvanceKeeps, AutoReplyKeeps, ReleaseKeeps DEF ReplyNext, Advances, ReplyRest, IInv
  <2>. QED BY <1>2, <2>2, KeepsTypes DEF IInv
<1>. QED BY <1>1, <1>2, PTL DEF ReplySpec

\* Types of the cooldown and the replies.
THEOREM TypeCorrect ==
  ASSUME ReplyConstants
  PROVE  ReplySpec => []ReplyTypes
<1>1. IInv => ReplyTypes
  BY DEF IInv
<1>. QED BY <1>1, Inductive, PTL

\* A reply at work keeps its reservation, however many calls and failures there are.
THEOREM Reserved ==
  ASSUME ReplyConstants
  PROVE  ReplySpec => []ReservationKept
<1>1. IInv => ReservationKept
  BY DEF IInv
<1>. QED BY <1>1, Inductive, PTL

-----------------------------------------------------------------------------
(* OncePerWindow.                                                           *)

\* The replies that have, or may yet have, a message to identity x in the window
\* from t on.
TakesPlace(x, t) ==
  {r \in Rings : /\ x \in KnownAs[r] /\ reply[r].at >= t /\ reply[r].at < t + Window
                 /\ Replying(r) \/ r \in outbox}

\* Nobody takes another place: the window is over, or a reply that took its own in
\* it and did not fail holds x.
Stands(x, t) ==
  \/ clock >= t + Window
  \/ /\ held[x].token # 0 /\ held[x].at >= t /\ held[x].at < t + Window
     /\ \A r \in Rings : reply[r].step = "release" => reply[r].token # held[x].token

Failed == slips["send"] + slips["publish"]

\* Every place but the one that stands was paid for by a failure.
PaidFor(x, t) ==
  /\ IsFiniteSet(TakesPlace(x, t))
  /\ Cardinality(TakesPlace(x, t)) <= Failed + (IF Stands(x, t) THEN 1 ELSE 0)

OnceInv ==
  /\ IInv
  /\ \A x \in Identities : held[x].at <= clock
  /\ \A x \in Identities, t \in 0..MaxTime : PaidFor(x, t)

\* No place is taken, and one that stood does, or its reply has just failed.
LEMMA StillPaid ==
  ASSUME NEW S, NEW T, IsFiniteSet(S), T \subseteq S, NEW m \in Nat, NEW n \in Nat,
         NEW a \in 0..1, NEW b \in 0..1, Cardinality(S) <= m + a, m + a <= n + b
  PROVE  IsFiniteSet(T) /\ Cardinality(T) <= n + b
<1>1. /\ IsFiniteSet(T) /\ Cardinality(T) <= Cardinality(S)
      /\ Cardinality(S) \in Nat /\ Cardinality(T) \in Nat
  BY FS_Subset, FS_CardinalityType
<1>. QED BY <1>1

LEMMA StaysPaid ==
  ASSUME ReplyConstants, ReplyTypes, slips' \in [Slips -> Nat], Failed <= Failed',
         NEW x \in Identities, NEW t \in 0..MaxTime, PaidFor(x, t),
         TakesPlace(x, t)' \subseteq TakesPlace(x, t),
         Stands(x, t) => Stands(x, t)' \/ Failed + 1 <= Failed'
  PROVE  PaidFor(x, t)'
<1> DEFINE S == TakesPlace(x, t)
           T == TakesPlace(x, t)'
           a == IF Stands(x, t) THEN 1 ELSE 0
           b == IF Stands(x, t)' THEN 1 ELSE 0
<1>1. Failed \in Nat /\ Failed' \in Nat /\ a \in 0..1 /\ b \in 0..1
  BY DEF Failed, ReplyTypes, Slips
<1>2. IsFiniteSet(S) /\ Cardinality(S) <= Failed + a /\ T \subseteq S
  BY DEF PaidFor
<1>3. Failed + a <= Failed' + b
  <2> DEFINE m == Failed
             n == Failed'
  <2>1. m \in Nat /\ n \in Nat /\ m <= n /\ (a = 0 \/ a = 1) /\ (b = 0 \/ b = 1)
    BY <1>1
  <2>2. a = 0 \/ b = 1 \/ m + 1 <= n
    OBVIOUS
  <2>. HIDE DEF a, b, m, n
  <2>3. m + a <= n + b
    BY <2>1, <2>2
  <2>. QED BY <2>3 DEF m, n
<1>. HIDE DEF S, T, a, b
<1>4. IsFiniteSet(T) /\ Cardinality(T) <= Failed' + b
  BY <1>1, <1>2, <1>3, StillPaid
<1>. QED BY <1>4 DEF T, b, PaidFor

LEMMA PlaceTaken ==
  ASSUME ReplyConstants, OnceInv, NEW r \in Rings, AutoReply(r), Allowed(r), counter' = counter + 1,
         held' = [x \in Identities |->
           IF x \in Keys(r) THEN [at |-> clock, token |-> counter + 1] ELSE Swept[x]],
         reply' = [reply EXCEPT ![r] = [step |-> "send", at |-> clock, token |-> counter + 1]],
         NEW x \in Identities, NEW t \in 0..MaxTime
  PROVE  PaidFor(x, t)'
<1>. USE DEF OnceInv, IInv, ReplyTypes
<1>1. /\ clock' = clock /\ slips' = slips /\ outbox' = outbox /\ clock \in Nat /\ t \in Nat
      /\ counter \in Nat /\ counter + 1 # 0 /\ Window \in Nat \ {0} /\ Failed' = Failed /\ Failed \in Nat
      /\ slips' \in [Slips -> Nat] /\ PaidFor(x, t)
  BY DEF AutoReply, Fine, ReplyConstants, Failed, Slips
<1>2. /\ \A q \in Rings \ {r} : reply'[q] = reply[q]
      /\ reply'[r].step = "send" /\ reply'[r].at = clock
  OBVIOUS
<1>3. \A q \in TakesPlace(x, t)' : q \in TakesPlace(x, t) \/ q = r
  BY <1>1, <1>2 DEF TakesPlace, Replying
<1>4. held[x].at \in Nat /\ held[x].token \in Nat /\ held[x].token <= counter
  BY DEF Reservation, Tokens
<1>5. CASE x \notin Keys(r)
  <2>1. held'[x] = Swept[x]
    BY <1>5
  <2>2. TakesPlace(x, t)' \subseteq TakesPlace(x, t)
    BY <1>3, <1>5 DEF TakesPlace, Keys
  <2>3. ASSUME Stands(x, t), ~(clock >= t + Window) PROVE Stands(x, t)'
    <3>1. /\ held[x].token # 0 /\ held[x].at >= t /\ held[x].at < t + Window
          /\ \A q \in Rings : reply[q].step = "release" => reply[q].token # held[x].token
      BY <2>3 DEF Stands
    <3>2. Cooling(x)
      BY <1>1, <1>4, <2>3, <3>1 DEF Cooling
    <3>3. held'[x] = held[x]
      BY <2>1, <3>2 DEF Swept
    <3>. QED BY <1>2, <3>1, <3>3 DEF Stands
  <2>4. Stands(x, t) => Stands(x, t)'
    BY <1>1, <2>3 DEF Stands
  <2>. QED BY <1>1, <2>2, <2>4, StaysPaid
<1>6. CASE x \in Keys(r)
  <2>1. held'[x].at = clock /\ held'[x].token = counter + 1 /\ ~Cooling(x) /\ held[x].at <= clock
    BY <1>6 DEF Allowed
  <2>2. CASE clock >= t /\ clock < t + Window
    <3>1. ~Stands(x, t)
      BY <1>1, <1>4, <2>1, <2>2 DEF Stands, Cooling
    <3>2. Stands(x, t)'
      <4>1. \A q \in Rings : reply'[q].step = "release" => q # r /\ reply[q].token <= counter /\ reply[q].token \in Nat
        BY <1>2 DEF Tokens
      <4>2. \A q \in Rings : reply'[q].step = "release" => reply'[q].token # counter + 1
        BY <1>1, <1>2, <4>1
      <4>. QED BY <1>1, <2>1, <2>2, <4>2 DEF Stands
    <3>3. IsFiniteSet(TakesPlace(x, t)) /\ Cardinality(TakesPlace(x, t)) <= Failed
      BY <1>1, <3>1 DEF PaidFor
    <3> DEFINE S == TakesPlace(x, t)
               T == TakesPlace(x, t)'
    <3>4. T \subseteq S \cup {r} /\ IsFiniteSet(S) /\ Cardinality(S) <= Failed
      BY <1>3, <3>3
    <3>. HIDE DEF S, T
    <3>5. IsFiniteSet(S \cup {r}) /\ Cardinality(S \cup {r}) <= Cardinality(S) + 1 /\ Cardinality(S) \in Nat
      <4>1. Cardinality(S) \in Nat
        BY <3>4, FS_CardinalityType
      <4>2. /\ IsFiniteSet(S \cup {r})
            /\ Cardinality(S \cup {r}) = IF r \in S THEN Cardinality(S) ELSE Cardinality(S) + 1
        BY <3>4, FS_AddElement
      <4>. QED BY <4>1, <4>2
    <3>6. IsFiniteSet(T) /\ Cardinality(T) <= Cardinality(S \cup {r})
      BY <3>4, <3>5, FS_Subset
    <3>7. Cardinality(T) \in Nat /\ Cardinality(S \cup {r}) \in Nat
      BY <3>5, <3>6, FS_CardinalityType
    <3>8. IsFiniteSet(T) /\ Cardinality(T) <= Failed + 1
      BY <1>1, <3>4, <3>5, <3>6, <3>7
    <3>. QED BY <1>1, <3>2, <3>8 DEF T, PaidFor
  <2>3. CASE ~(clock >= t /\ clock < t + Window)
    <3>1. r \notin TakesPlace(x, t)'
      BY <1>1, <1>2, <2>3 DEF TakesPlace
    <3>2. TakesPlace(x, t)' \subseteq TakesPlace(x, t)
      BY <1>3, <3>1
    <3>3. Stands(x, t) => clock >= t + Window
      BY <1>1, <1>4, <2>1, <2>3 DEF Stands
    <3>4. Stands(x, t) => Stands(x, t)'
      BY <1>1, <3>3 DEF Stands
    <3>. QED BY <1>1, <3>2, <3>4, StaysPaid
  <2>. QED BY <2>2, <2>3
<1>. QED BY <1>5, <1>6

\* Every other step takes no place, and a standing reply falls only by failing.
LEMMA NoPlaceTaken ==
  ASSUME ReplyConstants, OnceInv, ReplyTypes',
         NEW r \in Rings, Advances(r) \/ ReleaseReservation(r),
         NEW x \in Identities, NEW t \in 0..MaxTime
  PROVE  PaidFor(x, t)'
<1>. USE DEF OnceInv, IInv, ReplyTypes
<1>1. /\ clock' = clock /\ \A q \in Rings : reply'[q].at = reply[q].at /\ reply'[q].token = reply[q].token
      /\ \A q \in Rings \ {r} : reply'[q] = reply[q]
      /\ outbox \subseteq outbox' /\ outbox' \subseteq outbox \cup {r}
      /\ r \in outbox' \ outbox => Replying(r)
      /\ Replying(r)' => Replying(r)
  BY DEF Advances, Reject, Send, Publish, ReleaseReservation, ReplyGoTo, CooldownFrame, Sent, Replying
<1>2. TakesPlace(x, t)' \subseteq TakesPlace(x, t)
  <2>1. ASSUME NEW q \in Rings, Replying(q)' \/ q \in outbox' PROVE Replying(q) \/ q \in outbox
    <3>1. CASE q = r
      BY <1>1, <2>1, <3>1 DEF Replying
    <3>2. CASE q # r
      <4>1. reply'[q] = reply[q] /\ (q \in outbox' => q \in outbox)
        BY <1>1, <3>2
      <4>. QED BY <2>1, <4>1 DEF Replying
    <3>. QED BY <3>1, <3>2
  <2>. QED BY <1>1, <2>1 DEF TakesPlace
<1>3. \/ slips' = slips
      \/ reply'[r].step = "tracked" /\ \E s \in Slips : slips' = [slips EXCEPT ![s] = @ + 1]
      \/ slips' = [slips EXCEPT !["send"] = @ + 1]
      \/ slips' = [slips EXCEPT !["publish"] = @ + 1]
  BY DEF Advances, Reject, Send, Publish, ReleaseReservation, ReplyGoTo, Fine, Slip, Slips
<1>4. Failed \in Nat /\ Failed' \in Nat /\ Failed <= Failed'
  BY <1>3 DEF Failed, Slips
<1>5. Stands(x, t) => Stands(x, t)' \/ Failed + 1 <= Failed'
  <2>1. CASE Reject(r)
    BY <1>1, <2>1 DEF Reject, ReplyGoTo, CooldownFrame, Stands
  <2>2. CASE Send(r)
    <3>1. CASE Fine /\ ReplyGoTo(r, "publish")
      BY <1>1, <2>2, <3>1 DEF Send, ReplyGoTo, CooldownFrame, Stands
    <3>2. CASE Slip("send")
      BY <3>2 DEF Slip, Failed, Slips
    <3>. QED BY <2>2, <3>1, <3>2 DEF Send
  <2>3. CASE Publish(r)
    <3>1. CASE Fine /\ ReplyGoTo(r, "over")
      BY <1>1, <2>3, <3>1 DEF Publish, ReplyGoTo, CooldownFrame, Stands
    <3>2. CASE Slip("publish")
      BY <3>2 DEF Slip, Failed, Slips
    <3>. QED BY <2>3, <3>1, <3>2 DEF Publish
  <2>4. CASE ReleaseReservation(r)
    <3>1. /\ \A q \in Rings : reply'[q].step = "release" => reply[q].step = "release"
          /\ held'[x] = IF Releases(r, x) THEN Free ELSE held[x]
          /\ reply[r].step = "release"
      BY <1>1, <2>4 DEF ReleaseReservation, ReplyGoTo
    <3>2. CASE Releases(r, x)
      BY <1>1, <3>1, <3>2 DEF Releases, Stands
    <3>3. CASE ~Releases(r, x)
      BY <1>1, <3>1, <3>3 DEF Stands
    <3>. QED BY <3>2, <3>3
  <2>. QED BY <2>1, <2>2, <2>3, <2>4 DEF Advances
<1>. QED BY <1>2, <1>4, <1>5, StaysPaid

LEMMA OnceKept ==
  ASSUME ReplyConstants, OnceInv, IInv', [ReplyNext]_replyVars
  PROVE  OnceInv'
<1>. USE DEF OnceInv, IInv
<1>0. /\ clock \in Nat /\ clock' \in Nat /\ slips' \in [Slips -> Nat] /\ slips \in [Slips -> Nat]
      /\ \A x \in Identities : held[x].at \in Nat
  BY DEF ReplyTypes, Reservation, ReplyConstants
<1>1. \A x \in Identities : held'[x].at <= clock'
  <2>1. CASE Tick \/ UNCHANGED replyVars \/ \E r \in Rings : Advances(r)
    BY <1>0, <2>1 DEF Tick, Advances, Reject, Send, Publish, CooldownFrame, replyVars
  <2>2. ASSUME NEW r \in Rings, AutoReply(r) PROVE \A x \in Identities : held'[x].at <= clock'
    <3>1. \A x \in Identities : held'[x].at \in {held[x].at, clock, 0} /\ clock' = clock
      BY <2>2 DEF AutoReply, Swept, Free, ReplyTypes
    <3>. QED BY <1>0, <3>1
  <2>3. ASSUME NEW r \in Rings, ReleaseReservation(r) PROVE \A x \in Identities : held'[x].at <= clock'
    BY <1>0, <2>3 DEF ReleaseReservation, Free
  <2>. QED BY <2>1, <2>2, <2>3 DEF ReplyNext, Advances, ReplyRest
<1>2. ASSUME NEW x \in Identities, NEW t \in 0..MaxTime PROVE PaidFor(x, t)'
  <2>1. CASE UNCHANGED replyVars
    BY <2>1 DEF replyVars, PaidFor, TakesPlace, Stands, Failed, Replying
  <2>2. CASE Tick
    <3>1. UNCHANGED <<held, reply, outbox, slips>> /\ clock' = clock + 1 /\ t + Window \in Nat
      BY <2>2 DEF Tick, Fine, ReplyConstants
    <3>2. TakesPlace(x, t)' \subseteq TakesPlace(x, t) /\ Failed' = Failed /\ Failed \in Nat
      BY <1>0, <3>1 DEF TakesPlace, Replying, Failed, Slips
    <3>3. Stands(x, t) => Stands(x, t)'
      BY <1>0, <3>1 DEF Stands
    <3>. QED BY <1>0, <3>2, <3>3, StaysPaid
  <2>3. ASSUME NEW r \in Rings, AutoReply(r) PROVE PaidFor(x, t)'
    <3>1. CASE /\ Allowed(r) /\ counter' = counter + 1
               /\ held' = [y \in Identities |->
                    IF y \in Keys(r) THEN [at |-> clock, token |-> counter + 1] ELSE Swept[y]]
               /\ reply' = [reply EXCEPT ![r] = [step |-> "send", at |-> clock, token |-> counter + 1]]
      BY <2>3, <3>1, PlaceTaken
    <3>2. CASE ReplyGoTo(r, "over") /\ (held' = held \/ held' = Swept)
      <4>1. /\ clock' = clock /\ slips' = slips /\ outbox' = outbox
            /\ \A q \in Rings : reply'[q].at = reply[q].at /\ reply'[q].token = reply[q].token
            /\ \A q \in Rings : Replying(q)' => Replying(q)
            /\ \A q \in Rings : reply'[q].step = "release" => reply[q].step = "release"
        BY <2>3, <3>2 DEF AutoReply, Fine, ReplyGoTo, Replying, ReplyTypes
      <4>2. TakesPlace(x, t)' \subseteq TakesPlace(x, t) /\ Failed' = Failed /\ Failed \in Nat
        BY <1>0, <4>1 DEF TakesPlace, Failed, Slips
      <4>3. Stands(x, t) => Stands(x, t)'
        <5>1. CASE clock >= t + Window
          BY <4>1, <5>1 DEF Stands
        <5>2. CASE ~(clock >= t + Window) /\ held[x].token # 0 /\ held[x].at >= t
          <6>1. Cooling(x)
            BY <1>0, <5>2 DEF Cooling, ReplyConstants
          <6>2. held'[x] = held[x]
            BY <3>2, <6>1 DEF Swept
          <6>. QED BY <4>1, <6>2 DEF Stands
        <5>. QED BY <5>1, <5>2 DEF Stands
      <4>. QED BY <1>0, <4>2, <4>3, StaysPaid
    <3>. QED BY <2>3, <3>1, <3>2 DEF AutoReply
  <2>4. ASSUME NEW r \in Rings, Advances(r) \/ ReleaseReservation(r) PROVE PaidFor(x, t)'
    BY <2>4, NoPlaceTaken
  <2>. QED BY <2>1, <2>2, <2>3, <2>4 DEF ReplyNext, Advances, ReplyRest
<1>. QED BY <1>1, <1>2

\* Whatever replies outlast their window, fail late or lose the answer of their send,
\* a caller gets one message in a window, and one more for every such failure.
THEOREM Once ==
  ASSUME ReplyConstants
  PROVE  ReplySpec => []OncePerWindow
<1>1. ASSUME ReplyInit PROVE OnceInv
  <2>1. IInv /\ \A x \in Identities : held[x].at <= clock
    BY <1>1, Initially DEF ReplyInit, Free
  <2>2. ASSUME NEW x \in Identities, NEW t \in 0..MaxTime PROVE PaidFor(x, t)
    <3>1. TakesPlace(x, t) = {}
      BY <1>1 DEF ReplyInit, TakesPlace, Replying, NoReply
    <3>2. Failed = 0
      BY <1>1 DEF ReplyInit, Failed, Slips
    <3>. QED BY <3>1, <3>2, FS_EmptySet DEF PaidFor
  <2>. QED BY <2>1, <2>2 DEF OnceInv
<1>2. ASSUME OnceInv PROVE OncePerWindow
  <2>. SUFFICES ASSUME NEW x \in Identities, NEW t \in 0..MaxTime
                PROVE  Cardinality(InWindow(x, t)) <= 1 + slips["send"] + slips["publish"]
    BY DEF OncePerWindow
  <2>1. InWindow(x, t) \subseteq TakesPlace(x, t)
    BY <1>2 DEF OnceInv, IInv, ReplyTypes, ReplyConstants, InWindow, TakesPlace
  <2>2. /\ IsFiniteSet(TakesPlace(x, t))
        /\ Cardinality(TakesPlace(x, t)) <= Failed + (IF Stands(x, t) THEN 1 ELSE 0)
        /\ slips["send"] \in Nat /\ slips["publish"] \in Nat
    BY <1>2 DEF OnceInv, IInv, ReplyTypes, Slips, PaidFor
  <2>3. /\ IsFiniteSet(InWindow(x, t)) /\ Cardinality(InWindow(x, t)) <= Cardinality(TakesPlace(x, t))
    BY <2>1, <2>2, FS_Subset
  <2>4. Cardinality(InWindow(x, t)) \in Nat /\ Cardinality(TakesPlace(x, t)) \in Nat
    BY <2>2, <2>3, FS_CardinalityType
  <2>5. Cardinality(TakesPlace(x, t)) <= Failed + 1
    BY <2>2, <2>4 DEF Failed
  <2>. QED BY <2>2, <2>3, <2>4, <2>5 DEF Failed
<1>3. OnceInv /\ IInv' /\ [ReplyNext]_replyVars => OnceInv'
  BY OnceKept
<1>. QED BY <1>1, <1>2, <1>3, Inductive, PTL DEF ReplySpec
=============================================================================
