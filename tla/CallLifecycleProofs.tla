------------------------ MODULE CallLifecycleProofs ------------------------
(***************************************************************************)
(* EndsOnce, NoStreamLeftOpen and StopReports of CallLifecycle, for any    *)
(* calls, channels, operators and budgets.                                 *)
(***************************************************************************)
EXTENDS CallLifecycle, FiniteSetTheorems, SequenceTheorems, TLAPS

Told == {"chat", "incoming", "ringing", "ended"}

\* The types.
Shapes ==
  /\ live \in [Calls -> {"none", "on", "over"}] /\ tracker \in [Calls -> TrackSteps]
  /\ registry \subseteq Calls /\ finisher \in [Calls -> FinishSteps]
  /\ stream \in [Calls -> Operators \cup {NoOperator}]
  /\ operator \in [Operators -> [step : OperatorSteps, open : BOOLEAN,
                                 replaces : Operators \cup {NoOperator}]]
  /\ upload \in [Calls -> {"none", "running", "over"}] /\ taken \subseteq Calls
  /\ phase \in Phases /\ spent \in [Budgets -> Nat] /\ events \in [Calls -> Seq(Told)]

\* A call is in the registry between Insert and its end, and is published as ended by
\* the last step of that.
Ordered(k) ==
  /\ live[k] = "none" => tracker[k] = "none"
  /\ tracker[k] \in {"none", "hooked"} => finisher[k] = "none" /\ k \notin registry
  /\ finisher[k] # "none" => k \notin registry
  /\ finisher[k] = "done" <=> Said(k, "ended")
  /\ \A i, j \in 1..Len(events[k]) : events[k][i] = "ended" /\ events[k][j] = "ended" => i = j

\* The stream of a call is one of its operators, and there is none once finish has taken
\* it; an operator that is no longer the stream is about to be closed by another.
Watched(o) ==
  /\ operator[o].replaces # NoOperator => operator[o].step = "closing" /\ operator[o].replaces # o
  /\ operator[o].open /\ operator[o].step \in {"closing", "on"} =>
       \/ stream[TokenFor[o]] = o
       \/ \E x \in Operators \ {o} : operator[x].replaces = o

Streaming(k) ==
  stream[k] # NoOperator =>
    /\ TokenFor[stream[k]] = k /\ finisher[k] \in {"none", "stream"}
    /\ operator[stream[k]].step \in {"closing", "on", "clearing"}

\* What the stop has waited for.
Left ==
  phase = "down" =>
    /\ \A k \in taken : finisher[k] = "done"
    /\ UploadsOver \/ spent["timeout"] > 0

Ends == \A k \in Calls : Ordered(k)
Operated == (\A o \in Operators : Watched(o)) /\ \A k \in Calls : Streaming(k)

IInv == Shapes /\ Ends /\ Operated /\ Left

-----------------------------------------------------------------------------
(* What ends calls, and what is told.                                       *)

\* The calls ks leave the registry, and their finish begins.
Leaves(ks) ==
  /\ ks \subseteq registry /\ registry' = registry \ ks
  /\ finisher' = [k \in Calls |-> IF k \in ks THEN "stream" ELSE finisher[k]]

LEMMA FinishLeaves ==
  ASSUME Shapes, Ends, NEW ks \in SUBSET registry, registry' = registry \ ks, FinishOf(ks)
  PROVE  Leaves(ks)
<1>1. \A k \in ks : k \in Calls /\ finisher[k] = "none"
  BY DEF Shapes, Ends, Ordered
<1>. QED BY <1>1 DEF FinishOf, Leaves

LEMMA NoneLeaves ==
  ASSUME Shapes, UNCHANGED <<registry, finisher>>
  PROVE  Leaves({})
BY DEF Shapes, Leaves

LEMMA EndLeaves ==
  ASSUME Shapes, Ends, NEW k \in Calls, End(k)
  PROVE  \E ks \in SUBSET registry : Leaves(ks) /\ (ks = {} \/ ks = {k})
<1>1. CASE k \in registry
  BY <1>1, FinishLeaves DEF End, Remove
<1>2. CASE k \notin registry
  BY <1>2, NoneLeaves DEF End
<1>. QED BY <1>1, <1>2

\* The only steps that end calls.
LEMMA WhoEnds ==
  ASSUME Shapes, Ends, [Next]_vars
  PROVE  \/ \E ks \in SUBSET registry : Leaves(ks)
         \/ \E k \in Calls : Insert(k) \/ FinishStream(k) \/ FinishPublish(k)
<1>. USE NoneLeaves
<1>1. ASSUME NEW k \in Calls, OnEnd(k) \/ Flush(k) PROVE \E ks \in SUBSET registry : Leaves(ks)
  BY <1>1, EndLeaves DEF OnEnd, Flush, FlushEarlyEnd
<1>2. ASSUME NEW c \in Channels, AbortChannel(c) PROVE \E ks \in SUBSET registry : Leaves(ks)
  BY <1>2, FinishLeaves DEF AbortChannel, CallsOf
<1>3. CASE AbortAll
  BY <1>3, FinishLeaves DEF AbortAll
<1>4. ASSUME NEW k \in Calls,
             \/ Incoming(k) \/ Subscribe(k) \/ Announce(k) \/ Over(k) \/ Upload(k) \/ Dial(k)
             \/ Look(k)
      PROVE  UNCHANGED <<registry, finisher>>
  BY <1>4 DEF Incoming, Subscribe, Announce, TrackOnly, Over, Upload, FinishFrame, Dial, Look,
              CommandFrame
<1>5. ASSUME NEW o \in Operators, Serve(o) \/ Detach(o) \/ Find(o)
      PROVE  UNCHANGED <<registry, finisher>>
  BY <1>5 DEF Serve, SetStream, CloseReplaced, Detach, Find, OperatorFrame
<1>6. CASE DialDone \/ Act \/ Stop \/ Leave \/ Rest \/ UNCHANGED vars
  BY <1>6 DEF DialDone, Act, Stop, Leave, Rest, CommandFrame, vars, callVars
<1>. QED BY <1>1, <1>2, <1>3, <1>4, <1>5, <1>6 DEF Next, Track, Finish

\* The handlers of the media server keep their type.
Handler == [step : OperatorSteps, open : BOOLEAN, replaces : Operators \cup {NoOperator}]

LEMMA HandlerChanged ==
  ASSUME NEW x \in Handler, NEW s \in OperatorSteps, NEW b \in BOOLEAN,
         NEW p \in Operators \cup {NoOperator}
  PROVE  /\ [x EXCEPT !.step = s] \in Handler
         /\ [x EXCEPT !.open = b] \in Handler
         /\ [x EXCEPT !.step = s, !.open = b] \in Handler
         /\ [x EXCEPT !.step = s, !.replaces = p] \in Handler
BY DEF Handler

LEMMA HandlersTyped ==
  ASSUME Shapes, NEW o \in Operators,
         SetStream(o) \/ CloseReplaced(o) \/ Detach(o) \/ Find(o)
  PROVE  operator' \in [Operators -> Handler]
<1>0. operator \in [Operators -> Handler] /\ stream[TokenFor[o]] \in Operators \cup {NoOperator}
  BY ConstantsAssumption DEF Shapes, Handler
<1>1. operator[o] \in Handler
  BY <1>0
<1>2. CASE SetStream(o)
  <2>1. [operator[o] EXCEPT !.step = "done", !.open = FALSE] \in Handler
    BY <1>1, HandlerChanged DEF OperatorSteps
  <2>2. [operator[o] EXCEPT !.step = "closing", !.replaces = stream[TokenFor[o]]] \in Handler
    BY <1>0, <1>1, HandlerChanged DEF OperatorSteps
  <2>3. PICK h \in {[operator[o] EXCEPT !.step = "done", !.open = FALSE],
                    [operator[o] EXCEPT !.step = "closing", !.replaces = stream[TokenFor[o]]]} :
          operator' = [operator EXCEPT ![o] = h]
    BY <1>2, Zenon DEF SetStream
  <2>4. h \in Handler
    BY <2>1, <2>2, <2>3
  <2>. QED BY <1>0, <2>3, <2>4
<1>3. CASE CloseReplaced(o)
  <2>1. [operator[o] EXCEPT !.step = "on", !.replaces = NoOperator] \in Handler
    BY <1>1, HandlerChanged DEF OperatorSteps
  <2>2. \A x \in Operators : [operator[x] EXCEPT !.open = FALSE] \in Handler
    BY <1>0, HandlerChanged DEF OperatorSteps
  <2>3. ASSUME NEW x \in Operators PROVE operator'[x] \in Handler
    <3>1. CASE x = o
      BY <1>3, <2>1, <3>1 DEF CloseReplaced
    <3>2. CASE x # o /\ x = operator[o].replaces
      BY <1>3, <2>2, <3>2 DEF CloseReplaced
    <3>3. CASE x # o /\ x # operator[o].replaces
      BY <1>0, <1>3, <3>3 DEF CloseReplaced
    <3>. QED BY <3>1, <3>2, <3>3
  <2>4. operator' = [x \in Operators |-> operator'[x]]
    BY <1>3, Zenon DEF CloseReplaced
  <2>. QED BY <2>3, <2>4
<1>4. CASE Detach(o)
  <2>1. [operator[o] EXCEPT !.step = "clearing", !.open = FALSE] \in Handler
    BY <1>1, HandlerChanged DEF OperatorSteps
  <2>2. [operator[o] EXCEPT !.step = "done"] \in Handler
    BY <1>1, HandlerChanged DEF OperatorSteps
  <2>3. PICK h \in {[operator[o] EXCEPT !.step = "clearing", !.open = FALSE],
                    [operator[o] EXCEPT !.step = "done"]} :
          operator' = [operator EXCEPT ![o] = h]
    BY <1>4, Zenon DEF Detach, Enter
  <2>4. h \in Handler
    BY <2>1, <2>2, <2>3
  <2>. QED BY <1>0, <2>3, <2>4
<1>5. CASE Find(o)
  <2>1. [operator[o] EXCEPT !.step = "found", !.open = TRUE] \in Handler
    BY <1>1, HandlerChanged DEF OperatorSteps
  <2>2. operator' = [operator EXCEPT ![o] = [operator[o] EXCEPT !.step = "found", !.open = TRUE]]
    BY <1>5, Zenon DEF Find
  <2>. QED BY <1>0, <2>1, <2>2
<1>. QED BY <1>2, <1>3, <1>4, <1>5

LEMMA ToldIsTold ==
  ASSUME Shapes, NEW k \in Calls, NEW e \in Told, Says(k, e)
  PROVE  /\ events' \in [Calls -> Seq(Told)] /\ events'[k] = Append(events[k], e)
         /\ \A x \in Calls \ {k} : events'[x] = events[x]
<1>1. Append(events[k], e) \in Seq(Told)
  BY DEF Shapes
<1>. QED BY <1>1 DEF Shapes, Says

LEMMA SpentOK ==
  ASSUME Shapes, NEW b \in Budgets, Free \/ Use(b)
  PROVE  spent' \in [Budgets -> Nat]
BY DEF Shapes, Free, Use

LEMMA ShapesKept ==
  ASSUME Shapes, Ends, [Next]_vars
  PROVE  Shapes'
<1>. USE DEF Shapes, Free, Quiet, TrackSteps, OperatorSteps, Phases
<1>1. registry' \subseteq Calls /\ finisher' \in [Calls -> FinishSteps]
  <2>1. ASSUME NEW ks \in SUBSET registry, Leaves(ks)
        PROVE  registry' \subseteq Calls /\ finisher' \in [Calls -> FinishSteps]
    BY <2>1 DEF Leaves, FinishSteps
  <2>2. ASSUME NEW k \in Calls, Insert(k) \/ FinishStream(k) \/ FinishPublish(k)
        PROVE  registry' \subseteq Calls /\ finisher' \in [Calls -> FinishSteps]
    BY <2>2 DEF Insert, FinishStream, FinishPublish, FinishFrame, FinishTo, FinishSteps
  <2>. QED BY <2>1, <2>2, WhoEnds
<1>2. ASSUME NEW k \in Calls, Incoming(k) \/ Over(k) \/ OnEnd(k) PROVE Shapes'
  BY <1>1, <1>2 DEF Incoming, Over, OnEnd, GoTo, TrackFrame
<1>3. ASSUME NEW k \in Calls, Insert(k) \/ Subscribe(k) \/ Flush(k) PROVE Shapes'
  BY <1>1, <1>3 DEF Insert, Subscribe, Flush, GoTo, TrackFrame, TrackOnly
<1>4. ASSUME NEW k \in Calls, Announce(k) PROVE Shapes'
  <2>1. events' \in [Calls -> Seq(Told)]
    BY <1>4, ToldIsTold DEF Announce, Told
  <2>. QED BY <1>1, <1>4, <2>1 DEF Announce, GoTo, TrackFrame, TrackOnly
<1>5. ASSUME NEW k \in Calls, FinishStream(k) PROVE Shapes'
  <2>1. operator \in [Operators -> Handler]
    BY DEF Handler
  <2>2. \A x \in Operators : [operator[x] EXCEPT !.open = FALSE] \in Handler
    BY <2>1, HandlerChanged
  <2>3. operator' \in [Operators -> Handler]
    BY <1>5, <2>1, <2>2 DEF FinishStream, CloseStream
  <2>. QED BY <1>1, <1>5, <2>3 DEF FinishStream, FinishFrame, Handler
<1>6. ASSUME NEW k \in Calls, FinishPublish(k) PROVE Shapes'
  <2>1. events' \in [Calls -> Seq(Told)]
    BY <1>6, ToldIsTold DEF FinishPublish, Told
  <2>. QED BY <1>1, <1>6, <2>1 DEF FinishPublish, FinishFrame
<1>7. ASSUME NEW k \in Calls, Upload(k) PROVE Shapes'
  BY <1>1, <1>7 DEF Upload, FinishFrame
<1>8. ASSUME NEW k \in Calls, Dial(k) \/ Look(k) PROVE Shapes'
  <2>1. spent' \in [Budgets -> Nat]
    BY <1>8, SpentOK DEF Dial, Look, Consumes, Budgets
  <2>. QED BY <1>1, <1>8, <2>1 DEF Dial, Look, CommandFrame, GoTo
<1>9. ASSUME NEW c \in Channels, AbortChannel(c) PROVE Shapes'
  <2>1. spent' \in [Budgets -> Nat]
    BY <1>9, SpentOK DEF AbortChannel, Budgets
  <2>. QED BY <1>1, <1>9, <2>1 DEF AbortChannel, TrackFrame
<1>10. ASSUME NEW o \in Operators, Serve(o) \/ Detach(o) \/ Find(o) PROVE Shapes'
  <2>1. TokenFor[o] \in Calls
    BY ConstantsAssumption
  <2>2. operator' \in [Operators -> [step : OperatorSteps, open : BOOLEAN,
                                     replaces : Operators \cup {NoOperator}]]
    BY <1>10, HandlersTyped DEF Serve, Handler
  <2>3. CASE CloseReplaced(o)
    BY <1>1, <2>2, <2>3 DEF CloseReplaced, OperatorFrame
  <2>4. CASE SetStream(o) \/ Detach(o) \/ Find(o)
    <3>1. stream' \in [Calls -> Operators \cup {NoOperator}]
      BY <2>1, <2>4 DEF SetStream, Detach, Find
    <3>. QED BY <1>1, <2>2, <2>4, <3>1 DEF SetStream, Detach, Find, OperatorFrame
  <2>. QED BY <1>10, <2>3, <2>4 DEF Serve
<1>11. CASE DialDone \/ Act
  BY <1>1, <1>11 DEF DialDone, Act, CommandFrame
<1>12. CASE Stop \/ AbortAll \/ Leave
  <2>1. spent' \in [Budgets -> Nat]
    BY <1>12, SpentOK DEF Stop, AbortAll, Leave, Budgets
  <2>. QED BY <1>1, <1>12, <2>1 DEF Stop, AbortAll, Leave, StopFrame
<1>13. CASE Rest \/ UNCHANGED vars
  BY <1>13 DEF Rest, vars, callVars
<1>. QED BY <1>2, <1>3, <1>4, <1>5, <1>6, <1>7, <1>8, <1>9, <1>10, <1>11, <1>12, <1>13
         DEF Next, Track, Finish

-----------------------------------------------------------------------------
(* The order of a call's life.                                              *)

\* How far a call goes in a step that tells nothing of it.
Proceeds(k) ==
  /\ events'[k] = events[k]
  /\ live'[k] = "none" => live[k] = "none" /\ tracker'[k] = tracker[k]
  /\ \/ tracker'[k] = tracker[k]
     \/ tracker'[k] = "hooked" /\ tracker[k] = "none"
     \/ {tracker[k], tracker'[k]} \cap {"none", "hooked"} = {}
  /\ k \in registry' => k \in registry
  /\ \/ finisher'[k] = finisher[k]
     \/ finisher'[k] = "stream" /\ k \in registry /\ k \notin registry'
     \/ finisher'[k] = "publish" /\ finisher[k] = "stream"

LEMMA ProceedsInOrder ==
  ASSUME Shapes, NEW k \in Calls, Ordered(k), Proceeds(k)
  PROVE  Ordered(k)'
<1>1. finisher[k] = "done" <=> finisher'[k] = "done"
  BY DEF Proceeds, Ordered
<1>2. Said(k, "ended")' <=> Said(k, "ended")
  BY DEF Proceeds, Said
<1>3. finisher'[k] # "none" => k \notin registry'
  BY DEF Proceeds, Ordered
<1>4. tracker'[k] \in {"none", "hooked"} => finisher'[k] = "none" /\ k \notin registry'
  BY DEF Proceeds, Ordered
<1>5. live'[k] = "none" => tracker'[k] = "none"
  BY DEF Proceeds, Ordered
<1>. QED BY <1>1, <1>2, <1>3, <1>4, <1>5 DEF Ordered, Proceeds

\* What is told of a call, put at the end of what was told.
LEMMA Telling ==
  ASSUME Shapes, NEW k \in Calls, NEW e \in Told, Says(k, e)
  PROVE  /\ e = "ended" => Said(k, "ended")'
         /\ e # "ended" => (Said(k, "ended")' <=> Said(k, "ended"))
         /\ (e # "ended" \/ ~Said(k, "ended")) /\ Ordered(k) =>
              \A i, j \in 1..Len(events'[k]) :
                events'[k][i] = "ended" /\ events'[k][j] = "ended" => i = j
<1>1. /\ events'[k] = Append(events[k], e) /\ Len(events[k]) \in Nat
      /\ Len(events'[k]) = Len(events[k]) + 1 /\ events'[k][Len(events[k]) + 1] = e
      /\ \A i \in 1..Len(events[k]) : events'[k][i] = events[k][i]
  <2>1. events[k] \in Seq(Told) /\ events'[k] = Append(events[k], e)
    BY ToldIsTold DEF Shapes
  <2>. QED BY <2>1, AppendProperties, LenProperties
<1>2. e = "ended" => Said(k, "ended")'
  BY <1>1 DEF Said
<1>3. e # "ended" => (Said(k, "ended")' <=> Said(k, "ended"))
  BY <1>1 DEF Said
<1>4. ASSUME e # "ended" \/ ~Said(k, "ended"), Ordered(k),
             NEW i \in 1..Len(events'[k]), NEW j \in 1..Len(events'[k]),
             events'[k][i] = "ended", events'[k][j] = "ended"
      PROVE  i = j
  BY <1>1, <1>4 DEF Said, Ordered
<1>. QED BY <1>2, <1>3, <1>4

LEMMA EndsKept ==
  ASSUME Shapes, Ends, [Next]_vars
  PROVE  Ends'
<1>. SUFFICES ASSUME NEW k \in Calls PROVE Ordered(k)'
  BY DEF Ends
<1>0. Shapes' /\ Ordered(k) /\ (Proceeds(k) => Ordered(k)')
  BY ShapesKept, ProceedsInOrder DEF Ends
<1>t. /\ live \in [Calls -> {"none", "on", "over"}] /\ tracker \in [Calls -> TrackSteps]
      /\ finisher \in [Calls -> FinishSteps]
  BY DEF Shapes
<1>1. ASSUME NEW x \in Calls, Incoming(x) \/ Dial(x) PROVE Ordered(k)'
  <2>1. UNCHANGED <<registry, finisher, events>>
    BY <1>1 DEF Incoming, Dial, CommandFrame, Quiet
  <2>2. /\ live[x] = "none" /\ live'[x] = "on" /\ tracker'[x] = "hooked"
        /\ \A y \in Calls \ {x} : live'[y] = live[y] /\ tracker'[y] = tracker[y]
    BY <1>1, <1>t DEF Incoming, Dial, GoTo
  <2>3. x = k => tracker[k] = "none"
    BY <1>0, <2>2 DEF Ordered
  <2>. QED BY <1>0, <2>1, <2>2, <2>3 DEF Proceeds
<1>2. ASSUME NEW x \in Calls, Insert(x) PROVE Ordered(k)'
  <2>1. UNCHANGED <<live, finisher, events>> /\ registry' = registry \cup {x}
    BY <1>2 DEF Insert, TrackFrame, Quiet
  <2>2. /\ tracker[x] = "hooked" /\ tracker'[x] = "inserted"
        /\ \A y \in Calls \ {x} : tracker'[y] = tracker[y]
    BY <1>2, <1>t DEF Insert, GoTo
  <2>3. CASE x = k
    <3>1. live[k] # "none" /\ finisher[k] = "none"
      BY <1>0, <2>2, <2>3 DEF Ordered
    <3>. QED BY <1>0, <2>1, <2>2, <2>3, <3>1 DEF Ordered, Said
  <2>4. CASE x # k
    BY <1>0, <2>1, <2>2, <2>4 DEF Proceeds
  <2>. QED BY <2>3, <2>4
<1>3. ASSUME NEW x \in Calls, Subscribe(x) PROVE Ordered(k)'
  <2>1. /\ UNCHANGED <<live, finisher, registry, events>>
        /\ \/ tracker'[k] = tracker[k]
           \/ tracker[k] = "inserted" /\ tracker'[k] = "chat"
    BY <1>3, <1>t DEF Subscribe, GoTo, TrackOnly, Quiet
  <2>2. live'[k] = "none" => tracker'[k] = tracker[k]
    BY <1>0, <2>1 DEF Ordered
  <2>. QED BY <1>0, <2>1, <2>2 DEF Proceeds
<1>4. ASSUME NEW x \in Calls, Announce(x) PROVE Ordered(k)'
  <2>1. PICK e \in Told \ {"ended"} : Says(x, e)
    BY <1>4 DEF Announce, Told
  <2>2. /\ UNCHANGED <<live, finisher, registry>>
        /\ \/ tracker'[k] = tracker[k]
           \/ tracker[k] \in {"chat", "arrival"} /\ tracker'[k] \in {"arrival", "flush"}
    BY <1>4, <1>t DEF Announce, GoTo, TrackOnly
  <2>3. live'[k] = "none" => tracker'[k] = tracker[k]
    BY <1>0, <2>2 DEF Ordered
  <2>4. CASE x = k
    BY <1>0, <2>1, <2>2, <2>3, <2>4, Telling DEF Ordered
  <2>5. CASE x # k
    <3>1. events'[k] = events[k]
      BY <2>1, <2>5, ToldIsTold
    <3>. QED BY <1>0, <2>2, <2>3, <3>1 DEF Proceeds
  <2>. QED BY <2>4, <2>5
<1>5. ASSUME NEW x \in Calls, FinishStream(x) PROVE Ordered(k)'
  <2>1. /\ UNCHANGED <<live, tracker, registry, events>>
        /\ \/ finisher'[k] = finisher[k]
           \/ finisher[k] = "stream" /\ finisher'[k] = "publish"
    BY <1>5, <1>t DEF FinishStream, FinishTo, FinishFrame, Quiet
  <2>. QED BY <1>0, <2>1 DEF Proceeds
<1>6. ASSUME NEW x \in Calls, FinishPublish(x) PROVE Ordered(k)'
  <2>1. /\ UNCHANGED <<live, tracker, registry>> /\ Says(x, "ended") /\ finisher[x] = "publish"
        /\ finisher'[x] = "done" /\ \A y \in Calls \ {x} : finisher'[y] = finisher[y]
    BY <1>6, <1>t DEF FinishPublish, FinishTo, FinishFrame
  <2>2. CASE x = k
    BY <1>0, <2>1, <2>2, Telling DEF Ordered, Told
  <2>3. CASE x # k
    <3>1. events'[k] = events[k]
      BY <2>1, <2>3, ToldIsTold DEF Told
    <3>. QED BY <1>0, <2>1, <2>3, <3>1 DEF Proceeds
  <2>. QED BY <2>2, <2>3
<1>7. ASSUME NEW ks \in SUBSET registry, Leaves(ks),
             \A x \in Calls : ~(\/ Incoming(x) \/ Dial(x) \/ Insert(x) \/ Subscribe(x)
                                \/ Announce(x) \/ Finish(x))
      PROVE  Ordered(k)'
  <2>1. /\ k \in registry' => k \in registry
        /\ \/ finisher'[k] = finisher[k]
           \/ finisher'[k] = "stream" /\ k \in registry /\ k \notin registry'
    BY <1>7 DEF Leaves
  <2>2. /\ events'[k] = events[k]
        /\ live'[k] = live[k] \/ (live[k] = "on" /\ live'[k] = "over")
        /\ tracker'[k] = tracker[k] \/ (tracker[k] = "flush" /\ tracker'[k] = "done")
    <3>1. ASSUME NEW x \in Calls, Flush(x) \/ Over(x) \/ OnEnd(x) \/ Upload(x) \/ Look(x)
          PROVE  <2>2!:
      BY <3>1, <1>t DEF Flush, Over, OnEnd, Upload, Look, GoTo, FinishFrame, CommandFrame, Quiet
    <3>2. ASSUME NEW c \in Channels, AbortChannel(c) PROVE <2>2!:
      BY <3>2 DEF AbortChannel, Quiet
    <3>3. ASSUME NEW o \in Operators, Serve(o) \/ Detach(o) \/ Find(o) PROVE <2>2!:
      BY <3>3 DEF Serve, SetStream, CloseReplaced, Detach, Find, OperatorFrame, Quiet
    <3>4. CASE DialDone \/ Act
      BY <3>4, <1>t DEF DialDone, Act, CommandFrame, Quiet
    <3>5. CASE Stop \/ AbortAll \/ Leave \/ Rest \/ UNCHANGED vars
      BY <3>5 DEF Stop, AbortAll, Leave, Rest, StopFrame, vars, callVars
    <3>. QED BY <1>7, <3>1, <3>2, <3>3, <3>4, <3>5 DEF Next, Track, Finish
  <2>3. live'[k] = "none" => tracker'[k] = tracker[k]
    BY <1>0, <2>2 DEF Ordered
  <2>. QED BY <1>0, <2>1, <2>2, <2>3 DEF Proceeds
<1>. QED BY <1>1, <1>2, <1>3, <1>4, <1>5, <1>6, <1>7, WhoEnds DEF Finish

-----------------------------------------------------------------------------
(* The operators.                                                           *)

\* What the steps that are no operator's leave alone.
LEMMA WhoWatches ==
  ASSUME Shapes, Ends, [Next]_vars
  PROVE  \/ \E o \in Operators : Serve(o) \/ Detach(o) \/ Find(o)
         \/ \E k \in Calls : FinishStream(k)
         \/ /\ UNCHANGED <<operator, stream>>
            /\ \A k \in Calls : finisher[k] = "publish" \/ finisher'[k] = finisher[k]
                                \/ finisher'[k] = "stream"
<1>1. CASE \E k \in Calls : FinishStream(k)
  BY <1>1
<1>2. CASE \E o \in Operators : Serve(o) \/ Detach(o) \/ Find(o)
  BY <1>2
<1>3. ASSUME ~\E k \in Calls : FinishStream(k),
             ~\E o \in Operators : Serve(o) \/ Detach(o) \/ Find(o)
      PROVE  UNCHANGED <<operator, stream>>
  <2>1. ASSUME NEW k \in Calls,
               \/ Incoming(k) \/ Track(k) \/ Over(k) \/ OnEnd(k) \/ FinishPublish(k)
               \/ Upload(k) \/ Dial(k) \/ Look(k)
        PROVE  UNCHANGED <<operator, stream>>
    BY <2>1 DEF Incoming, Track, Insert, Subscribe, Announce, Flush, Over, OnEnd, FinishPublish,
                Upload, Dial, Look, TrackFrame, TrackOnly, CommandFrame
  <2>2. ASSUME NEW c \in Channels, AbortChannel(c) PROVE UNCHANGED <<operator, stream>>
    BY <2>2 DEF AbortChannel, TrackFrame
  <2>3. CASE DialDone \/ Act \/ Stop \/ AbortAll \/ Leave \/ Rest \/ UNCHANGED vars
    BY <2>3 DEF DialDone, Act, Stop, AbortAll, Leave, Rest, CommandFrame, StopFrame, vars, callVars
  <2>. QED BY <1>3, <2>1, <2>2, <2>3 DEF Next, Finish
<1>4. ASSUME ~\E k \in Calls : FinishStream(k), NEW k \in Calls
      PROVE  finisher[k] = "publish" \/ finisher'[k] = finisher[k] \/ finisher'[k] = "stream"
  <2>1. ASSUME NEW ks \in SUBSET registry, Leaves(ks)
        PROVE  finisher'[k] = finisher[k] \/ finisher'[k] = "stream"
    BY <2>1 DEF Leaves
  <2>2. ASSUME NEW x \in Calls, Insert(x) \/ FinishPublish(x)
        PROVE  finisher[k] = "publish" \/ finisher'[k] = finisher[k]
    BY <2>2 DEF Insert, FinishPublish, FinishTo, Shapes
  <2>. QED BY <1>4, <2>1, <2>2, WhoEnds
<1>. QED BY <1>1, <1>2, <1>3, <1>4

\* The streams are kept by a step after which the operators that were not closed are
\* still where they were.
LEMMA OperatedKept ==
  ASSUME Shapes, Ends, Operated, [Next]_vars
  PROVE  Operated'
<1>. USE ConstantsAssumption
<1>t. /\ operator \in [Operators -> [step : OperatorSteps, open : BOOLEAN,
                                     replaces : Operators \cup {NoOperator}]]
      /\ stream \in [Calls -> Operators \cup {NoOperator}] /\ finisher \in [Calls -> FinishSteps]
      /\ NoOperator \notin Operators /\ \A x \in Operators : TokenFor[x] \in Calls
  BY DEF Shapes
<1>0. (\A x \in Operators : Watched(x)) /\ \A k \in Calls : Streaming(k)
  BY DEF Operated
<1>1. ASSUME NEW o \in Operators, SetStream(o) PROVE Operated'
  <2>1. /\ operator[o].step = "found" /\ operator[o].replaces = NoOperator
        /\ UNCHANGED finisher
    BY <1>0, <1>1 DEF SetStream, OperatorFrame, Watched
  <2>2. CASE Refuses(TokenFor[o])
    <3>1. /\ UNCHANGED stream /\ operator'[o].step = "done" /\ ~operator'[o].open
          /\ operator'[o].replaces = NoOperator
          /\ \A x \in Operators \ {o} : operator'[x] = operator[x]
      BY <1>1, <1>t, <2>1, <2>2 DEF SetStream
    <3>2. ASSUME NEW x \in Operators PROVE Watched(x)'
      BY <1>0, <1>t, <2>1, <3>1 DEF Watched
    <3>3. ASSUME NEW k \in Calls PROVE Streaming(k)'
      BY <1>0, <1>t, <2>1, <3>1 DEF Streaming
    <3>. QED BY <3>2, <3>3 DEF Operated
  <2>3. CASE ~Refuses(TokenFor[o])
    <3>1. /\ operator'[o].step = "closing" /\ operator'[o].replaces = stream[TokenFor[o]]
          /\ \A x \in Operators \ {o} : operator'[x] = operator[x]
          /\ stream'[TokenFor[o]] = o
          /\ \A k \in Calls \ {TokenFor[o]} : stream'[k] = stream[k]
      BY <1>1, <1>t, <2>3 DEF SetStream
    <3>2. stream[TokenFor[o]] # o
      BY <1>0, <1>t, <2>1 DEF Streaming
    <3>3. ASSUME NEW x \in Operators PROVE Watched(x)'
      <4>1. CASE x = o
        BY <1>t, <3>1, <3>2, <4>1 DEF Watched
      <4>2. CASE x # o
        BY <1>0, <1>t, <2>1, <3>1, <4>2 DEF Watched
      <4>. QED BY <4>1, <4>2
    <3>4. ASSUME NEW k \in Calls PROVE Streaming(k)'
      <4>1. CASE k = TokenFor[o]
        BY <1>t, <2>1, <2>3, <3>1, <4>1 DEF Streaming, Refuses, FinishSteps
      <4>2. CASE k # TokenFor[o]
        BY <1>0, <1>t, <2>1, <3>1, <4>2 DEF Streaming
      <4>. QED BY <4>1, <4>2
    <3>. QED BY <3>3, <3>4 DEF Operated
  <2>. QED BY <2>2, <2>3
<1>2. ASSUME NEW o \in Operators, CloseReplaced(o) PROVE Operated'
  <2>1. /\ operator[o].step = "closing" /\ UNCHANGED <<stream, finisher>>
        /\ operator'[o].step = "on" /\ operator'[o].replaces = NoOperator
        /\ operator'[o].open = operator[o].open
        /\ \A x \in Operators \ {o} :
             /\ operator'[x].step = operator[x].step /\ operator'[x].replaces = operator[x].replaces
             /\ operator'[x].open = (operator[x].open /\ x # operator[o].replaces)
    <3>1. operator[o].step = "closing" /\ UNCHANGED <<stream, finisher>>
      BY <1>2 DEF CloseReplaced, OperatorFrame
    <3>2. operator'[o] = [operator[o] EXCEPT !.step = "on", !.replaces = NoOperator]
      BY <1>2, Zenon DEF CloseReplaced
    <3>3. ASSUME NEW x \in Operators \ {o}
          PROVE  /\ operator'[x].step = operator[x].step
                 /\ operator'[x].replaces = operator[x].replaces
                 /\ operator'[x].open = (operator[x].open /\ x # operator[o].replaces)
      <4>1. CASE x = operator[o].replaces
        <5>1. operator'[x] = [operator[x] EXCEPT !.open = FALSE]
          BY <1>2, <4>1 DEF CloseReplaced
        <5>2. operator[x] \in Handler
          BY <1>t DEF Handler
        <5>3. /\ operator'[x].step = operator[x].step /\ operator'[x].open = FALSE
              /\ operator'[x].replaces = operator[x].replaces
          BY <5>1, <5>2 DEF Handler
        <5>. QED BY <4>1, <5>3
      <4>2. CASE x # operator[o].replaces
        <5>1. operator'[x] = operator[x]
          BY <1>2, <4>2 DEF CloseReplaced
        <5>. QED BY <1>t, <4>2, <5>1
      <4>. QED BY <4>1, <4>2
    <3>. QED BY <1>t, <3>1, <3>2, <3>3
  <2>2. ASSUME NEW x \in Operators PROVE Watched(x)'
    <3>1. CASE x = o
      BY <1>0, <1>t, <2>1, <3>1 DEF Watched
    <3>2. CASE x # o
      <4>1. operator'[x].replaces # NoOperator =>
              operator'[x].step = "closing" /\ operator'[x].replaces # x
        BY <1>0, <2>1, <3>2 DEF Watched
      <4>2. ASSUME operator'[x].open, operator'[x].step \in {"closing", "on"},
                   stream[TokenFor[x]] # x
            PROVE  \E y \in Operators \ {x} : operator'[y].replaces = x
        <5>1. operator[x].open /\ x # operator[o].replaces /\ operator[x].step \in {"closing", "on"}
          BY <2>1, <3>2, <4>2
        <5>2. PICK y \in Operators \ {x} : operator[y].replaces = x
          BY <1>0, <4>2, <5>1 DEF Watched
        <5>3. y # o
          BY <5>1, <5>2
        <5>. QED BY <2>1, <5>2, <5>3
      <4>. QED BY <2>1, <4>1, <4>2 DEF Watched
    <3>. QED BY <3>1, <3>2
  <2>3. ASSUME NEW k \in Calls PROVE Streaming(k)'
    BY <1>0, <1>t, <2>1 DEF Streaming
  <2>. QED BY <2>2, <2>3 DEF Operated
<1>3. ASSUME NEW o \in Operators, Detach(o) PROVE Operated'
  <2>1. /\ operator[o].step \in {"on", "clearing"} /\ operator[o].replaces = NoOperator
        /\ UNCHANGED finisher
    BY <1>0, <1>3 DEF Detach, OperatorFrame, Watched
  <2>2. CASE operator[o].step = "on"
    <3>1. /\ UNCHANGED stream /\ operator'[o].step = "clearing" /\ ~operator'[o].open
          /\ operator'[o].replaces = NoOperator
          /\ \A x \in Operators \ {o} : operator'[x] = operator[x]
      BY <1>3, <1>t, <2>1, <2>2 DEF Detach
    <3>2. ASSUME NEW x \in Operators PROVE Watched(x)'
      BY <1>0, <1>t, <2>1, <3>1 DEF Watched
    <3>3. ASSUME NEW k \in Calls PROVE Streaming(k)'
      BY <1>0, <1>t, <2>1, <3>1 DEF Streaming
    <3>. QED BY <3>2, <3>3 DEF Operated
  <2>3. CASE operator[o].step = "clearing"
    <3>1. /\ operator'[o].step = "done" /\ operator'[o].replaces = NoOperator
          /\ \A x \in Operators \ {o} : operator'[x] = operator[x]
      BY <1>3, <1>t, <2>1, <2>3 DEF Detach, Enter
    <3>2. \A k \in Calls : IF k = TokenFor[o] /\ stream[k] = o THEN stream'[k] = NoOperator
                           ELSE stream'[k] = stream[k]
      BY <1>3, <1>t, <2>3 DEF Detach
    <3>3. ASSUME NEW x \in Operators PROVE Watched(x)'
      BY <1>0, <1>t, <2>1, <3>1, <3>2 DEF Watched
    <3>4. ASSUME NEW k \in Calls PROVE Streaming(k)'
      BY <1>0, <1>t, <2>1, <3>1, <3>2 DEF Streaming
    <3>. QED BY <3>3, <3>4 DEF Operated
  <2>. QED BY <2>1, <2>2, <2>3
<1>4. ASSUME NEW o \in Operators, Find(o) PROVE Operated'
  <2>1. /\ operator[o].step = "none" /\ operator[o].replaces = NoOperator
        /\ UNCHANGED <<stream, finisher>> /\ operator'[o].step = "found"
        /\ operator'[o].replaces = operator[o].replaces
        /\ \A x \in Operators \ {o} : operator'[x] = operator[x]
    BY <1>0, <1>4, <1>t DEF Find, OperatorFrame, Watched
  <2>2. ASSUME NEW x \in Operators PROVE Watched(x)'
    BY <1>0, <1>t, <2>1 DEF Watched
  <2>3. ASSUME NEW k \in Calls PROVE Streaming(k)'
    BY <1>0, <1>t, <2>1 DEF Streaming
  <2>. QED BY <2>2, <2>3 DEF Operated
<1>5. ASSUME NEW c \in Calls, FinishStream(c) PROVE Operated'
  <2>1. /\ finisher[c] = "stream" /\ stream'[c] = NoOperator
        /\ \A k \in Calls \ {c} : stream'[k] = stream[k] /\ finisher'[k] = finisher[k]
        /\ \A x \in Operators :
             /\ operator'[x].step = operator[x].step /\ operator'[x].replaces = operator[x].replaces
             /\ operator'[x].open = (operator[x].open /\ x # stream[c])
    <3>1. /\ finisher[c] = "stream" /\ stream'[c] = NoOperator
          /\ \A k \in Calls \ {c} : stream'[k] = stream[k] /\ finisher'[k] = finisher[k]
      BY <1>5, <1>t DEF FinishStream, FinishTo
    <3>2. ASSUME NEW x \in Operators
          PROVE  /\ operator'[x].step = operator[x].step
                 /\ operator'[x].replaces = operator[x].replaces
                 /\ operator'[x].open = (operator[x].open /\ x # stream[c])
      <4>1. CASE x = stream[c]
        <5>1. operator'[x] = [operator[x] EXCEPT !.open = FALSE]
          BY <1>5, <4>1 DEF FinishStream, CloseStream
        <5>2. operator[x] \in Handler
          BY <1>t DEF Handler
        <5>3. /\ operator'[x].step = operator[x].step /\ operator'[x].open = FALSE
              /\ operator'[x].replaces = operator[x].replaces
          BY <5>1, <5>2 DEF Handler
        <5>. QED BY <4>1, <5>3
      <4>2. CASE x # stream[c]
        <5>1. operator'[x] = operator[x]
          BY <1>5, <4>2 DEF FinishStream, CloseStream
        <5>. QED BY <1>t, <4>2, <5>1
      <4>. QED BY <4>1, <4>2
    <3>. QED BY <3>1, <3>2
  <2>2. ASSUME NEW x \in Operators PROVE Watched(x)'
    <3>1. stream[TokenFor[x]] = x /\ operator'[x].open => stream'[TokenFor[x]] = x
      BY <1>t, <2>1
    <3>2. operator'[x].replaces # NoOperator =>
            operator'[x].step = "closing" /\ operator'[x].replaces # x
      BY <1>0, <2>1 DEF Watched
    <3>3. ASSUME operator'[x].open, operator'[x].step \in {"closing", "on"},
                 stream'[TokenFor[x]] # x
          PROVE  \E y \in Operators \ {x} : operator'[y].replaces = x
      <4>1. operator[x].open /\ operator[x].step \in {"closing", "on"} /\ stream[TokenFor[x]] # x
        BY <2>1, <3>1, <3>3
      <4>2. PICK y \in Operators \ {x} : operator[y].replaces = x
        BY <1>0, <4>1 DEF Watched
      <4>. QED BY <2>1, <4>2
    <3>. QED BY <3>2, <3>3 DEF Watched
  <2>3. ASSUME NEW k \in Calls PROVE Streaming(k)'
    BY <1>0, <1>t, <2>1 DEF Streaming
  <2>. QED BY <2>2, <2>3 DEF Operated
<1>6. ASSUME UNCHANGED <<operator, stream>>,
             \A k \in Calls : finisher[k] = "publish" \/ finisher'[k] = finisher[k]
                              \/ finisher'[k] = "stream"
      PROVE  Operated'
  <2>1. ASSUME NEW x \in Operators PROVE Watched(x)'
    BY <1>0, <1>6 DEF Watched
  <2>2. ASSUME NEW k \in Calls PROVE Streaming(k)'
    BY <1>0, <1>6 DEF Streaming
  <2>. QED BY <2>1, <2>2 DEF Operated
<1>. QED BY <1>1, <1>2, <1>3, <1>4, <1>5, <1>6, WhoWatches DEF Serve

-----------------------------------------------------------------------------
(* The stop.                                                                *)

LEMMA LeftKept ==
  ASSUME Shapes, Left, [Next]_vars
  PROVE  Left'
<1>1. CASE phase = "down"
  <2>1. UNCHANGED vars
    <3>1. ASSUME NEW k \in Calls,
                 \/ Incoming(k) \/ Track(k) \/ Over(k) \/ OnEnd(k) \/ Finish(k) \/ Upload(k)
                 \/ Dial(k) \/ Look(k)
          PROVE  FALSE
      BY <1>1, <3>1 DEF Incoming, Track, Insert, Subscribe, Announce, Flush, Over, OnEnd, Finish,
                        FinishStream, FinishPublish, Upload, Dial, Look, Consumes, Running
    <3>2. ASSUME NEW o \in Operators, Serve(o) \/ Detach(o) \/ Find(o) PROVE FALSE
      BY <1>1, <3>2 DEF Serve, SetStream, CloseReplaced, Detach, Find, Running
    <3>3. ASSUME \/ DialDone \/ Act \/ Stop \/ AbortAll \/ Leave
                 \/ \E c \in Channels : AbortChannel(c)
          PROVE  FALSE
      BY <1>1, <3>3 DEF DialDone, Act, Stop, AbortAll, Leave, AbortChannel, Running
    <3>. QED BY <3>1, <3>2, <3>3 DEF Next, Rest
  <2>. QED BY <2>1 DEF Left, UploadsOver, vars, callVars
<1>2. CASE Leave
  <2>1. UNCHANGED <<taken, finisher, upload>> /\ \A k \in taken : finisher[k] = "done"
    BY <1>2 DEF Leave, AllFinished, StopFrame
  <2>2. UploadsOver \/ spent'["timeout"] > 0
    BY <1>2 DEF Leave, Use, Shapes, Budgets
  <2>. QED BY <2>1, <2>2 DEF Left, UploadsOver
<1>3. CASE phase # "down" /\ ~Leave
  <2>1. phase' # "down"
    <3>1. ASSUME NEW k \in Calls,
                 \/ Incoming(k) \/ Track(k) \/ Over(k) \/ OnEnd(k) \/ Finish(k) \/ Upload(k)
                 \/ Dial(k) \/ Look(k)
          PROVE  phase' = phase
      BY <3>1 DEF Incoming, Track, Insert, Subscribe, Announce, Flush, Over, OnEnd, Finish,
                  FinishStream, FinishPublish, Upload, Dial, Look, TrackFrame, TrackOnly,
                  FinishFrame, CommandFrame
    <3>2. ASSUME NEW o \in Operators, Serve(o) \/ Detach(o) \/ Find(o) PROVE phase' = phase
      BY <3>2 DEF Serve, SetStream, CloseReplaced, Detach, Find, OperatorFrame
    <3>3. ASSUME NEW c \in Channels, AbortChannel(c) PROVE phase' = phase
      BY <3>3 DEF AbortChannel, TrackFrame
    <3>4. CASE DialDone \/ Act \/ Rest \/ UNCHANGED vars
      BY <1>3, <3>4 DEF DialDone, Act, Rest, CommandFrame, vars
    <3>5. CASE Stop \/ AbortAll
      BY <3>5 DEF Stop, AbortAll
    <3>. QED BY <1>3, <3>1, <3>2, <3>3, <3>4, <3>5 DEF Next
  <2>. QED BY <2>1 DEF Left
<1>. QED BY <1>1, <1>2, <1>3

-----------------------------------------------------------------------------
(* The theorems.                                                            *)

LEMMA Invariant == Spec => []IInv
<1>. USE DEF IInv
<1>1. Init => IInv
  <2>. SUFFICES ASSUME Init PROVE IInv
    OBVIOUS
  <2>1. Shapes
    BY ConstantsAssumption
       DEF Init, Shapes, TrackSteps, FinishSteps, OperatorSteps, Phases, Told
  <2>2. Ends
    BY DEF Init, Ends, Ordered, Said
  <2>3. Operated
    BY DEF Init, Operated, Watched, Streaming
  <2>4. Left
    BY DEF Init, Left
  <2>. QED BY <2>1, <2>2, <2>3, <2>4
<1>2. IInv /\ [Next]_vars => IInv'
  BY ShapesKept, EndsKept, OperatedKept, LeftKept
<1>. QED BY <1>1, <1>2, PTL DEF Spec

\* The variables keep the types of the fields they stand for.
THEOREM TypeCorrect == Spec => []Shapes
<1>1. IInv => Shapes
  BY DEF IInv
<1>. QED BY <1>1, Invariant, PTL

\* A call that one end has taken is out of the registry for the others, and is
\* published as ended at most once (Registry.Remove, endOnce and finish).
THEOREM CallsEndOnce == Spec => []EndsOnce
<1>1. IInv => EndsOnce
  <2>. SUFFICES ASSUME IInv, NEW k \in Calls
                PROVE  /\ finisher[k] # "none" => k \notin registry
                       /\ Cardinality({i \in 1..Len(events[k]) : events[k][i] = "ended"}) <= 1
    BY DEF EndsOnce
  <2>. DEFINE ended == {i \in 1..Len(events[k]) : events[k][i] = "ended"}
  <2>1. Ordered(k)
    BY DEF IInv, Ends
  <2>2. Cardinality(ended) <= 1
    <3>1. CASE ended = {}
      <4>1. Cardinality({}) = 0
        BY FS_EmptySet
      <4>. QED BY <3>1, <4>1
    <3>2. CASE ended # {}
      <4>1. PICK i \in ended : TRUE
        BY <3>2
      <4>2. ended = {i}
        BY <2>1, <4>1 DEF Ordered
      <4>3. Cardinality({i}) = 1
        BY FS_Singleton
      <4>4. Cardinality(ended) = 1
        BY <4>2, <4>3
      <4>. QED BY <4>4
    <3>. QED BY <3>1, <3>2
  <2>. QED BY <2>1, <2>2 DEF Ordered
<1>. QED BY <1>1, Invariant, PTL

\* An operator that listens to a call is the one the call has, of a call that is not
\* finished, or is about to be closed by the one that replaced it (setStream, finishStream).
THEOREM StreamsAreClosed == Spec => []NoStreamLeftOpen
<1>1. IInv => NoStreamLeftOpen
  <2>. SUFFICES ASSUME IInv, NEW o \in Operators, operator[o].open, operator[o].step = "on"
                PROVE  \/ stream[TokenFor[o]] = o /\ finisher[TokenFor[o]] \in {"none", "stream"}
                       \/ \E x \in Operators \ {o} : operator[x].replaces = o
    BY DEF NoStreamLeftOpen
  <2>1. TokenFor[o] \in Calls /\ o # NoOperator
    BY ConstantsAssumption
  <2>2. Watched(o) /\ Streaming(TokenFor[o])
    BY <2>1 DEF IInv, Operated
  <2>. QED BY <2>1, <2>2 DEF Watched, Streaming
<1>. QED BY <1>1, Invariant, PTL

\* A shutdown has published the end of every call it took, and waited for the
\* uploads or for its deadline (AbortAll, WaitForRecordings).
THEOREM StopsReport == Spec => []StopReports
<1>1. IInv => StopReports
  <2>. SUFFICES ASSUME IInv, phase = "down", NEW k \in taken
                PROVE  Said(k, "ended") /\ (upload[k] # "running" \/ spent["timeout"] > 0)
    BY DEF StopReports
  <2>1. k \in Calls /\ Ordered(k)
    BY DEF IInv, Shapes, Ends
  <2>. QED BY <2>1 DEF IInv, Left, Ordered, UploadsOver
<1>. QED BY <1>1, Invariant, PTL
=============================================================================
