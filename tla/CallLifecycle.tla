--------------------------- MODULE CallLifecycle ---------------------------
(***************************************************************************)
(* Calls of internal/call (manager.go, registry.go, command.go, stream.go) *)
(* while they are tracked, watched by operators, ended by either side,     *)
(* aborted with their channel and caught by a shutdown (gateway.run).      *)
(*                                                                         *)
(* The call itself lives in meowcaller, outside this repository: it may    *)
(* end at any time, and then calls the OnEnd function it has been given    *)
(* last.  What is published of a call is kept in events, in the order in   *)
(* which the publisher is called; a publish that fails is only logged.     *)
(***************************************************************************)
EXTENDS Naturals, Sequences, FiniteSets

CONSTANTS
  Calls,       \* ids of calls, each used once
  Inbound,     \* the calls that come from WhatsApp; a command dials the others
  Recorded,    \* the calls with a Recorder
  Channels, ChannelOf,
  Operators,   \* connections to the media server, each used once
  NoOperator,
  TokenFor,    \* the call the token of an operator is signed for
  Crowds,      \* bound: dialled calls and operators in one behaviour
  Limits       \* bound: how many commands, aborts and timeouts of a stop

Budgets == {"command", "abort", "timeout"}

ASSUME ConstantsAssumption ==
  /\ Inbound \subseteq Calls /\ Recorded \subseteq Calls
  /\ ChannelOf \in [Calls -> Channels]
  /\ TokenFor \in [Operators -> Calls]
  /\ NoOperator \notin Operators /\ Crowds \in BOOLEAN /\ Limits \in [Budgets -> Nat]

VARIABLES
  live,      \* the call in meowcaller: none, on, over
  tracker,   \* the goroutine that tracks the call
  early,     \* endedEarly, and Tracked.earlyEnd once it has been read
  ending,    \* OnEnd functions that have started and not yet looked at the registry
  registry,  \* Registry.calls
  finisher,  \* Manager.finish of each call
  stream,    \* Tracked.Stream
  operator,  \* the handlers of the media server
  upload,    \* the goroutine of uploadRecording
  command,   \* Manager.Dispatch of the one command at work
  taken,     \* the calls AbortAll has taken
  phase,     \* of the gateway
  spent,     \* how much of the budgets is used
  events     \* history: what was published of each call

callVars == <<live, tracker, early, ending, registry, finisher, stream, upload>>
vars == <<callVars, operator, command, taken, phase, spent, events>>

-----------------------------------------------------------------------------
Phases == {"up", "draining", "waiting", "down"}

\* The steps of Attach or trackOutbound for a call.
TrackSteps == {"none", "hooked", "inserted", "chat", "arrival", "flush", "done"}
FinishSteps == {"none", "stream", "publish", "done"}
OperatorSteps == {"none", "found", "closing", "on", "detaching", "clearing", "done"}

NoCommand == [step |-> "idle"]

Use(b) == spent[b] < Limits[b] /\ spent' = [spent EXCEPT ![b] = @ + 1]
Free   == UNCHANGED spent

Running == phase # "down"

NoneDialled   == Crowds \/ \A k \in Calls \ Inbound : tracker[k] = "none"
NobodyWatches == Crowds \/ \A o \in Operators : operator[o].step = "none"

Says(k, e) == events' = [events EXCEPT ![k] = Append(@, e)]
Said(k, e) == \E i \in 1..Len(events[k]) : events[k][i] = e
Quiet == UNCHANGED events

-----------------------------------------------------------------------------
(* Track: the call is hooked, entered into the registry, subscribed to, and *)
(* only then announced.                                                     *)

TrackFrame == UNCHANGED <<stream, upload, operator, command, taken, phase>>
TrackOnly  == TrackFrame /\ Free /\ UNCHANGED <<live, early, ending, registry, finisher>>

GoTo(k, step) == tracker' = [tracker EXCEPT ![k] = step]

\* A call arrives that the channel takes (OnIncomingCall); Track hooks OnEnd.
Incoming(k) ==
  /\ Running /\ k \in Inbound /\ live[k] = "none"
  /\ live' = [live EXCEPT ![k] = "on"] /\ GoTo(k, "hooked")
  /\ Free /\ Quiet /\ TrackFrame /\ UNCHANGED <<early, ending, registry, finisher>>

\* The peer's identity and picture are looked up; the call enters the registry.
Insert(k) ==
  /\ Running /\ tracker[k] = "hooked" /\ GoTo(k, "inserted")
  /\ registry' = registry \cup {k}
  /\ Free /\ Quiet /\ TrackFrame /\ UNCHANGED <<live, early, ending, finisher>>

\* subscribe hooks OnEnd again: an early end is noted no more, and can be read.
Subscribe(k) ==
  /\ Running /\ tracker[k] = "inserted" /\ GoTo(k, "chat") /\ Quiet /\ TrackOnly

Announce(k) ==
  /\ Running
  /\ \/ tracker[k] = "chat" /\ GoTo(k, "arrival") /\ Says(k, "chat")
     \/ tracker[k] = "arrival" /\ GoTo(k, "flush")
        /\ Says(k, IF k \in Inbound THEN "incoming" ELSE "ringing")
  /\ TrackOnly

-----------------------------------------------------------------------------
(* The end of a call: end, AbortChannel and finish.                         *)

\* endOnce.
FinishOf(ks) == finisher' = [k \in Calls |->
  IF k \in ks /\ finisher[k] = "none" THEN "stream" ELSE finisher[k]]

\* Remove tells whoever comes second that somebody else has the call.
\* Mutant: the call stays in the registry.
RemoveNothing(k) == UNCHANGED registry /\ FinishOf({k})
Remove(k) == registry' = registry \ {k} /\ FinishOf({k})

End(k) == IF k \in registry THEN Remove(k) ELSE UNCHANGED <<registry, finisher>>

\* meowcaller ends the call and runs the OnEnd it has: before subscribe that one
\* only notes the end.
Over(k) ==
  /\ Running /\ live[k] = "on" /\ live' = [live EXCEPT ![k] = "over"]
  /\ IF tracker[k] \in {"hooked", "inserted"}
     THEN early' = [early EXCEPT ![k] = TRUE] /\ UNCHANGED ending
     ELSE ending' = ending \cup {k} /\ UNCHANGED early
  /\ Free /\ Quiet /\ UNCHANGED <<tracker, registry, finisher>> /\ TrackFrame

OnEnd(k) ==
  /\ Running /\ k \in ending /\ ending' = ending \ {k} /\ End(k)
  /\ Free /\ Quiet /\ UNCHANGED <<live, tracker, early>> /\ TrackFrame

\* flushEarlyEnd. Mutant: an end noted while the call was wired is forgotten.
ForgetEarlyEnd(k) == UNCHANGED <<registry, finisher>>
FlushEarlyEnd(k) == IF early[k] THEN End(k) ELSE UNCHANGED <<registry, finisher>>

Flush(k) ==
  /\ Running /\ tracker[k] = "flush" /\ GoTo(k, "done") /\ FlushEarlyEnd(k)
  /\ Free /\ Quiet /\ TrackFrame /\ UNCHANGED <<live, early, ending>>

\* The session of the channel is over (callsAreDead).
\* Mutant: a call that is still being wired is taken too.
CallsOf(c) == {k \in registry : ChannelOf[k] = c}

AbortChannel(c) ==
  /\ phase = "up" /\ Use("abort")
  /\ registry' = registry \ CallsOf(c) /\ FinishOf(CallsOf(c))
  /\ Quiet /\ UNCHANGED <<live, tracker, early, ending>> /\ TrackFrame

FinishFrame == UNCHANGED <<live, tracker, early, ending, registry, command, taken, phase>>

FinishTo(k, step) == finisher' = [finisher EXCEPT ![k] = step]

\* finishStream, then the stream is closed (and the outbound audio, module
\* CallAudio); setStream refuses from here on.
CloseStream(o) == operator' = [x \in Operators |->
  IF x = o THEN [operator[x] EXCEPT !.open = FALSE] ELSE operator[x]]

FinishStream(k) ==
  /\ Running /\ finisher[k] = "stream" /\ FinishTo(k, "publish")
  /\ stream' = [stream EXCEPT ![k] = NoOperator] /\ CloseStream(stream[k])
  /\ Free /\ Quiet /\ UNCHANGED upload /\ FinishFrame

\* The end is published, and the upload started without waiting for it.
StartsUpload(k) == k \in Recorded

FinishPublish(k) ==
  /\ Running /\ finisher[k] = "publish" /\ FinishTo(k, "done") /\ Says(k, "ended")
  /\ upload' = [upload EXCEPT ![k] = IF StartsUpload(k) THEN "running" ELSE @]
  /\ Free /\ UNCHANGED <<stream, operator>> /\ FinishFrame

\* The upload succeeds or fails, and says so if there was anything to record.
Upload(k) ==
  /\ Running /\ upload[k] = "running" /\ upload' = [upload EXCEPT ![k] = "over"]
  /\ Free /\ Quiet
  /\ UNCHANGED <<finisher, stream, operator>> /\ FinishFrame

-----------------------------------------------------------------------------
(* The media server: an operator is attached to a call.                     *)

Enter(o, step) == operator' = [operator EXCEPT ![o].step = step]
OperatorFrame ==
  /\ Free /\ Quiet
  /\ UNCHANGED <<live, tracker, early, ending, registry, finisher, upload, command, taken, phase>>

\* The token is good, and AttachStream has found the call and made a stream.
Find(o) ==
  /\ Running /\ NoneDialled /\ operator[o].step = "none" /\ TokenFor[o] \in registry
  /\ operator' = [operator EXCEPT ![o].step = "found", ![o].open = TRUE]
  /\ UNCHANGED stream /\ OperatorFrame

\* setStream. Mutant: it does not look at finished.
NeverRefuses(k) == FALSE
Refuses(k) == finisher[k] \in {"publish", "done"}

SetStream(o) ==
  /\ Running /\ operator[o].step = "found"
  /\ IF Refuses(TokenFor[o])
     THEN operator' = [operator EXCEPT ![o].step = "done", ![o].open = FALSE] /\ UNCHANGED stream
     ELSE /\ operator' = [operator EXCEPT ![o].step = "closing", ![o].replaces = stream[TokenFor[o]]]
          /\ stream' = [stream EXCEPT ![TokenFor[o]] = o]
  /\ OperatorFrame

\* The stream that was there before is closed.
CloseReplaced(o) ==
  /\ Running /\ operator[o].step = "closing"
  /\ operator' = [x \in Operators |->
       CASE x = o -> [operator[o] EXCEPT !.step = "on", !.replaces = NoOperator]
         [] x # o /\ x = operator[o].replaces -> [operator[x] EXCEPT !.open = FALSE]
         [] OTHER -> operator[x]]
  /\ UNCHANGED stream /\ OperatorFrame

\* The connection ends, or its stream has been closed: detach.
Detach(o) ==
  /\ Running
  /\ \/ operator[o].step = "on"
        /\ operator' = [operator EXCEPT ![o].step = "clearing", ![o].open = FALSE] /\ UNCHANGED stream
     \/ /\ operator[o].step = "clearing" /\ Enter(o, "done")
        /\ stream' = IF stream[TokenFor[o]] = o THEN [stream EXCEPT ![TokenFor[o]] = NoOperator] ELSE stream
  /\ OperatorFrame

-----------------------------------------------------------------------------
(* CallHandler: one command at a time.                                      *)

CommandFrame == UNCHANGED <<early, registry, finisher, stream, upload, operator, taken, phase>>

Consumes == phase = "up" /\ command = NoCommand /\ Use("command")

\* dial: meowcaller refuses, or Track takes over; it is acknowledged at the end.
Dial(k) ==
  /\ Consumes /\ NobodyWatches /\ k \notin Inbound /\ live[k] = "none"
  /\ live' = [live EXCEPT ![k] = "on"] /\ GoTo(k, "hooked")
  /\ command' = [step |-> "dial", call |-> k]
  /\ Quiet /\ UNCHANGED ending /\ CommandFrame

DialDone ==
  /\ Running /\ command.step = "dial" /\ tracker[command.call] = "done"
  /\ command' = NoCommand /\ Free
  /\ Quiet /\ UNCHANGED <<live, tracker, ending>> /\ CommandFrame

\* dispatchLive looks the call up, which the backend knows from its chat event;
\* a call that is gone is answered at once.
Look(k) ==
  /\ Consumes /\ Said(k, "chat")
  /\ command' = IF k \in registry THEN [step |-> "live", call |-> k] ELSE NoCommand
  /\ Quiet /\ UNCHANGED <<live, tracker, ending>> /\ CommandFrame

\* A hangup or reject that meowcaller takes ends the call, which calls OnEnd from a
\* goroutine of its own; any action can be refused, and others change nothing here.
Act ==
  /\ Running /\ command.step = "live" /\ command' = NoCommand /\ Free /\ Quiet
  /\ \/ UNCHANGED <<live, ending>>
     \/ /\ live[command.call] = "on"
        /\ live' = [live EXCEPT ![command.call] = "over"] /\ ending' = ending \cup {command.call}
  /\ UNCHANGED tracker /\ CommandFrame

-----------------------------------------------------------------------------
(* gateway.run: drain the consumer, AbortAll, WaitForRecordings.            *)

StopFrame == UNCHANGED <<live, tracker, early, ending, stream, operator, upload, events>>

Stop == phase = "up" /\ phase' = "draining" /\ Free
        /\ UNCHANGED <<registry, finisher, command, taken>> /\ StopFrame

\* The consumer has drained, or its deadline has passed.
AbortAll ==
  /\ phase = "draining" /\ (IF command = NoCommand THEN Free ELSE Use("timeout"))
  /\ phase' = "waiting" /\ taken' = registry /\ registry' = {} /\ FinishOf(registry)
  /\ UNCHANGED command /\ StopFrame

\* AbortAll has finished what it took, and then the uploads are over or late.
\* Mutant: the uploads are not waited for.
UploadsIgnored == TRUE
UploadsOver == \A k \in Calls : upload[k] # "running"
AllFinished == \A k \in taken : finisher[k] = "done"

Leave ==
  /\ phase = "waiting" /\ AllFinished /\ (IF UploadsOver THEN Free ELSE Use("timeout"))
  /\ phase' = "down" /\ UNCHANGED <<registry, finisher, command, taken>> /\ StopFrame

Rest ==
  /\ phase = "down" \/ (phase = "up" /\ registry = {} /\ ending = {} /\ command = NoCommand)
  /\ UNCHANGED vars

-----------------------------------------------------------------------------
Init ==
  /\ live = [k \in Calls |-> "none"] /\ tracker = [k \in Calls |-> "none"]
  /\ early = [k \in Calls |-> FALSE] /\ ending = {} /\ registry = {}
  /\ finisher = [k \in Calls |-> "none"] /\ stream = [k \in Calls |-> NoOperator]
  /\ operator = [o \in Operators |-> [step |-> "none", open |-> FALSE, replaces |-> NoOperator]]
  /\ upload = [k \in Calls |-> "none"] /\ command = NoCommand
  /\ taken = {} /\ phase = "up" /\ spent = [b \in Budgets |-> 0]
  /\ events = [k \in Calls |-> <<>>]

Track(k)  == Insert(k) \/ Subscribe(k) \/ Announce(k) \/ Flush(k)
Finish(k) == FinishStream(k) \/ FinishPublish(k)
Serve(o)  == SetStream(o) \/ CloseReplaced(o)

Next ==
  \/ \E k \in Calls :
       \/ Incoming(k) \/ Track(k) \/ Over(k) \/ OnEnd(k) \/ Finish(k) \/ Upload(k)
       \/ Dial(k) \/ Look(k)
  \/ \E c \in Channels : AbortChannel(c)
  \/ \E o \in Operators : Serve(o) \/ Detach(o) \/ Find(o)
  \/ DialDone \/ Act \/ Stop \/ AbortAll \/ Leave \/ Rest

Spec == Init /\ [][Next]_vars

\* Goroutines run. Nobody has to call, hang up, connect or stop.
Fairness ==
  /\ \A k \in Calls : WF_vars(Track(k)) /\ WF_vars(OnEnd(k)) /\ WF_vars(Finish(k)) /\ WF_vars(Upload(k))
  /\ \A o \in Operators : WF_vars(Serve(o))
  /\ WF_vars(DialDone) /\ WF_vars(Act) /\ WF_vars(AbortAll) /\ WF_vars(Leave)

FairSpec == Spec /\ Fairness

-----------------------------------------------------------------------------
(* Properties.                                                              *)

\* A call is never in the registry once its end has begun: however the end
\* from WhatsApp, the early end, a dead session and a shutdown fall together,
\* exactly one of them takes it, and it is published as ended once.
EndsOnce ==
  \A k \in Calls :
    /\ finisher[k] # "none" => k \notin registry
    /\ Cardinality({i \in 1..Len(events[k]) : events[k][i] = "ended"}) <= 1

\* A finished call has no operator left: the stream it had, one that was replaced
\* and one that was being attached are all closed once their goroutines are through.
NoStreamLeftOpen ==
  \A o \in Operators : operator[o].open /\ operator[o].step = "on" =>
    \/ stream[TokenFor[o]] = o /\ finisher[TokenFor[o]] \in {"none", "stream"}
    \/ \E x \in Operators \ {o} : operator[x].replaces = o

\* What AbortAll took has been published as ended when the process leaves, and its
\* recording is stored unless the wait for it timed out.
StopReports ==
  phase = "down" => \A k \in taken :
    /\ Said(k, "ended")
    /\ upload[k] # "running" \/ spent["timeout"] > 0

\* A call that ends while it is being wired up, answered, hung up or aborted
\* leaves the registry and is published as ended.
EndReported ==
  \A k \in Calls : live[k] = "over" ~> (phase = "down" \/ Said(k, "ended"))
=============================================================================
