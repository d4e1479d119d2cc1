--------------------------- MODULE PairingSession ---------------------------
(***************************************************************************)
(* The pair requests of one channel: internal/session/manager.go, with     *)
(* PairHandler and followPairing of internal/gateway/gateway.go, and what  *)
(* the rest of the gateway does to the same channel meanwhile: a resume,   *)
(* a removal, a logout, a command that connects the session.               *)
(*                                                                         *)
(* runPairSession gives every request a goroutine; pair() starts a second  *)
(* one that turns the QR channel of whatsmeow into updates.  A pairing is  *)
(* named by the request that began it: a request begins at most one.  The  *)
(* pairing slot, shared by all channels, is taken here in one step or not. *)
(* DisconnectAll, at the end of a stop, is left to SendCommand.            *)
(***************************************************************************)
EXTENDS Naturals, Sequences

CONSTANTS
  Requests,
  Kinds,    \* the kinds of request that arrive
  Starts,   \* how the channel starts: "unpaired", "paired", "stored"
  MaxCodes, \* bound: codes one QR channel shows
  Limits,   \* bound: how many faults of each kind
  NoOne,    \* no pairing, no holder of the lock
  Remover   \* Remove as the holder of the lock

\* command: a send or an rpc that calls EnsureConnected; step: any call that fails.
Faults == {"step", "publish", "logout", "command", "resume", "remove", "stop"}

\* phone number or QR, importHistory, relinkDevice.
Kind == [code: BOOLEAN, history: BOOLEAN, relink: BOOLEAN]

ASSUME ConstantsAssumption ==
  /\ Kinds \subseteq Kind /\ Starts \subseteq {"unpaired", "paired", "stored"}
  /\ MaxCodes \in Nat /\ Limits \in [Faults -> Nat]
  /\ NoOne \notin Requests /\ Remover \notin Requests /\ Remover # NoOne

VARIABLES
  req,      \* PairHandler and pair(), per request
  pair,     \* the pairing a request began, and its goroutine
  pairing,  \* Manager.pairings
  lock,     \* holder of the channel's lock in Manager.locks
  session,  \* Manager.sessions: an index of clients, 0 for none
  clients,  \* every client the factory made
  linked,   \* devices linked with WhatsApp
  row,      \* device in the registry, 0 for none
  leaving,  \* clients whose LoggedOut event has still to drop them
  forgets,  \* handleSessionEvent has still to run forgetChannel
  resuming, \* client that Resume has registered and not yet connected, 0 for none
  removal,  \* Remove and the client it removes
  stopped,  \* the context of the pair consumer has ended
  spent     \* how many faults happened

reqVars     == <<req, pair>>
managerVars == <<pairing, lock, session>>
deviceVars  == <<clients, linked, row>>
eventVars   == <<leaving, forgets>>
otherVars   == <<resuming, removal>>
vars == <<reqVars, managerVars, deviceVars, eventVars, otherVars, stopped, spent>>

-----------------------------------------------------------------------------
Steps == {"new", "resolve", "find", "up", "mute", "logout", "drop", "forget", "fresh",
          "begin", "await", "open", "slot", "connect", "failing", "refuse",
          "follow", "say", "save", "store", "tell", "done"}

UnderLock == {"find", "up", "mute", "logout", "drop", "forget", "fresh"}

\* behind: the superseded pairing it waits for; dev: what persistSession read.
Request == [step: Steps, kind: Kind, client: Nat, behind: Requests \cup {NoOne},
            item: {"code", "connected", "error"}, dev: Nat, busy: BOOLEAN,
            answer: {"none", "acked", "dead"}]
NewRequest == [step |-> "new", kind |-> [code |-> FALSE, history |-> FALSE, relink |-> FALSE],
               client |-> 0, behind |-> NoOne, item |-> "code", dev |-> 0,
               busy |-> FALSE, answer |-> "none"]

\* kept: the code retained for a request that joins; codes: shown by the QR channel;
\* reported: the QR channel has given its success event.
Workers == {"none", "select", "offer", "ending", "dropping", "cutting", "closing", "done"}
Pairing == [worker: Workers, halted: BOOLEAN, kept: {"none", "valid", "stale"},
            item: {"code", "connected", "error"}, codes: 0..MaxCodes,
            scanned: BOOLEAN, reported: BOOLEAN]
NewPairing == [worker |-> "none", halted |-> FALSE, kept |-> "none", item |-> "code",
               codes |-> 0, scanned |-> FALSE, reported |-> FALSE]

\* jid: DeviceJID is set; up: the socket; muted: the flag of register;
\* echo: WhatsApp may still report the logout the gateway asked for.
Client == [dev: Nat, jid: BOOLEAN, up: BOOLEAN, muted: BOOLEAN, echo: BOOLEAN]
ClientOf(d, paired) == [dev |-> d, jid |-> paired, up |-> FALSE, muted |-> FALSE,
                        echo |-> FALSE]

Removal == [step: {"idle", "mute", "logout", "drop", "forget"}, client: Nat]

C(r)         == clients[req[r].client]
Relinks(k)   == k.history /\ k.relink
SameKind(k, l) == k.code = l.code /\ k.history = l.history

Goto(r, s)   == req' = [req EXCEPT ![r].step = s]
Accept(r, s) == req' = [req EXCEPT ![r].step = s, ![r].answer = "acked"]
Takes(r, c, s) == req' = [req EXCEPT ![r].step = s, ![r].client = c]
Work(r, w)   == pair' = [pair EXCEPT ![r].worker = w]
Opens(c)     == clients' = [clients EXCEPT ![c].up = TRUE]
Closes(c)    == clients' = [clients EXCEPT ![c].up = FALSE]

Fault(f) == spent[f] < Limits[f] /\ spent' = [spent EXCEPT ![f] = @ + 1]
NoFault  == UNCHANGED spent

\* A call under the context of the pair consumer fails.
Fails(f) == Fault(f) \/ (stopped /\ NoFault)

\* drop, the part under Manager.mu.
Forgotten(c)  == session' = IF session = c THEN 0 ELSE session

-----------------------------------------------------------------------------
(* pairingClient, under the lock of the channel.                            *)

\* PairHandler up to pair(); recordHistoryChoice may fail.
Arrive(r) ==
  /\ req[r].step = "new" /\ ~stopped
  /\ \E k \in Kinds :
       \/ req' = [req EXCEPT ![r].step = "resolve", ![r].kind = k] /\ NoFault
       \/ req' = [req EXCEPT ![r].step = "refuse", ![r].kind = k] /\ Fault("step")
  /\ UNCHANGED <<pair, managerVars, deviceVars, eventVars, otherVars, stopped>>

TakeLock(r) ==
  /\ req[r].step = "resolve" /\ lock = NoOne
  /\ lock' = r /\ Goto(r, "find")
  /\ UNCHANGED <<pair, pairing, session, deviceVars, eventVars, otherVars, stopped, spent>>

\* Manager.client: the registered client, or a new one.
Obtain(c) ==
  \/ session # 0 /\ c = session /\ UNCHANGED <<session, clients>>
  \/ /\ session = 0 /\ c = Len(clients) + 1 /\ session' = c
     /\ clients' = Append(clients, ClientOf(c, FALSE))

NoClient(r) ==
  /\ session = 0 /\ Fault("step")
  /\ lock' = NoOne /\ Goto(r, "refuse") /\ UNCHANGED <<session, clients>>

FindClient(r) ==
  /\ req[r].step = "find"
  /\ \/ NoClient(r)
     \/ /\ NoFault
        /\ \E c \in 1..(Len(clients) + 1) :
             /\ Obtain(c)
             /\ IF clients'[c].jid
                THEN Takes(r, c, "up") /\ UNCHANGED lock
                ELSE Takes(r, c, "begin") /\ lock' = NoOne
  /\ UNCHANGED <<pair, pairing, linked, row, eventVars, otherVars, stopped>>

\* ensureUp, and what follows when no relink is asked for: the channel is paired.
BringUp(r) ==
  /\ req[r].step = "up"
  /\ \/ /\ C(r).jid /\ Opens(req[r].client) /\ NoFault
        /\ \/ Relinks(req[r].kind) /\ Goto(r, "mute") /\ UNCHANGED lock
           \/ ~Relinks(req[r].kind) /\ Accept(r, "save") /\ lock' = NoOne
     \/ /\ \/ C(r).jid /\ Fault("step") /\ UNCHANGED clients
           \/ ~C(r).jid /\ NoFault /\ Opens(req[r].client)
        /\ Goto(r, "refuse") /\ lock' = NoOne
  /\ UNCHANGED <<pair, pairing, session, linked, row, eventVars, otherVars, stopped>>

\* mutedFlag(...).Store(true); another client's flag is thrown away.
\* Mutant: the old device keeps being heard.
StaysHeard(c) == UNCHANGED clients
Silence(c) == \/ session = c /\ clients' = [clients EXCEPT ![c].muted = TRUE]
              \/ session # c /\ UNCHANGED clients

Mute(r) ==
  /\ req[r].step = "mute" /\ Silence(req[r].client) /\ Goto(r, "logout")
  /\ UNCHANGED <<pair, managerVars, linked, row, eventVars, otherVars, stopped, spent>>

\* Logout asks WhatsApp: it needs a paired client that is connected.
CanLogOut(c) == clients[c].jid /\ clients[c].up
LogsOut(c) == clients' = [clients EXCEPT ![c].jid = FALSE, ![c].up = FALSE, ![c].echo = TRUE]

\* unlink gives the flag back when the logout fails.
\* Mutant: the flag stays set.
KeepsMuted(c) == UNCHANGED clients
Unmute(c) == clients' = [clients EXCEPT ![c].muted = FALSE]

Unlink(r) ==
  LET c == req[r].client IN
  /\ req[r].step = "logout"
  /\ \/ /\ CanLogOut(c) /\ NoFault
        /\ LogsOut(c) /\ linked' = linked \ {C(r).dev}
        /\ Goto(r, "drop") /\ UNCHANGED lock
     \/ /\ Fails("step") \/ (~CanLogOut(c) /\ NoFault)
        /\ Unmute(c) /\ Goto(r, "refuse") /\ lock' = NoOne /\ UNCHANGED linked
  /\ UNCHANGED <<pair, pairing, session, row, eventVars, otherVars, stopped>>

DropUnlinked(r) ==
  /\ req[r].step = "drop" /\ Forgotten(req[r].client)
  /\ Closes(req[r].client) /\ Goto(r, "forget")
  /\ UNCHANGED <<pair, pairing, lock, linked, row, eventVars, otherVars, stopped, spent>>

\* forgetUnlinkedDevice; an error of the registry is only logged.
ForgetDevice(r) ==
  /\ req[r].step = "forget" /\ Goto(r, "fresh")
  /\ \/ row' = 0 /\ NoFault
     \/ row' = row /\ Fault("step")
  /\ UNCHANGED <<pair, managerVars, clients, linked, eventVars, otherVars, stopped>>

FreshClient(r) ==
  /\ req[r].step = "fresh"
  /\ \/ NoClient(r)
     \/ /\ NoFault /\ lock' = NoOne
        /\ \E c \in 1..(Len(clients) + 1) :
             Obtain(c) /\ Takes(r, c, "begin")
  /\ UNCHANGED <<pair, pairing, linked, row, eventVars, otherVars, stopped>>

-----------------------------------------------------------------------------
(* beginPairing and the rest of pair().                                     *)

NewPair(r) ==
  /\ pairing = NoOne /\ pairing' = r
  /\ Goto(r, "open") /\ UNCHANGED pair

\* Mutant: a request of another kind does not wait for the one it halts.
Overtakes(r) ==
  /\ pairing # NoOne /\ ~SameKind(req[pairing].kind, req[r].kind)
  /\ pair' = [pair EXCEPT ![pairing].halted = TRUE]
  /\ pairing' = r /\ Goto(r, "open")
Supersede(r) ==
  /\ pairing # NoOne /\ ~SameKind(req[pairing].kind, req[r].kind)
  /\ pair' = [pair EXCEPT ![pairing].halted = TRUE]
  /\ req' = [req EXCEPT ![r].step = "await", ![r].behind = pairing]
  /\ UNCHANGED pairing

Join(r) ==
  /\ pairing # NoOne /\ SameKind(req[pairing].kind, req[r].kind)
  /\ req' = [req EXCEPT ![r].answer = "acked", ![r].item = "code",
               ![r].step = IF pair[pairing].kept = "valid" THEN "say" ELSE "follow"]
  /\ UNCHANGED <<pair, pairing>>

BeginPairing(r) ==
  /\ req[r].step = "begin"
  /\ NewPair(r) \/ Supersede(r) \/ Join(r)
  /\ UNCHANGED <<lock, session, deviceVars, eventVars, otherVars, stopped, spent>>

Await(r) ==
  /\ req[r].step = "await"
  /\ \/ pair[req[r].behind].worker = "done"
        /\ req' = [req EXCEPT ![r].step = "resolve", ![r].behind = NoOne]
     \/ stopped /\ Goto(r, "refuse")
  /\ UNCHANGED <<pair, managerVars, deviceVars, eventVars, otherVars, stopped, spent>>

\* endPairing (and release) run before the error is returned.
GiveUp(r, busy) ==
  /\ req' = [req EXCEPT ![r].step = "failing", ![r].busy = busy]
  /\ Work(r, "ending") /\ UNCHANGED clients

\* GetQRChannel wants a client that is neither connected nor paired.
OpenQR(r) ==
  /\ req[r].step = "open" /\ NoFault
  /\ IF C(r).up \/ C(r).jid THEN GiveUp(r, FALSE)
                            ELSE Goto(r, "slot") /\ UNCHANGED <<pair, clients>>
  /\ UNCHANGED <<managerVars, linked, row, eventVars, otherVars, stopped>>

\* deviceprops.Acquire.
AcquireSlot(r) ==
  /\ req[r].step = "slot"
  /\ \/ NoFault /\ Goto(r, "connect") /\ UNCHANGED <<pair, clients>>
     \/ Fault("step") /\ GiveUp(r, TRUE)
     \/ stopped /\ NoFault /\ GiveUp(r, FALSE)
  /\ UNCHANGED <<managerVars, linked, row, eventVars, otherVars, stopped>>

\* A client that is connected already gives ErrAlreadyConnected.
Connect(r) ==
  /\ req[r].step = "connect"
  /\ \/ /\ ~C(r).up /\ NoFault
        /\ Opens(req[r].client) /\ Accept(r, "follow") /\ Work(r, "select")
     \/ (IF C(r).up THEN NoFault ELSE Fault("step")) /\ GiveUp(r, FALSE)
  /\ UNCHANGED <<managerVars, linked, row, eventVars, otherVars, stopped>>

\* pair returns its error when endPairing is through.
Failing(r) ==
  /\ req[r].step = "failing" /\ pair[r].worker = "done" /\ Goto(r, "refuse")
  /\ UNCHANGED <<pair, managerVars, deviceVars, eventVars, otherVars, stopped, spent>>

\* PairHandler returns: a busy slot is acked, another error dead-lettered.
Refuse(r) ==
  /\ req[r].step = "refuse"
  /\ req' = [req EXCEPT ![r].step = "done",
               ![r].answer = IF req[r].busy THEN "acked" ELSE "dead"]
  /\ UNCHANGED <<pair, managerVars, deviceVars, eventVars, otherVars, stopped, spent>>

-----------------------------------------------------------------------------
(* followPairing.                                                           *)

FollowFrame == UNCHANGED <<managerVars, clients, linked, eventVars, otherVars, stopped>>

\* The unbuffered updates channel: the goroutine offers, the handler receives.
Receive(r) ==
  /\ req[r].step = "follow" /\ pair[r].worker = "offer"
  /\ req' = [req EXCEPT ![r].item = pair[r].item,
               ![r].step = IF pair[r].item = "connected" THEN "save" ELSE "say"]
  /\ Work(r, IF pair[r].item = "error" THEN "ending" ELSE "select")
  /\ NoFault /\ UNCHANGED row /\ FollowFrame

\* The updates channel is closed.
FollowEnds(r) ==
  /\ req[r].step = "follow" /\ pair[r].worker \in {"none", "done"} /\ Goto(r, "done")
  /\ NoFault /\ UNCHANGED <<pair, row>> /\ FollowFrame

\* PublishChannelQR, or publishChannelFailure, after which the handler returns.
Say(r) ==
  /\ req[r].step = "say"
  /\ \/ NoFault /\ Goto(r, IF req[r].item = "error" THEN "done" ELSE "follow")
     \/ Fails("publish") /\ Goto(r, "done")
  /\ UNCHANGED <<pair, row>> /\ FollowFrame

\* persistSession looks the session up and reads its jid.
ReadSession(r) ==
  /\ req[r].step = "save"
  /\ IF session # 0 /\ clients[session].jid
     THEN req' = [req EXCEPT ![r].step = "store", ![r].dev = clients[session].dev]
     ELSE Goto(r, "done")
  /\ NoFault /\ UNCHANGED <<pair, row>> /\ FollowFrame

SaveRow(r) ==
  /\ req[r].step = "store"
  /\ \/ NoFault /\ row' = req[r].dev /\ Goto(r, "tell")
     \/ Fails("step") /\ UNCHANGED row /\ Goto(r, "done")
  /\ UNCHANGED pair /\ FollowFrame

\* PublishChannelStatus "connected".
Tell(r) ==
  /\ req[r].step = "tell"
  /\ \/ NoFault /\ Goto(r, "follow")
     \/ Fails("publish") /\ Goto(r, "done")
  /\ UNCHANGED <<pair, row>> /\ FollowFrame

-----------------------------------------------------------------------------
(* The goroutine of a pairing.                                              *)

WorkFrame == UNCHANGED <<req, lock, linked, row, eventVars, otherVars, stopped>>
OnlyPair  == UNCHANGED <<pairing, session, clients>> /\ WorkFrame

\* A QR that whatsmeow shows; one that went stale in its buffer is kept, not
\* reported.
ShowQR(r) ==
  /\ pair[r].worker = "select" /\ ~req[r].kind.code /\ ~pair[r].reported
  /\ pair[r].codes < MaxCodes
  /\ LET shown == [pair[r] EXCEPT !.codes = @ + 1] IN
     \E p \in IF pairing # r THEN {shown}
              ELSE {[shown EXCEPT !.kept = "valid", !.item = "code", !.worker = "offer"],
                    [shown EXCEPT !.kept = "stale"]} :
       pair' = [pair EXCEPT ![r] = p]
  /\ NoFault /\ OnlyPair

\* The first QR of a pairing by phone number asks for its code.
AskCode(r) ==
  /\ pair[r].worker = "select" /\ req[r].kind.code /\ ~pair[r].reported
  /\ pair[r].codes < MaxCodes
  /\ LET asked == [pair[r] EXCEPT !.codes = @ + 1] IN
     \/ /\ pairing = r /\ pair[r].kept # "none" /\ NoFault
        /\ pair' = [pair EXCEPT ![r] = asked]
     \/ /\ ~(pairing = r /\ pair[r].kept # "none")
        /\ \/ /\ NoFault
              /\ pair' = [pair EXCEPT ![r] =
                   IF pairing # r THEN asked
                   ELSE [asked EXCEPT !.kept = "valid", !.item = "code", !.worker = "offer"]]
           \/ /\ Fails("step")
              /\ pair' = [pair EXCEPT ![r] = [asked EXCEPT !.item = "error", !.worker = "offer"]]
  /\ OnlyPair

\* clearQR, and the update that is offered.
Report(r, item) ==
  pair' = [pair EXCEPT ![r].item = item, ![r].worker = "offer",
             ![r].reported = (item = "connected"),
             ![r].kept = IF pairing = r THEN "none" ELSE @]

Success(r) ==
  /\ pair[r].worker = "select" /\ pair[r].scanned /\ ~pair[r].reported
  /\ Report(r, "connected") /\ NoFault /\ OnlyPair

\* A timeout or an error of the QR channel.
QRFails(r) ==
  /\ pair[r].worker = "select" /\ ~pair[r].scanned
  /\ Report(r, "error") /\ NoFault /\ OnlyPair

\* Mutant: a closed QR channel is selected again and again.
Spins(r) == UNCHANGED pair
QRClosed(r) == Work(r, "ending")

\* The QR channel is closed, or the pairing is stopped.
WorkEnds(r) ==
  /\ \/ pair[r].worker = "select" /\ pair[r].reported /\ QRClosed(r)
     \/ /\ pair[r].worker \in {"select", "offer"} /\ (pair[r].halted \/ stopped)
        /\ Work(r, "ending")
  /\ NoFault /\ OnlyPair

\* endPairing.
Unregister(r) == pairing' = IF pairing = r THEN NoOne ELSE pairing

EndPairing(r) ==
  /\ pair[r].worker = "ending" /\ Unregister(r) /\ Work(r, "dropping")
  /\ NoFault /\ UNCHANGED <<session, clients>> /\ WorkFrame

\* Mutant: the client of a pairing that failed stays the channel's session.
KeepsClient(r) == Work(r, "closing") /\ UNCHANGED session
DropClient(r) ==
  IF C(r).jid THEN Work(r, "closing") /\ UNCHANGED session
              ELSE Work(r, "cutting") /\ Forgotten(req[r].client)

DropUnpaired(r) ==
  /\ pair[r].worker = "dropping" /\ DropClient(r)
  /\ NoFault /\ UNCHANGED <<pairing, clients>> /\ WorkFrame

CutClient(r) ==
  /\ pair[r].worker = "cutting" /\ Work(r, "closing") /\ Closes(req[r].client)
  /\ NoFault /\ UNCHANGED <<pairing, session>> /\ WorkFrame

\* release, close(updates) and close(p.done).
CloseDone(r) ==
  /\ pair[r].worker = "closing" /\ Work(r, "done") /\ NoFault /\ OnlyPair

-----------------------------------------------------------------------------
(* WhatsApp, the clock and the rest of the gateway.                         *)

EnvFrame == UNCHANGED <<req, pairing>>

\* The phone takes a code that was shown.
Scan(r) ==
  /\ pair[r].worker \in {"select", "offer"} /\ pair[r].codes > 0 /\ ~pair[r].scanned
  /\ pair[r].item # "error" /\ C(r).up /\ ~C(r).jid
  /\ pair' = [pair EXCEPT ![r].scanned = TRUE]
  /\ clients' = [clients EXCEPT ![req[r].client].jid = TRUE]
  /\ linked' = linked \cup {C(r).dev}
  /\ EnvFrame /\ UNCHANGED <<lock, session, row, eventVars, otherVars, stopped, spent>>

\* A retained QR outlives its lifetime.
Expire(r) ==
  /\ pair[r].kept = "valid" /\ ~req[r].kind.code
  /\ pair' = [pair EXCEPT ![r].kept = "stale"]
  /\ EnvFrame /\ UNCHANGED <<lock, session, deviceVars, eventVars, otherVars, stopped, spent>>

\* The handler of register gets a LoggedOut event of client c.
Heard(c) ==
  IF clients[c].muted THEN UNCHANGED eventVars
                      ELSE leaving' = leaving \cup {c} /\ forgets' = TRUE

Unlinks(c) == clients' = [clients EXCEPT ![c].jid = FALSE, ![c].up = FALSE]

\* The phone unlinks the device.
LoggedOut(c) ==
  /\ Fault("logout") /\ clients[c].jid /\ clients[c].up /\ Unlinks(c)
  /\ linked' = linked \ {clients[c].dev} /\ Heard(c)
  /\ EnvFrame /\ UNCHANGED <<pair, lock, session, row, otherVars, stopped>>

\* WhatsApp reports the logout that unlink or Remove asked for.
EchoLogout(c) ==
  /\ clients[c].echo /\ clients' = [clients EXCEPT ![c].echo = FALSE] /\ Heard(c)
  /\ EnvFrame /\ UNCHANGED <<pair, lock, session, linked, row, otherVars, stopped, spent>>

\* go m.drop(...)
DropLoggedOut(c) ==
  /\ c \in leaving /\ leaving' = leaving \ {c} /\ Forgotten(c) /\ Closes(c)
  /\ EnvFrame /\ UNCHANGED <<pair, lock, linked, row, forgets, otherVars, stopped, spent>>

\* forgetChannel; an error of the registry is only logged.
ForgetChannel ==
  /\ forgets /\ forgets' = FALSE
  /\ (row' = 0 /\ NoFault) \/ (row' = row /\ Fault("step"))
  /\ EnvFrame /\ UNCHANGED <<pair, lock, session, clients, linked, leaving, otherVars, stopped>>

\* EnsureConnected, called by a command of the channel.
EnsureConnected ==
  /\ Fault("command") /\ session # 0 /\ ~clients[session].up /\ Opens(session)
  /\ EnvFrame /\ UNCHANGED <<pair, lock, session, linked, row, eventVars, otherVars, stopped>>

\* Resume: the factory has a device only while it is linked.
Resume ==
  /\ Fault("resume") /\ session = 0 /\ resuming = 0 /\ row \in linked
  /\ clients' = Append(clients, ClientOf(row, TRUE))
  /\ session' = Len(clients) + 1 /\ resuming' = Len(clients) + 1
  /\ EnvFrame /\ UNCHANGED <<pair, lock, linked, row, eventVars, removal, stopped>>

ResumeConnects ==
  /\ resuming # 0 /\ resuming' = 0
  /\ \/ NoFault /\ ~clients[resuming].up /\ Opens(resuming) /\ UNCHANGED session
     \/ /\ Fault("step") \/ (clients[resuming].up /\ NoFault)
        /\ Forgotten(resuming) /\ Closes(resuming)
  /\ EnvFrame /\ UNCHANGED <<pair, lock, linked, row, eventVars, removal, stopped>>

RemoveStep(from, to) ==
  /\ removal.step = from /\ removal' = [removal EXCEPT !.step = to]
  /\ EnvFrame /\ UNCHANGED <<pair, eventVars, resuming, stopped>>

\* Remove, called by removeChannel; the session is read under Manager.mu.
Remove ==
  /\ removal.step = "idle" /\ lock = NoOne /\ Fault("remove")
  /\ lock' = IF session = 0 THEN NoOne ELSE Remover
  /\ removal' = [step |-> IF session = 0 THEN "forget" ELSE "mute", client |-> session]
  /\ EnvFrame /\ UNCHANGED <<pair, session, deviceVars, eventVars, resuming, stopped>>

RemoveMutes ==
  /\ RemoveStep("mute", "logout") /\ Silence(removal.client)
  /\ NoFault /\ UNCHANGED <<lock, session, linked, row>>

RemoveLogsOut ==
  LET c == removal.client IN
  /\ RemoveStep("logout", "drop")
  /\ \/ /\ CanLogOut(c) /\ NoFault
        /\ LogsOut(c) /\ linked' = linked \ {clients[c].dev}
     \/ (Fault("step") \/ (~CanLogOut(c) /\ NoFault)) /\ UNCHANGED <<clients, linked>>
  /\ UNCHANGED <<lock, session, row>>

RemoveDrops ==
  /\ RemoveStep("drop", "forget") /\ Forgotten(removal.client) /\ Closes(removal.client)
  /\ lock' = NoOne /\ NoFault /\ UNCHANGED <<linked, row>>

RemoveForgets ==
  /\ RemoveStep("forget", "idle")
  /\ (row' = 0 /\ NoFault) \/ (row' = row /\ Fault("step"))
  /\ UNCHANGED <<lock, session, clients, linked>>

Stop ==
  /\ ~stopped /\ Fault("stop") /\ stopped' = TRUE
  /\ EnvFrame /\ UNCHANGED <<pair, lock, session, deviceVars, eventVars, otherVars>>

-----------------------------------------------------------------------------
\* The channel has no device; one that is connected or not; or only a stored
\* one, whose resume failed at boot.
Init ==
  /\ req = [r \in Requests |-> NewRequest]
  /\ pair = [r \in Requests |-> NewPairing]
  /\ pairing = NoOne /\ lock = NoOne
  /\ \/ "unpaired" \in Starts /\ session = 0 /\ clients = <<>> /\ linked = {} /\ row = 0
     \/ /\ "paired" \in Starts /\ session = 1 /\ linked = {1} /\ row = 1
        /\ \E up \in BOOLEAN : clients = <<[ClientOf(1, TRUE) EXCEPT !.up = up]>>
     \/ /\ "stored" \in Starts /\ session = 0 /\ linked = {1} /\ row = 1
        /\ clients = <<ClientOf(1, TRUE)>>
  /\ leaving = {} /\ forgets = FALSE
  /\ resuming = 0 /\ removal = [step |-> "idle", client |-> 0]
  /\ stopped = FALSE /\ spent = [f \in Faults |-> 0]

Resolve(r) == \/ TakeLock(r) \/ FindClient(r) \/ BringUp(r) \/ Mute(r) \/ Unlink(r)
              \/ DropUnlinked(r) \/ ForgetDevice(r) \/ FreshClient(r)

OpenPairing(r) == \/ BeginPairing(r) \/ Await(r) \/ OpenQR(r) \/ AcquireSlot(r)
                  \/ Connect(r) \/ Failing(r) \/ Refuse(r)

Follow(r) == \/ Receive(r) \/ FollowEnds(r) \/ Say(r) \/ ReadSession(r) \/ SaveRow(r)
             \/ Tell(r)

WorkerStep(r) == \/ ShowQR(r) \/ AskCode(r) \/ Success(r) \/ QRFails(r) \/ WorkEnds(r)
                 \/ EndPairing(r) \/ DropUnpaired(r) \/ CutClient(r) \/ CloseDone(r)

Events == \/ \E c \in DOMAIN clients : LoggedOut(c) \/ EchoLogout(c) \/ DropLoggedOut(c)
          \/ ForgetChannel \/ EnsureConnected \/ Resume \/ ResumeConnects \/ Stop
          \/ Remove \/ RemoveMutes \/ RemoveLogsOut \/ RemoveDrops \/ RemoveForgets

Quiet == /\ \A r \in Requests : req[r].step \in {"new", "done"}
                                /\ pair[r].worker \in {"none", "done"}
         /\ leaving = {} /\ ~forgets /\ resuming = 0 /\ removal.step = "idle"

\* Nothing is left to do.
Finished == Quiet /\ UNCHANGED vars

Next == \/ \E r \in Requests : \/ Arrive(r) \/ Resolve(r) \/ OpenPairing(r) \/ Follow(r)
                               \/ WorkerStep(r) \/ Scan(r) \/ Expire(r)
        \/ Events \/ Finished

Spec == Init /\ [][Next]_vars

\* Goroutines run, the wait for the slot is bounded, the codes of a QR channel
\* run out and a scan is reported.
FairSpec ==
  /\ Spec
  /\ \A r \in Requests : /\ WF_vars(Resolve(r)) /\ WF_vars(OpenPairing(r))
                         /\ WF_vars(Follow(r)) /\ WF_vars(WorkerStep(r))
  /\ WF_vars(ResumeConnects) /\ WF_vars(RemoveMutes) /\ WF_vars(RemoveLogsOut)
  /\ WF_vars(RemoveDrops) /\ WF_vars(RemoveForgets)

-----------------------------------------------------------------------------
\* Types of the variables of Manager, of the handlers and of the goroutines; the
\* lock of the channel is held from pairingClient's first line to its return, on
\* every path, and by Remove.
TypeOK ==
  /\ req \in [Requests -> Request] /\ pair \in [Requests -> Pairing]
  /\ pairing \in Requests \cup {NoOne} /\ lock \in Requests \cup {NoOne, Remover}
  /\ clients \in Seq(Client) /\ session \in 0..Len(clients)
  /\ linked \in SUBSET Nat /\ row \in Nat
  /\ leaving \in SUBSET DOMAIN clients /\ forgets \in BOOLEAN
  /\ resuming \in 0..Len(clients)
  /\ removal \in Removal /\ removal.client \in 0..Len(clients)
  /\ \A r \in Requests : /\ req[r].client \in 0..Len(clients)
                         /\ lock = r <=> req[r].step \in UnderLock
                         /\ req[r].step = "await" => req[r].behind \in Requests
  /\ lock = Remover <=> removal.step \in {"mute", "logout", "drop"}
  /\ stopped \in BOOLEAN /\ spent \in [Faults -> Nat]

Live(r) == \/ req[r].step \in {"open", "slot", "connect"}
           \/ pair[r].worker \in {"select", "offer"}

\* One pairing of a channel runs at a time, whatever requests arrive, join and
\* supersede one another: beginPairing, pair and endPairing never let two of
\* them open a QR channel, wait for the slot or show codes together.
OneAtATime == \A r, s \in Requests : Live(r) /\ Live(s) => r = s

\* While nobody holds the lock of the channel, the events of its session are
\* heard: an unlink that fails gives the device its events back, and a client
\* that stays muted is no longer the session (unlink and Remove).
SessionIsHeard == lock = NoOne /\ session # 0 => ~clients[session].muted

\* Replacing the device of a channel does not forget the channel, unless a resume
\* raced it: only a logout by the phone makes handleSessionEvent run forgetChannel;
\* the events of the logout that unlink or Remove asks for are dropped.  A resume
\* that fails drops the client, and with it the flag that unlink should set. So does
\* a pairing that fails, and if another one has the same client and the phone takes
\* its code, Remove logs a device out whose flag it did not set.
QuietUnlessResumed ==
  spent["resume"] = 0 /\ (forgets \/ leaving # {}) =>
    spent["logout"] > 0 \/ (spent["remove"] > 0 /\ \E r \in Requests : pair[r].scanned)

\* A relink that gave its flag back: a logout by the phone came while it was muted.
RelinkFailed == \E r \in Requests : Relinks(req[r].kind) /\ req[r].answer = "dead"

\* When everything is over, a client that some pairing ran with and that is still the
\* session of the channel is a paired device: a pairing that timed out, failed or was
\* superseded takes its client with it, and a logout by the phone is not lost, unless
\* it fell into a relink that failed (endPairing, drop and unlink).
NoSessionLeft ==
  Quiet => \A r \in Requests :
    pair[r].worker = "done" /\ session # 0 /\ session = req[r].client =>
      C(r).jid \/ RelinkFailed

\* Every pairing is taken out of Manager.pairings and closes done, or the next
\* request joins it and never sees a code.
PairingsEnd == \A r \in Requests : pair[r].worker # "none" ~> pair[r].worker = "done"

=============================================================================
