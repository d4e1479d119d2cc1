------------------------ MODULE PairingSessionProofs ------------------------
(***************************************************************************)
(* TypeOK, OneAtATime, SessionIsHeard, NoSessionLeft and                   *)
(* QuietUnlessResumed of PairingSession for any number of requests, kinds, *)
(* starts and faults.                                                      *)
(***************************************************************************)
EXTENDS PairingSession, SequenceTheorems, TLAPS

-----------------------------------------------------------------------------
(* The goroutines keep their type.                                          *)

LEMMA WorkTyped ==
  ASSUME pair \in [Requests -> Pairing], NEW r \in Requests, NEW w \in Workers, Work(r, w)
  PROVE  pair' \in [Requests -> Pairing]
<1>1. \A p \in Pairing : [p EXCEPT !.worker = w] \in Pairing
  BY DEF Pairing
<1>. QED BY <1>1 DEF Work

LEMMA ShowQRTyped ==
  ASSUME pair \in [Requests -> Pairing], NEW r \in Requests, ShowQR(r)
  PROVE  pair' \in [Requests -> Pairing]
<1>. DEFINE shown == [pair[r] EXCEPT !.codes = @ + 1]
<1>1. shown \in Pairing
  BY ConstantsAssumption DEF ShowQR, Pairing
<1>2. PICK p : pair' = [pair EXCEPT ![r] = p] /\ p \in
        {shown, [shown EXCEPT !.kept = "valid", !.item = "code", !.worker = "offer"],
         [shown EXCEPT !.kept = "stale"]}
  BY Zenon DEF ShowQR
<1>. HIDE DEF shown
<1>3. [shown EXCEPT !.kept = "valid", !.item = "code", !.worker = "offer"] \in Pairing
  BY <1>1 DEF Pairing, Workers
<1>4. [shown EXCEPT !.kept = "stale"] \in Pairing
  BY <1>1 DEF Pairing
<1>. QED BY <1>1, <1>2, <1>3, <1>4

LEMMA AskCodeTyped ==
  ASSUME pair \in [Requests -> Pairing], NEW r \in Requests, AskCode(r)
  PROVE  pair' \in [Requests -> Pairing]
<1>. DEFINE asked == [pair[r] EXCEPT !.codes = @ + 1]
<1>1. asked \in Pairing
  BY ConstantsAssumption DEF AskCode, Pairing
<1>2. PICK p : pair' = [pair EXCEPT ![r] = p] /\ p \in
        {asked, [asked EXCEPT !.kept = "valid", !.item = "code", !.worker = "offer"],
         [asked EXCEPT !.item = "error", !.worker = "offer"]}
  BY Zenon DEF AskCode
<1>. HIDE DEF asked
<1>3. [asked EXCEPT !.kept = "valid", !.item = "code", !.worker = "offer"] \in Pairing
  BY <1>1 DEF Pairing, Workers
<1>4. [asked EXCEPT !.item = "error", !.worker = "offer"] \in Pairing
  BY <1>1 DEF Pairing, Workers
<1>. QED BY <1>1, <1>2, <1>3, <1>4

LEMMA PairTyped ==
  ASSUME pair \in [Requests -> Pairing], Next
  PROVE  pair' \in [Requests -> Pairing]
<1>. USE DEF Workers
<1>1. ASSUME NEW r \in Requests, Arrive(r) \/ Resolve(r) \/ (Follow(r) /\ ~Receive(r))
      PROVE  pair' = pair
  BY <1>1 DEF Arrive, Resolve, TakeLock, FindClient, BringUp, Mute, Unlink, DropUnlinked,
     ForgetDevice, FreshClient, Follow, FollowEnds, Say, ReadSession, SaveRow, Tell
<1>2. ASSUME NEW r \in Requests, BeginPairing(r)
      PROVE  pair' \in [Requests -> Pairing]
  <2>1. CASE pair' = pair
    BY <2>1
  <2>2. CASE pair' = [pair EXCEPT ![pairing].halted = TRUE]
    <3>1. \A x \in Pairing : [x EXCEPT !.halted = TRUE] \in Pairing
      BY DEF Pairing
    <3>. QED BY <2>2, <3>1
  <2>. QED BY <1>2, <2>1, <2>2 DEF BeginPairing, NewPair, Supersede, Join
<1>3. ASSUME NEW r \in Requests, Await(r) \/ Failing(r) \/ Refuse(r)
      PROVE  pair' = pair
  BY <1>3 DEF Await, Failing, Refuse
<1>4. ASSUME NEW r \in Requests, OpenQR(r) \/ AcquireSlot(r) \/ Connect(r)
      PROVE  pair' = pair \/ Work(r, "ending") \/ Work(r, "select")
  BY <1>4 DEF OpenQR, AcquireSlot, Connect, GiveUp
<1>5. ASSUME NEW r \in Requests, Receive(r)
      PROVE  Work(r, "ending") \/ Work(r, "select")
  BY <1>5 DEF Receive
<1>6. ASSUME NEW r \in Requests, Success(r) \/ QRFails(r)
      PROVE  pair' \in [Requests -> Pairing]
  <2>. DEFINE told(i, b, k) == [pair[r] EXCEPT !.item = i, !.worker = "offer", !.reported = b,
                                              !.kept = k]
  <2>1. ASSUME NEW i \in {"connected", "error"}, NEW b \in BOOLEAN,
               NEW k \in {"none", "valid", "stale"}
        PROVE  told(i, b, k) \in Pairing
    <3>. pair[r] \in Pairing
      OBVIOUS
    <3>. QED BY DEF Pairing
  <2>2. pair[r].kept \in {"none", "valid", "stale"}
    BY DEF Pairing
  <2>3. PICK i \in {"connected", "error"} : Report(r, i)
    BY <1>6 DEF Success, QRFails
  <2>4. pair' = [pair EXCEPT ![r] =
                   told(i, i = "connected", IF pairing = r THEN "none" ELSE pair[r].kept)]
    BY <2>3, Zenon DEF Report
  <2>. HIDE DEF told
  <2>. QED BY <2>1, <2>2, <2>4
<1>7. ASSUME NEW r \in Requests, WorkEnds(r) \/ EndPairing(r) \/ DropUnpaired(r)
                                  \/ CutClient(r) \/ CloseDone(r)
      PROVE  \E w \in Workers : Work(r, w)
  BY <1>7 DEF WorkEnds, QRClosed, EndPairing, DropUnpaired, DropClient, CutClient, CloseDone
<1>8. ASSUME NEW r \in Requests, Scan(r) \/ Expire(r)
      PROVE  pair' \in [Requests -> Pairing]
  <2>1. CASE pair' = [pair EXCEPT ![r].scanned = TRUE]
    <3>1. \A x \in Pairing : [x EXCEPT !.scanned = TRUE] \in Pairing
      BY DEF Pairing
    <3>. QED BY <2>1, <3>1
  <2>2. CASE pair' = [pair EXCEPT ![r].kept = "stale"]
    <3>1. \A x \in Pairing : [x EXCEPT !.kept = "stale"] \in Pairing
      BY DEF Pairing
    <3>. QED BY <2>2, <3>1
  <2>. QED BY <1>8, <2>1, <2>2 DEF Scan, Expire
<1>9. ASSUME Events \/ Finished
      PROVE  pair' = pair
  BY <1>9 DEF Events, LoggedOut, EchoLogout, DropLoggedOut, ForgetChannel, EnsureConnected,
     Resume, ResumeConnects, Stop, Remove, RemoveMutes, RemoveLogsOut, RemoveDrops,
     RemoveForgets, RemoveStep, Finished, vars, reqVars
<1>. QED
  BY <1>1, <1>2, <1>3, <1>4, <1>5, <1>6, <1>7, <1>8, <1>9, WorkTyped, ShowQRTyped, AskCodeTyped
     DEF Next, OpenPairing, Follow, WorkerStep

-----------------------------------------------------------------------------
(* The clients keep their type, and none is ever taken away.                *)

\* The clients stay the same ones.
SameClients == clients' \in Seq(Client) /\ Len(clients') = Len(clients)

\* Another record in place of the client c.
LEMMA ClientReplaced ==
  ASSUME clients \in Seq(Client), NEW c, NEW e, c \in 1..Len(clients) => e \in Client,
         clients' = [clients EXCEPT ![c] = e]
  PROVE  SameClients
<1>1. Len(clients) \in Nat /\ clients \in [1..Len(clients) -> Client]
  BY LenProperties
<1>2. clients' \in [1..Len(clients) -> Client]
  BY <1>1
<1>. QED BY <1>1, <1>2, IsASeq, LenProperties DEF SameClients

\* A change of fields of the client c.
LEMMA ClientChanged ==
  ASSUME clients \in Seq(Client), NEW c
  PROVE  /\ Opens(c) => SameClients
         /\ Closes(c) => SameClients
         /\ Silence(c) => SameClients
         /\ Unmute(c) => SameClients
         /\ LogsOut(c) => SameClients
         /\ clients' = [clients EXCEPT ![c].jid = TRUE] => SameClients
         /\ clients' = [clients EXCEPT ![c].echo = FALSE] => SameClients
         /\ Unlinks(c) => SameClients
         /\ clients' = clients => SameClients
<1>0. \A x \in Client, b \in BOOLEAN :
        /\ [x EXCEPT !.up = b] \in Client /\ [x EXCEPT !.muted = b] \in Client
        /\ [x EXCEPT !.jid = b] \in Client /\ [x EXCEPT !.echo = b] \in Client
  BY DEF Client
<1>1. c \in 1..Len(clients) => clients[c] \in Client
  BY LenProperties
<1>2. clients' = clients => SameClients
  BY DEF SameClients
<1>3. Opens(c) => SameClients
  BY <1>0, <1>1, ClientReplaced DEF Opens
<1>4. Closes(c) => SameClients
  BY <1>0, <1>1, ClientReplaced DEF Closes
<1>5. Silence(c) => SameClients
  BY <1>0, <1>1, <1>2, ClientReplaced DEF Silence
<1>6. Unmute(c) => SameClients
  BY <1>0, <1>1, ClientReplaced DEF Unmute
<1>7. LogsOut(c) => SameClients
  <2>. DEFINE e == [clients[c] EXCEPT !.jid = FALSE, !.up = FALSE, !.echo = TRUE]
  <2>1. c \in 1..Len(clients) => e \in Client
    BY <1>1 DEF Client
  <2>2. LogsOut(c) => clients' = [clients EXCEPT ![c] = e]
    BY Zenon DEF LogsOut
  <2>. HIDE DEF e
  <2>. QED BY <2>1, <2>2, ClientReplaced
<1>8. clients' = [clients EXCEPT ![c].jid = TRUE] => SameClients
  BY <1>0, <1>1, ClientReplaced
<1>9. clients' = [clients EXCEPT ![c].echo = FALSE] => SameClients
  BY <1>0, <1>1, ClientReplaced
<1>10. Unlinks(c) => SameClients
  <2>. DEFINE e == [clients[c] EXCEPT !.jid = FALSE, !.up = FALSE]
  <2>1. c \in 1..Len(clients) => e \in Client
    BY <1>1 DEF Client
  <2>2. Unlinks(c) => clients' = [clients EXCEPT ![c] = e]
    BY Zenon DEF Unlinks
  <2>. HIDE DEF e
  <2>. QED BY <2>1, <2>2, ClientReplaced
<1>. QED BY <1>2, <1>3, <1>4, <1>5, <1>6, <1>7, <1>8, <1>9, <1>10

\* A new client.
LEMMA ClientAdded ==
  ASSUME clients \in Seq(Client), NEW d \in Nat, NEW b \in BOOLEAN
  PROVE  /\ Append(clients, ClientOf(d, b)) \in Seq(Client)
         /\ Len(Append(clients, ClientOf(d, b))) = Len(clients) + 1
         /\ Len(clients) \in Nat
<1>1. ClientOf(d, b) \in Client
  BY DEF ClientOf, Client
<1>. QED BY <1>1, AppendProperties, LenProperties

LEMMA ClientsTyped ==
  ASSUME clients \in Seq(Client), row \in Nat, Next
  PROVE  /\ clients' \in Seq(Client)
         /\ Len(clients') = Len(clients) \/ Len(clients') = Len(clients) + 1
<1>. Len(clients) \in Nat
  BY LenProperties
<1>1. ASSUME NEW r \in Requests, FindClient(r) \/ FreshClient(r)
      PROVE  clients' = clients \/ \E c \in Nat : clients' = Append(clients, ClientOf(c, FALSE))
  <2>1. CASE NoClient(r)
    BY <2>1 DEF NoClient
  <2>2. CASE \E c \in 1..(Len(clients) + 1) : Obtain(c)
    <3>. PICK c \in 1..(Len(clients) + 1) : Obtain(c)
      BY <2>2
    <3>. c \in Nat
      OBVIOUS
    <3>. QED BY DEF Obtain
  <2>. QED BY <1>1, <2>1, <2>2 DEF FindClient, FreshClient
<1>2. ASSUME NEW r \in Requests, BringUp(r) \/ Mute(r) \/ Unlink(r) \/ DropUnlinked(r)
                                 \/ Connect(r) \/ CutClient(r) \/ Scan(r)
      PROVE  SameClients
  BY <1>2, ClientChanged
     DEF BringUp, Mute, Unlink, DropUnlinked, Connect, GiveUp, CutClient, Scan
<1>4. ASSUME NEW r \in Requests, Arrive(r) \/ TakeLock(r) \/ ForgetDevice(r) \/ BeginPairing(r)
               \/ Await(r) \/ OpenQR(r) \/ AcquireSlot(r) \/ Failing(r) \/ Refuse(r) \/ Follow(r)
               \/ (WorkerStep(r) /\ ~CutClient(r)) \/ Expire(r)
      PROVE  clients' = clients
  BY <1>4 DEF Arrive, TakeLock, ForgetDevice, BeginPairing, Await, OpenQR, GiveUp, AcquireSlot,
     Failing, Refuse, Follow, FollowFrame, Receive, FollowEnds, Say, ReadSession, SaveRow, Tell,
     WorkerStep, OnlyPair, ShowQR, AskCode, Success, QRFails, WorkEnds, EndPairing, DropUnpaired,
     CloseDone, Expire, deviceVars
<1>5. ASSUME NEW c \in DOMAIN clients, LoggedOut(c) \/ EchoLogout(c) \/ DropLoggedOut(c)
      PROVE  SameClients
  BY <1>5, ClientChanged DEF LoggedOut, EchoLogout, DropLoggedOut
<1>6. CASE Resume
  BY <1>6, ClientAdded DEF Resume
<1>7. ASSUME EnsureConnected \/ ResumeConnects \/ RemoveMutes \/ RemoveLogsOut \/ RemoveDrops
      PROVE  SameClients
  BY <1>7, ClientChanged
     DEF EnsureConnected, ResumeConnects, RemoveMutes, RemoveLogsOut, RemoveDrops
<1>8. ASSUME ForgetChannel \/ Stop \/ Remove \/ RemoveForgets \/ Finished
      PROVE  clients' = clients
  BY <1>8 DEF ForgetChannel, Stop, Remove, RemoveForgets, Finished, vars, deviceVars
<1>. QED
  BY <1>1, <1>2, <1>4, <1>5, <1>6, <1>7, <1>8, ClientAdded
     DEF SameClients, Next, Resolve, OpenPairing, WorkerStep, Events

-----------------------------------------------------------------------------
(* The steps of a request: where each action takes it, and what becomes of  *)
(* the lock and of its client.                                              *)

\* Only the request r moves, to the step s.
Moves(r, s) ==
  /\ req' \in [Requests -> Request]
  /\ \A t \in Requests \ {r} : req'[t] = req[t]
  /\ req'[r].step = s

Keeps(r, s) == Moves(r, s) /\ req'[r].client = req[r].client
Gets(r, s)  == Moves(r, s) /\ req'[r].client \in 1..(Len(clients'))
Waits(r)    == Keeps(r, "await") /\ req'[r].behind \in Requests

\* Another record in place of the request r.
LEMMA RequestReplaced ==
  ASSUME req \in [Requests -> Request], NEW r \in Requests, NEW q \in Request,
         req' = [req EXCEPT ![r] = q]
  PROVE  Moves(r, q.step) /\ req'[r] = q
BY DEF Moves

LEMMA KeepsClientTo ==
  ASSUME req \in [Requests -> Request], NEW r \in Requests, NEW s \in Steps
  PROVE  /\ Goto(r, s) \/ Accept(r, s) => Keeps(r, s)
         /\ (\E k \in Kind : req' = [req EXCEPT ![r].step = s, ![r].kind = k]) => Keeps(r, s)
         /\ (\E b \in BOOLEAN : req' = [req EXCEPT ![r].step = s, ![r].busy = b]) => Keeps(r, s)
         /\ (\E d \in Nat : req' = [req EXCEPT ![r].step = s, ![r].dev = d]) => Keeps(r, s)
         /\ (\E a \in {"none", "acked", "dead"} : req' = [req EXCEPT ![r].step = s, ![r].answer = a]) => Keeps(r, s)
         /\ (req' = [req EXCEPT ![r].step = s, ![r].behind = NoOne]) => Keeps(r, s)
         /\ (\E i \in {"code", "connected", "error"} : req' = [req EXCEPT ![r].item = i, ![r].step = s]) => Keeps(r, s)
         /\ (req' = [req EXCEPT ![r].answer = "acked", ![r].item = "code", ![r].step = s]) => Keeps(r, s)
<1>a. req[r] \in Request
  OBVIOUS
<1>0. ASSUME Goto(r, s) PROVE Keeps(r, s)
  <2>. DEFINE q == [req[r] EXCEPT !.step = s]
  <2>1. q \in Request /\ q.step = s /\ q.client = req[r].client
    BY <1>a DEF Request
  <2>2. req' = [req EXCEPT ![r] = q]
    BY <1>0, Zenon DEF Goto
  <2>. HIDE DEF q
  <2>. QED BY <2>1, <2>2, RequestReplaced DEF Keeps
<1>1. ASSUME Accept(r, s)
      PROVE  Keeps(r, s)
  <2>. DEFINE q == [req[r] EXCEPT !.step = s, !.answer = "acked"]
  <2>1. q \in Request /\ q.step = s /\ q.client = req[r].client
    BY <1>a DEF Request
  <2>2. req' = [req EXCEPT ![r] = q]
    BY <1>1, Zenon DEF Accept
  <2>. HIDE DEF q
  <2>. QED BY <2>1, <2>2, RequestReplaced DEF Keeps
<1>2. ASSUME NEW k \in Kind, req' = [req EXCEPT ![r].step = s, ![r].kind = k]
      PROVE  Keeps(r, s)
  <2>. DEFINE q == [req[r] EXCEPT !.step = s, !.kind = k]
  <2>1. q \in Request /\ q.step = s /\ q.client = req[r].client
    BY <1>a DEF Request
  <2>2. req' = [req EXCEPT ![r] = q]
    BY <1>2, Zenon
  <2>. HIDE DEF q
  <2>. QED BY <2>1, <2>2, RequestReplaced DEF Keeps
<1>3. ASSUME NEW b \in BOOLEAN, req' = [req EXCEPT ![r].step = s, ![r].busy = b]
      PROVE  Keeps(r, s)
  <2>. DEFINE q == [req[r] EXCEPT !.step = s, !.busy = b]
  <2>1. q \in Request /\ q.step = s /\ q.client = req[r].client
    BY <1>a DEF Request
  <2>2. req' = [req EXCEPT ![r] = q]
    BY <1>3, Zenon
  <2>. HIDE DEF q
  <2>. QED BY <2>1, <2>2, RequestReplaced DEF Keeps
<1>4. ASSUME NEW d \in Nat, req' = [req EXCEPT ![r].step = s, ![r].dev = d]
      PROVE  Keeps(r, s)
  <2>. DEFINE q == [req[r] EXCEPT !.step = s, !.dev = d]
  <2>1. q \in Request /\ q.step = s /\ q.client = req[r].client
    BY <1>a DEF Request
  <2>2. req' = [req EXCEPT ![r] = q]
    BY <1>4, Zenon
  <2>. HIDE DEF q
  <2>. QED BY <2>1, <2>2, RequestReplaced DEF Keeps
<1>5. ASSUME NEW a \in {"none", "acked", "dead"}, req' = [req EXCEPT ![r].step = s, ![r].answer = a]
      PROVE  Keeps(r, s)
  <2>. DEFINE q == [req[r] EXCEPT !.step = s, !.answer = a]
  <2>1. q \in Request /\ q.step = s /\ q.client = req[r].client
    BY <1>a DEF Request
  <2>2. req' = [req EXCEPT ![r] = q]
    BY <1>5, Zenon
  <2>. HIDE DEF q
  <2>. QED BY <2>1, <2>2, RequestReplaced DEF Keeps
<1>6. ASSUME req' = [req EXCEPT ![r].step = s, ![r].behind = NoOne]
      PROVE  Keeps(r, s)
  <2>. DEFINE q == [req[r] EXCEPT !.step = s, !.behind = NoOne]
  <2>1. q \in Request /\ q.step = s /\ q.client = req[r].client
    BY <1>a DEF Request
  <2>2. req' = [req EXCEPT ![r] = q]
    BY <1>6, Zenon
  <2>. HIDE DEF q
  <2>. QED BY <2>1, <2>2, RequestReplaced DEF Keeps
<1>7. ASSUME NEW i \in {"code", "connected", "error"}, req' = [req EXCEPT ![r].item = i, ![r].step = s]
      PROVE  Keeps(r, s)
  <2>. DEFINE q == [req[r] EXCEPT !.item = i, !.step = s]
  <2>1. q \in Request /\ q.step = s /\ q.client = req[r].client
    BY <1>a DEF Request
  <2>2. req' = [req EXCEPT ![r] = q]
    BY <1>7, Zenon
  <2>. HIDE DEF q
  <2>. QED BY <2>1, <2>2, RequestReplaced DEF Keeps
<1>8. ASSUME req' = [req EXCEPT ![r].answer = "acked", ![r].item = "code", ![r].step = s]
      PROVE  Keeps(r, s)
  <2>. DEFINE q == [req[r] EXCEPT !.answer = "acked", !.item = "code", !.step = s]
  <2>1. q \in Request /\ q.step = s /\ q.client = req[r].client
    BY <1>a DEF Request
  <2>2. req' = [req EXCEPT ![r] = q]
    BY <1>8, Zenon
  <2>. HIDE DEF q
  <2>. QED BY <2>1, <2>2, RequestReplaced DEF Keeps
<1>. QED BY <1>0, <1>1, <1>2, <1>3, <1>4, <1>5, <1>6, <1>7, <1>8

LEMMA TakesClient ==
  ASSUME req \in [Requests -> Request], NEW r \in Requests, NEW s \in Steps, NEW c \in Nat,
         Takes(r, c, s)
  PROVE  Moves(r, s) /\ req'[r].client = c
<1>. DEFINE q == [req[r] EXCEPT !.step = s, !.client = c]
<1>1. q \in Request /\ q.step = s /\ q.client = c
  <2>. req[r] \in Request
    OBVIOUS
  <2>. QED BY DEF Request
<1>2. req' = [req EXCEPT ![r] = q]
  BY Zenon DEF Takes
<1>. HIDE DEF q
<1>. QED BY <1>1, <1>2, RequestReplaced

LEMMA Obtained ==
  ASSUME clients \in Seq(Client), session \in 0..Len(clients),
         NEW c \in 1..(Len(clients) + 1), Obtain(c)
  PROVE  c \in Nat /\ c \in 1..Len(clients')
<1>1. Len(clients) \in Nat
  BY LenProperties
<1>2. CASE session # 0 /\ c = session /\ clients' = clients
  BY <1>1, <1>2
<1>3. CASE c = Len(clients) + 1 /\ clients' = Append(clients, ClientOf(c, FALSE))
  BY <1>1, <1>3, ClientAdded
<1>. QED BY <1>2, <1>3 DEF Obtain

LEMMA FindMoves ==
  ASSUME req \in [Requests -> Request], clients \in Seq(Client), session \in 0..Len(clients),
         NEW r \in Requests, FindClient(r)
  PROVE  \/ Gets(r, "up") /\ lock' = lock
         \/ (Gets(r, "begin") \/ Keeps(r, "refuse")) /\ lock' = NoOne
<1>1. CASE NoClient(r)
  <2>1. Goto(r, "refuse") => Keeps(r, "refuse")
    BY KeepsClientTo DEF Steps
  <2>. QED BY <1>1, <2>1 DEF NoClient
<1>2. CASE ~NoClient(r)
  <2>1. PICK c \in 1..(Len(clients) + 1) :
          Obtain(c) /\ \/ Takes(r, c, "up") /\ UNCHANGED lock
                       \/ Takes(r, c, "begin") /\ lock' = NoOne
    BY <1>2 DEF FindClient
  <2>2. c \in Nat /\ c \in 1..Len(clients')
    BY <2>1, Obtained
  <2>3. \A s \in {"up", "begin"} : Takes(r, c, s) => Gets(r, s)
    BY <2>2, TakesClient DEF Gets, Steps
  <2>. QED BY <2>1, <2>3
<1>. QED BY <1>1, <1>2

LEMMA FreshMoves ==
  ASSUME req \in [Requests -> Request], clients \in Seq(Client), session \in 0..Len(clients),
         NEW r \in Requests, FreshClient(r)
  PROVE  (Gets(r, "begin") \/ Keeps(r, "refuse")) /\ lock' = NoOne
<1>1. CASE NoClient(r)
  <2>1. Goto(r, "refuse") => Keeps(r, "refuse")
    BY KeepsClientTo DEF Steps
  <2>. QED BY <1>1, <2>1 DEF NoClient
<1>2. CASE ~NoClient(r)
  <2>1. PICK c \in 1..(Len(clients) + 1) : Obtain(c) /\ Takes(r, c, "begin") /\ lock' = NoOne
    BY <1>2 DEF FreshClient
  <2>2. c \in Nat /\ c \in 1..Len(clients')
    BY <2>1, Obtained
  <2>. QED BY <2>1, <2>2, TakesClient DEF Gets, Steps
<1>. QED BY <1>1, <1>2

\* pairingClient.
LEMMA ResolveMoves ==
  ASSUME req \in [Requests -> Request], NEW r \in Requests
  PROVE  /\ TakeLock(r) => Keeps(r, "find") /\ lock = NoOne /\ lock' = r
         /\ BringUp(r) => \/ Keeps(r, "mute") /\ lock' = lock
                          \/ (Keeps(r, "save") \/ Keeps(r, "refuse")) /\ lock' = NoOne
         /\ Mute(r) => Keeps(r, "logout") /\ lock' = lock
         /\ Unlink(r) => \/ Keeps(r, "drop") /\ lock' = lock
                         \/ Keeps(r, "refuse") /\ lock' = NoOne
         /\ DropUnlinked(r) => Keeps(r, "forget") /\ lock' = lock
         /\ ForgetDevice(r) => Keeps(r, "fresh") /\ lock' = lock
<1>1. \A s \in {"find", "mute", "refuse", "logout", "drop", "forget", "fresh", "save"} :
        Goto(r, s) \/ Accept(r, s) => Keeps(r, s)
  BY KeepsClientTo DEF Steps
<1>. QED BY <1>1 DEF TakeLock, BringUp, Mute, Unlink, DropUnlinked, ForgetDevice, managerVars

\* The rest of pair(), and PairHandler before and after it.
LEMMA OpenMoves ==
  ASSUME req \in [Requests -> Request], NEW r \in Requests, pairing \in Requests \cup {NoOne}
  PROVE  /\ Arrive(r) => Keeps(r, "resolve") \/ Keeps(r, "refuse")
         /\ BeginPairing(r) => \/ Keeps(r, "open") /\ NewPair(r)
                               \/ Waits(r) /\ Supersede(r)
                               \/ (Keeps(r, "say") \/ Keeps(r, "follow")) /\ Join(r)
         /\ Await(r) => Keeps(r, "resolve") \/ Keeps(r, "refuse")
         /\ OpenQR(r) => Keeps(r, "slot") \/ Keeps(r, "failing")
         /\ AcquireSlot(r) => Keeps(r, "connect") \/ Keeps(r, "failing")
         /\ Connect(r) => Keeps(r, "follow") \/ Keeps(r, "failing")
         /\ Failing(r) => Keeps(r, "refuse")
         /\ Refuse(r) => Keeps(r, "done")
<1>0. \A s \in {"resolve", "open", "slot", "connect", "follow", "refuse"} :
        Goto(r, s) \/ Accept(r, s) => Keeps(r, s)
  BY KeepsClientTo DEF Steps
<1>1. ASSUME Arrive(r) PROVE Keeps(r, "resolve") \/ Keeps(r, "refuse")
  <2>1. PICK k \in Kind, s \in {"resolve", "refuse"} :
          req' = [req EXCEPT ![r].step = s, ![r].kind = k]
    BY <1>1, ConstantsAssumption DEF Arrive
  <2>2. s \in Steps
    BY DEF Steps
  <2>3. Keeps(r, s)
    BY <2>1, <2>2, KeepsClientTo
  <2>. QED BY <2>3
<1>2. ASSUME Supersede(r) PROVE Waits(r)
  <2>1. pairing \in Requests /\ req' = [req EXCEPT ![r].step = "await", ![r].behind = pairing]
    BY <1>2 DEF Supersede
  <2>2. req' \in [Requests -> Request]
    <3>. DEFINE q == [req[r] EXCEPT !.step = "await", !.behind = pairing]
    <3>1. req[r] \in Request
      OBVIOUS
    <3>2. q \in Request
      BY <2>1, <3>1 DEF Request, Steps
    <3>3. req' = [req EXCEPT ![r] = q]
      BY <2>1, Zenon
    <3>. HIDE DEF q
    <3>. QED BY <3>2, <3>3
  <2>3. \A t \in Requests \ {r} : req'[t] = req[t]
    BY <2>1
  <2>4. req'[r].step = "await" /\ req'[r].client = req[r].client /\ req'[r].behind = pairing
    BY <2>1 DEF Request
  <2>. QED BY <2>1, <2>2, <2>3, <2>4 DEF Waits, Keeps, Moves
<1>3. ASSUME Join(r) PROVE Keeps(r, "say") \/ Keeps(r, "follow")
  <2>1. \E s \in {"say", "follow"} :
          req' = [req EXCEPT ![r].answer = "acked", ![r].item = "code", ![r].step = s]
    BY <1>3 DEF Join
  <2>. QED BY <2>1, KeepsClientTo DEF Steps
<1>4. ASSUME Await(r) PROVE Keeps(r, "resolve") \/ Keeps(r, "refuse")
  <2>1. req' = [req EXCEPT ![r].step = "resolve", ![r].behind = NoOne] => Keeps(r, "resolve")
    BY KeepsClientTo DEF Steps
  <2>. QED BY <1>0, <1>4, <2>1 DEF Await
<1>5. \A busy \in BOOLEAN : GiveUp(r, busy) => Keeps(r, "failing")
  BY KeepsClientTo DEF GiveUp, Steps
<1>6. ASSUME Refuse(r) PROVE Keeps(r, "done")
  <2>1. \E a \in {"none", "acked", "dead"} :
          req' = [req EXCEPT ![r].step = "done", ![r].answer = a]
    BY <1>6 DEF Refuse
  <2>. QED BY <2>1, KeepsClientTo DEF Steps
<1>. QED
  BY <1>0, <1>1, <1>2, <1>3, <1>4, <1>5, <1>6
     DEF BeginPairing, NewPair, OpenQR, AcquireSlot, Connect, Failing

\* followPairing.
FollowSteps == {"follow", "say", "save", "store", "tell", "done"}

LEMMA FollowMoves ==
  ASSUME req \in [Requests -> Request], pair \in [Requests -> Pairing], NEW r \in Requests,
         clients \in Seq(Client), session \in 0..Len(clients), Follow(r)
  PROVE  \E s \in FollowSteps : Keeps(r, s)
<1>. FollowSteps \subseteq Steps
  BY DEF FollowSteps, Steps
<1>1. CASE Receive(r)
  <2>1. PICK s \in {"say", "save"}, i \in {"code", "connected", "error"} :
          req' = [req EXCEPT ![r].item = i, ![r].step = s]
    BY <1>1 DEF Receive, Pairing
  <2>. QED BY <2>1, KeepsClientTo DEF FollowSteps
<1>2. CASE ReadSession(r)
  <2>1. CASE session # 0 /\ req' = [req EXCEPT ![r].step = "store", ![r].dev = clients[session].dev]
    <3>1. clients[session].dev \in Nat
      <4>1. session \in 1..Len(clients) /\ clients \in [1..Len(clients) -> Client]
        BY <2>1, LenProperties
      <4>. QED BY <4>1 DEF Client
    <3>. QED BY <2>1, <3>1, KeepsClientTo DEF FollowSteps
  <2>. QED BY <1>2, <2>1, KeepsClientTo DEF ReadSession, FollowSteps
<1>3. \A s \in FollowSteps : Goto(r, s) => Keeps(r, s)
  BY KeepsClientTo
<1>4. CASE FollowEnds(r) \/ Say(r) \/ SaveRow(r) \/ Tell(r)
  <2>1. \E s \in FollowSteps : Goto(r, s)
    BY <1>4 DEF FollowEnds, Say, SaveRow, Tell, FollowSteps
  <2>. QED BY <2>1, <1>3
<1>. QED BY <1>1, <1>2, <1>4 DEF Follow

\* The other actions move no request.
Elsewhere == \/ \E r \in Requests : WorkerStep(r) \/ Scan(r) \/ Expire(r)
             \/ Events \/ Finished

LEMMA ElsewhereMoves ==
  ASSUME Elsewhere
  PROVE  req' = req
BY DEF Elsewhere, WorkerStep, OnlyPair, WorkFrame, ShowQR, AskCode, Success, QRFails, WorkEnds,
   EndPairing, DropUnpaired, CutClient, CloseDone, Scan, Expire, EnvFrame, Events, LoggedOut,
   EchoLogout, DropLoggedOut, ForgetChannel, EnsureConnected, Resume, ResumeConnects, Stop,
   Remove, RemoveMutes, RemoveLogsOut, RemoveDrops, RemoveForgets, RemoveStep, Finished, vars,
   reqVars

LEMMA NextCases ==
  ASSUME Next
  PROVE  \/ \E r \in Requests : Arrive(r) \/ Resolve(r) \/ OpenPairing(r) \/ Follow(r)
         \/ Elsewhere
BY DEF Next, Elsewhere

-----------------------------------------------------------------------------
(* Who holds the lock of the channel.                                       *)

LockOK ==
  /\ lock \in Requests \cup {NoOne, Remover}
  /\ \A r \in Requests : lock = r <=> req[r].step \in UnderLock
  /\ lock = Remover <=> removal.step \in {"mute", "logout", "drop"}

LEMMA LockKept ==
  ASSUME LockOK, NEW r \in Requests, NEW s, Moves(r, s), removal' = removal,
         \/ lock' = lock /\ (req[r].step \in UnderLock <=> s \in UnderLock)
         \/ lock' = NoOne /\ req[r].step \in UnderLock /\ s \notin UnderLock
         \/ lock = NoOne /\ lock' = r /\ s \in UnderLock
  PROVE  LockOK'
BY ConstantsAssumption DEF LockOK, Moves

LEMMA LockOwned ==
  ASSUME LockOK, req \in [Requests -> Request], clients \in Seq(Client), removal \in Removal,
         session \in 0..Len(clients), pairing \in Requests \cup {NoOne},
         pair \in [Requests -> Pairing], Next
  PROVE  LockOK'
<1>. USE DEF UnderLock, Keeps, Gets, Waits
<1>1. ASSUME NEW r \in Requests, TakeLock(r) \/ Mute(r) \/ DropUnlinked(r) \/ ForgetDevice(r)
      PROVE  LockOK'
  <2>1. removal' = removal
    BY <1>1 DEF TakeLock, Mute, DropUnlinked, ForgetDevice, otherVars
  <2>2. \/ req[r].step = "resolve" /\ Keeps(r, "find") /\ lock = NoOne /\ lock' = r
        \/ req[r].step = "mute" /\ Keeps(r, "logout") /\ lock' = lock
        \/ req[r].step = "drop" /\ Keeps(r, "forget") /\ lock' = lock
        \/ req[r].step = "forget" /\ Keeps(r, "fresh") /\ lock' = lock
    BY <1>1, ResolveMoves DEF TakeLock, Mute, DropUnlinked, ForgetDevice
  <2>. QED BY <2>1, <2>2, LockKept
<1>2. ASSUME NEW r \in Requests, FindClient(r)
      PROVE  LockOK'
  <2>1. removal' = removal /\ req[r].step = "find"
    BY <1>2 DEF FindClient, otherVars
  <2>. QED BY <1>2, <2>1, FindMoves, LockKept
<1>3. ASSUME NEW r \in Requests, BringUp(r)
      PROVE  LockOK'
  <2>1. removal' = removal /\ req[r].step = "up"
    BY <1>3 DEF BringUp, otherVars
  <2>. QED BY <1>3, <2>1, ResolveMoves, LockKept
<1>4. ASSUME NEW r \in Requests, Unlink(r)
      PROVE  LockOK'
  <2>1. removal' = removal /\ req[r].step = "logout"
    BY <1>4 DEF Unlink, otherVars
  <2>. QED BY <1>4, <2>1, ResolveMoves, LockKept
<1>5. ASSUME NEW r \in Requests, FreshClient(r)
      PROVE  LockOK'
  <2>1. removal' = removal /\ req[r].step = "fresh"
    BY <1>5 DEF FreshClient, otherVars
  <2>. QED BY <1>5, <2>1, FreshMoves, LockKept
<1>6. ASSUME NEW r \in Requests, Arrive(r) \/ OpenPairing(r)
      PROVE  LockOK'
  <2>1. removal' = removal /\ lock' = lock /\ req[r].step \notin UnderLock
    BY <1>6 DEF Arrive, OpenPairing, BeginPairing, Await, OpenQR, AcquireSlot, Connect,
       Failing, Refuse, managerVars, otherVars
  <2>2. \E s \in {"resolve", "refuse", "open", "await", "say", "follow", "slot", "failing",
                  "connect", "done"} : Moves(r, s)
    BY <1>6, OpenMoves DEF OpenPairing
  <2>. QED BY <2>1, <2>2, LockKept
<1>7. ASSUME NEW r \in Requests, Follow(r)
      PROVE  LockOK'
  <2>1. removal' = removal /\ lock' = lock /\ req[r].step \notin UnderLock
    BY <1>7 DEF Follow, FollowFrame, Receive, FollowEnds, Say, ReadSession, SaveRow, Tell,
       managerVars, otherVars
  <2>. QED BY <1>7, <2>1, FollowMoves, LockKept DEF FollowSteps
<1>8. CASE Elsewhere
  <2>1. req' = req
    BY <1>8, ElsewhereMoves
  <2>2. CASE removal' = removal /\ lock' = lock
    BY <2>1, <2>2 DEF LockOK
  <2>3. CASE Remove \/ RemoveMutes \/ RemoveLogsOut \/ RemoveDrops \/ RemoveForgets
    BY <2>1, <2>3, ConstantsAssumption
       DEF LockOK, Remove, RemoveMutes, RemoveLogsOut, RemoveDrops, RemoveForgets, RemoveStep, Removal
  <2>. QED
    BY <1>8, <2>2, <2>3 DEF Elsewhere, WorkerStep, OnlyPair, WorkFrame, ShowQR, AskCode,
       Success, QRFails, WorkEnds, EndPairing, DropUnpaired, CutClient, CloseDone, Scan, Expire,
       EnvFrame, Events, LoggedOut, EchoLogout, DropLoggedOut, ForgetChannel, EnsureConnected,
       Resume, ResumeConnects, Stop, Finished, vars, managerVars, otherVars
<1>. QED
  BY <1>1, <1>2, <1>3, <1>4, <1>5, <1>6, <1>7, <1>8, NextCases DEF Resolve

-----------------------------------------------------------------------------
(* The goroutine of a pairing starts when its request has connected, and    *)
(* never goes back to running.                                              *)

Running(w) == w \in {"select", "offer"}

WorkersAge ==
  \A r \in Requests : /\ pair[r].worker = "none" => pair'[r].worker = "none"
                      /\ Running(pair'[r].worker) => Running(pair[r].worker)

\* A request that is opening its pairing.
Opening(r) == OpenQR(r) \/ AcquireSlot(r) \/ Connect(r)

LEMMA WorkersAgeUnlessOpening ==
  ASSUME pair \in [Requests -> Pairing], Next
  PROVE  WorkersAge \/ \E r \in Requests : Opening(r)
<1>. DEFINE Others(r) == \A s \in Requests \ {r} : pair'[s] = pair[s]
<1>1. ASSUME pair' = pair PROVE WorkersAge
  BY <1>1 DEF WorkersAge, Running
<1>2. ASSUME NEW r, pair' = [pair EXCEPT ![r].halted = TRUE] PROVE WorkersAge
  BY <1>2 DEF WorkersAge, Running, Pairing
<1>3. ASSUME NEW r \in Requests, Running(pair[r].worker), Others(r) PROVE WorkersAge
  BY <1>3 DEF WorkersAge, Running
<1>4. ASSUME NEW r \in Requests, pair[r].worker # "none",
             NEW w \in {"ending", "dropping", "cutting", "closing", "done"}, Work(r, w)
      PROVE  WorkersAge
  BY <1>4 DEF WorkersAge, Running, Work, Pairing
<1>5. ASSUME NEW r \in Requests, Receive(r) \/ ShowQR(r) \/ AskCode(r) \/ Success(r) \/ QRFails(r)
                                 \/ Scan(r)
      PROVE  Running(pair[r].worker) /\ Others(r)
  BY <1>5 DEF Receive, Work, ShowQR, AskCode, Success, QRFails, Report, Scan, Running
<1>6. ASSUME NEW r \in Requests, WorkEnds(r) \/ EndPairing(r) \/ DropUnpaired(r) \/ CutClient(r)
                                 \/ CloseDone(r)
      PROVE  WorkersAge
  BY <1>4, <1>6 DEF WorkEnds, QRClosed, EndPairing, DropUnpaired, DropClient, CutClient, CloseDone
<1>7. ASSUME NEW r \in Requests, Expire(r) PROVE WorkersAge
  <2>1. pair' = [pair EXCEPT ![r].kept = "stale"]
    BY <1>7 DEF Expire
  <2>. QED BY <2>1 DEF WorkersAge, Running, Pairing
<1>8. ASSUME NEW r \in Requests, BeginPairing(r) PROVE WorkersAge
  BY <1>1, <1>2, <1>8 DEF BeginPairing, NewPair, Supersede, Join
<1>9. ASSUME NEW r \in Requests, Arrive(r) \/ Resolve(r) \/ (Follow(r) /\ ~Receive(r))
                                 \/ Await(r) \/ Failing(r) \/ Refuse(r)
      PROVE  pair' = pair
  BY <1>9 DEF Arrive, Resolve, TakeLock, FindClient, BringUp, Mute, Unlink, DropUnlinked,
     ForgetDevice, FreshClient, Follow, FollowEnds, Say, ReadSession, SaveRow, Tell, Await,
     Failing, Refuse
<1>10. ASSUME Events \/ Finished PROVE pair' = pair
  BY <1>10 DEF Events, LoggedOut, EchoLogout, DropLoggedOut, ForgetChannel, EnsureConnected,
     Resume, ResumeConnects, Stop, Remove, RemoveMutes, RemoveLogsOut, RemoveDrops,
     RemoveForgets, RemoveStep, Finished, vars, reqVars
<1>. QED
  BY <1>1, <1>3, <1>5, <1>6, <1>7, <1>8, <1>9, <1>10
     DEF Opening, Next, OpenPairing, Follow, WorkerStep

LEMMA OpeningMoves ==
  ASSUME req \in [Requests -> Request], pair \in [Requests -> Pairing], NEW r \in Requests,
         pairing \in Requests \cup {NoOne}, Opening(r)
  PROVE  /\ req[r].step \in {"open", "slot", "connect"}
         /\ \A s \in Requests \ {r} : pair'[s] = pair[s]
         /\ pairing' = pairing
         /\ \/ pair' = pair /\ (Keeps(r, "slot") \/ Keeps(r, "connect"))
            \/ pair'[r].worker = "ending" /\ Keeps(r, "failing")
            \/ pair'[r].worker = "select" /\ Keeps(r, "follow")
<1>1. \A s \in {"slot", "connect", "follow"} : Goto(r, s) \/ Accept(r, s) => Keeps(r, s)
  BY KeepsClientTo DEF Steps
<1>2. \A busy \in BOOLEAN : GiveUp(r, busy) => Keeps(r, "failing") /\ Work(r, "ending")
  BY KeepsClientTo DEF GiveUp, Steps
<1>3. \/ pair' = pair /\ (Keeps(r, "slot") \/ Keeps(r, "connect"))
      \/ Work(r, "ending") /\ Keeps(r, "failing")
      \/ Work(r, "select") /\ Keeps(r, "follow")
  BY <1>1, <1>2 DEF Opening, OpenQR, AcquireSlot, Connect
<1>4. \A w : Work(r, w) => /\ \A s \in Requests \ {r} : pair'[s] = pair[s]
                           /\ pair'[r].worker = w
  BY DEF Work, Pairing
<1>5. req[r].step \in {"open", "slot", "connect"} /\ pairing' = pairing
  BY DEF Opening, OpenQR, AcquireSlot, Connect, managerVars
<1>. QED BY <1>3, <1>4, <1>5

\* What the types of the variables say, apart from the lock.
Shapes ==
  /\ req \in [Requests -> Request] /\ pair \in [Requests -> Pairing]
  /\ pairing \in Requests \cup {NoOne}
  /\ clients \in Seq(Client) /\ session \in 0..Len(clients)

-----------------------------------------------------------------------------
(* A request whose goroutine has started, and one that opens a pairing, has *)
(* a client.                                                                *)

Begun ==
  \A r \in Requests :
    /\ pair[r].worker # "none" => req[r].step \in {"failing", "refuse"} \cup FollowSteps
    /\ req[r].step \in {"begin", "open", "slot", "connect"} \/ pair[r].worker # "none"
         => req[r].client # 0

\* What a step that starts no goroutine has to show about the request that moves.
LEMMA BegunByMove ==
  ASSUME Begun, WorkersAge, NEW r \in Requests, NEW s,
         (Keeps(r, s) /\ s \notin {"begin", "open", "slot", "connect"}) \/ Gets(r, s),
         pair[r].worker # "none" => s \in {"failing", "refuse"} \cup FollowSteps,
         Len(clients') \in Nat
  PROVE  Begun'
BY DEF Begun, WorkersAge, Keeps, Gets, Moves, FollowSteps

LEMMA BegunStays ==
  ASSUME Shapes, Begun, Next, Len(clients') \in Nat
  PROVE  Begun'
<1>. USE DEF Shapes
<1>1. CASE \E r \in Requests : Opening(r)
  <2>1. PICK r \in Requests : Opening(r)
    BY <1>1
  <2>2. Begun!(r) /\ pair[r].worker = "none" /\ req[r].client # 0
    BY <2>1, OpeningMoves DEF Begun, FollowSteps
  <2>. QED BY <2>1, <2>2, OpeningMoves DEF Begun, Keeps, Moves, FollowSteps
<1>2. CASE WorkersAge /\ ~\E r \in Requests : Opening(r)
  <2>1. ASSUME NEW r \in Requests, Arrive(r) PROVE Begun'
    <3>1. req[r].step = "new" /\ (Keeps(r, "resolve") \/ Keeps(r, "refuse"))
      BY <2>1, OpenMoves DEF Arrive
    <3>2. pair[r].worker = "none"
      BY <3>1 DEF Begun, FollowSteps
    <3>. QED BY <1>2, <3>1, <3>2, BegunByMove
  <2>2. ASSUME NEW r \in Requests, Resolve(r) PROVE Begun'
    <3>1. pair[r].worker = "none"
      BY <2>2 DEF Begun, FollowSteps, Resolve, TakeLock, FindClient, BringUp, Mute, Unlink,
         DropUnlinked, ForgetDevice, FreshClient
    <3>2. \/ \E s \in {"find", "mute", "save", "refuse", "logout", "drop", "forget", "fresh"} : Keeps(r, s)
          \/ \E s \in {"up", "begin"} : Gets(r, s)
      BY <2>2, FindMoves, FreshMoves, ResolveMoves DEF Resolve
    <3>. QED BY <1>2, <3>1, <3>2, BegunByMove
  <2>3. ASSUME NEW r \in Requests, BeginPairing(r) \/ Await(r) PROVE Begun'
    <3>1. pair[r].worker = "none" /\ (req[r].step = "begin" => req[r].client # 0)
      BY <2>3 DEF Begun, FollowSteps, BeginPairing, Await
    <3>2. CASE Keeps(r, "open") /\ BeginPairing(r)
      BY <1>2, <3>1, <3>2 DEF Begun, WorkersAge, Keeps, Moves, BeginPairing
    <3>3. CASE \E s \in {"await", "say", "follow", "resolve", "refuse"} : Keeps(r, s)
      BY <1>2, <3>1, <3>3, BegunByMove
    <3>. QED BY <2>3, <3>2, <3>3, OpenMoves DEF Waits
  <2>4. ASSUME NEW r \in Requests, Failing(r) \/ Refuse(r) PROVE Begun'
    <3>1. \E s \in {"refuse", "done"} : Keeps(r, s)
      BY <2>4, OpenMoves
    <3>. QED BY <1>2, <3>1, BegunByMove DEF FollowSteps
  <2>5. ASSUME NEW r \in Requests, Follow(r) PROVE Begun'
    <3>1. \E s \in FollowSteps : Keeps(r, s)
      BY <2>5, FollowMoves
    <3>. QED BY <1>2, <3>1, BegunByMove DEF FollowSteps
  <2>6. CASE Elsewhere
    BY <1>2, <2>6, ElsewhereMoves DEF Begun, WorkersAge
  <2>. QED
    BY <1>2, <2>1, <2>2, <2>3, <2>4, <2>5, <2>6, NextCases DEF OpenPairing, Opening
<1>. QED BY <1>1, <1>2, WorkersAgeUnlessOpening

-----------------------------------------------------------------------------
(* Which actions change which variable.                                     *)

\* What a step may do to the variables that few actions change.
Framed ==
  /\ \/ session' = session \/ \E c : Forgotten(c)
     \/ \E r \in Requests : FindClient(r) \/ FreshClient(r)
     \/ Resume
  /\ resuming' = resuming \/ resuming' = 0 \/ Resume
  /\ \/ removal' = removal
     \/ Remove \/ RemoveMutes \/ RemoveLogsOut \/ RemoveDrops \/ RemoveForgets
  /\ \/ leaving' = leaving
     \/ \E c \in DOMAIN clients : LoggedOut(c) \/ EchoLogout(c) \/ DropLoggedOut(c)
  /\ \/ forgets' = forgets \/ forgets' = FALSE
     \/ \E c \in DOMAIN clients : Heard(c) /\ (LoggedOut(c) \/ EchoLogout(c))
  /\ stopped' = stopped \/ stopped' = TRUE
  /\ linked' \subseteq linked \/ \E r \in Requests : Scan(r)
  /\ row' = row \/ row' = 0 \/ \E r \in Requests : SaveRow(r)

\* What no step of a handler or of a pairing goroutine touches.
StillThere == UNCHANGED <<leaving, forgets, resuming, removal, stopped>>

LEMMA Frames ==
  ASSUME Next
  PROVE  Framed
<1>. USE DEF managerVars, deviceVars, eventVars, otherVars
<1>1. ASSUME NEW r \in Requests, Arrive(r) \/ TakeLock(r) \/ BringUp(r) \/ Mute(r)
      PROVE  StillThere /\ UNCHANGED <<session, linked, row>>
  BY <1>1 DEF StillThere, Arrive, TakeLock, BringUp, Mute
<1>2. ASSUME NEW r \in Requests, FindClient(r) \/ FreshClient(r)
      PROVE  StillThere /\ UNCHANGED <<linked, row>>
  BY <1>2 DEF StillThere, FindClient, FreshClient
<1>3. ASSUME NEW r \in Requests, Unlink(r)
      PROVE  StillThere /\ UNCHANGED <<session, row>> /\ linked' \subseteq linked
  BY <1>3 DEF StillThere, Unlink
<1>4. ASSUME NEW r \in Requests, DropUnlinked(r)
      PROVE  StillThere /\ UNCHANGED <<linked, row>> /\ \E c : Forgotten(c)
  BY <1>4 DEF StillThere, DropUnlinked
<1>5. ASSUME NEW r \in Requests, ForgetDevice(r)
      PROVE  StillThere /\ UNCHANGED <<session, linked>> /\ (row' = row \/ row' = 0)
  BY <1>5 DEF StillThere, ForgetDevice
<1>6. ASSUME NEW r \in Requests, OpenPairing(r)
      PROVE  StillThere /\ UNCHANGED <<session, linked, row>>
  BY <1>6 DEF StillThere, OpenPairing, BeginPairing, Await, OpenQR, AcquireSlot, Connect, Failing,
     Refuse
<1>7. ASSUME NEW r \in Requests, Follow(r)
      PROVE  StillThere /\ UNCHANGED <<session, linked>> /\ (row' = row \/ SaveRow(r))
  BY <1>7 DEF StillThere, Follow, FollowFrame, Receive, FollowEnds, Say, ReadSession, Tell, SaveRow
<1>8. ASSUME NEW r \in Requests, WorkerStep(r)
      PROVE  /\ StillThere /\ UNCHANGED <<linked, row>>
             /\ session' = session \/ Forgotten(req[r].client)
  <2>1. WorkFrame => StillThere /\ UNCHANGED <<linked, row>>
    BY DEF WorkFrame, StillThere
  <2>2. OnlyPair => WorkFrame /\ session' = session
    BY DEF OnlyPair
  <2>. QED
    BY <1>8, <2>1, <2>2 DEF WorkerStep, ShowQR, AskCode, Success, QRFails, WorkEnds, EndPairing,
       DropUnpaired, DropClient, CutClient, CloseDone
<1>9. ASSUME NEW r \in Requests, Scan(r) \/ Expire(r)
      PROVE  StillThere /\ UNCHANGED <<session, row>> /\ (linked' = linked \/ Scan(r))
  BY <1>9 DEF StillThere, Scan, Expire
<1>10. ASSUME NEW c \in DOMAIN clients, LoggedOut(c) \/ EchoLogout(c) \/ DropLoggedOut(c)
       PROVE  /\ UNCHANGED <<resuming, removal, stopped, row>> /\ linked' \subseteq linked
              /\ session' = session \/ Forgotten(c)
              /\ forgets' = forgets \/ (Heard(c) /\ (LoggedOut(c) \/ EchoLogout(c)))
  BY <1>10 DEF LoggedOut, EchoLogout, DropLoggedOut
<1>11. ASSUME ForgetChannel \/ EnsureConnected \/ Stop
       PROVE  /\ UNCHANGED <<session, linked, leaving, resuming, removal>>
              /\ forgets' = forgets \/ forgets' = FALSE
              /\ stopped' = stopped \/ stopped' = TRUE
              /\ row' = row \/ row' = 0
  BY <1>11 DEF ForgetChannel, EnsureConnected, Stop
<1>12. ASSUME Resume \/ ResumeConnects
       PROVE  /\ UNCHANGED <<linked, row, leaving, forgets, removal, stopped>>
              /\ Resume \/ (resuming' = 0 /\ (session' = session \/ Forgotten(resuming)))
  BY <1>12 DEF Resume, ResumeConnects
<1>13. ASSUME Remove \/ RemoveMutes \/ RemoveLogsOut \/ RemoveDrops \/ RemoveForgets
       PROVE  /\ UNCHANGED <<leaving, forgets, resuming, stopped>> /\ linked' \subseteq linked
              /\ session' = session \/ Forgotten(removal.client)
              /\ row' = row \/ row' = 0
  BY <1>13 DEF Remove, RemoveMutes, RemoveLogsOut, RemoveDrops, RemoveForgets, RemoveStep
<1>14. CASE Finished
  BY <1>14 DEF Finished, vars, Framed
<1>. QED
  BY <1>1, <1>2, <1>3, <1>4, <1>5, <1>6, <1>7, <1>8, <1>9, <1>10, <1>11, <1>12, <1>13, <1>14
     DEF Framed, StillThere, Next, Resolve, Events

LEMMA RegisteredStays ==
  ASSUME Next
  PROVE  \/ pairing' = pairing
         \/ \E r \in Requests : BeginPairing(r) /\ NewPair(r)
         \/ \E r \in Requests : EndPairing(r)
<1>. USE DEF managerVars
<1>1. ASSUME NEW r \in Requests, Arrive(r) \/ Resolve(r)
      PROVE  pairing' = pairing
  BY <1>1 DEF Arrive, Resolve, TakeLock, FindClient, BringUp, Mute, Unlink, DropUnlinked,
     ForgetDevice, FreshClient
<1>2. ASSUME NEW r \in Requests, OpenPairing(r)
      PROVE  pairing' = pairing \/ (BeginPairing(r) /\ NewPair(r))
  BY <1>2 DEF OpenPairing, BeginPairing, Supersede, Join, Await, OpenQR, AcquireSlot, Connect,
     Failing, Refuse
<1>3. ASSUME NEW r \in Requests, Follow(r)
      PROVE  pairing' = pairing
  BY <1>3 DEF Follow, FollowFrame, Receive, FollowEnds, Say, ReadSession, SaveRow, Tell
<1>4. ASSUME NEW r \in Requests, WorkerStep(r)
      PROVE  pairing' = pairing \/ EndPairing(r)
  <2>1. OnlyPair => pairing' = pairing
    BY DEF OnlyPair
  <2>. QED
    BY <1>4, <2>1 DEF WorkerStep, ShowQR, AskCode, Success, QRFails, WorkEnds, DropUnpaired,
       CutClient, CloseDone
<1>5. ASSUME NEW r \in Requests, Scan(r) \/ Expire(r)
      PROVE  pairing' = pairing
  BY <1>5 DEF Scan, Expire, EnvFrame
<1>6. CASE Events \/ Finished
  BY <1>6 DEF Events, EnvFrame, LoggedOut, EchoLogout, DropLoggedOut, ForgetChannel,
     EnsureConnected, Resume, ResumeConnects, Stop, Remove, RemoveMutes, RemoveLogsOut,
     RemoveDrops, RemoveForgets, RemoveStep, Finished, vars
<1>. QED BY <1>1, <1>2, <1>3, <1>4, <1>5, <1>6 DEF Next

-----------------------------------------------------------------------------
(* The pairing that runs is the one that is registered.                     *)

Owned == \A r \in Requests : Live(r) => pairing = r

\* Only NewPair makes a request open a pairing.
OpensNone ==
  \A r \in Requests : req'[r].step \in {"open", "slot", "connect"}
                        => req[r].step \in {"open", "slot", "connect"}

LEMMA OpensNoneUnlessNew ==
  ASSUME Shapes, Next
  PROVE  OpensNone \/ \E r \in Requests : BeginPairing(r) /\ NewPair(r)
<1>. USE DEF Shapes
<1>0. ASSUME NEW r \in Requests, NEW s \in Steps \ {"open", "slot", "connect"}, Moves(r, s)
      PROVE  OpensNone
  BY <1>0 DEF OpensNone, Moves
<1>1. ASSUME NEW r \in Requests, Resolve(r) PROVE OpensNone
  <2>1. \E s \in {"find", "mute", "save", "refuse", "logout", "drop", "forget", "fresh", "up",
                  "begin"} : Moves(r, s)
    BY <1>1, FindMoves, FreshMoves, ResolveMoves DEF Resolve, Keeps, Gets
  <2>. QED BY <1>0, <2>1 DEF Steps
<1>2. ASSUME NEW r \in Requests, Arrive(r) \/ Await(r) \/ Failing(r) \/ Refuse(r) PROVE OpensNone
  <2>1. \E s \in {"resolve", "refuse", "done"} : Moves(r, s)
    BY <1>2, OpenMoves DEF Keeps
  <2>. QED BY <1>0, <2>1 DEF Steps
<1>3. ASSUME NEW r \in Requests, BeginPairing(r), ~NewPair(r) PROVE OpensNone
  <2>1. \E s \in {"await", "say", "follow"} : Moves(r, s)
    BY <1>3, OpenMoves DEF Keeps, Waits
  <2>. QED BY <1>0, <2>1 DEF Steps
<1>4. ASSUME NEW r \in Requests, Follow(r) PROVE OpensNone
  <2>1. \E s \in FollowSteps : Moves(r, s)
    BY <1>4, FollowMoves DEF Keeps
  <2>. QED BY <1>0, <2>1 DEF Steps, FollowSteps
<1>5. ASSUME NEW r \in Requests, Opening(r) PROVE OpensNone
  BY <1>5, OpeningMoves DEF OpensNone, Keeps, Moves
<1>6. CASE Elsewhere
  BY <1>6, ElsewhereMoves DEF OpensNone
<1>. QED BY <1>1, <1>2, <1>3, <1>4, <1>5, <1>6, NextCases DEF OpenPairing, Opening

LEMMA OwnedStays ==
  ASSUME Shapes, Begun, Owned, Next
  PROVE  Owned'
<1>. USE DEF Shapes
<1>1. ASSUME NEW r \in Requests, BeginPairing(r), NewPair(r) PROVE Owned'
  <2>1. pairing = NoOne /\ pairing' = r /\ pair' = pair
    BY <1>1 DEF NewPair
  <2>2. \A s \in Requests : ~Live(s)
    BY <2>1, ConstantsAssumption DEF Owned
  <2>3. \A s \in Requests \ {r} : req'[s] = req[s]
    BY <1>1 DEF NewPair, Goto
  <2>. QED BY <2>1, <2>2, <2>3 DEF Owned, Live
<1>2. ASSUME NEW r \in Requests, Opening(r) PROVE Owned'
  <2>1. pairing' = pairing /\ Live(r)
    BY <1>2, OpeningMoves DEF Live
  <2>2. \A s \in Requests \ {r} : req'[s] = req[s] /\ pair'[s] = pair[s]
    BY <1>2, OpeningMoves DEF Keeps, Moves
  <2>. QED BY <2>1, <2>2 DEF Owned, Live
<1>3. CASE /\ ~\E r \in Requests : BeginPairing(r) /\ NewPair(r)
           /\ ~\E r \in Requests : Opening(r)
  <2>1. \A r \in Requests : Live(r)' => Live(r)
    BY <1>3, OpensNoneUnlessNew, WorkersAgeUnlessOpening
       DEF OpensNone, WorkersAge, Live, Running
  <2>2. CASE pairing' = pairing
    BY <2>1, <2>2 DEF Owned
  <2>3. ASSUME NEW r \in Requests, EndPairing(r) PROVE Owned'
    <3>1. pair[r].worker = "ending" /\ ~Live(r)
      BY <2>3 DEF EndPairing, Begun, Live, FollowSteps
    <3>2. pairing # r => pairing' = pairing
      BY <2>3 DEF EndPairing, Unregister
    <3>. QED BY <2>1, <3>1, <3>2 DEF Owned
  <2>. QED BY <1>3, <2>2, <2>3, RegisteredStays
<1>. QED BY <1>1, <1>2, <1>3

-----------------------------------------------------------------------------
(* The pointers to clients, and the rest.                                   *)

Pointers ==
  /\ session \in 0..Len(clients) /\ resuming \in 0..Len(clients)
  /\ removal \in Removal /\ removal.client \in 0..Len(clients)
  /\ leaving \in SUBSET (1..Len(clients))
  /\ \A r \in Requests : /\ req[r].client \in 0..Len(clients)
                         /\ req[r].step = "await" => req[r].behind \in Requests

Rest ==
  /\ pairing \in Requests \cup {NoOne}
  /\ linked \in SUBSET Nat /\ row \in Nat
  /\ forgets \in BOOLEAN /\ stopped \in BOOLEAN /\ spent \in [Faults -> Nat]

LEMMA ClientsGrow ==
  ASSUME clients \in Seq(Client), row \in Nat, Next
  PROVE  /\ Len(clients) \in Nat /\ Len(clients') \in Nat
         /\ 1..Len(clients) \subseteq 1..Len(clients') /\ 0..Len(clients) \subseteq 0..Len(clients')
         /\ DOMAIN clients = 1..Len(clients)
BY ClientsTyped, LenProperties

\* Where a request goes, whatever the action.
LEMMA RequestsMove ==
  ASSUME Shapes, Next
  PROVE  \/ req' = req
         \/ \E r \in Requests, s \in Steps : s # "await" /\ (Keeps(r, s) \/ Gets(r, s))
         \/ \E r \in Requests : Waits(r)
<1>. USE DEF Shapes, Steps
<1>1. ASSUME NEW r \in Requests, Resolve(r)
      PROVE  \E s \in Steps : s # "await" /\ (Keeps(r, s) \/ Gets(r, s))
  BY <1>1, FindMoves, FreshMoves, ResolveMoves DEF Resolve
<1>2. ASSUME NEW r \in Requests, Arrive(r) \/ OpenPairing(r)
      PROVE  Waits(r) \/ \E s \in Steps : s # "await" /\ Keeps(r, s)
  BY <1>2, OpenMoves DEF OpenPairing
<1>3. ASSUME NEW r \in Requests, Follow(r)
      PROVE  \E s \in Steps : s # "await" /\ Keeps(r, s)
  BY <1>3, FollowMoves DEF FollowSteps
<1>. QED BY <1>1, <1>2, <1>3, NextCases, ElsewhereMoves

LEMMA PointersStay ==
  ASSUME Shapes, Pointers, row \in Nat, Next
  PROVE  Pointers'
<1>0. /\ Len(clients) \in Nat /\ Len(clients') \in Nat
      /\ 1..Len(clients) \subseteq 1..Len(clients') /\ 0..Len(clients) \subseteq 0..Len(clients')
      /\ DOMAIN clients = 1..Len(clients)
  BY ClientsGrow DEF Shapes
<1>1. \A r \in Requests : /\ req'[r].client \in 0..Len(clients')
                          /\ req'[r].step = "await" => req'[r].behind \in Requests
  <2>1. CASE req' = req
    BY <1>0, <2>1 DEF Pointers
  <2>2. ASSUME NEW r \in Requests, NEW s \in Steps, s # "await", Keeps(r, s) \/ Gets(r, s),
               NEW t \in Requests
        PROVE  /\ req'[t].client \in 0..Len(clients')
               /\ req'[t].step = "await" => req'[t].behind \in Requests
    BY <1>0, <2>2 DEF Pointers, Keeps, Gets, Moves
  <2>3. ASSUME NEW r \in Requests, Waits(r), NEW t \in Requests
        PROVE  /\ req'[t].client \in 0..Len(clients')
               /\ req'[t].step = "await" => req'[t].behind \in Requests
    BY <1>0, <2>3 DEF Pointers, Waits, Keeps, Moves
  <2>. QED BY <2>1, <2>2, <2>3, RequestsMove
<1>2. session' \in 0..Len(clients')
  <2>0. session \in 0..Len(clients') /\ 0 \in 0..Len(clients')
    BY <1>0 DEF Pointers
  <2>1. ASSUME NEW c, Forgotten(c) PROVE session' \in 0..Len(clients')
    BY <2>0, <2>1 DEF Forgotten
  <2>2. ASSUME NEW r \in Requests, FindClient(r) \/ FreshClient(r)
        PROVE  session' \in 0..Len(clients')
    <3>1. CASE NoClient(r)
      BY <2>0, <3>1 DEF NoClient
    <3>2. ASSUME NEW c \in 1..(Len(clients) + 1), Obtain(c)
          PROVE  session' \in 0..Len(clients')
      <4>1. c \in Nat /\ c \in 1..Len(clients')
        BY <3>2, Obtained DEF Shapes
      <4>2. session' = session \/ session' = c
        BY <3>2 DEF Obtain
      <4>. QED BY <1>0, <2>0, <4>1, <4>2
    <3>. QED BY <2>2, <3>1, <3>2 DEF FindClient, FreshClient
  <2>3. CASE Resume
    <3>1. session' = Len(clients) + 1 /\ Len(clients') = Len(clients) + 1
      BY <2>3, ClientAdded DEF Resume, Shapes
    <3>. QED BY <1>0, <3>1
  <2>. QED BY <2>0, <2>1, <2>2, <2>3, Frames DEF Framed
<1>3. resuming' \in 0..Len(clients')
  <2>1. CASE Resume
    <3>1. resuming' = Len(clients) + 1 /\ Len(clients') = Len(clients) + 1
      BY <2>1, ClientAdded DEF Resume, Shapes
    <3>. QED BY <1>0, <3>1
  <2>. QED BY <1>0, <2>1, Frames DEF Pointers, Framed
<1>4. removal' \in Removal /\ removal'.client \in 0..Len(clients')
  <2>1. CASE Remove
    BY <1>0, <2>1 DEF Remove, Removal, Pointers
  <2>2. CASE RemoveMutes \/ RemoveLogsOut \/ RemoveDrops \/ RemoveForgets
    BY <1>0, <2>2 DEF RemoveMutes, RemoveLogsOut, RemoveDrops, RemoveForgets, RemoveStep,
       Removal, Pointers
  <2>. QED BY <1>0, <2>1, <2>2, Frames DEF Pointers, Framed
<1>5. leaving' \in SUBSET (1..Len(clients'))
  <2>1. ASSUME NEW c \in DOMAIN clients, LoggedOut(c) \/ EchoLogout(c) \/ DropLoggedOut(c)
        PROVE  leaving' \subseteq leaving \cup {c}
    BY <2>1 DEF LoggedOut, EchoLogout, DropLoggedOut, Heard, eventVars
  <2>. QED BY <1>0, <2>1, Frames DEF Pointers, Framed
<1>. QED BY <1>1, <1>2, <1>3, <1>4, <1>5 DEF Pointers

LEMMA SpentMoves ==
  ASSUME Next
  PROVE  NoFault \/ \E f \in Faults : Fault(f)
<1>. USE DEF Faults, Fails, RemoveForgets
<1>1. ASSUME NEW r \in Requests, Arrive(r) \/ Resolve(r) PROVE NoFault \/ \E f \in Faults : Fault(f)
  BY <1>1 DEF Arrive, Resolve, TakeLock, FindClient, NoClient, BringUp, Mute, Unlink,
     DropUnlinked, ForgetDevice, FreshClient, NoFault
<1>2. ASSUME NEW r \in Requests, OpenPairing(r) PROVE NoFault \/ \E f \in Faults : Fault(f)
  BY <1>2 DEF OpenPairing, BeginPairing, Await, OpenQR, AcquireSlot, Connect, Failing, Refuse,
     NoFault
<1>3. ASSUME NEW r \in Requests, Follow(r) PROVE NoFault \/ \E f \in Faults : Fault(f)
  BY <1>3 DEF Follow, Receive, FollowEnds, Say, ReadSession, SaveRow, Tell
<1>4. ASSUME NEW r \in Requests, WorkerStep(r) \/ Scan(r) \/ Expire(r)
      PROVE  NoFault \/ \E f \in Faults : Fault(f)
  BY <1>4 DEF WorkerStep, ShowQR, AskCode, Success, QRFails, WorkEnds, EndPairing,
     DropUnpaired, CutClient, CloseDone, Scan, Expire, NoFault
<1>5. ASSUME Events \/ Finished PROVE NoFault \/ \E f \in Faults : Fault(f)
  BY <1>5 DEF Events, LoggedOut, EchoLogout, DropLoggedOut, ForgetChannel, EnsureConnected,
     Resume, ResumeConnects, Stop, Remove, RemoveMutes, RemoveLogsOut, RemoveDrops, Finished,
     vars, NoFault
<1>. QED BY <1>1, <1>2, <1>3, <1>4, <1>5 DEF Next

\* A count of faults only grows.
LEMMA SpentStays ==
  ASSUME spent \in [Faults -> Nat], Next
  PROVE  spent' \in [Faults -> Nat] /\ \A f \in Faults : spent'[f] >= spent[f]
<1>1. ASSUME NEW f \in Faults, Fault(f)
      PROVE  spent' \in [Faults -> Nat] /\ \A g \in Faults : spent'[g] >= spent[g]
  BY <1>1 DEF Fault
<1>. QED BY <1>1, SpentMoves DEF NoFault

LEMMA RestStays ==
  ASSUME Shapes, Begun, Pointers, Rest, Next
  PROVE  Rest'
<1>1. pairing' \in Requests \cup {NoOne}
  <2>1. \A r \in Requests : EndPairing(r) => pairing' \in {pairing, NoOne}
    BY DEF EndPairing, Unregister
  <2>2. \A r \in Requests : NewPair(r) => pairing' \in Requests
    BY DEF NewPair
  <2>. QED BY <2>1, <2>2, RegisteredStays DEF Rest
<1>2. linked' \in SUBSET Nat
  <2>1. ASSUME NEW r \in Requests, Scan(r) PROVE linked' \in SUBSET Nat
    <3>1. req[r].client \in 1..Len(clients) /\ clients \in [1..Len(clients) -> Client]
      <4>1. pair[r].worker # "none"
        BY <2>1 DEF Scan
      <4>. QED BY <4>1, LenProperties DEF Begun, Pointers, Shapes
    <3>2. C(r).dev \in Nat
      BY <3>1 DEF C, Client
    <3>3. linked' = linked \cup {C(r).dev}
      BY <2>1 DEF Scan
    <3>. QED BY <3>2, <3>3 DEF Rest
  <2>. QED BY <2>1, Frames DEF Rest, Framed
<1>3. row' \in Nat
  <2>1. ASSUME NEW r \in Requests, SaveRow(r) PROVE row' \in Nat
    BY <2>1 DEF SaveRow, Rest, Shapes, Request
  <2>. QED BY <2>1, Frames DEF Rest, Framed
<1>4. forgets' \in BOOLEAN /\ stopped' \in BOOLEAN
  <2>1. \A c : Heard(c) => forgets' = forgets \/ forgets' = TRUE
    BY DEF Heard, eventVars
  <2>. QED BY <2>1, Frames DEF Rest, Framed
<1>5. spent' \in [Faults -> Nat]
  BY SpentStays DEF Rest
<1>. QED BY <1>1, <1>2, <1>3, <1>4, <1>5 DEF Rest

-----------------------------------------------------------------------------
(* Who silenced the session.                                                *)

Silencing(r) == req[r].step \in {"logout", "drop"} /\ req[r].client = session
Removing     == removal.step \in {"logout", "drop"} /\ removal.client = session

Silenced ==
  session # 0 /\ clients[session].muted => Removing \/ \E r \in Requests : Silencing(r)

\* No client is silenced.
NoneSilenced ==
  /\ \A c \in 1..Len(clients) : clients'[c].muted = clients[c].muted
  /\ session' \in {session, 0} \/ (session' # 0 => ~clients'[session'].muted)

LEMMA FieldsKeepMuted ==
  ASSUME clients \in Seq(Client), NEW c,
         \/ Opens(c) \/ Closes(c) \/ LogsOut(c) \/ Unlinks(c) \/ clients' = clients
         \/ clients' = [clients EXCEPT ![c].jid = TRUE]
         \/ clients' = [clients EXCEPT ![c].echo = FALSE]
  PROVE  \A d \in 1..Len(clients) : clients'[d].muted = clients[d].muted
<1>1. clients \in [1..Len(clients) -> Client]
  BY LenProperties
<1>. USE DEF Client
<1>2. CASE Opens(c)
  BY <1>1, <1>2 DEF Opens
<1>7. CASE Closes(c)
  BY <1>1, <1>7 DEF Closes
<1>3. CASE LogsOut(c)
  BY <1>1, <1>3 DEF LogsOut
<1>4. CASE Unlinks(c)
  BY <1>1, <1>4 DEF Unlinks
<1>5. CASE clients' = [clients EXCEPT ![c].jid = TRUE]
  BY <1>1, <1>5
<1>6. CASE clients' = [clients EXCEPT ![c].echo = FALSE]
  BY <1>1, <1>6
<1>. QED BY <1>2, <1>3, <1>4, <1>5, <1>6, <1>7

LEMMA NewIsHeard ==
  ASSUME clients \in Seq(Client), session \in 0..Len(clients),
         \/ \E c \in 1..(Len(clients) + 1) : Obtain(c)
         \/ session = 0 /\ Resume
         \/ \E r \in Requests : NoClient(r),
         row \in Nat
  PROVE  NoneSilenced
<1>1. Len(clients) \in Nat
  BY LenProperties
<1>2. ASSUME NEW d \in Nat, NEW b \in BOOLEAN, clients' = Append(clients, ClientOf(d, b)),
             session' = Len(clients) + 1
      PROVE  NoneSilenced
  <2>1. ClientOf(d, b) \in Client /\ ClientOf(d, b).muted = FALSE
    BY DEF ClientOf, Client
  <2>2. /\ \A c \in 1..Len(clients) : clients'[c] = clients[c]
        /\ clients'[Len(clients) + 1] = ClientOf(d, b)
    BY <1>2, <2>1, AppendProperties
  <2>. QED BY <1>2, <2>1, <2>2 DEF NoneSilenced
<1>3. ASSUME clients' = clients, session' = session PROVE NoneSilenced
  BY <1>3 DEF NoneSilenced
<1>4. ASSUME NEW c \in 1..(Len(clients) + 1), Obtain(c) PROVE NoneSilenced
  <2>1. c \in Nat
    BY <1>1
  <2>. QED BY <1>1, <1>2, <1>3, <1>4, <2>1 DEF Obtain
<1>. QED BY <1>2, <1>3, <1>4 DEF Resume, NoClient

\* Neither a relink nor a removal that has silenced its client moves on.
Undisturbed ==
  /\ \A t \in Requests : req[t].step \in {"logout", "drop"} => req'[t] = req[t]
  /\ removal.step \in {"logout", "drop"} => removal' = removal

LEMMA SilencedStays ==
  ASSUME Shapes, Pointers, Rest, Silenced, Next
  PROVE  Silenced'
<1>. USE DEF Shapes
<1>0. Len(clients) \in Nat /\ session \in 0..Len(clients)
  BY LenProperties
<1>1. ASSUME NoneSilenced, Undisturbed PROVE Silenced'
  BY <1>0, <1>1 DEF NoneSilenced, Undisturbed, Silenced, Silencing, Removing
<1>2. ASSUME NEW r \in Requests, NEW s, Moves(r, s), req[r].step \notin {"logout", "drop"},
             removal' = removal
      PROVE  Undisturbed
  BY <1>2 DEF Moves, Undisturbed
<1>3. ASSUME NEW c, \/ Opens(c) \/ Closes(c) \/ LogsOut(c) \/ Unlinks(c) \/ clients' = clients
                    \/ clients' = [clients EXCEPT ![c].jid = TRUE]
                    \/ clients' = [clients EXCEPT ![c].echo = FALSE],
             session' \in {session, 0}
      PROVE  NoneSilenced
  BY <1>3, FieldsKeepMuted DEF NoneSilenced
<1>4. ASSUME NEW r \in Requests, Arrive(r) \/ OpenPairing(r) PROVE Silenced'
  <2>1. removal' = removal /\ session' = session /\ req[r].step \notin {"logout", "drop"}
    BY <1>4 DEF Arrive, OpenPairing, BeginPairing, Await, OpenQR, AcquireSlot, Connect, Failing,
       Refuse, managerVars, otherVars
  <2>2. \E s : Moves(r, s)
    BY <1>4, OpenMoves DEF OpenPairing, Keeps, Waits
  <2>3. \E c : Opens(c) \/ clients' = clients
    BY <1>4 DEF Arrive, OpenPairing, BeginPairing, Await, OpenQR, AcquireSlot, Connect, GiveUp,
       Failing, Refuse, deviceVars
  <2>. QED BY <1>1, <1>2, <1>3, <2>1, <2>2, <2>3
<1>5. ASSUME NEW r \in Requests, Follow(r) PROVE Silenced'
  <2>1. /\ removal' = removal /\ session' = session /\ clients' = clients
        /\ req[r].step \notin {"logout", "drop"}
    BY <1>5 DEF Follow, FollowFrame, Receive, FollowEnds, Say, ReadSession, SaveRow, Tell,
       managerVars, otherVars
  <2>2. \E s : Moves(r, s)
    BY <1>5, FollowMoves DEF Keeps
  <2>. QED BY <1>1, <1>2, <1>3, <2>1, <2>2
<1>6. ASSUME NEW r \in Requests, TakeLock(r) \/ BringUp(r) \/ ForgetDevice(r) PROVE Silenced'
  <2>1. removal' = removal /\ session' = session /\ req[r].step \notin {"logout", "drop"}
    BY <1>6 DEF TakeLock, BringUp, ForgetDevice, managerVars, otherVars
  <2>2. \E s : Moves(r, s)
    BY <1>6, ResolveMoves DEF Keeps
  <2>3. \E c : Opens(c) \/ clients' = clients
    BY <1>6 DEF TakeLock, BringUp, ForgetDevice, deviceVars
  <2>. QED BY <1>1, <1>2, <1>3, <2>1, <2>2, <2>3
<1>7. ASSUME NEW r \in Requests, FindClient(r) \/ FreshClient(r) PROVE Silenced'
  <2>1. removal' = removal /\ req[r].step \notin {"logout", "drop"}
    BY <1>7 DEF FindClient, FreshClient, otherVars
  <2>2. \E s : Moves(r, s)
    BY <1>7, FindMoves, FreshMoves DEF Keeps, Gets
  <2>3. NoClient(r) \/ \E c \in 1..(Len(clients) + 1) : Obtain(c)
    BY <1>7 DEF FindClient, FreshClient
  <2>4. NoneSilenced
    BY <2>3, NewIsHeard DEF Rest
  <2>. QED BY <1>1, <1>2, <2>1, <2>2, <2>4
<1>8. ASSUME NEW r \in Requests, Mute(r) PROVE Silenced'
  <2>1. /\ session' = session /\ removal' = removal /\ Keeps(r, "logout")
        /\ Silence(req[r].client) /\ req[r].step = "mute"
    BY <1>8, ResolveMoves DEF Mute, managerVars, otherVars
  <2>2. CASE session = req[r].client
    BY <2>1, <2>2 DEF Silenced, Silencing, Keeps, Moves
  <2>3. CASE session # req[r].client
    <3>1. clients' = clients
      BY <2>1, <2>3 DEF Silence
    <3>. QED BY <1>1, <1>2, <1>3, <2>1, <3>1 DEF Keeps
  <2>. QED BY <2>2, <2>3
<1>9. ASSUME NEW r \in Requests, Unlink(r) PROVE Silenced'
  <2>1. /\ session' = session /\ removal' = removal /\ req[r].step = "logout"
        /\ \/ LogsOut(req[r].client) /\ Keeps(r, "drop")
           \/ Unmute(req[r].client) /\ Keeps(r, "refuse")
    <3>1. \/ LogsOut(req[r].client) /\ Goto(r, "drop")
          \/ Unmute(req[r].client) /\ Goto(r, "refuse")
      BY <1>9 DEF Unlink
    <3>2. session' = session /\ removal' = removal /\ req[r].step = "logout"
      BY <1>9 DEF Unlink, otherVars
    <3>. QED BY <3>1, <3>2, KeepsClientTo DEF Steps
  <2>2. CASE LogsOut(req[r].client) /\ Keeps(r, "drop")
    <3>1. \A d \in 1..Len(clients) : clients'[d].muted = clients[d].muted
      BY <2>2, FieldsKeepMuted
    <3>2. \A t \in Requests : Silencing(t) => Silencing(t)'
      BY <2>1, <2>2 DEF Silencing, Keeps, Moves
    <3>3. Removing => Removing'
      BY <2>1 DEF Removing
    <3>. QED BY <1>0, <2>1, <3>1, <3>2, <3>3 DEF Silenced
  <2>3. CASE Unmute(req[r].client) /\ Keeps(r, "refuse")
    <3>1. /\ \A d \in 1..Len(clients) : d # req[r].client => clients'[d].muted = clients[d].muted
          /\ req[r].client \in 1..Len(clients) => clients'[req[r].client].muted = FALSE
      <4>1. clients \in [1..Len(clients) -> Client]
        BY LenProperties
      <4>. QED BY <2>3, <4>1 DEF Unmute, Client
    <3>2. \A t \in Requests : Silencing(t) /\ session # req[r].client => Silencing(t)'
      BY <2>1, <2>3 DEF Silencing, Keeps, Moves
    <3>3. Removing => Removing'
      BY <2>1 DEF Removing
    <3>. QED BY <1>0, <2>1, <3>1, <3>2, <3>3 DEF Silenced
  <2>. QED BY <2>1, <2>2, <2>3
<1>10. ASSUME NEW r \in Requests, DropUnlinked(r) PROVE Silenced'
  <2>1. /\ removal' = removal /\ Keeps(r, "forget") /\ req[r].step = "drop"
        /\ Forgotten(req[r].client) /\ Closes(req[r].client)
    BY <1>10, ResolveMoves DEF DropUnlinked, otherVars
  <2>2. CASE session = req[r].client
    BY <2>1, <2>2 DEF Forgotten, Silenced
  <2>3. CASE session # req[r].client
    <3>1. session' = session
      BY <2>1, <2>3 DEF Forgotten
    <3>2. \A d \in 1..Len(clients) : clients'[d].muted = clients[d].muted
      BY <2>1, FieldsKeepMuted
    <3>3. \A t \in Requests : Silencing(t) => Silencing(t)'
      BY <2>1, <2>3, <3>1 DEF Silencing, Keeps, Moves
    <3>4. Removing => Removing'
      BY <2>1, <3>1 DEF Removing
    <3>. QED BY <1>0, <3>1, <3>2, <3>3, <3>4 DEF Silenced
  <2>. QED BY <2>2, <2>3
<1>11. CASE Elsewhere
  <2>1. req' = req
    BY <1>11, ElsewhereMoves
  <2>2. ASSUME removal' = removal \/ removal.step \notin {"logout", "drop"} PROVE Undisturbed
    BY <2>1, <2>2 DEF Undisturbed
  <2>3. CASE RemoveMutes
    <3>1. /\ session' = session /\ Silence(removal.client) /\ removal.step = "mute"
          /\ removal' = [removal EXCEPT !.step = "logout"]
      BY <2>3 DEF RemoveMutes, RemoveStep
    <3>2. CASE session = removal.client
      BY <3>1, <3>2 DEF Silenced, Removing, Pointers, Removal
    <3>3. CASE session # removal.client
      <4>1. clients' = clients
        BY <3>1, <3>3 DEF Silence
      <4>. QED BY <1>1, <1>3, <2>2, <3>1, <4>1
    <3>. QED BY <3>2, <3>3
  <2>4. CASE RemoveLogsOut
    <3>1. /\ session' = session /\ removal' = [removal EXCEPT !.step = "drop"]
          /\ LogsOut(removal.client) \/ clients' = clients
      BY <2>4 DEF RemoveLogsOut, RemoveStep
    <3>2. \A d \in 1..Len(clients) : clients'[d].muted = clients[d].muted
      BY <3>1, FieldsKeepMuted
    <3>3. \A t \in Requests : Silencing(t) => Silencing(t)'
      BY <2>1, <3>1 DEF Silencing
    <3>4. Removing => Removing'
      BY <3>1 DEF Removing, Pointers, Removal
    <3>. QED BY <1>0, <3>1, <3>2, <3>3, <3>4 DEF Silenced
  <2>5. CASE RemoveDrops
    <3>1. Forgotten(removal.client) /\ Closes(removal.client)
      BY <2>5 DEF RemoveDrops
    <3>2. CASE session = removal.client
      BY <3>1, <3>2 DEF Forgotten, Silenced
    <3>3. CASE session # removal.client
      <4>1. session' = session
        BY <3>1, <3>3 DEF Forgotten
      <4>2. \A d \in 1..Len(clients) : clients'[d].muted = clients[d].muted
        BY <3>1, FieldsKeepMuted
      <4>3. \A t \in Requests : Silencing(t) => Silencing(t)'
        BY <2>1, <4>1 DEF Silencing
      <4>. QED BY <1>0, <3>3, <4>1, <4>2, <4>3 DEF Silenced, Removing
    <3>. QED BY <3>2, <3>3
  <2>6. CASE Resume
    <3>1. session = 0 /\ removal' = removal
      BY <2>6 DEF Resume
    <3>. QED BY <1>1, <2>2, <2>6, <3>1, NewIsHeard DEF Rest
  <2>7. CASE /\ removal' = removal \/ removal.step \notin {"logout", "drop"}
             /\ session' \in {session, 0}
             /\ \E c : \/ Opens(c) \/ Closes(c) \/ Unlinks(c) \/ clients' = clients
                       \/ clients' = [clients EXCEPT ![c].jid = TRUE]
                       \/ clients' = [clients EXCEPT ![c].echo = FALSE]
    BY <1>1, <1>3, <2>2, <2>7
  <2>8. ASSUME NEW r \in Requests, WorkerStep(r) \/ Scan(r) \/ Expire(r)
        PROVE  /\ removal' = removal /\ session' \in {session, 0}
               /\ \E c : \/ Closes(c) \/ clients' = clients
                         \/ clients' = [clients EXCEPT ![c].jid = TRUE]
    BY <2>8 DEF WorkerStep, OnlyPair, WorkFrame, ShowQR, AskCode, Success, QRFails, WorkEnds,
       EndPairing, DropUnpaired, DropClient, Forgotten, CutClient, CloseDone, Scan, Expire,
       EnvFrame, deviceVars, otherVars
  <2>9. ASSUME NEW c \in DOMAIN clients, LoggedOut(c) \/ EchoLogout(c) \/ DropLoggedOut(c)
        PROVE  /\ removal' = removal /\ session' \in {session, 0}
               /\ Closes(c) \/ Unlinks(c) \/ clients' = [clients EXCEPT ![c].echo = FALSE]
    BY <2>9 DEF LoggedOut, EchoLogout, DropLoggedOut, Forgotten, otherVars
  <2>10. ASSUME ForgetChannel \/ EnsureConnected \/ ResumeConnects \/ Stop \/ Remove
                  \/ RemoveForgets \/ Finished
         PROVE  /\ removal' = removal \/ removal.step \notin {"logout", "drop"}
                /\ session' \in {session, 0}
                /\ \E c : Opens(c) \/ Closes(c) \/ clients' = clients
    BY <2>10 DEF ForgetChannel, EnsureConnected, ResumeConnects, Forgotten, Stop, Remove,
       RemoveForgets, RemoveStep, Finished, vars, managerVars, deviceVars, otherVars
  <2>. QED
    BY <1>11, <2>3, <2>4, <2>5, <2>6, <2>7, <2>8, <2>9, <2>10 DEF Elsewhere, Events
<1>. QED
  BY <1>4, <1>5, <1>6, <1>7, <1>8, <1>9, <1>10, <1>11, NextCases DEF Resolve

-----------------------------------------------------------------------------
(* The relinks that fail.                                                   *)

Answers(r) ==
  /\ req[r].step \in {"mute", "logout"} => Relinks(req[r].kind)
  /\ req[r].busy => req[r].step \in {"failing", "refuse", "done"}
  /\ req[r].answer = "dead" => req[r].step = "done"

Answered == \A r \in Requests : Answers(r)

FailedRelink(r) ==
  /\ Relinks(req[r].kind)
  /\ (req[r].step = "refuse" /\ ~req[r].busy) \/ req[r].answer = "dead"

LEMMA MoverMoves ==
  ASSUME Shapes, NEW r \in Requests, Arrive(r) \/ Resolve(r) \/ OpenPairing(r) \/ Follow(r)
  PROVE  \E s \in Steps : Moves(r, s)
<1>. USE DEF Shapes, Steps
<1>1. CASE Resolve(r)
  BY <1>1, FindMoves, FreshMoves, ResolveMoves DEF Resolve, Keeps, Gets
<1>2. CASE Arrive(r) \/ OpenPairing(r)
  BY <1>2, OpenMoves DEF OpenPairing, Keeps, Waits
<1>3. CASE Follow(r)
  BY <1>3, FollowMoves DEF FollowSteps, Keeps
<1>. QED BY <1>1, <1>2, <1>3

\* What a step changes in the answer of the request that makes it.
LEMMA AnswersMove ==
  ASSUME Shapes, NEW r \in Requests, Answers(r),
         Arrive(r) \/ Resolve(r) \/ OpenPairing(r) \/ Follow(r)
  PROVE  /\ Answers(r)'
         /\ FailedRelink(r) => FailedRelink(r)'
<1>. USE DEF Shapes, Request
<1>1. CASE Arrive(r)
  BY <1>1 DEF Arrive, Answers, FailedRelink
<1>2. CASE TakeLock(r) \/ Mute(r) \/ DropUnlinked(r) \/ ForgetDevice(r)
  <2>1. PICK s \in {"find", "logout", "forget", "fresh"} :
          Goto(r, s) /\ (s = "logout" => req[r].step = "mute")
    BY <1>2 DEF TakeLock, Mute, DropUnlinked, ForgetDevice
  <2>2. req[r].step \in {"resolve", "mute", "drop", "forget"}
    BY <1>2 DEF TakeLock, Mute, DropUnlinked, ForgetDevice
  <2>. QED BY <2>1, <2>2 DEF Goto, Answers, FailedRelink
<1>3. CASE FindClient(r) \/ FreshClient(r)
  BY <1>3 DEF FindClient, FreshClient, NoClient, Goto, Takes, Answers, FailedRelink
<1>4. CASE BringUp(r) \/ Unlink(r)
  BY <1>4 DEF BringUp, Unlink, Goto, Accept, Answers, FailedRelink
<1>5. CASE BeginPairing(r) \/ Await(r)
  BY <1>5 DEF BeginPairing, NewPair, Supersede, Join, Await, Goto, Answers, FailedRelink
<1>6. CASE OpenQR(r) \/ AcquireSlot(r) \/ Connect(r)
  BY <1>6 DEF OpenQR, AcquireSlot, Connect, Goto, Accept, GiveUp, Answers, FailedRelink
<1>7. CASE Failing(r) \/ Refuse(r)
  BY <1>7 DEF Failing, Refuse, Goto, Answers, FailedRelink
<1>8. CASE Follow(r)
  BY <1>8 DEF Follow, Receive, FollowEnds, Say, ReadSession, SaveRow, Tell, Goto, Answers,
              FailedRelink
<1>. QED BY <1>1, <1>2, <1>3, <1>4, <1>5, <1>6, <1>7, <1>8 DEF Resolve, OpenPairing

LEMMA AnsweredStays ==
  ASSUME Shapes, Answered, Next
  PROVE  Answered' /\ \A r \in Requests : FailedRelink(r) => FailedRelink(r)'
<1>1. CASE req' = req
  BY <1>1 DEF Answered, Answers, FailedRelink
<1>2. ASSUME NEW t \in Requests, Arrive(t) \/ Resolve(t) \/ OpenPairing(t) \/ Follow(t)
      PROVE  Answered' /\ \A r \in Requests : FailedRelink(r) => FailedRelink(r)'
  <2>1. Answers(t)' /\ (FailedRelink(t) => FailedRelink(t)')
    BY <1>2, AnswersMove DEF Answered
  <2>2. \A r \in Requests \ {t} : req'[r] = req[r]
    BY <1>2, MoverMoves DEF Moves
  <2>3. ASSUME NEW r \in Requests \ {t}
        PROVE  Answers(r)' /\ (FailedRelink(r) => FailedRelink(r)')
    BY <2>2, <2>3 DEF Answered, Answers, FailedRelink
  <2>. QED BY <2>1, <2>3 DEF Answered
<1>. QED BY <1>1, <1>2, NextCases, ElsewhereMoves

-----------------------------------------------------------------------------
(* The client of a pairing that is over.                                    *)

\* The goroutine of r has dropped its client, or has seen that it is paired.
Over(r) == pair[r].worker \in {"cutting", "closing", "done"}

\* Somebody is about to drop the session, or a relink has failed.
Excused ==
  \/ session \in leaving \/ Removing
  \/ \E t \in Requests : Silencing(t) \/ FailedRelink(t)

Dropped ==
  \A r \in Requests :
    Over(r) /\ session # 0 /\ req[r].client = session => clients[session].jid \/ Excused

\* A goroutine comes to be over only by dropping a client without a device.
LEMMA OverBefore ==
  ASSUME Shapes, Next, NEW r \in Requests, Over(r)'
  PROVE  Over(r) \/ DropUnpaired(r)
<1>. USE DEF Shapes, Over, Pairing
<1>1. ASSUME NEW t \in Requests, Arrive(t) \/ Resolve(t) \/ (Follow(t) /\ ~Receive(t))
                                 \/ Await(t) \/ Failing(t) \/ Refuse(t)
      PROVE  Over(r)
  BY <1>1 DEF Arrive, Resolve, TakeLock, FindClient, BringUp, Mute, Unlink, DropUnlinked,
     ForgetDevice, FreshClient, Follow, FollowEnds, Say, ReadSession, SaveRow, Tell, Await,
     Failing, Refuse
<1>2. ASSUME NEW t \in Requests, BeginPairing(t) PROVE Over(r)
  <2>1. CASE pair' = pair
    BY <2>1
  <2>2. CASE pair' = [pair EXCEPT ![pairing].halted = TRUE]
    BY <2>2
  <2>. QED BY <1>2, <2>1, <2>2 DEF BeginPairing, NewPair, Supersede, Join
<1>3. ASSUME NEW t \in Requests, Opening(t) PROVE Over(r)
  BY <1>3, OpeningMoves
<1>4. ASSUME NEW t \in Requests, Receive(t) \/ WorkEnds(t) \/ EndPairing(t) PROVE Over(r)
  <2>1. \E w \in {"ending", "select", "dropping"} : Work(t, w)
    BY <1>4 DEF Receive, WorkEnds, QRClosed, EndPairing
  <2>. QED BY <2>1 DEF Work
<1>5. ASSUME NEW t \in Requests, DropUnpaired(t), t # r PROVE Over(r)
  BY <1>5 DEF DropUnpaired, DropClient, Work
<1>6. ASSUME NEW t \in Requests, CutClient(t) \/ CloseDone(t) PROVE Over(r)
  BY <1>6 DEF CutClient, CloseDone, Work
<1>7. ASSUME NEW t \in Requests, ShowQR(t) \/ AskCode(t) \/ Success(t) \/ QRFails(t) PROVE Over(r)
  <2>1. \A s \in Requests \ {t} : pair'[s] = pair[s]
    BY <1>7 DEF ShowQR, AskCode, Success, QRFails, Report
  <2>2. pair'[t].worker \in {"select", "offer"}
    <3>1. CASE ShowQR(t)
      <4>. DEFINE shown == [pair[t] EXCEPT !.codes = @ + 1]
      <4>0. pair[t] \in Pairing /\ pair[t].codes + 1 \in 0..MaxCodes
        BY <3>1, ConstantsAssumption DEF ShowQR
      <4>1. shown \in Pairing
        BY <4>0
      <4>4. shown.worker = "select"
        BY <3>1 DEF ShowQR
      <4>2. PICK p : pair' = [pair EXCEPT ![t] = p] /\ p \in
              {shown, [shown EXCEPT !.kept = "valid", !.item = "code", !.worker = "offer"],
               [shown EXCEPT !.kept = "stale"]}
        BY <3>1, Zenon DEF ShowQR
      <4>. HIDE DEF shown
      <4>3. p.worker \in {"select", "offer"}
        BY <4>1, <4>2, <4>4
      <4>. QED BY <4>2, <4>3
    <3>2. CASE AskCode(t)
      BY <3>2 DEF AskCode
    <3>3. CASE Success(t) \/ QRFails(t)
      BY <3>3 DEF Success, QRFails, Report
    <3>. QED BY <1>7, <3>1, <3>2, <3>3
  <2>. QED BY <2>1, <2>2
<1>8. ASSUME NEW t \in Requests, Scan(t) \/ Expire(t) PROVE Over(r)
  <2>1. CASE pair' = [pair EXCEPT ![t].scanned = TRUE]
    BY <2>1
  <2>2. CASE pair' = [pair EXCEPT ![t].kept = "stale"]
    BY <2>2
  <2>. QED BY <1>8, <2>1, <2>2 DEF Scan, Expire
<1>9. ASSUME Events \/ Finished PROVE Over(r)
  BY <1>9 DEF Events, LoggedOut, EchoLogout, DropLoggedOut, ForgetChannel, EnsureConnected,
     Resume, ResumeConnects, Stop, Remove, RemoveMutes, RemoveLogsOut, RemoveDrops,
     RemoveForgets, RemoveStep, Finished, vars, reqVars
<1>. QED
  BY <1>1, <1>2, <1>3, <1>4, <1>5, <1>6, <1>7, <1>8, <1>9
     DEF Next, OpenPairing, Opening, WorkerStep

\* A session is new, or has a device, or is the one that was there.
LEMMA SessionBefore ==
  ASSUME Shapes, Pointers, Begun, Rest, Next, NEW r \in Requests,
         Over(r)', session' # 0, req'[r].client = session', ~clients'[session'].jid
  PROVE  session' = session /\ req[r].client = session
<1>. USE DEF Shapes
<1>0. Len(clients) \in Nat /\ req[r].client \in 0..Len(clients)
  BY LenProperties DEF Pointers
<1>1. pair[r].worker # "none"
  BY OverBefore DEF Over, DropUnpaired
<1>2. req[r].step \in {"failing", "refuse"} \cup FollowSteps
  BY <1>1 DEF Begun
<1>3. req'[r].client = req[r].client
  <2>1. ASSUME NEW t \in Requests, Arrive(t) \/ Resolve(t) \/ OpenPairing(t) \/ Follow(t)
        PROVE  req'[r].client = req[r].client
    <3>1. CASE t # r
      BY <2>1, <3>1, MoverMoves DEF Moves
    <3>2. CASE t = r
      <4>1. ~Arrive(r) /\ ~Resolve(r)
        BY <1>2 DEF FollowSteps, Arrive, Resolve, TakeLock, FindClient, BringUp, Mute, Unlink,
           DropUnlinked, ForgetDevice, FreshClient
      <4>. QED BY <2>1, <3>2, <4>1, OpenMoves, FollowMoves DEF OpenPairing, Keeps, Waits
    <3>. QED BY <3>1, <3>2
  <2>. QED BY <2>1, NextCases, ElsewhereMoves
<1>4. ASSUME NEW c, Forgotten(c) PROVE session' = session
  BY <1>4 DEF Forgotten
<1>5. ASSUME NEW t \in Requests, FindClient(t) \/ FreshClient(t) PROVE session' = session
  <2>1. session' = session \/ session' = Len(clients) + 1
    BY <1>5 DEF FindClient, FreshClient, NoClient, Obtain
  <2>. QED BY <1>0, <1>3, <2>1
<1>6. CASE Resume
  <2>1. session' = Len(clients) + 1
    BY <1>6 DEF Resume
  <2>2. req[r].client = Len(clients) + 1
    BY <1>3, <2>1
  <2>. QED BY <1>0, <2>2
<1>. QED BY <1>3, <1>4, <1>5, <1>6, Frames DEF Framed

\* Only these steps take the device of a client.
LEMMA WhoUnlinks ==
  ASSUME Shapes, Rest, Next, NEW c \in 1..Len(clients), clients[c].jid, ~clients'[c].jid
  PROVE  \/ \E r \in Requests : Unlink(r) /\ c = req[r].client /\ Goto(r, "drop")
         \/ RemoveLogsOut /\ c = removal.client
         \/ LoggedOut(c) /\ c \in DOMAIN clients
<1>. USE DEF Shapes
<1>0. Len(clients) \in Nat /\ clients \in [1..Len(clients) -> Client]
  BY LenProperties
<1>1. ASSUME NEW x, \/ Opens(x) \/ Closes(x) \/ Silence(x) \/ Unmute(x) \/ clients' = clients
                    \/ clients' = [clients EXCEPT ![x].jid = TRUE]
                    \/ clients' = [clients EXCEPT ![x].echo = FALSE]
      PROVE  FALSE
  <2>1. CASE Opens(x) \/ Closes(x)
    BY <1>0, <2>1 DEF Client, Opens, Closes
  <2>2. CASE Silence(x) \/ Unmute(x) \/ clients' = clients
    BY <1>0, <2>2 DEF Client, Silence, Unmute
  <2>3. CASE clients' = [clients EXCEPT ![x].jid = TRUE]
    BY <1>0, <2>3 DEF Client
  <2>4. CASE clients' = [clients EXCEPT ![x].echo = FALSE]
    BY <1>0, <2>4 DEF Client
  <2>. QED BY <1>1, <2>1, <2>2, <2>3, <2>4
<1>2. ASSUME NEW x, LogsOut(x) \/ Unlinks(x) PROVE x = c
  BY <1>0, <1>2 DEF Client, LogsOut, Unlinks
<1>3. ASSUME NEW d \in Nat, NEW b \in BOOLEAN, clients' = Append(clients, ClientOf(d, b))
      PROVE  FALSE
  <2>1. ClientOf(d, b) \in Client
    BY DEF ClientOf, Client
  <2>. QED BY <1>3, <2>1, AppendProperties
<1>4. ASSUME NEW r \in Requests, Arrive(r) \/ TakeLock(r) \/ BringUp(r) \/ Mute(r)
                                \/ DropUnlinked(r) \/ ForgetDevice(r)
      PROVE  FALSE
  BY <1>1, <1>4 DEF Arrive, TakeLock, BringUp, Mute, DropUnlinked, ForgetDevice, deviceVars
<1>5. ASSUME NEW r \in Requests, FindClient(r) \/ FreshClient(r) PROVE FALSE
  <2>1. clients' = clients \/ \E x \in Nat : clients' = Append(clients, ClientOf(x, FALSE))
    <3>1. ASSUME NEW x \in 1..(Len(clients) + 1), Obtain(x)
          PROVE  clients' = clients \/ (x \in Nat /\ clients' = Append(clients, ClientOf(x, FALSE)))
      <4>1. x \in Nat
        BY <1>0
      <4>. QED BY <3>1, <4>1, Zenon DEF Obtain
    <3>2. NoClient(r) => clients' = clients
      BY DEF NoClient
    <3>. QED BY <1>5, <3>1, <3>2 DEF FindClient, FreshClient
  <2>. QED BY <1>1, <1>3, <2>1
<1>6. ASSUME NEW r \in Requests, Unlink(r)
      PROVE  Unlink(r) /\ c = req[r].client /\ Goto(r, "drop")
  BY <1>1, <1>2, <1>6 DEF Unlink
<1>7. ASSUME NEW r \in Requests, OpenPairing(r) \/ Follow(r) PROVE FALSE
  BY <1>1, <1>7 DEF OpenPairing, BeginPairing, Await, OpenQR, AcquireSlot, Connect, GiveUp,
     Failing, Refuse, Follow, FollowFrame, Receive, FollowEnds, Say, ReadSession, SaveRow, Tell,
     deviceVars
<1>8. ASSUME NEW r \in Requests, WorkerStep(r) \/ Scan(r) \/ Expire(r) PROVE FALSE
  BY <1>1, <1>8 DEF WorkerStep, OnlyPair, ShowQR, AskCode, Success, QRFails, WorkEnds,
     EndPairing, DropUnpaired, CutClient, CloseDone, Scan, Expire, deviceVars
<1>9. ASSUME NEW x \in DOMAIN clients, LoggedOut(x) PROVE LoggedOut(c) /\ c \in DOMAIN clients
  BY <1>2, <1>9 DEF LoggedOut
<1>10. ASSUME NEW x, EchoLogout(x) \/ DropLoggedOut(x) PROVE FALSE
  BY <1>1, <1>10 DEF EchoLogout, DropLoggedOut
<1>11. CASE ForgetChannel \/ EnsureConnected \/ ResumeConnects \/ Stop \/ Remove \/ RemoveMutes
            \/ RemoveDrops \/ RemoveForgets \/ Finished
  BY <1>1, <1>11 DEF ForgetChannel, EnsureConnected, ResumeConnects, Stop, Remove, RemoveMutes,
     RemoveDrops, RemoveForgets, Finished, deviceVars, vars
<1>12. CASE Resume
  BY <1>3, <1>12 DEF Resume, Rest
<1>13. CASE RemoveLogsOut
  BY <1>1, <1>2, <1>13 DEF RemoveLogsOut
<1>. QED
  BY <1>4, <1>5, <1>6, <1>7, <1>8, <1>9, <1>10, <1>11, <1>12, <1>13 DEF Next, Resolve, Events

\* Whoever has the session's client to drop keeps it, or drops it.
LEMMA ExcusedStays ==
  ASSUME Shapes, Pointers, Answered, Excused, Next, session' = session, session # 0
  PROVE  Excused'
<1>. USE DEF Shapes
<1>1. ASSUME session \in leaving PROVE Excused'
  <2>1. ASSUME NEW c \in DOMAIN clients, LoggedOut(c) \/ EchoLogout(c) \/ DropLoggedOut(c)
        PROVE  session \in leaving'
    BY <1>1, <2>1 DEF LoggedOut, EchoLogout, DropLoggedOut, Heard, Forgotten, eventVars
  <2>. QED BY <1>1, <2>1, Frames DEF Excused, Framed
<1>2. ASSUME Removing PROVE Excused'
  <2>1. RemoveMutes \/ RemoveLogsOut \/ RemoveDrops \/ RemoveForgets \/ Remove => Removing'
    BY <1>2 DEF Removing, RemoveMutes, RemoveLogsOut, RemoveDrops, RemoveForgets, RemoveStep,
       Remove, Forgotten, Pointers, Removal
  <2>. QED BY <1>2, <2>1, Frames DEF Excused, Removing, Framed
<1>3. ASSUME NEW t \in Requests, FailedRelink(t) PROVE Excused'
  BY <1>3, AnsweredStays DEF Excused
<1>4. ASSUME NEW t \in Requests, Silencing(t) PROVE Excused'
  <2>1. CASE req'[t] = req[t]
    BY <1>4, <2>1 DEF Excused, Silencing
  <2>2. CASE Unlink(t)
    <3>1. Relinks(req[t].kind) /\ ~req[t].busy
      BY <2>2 DEF Answered, Answers, Unlink
    <3>2. \/ req'[t].step = "drop" /\ req'[t].client = session
          \/ req'[t].step = "refuse" /\ Relinks(req'[t].kind) /\ ~req'[t].busy
      BY <1>4, <2>2, <3>1 DEF Unlink, Goto, Silencing, Request
    <3>. QED BY <3>2 DEF Excused, Silencing, FailedRelink
  <2>3. CASE DropUnlinked(t)
    BY <1>4, <2>3 DEF DropUnlinked, Forgotten, Silencing
  <2>4. ASSUME NEW r \in Requests, Arrive(r) \/ Resolve(r) \/ OpenPairing(r) \/ Follow(r), r # t
        PROVE  req'[t] = req[t]
    BY <2>4, MoverMoves DEF Moves
  <2>5. ASSUME Arrive(t) \/ Resolve(t) \/ OpenPairing(t) \/ Follow(t)
        PROVE  Unlink(t) \/ DropUnlinked(t)
    BY <1>4, <2>5 DEF Silencing, Arrive, Resolve, TakeLock, FindClient, BringUp, Mute,
       ForgetDevice, FreshClient, OpenPairing, BeginPairing, Await, OpenQR, AcquireSlot, Connect,
       Failing, Refuse, Follow, Receive, FollowEnds, Say, ReadSession, SaveRow, Tell
  <2>. QED BY <2>1, <2>2, <2>3, <2>4, <2>5, NextCases, ElsewhereMoves
<1>. QED BY <1>1, <1>2, <1>3, <1>4 DEF Excused

LEMMA DroppedStays ==
  ASSUME Shapes, Pointers, Rest, Begun, Silenced, Answered, Dropped, Next
  PROVE  Dropped'
<1>. USE DEF Shapes
<1>. SUFFICES ASSUME NEW r \in Requests, Over(r)', session' # 0, req'[r].client = session',
                     ~clients'[session'].jid
              PROVE  Excused'
  BY DEF Dropped
<1>1. session' = session /\ req[r].client = session
  BY SessionBefore
<1>2. session \in 1..Len(clients) /\ Len(clients) \in Nat
  BY <1>1, LenProperties
<1>3. CASE clients[session].jid
  <2>1. ASSUME NEW t \in Requests, Unlink(t), session = req[t].client, Goto(t, "drop")
        PROVE  Excused'
    BY <1>1, <2>1 DEF Goto, Excused, Silencing, Request
  <2>2. ASSUME RemoveLogsOut, session = removal.client PROVE Excused'
    BY <1>1, <2>2 DEF RemoveLogsOut, RemoveStep, Excused, Removing, Pointers, Removal
  <2>3. ASSUME LoggedOut(session) PROVE Excused'
    <3>1. CASE clients[session].muted
      <4>1. Excused
        BY <1>1, <3>1 DEF Silenced, Excused
      <4>. QED BY <1>1, <4>1, ExcusedStays
    <3>2. CASE ~clients[session].muted
      BY <1>1, <2>3, <3>2 DEF LoggedOut, Heard, Excused
    <3>. QED BY <3>1, <3>2
  <2>. QED BY <1>1, <1>2, <1>3, <2>1, <2>2, <2>3, WhoUnlinks
<1>4. CASE ~clients[session].jid
  <2>1. ~DropUnpaired(r)
    BY <1>1, <1>4 DEF DropUnpaired, DropClient, Forgotten, C
  <2>2. Over(r)
    BY <2>1, OverBefore
  <2>. QED BY <1>1, <1>4, <2>2, ExcusedStays DEF Dropped
<1>. QED BY <1>3, <1>4

-----------------------------------------------------------------------------
(* A logout that the gateway asked for.                                     *)

\* What a step does to the clients.
OnlyUpOrHeard ==
  \E c : \/ Opens(c) \/ Closes(c) \/ clients' = clients
         \/ clients' = [clients EXCEPT ![c].echo = FALSE]
Adds == \E d \in Nat, b \in BOOLEAN : clients' = Append(clients, ClientOf(d, b))
Silences ==
  \/ RemoveMutes /\ Silence(removal.client)
  \/ \E r \in Requests : Mute(r) /\ Silence(req[r].client)
Links == \E r \in Requests : Scan(r) /\ clients' = [clients EXCEPT ![req[r].client].jid = TRUE]
Unlinking ==
  \/ \E r \in Requests : Unlink(r) /\ LogsOut(req[r].client) /\ Goto(r, "drop")
  \/ RemoveLogsOut /\ CanLogOut(removal.client) /\ LogsOut(removal.client)
  \/ \E c \in DOMAIN clients : LoggedOut(c) /\ Unlinks(c)
GivesUp == \E r \in Requests : Unlink(r) /\ Unmute(req[r].client) /\ Goto(r, "refuse")

LEMMA ClientSteps ==
  ASSUME Shapes, Rest, Next
  PROVE  OnlyUpOrHeard \/ Adds \/ Silences \/ Links \/ Unlinking \/ GivesUp
<1>. USE DEF deviceVars
<1>0. Len(clients) \in Nat
  BY LenProperties DEF Shapes
<1>1. ASSUME NEW r \in Requests, Arrive(r) \/ TakeLock(r) \/ BringUp(r)
                                \/ DropUnlinked(r) \/ ForgetDevice(r)
      PROVE  OnlyUpOrHeard
  BY <1>1 DEF Arrive, TakeLock, BringUp, DropUnlinked, ForgetDevice, OnlyUpOrHeard
<1>2. ASSUME NEW r \in Requests, FindClient(r) \/ FreshClient(r) PROVE OnlyUpOrHeard \/ Adds
  <2>1. ASSUME NEW x \in 1..(Len(clients) + 1), Obtain(x)
        PROVE  clients' = clients \/ (x \in Nat /\ clients' = Append(clients, ClientOf(x, FALSE)))
    <3>1. x \in Nat
      BY <1>0
    <3>. QED BY <2>1, <3>1, Zenon DEF Obtain
  <2>2. NoClient(r) => clients' = clients
    BY DEF NoClient
  <2>. QED BY <1>2, <2>1, <2>2 DEF FindClient, FreshClient, OnlyUpOrHeard, Adds
<1>3. ASSUME NEW r \in Requests, Mute(r) PROVE Silences
  BY <1>3 DEF Mute, Silences
<1>4. ASSUME NEW r \in Requests, Unlink(r) PROVE Unlinking \/ GivesUp
  BY <1>4 DEF Unlink, Unlinking, GivesUp
<1>5. ASSUME NEW r \in Requests, OpenPairing(r) \/ Follow(r) PROVE OnlyUpOrHeard
  BY <1>5 DEF OpenPairing, BeginPairing, Await, OpenQR, AcquireSlot, Connect, GiveUp,
     Failing, Refuse, Follow, FollowFrame, Receive, FollowEnds, Say, ReadSession, SaveRow, Tell,
     OnlyUpOrHeard
<1>6. ASSUME NEW r \in Requests, WorkerStep(r) \/ Expire(r) PROVE OnlyUpOrHeard
  BY <1>6 DEF WorkerStep, OnlyPair, ShowQR, AskCode, Success, QRFails, WorkEnds,
     EndPairing, DropUnpaired, CutClient, CloseDone, Expire, OnlyUpOrHeard
<1>7. ASSUME NEW r \in Requests, Scan(r) PROVE Links
  BY <1>7 DEF Scan, Links
<1>8. ASSUME NEW c \in DOMAIN clients, LoggedOut(c) PROVE Unlinking
  BY <1>8 DEF LoggedOut, Unlinking
<1>9. ASSUME NEW c, EchoLogout(c) \/ DropLoggedOut(c) PROVE OnlyUpOrHeard
  BY <1>9 DEF EchoLogout, DropLoggedOut, OnlyUpOrHeard
<1>10. CASE ForgetChannel \/ EnsureConnected \/ ResumeConnects \/ Stop \/ Remove \/ RemoveDrops
            \/ RemoveForgets \/ Finished
  BY <1>10 DEF ForgetChannel, EnsureConnected, ResumeConnects, Stop, Remove, RemoveDrops, RemoveForgets,
     Finished, vars, OnlyUpOrHeard
<1>11. CASE Resume
  BY <1>11 DEF Resume, Rest, Adds
<1>12. CASE RemoveMutes
  BY <1>12 DEF RemoveMutes, Silences
<1>13. CASE RemoveLogsOut
  BY <1>13 DEF RemoveLogsOut, Unlinking, OnlyUpOrHeard
<1>. QED
  BY <1>1, <1>2, <1>3, <1>4, <1>5, <1>6, <1>7, <1>8, <1>9, <1>10, <1>11, <1>12, <1>13
     DEF Next, Resolve, Events

\* Who gives a client of before the step a device, a logout to be told of, or its
\* events back; a client that is new has none to be told of.
LEMMA WhoChanges ==
  ASSUME Shapes, Rest, Next
  PROVE  /\ \A c \in 1..Len(clients) :
              /\ ~clients[c].jid /\ clients'[c].jid => \E r \in Requests : Scan(r)
              /\ ~clients[c].echo /\ clients'[c].echo =>
                   /\ clients'[c].muted = clients[c].muted
                   /\ \/ \E r \in Requests : Unlink(r) /\ c = req[r].client /\ Goto(r, "drop")
                      \/ RemoveLogsOut /\ c = removal.client /\ clients[c].jid
              /\ clients[c].muted /\ ~clients'[c].muted =>
                   \E r \in Requests : Unlink(r) /\ c = req[r].client /\ Goto(r, "refuse")
         /\ \A c \in 1..Len(clients') : c \notin 1..Len(clients) =>
              c = Len(clients) + 1 /\ ~clients'[c].echo
<1>. USE DEF Shapes
<1>0. Len(clients) \in Nat /\ clients \in [1..Len(clients) -> Client]
  BY LenProperties
<1>1. CASE OnlyUpOrHeard
  <2>1. PICK x : \/ Opens(x) \/ Closes(x) \/ clients' = clients
                 \/ clients' = [clients EXCEPT ![x].echo = FALSE]
    BY <1>1 DEF OnlyUpOrHeard
  <2>2. SameClients
    BY <2>1, ClientChanged
  <2>3. ASSUME NEW c \in 1..Len(clients)
        PROVE  /\ clients'[c].jid = clients[c].jid /\ clients'[c].muted = clients[c].muted
               /\ clients'[c].echo => clients[c].echo
    <3>1. CASE Opens(x)
      BY <1>0, <3>1 DEF Client, Opens
    <3>2. CASE Closes(x)
      BY <1>0, <3>2 DEF Client, Closes
    <3>3. CASE clients' = [clients EXCEPT ![x].echo = FALSE]
      BY <1>0, <3>3 DEF Client
    <3>. QED BY <2>1, <3>1, <3>2, <3>3
  <2>. QED BY <2>2, <2>3 DEF SameClients
<1>2. CASE Adds
  <2>1. PICK d \in Nat, b \in BOOLEAN : clients' = Append(clients, ClientOf(d, b))
    BY <1>2 DEF Adds
  <2>2. ClientOf(d, b) \in Client /\ ClientOf(d, b).echo = FALSE
    BY DEF ClientOf, Client
  <2>3. /\ Len(clients') = Len(clients) + 1 /\ clients'[Len(clients) + 1] = ClientOf(d, b)
        /\ \A c \in 1..Len(clients) : clients'[c] = clients[c]
    BY <2>1, <2>2, AppendProperties
  <2>4. \A c \in 1..Len(clients') : c \notin 1..Len(clients) => c = Len(clients) + 1
    BY <1>0, <2>3
  <2>. QED BY <2>2, <2>3, <2>4
<1>3. CASE Silences
  <2>1. PICK x : Silence(x)
    BY <1>3 DEF Silences
  <2>2. SameClients
    BY <2>1, ClientChanged
  <2>3. ASSUME NEW c \in 1..Len(clients)
        PROVE  /\ clients'[c].jid = clients[c].jid /\ clients'[c].echo = clients[c].echo
               /\ clients[c].muted => clients'[c].muted
    <3>1. CASE clients' = [clients EXCEPT ![x].muted = TRUE]
      BY <1>0, <3>1 DEF Client
    <3>2. CASE clients' = clients
      BY <3>2
    <3>. QED BY <2>1, <3>1, <3>2 DEF Silence
  <2>. QED BY <2>2, <2>3 DEF SameClients
<1>4. CASE Links
  <2>1. PICK r \in Requests : Scan(r) /\ clients' = [clients EXCEPT ![req[r].client].jid = TRUE]
    BY <1>4 DEF Links
  <2>2. SameClients
    BY <2>1, ClientChanged
  <2>3. ASSUME NEW c \in 1..Len(clients)
        PROVE  clients'[c].echo = clients[c].echo /\ clients'[c].muted = clients[c].muted
    BY <1>0, <2>1 DEF Client
  <2>. QED BY <2>1, <2>2, <2>3 DEF SameClients
<1>5. CASE Unlinking
  <2>1. ASSUME NEW x, LogsOut(x)
        PROVE  /\ SameClients
               /\ \A c \in 1..Len(clients) :
                    /\ clients'[c].muted = clients[c].muted /\ (clients'[c].jid => clients[c].jid)
                    /\ c # x => clients'[c].echo = clients[c].echo
    <3>1. SameClients
      BY <2>1, ClientChanged
    <3>. QED BY <1>0, <2>1, <3>1 DEF LogsOut, Client
  <2>2. ASSUME NEW x, Unlinks(x)
        PROVE  /\ SameClients
               /\ \A c \in 1..Len(clients) :
                    /\ clients'[c].muted = clients[c].muted /\ (clients'[c].jid => clients[c].jid)
                    /\ clients'[c].echo = clients[c].echo
    <3>1. SameClients
      BY <2>2, ClientChanged
    <3>. QED BY <1>0, <2>2, <3>1 DEF Unlinks, Client
  <2>3. ASSUME NEW r \in Requests, Unlink(r), LogsOut(req[r].client), Goto(r, "drop")
        PROVE  /\ SameClients
               /\ \A c \in 1..Len(clients) :
                    /\ clients'[c].muted = clients[c].muted /\ (clients'[c].jid => clients[c].jid)
                    /\ ~clients[c].echo /\ clients'[c].echo =>
                         Unlink(r) /\ c = req[r].client /\ Goto(r, "drop")
    BY <2>1, <2>3
  <2>4. ASSUME RemoveLogsOut, CanLogOut(removal.client), LogsOut(removal.client)
        PROVE  /\ SameClients
               /\ \A c \in 1..Len(clients) :
                    /\ clients'[c].muted = clients[c].muted /\ (clients'[c].jid => clients[c].jid)
                    /\ ~clients[c].echo /\ clients'[c].echo =>
                         RemoveLogsOut /\ c = removal.client /\ clients[c].jid
    BY <2>1, <2>4 DEF CanLogOut
  <2>. QED BY <1>5, <2>2, <2>3, <2>4 DEF Unlinking, SameClients
<1>6. CASE GivesUp
  <2>1. PICK r \in Requests : Unlink(r) /\ Unmute(req[r].client) /\ Goto(r, "refuse")
    BY <1>6 DEF GivesUp
  <2>2. SameClients
    BY <2>1, ClientChanged
  <2>3. ASSUME NEW c \in 1..Len(clients)
        PROVE  /\ clients'[c].jid = clients[c].jid /\ clients'[c].echo = clients[c].echo
               /\ c # req[r].client => clients'[c].muted = clients[c].muted
    BY <1>0, <2>1 DEF Unmute, Client
  <2>. QED BY <2>1, <2>2, <2>3 DEF SameClients
<1>. QED BY <1>1, <1>2, <1>3, <1>4, <1>5, <1>6, ClientSteps

\* Who takes a session with a device away from the channel.
LEMMA WhoTakesSession ==
  ASSUME Shapes, Next, session # 0, clients[session].jid
  PROVE  \/ session' = session
         \/ \E r \in Requests : DropUnlinked(r)
         \/ RemoveDrops \/ ResumeConnects
         \/ session \in leaving
<1>. USE DEF managerVars
<1>1. ASSUME NEW r \in Requests, FindClient(r) \/ FreshClient(r) PROVE session' = session
  BY <1>1 DEF FindClient, FreshClient, NoClient, Obtain
<1>2. ASSUME NEW r \in Requests, \/ Arrive(r) \/ TakeLock(r) \/ BringUp(r) \/ Mute(r) \/ Unlink(r)
                                 \/ ForgetDevice(r)
      PROVE  session' = session
  BY <1>2 DEF Arrive, TakeLock, BringUp, Mute, Unlink, ForgetDevice
<1>3. ASSUME NEW r \in Requests, OpenPairing(r) PROVE session' = session
  BY <1>3 DEF OpenPairing, BeginPairing, Await, OpenQR, AcquireSlot, Connect, Failing, Refuse
<1>4. ASSUME NEW r \in Requests, Follow(r) PROVE session' = session
  BY <1>4 DEF Follow, FollowFrame, Receive, FollowEnds, Say, ReadSession, Tell, SaveRow
<1>5. ASSUME NEW r \in Requests, DropUnpaired(r) PROVE session' = session
  BY <1>5 DEF DropUnpaired, DropClient, Forgotten, C
<1>6. ASSUME NEW r \in Requests, WorkerStep(r), ~DropUnpaired(r) PROVE session' = session
  BY <1>6 DEF WorkerStep, OnlyPair, ShowQR, AskCode, Success, QRFails, WorkEnds, EndPairing,
     CutClient, CloseDone
<1>7. ASSUME NEW r \in Requests, Scan(r) \/ Expire(r) PROVE session' = session
  BY <1>7 DEF Scan, Expire
<1>8. ASSUME NEW c, LoggedOut(c) \/ EchoLogout(c) PROVE session' = session
  BY <1>8 DEF LoggedOut, EchoLogout
<1>9. ASSUME NEW c, DropLoggedOut(c) PROVE session' = session \/ session \in leaving
  BY <1>9 DEF DropLoggedOut, Forgotten
<1>10. CASE \/ ForgetChannel \/ EnsureConnected \/ Resume \/ Stop \/ Remove \/ RemoveMutes
            \/ RemoveLogsOut \/ RemoveForgets \/ Finished
  BY <1>10 DEF ForgetChannel, EnsureConnected, Resume, Stop, Remove, RemoveMutes, RemoveLogsOut,
     RemoveForgets, Finished, vars
<1>. QED
  BY <1>1, <1>2, <1>3, <1>4, <1>5, <1>6, <1>7, <1>8, <1>9, <1>10 DEF Next, Resolve, Events

\* A scan is not forgotten.
LEMMA ScannedStays ==
  ASSUME Shapes, Next, NEW r \in Requests, pair[r].scanned
  PROVE  pair'[r].scanned
<1>. USE DEF Shapes, Pairing
<1>1. ASSUME NEW t \in Requests, NEW w, Work(t, w) PROVE pair'[r].scanned
  BY <1>1 DEF Work
<1>2. ASSUME NEW t \in Requests, Arrive(t) \/ Resolve(t) \/ (Follow(t) /\ ~Receive(t))
                                 \/ Await(t) \/ Failing(t) \/ Refuse(t)
      PROVE  pair' = pair
  BY <1>2 DEF Arrive, Resolve, TakeLock, FindClient, BringUp, Mute, Unlink, DropUnlinked,
     ForgetDevice, FreshClient, Follow, FollowEnds, Say, ReadSession, SaveRow, Tell, Await,
     Failing, Refuse
<1>3. ASSUME NEW t \in Requests, BeginPairing(t) PROVE pair'[r].scanned
  <2>1. CASE pair' = [pair EXCEPT ![pairing].halted = TRUE]
    BY <2>1
  <2>. QED BY <1>3, <2>1 DEF BeginPairing, NewPair, Supersede, Join
<1>4. ASSUME NEW t \in Requests, Opening(t) \/ Receive(t) \/ WorkEnds(t) \/ EndPairing(t)
                                 \/ DropUnpaired(t) \/ CutClient(t) \/ CloseDone(t)
      PROVE  pair' = pair \/ \E w : Work(t, w)
  BY <1>4 DEF Opening, OpenQR, AcquireSlot, Connect, GiveUp, Receive, WorkEnds, QRClosed, EndPairing,
     DropUnpaired, DropClient, CutClient, CloseDone
<1>5. ASSUME NEW t \in Requests, ShowQR(t) \/ AskCode(t) PROVE pair'[r].scanned
  <2>. DEFINE more == [pair[t] EXCEPT !.codes = @ + 1]
  <2>0. pair[t] \in Pairing /\ pair[t].codes + 1 \in 0..MaxCodes
    BY <1>5, ConstantsAssumption DEF ShowQR, AskCode
  <2>1. more \in Pairing /\ more.scanned = pair[t].scanned
    BY <2>0
  <2>2. PICK p : pair' = [pair EXCEPT ![t] = p] /\ p \in
          {more, [more EXCEPT !.kept = "valid", !.item = "code", !.worker = "offer"],
           [more EXCEPT !.kept = "stale"], [more EXCEPT !.item = "error", !.worker = "offer"]}
    BY <1>5, Zenon DEF ShowQR, AskCode
  <2>. HIDE DEF more
  <2>3. p.scanned = pair[t].scanned
    BY <2>1, <2>2
  <2>. QED BY <2>2, <2>3
<1>6. ASSUME NEW t \in Requests, Success(t) \/ QRFails(t) PROVE pair'[r].scanned
  <2>1. CASE t = r
    <3>. DEFINE told(i, b, k) == [pair[r] EXCEPT !.item = i, !.worker = "offer", !.reported = b,
                                                !.kept = k]
    <3>1. \A i, b, k : told(i, b, k).scanned = pair[r].scanned
      <4>. pair[r] \in Pairing
        OBVIOUS
      <4>. QED OBVIOUS
    <3>2. PICK i : Report(r, i)
      BY <1>6, <2>1 DEF Success, QRFails
    <3>3. pair' = [pair EXCEPT ![r] =
                     told(i, i = "connected", IF pairing = r THEN "none" ELSE pair[r].kept)]
      BY <3>2, Zenon DEF Report
    <3>. HIDE DEF told
    <3>. QED BY <3>1, <3>3
  <2>2. CASE t # r
    BY <1>6, <2>2 DEF Success, QRFails, Report
  <2>. QED BY <2>1, <2>2
<1>7. ASSUME NEW t \in Requests, Scan(t) \/ Expire(t) PROVE pair'[r].scanned
  <2>1. CASE pair' = [pair EXCEPT ![t].scanned = TRUE]
    BY <2>1
  <2>2. CASE pair' = [pair EXCEPT ![t].kept = "stale"]
    BY <2>2
  <2>. QED BY <1>7, <2>1, <2>2 DEF Scan, Expire
<1>8. ASSUME Events \/ Finished PROVE pair' = pair
  BY <1>8 DEF Events, LoggedOut, EchoLogout, DropLoggedOut, ForgetChannel, EnsureConnected,
     Resume, ResumeConnects, Stop, Remove, RemoveMutes, RemoveLogsOut, RemoveDrops,
     RemoveForgets, RemoveStep, Finished, vars, reqVars
<1>. QED
  BY <1>1, <1>2, <1>3, <1>4, <1>5, <1>6, <1>7, <1>8
     DEF Next, OpenPairing, Opening, Follow, WorkerStep

\* Nothing has happened yet that may drop a client whose relink is on, and no phone
\* has unlinked a device.
Calm == /\ spent["resume"] = 0 /\ spent["logout"] = 0
        /\ spent["remove"] = 0 \/ \A r \in Requests : ~pair[r].scanned

HasLoggedOut(c) ==
  \/ \E r \in Requests : req[r].step = "drop" /\ req[r].client = c
  \/ removal.step = "drop" /\ removal.client = c

\* No event of a logout is at work.
NoAlarm == leaving = {} /\ ~forgets /\ resuming = 0

\* A logout still to be told of finds its client muted.
EchoesMuted ==
  \A c \in 1..Len(clients) :
    clients[c].echo => clients[c].muted /\ (c = session => HasLoggedOut(c))

\* What a relink is about to log out is the paired session, and it is muted first.
RelinkHolds ==
  \A r \in Requests : req[r].step \in {"up", "mute", "logout"} =>
    /\ session # 0 /\ req[r].client = session /\ clients[session].jid
    /\ req[r].step = "logout" => clients[session].muted

\* So it is with a removal, if its client has a device.
RemovalHolds ==
  /\ removal.step # "idle" => spent["remove"] > 0
  /\ removal.step \in {"mute", "logout"} /\ removal.client # 0 =>
       (clients[removal.client].jid =>
          removal.client = session /\ (removal.step = "logout" => clients[session].muted))

Muffled == Calm => NoAlarm /\ EchoesMuted /\ RelinkHolds /\ RemovalHolds

LEMMA CalmBefore ==
  ASSUME Shapes, Rest, Next, Calm'
  PROVE  /\ Calm /\ ~Resume /\ \A c : ~LoggedOut(c)
         /\ spent["remove"] > 0 => \A r \in Requests : ~Scan(r)
         /\ spent["remove"] \in Nat /\ spent'["remove"] \in Nat
         /\ spent'["remove"] >= spent["remove"]
<1>. USE DEF Rest, Faults
<1>1. /\ spent \in [Faults -> Nat] /\ spent' \in [Faults -> Nat]
      /\ \A f \in Faults : spent'[f] >= spent[f]
  BY SpentStays
<1>2. ASSUME NEW f \in {"resume", "logout"} PROVE ~Fault(f)
  BY <1>1, <1>2 DEF Fault, Calm
<1>3. ~Resume /\ \A c : ~LoggedOut(c)
  BY <1>2 DEF Resume, LoggedOut
<1>4. spent["resume"] = 0 /\ spent["logout"] = 0
  BY <1>1 DEF Calm
<1>5. spent["remove"] = 0 \/ \A r \in Requests : ~pair[r].scanned /\ ~pair'[r].scanned
  <2>1. CASE spent'["remove"] = 0
    BY <1>1, <2>1
  <2>2. CASE \A r \in Requests : ~pair'[r].scanned
    BY <2>2, ScannedStays
  <2>. QED BY <2>1, <2>2 DEF Calm
<1>6. \A r \in Requests : Scan(r) => pair'[r].scanned
  BY DEF Scan, Shapes, Pairing
<1>. QED BY <1>1, <1>3, <1>4, <1>5, <1>6 DEF Calm

\* While all is calm only its holder takes a session with a device away.
LEMMA SessionHeld ==
  ASSUME Shapes, LockOK, NoAlarm, Next, session # 0, clients[session].jid
  PROVE  \/ session' = session
         \/ \E r \in Requests : req[r].step = "drop" /\ lock = r
         \/ removal.step = "drop"
<1>1. ~ResumeConnects /\ session \notin leaving
  BY DEF NoAlarm, ResumeConnects
<1>2. \A r \in Requests : DropUnlinked(r) => req[r].step = "drop" /\ lock = r
  BY DEF DropUnlinked, LockOK, UnderLock
<1>3. RemoveDrops => removal.step = "drop"
  BY DEF RemoveDrops, RemoveStep
<1>. QED BY <1>1, <1>2, <1>3, WhoTakesSession

\* The holder of the lock is one.
LEMMA OneHolder ==
  ASSUME LockOK
  PROVE  /\ \A r, t \in Requests :
              req[r].step \in UnderLock /\ req[t].step \in UnderLock => r = t
         /\ removal.step \in {"mute", "logout", "drop"} =>
              \A r \in Requests : req[r].step \notin UnderLock
BY ConstantsAssumption DEF LockOK

LEMMA NoAlarmStays ==
  ASSUME Shapes, Next, NoAlarm, EchoesMuted, ~Resume, \A c : ~LoggedOut(c)
  PROVE  NoAlarm'
<1>0. DOMAIN clients = 1..Len(clients)
  BY LenProperties DEF Shapes
<1>1. ASSUME NEW c \in DOMAIN clients, EchoLogout(c) PROVE UNCHANGED eventVars
  <2>1. clients[c].muted
    BY <1>0, <1>1 DEF EchoLogout, EchoesMuted
  <2>. QED BY <1>1, <2>1 DEF EchoLogout, Heard
<1>2. \A c : ~DropLoggedOut(c)
  BY DEF DropLoggedOut, NoAlarm
<1>3. leaving' = leaving
  BY <1>1, <1>2, Frames DEF Framed, eventVars
<1>4. forgets' = forgets \/ forgets' = FALSE
  BY <1>1, Frames DEF Framed, eventVars
<1>5. resuming' = 0
  BY Frames DEF Framed, NoAlarm
<1>. QED BY <1>3, <1>4, <1>5 DEF NoAlarm

LEMMA EchoesMutedStay ==
  ASSUME Shapes, Pointers, Rest, LockOK, Next, EchoesMuted, RelinkHolds, RemovalHolds, ~Resume
  PROVE  EchoesMuted'
<1>. USE DEF Shapes
<1>. SUFFICES ASSUME NEW c \in 1..Len(clients'), clients'[c].echo
              PROVE  clients'[c].muted /\ (c = session' => HasLoggedOut(c)')
  BY DEF EchoesMuted
<1>0. c \in 1..Len(clients) /\ Len(clients) \in Nat
  BY WhoChanges, LenProperties
<1>1. ASSUME NEW r \in Requests, Unlink(r), c = req[r].client, clients[c].echo PROVE FALSE
  <2>1. req[r].step = "logout" /\ req[r].client = session
    BY <1>1 DEF Unlink, RelinkHolds
  <2>2. HasLoggedOut(c)
    BY <1>0, <1>1, <2>1 DEF EchoesMuted
  <2>. QED BY <2>1, <2>2, OneHolder DEF HasLoggedOut, UnderLock
<1>2. CASE clients[c].echo
  <2>1. clients'[c].muted
    BY <1>0, <1>1, <1>2, WhoChanges DEF EchoesMuted
  <2>2. ASSUME c = session' PROVE HasLoggedOut(c)'
    <3>1. session = c
      <4>1. ASSUME NEW r \in Requests, FindClient(r) \/ FreshClient(r)
            PROVE  session' = session \/ session' = Len(clients) + 1
        BY <4>1 DEF FindClient, FreshClient, NoClient, Obtain
      <4>2. ASSUME NEW d, Forgotten(d) PROVE session' = session \/ session' = 0
        BY <4>2 DEF Forgotten
      <4>3. session' \in {session, 0, Len(clients) + 1}
        BY <4>1, <4>2, Frames DEF Framed
      <4>. QED BY <1>0, <2>2, <4>3
    <3>2. HasLoggedOut(c)
      BY <1>0, <1>2, <3>1 DEF EchoesMuted
    <3>3. ASSUME NEW t \in Requests, req[t].step = "drop", req[t].client = c
          PROVE  req'[t] = req[t]
      <4>1. ~DropUnlinked(t)
        BY <1>0, <2>2, <3>1, <3>3 DEF DropUnlinked, Forgotten
      <4>2. ~(Arrive(t) \/ Resolve(t) \/ OpenPairing(t) \/ Follow(t))
        BY <3>3, <4>1 DEF Arrive, Resolve, TakeLock, FindClient, BringUp, Mute, Unlink,
           ForgetDevice, FreshClient, OpenPairing, BeginPairing, Await, OpenQR, AcquireSlot, Connect,
           Failing, Refuse, Follow, Receive, FollowEnds, Say, ReadSession, SaveRow, Tell
      <4>3. ASSUME NEW r \in Requests, Arrive(r) \/ Resolve(r) \/ OpenPairing(r) \/ Follow(r), r # t
            PROVE  req'[t] = req[t]
        BY <4>3, MoverMoves DEF Moves
      <4>. QED BY <4>2, <4>3, NextCases, ElsewhereMoves
    <3>4. ASSUME removal.step = "drop", removal.client = c PROVE removal' = removal
      <4>1. ~RemoveDrops
        BY <1>0, <2>2, <3>1, <3>4 DEF RemoveDrops, Forgotten
      <4>. QED BY <3>4, <4>1, Frames
             DEF Framed, Remove, RemoveMutes, RemoveLogsOut, RemoveForgets, RemoveStep
    <3>. QED BY <3>2, <3>3, <3>4 DEF HasLoggedOut
  <2>. QED BY <2>1, <2>2
<1>3. CASE ~clients[c].echo
  <2>1. ASSUME NEW r \in Requests, Unlink(r), c = req[r].client, Goto(r, "drop"),
               clients'[c].muted = clients[c].muted
        PROVE  clients'[c].muted /\ HasLoggedOut(c)'
    <3>1. clients[c].muted
      BY <2>1 DEF Unlink, RelinkHolds
    <3>2. req'[r].step = "drop" /\ req'[r].client = c
      BY <2>1 DEF Goto, Request
    <3>. QED BY <2>1, <3>1, <3>2 DEF HasLoggedOut
  <2>2. ASSUME RemoveLogsOut, c = removal.client, clients[c].jid,
               clients'[c].muted = clients[c].muted
        PROVE  clients'[c].muted /\ HasLoggedOut(c)'
    <3>1. clients[c].muted
      BY <1>0, <2>2 DEF RemoveLogsOut, RemoveStep, RemovalHolds
    <3>2. removal'.step = "drop" /\ removal'.client = c
      BY <2>2 DEF RemoveLogsOut, RemoveStep, Pointers, Removal
    <3>. QED BY <2>2, <3>1, <3>2 DEF HasLoggedOut
  <2>. QED BY <1>0, <1>3, <2>1, <2>2, WhoChanges
<1>. QED BY <1>2, <1>3

\* The session of a holder that has not logged it out yet stays as it is.
LEMMA HeldStays ==
  ASSUME Shapes, Rest, LockOK, NoAlarm, Next, \A c : ~LoggedOut(c),
         session # 0, clients[session].jid,
         \/ \E r \in Requests : /\ req[r].step \in {"up", "mute", "logout"}
                                /\ req'[r].step \in {"up", "mute", "logout"}
         \/ removal.step \in {"mute", "logout"} /\ removal'.step \in {"mute", "logout"}
  PROVE  /\ session' = session /\ clients'[session].jid
         /\ clients[session].muted => clients'[session].muted
<1>. USE DEF Shapes
<1>0. session \in 1..Len(clients)
  BY LenProperties
<1>1. ~\E t \in Requests : Unlink(t)
  <2>. SUFFICES ASSUME NEW t \in Requests, Unlink(t) PROVE FALSE
    OBVIOUS
  <2>1. req[t].step = "logout"
    BY DEF Unlink
  <2>2. req'[t].step \in {"drop", "refuse"}
    BY ResolveMoves DEF Keeps, Moves
  <2>. QED BY <2>1, <2>2, OneHolder DEF UnderLock
<1>2. ~RemoveLogsOut
  <2>. SUFFICES ASSUME RemoveLogsOut PROVE FALSE
    OBVIOUS
  <2>1. removal.step = "logout" /\ removal'.step # "mute" /\ removal'.step # "logout"
    BY DEF RemoveLogsOut, RemoveStep, Removal
  <2>. QED BY <2>1, OneHolder DEF UnderLock
<1>3. session' = session
  <2>1. removal.step # "drop"
    BY OneHolder DEF UnderLock
  <2>2. \A t \in Requests : req[t].step # "drop"
    BY OneHolder DEF UnderLock
  <2>. QED BY <2>1, <2>2, SessionHeld
<1>4. clients'[session].jid
  BY <1>0, <1>1, <1>2, WhoUnlinks
<1>5. clients[session].muted => clients'[session].muted
  BY <1>0, <1>1, WhoChanges
<1>. QED BY <1>3, <1>4, <1>5

LEMMA RelinkHoldsStays ==
  ASSUME Shapes, Rest, LockOK, NoAlarm, Next, RelinkHolds, \A c : ~LoggedOut(c)
  PROVE  RelinkHolds'
<1>. USE DEF Shapes
<1>. SUFFICES ASSUME NEW r \in Requests, req'[r].step \in {"up", "mute", "logout"}
              PROVE  /\ session' # 0 /\ req'[r].client = session' /\ clients'[session'].jid
                     /\ req'[r].step = "logout" => clients'[session'].muted
  BY DEF RelinkHolds
<1>1. CASE FindClient(r)
  <2>1. ~NoClient(r)
    BY DEF NoClient, Goto, Request
  <2>2. PICK c \in 1..(Len(clients) + 1) :
          /\ Obtain(c)
          /\ (Takes(r, c, "up") /\ clients'[c].jid) \/ Takes(r, c, "begin")
    BY <1>1, <2>1 DEF FindClient
  <2>3. c # 0
    BY LenProperties
  <2>4. session' = c
    BY <2>2 DEF Obtain
  <2>5. Takes(r, c, "begin") => req'[r].step = "begin"
    BY DEF Takes, Request
  <2>6. Takes(r, c, "up") => req'[r].step = "up" /\ req'[r].client = c
    BY DEF Takes, Request
  <2>. QED BY <2>2, <2>3, <2>4, <2>5, <2>6
<1>2. CASE ~FindClient(r)
  <2>1. /\ req[r].step \in {"up", "mute", "logout"} /\ req'[r].client = req[r].client
        /\ req'[r].step = "logout" => req[r].step = "logout" \/ Mute(r)
    <3>1. CASE req'[r] = req[r]
      BY <3>1
    <3>2. ASSUME NEW t \in Requests, Arrive(t) \/ Resolve(t) \/ OpenPairing(t) \/ Follow(t), t # r
          PROVE  req'[r] = req[r]
      BY <3>2, MoverMoves DEF Moves
    <3>3. ASSUME Arrive(r) \/ OpenPairing(r) \/ Follow(r) PROVE FALSE
      <4>1. \E s \in {"resolve", "refuse", "open", "await", "slot", "connect", "failing", "done"} \cup FollowSteps :
              Moves(r, s)
        BY <3>3, OpenMoves, FollowMoves DEF OpenPairing, Keeps, Waits, FollowSteps
      <4>. QED BY <4>1 DEF Moves, FollowSteps
    <3>4. ASSUME TakeLock(r) \/ FreshClient(r) \/ Unlink(r) \/ DropUnlinked(r) \/ ForgetDevice(r)
          PROVE  FALSE
      BY <3>4, ResolveMoves, FreshMoves DEF Keeps, Gets, Moves
    <3>5. CASE BringUp(r)
      BY <3>5, ResolveMoves DEF BringUp, Keeps, Moves
    <3>6. CASE Mute(r)
      BY <3>6, ResolveMoves DEF Mute, Keeps, Moves
    <3>. QED BY <1>2, <3>1, <3>2, <3>3, <3>4, <3>5, <3>6, NextCases, ElsewhereMoves DEF Resolve
  <2>2. session # 0 /\ req[r].client = session /\ clients[session].jid
    BY <2>1 DEF RelinkHolds
  <2>3. /\ session' = session /\ clients'[session].jid
        /\ clients[session].muted => clients'[session].muted
    BY <2>1, <2>2, HeldStays
  <2>4. ASSUME Mute(r) PROVE clients'[session].muted
    <3>1. session \in 1..Len(clients) /\ clients \in [1..Len(clients) -> Client]
      BY <2>2, LenProperties
    <3>. QED BY <2>2, <2>4, <3>1 DEF Mute, Silence, Client
  <2>. QED BY <2>1, <2>2, <2>3, <2>4 DEF RelinkHolds
<1>. QED BY <1>1, <1>2

LEMMA RemovalHoldsStays ==
  ASSUME Shapes, Pointers, Rest, LockOK, NoAlarm, Next, RemovalHolds, Calm'
  PROVE  RemovalHolds'
<1>. USE DEF Shapes
<1>0. /\ spent["remove"] \in Nat /\ spent'["remove"] \in Nat
      /\ spent'["remove"] >= spent["remove"]
      /\ \A c : ~LoggedOut(c)
      /\ spent["remove"] > 0 => \A r \in Requests : ~Scan(r)
  BY CalmBefore
<1>1. ASSUME removal'.step # "idle" PROVE spent'["remove"] > 0
  <2>1. CASE Remove
    BY <2>1, <1>0 DEF Remove, Fault, Rest, Faults
  <2>2. CASE removal.step # "idle"
    BY <1>0, <2>2 DEF RemovalHolds
  <2>3. RemoveMutes \/ RemoveLogsOut \/ RemoveDrops \/ RemoveForgets => removal.step # "idle"
    BY DEF RemoveMutes, RemoveLogsOut, RemoveDrops, RemoveForgets, RemoveStep
  <2>. QED BY <1>1, <2>1, <2>2, <2>3, Frames DEF Framed
<1>2. ASSUME removal'.step \in {"mute", "logout"}, removal'.client # 0,
             clients'[removal'.client].jid
      PROVE  /\ removal'.client = session'
             /\ removal'.step = "logout" => clients'[session'].muted
  <2>1. CASE Remove
    <3>1. removal'.client = session /\ removal'.step # "logout" /\ session' = session
      BY <2>1 DEF Remove
    <3>. QED BY <3>1
  <2>2. CASE ~Remove
    <3>1. /\ removal.step \in {"mute", "logout"} /\ removal'.client = removal.client
          /\ removal'.step = "logout" => removal.step = "logout" \/ RemoveMutes
      <4>1. CASE removal' = removal
        BY <1>2, <4>1
      <4>2. CASE RemoveMutes
        BY <4>2 DEF RemoveMutes, RemoveStep, Removal, Pointers
      <4>3. RemoveLogsOut \/ RemoveDrops \/ RemoveForgets => removal'.step \notin {"mute", "logout"}
        BY DEF RemoveLogsOut, RemoveDrops, RemoveForgets, RemoveStep, Removal, Pointers
      <4>. QED BY <1>2, <2>2, <4>1, <4>2, <4>3, Frames DEF Framed
    <3>2. removal.client \in 1..Len(clients)
      BY <1>2, <3>1, LenProperties DEF Pointers
    <3>3. clients[removal.client].jid
      <4>1. \A r \in Requests : ~Scan(r)
        BY <1>0, <3>1 DEF RemovalHolds
      <4>. QED BY <1>2, <3>1, <3>2, <4>1, WhoChanges
    <3>4. removal.client = session /\ (removal.step = "logout" => clients[session].muted)
      BY <1>2, <3>1, <3>3 DEF RemovalHolds
    <3>5. session # 0 /\ clients[session].jid
      BY <1>2, <3>1, <3>3, <3>4
    <3>6. session' = session /\ (clients[session].muted => clients'[session].muted)
      BY <1>0, <1>2, <3>1, <3>5, HeldStays
    <3>7. ASSUME RemoveMutes PROVE clients'[session].muted
      <4>1. session \in 1..Len(clients) /\ clients \in [1..Len(clients) -> Client]
        BY <3>5, LenProperties
      <4>. QED BY <3>4, <3>7, <4>1 DEF RemoveMutes, Silence, Client
    <3>. QED BY <3>1, <3>4, <3>6, <3>7
  <2>. QED BY <2>1, <2>2
<1>. QED BY <1>1, <1>2 DEF RemovalHolds

LEMMA MuffledStays ==
  ASSUME Shapes, Pointers, Rest, LockOK, Muffled, Next
  PROVE  Muffled'
<1>. SUFFICES ASSUME Calm' PROVE (NoAlarm /\ EchoesMuted /\ RelinkHolds /\ RemovalHolds)'
  BY DEF Muffled
<1>1. Calm /\ ~Resume /\ \A c : ~LoggedOut(c)
  BY CalmBefore
<1>2. NoAlarm /\ EchoesMuted /\ RelinkHolds /\ RemovalHolds
  BY <1>1 DEF Muffled
<1>. QED
  BY <1>1, <1>2, NoAlarmStays, EchoesMutedStay, RelinkHoldsStays, RemovalHoldsStays

-----------------------------------------------------------------------------
(* The theorems.                                                            *)

IInv == /\ Shapes /\ Pointers /\ Rest /\ LockOK
        /\ Begun /\ Owned /\ Silenced /\ Answered /\ Dropped /\ Muffled

LEMMA TypesArePartsOfIInv ==
  ASSUME IInv PROVE TypeOK
<1>1. DOMAIN clients = 1..Len(clients)
  BY LenProperties DEF IInv, Shapes
<1>. QED BY <1>1 DEF IInv, Shapes, Pointers, Rest, LockOK, TypeOK

LEMMA InitIInv ==
  ASSUME Init PROVE IInv
<1>. USE ConstantsAssumption
<1>1. NewRequest \in Request /\ NewPairing \in Pairing
  BY DEF NewRequest, Request, Steps, Kind, NewPairing, Pairing, Workers
<1>2. /\ req \in [Requests -> Request] /\ pair \in [Requests -> Pairing]
      /\ \A r \in Requests : req[r].step = "new" /\ req[r].client = 0 /\ pair[r].worker = "none"
  BY <1>1 DEF Init, NewRequest, NewPairing
<1>3. /\ clients \in Seq(Client) /\ session \in 0..Len(clients)
      /\ session # 0 => ~clients[session].muted
      /\ linked \in SUBSET Nat /\ row \in Nat /\ Len(clients) \in Nat
  <2>1. CASE clients = <<>> /\ session = 0 /\ linked = {} /\ row = 0
    BY <2>1
  <2>2. ASSUME NEW e \in Client, e.muted = FALSE, clients = <<e>>, session \in {0, 1},
               linked = {1}, row = 1
        PROVE  /\ clients \in Seq(Client) /\ session \in 0..Len(clients)
               /\ session # 0 => ~clients[session].muted
               /\ linked \in SUBSET Nat /\ row \in Nat /\ Len(clients) \in Nat
    BY <2>2
  <2>3. \A up \in BOOLEAN : /\ [ClientOf(1, TRUE) EXCEPT !.up = up] \in Client
                            /\ [ClientOf(1, TRUE) EXCEPT !.up = up].muted = FALSE
    BY DEF ClientOf, Client
  <2>4. ClientOf(1, TRUE) \in Client /\ ClientOf(1, TRUE).muted = FALSE
    BY DEF ClientOf, Client
  <2>. QED BY <2>1, <2>2, <2>3, <2>4 DEF Init
<1>4. Shapes
  BY <1>2, <1>3 DEF Init, Shapes
<1>5. Pointers
  BY <1>2, <1>3 DEF Init, Pointers, Removal
<1>6. Rest
  BY <1>3 DEF Init, Rest
<1>7. LockOK
  BY <1>2 DEF Init, LockOK, UnderLock
<1>8. Begun /\ Owned /\ Silenced
  BY <1>2, <1>3 DEF Init, Begun, Owned, Live, Silenced
<1>9. Answered /\ Dropped
  BY <1>2 DEF Init, NewRequest, Answered, Answers, Dropped, Over
<1>10. Muffled
  <2>1. \A c \in 1..Len(clients) : ~clients[c].echo
    <3>1. CASE clients = <<>>
      BY <3>1
    <3>2. ASSUME NEW e, e.echo = FALSE, clients = <<e>> PROVE \A c \in 1..Len(clients) : ~clients[c].echo
      BY <3>2
    <3>3. \A up \in BOOLEAN : [ClientOf(1, TRUE) EXCEPT !.up = up].echo = FALSE
      BY DEF ClientOf
    <3>4. ClientOf(1, TRUE).echo = FALSE
      BY DEF ClientOf
    <3>. QED BY <3>1, <3>2, <3>3, <3>4 DEF Init
  <2>2. EchoesMuted
    BY <2>1 DEF EchoesMuted
  <2>3. NoAlarm /\ RelinkHolds /\ RemovalHolds
    BY <1>2 DEF Init, NoAlarm, RelinkHolds, RemovalHolds
  <2>. QED BY <2>2, <2>3 DEF Muffled
<1>. QED BY <1>4, <1>5, <1>6, <1>7, <1>8, <1>9, <1>10 DEF IInv

LEMMA NextIInv ==
  ASSUME IInv, [Next]_vars PROVE IInv'
<1>1. CASE Next
  <2>1. Pointers' /\ Rest' /\ Silenced'
    BY <1>1, PointersStay, RestStays, SilencedStays DEF IInv, Rest
  <2>2. clients' \in Seq(Client) /\ Len(clients') \in Nat
    BY <1>1, ClientsTyped, ClientsGrow DEF IInv, Shapes, Rest
  <2>3. pair' \in [Requests -> Pairing]
    BY <1>1, PairTyped DEF IInv, Shapes
  <2>4. req' \in [Requests -> Request]
    BY <1>1, RequestsMove DEF IInv, Shapes, Keeps, Gets, Waits, Moves
  <2>5. Shapes'
    BY <2>1, <2>2, <2>3, <2>4 DEF Shapes, Pointers, Rest
  <2>6. LockOK'
    BY <1>1, LockOwned DEF IInv, Shapes, Pointers
  <2>7. Begun' /\ Owned'
    BY <1>1, <2>2, BegunStays, OwnedStays DEF IInv
  <2>8. Answered' /\ Dropped'
    BY <1>1, AnsweredStays, DroppedStays DEF IInv
  <2>9. Muffled'
    BY <1>1, MuffledStays DEF IInv
  <2>. QED BY <2>1, <2>5, <2>6, <2>7, <2>8, <2>9 DEF IInv
<1>2. CASE UNCHANGED vars
  BY <1>2 DEF IInv, Shapes, Pointers, Rest, LockOK, Begun, Owned, Live, Silenced, Silencing,
     Removing, Answered, Answers, Dropped, Over, Excused, FailedRelink, Muffled, Calm, NoAlarm,
     EchoesMuted, HasLoggedOut, RelinkHolds, RemovalHolds, vars, reqVars, managerVars, deviceVars,
     eventVars, otherVars
<1>. QED BY <1>1, <1>2

\* Every reachable state of the pair requests satisfies the inductive invariant:
\* it holds at first, and each handler's and goroutine's step preserves it.
THEOREM Invariance == Spec => []IInv
<1>1. Init => IInv
  BY InitIInv
<1>2. IInv /\ [Next]_vars => IInv'
  BY NextIInv
<1>. QED BY <1>1, <1>2, PTL DEF Spec

\* The variables keep their types, and the lock of the channel is held exactly
\* from pairingClient's first line to its return, and by Remove.
THEOREM TypeCorrect == Spec => []TypeOK
<1>1. IInv => TypeOK
  BY TypesArePartsOfIInv
<1>. QED BY <1>1, Invariance, PTL

\* One pairing of a channel runs at a time: a live one is the registered one.
THEOREM OnePairing == Spec => []OneAtATime
<1>1. IInv => OneAtATime
  BY DEF IInv, Owned, OneAtATime
<1>. QED BY <1>1, Invariance, PTL

\* A session is muted only while a relink or a removal holds the lock of its
\* channel.
THEOREM EventsHeard == Spec => []SessionIsHeard
<1>1. IInv => SessionIsHeard
  BY ConstantsAssumption DEF IInv, LockOK, Silenced, Silencing, Removing, SessionIsHeard, UnderLock
<1>. QED BY <1>1, Invariance, PTL

\* A pairing that is over leaves its client as the session only with a device, or when
\* a logout by the phone fell into a relink that failed.
THEOREM PairingsCleanUp == Spec => []NoSessionLeft
<1>1. IInv => NoSessionLeft
  <2>. SUFFICES ASSUME IInv, Quiet, NEW r \in Requests, pair[r].worker = "done",
                       session # 0, session = req[r].client
                PROVE  C(r).jid \/ RelinkFailed
    BY DEF NoSessionLeft
  <2>1. clients[session].jid \/ Excused
    BY DEF IInv, Dropped, Over
  <2>2. Excused => RelinkFailed
    BY DEF Quiet, Excused, Removing, Silencing, FailedRelink, RelinkFailed
  <2>. QED BY <2>1, <2>2 DEF C
<1>. QED BY <1>1, Invariance, PTL

\* Until a resume raced it, or a removal logged out a device that a phone linked behind
\* its back, only a logout by the phone makes the gateway forget the channel: the logout
\* that a relink or a removal asks for is told to a client that is muted.
THEOREM RelinksAreQuiet == Spec => []QuietUnlessResumed
<1>1. IInv => QuietUnlessResumed
  <2>1. IInv => spent["logout"] \in Nat /\ spent["remove"] \in Nat
    BY DEF IInv, Rest, Faults
  <2>. QED BY <2>1 DEF IInv, Muffled, Calm, NoAlarm, QuietUnlessResumed
<1>. QED BY <1>1, Invariance, PTL
=============================================================================
