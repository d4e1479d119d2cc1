----------------------------- MODULE ChannelState -----------------------------
(***************************************************************************)
(* What the gateway knows of one channel besides its session: the row of   *)
(* gateway_channel_sessions and its copy in memory (settings of a version, *)
(* and whether the logout was told). The settings consumer, commands that  *)
(* find no session (ensureChannelConnected), pair commands, logouts and    *)
(* restarts read and write them without a common lock.                     *)
(*                                                                         *)
(* Settings are known by their version. Every command here comes from the  *)
(* tenant of the channel.                                                  *)
(***************************************************************************)
EXTENDS Naturals

CONSTANTS
  MaxVersion,  \* bound of settingsVersion
  Connectors,  \* commands of the channel (send, call, group, rpc) at one time
  LogoutLanes, \* events.LoggedOut of one device at one time
  Budget       \* bound: how many events of each kind

ChannelEvents == {"command", "connect", "pair", "logout", "fault"}

\* What the constants have to be.
ChannelConstants ==
  MaxVersion \in Nat /\ Budget \in [ChannelEvents -> Nat]

VARIABLES
  stored,    \* the row of the channel
  memory,    \* version of the settings in channelsettings.Map, 0 the defaults
  told,      \* loggedOut
  session,   \* the session manager has a client
  handler,   \* SettingsHandler of the command at work
  connector, \* ensureChannelConnected
  logout,    \* handleSessionEvent of events.LoggedOut
  behind,    \* ghost: memory may be older than the row
  tellings,  \* history: how often a logout was told
  rearmed,   \* history: pair commands and starts
  used       \* how much of Budget is used

commandVars == <<handler, connector, logout>>
channelVars == <<stored, memory, told, session, commandVars, behind, tellings, rearmed, used>>

-----------------------------------------------------------------------------
Versions == 1..MaxVersion
NoStored == [paired |-> FALSE, version |-> 0]
Stored == [paired : BOOLEAN, version : 0..MaxVersion]

Occurs(e) == used[e] < Budget[e] /\ used' = [used EXCEPT ![e] = @ + 1]
Calm == UNCHANGED used

Quiet == handler = [step |-> "idle", version |-> 0]

Newer(v) == v >= stored.version

-----------------------------------------------------------------------------
(* SettingsHandler, one command at a time; a redelivery or a reinjection    *)
(* brings back any version.                                                 *)

SettingsFrame == UNCHANGED <<told, connector, logout, tellings, rearmed>>
Handler(step, v) == handler' = [step |-> step, version |-> v]

\* A version below the one in memory is ignored.
SettingsCommand(v) ==
  /\ Quiet /\ Occurs("command")
  /\ IF v < memory THEN UNCHANGED handler ELSE Handler("save", v)
  /\ SettingsFrame /\ UNCHANGED <<stored, memory, session, behind>>

\* saveSettingsSQL: a row of a higher version is left alone; without a row the
\* settings are kept in memory only.
Updates(v) == stored.paired /\ Newer(v)

\* Mutant: SettingsStale is taken for SettingsSaved.
ContinuesAnyway(v) == TRUE
Continues(v) == ~stored.paired \/ Newer(v)

SaveSettings ==
  /\ handler.step = "save"
  /\ LET v == handler.version
         written == [stored EXCEPT !.version = v] IN
     \/ /\ Calm /\ stored' = IF Updates(v) THEN written ELSE stored
        /\ IF Continues(v) THEN Handler("set", v) ELSE Handler("idle", 0)
        /\ UNCHANGED behind
     \/ /\ Occurs("fault") /\ (stored' = stored \/ (Updates(v) /\ stored' = written))
        /\ Handler("idle", 0) /\ behind' = TRUE
  /\ SettingsFrame /\ UNCHANGED <<memory, session>>

SetSettings ==
  /\ handler.step = "set" /\ memory' = handler.version /\ Handler("idle", 0) /\ Calm
  /\ behind' = FALSE
  /\ SettingsFrame /\ UNCHANGED <<stored, session>>

\* The channel was removed: Manager.Remove, then forgetChannel as for a logout.
RemoveCommand ==
  /\ Quiet /\ Occurs("command") /\ Handler("forget", 0) /\ session' = FALSE
  /\ SettingsFrame /\ UNCHANGED <<stored, memory, behind>>

Forget ==
  /\ handler.step = "forget" /\ Handler("delete", 0) /\ memory' = 0 /\ behind' = TRUE /\ Calm
  /\ SettingsFrame /\ UNCHANGED <<stored, session>>

\* registry.Delete; a failure is only logged.
DeleteRow ==
  /\ handler.step = "delete" /\ Handler("idle", 0)
  /\ \/ Calm /\ stored' = NoStored
     \/ Occurs("fault") /\ UNCHANGED stored
  /\ SettingsFrame /\ UNCHANGED <<memory, session, behind>>

-----------------------------------------------------------------------------
(* ensureChannelConnected of a channel without a session.                   *)

ConnectFrame == UNCHANGED <<stored, told, handler, logout, tellings, rearmed>>

Lookup(k) ==
  /\ connector[k].step = "idle" /\ ~session /\ stored.paired /\ Occurs("connect")
  /\ connector' = [connector EXCEPT ![k] = [step |-> "set", version |-> stored.version]]
  /\ ConnectFrame /\ UNCHANGED <<memory, session, behind>>

\* What was read may be older than what has been stored and set meanwhile.
SetRead(k) ==
  /\ connector[k].step = "set" /\ memory' = connector[k].version /\ Calm
  /\ connector' = [connector EXCEPT ![k].step = "resume"]
  /\ behind' = (behind \/ connector[k].version < stored.version)
  /\ ConnectFrame /\ UNCHANGED session

\* Manager.Resume, which may fail.
ResumeOnDemand(k) ==
  /\ connector[k].step = "resume"
  /\ connector' = [connector EXCEPT ![k] = [step |-> "idle", version |-> 0]]
  /\ session' \in {session, TRUE}
  /\ Calm /\ ConnectFrame /\ UNCHANGED <<memory, behind>>

-----------------------------------------------------------------------------
(* Pairing and logout.                                                      *)

EventFrame == UNCHANGED <<handler, connector>>

\* PairHandler begins: the next logout will be told again.
PairCommand ==
  /\ Occurs("pair") /\ told' = FALSE /\ rearmed' = rearmed + 1
  /\ EventFrame /\ UNCHANGED <<stored, memory, session, logout, behind, tellings>>

\* persistSession once the phone has linked: a new row has the default settings.
Paired ==
  /\ used["pair"] > 0 /\ ~stored.paired /\ Calm
  /\ stored' = [paired |-> TRUE, version |-> 0] /\ session' = TRUE
  /\ EventFrame /\ UNCHANGED <<memory, told, logout, behind, tellings, rearmed>>

LogoutTo(n, step) == logout' = [logout EXCEPT ![n] = step]

\* LoadOrStore decides who tells the logout.
\* Mutant: the flag is looked at and never stored.
NeverMarks == UNCHANGED told
Marks == told' = TRUE

LoggedOut(n) ==
  /\ logout[n] = "idle" /\ session /\ Occurs("logout") /\ Marks
  /\ LogoutTo(n, IF told THEN "forget" ELSE "status")
  /\ EventFrame /\ UNCHANGED <<stored, memory, session, behind, tellings, rearmed>>

TellLogout(n) ==
  /\ logout[n] = "status" /\ LogoutTo(n, "forget") /\ Calm /\ tellings' = tellings + 1
  /\ EventFrame /\ UNCHANGED <<stored, memory, told, session, behind, rearmed>>

\* forgetChannel; the session goes meanwhile (Manager.drop).
ForgetLoggedOut(n) ==
  /\ logout[n] = "forget" /\ LogoutTo(n, "delete") /\ memory' = 0 /\ behind' = TRUE
  /\ session' = FALSE /\ Calm
  /\ EventFrame /\ UNCHANGED <<stored, told, tellings, rearmed>>

DeleteLoggedOut(n) ==
  /\ logout[n] = "delete" /\ LogoutTo(n, "idle")
  /\ \/ Calm /\ stored' = NoStored
     \/ Occurs("fault") /\ UNCHANGED stored
  /\ EventFrame /\ UNCHANGED <<memory, told, session, behind, tellings, rearmed>>

\* The process ends and another sets the channel's settings and resumes it, which
\* may fail; it does neither when it cannot list the rows.
Restart ==
  /\ Occurs("fault") /\ handler' = [step |-> "idle", version |-> 0]
  /\ connector' = [k \in Connectors |-> [step |-> "idle", version |-> 0]]
  /\ logout' = [n \in LogoutLanes |-> "idle"]
  /\ told' = FALSE /\ rearmed' = rearmed + 1
  /\ \/ memory' = stored.version /\ session' \in {FALSE, stored.paired} /\ behind' = FALSE
     \/ memory' = 0 /\ session' = FALSE /\ behind' = TRUE
  /\ UNCHANGED <<stored, tellings>>

ChannelRest == Quiet /\ UNCHANGED channelVars

-----------------------------------------------------------------------------
ChannelInit ==
  /\ stored = [paired |-> TRUE, version |-> 0] /\ memory = 0 /\ told = FALSE /\ session = TRUE
  /\ handler = [step |-> "idle", version |-> 0]
  /\ connector = [k \in Connectors |-> [step |-> "idle", version |-> 0]]
  /\ logout = [n \in LogoutLanes |-> "idle"] /\ behind = FALSE /\ tellings = 0 /\ rearmed = 0
  /\ used = [e \in ChannelEvents |-> 0]

ChannelNext ==
  \/ \E v \in Versions : SettingsCommand(v)
  \/ SaveSettings \/ SetSettings \/ RemoveCommand \/ Forget \/ DeleteRow
  \/ \E k \in Connectors : Lookup(k) \/ SetRead(k) \/ ResumeOnDemand(k)
  \/ PairCommand \/ Paired \/ Restart \/ ChannelRest
  \/ \E n \in LogoutLanes : LoggedOut(n) \/ TellLogout(n) \/ ForgetLoggedOut(n) \/ DeleteLoggedOut(n)

ChannelSpec == ChannelInit /\ [][ChannelNext]_channelVars

-----------------------------------------------------------------------------
(* Properties.                                                              *)

ChannelTypes ==
  /\ stored \in Stored /\ memory \in 0..MaxVersion /\ told \in BOOLEAN /\ session \in BOOLEAN
  /\ handler \in [step : {"idle", "save", "set", "forget", "delete"}, version : 0..MaxVersion]
  /\ connector \in [Connectors -> [step : {"idle", "set", "resume"}, version : 0..MaxVersion]]
  /\ logout \in [LogoutLanes -> {"idle", "status", "forget", "delete"}]
  /\ behind \in BOOLEAN /\ tellings \in Nat /\ rearmed \in Nat /\ used \in [ChannelEvents -> Nat]

\* Between commands, memory has settings no older than the row's, unless a command
\* resumed the channel with what it had read before, the registry failed,
\* or the channel is being forgotten.
MemoryKeepsUp ==
  Quiet /\ stored.paired /\ ~behind => memory >= stored.version

\* A logout is told once, and once more for every pair command or start since,
\* however many clients and events report it.
LogoutToldOnce == tellings <= 1 + rearmed
=============================================================================
