------------------------------ MODULE MCShared ------------------------------
(***************************************************************************)
(* The smaller components, which share no state, checked in one run: the   *)
(* initial state picks the subject, and only its module takes steps.       *)
(* All but the last two are extended, so that the run checks the very      *)
(* properties that are proved of some of them.                             *)
(***************************************************************************)
EXTENDS PairingSlot, ShardOwnership, CallReply, ChannelState, InfoCache, RpcServer, CallAudio,
        FiniteSetsExt

CONSTANT Subjects

\* HistoryTranslate
CONSTANTS MediaConcurrency, MaxMessages, MaxBytes, Envelope, Header

VARIABLES
  subject,
  chunk, built, packing,
  arrival, outcome

textsVars == <<chunk, built, packing>>
inboundVars == <<arrival, outcome>>

\* The callers of the rings are known by their number, their LID, then both.
MCKnownAs ==
  [r \in Rings |-> CASE r = 1 -> {"lid"} [] r = 2 -> {"pn"} [] OTHER -> {"lid", "pn"}]
MCBudget ==
  [e \in {"command", "connect", "pair", "logout", "fault"} |->
     IF e \in {"command", "logout"} THEN 2 ELSE 1]
MCOperationOf == [r \in Requests |-> "contacts"]

\* Chunks of up to two chats and two messages, and one of two chats with three.
HistoryMessages ==
  {[fate |-> "fine", size |-> s] : s \in {1, 3, 9}} \cup
  {[fate |-> f, size |-> 1] : f \in {"skipped", "old"}}
HistoryChats ==
  {[kind |-> "private", messages |-> ms] : ms \in UNION {[1..n -> HistoryMessages] : n \in 0..2}} \cup
  {[kind |-> k, messages |-> <<[fate |-> "fine", size |-> 1]>>] : k \in {"other", "phoneless"}}
LongChat == [kind |-> "private", messages |-> [p \in 1..3 |-> [fate |-> "fine", size |-> 1]]]
MCChunks == {<<c>> : c \in HistoryChats} \cup {<<LongChat, c>> : c \in HistoryChats} \cup {<<LongChat, LongChat>>}

\* Events: every pair of fields; every part alone; senders, wrappings and receipts apart.
Letter ==
  [event |-> "message", chatServer |-> "pn", fromMe |-> FALSE, sender |-> "pn", alt |-> "none",
   stored |-> FALSE, session |-> TRUE, listenGroups |-> TRUE, wraps |-> 0, comment |-> FALSE,
   commentWraps |-> 0, msg |-> [fields |-> {"conversation"}, parts |-> {"body"}],
   mediaFails |-> FALSE, receipt |-> "read", ids |-> 0]
In == INSTANCE InboundEvents WITH Arrivals <- {Letter}
MessageFields ==
  Range(In!Order) \cup In!SilentNotices \cup In!KeyFields \cup
  {"secretEncrypted", "pollUpdate", "protocol", "invoice"}
Parts == UNION Range(In!Suffices) \cup {"target", "secret", "edit", "revoke", "ptt", "interactive"}
MCArrivals ==
  {[Letter EXCEPT !.msg = [fields |-> {f, g}, parts |-> p], !.mediaFails = m] :
     f \in MessageFields, g \in MessageFields, p \in {{}, Parts}, m \in BOOLEAN} \cup
  {[Letter EXCEPT !.msg = [fields |-> {f}, parts |-> {p, q}]] : f \in MessageFields, p \in Parts, q \in Parts} \cup
  {[Letter EXCEPT !.chatServer = c, !.fromMe = me, !.sender = s, !.alt = a, !.stored = k,
                  !.listenGroups = l, !.session = o] :
     c \in {"pn", "lid", "group", "broadcast"}, me \in BOOLEAN, s \in {"pn", "lid"},
     a \in {"none", "pn", "lid"}, k \in BOOLEAN, l \in BOOLEAN, o \in BOOLEAN} \cup
  {[Letter EXCEPT !.wraps = w, !.comment = c, !.commentWraps = i] :
     w \in 0..9, c \in BOOLEAN, i \in {0, 8, 9}} \cup
  {[Letter EXCEPT !.event = "receipt", !.chatServer = c, !.receipt = r, !.ids = n, !.listenGroups = l] :
     c \in {"pn", "group", "broadcast"}, r \in {"delivered", "read", "other"}, n \in 0..2, l \in BOOLEAN} \cup
  {[Letter EXCEPT !.event = e, !.session = o] : e \in DOMAIN In!ChannelStatus, o \in BOOLEAN}

Texts == INSTANCE HistoryTranslate WITH Chunks <- MCChunks
NoTexts == INSTANCE HistoryTranslate WITH Chunks <- {<<>>}
Inbound == INSTANCE InboundEvents WITH Arrivals <- MCArrivals

ASSUME SharedAssumption ==
  /\ PairingConstants /\ OwnershipConstants /\ ReplyConstants /\ ChannelConstants
  /\ CacheConstants /\ RpcConstants /\ AudioConstants
  /\ Texts!TranslateConstants /\ Inbound!InboundConstants

vars == <<subject, slotVars, shardVars, replyVars, channelVars, cacheVars, rpcVars, audioVars, textsVars, inboundVars>>

Init ==
  /\ subject \in Subjects
  /\ SlotInit /\ OwnershipInit /\ ReplyInit /\ ChannelInit /\ CacheInit /\ RpcInit /\ AudioInit
  /\ IF subject = "texts" THEN Texts!Init ELSE NoTexts!Init
  /\ IF subject = "inbound" THEN Inbound!Init ELSE In!Init

NotSlot  == UNCHANGED <<subject, shardVars, replyVars, channelVars, cacheVars, rpcVars, audioVars, textsVars, inboundVars>>
NotShard == UNCHANGED <<subject, slotVars, replyVars, channelVars, cacheVars, rpcVars, audioVars, textsVars, inboundVars>>
NotReply == UNCHANGED <<subject, slotVars, shardVars, channelVars, cacheVars, rpcVars, audioVars, textsVars, inboundVars>>
NotState == UNCHANGED <<subject, slotVars, shardVars, replyVars, cacheVars, rpcVars, audioVars, textsVars, inboundVars>>
NotCache == UNCHANGED <<subject, slotVars, shardVars, replyVars, channelVars, rpcVars, audioVars, textsVars, inboundVars>>
NotRpc   == UNCHANGED <<subject, slotVars, shardVars, replyVars, channelVars, cacheVars, audioVars, textsVars, inboundVars>>
NotAudio == UNCHANGED <<subject, slotVars, shardVars, replyVars, channelVars, cacheVars, rpcVars, textsVars, inboundVars>>
NotTexts  == UNCHANGED <<subject, slotVars, shardVars, replyVars, channelVars, cacheVars, rpcVars, audioVars, inboundVars>>
NotInbound == UNCHANGED <<subject, slotVars, shardVars, replyVars, channelVars, cacheVars, rpcVars, audioVars, textsVars>>

Next ==
  \/ subject = "slot" /\ SlotNext /\ NotSlot
  \/ subject = "shards" /\ OwnershipNext /\ NotShard
  \/ subject = "reply" /\ ReplyNext /\ NotReply
  \/ subject = "state" /\ ChannelNext /\ NotState
  \/ subject = "cache" /\ CacheNext /\ NotCache
  \/ subject = "rpc" /\ RpcNext /\ NotRpc
  \/ subject = "audio" /\ AudioNext /\ NotAudio
  \/ subject = "texts" /\ Texts!Next /\ NotTexts
  \/ subject = "inbound" /\ Inbound!Next /\ NotInbound

Served    == subject = "rpc" /\ Serving /\ NotRpc
Living    == subject = "rpc" /\ RpcLife /\ NotRpc
Delivered == subject = "rpc" /\ Delivering /\ NotRpc

Spec == Init /\ [][Next]_vars /\ WF_vars(Served) /\ WF_vars(Living) /\ SF_vars(Delivered)

-----------------------------------------------------------------------------
\* Types of every subject.
Types ==
  /\ SlotTypes /\ OwnershipTypes /\ ReplyTypes /\ ChannelTypes
  /\ CacheTypes /\ RpcTypes /\ AudioTypes /\ Texts!TranslateTypes /\ Inbound!InboundTypes

\* HistoryTranslate.
BatchesWhole == Texts!BatchesWhole
\* InboundEvents.
EventsFaithful == Inbound!EventsFaithful
=============================================================================
