---------------------------- MODULE InboundEvents ----------------------------
(***************************************************************************)
(* What the gateway makes of an event of WhatsApp (handleSessionEvent):    *)
(* messages become inbound events (mapper/inbound.go, secrets.go), receipts*)
(* statuses, and what happens to the socket a status of the channel.       *)
(*                                                                         *)
(* A message is the set of its fields and the parts of them that are not   *)
(* empty. Texts, keys and amounts are left out.                            *)
(***************************************************************************)
EXTENDS Naturals, Sequences, FiniteSets, SequencesExt

CONSTANT Arrivals  \* the events that come in: records of the fields used below

InboundConstants == \A a \in Arrivals : a.ids \in Nat

VARIABLES
  arrival,
  outcome   \* whether it was handled, and the events published for it

vars == <<arrival, outcome>>

-----------------------------------------------------------------------------
(* Fields of a message.                                                     *)

\* The order of the switch in buildInbound.
Order ==
  <<"conversation", "extendedText", "reaction", "image", "video", "audio", "document", "location",
    "contact", "contactsArray", "sticker", "ptv", "liveLocation", "buttonsResponse", "listResponse",
    "templateButtonReply", "interactiveResponse", "poll", "buttons", "template", "list",
    "interactive", "product", "order", "event", "groupInvite", "richResponse", "requestPayment">>

Media == {"image", "video", "audio", "document", "sticker", "ptv"}

SilentNotices ==
  {"messageHistoryNotice", "messageHistoryBundle", "encReaction", "encComment", "encEventResponse",
   "pinInChat", "placeholder", "album", "groupStatus", "groupStatusMention", "statusMention"}

\* contentFieldIgnore.
KeyFields == {"senderKeyDistribution", "fastRatchetKey", "messageContextInfo"}

\* The parts of a rich content of which one, not empty, is enough to show it.
Suffices ==
  [poll |-> {"name", "options"}, buttons |-> {"body", "footer", "buttons"},
   template |-> {"body", "title", "footer", "buttons"},
   list |-> {"body", "footer", "buttonText", "sections"},
   interactive |-> {"body", "footer", "buttons", "sections", "payment"},
   product |-> {"title"}, order |-> {"orderID"}, event |-> {"name"},
   richResponse |-> {"text"}, requestPayment |-> {"amount", "body"}]

\* What is rich is published under the kind it builds; polls and answers of bots are
\* skipped when there is nothing to show, the others become unsupported.
KindOfRich ==
  [buttons |-> "buttons", template |-> "buttons", list |-> "list", interactive |-> "interactive",
   product |-> "product", order |-> "order", event |-> "event", requestPayment |-> "interactive"]

\* A template may hold an interactive message; then that is what is built.
RichAs(field, parts) == IF field = "template" /\ "interactive" \in parts THEN "interactive" ELSE field

TypeOf ==
  [f \in Range(Order) |->
     CASE f \in {"conversation", "extendedText", "buttonsResponse", "listResponse",
                 "templateButtonReply", "interactiveResponse", "groupInvite", "richResponse"} -> "text"
       [] f \in {"video", "ptv"} -> "video"
       [] f \in {"location", "liveLocation"} -> "location"
       [] f \in {"contact", "contactsArray"} -> "contacts"
       [] OTHER -> f]

MaxUnwrapDepth == 8

-----------------------------------------------------------------------------
(* buildInbound: the type of the event, Skip, or Failed.                    *)

Skip == "skip"
Failed == "failed"

\* unwrapMessage, of the message and of the message in a comment.
Wrapper == [fields |-> {"wrapper"}, parts |-> {}]
Unwrap(depth, msg) == IF depth <= MaxUnwrapDepth THEN msg ELSE Wrapper

Unwrapped ==
  IF arrival.comment /\ arrival.wraps <= MaxUnwrapDepth
  THEN Unwrap(arrival.commentWraps, arrival.msg)
  ELSE Unwrap(arrival.wraps, arrival.msg)

\* decryptEnvelopes: a secret edit and a poll vote need their target and the key.
Decrypted(parts, type) == IF {"target", "secret"} \subseteq parts THEN type ELSE Skip

\* A protocol message revokes or edits the message it names, or is skipped.
Changes(parts) ==
  IF "target" \notin parts THEN Skip
  ELSE IF "revoke" \in parts THEN "revoke" ELSE IF "edit" \in parts THEN "edit" ELSE Skip

IsSilentNotice(msg) ==
  \/ msg.fields \cap SilentNotices # {}
  \/ "conversation" \in msg.fields /\ "body" \notin msg.parts

Matches(msg, i) == Order[i] \in msg.fields
FirstOf(msg) == Order[CHOOSE i \in DOMAIN Order :
                        Matches(msg, i) /\ \A j \in DOMAIN Order : Matches(msg, j) => i <= j]

\* storedMedia.
Stored(field) ==
  LET type == IF field = "audio" /\ "ptt" \in arrival.msg.parts THEN "voice" ELSE TypeOf[field] IN
  IF arrival.mediaFails THEN Failed ELSE type

\* applyRichOrFallback. Mutant: what cannot be shown is skipped.
SkipsPoor(field) == Skip
Fallback(field) == "unsupported"

Rich(field, parts) ==
  LET built == RichAs(field, parts) IN
  IF parts \cap Suffices[built] # {} THEN KindOfRich[built] ELSE Fallback(field)

Shown(msg) ==
  IF \E i \in DOMAIN Order : Matches(msg, i)
  THEN LET field == FirstOf(msg) IN
       CASE field \in Media -> Stored(field)
         [] field \in {"poll", "richResponse"} ->
              IF msg.parts \cap Suffices[field] # {} THEN TypeOf[field] ELSE Skip
         [] field \in DOMAIN KindOfRich -> Rich(field, msg.parts)
         [] OTHER -> TypeOf[field]
  ELSE IF msg.fields \subseteq KeyFields THEN Skip ELSE "unsupported"

Content(msg) ==
  CASE "secretEncrypted" \in msg.fields ->
         IF "edit" \in msg.parts THEN Decrypted(msg.parts, "edit") ELSE Skip
    [] "pollUpdate" \in msg.fields /\ "secretEncrypted" \notin msg.fields -> Decrypted(msg.parts, "poll_vote")
    [] OTHER ->
         IF "protocol" \in msg.fields THEN Changes(msg.parts)
         ELSE IF IsSilentNotice(msg) THEN Skip ELSE Shown(msg)

-----------------------------------------------------------------------------
(* Who it is from.                                                          *)

InGroup == arrival.chatServer = "group"
Ignored == arrival.chatServer = "broadcast"

Sender == [who |-> IF arrival.fromMe THEN "channel" ELSE "peer", server |-> arrival.sender]
Chat == [who |-> IF InGroup THEN "group" ELSE "peer", server |-> arrival.chatServer]

\* senderid.Resolve: the LID and the phone that the address, the alternative that came
\* with it or, for a LID, the store of whatsmeow tell.
Resolve(jid) ==
  [who |-> jid.who,
   lid |-> jid.server = "lid" \/ (jid.server = "pn" /\ arrival.alt = "lid"),
   pn  |-> jid.server # "lid" \/ arrival.alt = "pn" \/ arrival.stored]

\* identityJIDs. Mutant: the sender, also of what the channel itself sent.
AlwaysSender == Sender
IdentityJID == IF arrival.fromMe THEN Chat ELSE Sender

Identity == Resolve(IdentityJID)

From(id) == IF id.pn THEN "pn" ELSE "lid"

NoOne == [who |-> "nobody", lid |-> FALSE, pn |-> FALSE]

\* BuildInbound with applyGroup.
Event(type) ==
  IF InGroup
  THEN [type |-> type, key |-> "group", from |-> "group", top |-> NoOne,
        participant |-> IF arrival.fromMe THEN NoOne ELSE Identity]
  ELSE [type |-> type, key |-> "private", from |-> From(Identity), top |-> Identity, participant |-> NoOne]

-----------------------------------------------------------------------------
(* The handlers.                                                            *)

\* ignoredByListenGroups.
Unheard == ~arrival.listenGroups /\ InGroup

Finish(events) == outcome' = [done |-> TRUE, events |-> events] /\ UNCHANGED arrival

HandleMessage ==
  /\ arrival.event = "message"
  /\ LET type == Content(Unwrapped) IN
     Finish(IF Unheard \/ Ignored \/ ~arrival.session \/ type \in {Skip, Failed} THEN <<>>
            ELSE <<Event(type)>>)

StatusFor == [delivered |-> "delivered", read |-> "read", other |-> ""]

\* BuildGroupStatus.
OfGroup == InGroup

HandleReceipt ==
  /\ arrival.event = "receipt"
  /\ LET status == StatusFor[arrival.receipt] IN
     Finish(IF Unheard \/ status = "" \/ arrival.ids = 0 THEN <<>>
            ELSE IF OfGroup THEN <<[key |-> "group status", status |-> status, ids |-> arrival.ids]>>
            ELSE [i \in 1..arrival.ids |-> [key |-> "status", status |-> status, ids |-> 1]])

\* handleConnectionEvent, callsAreDead.
ChannelStatus ==
  [Connected |-> "connected", Disconnected |-> "disconnected", StreamReplaced |-> "error",
   TemporaryBan |-> "error", ClientOutdated |-> "error", ConnectFailure |-> "error",
   StreamError |-> "error"]
AbortsCalls == {"LoggedOut", "StreamReplaced", "ClientOutdated", "ConnectFailure"}

HandleConnection ==
  /\ arrival.event \in DOMAIN ChannelStatus
  /\ Finish(IF arrival.event = "Disconnected" /\ ~arrival.session THEN <<>>
            ELSE <<[key |-> "channel", status |-> ChannelStatus[arrival.event],
                    aborts |-> arrival.event \in AbortsCalls]>>)

Rest == outcome.done /\ UNCHANGED vars

Unhandled == outcome = [done |-> FALSE, events |-> <<>>]

Init == arrival \in Arrivals /\ Unhandled

Next ==
  \/ ~outcome.done /\ (HandleMessage \/ HandleReceipt \/ HandleConnection)
  \/ Rest

Spec == Init /\ [][Next]_vars

-----------------------------------------------------------------------------
(* Properties.                                                              *)

Handled(event) == outcome.done /\ arrival.event = event

InboundTypes == outcome.done \in BOOLEAN /\ Len(outcome.events) <= arrival.ids + 1

\* An event of a private chat is about the peer, also when the channel's phone sent it,
\* by an identity it can be found by; one of a group names its members only as the
\* participant, and nobody when the channel sent it.
SenderKept ==
  Handled("message") /\ outcome.events # <<>> =>
    LET e == outcome.events[1] IN
    IF InGroup
    THEN e.top = NoOne /\ e.from = "group" /\ e.participant.who = (IF arrival.fromMe THEN "nobody" ELSE "peer")
    ELSE e.top.who = "peer" /\ (e.top.lid \/ e.top.pn) /\ (e.from = "lid" => ~e.top.pn)

NotContent == SilentNotices \cup KeyFields \cup {"secretEncrypted", "pollUpdate", "protocol"}
MayBeEmpty == {"conversation", "poll", "richResponse"}

\* A message that is no notice, and has anything a person can see, is published, if
\* only as unsupported, however deep it is wrapped.
ContentShown ==
  /\ Handled("message") /\ arrival.session /\ ~Unheard /\ ~Ignored
  /\ ~arrival.mediaFails /\ arrival.msg.fields \cap (NotContent \ KeyFields) = {}
  /\ arrival.msg.fields \cap MayBeEmpty = {} /\ arrival.msg.fields \ KeyFields # {}
  => outcome.events # <<>>

\* A receipt of a group is told as one status with all its messages, any other as one
\* per message; a group's receipt is never told message by message.
ReceiptsByChat ==
  Handled("receipt") =>
    \A i \in DOMAIN outcome.events :
      outcome.events[i].key = (IF InGroup THEN "group status" ELSE "status")
        /\ outcome.events[i].ids = (IF InGroup THEN arrival.ids ELSE 1)

\* What the backend is told is what arrived: who it is about, the content, the receipts.
EventsFaithful == SenderKept /\ ContentShown /\ ReceiptsByChat
=============================================================================
