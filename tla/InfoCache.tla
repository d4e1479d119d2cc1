------------------------------ MODULE InfoCache ------------------------------
(***************************************************************************)
(* The caches of group names (internal/groupinfo) and profile pictures     *)
(* (internal/avatar): a map of entries under one lock, and a lock in every *)
(* entry that is held while WhatsApp is asked. A change of a group's name  *)
(* deletes its entry (gateway.handleGroupInfo), unless the channel does    *)
(* not listen to groups, when the event is ignored and the old name stays  *)
(* until its TTL; pictures are never invalidated. The groups are those of  *)
(* one channel.                                                            *)
(*                                                                         *)
(* A name or a picture is its number of changes, 0 when nothing is known.  *)
(***************************************************************************)
EXTENDS Naturals, FiniteSets

CONSTANTS
  CachedGroups,   \* groups whose name is cached
  CachedPersons,  \* people whose picture is cached
  Callers,        \* goroutines that want a name or a picture
  MaxChanges,     \* bound of the changes of each
  MaxEntries      \* bound of the entries made

Infos == CachedGroups \cup CachedPersons

\* What the constants have to be.
CacheConstants ==
  CachedGroups \cap CachedPersons = {} /\ MaxChanges \in Nat /\ MaxEntries \in Nat \ {0}

VARIABLES
  truth,      \* what WhatsApp has
  announced,  \* the change last reported by an event
  heard,      \* ghost: the one last reported while the channel listened
  listening,  \* ListenGroups of the channel's settings
  entries,    \* the entries made, in the map or not
  index,      \* Cache.entries: the entry of each key, 0 for none
  caller,
  returned    \* history: what the last finished call returned, and was due

cacheVars == <<truth, announced, heard, listening, entries, index, caller, returned>>

-----------------------------------------------------------------------------
CallerSteps == {"idle", "obtained", "asking", "storing"}
Entry == [value : Nat, loaded : BOOLEAN, fresh : BOOLEAN]
NewEntry == [value |-> 0, loaded |-> FALSE, fresh |-> FALSE]

Made == DOMAIN entries
NoCall == [step |-> "idle", key |-> 0, entry |-> 0, due |-> 0, seen |-> 0, ok |-> FALSE]

\* entry.mu.
Locked(e) == \E k \in Callers : caller[k].step \in {"asking", "storing"} /\ caller[k].entry = e

WorldFrame == UNCHANGED <<truth, announced, heard, listening>>

Change(x) ==
  /\ truth[x] < MaxChanges /\ truth' = [truth EXCEPT ![x] = @ + 1]
  /\ UNCHANGED <<announced, heard, listening, entries, index, caller, returned>>

\* SettingsHandler; the caches are left as they are.
Listen ==
  /\ listening' = ~listening
  /\ UNCHANGED <<truth, announced, heard, entries, index, caller, returned>>

\* Cache.Invalidate.
\* Mutant: the entry stays, expired.
ExpiresInPlace(x) ==
  /\ UNCHANGED index
  /\ entries' = [e \in Made |-> IF e = index[x] THEN [entries[e] EXCEPT !.fresh = FALSE] ELSE entries[e]]
Invalidate(x) == index' = [index EXCEPT ![x] = 0] /\ UNCHANGED entries

\* events.GroupInfo with a new name reaches handleGroupInfo when the channel
\* listens to groups (ignoredByListenGroups).
Hears(x) == listening /\ heard' = [heard EXCEPT ![x] = announced'[x]] /\ Invalidate(x)
Ignores  == ~listening /\ UNCHANGED <<heard, entries, index>>

NameChanged(x) ==
  /\ x \in CachedGroups /\ announced[x] < truth[x]
  /\ announced' = [announced EXCEPT ![x] = @ + 1] /\ (Hears(x) \/ Ignores)
  /\ UNCHANGED <<truth, listening, caller, returned>>

-----------------------------------------------------------------------------
\* entryFor.
Obtain(k, x) ==
  /\ caller[k].step = "idle"
  /\ LET made == Cardinality(Made) + 1
         e    == IF index[x] # 0 THEN index[x] ELSE made IN
     /\ e <= MaxEntries
     /\ index' = [index EXCEPT ![x] = e]
     /\ entries' = IF index[x] # 0 THEN entries
                   ELSE [n \in Made \cup {e} |-> IF n = e THEN NewEntry ELSE entries[n]]
     /\ caller' = [caller EXCEPT ![k] =
          [NoCall EXCEPT !.step = "obtained", !.key = x, !.entry = e, !.due = heard[x]]]
  /\ WorldFrame /\ UNCHANGED returned

Return(k, value) ==
  /\ caller' = [caller EXCEPT ![k] = NoCall]
  /\ returned' = [value |-> value, due |-> caller[k].due]

\* The entry is locked: a fresh one answers, otherwise WhatsApp is asked.
Enter(k) ==
  /\ caller[k].step = "obtained" /\ ~Locked(caller[k].entry)
  /\ LET e == entries[caller[k].entry] IN
     IF e.loaded /\ e.fresh THEN Return(k, e.value)
     ELSE caller' = [caller EXCEPT ![k].step = "asking"] /\ UNCHANGED returned
  /\ WorldFrame /\ UNCHANGED <<entries, index>>

\* GetGroupInfo or GetProfilePictureInfo answers, fails or times out.
AskWhatsApp(k) ==
  /\ caller[k].step = "asking"
  /\ \E ok \in BOOLEAN :
       caller' = [caller EXCEPT ![k].step = "storing", ![k].seen = truth[caller[k].key], ![k].ok = ok]
  /\ WorldFrame /\ UNCHANGED <<entries, index, returned>>

\* The value an entry gets: a failure keeps what it had; so does a picture that
\* WhatsApp says is the one known, or that cannot be downloaded or stored; a
\* picture that is gone or hidden is forgotten.
NameAfter(k)    == IF caller[k].ok THEN {caller[k].seen} ELSE {entries[caller[k].entry].value}
PictureAfter(k) == NameAfter(k) \cup {0, entries[caller[k].entry].value}
Resolved(k) == IF caller[k].key \in CachedGroups THEN NameAfter(k) ELSE PictureAfter(k)

\* entry.store.
Store(k) ==
  /\ caller[k].step = "storing"
  /\ \E value \in Resolved(k) :
       /\ entries' = [entries EXCEPT ![caller[k].entry] = [value |-> value, loaded |-> TRUE, fresh |-> TRUE]]
       /\ Return(k, value)
  /\ WorldFrame /\ UNCHANGED index

EntryExpires(e) ==
  /\ entries[e].fresh /\ entries' = [entries EXCEPT ![e].fresh = FALSE]
  /\ WorldFrame /\ UNCHANGED <<index, caller, returned>>

\* evictIdle of a full map: an entry that nobody has locked and that expired long
\* ago goes; one that was never loaded counts as such.
Evict(x) ==
  /\ index[x] # 0 /\ ~Locked(index[x]) /\ ~entries[index[x]].fresh
  /\ index' = [index EXCEPT ![x] = 0]
  /\ WorldFrame /\ UNCHANGED <<entries, caller, returned>>

CacheRest ==
  /\ Cardinality(Made) = MaxEntries /\ \A k \in Callers : caller[k].step = "idle"
  /\ UNCHANGED cacheVars

-----------------------------------------------------------------------------
CacheInit ==
  /\ truth = [x \in Infos |-> 1] /\ announced = truth /\ heard = truth /\ listening = TRUE
  /\ entries = [e \in {} |-> NewEntry] /\ index = [x \in Infos |-> 0]
  /\ caller = [k \in Callers |-> NoCall] /\ returned = [value |-> 0, due |-> 0]

CacheNext ==
  \/ \E x \in Infos : Change(x) \/ NameChanged(x) \/ Evict(x)
  \/ \E k \in Callers : Enter(k) \/ AskWhatsApp(k) \/ Store(k) \/ \E x \in Infos : Obtain(k, x)
  \/ \E e \in Made : EntryExpires(e)
  \/ Listen \/ CacheRest

CacheSpec == CacheInit /\ [][CacheNext]_cacheVars

-----------------------------------------------------------------------------
(* Properties.                                                              *)

CacheTypes ==
  /\ truth \in [Infos -> Nat] /\ announced \in [Infos -> Nat] /\ heard \in [Infos -> Nat]
  /\ listening \in BOOLEAN
  /\ Made \subseteq 1..MaxEntries /\ \A e \in Made : entries[e] \in Entry
  /\ index \in [Infos -> Made \cup {0}]
  /\ \A k \in Callers : caller[k].step \in CallerSteps /\ caller[k].entry \in Made \cup {0}

\* A name asked for after its change was heard (told by an event while the channel
\* listened to groups) is never an older one: not from the entry that was there, nor
\* through an answer on its way when the event came, nor because the lookup failed,
\* nor because later events were ignored; at worst there is none. Of a change whose
\* event the channel ignored nothing is promised, after it listens again either.
FreshAfterChange == returned.value # 0 => returned.value >= returned.due
=============================================================================
