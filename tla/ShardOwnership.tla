---------------------------- MODULE ShardOwnership ----------------------------
(***************************************************************************)
(* The leases of the shards in Redis (internal/ownership/redis.go) under   *)
(* the life of a gateway process (gateway.run): it claims every shard,     *)
(* boots its consumers and sessions, works, drains and releases. A lease   *)
(* expires after shardLockTTL; nothing outside the tests renews it.        *)
(***************************************************************************)
EXTENDS Naturals, FiniteSets

CONSTANTS
  Instances,  \* instance ids, each of one process at a time
  NoOwner,
  Shards,     \* shardCount: shards are 0 to Shards - 1
  Trouble     \* bound: failed calls and boots, crashes, passed deadlines, lapses

\* What the constants have to be.
OwnershipConstants ==
  NoOwner \notin Instances /\ Shards \in Nat \ {0} /\ Trouble \in Nat

VARIABLES
  lease,     \* gateway:shard-owner:<shard>
  process,   \* the step of gateway.run
  cursor,    \* the shard ClaimAll or ReleaseAll is at
  serves,    \* consumers take commands, or a handler still runs
  online,    \* sessions are connected
  excused,   \* ghost: a lease lapsed under it, it outran its drain or its boot failed
  troubles   \* how much of Trouble is used

shardVars == <<lease, process, cursor, serves, online, excused, troubles>>

-----------------------------------------------------------------------------
Shard == 0..(Shards - 1)
Phases == {"down", "claiming", "booting", "running", "draining", "aborting", "releasing"}

Smooth   == UNCHANGED troubles
Mishap   == troubles < Trouble /\ troubles' = troubles + 1
GoTo(i, p) == process' = [process EXCEPT ![i] = p]

Start(i) ==
  /\ process[i] = "down" /\ GoTo(i, "claiming") /\ cursor' = [cursor EXCEPT ![i] = 0]
  /\ excused' = excused \ {i} /\ Smooth /\ UNCHANGED <<lease, serves, online>>

\* The process is gone, whatever it held.
Gone(i) ==
  /\ GoTo(i, "down") /\ serves' = serves \ {i} /\ online' = online \ {i}
  /\ UNCHANGED <<cursor, excused>>

\* claimScript: free, or its own from an earlier life.
\* Mutant: the lease of another is taken over.
ClaimsAny(i, s) == TRUE
Claims(i, s) == lease[s] \in {NoOwner, i}

\* Claim of the shard at the cursor; a lost answer has claimed it all the same.
Claim(i) ==
  /\ process[i] = "claiming" /\ cursor[i] < Shards
  /\ LET s == cursor[i] IN
     \/ /\ Claims(i, s) /\ lease' = [lease EXCEPT ![s] = i]
        /\ \/ cursor' = [cursor EXCEPT ![i] = @ + 1] /\ Smooth /\ UNCHANGED <<process, serves, online, excused>>
           \/ Mishap /\ Gone(i)
     \/ ~Claims(i, s) /\ Smooth /\ UNCHANGED lease /\ Gone(i)

\* ClaimAll returns; sessions are resumed and consumers started.
Boot(i) ==
  /\ process[i] = "claiming" /\ cursor[i] = Shards /\ GoTo(i, "booting")
  /\ online' = online \cup {i} /\ serves' = serves \cup {i}
  /\ Smooth /\ UNCHANGED <<lease, cursor, excused>>

Started(i) ==
  /\ process[i] = "booting" /\ GoTo(i, "running")
  /\ Smooth /\ UNCHANGED <<lease, cursor, serves, online, excused>>

\* A consumer does not start: the ones that did are closed and waited for, the
\* shards released; the sessions stay until the process exits.
BootFails(i) ==
  /\ process[i] = "booting" /\ Mishap /\ GoTo(i, "releasing")
  /\ cursor' = [cursor EXCEPT ![i] = 0] /\ serves' = serves \ {i} /\ excused' = excused \cup {i}
  /\ UNCHANGED <<lease, online>>

\* A signal, or a consumer or the rpc server that died.
Stop(i) ==
  /\ process[i] = "running" /\ GoTo(i, "draining")
  /\ Smooth /\ UNCHANGED <<lease, cursor, serves, online, excused>>

\* drainConsumers: all is idle, or a deadline has passed with a handler at work.
Drained(i) ==
  /\ process[i] = "draining" /\ GoTo(i, "aborting")
  /\ \/ Smooth /\ serves' = serves \ {i} /\ UNCHANGED excused
     \/ Mishap /\ excused' = excused \cup {i} /\ UNCHANGED serves
  /\ UNCHANGED <<lease, cursor, online>>

\* The importer, the calls, their recordings and replies; then DisconnectAll.
Disconnect(i) ==
  /\ process[i] = "aborting" /\ GoTo(i, "releasing") /\ online' = online \ {i}
  /\ cursor' = [cursor EXCEPT ![i] = 0]
  /\ Smooth /\ UNCHANGED <<lease, serves, excused>>

\* releaseScript deletes the lease only of this instance.
Freed(i, s) == IF lease[s] = i THEN NoOwner ELSE lease[s]

Release(i) ==
  /\ process[i] = "releasing" /\ cursor[i] < Shards
  /\ \/ /\ Smooth /\ lease' = [lease EXCEPT ![cursor[i]] = Freed(i, cursor[i])]
        /\ cursor' = [cursor EXCEPT ![i] = @ + 1] /\ UNCHANGED <<process, serves, online, excused>>
     \/ Mishap /\ UNCHANGED lease /\ Gone(i)

Exit(i) ==
  /\ process[i] = "releasing" /\ cursor[i] = Shards /\ Smooth /\ UNCHANGED lease /\ Gone(i)

Crash(i) == process[i] # "down" /\ Mishap /\ UNCHANGED lease /\ Gone(i)

\* The TTL of a shard passes; it may be that of a process that is alive.
Expire(s) ==
  /\ lease[s] # NoOwner /\ lease' = [lease EXCEPT ![s] = NoOwner]
  /\ IF process[lease[s]] = "down" THEN Smooth /\ UNCHANGED excused
     ELSE Mishap /\ excused' = excused \cup {lease[s]}
  /\ UNCHANGED <<process, cursor, serves, online>>

-----------------------------------------------------------------------------
OwnershipInit ==
  /\ lease = [s \in Shard |-> NoOwner] /\ process = [i \in Instances |-> "down"]
  /\ cursor = [i \in Instances |-> 0] /\ serves = {} /\ online = {} /\ excused = {} /\ troubles = 0

Life(i) == Claim(i) \/ Boot(i) \/ Started(i) \/ Drained(i) \/ Disconnect(i) \/ Release(i) \/ Exit(i)

OwnershipNext ==
  \/ \E i \in Instances : Start(i) \/ Life(i) \/ BootFails(i) \/ Stop(i) \/ Crash(i)
  \/ \E s \in Shard : Expire(s)

OwnershipSpec == OwnershipInit /\ [][OwnershipNext]_shardVars

-----------------------------------------------------------------------------
(* Properties.                                                              *)

OwnershipTypes ==
  /\ lease \in [Shard -> Instances \cup {NoOwner}] /\ process \in [Instances -> Phases]
  /\ cursor \in [Instances -> 0..Shards] /\ serves \subseteq Instances /\ online \subseteq Instances
  /\ excused \subseteq Instances /\ troubles \in 0..Trouble

\* A process that takes commands or has sessions connected owns every shard,
\* whoever else claimed, failed, crashed or released meanwhile, unless a lease
\* lapsed under it, it outran its drain or its boot failed.
OwnsWhileActive ==
  \A i \in (serves \cup online) \ excused : \A s \in Shard : lease[s] = i
=============================================================================
