--------------------------- MODULE SnapshotStore ---------------------------
(***************************************************************************)
(* InMemorySnapshotStore (src/mem_sandbox/snapshots/store.py): a bounded   *)
(* store of immutable snapshots that expire.                               *)
(*                                                                         *)
(* Every method is one body under the store's lock with no await inside,   *)
(* so it is one step of whoever calls it.  A draft is a record with the    *)
(* field `bytes`, the length of its payload; what else it holds is the     *)
(* caller's.                                                               *)
(***************************************************************************)
EXTENDS Integers, FiniteSets, FiniteSetsExt, Functions

CONSTANTS
    MaxSnapshots, MaxPayloadBytes,  \* SnapshotStoreLimits
    TTL,                            \* default_ttl
    MaxTime                         \* bound: the clock stops here

ASSUME StoreAssumption == {MaxSnapshots, MaxPayloadBytes, TTL} \subseteq Nat \ {0}

VARIABLES
    snapshots,      \* _snapshots: identifier -> [draft, expires]
    payloadBytes,   \* _payload_bytes
    now             \* the store's clock

storeVars == <<snapshots, payloadBytes, now>>

StoreInit ==
    /\ snapshots = [i \in {} |-> 0]
    /\ payloadBytes = 0
    /\ now = 0

Payload(ids) == MapThenSumSet(LAMBDA i : snapshots[i].draft.bytes, ids)

(* Faulty variant: what is removed stays on the account.                   *)
RemoveLockedUncounted(ids) ==
    /\ snapshots' = Restrict(snapshots, DOMAIN snapshots \ ids)
    /\ UNCHANGED <<payloadBytes, now>>

RemoveLocked(ids) ==
    /\ snapshots' = Restrict(snapshots, DOMAIN snapshots \ ids)
    /\ payloadBytes' = payloadBytes - Payload(ids \cap DOMAIN snapshots)
    /\ UNCHANGED now

Expired == {i \in DOMAIN snapshots : snapshots[i].expires <= now}

(* The draft is accepted once the expired snapshots are out of the way.    *)
Accepts(id, draft) ==
    LET left == DOMAIN snapshots \ Expired
    IN  /\ id \notin left
        /\ Cardinality(left) + 1 <= MaxSnapshots
        /\ payloadBytes - Payload(Expired) + draft.bytes <= MaxPayloadBytes

(* save: what has expired is purged even when the draft is refused.        *)
Save(id, draft) ==
    IF Accepts(id, draft)
    THEN LET left == DOMAIN snapshots \ Expired
         IN  /\ snapshots' = [i \in left \cup {id} |->
                                IF i = id THEN [draft |-> draft, expires |-> now + TTL]
                                ELSE snapshots[i]]
             /\ payloadBytes' = payloadBytes - Payload(Expired) + draft.bytes
             /\ UNCHANGED now
    ELSE RemoveLocked(Expired)

Loads(id) == id \in DOMAIN snapshots \ Expired

(* load: a snapshot found to be expired is removed.                        *)
Load(id) ==
    IF id \in Expired THEN RemoveLocked({id}) ELSE UNCHANGED storeVars

(* delete, and purge_expired and stats, as the host calls them.            *)
DeleteSnapshot(id) == RemoveLocked({id})
PurgeExpired == RemoveLocked(Expired)

Tick == now < MaxTime /\ now' = now + 1 /\ UNCHANGED <<snapshots, payloadBytes>>

(* The store in the hands of any client.                                   *)
StoreNext ==
    \/ \E id, draft : draft.bytes \in Nat /\ Save(id, draft)
    \/ \E id : Load(id) \/ DeleteSnapshot(id)
    \/ PurgeExpired \/ Tick

StoreSpec == StoreInit /\ [][StoreNext]_storeVars

(* The account is the sum of the payloads that are kept, and both stay     *)
(* within the limits, over any history of saves, refusals, lazy removals   *)
(* at a load, deletions and purges.                                        *)
StoreAccounting ==
    /\ payloadBytes = Payload(DOMAIN snapshots)
    /\ Cardinality(DOMAIN snapshots) <= MaxSnapshots
    /\ payloadBytes <= MaxPayloadBytes
=============================================================================
