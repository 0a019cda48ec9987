---------------------------- MODULE SecretBroker ----------------------------
(***************************************************************************)
(* BoundedSecretBroker and its leases (secrets/broker.py).                 *)
(*                                                                         *)
(* A capacity record is taken under the lock before the secret source is   *)
(* asked, and given back when the source fails, when the caller is         *)
(* cancelled, when the lease is closed, or, once it has expired, by the    *)
(* next admission.  The source answers whenever it likes: after the        *)
(* expiry, or after its record was purged and another caller has the slot. *)
(***************************************************************************)
EXTENDS Integers, FiniteSets, FiniteSetsExt

CONSTANTS
    Lessees,        \* calls of BoundedSecretBroker.lease
    MaxLeases,      \* SecretBrokerLimits.max_active_leases
    MaxLeaseTime,   \* SecretBrokerLimits.max_lease_seconds
    Durations,      \* max_lease_seconds of a request
    MaxTime         \* bound: the clock stops here

ASSUME BrokerAssumption ==
    /\ MaxLeases \in Nat /\ MaxLeaseTime \in Nat /\ MaxTime \in Nat
    /\ Durations \subseteq Nat

VARIABLES
    now,            \* the broker's clock
    records,        \* _records: token -> expires_at
    nextToken,      \* _next_token
    lease           \* lessee -> its call: at, token, expires, closed

brokerVars == <<now, records, nextToken, lease>>

NoLease == [at |-> "none", token |-> 0, expires |-> 0, closed |-> FALSE]

BrokerInit ==
    /\ now = 0
    /\ records = [t \in {} |-> 0]
    /\ nextToken = 1
    /\ lease = [l \in Lessees |-> NoLease]

Released(r, t) == [u \in DOMAIN r \ {t} |-> r[u]]

(* _purge_expired_locked.                                                  *)
Purged(r) == [u \in {t \in DOMAIN r : r[t] > now} |-> r[u]]

(* lease, up to the source: the lock is not held across an await.          *)
Reserve(l, duration) ==
    LET live == Purged(records)
        expires == now + Min({duration, MaxLeaseTime})
    IN  /\ lease[l].at = "none"
        /\ IF Cardinality(DOMAIN live) >= MaxLeases
           THEN /\ records' = live
                /\ lease' = [lease EXCEPT ![l].at = "refused"]
                /\ UNCHANGED nextToken
           ELSE /\ records' = [u \in DOMAIN live \cup {nextToken} |->
                                 IF u = nextToken THEN expires ELSE live[u]]
                /\ lease' = [lease EXCEPT ![l] = [at |-> "resolving", token |-> nextToken,
                                                  expires |-> expires, closed |-> FALSE]]
                /\ nextToken' = nextToken + 1
        /\ UNCHANGED now

(* The source answers with a value within the bounds.                      *)
Resolved(l) ==
    /\ lease[l].at = "resolving"
    /\ lease' = [lease EXCEPT ![l].at = "held"]
    /\ UNCHANGED <<now, records, nextToken>>

(* Faulty variant: only a failure of the source gives the record back; a   *)
(* cancelled caller keeps it.                                              *)
UnresolvedKept(l) ==
    /\ lease[l].at = "resolving"
    /\ lease' = [lease EXCEPT ![l].at = "refused"]
    /\ UNCHANGED <<now, records, nextToken>>

(* The source fails, its value is refused, or the caller is cancelled.     *)
Unresolved(l) ==
    /\ lease[l].at = "resolving"
    /\ lease' = [lease EXCEPT ![l].at = "refused"]
    /\ records' = Released(records, lease[l].token)
    /\ UNCHANGED <<now, nextToken>>

(* _BoundedSecretLease.close; a second call does nothing.                  *)
CloseLease(l) ==
    /\ lease[l].at = "held"
    /\ lease' = [lease EXCEPT ![l].closed = TRUE]
    /\ records' = IF lease[l].closed THEN records ELSE Released(records, lease[l].token)
    /\ UNCHANGED <<now, nextToken>>

(* _BoundedSecretLease.value does not raise.                               *)
Usable(l) == lease[l].at = "held" /\ ~lease[l].closed /\ now < lease[l].expires

Tick == now < MaxTime /\ now' = now + 1 /\ UNCHANGED <<records, nextToken, lease>>

-----------------------------------------------------------------------------
(* Capacity is what the limit bounds: at most MaxLeases leases can be read *)
(* or are still being resolved before their expiry, each has its own       *)
(* record, and no record is left behind by a call that is over.            *)
LeaseAccounting ==
    LET live == {l \in Lessees : \/ Usable(l)
                                 \/ lease[l].at = "resolving" /\ now < lease[l].expires}
        open == {l \in Lessees : \/ lease[l].at = "resolving"
                                 \/ lease[l].at = "held" /\ ~lease[l].closed}
    IN  /\ Cardinality(live) <= MaxLeases
        /\ {lease[l].token : l \in live} \subseteq DOMAIN records
        /\ DOMAIN records \subseteq {lease[l].token : l \in open}
        /\ \A l \in open : lease[l].token \in DOMAIN records =>
                              records[lease[l].token] = lease[l].expires
=============================================================================
