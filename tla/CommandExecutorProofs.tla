------------------------ MODULE CommandExecutorProofs ------------------------
(***************************************************************************)
(* Proofs about CommandExecutor, for any command lines, limits, lessees    *)
(* and stops: secret capacity is accounted for, whoever leases, and every  *)
(* call does what CommandContract promises.                                *)
(***************************************************************************)
EXTENDS CommandExecutor, FiniteSetTheorems, WellFoundedInduction, TLAPS

-----------------------------------------------------------------------------
(* The broker.                                                             *)

(* A lease whose record may be there, and one that can still be read.      *)
Opened(l) == lease[l].at = "resolving" \/ (lease[l].at = "held" /\ ~lease[l].closed)
Running(l) == Opened(l) /\ now < lease[l].expires

LeaseFields == {"at", "token", "expires", "closed"}
IsLease(r) ==
    /\ DOMAIN r = LeaseFields
    /\ r.at \in {"none", "refused", "resolving", "held"}
    /\ r.token \in Int /\ r.expires \in Int /\ r.closed \in BOOLEAN
    /\ r.closed => r.at = "held"

(* Tokens are never given twice, so that what is open, what is recorded    *)
(* and what is bounded are the same leases.                                *)
BrokerInv ==
    /\ now \in Int /\ nextToken \in Int
    /\ DOMAIN lease = Lessees /\ \A l \in Lessees : IsLease(lease[l])
    /\ \A l \in Lessees : Opened(l) => lease[l].token < nextToken
    /\ \A l, m \in Lessees : Opened(l) /\ Opened(m) /\ lease[l].token = lease[m].token => l = m
    /\ IsFiniteSet(DOMAIN records) /\ Cardinality(DOMAIN records) <= MaxLeases
    /\ \A t \in DOMAIN records : \E l \in Lessees : Opened(l) /\ lease[l].token = t
    /\ \A l \in Lessees : Running(l) => lease[l].token \in DOMAIN records
    /\ \A l \in Lessees : Opened(l) /\ lease[l].token \in DOMAIN records =>
                              records[lease[l].token] = lease[l].expires

(* It says that the capacity is accounted for.                             *)
LEMMA BrokerInvAccounts ==
    ASSUME BrokerInv
    PROVE  LeaseAccounting
    <1> DEFINE live == {l \in Lessees : Running(l)}
               f == [l \in live |-> lease[l].token]
    <1>1. f \in Injection(live, DOMAIN records)
        BY DEF BrokerInv, Running, Injection, IsInjective
    <1>2. Cardinality(live) <= Cardinality(DOMAIN records) /\ IsFiniteSet(live)
        BY <1>1, FS_Injection DEF BrokerInv
    <1>3. Cardinality(live) <= MaxLeases
        <2>1. Cardinality(live) \in Nat /\ Cardinality(DOMAIN records) \in Nat
            BY <1>2, FS_CardinalityType DEF BrokerInv
        <2> QED
            BY <1>2, <2>1, BrokerAssumption DEF BrokerInv
    <1>4. live = {l \in Lessees : \/ Usable(l)
                                  \/ lease[l].at = "resolving" /\ now < lease[l].expires}
        BY DEF Running, Opened, Usable
    <1>5. {l \in Lessees : \/ lease[l].at = "resolving"
                           \/ lease[l].at = "held" /\ ~lease[l].closed}
              = {l \in Lessees : Opened(l)}
        BY DEF Opened
    <1>6. {lease[l].token : l \in live} \subseteq DOMAIN records
        BY DEF BrokerInv
    <1>7. DOMAIN records \subseteq {lease[l].token : l \in {m \in Lessees : Opened(m)}}
        BY DEF BrokerInv
    <1>8. \A l \in {m \in Lessees : Opened(m)} :
              lease[l].token \in DOMAIN records => records[lease[l].token] = lease[l].expires
        BY DEF BrokerInv
    <1> HIDE DEF live
    <1> QED
        BY <1>3, <1>4, <1>5, <1>6, <1>7, <1>8 DEF LeaseAccounting

(* It holds before the first lease.                                        *)
LEMMA BrokerInitInv ==
    ASSUME BrokerInit
    PROVE  BrokerInv
    <1>1. DOMAIN records = {} /\ Cardinality(DOMAIN records) = 0 /\ IsFiniteSet(DOMAIN records)
        BY FS_EmptySet DEF BrokerInit
    <1>2. IsLease(NoLease) /\ NoLease.at = "none"
        BY DEF NoLease, IsLease, LeaseFields
    <1>3. /\ now = 0 /\ nextToken = 1
          /\ DOMAIN lease = Lessees /\ \A l \in Lessees : lease[l] = NoLease
        BY DEF BrokerInit
    <1> HIDE DEF NoLease
    <1>4. \A l \in Lessees : ~Opened(l) /\ ~Running(l)
        BY <1>2, <1>3 DEF Opened, Running
    <1> QED
        BY <1>1, <1>2, <1>3, <1>4, BrokerAssumption DEF BrokerInv

(* One lease changes: it was or was not open, and is or is not.            *)
LEMMA LeaseTo ==
    ASSUME BrokerInv, NEW l \in Lessees, NEW r, lease' = [lease EXCEPT ![l] = r], IsLease(r)
    PROVE  /\ DOMAIN lease' = Lessees /\ lease'[l] = r
           /\ \A m \in Lessees \ {l} : lease'[m] = lease[m]
           /\ \A m \in Lessees : IsLease(lease'[m])
    BY DEF BrokerInv

(* What is purged has expired.                                             *)
LEMMA PurgedRecords ==
    ASSUME BrokerInv
    PROVE  /\ DOMAIN Purged(records) \subseteq DOMAIN records
           /\ \A t \in DOMAIN records : t \in DOMAIN Purged(records) <=> records[t] > now
           /\ \A t \in DOMAIN Purged(records) : Purged(records)[t] = records[t]
           /\ IsFiniteSet(DOMAIN Purged(records))
           /\ Cardinality(DOMAIN Purged(records)) \in Nat
           /\ Cardinality(DOMAIN Purged(records)) <= Cardinality(DOMAIN records)
           /\ Cardinality(DOMAIN records) \in Nat
           /\ \A m \in Lessees : Running(m) => lease[m].token \in DOMAIN Purged(records)
    <1>1. /\ DOMAIN Purged(records) \subseteq DOMAIN records
          /\ \A t \in DOMAIN records : t \in DOMAIN Purged(records) <=> records[t] > now
          /\ \A t \in DOMAIN Purged(records) : Purged(records)[t] = records[t]
        BY DEF Purged
    <1>2. /\ IsFiniteSet(DOMAIN Purged(records))
          /\ Cardinality(DOMAIN Purged(records)) <= Cardinality(DOMAIN records)
        BY <1>1, FS_Subset DEF BrokerInv
    <1>3. Cardinality(DOMAIN Purged(records)) \in Nat /\ Cardinality(DOMAIN records) \in Nat
        BY <1>2, FS_CardinalityType DEF BrokerInv
    <1>4. ASSUME NEW m \in Lessees, Running(m) PROVE lease[m].token \in DOMAIN Purged(records)
        <2>1. lease[m].token \in DOMAIN records /\ records[lease[m].token] = lease[m].expires
            BY <1>4 DEF BrokerInv, Running
        <2>2. now < lease[m].expires /\ now \in Int /\ lease[m].expires \in Int
            BY <1>4 DEF BrokerInv, Running, IsLease
        <2> QED
            BY <1>1, <2>1, <2>2
    <1> QED
        BY <1>1, <1>2, <1>3, <1>4

(* A lease expires at some time.                                           *)
LEMMA ExpiryType ==
    ASSUME NEW d \in Durations
    PROVE  Min({d, MaxLeaseTime}) \in Nat
    BY BrokerAssumption DEF Min

(* A lease reserves its capacity.                                          *)
LEMMA ReserveInv ==
    ASSUME BrokerInv, NEW l \in Lessees, NEW d \in Durations, Reserve(l, d)
    PROVE  BrokerInv'
    <1> DEFINE kept == Purged(records)
               expires == now + Min({d, MaxLeaseTime})
    <1>1. lease[l].at = "none" /\ now' = now /\ IsLease(lease[l]) /\ ~Opened(l)
        BY DEF Reserve, BrokerInv, Opened
    <1>2. expires \in Int /\ now \in Int /\ nextToken \in Int
        BY ExpiryType DEF BrokerInv
    <1>3. CASE /\ Cardinality(DOMAIN kept) >= MaxLeases /\ records' = kept /\ nextToken' = nextToken
               /\ lease' = [lease EXCEPT ![l].at = "refused"]
        <2> DEFINE r == [lease[l] EXCEPT !.at = "refused"]
        <2>1. IsLease(r) /\ r.at = "refused"
            BY <1>1 DEF IsLease, LeaseFields
        <2>2. lease' = [lease EXCEPT ![l] = r]
            BY <1>3
        <2> HIDE DEF r
        <2>3. /\ DOMAIN lease' = Lessees /\ lease'[l] = r
              /\ \A m \in Lessees \ {l} : lease'[m] = lease[m]
              /\ \A m \in Lessees : IsLease(lease'[m])
            BY <2>1, <2>2, LeaseTo
        <2>4. /\ ~Opened(l)' /\ ~Running(l)'
              /\ \A m \in Lessees \ {l} : Opened(m)' = Opened(m) /\ Running(m)' = Running(m)
            BY <1>1, <2>1, <2>3 DEF Opened, Running
        <2> QED
            BY <1>1, <1>2, <1>3, <2>3, <2>4, PurgedRecords, BrokerAssumption
               DEF BrokerInv, IsLease
    <1>4. CASE /\ ~(Cardinality(DOMAIN kept) >= MaxLeases) /\ nextToken' = nextToken + 1
               /\ records' = [u \in DOMAIN kept \cup {nextToken} |->
                                IF u = nextToken THEN expires ELSE kept[u]]
               /\ lease' = [lease EXCEPT ![l] = [at |-> "resolving", token |-> nextToken,
                                                 expires |-> expires, closed |-> FALSE]]
        <2> DEFINE r == [at |-> "resolving", token |-> nextToken, expires |-> expires,
                         closed |-> FALSE]
        <2>1. IsLease(r) /\ r.at = "resolving" /\ r.token = nextToken /\ r.expires = expires
            BY <1>2 DEF IsLease, LeaseFields
        <2>2. lease' = [lease EXCEPT ![l] = r]
            BY <1>4
        <2> HIDE DEF r, expires
        <2>3. /\ DOMAIN lease' = Lessees /\ lease'[l] = r
              /\ \A m \in Lessees \ {l} : lease'[m] = lease[m]
              /\ \A m \in Lessees : IsLease(lease'[m])
            BY <2>1, <2>2, LeaseTo
        <2>4. /\ Opened(l)'
              /\ \A m \in Lessees \ {l} : Opened(m)' = Opened(m) /\ Running(m)' = Running(m)
            BY <1>1, <2>1, <2>3 DEF Opened, Running
        <2>5. nextToken \notin DOMAIN kept
            BY <1>2, PurgedRecords DEF BrokerInv, IsLease
        <2>6. /\ DOMAIN records' = DOMAIN kept \cup {nextToken}
              /\ records'[nextToken] = expires
              /\ \A t \in DOMAIN kept : records'[t] = records[t]
            BY <1>4, <2>5, PurgedRecords
        <2>7. /\ IsFiniteSet(DOMAIN kept \cup {nextToken})
              /\ Cardinality(DOMAIN kept \cup {nextToken}) = Cardinality(DOMAIN kept) + 1
            BY <2>5, PurgedRecords, FS_AddElement
        <2>8. Cardinality(DOMAIN kept) + 1 <= MaxLeases
            BY <1>4, PurgedRecords, BrokerAssumption
        <2> HIDE DEF kept
        <2>9. IsFiniteSet(DOMAIN records') /\ Cardinality(DOMAIN records') <= MaxLeases
            BY <2>6, <2>7, <2>8
        <2>10. \A m \in Lessees : Opened(m)' => lease'[m].token < nextToken'
            BY <1>2, <1>4, <2>1, <2>3, <2>4 DEF BrokerInv, IsLease
        <2>11. \A m, n \in Lessees :
                  Opened(m)' /\ Opened(n)' /\ lease'[m].token = lease'[n].token => m = n
            BY <1>2, <2>1, <2>3, <2>4 DEF BrokerInv, IsLease
        <2>12. \A t \in DOMAIN records' : \E m \in Lessees : Opened(m)' /\ lease'[m].token = t
            <3>1. ASSUME NEW t \in DOMAIN kept
                  PROVE  \E m \in Lessees : Opened(m)' /\ lease'[m].token = t
                <4>1. t \in DOMAIN records
                    BY PurgedRecords DEF kept
                <4>2. PICK m \in Lessees : Opened(m) /\ lease[m].token = t
                    BY <4>1 DEF BrokerInv
                <4> QED
                    BY <1>1, <2>3, <2>4, <4>2
            <3> QED
                BY <2>1, <2>3, <2>4, <2>6, <3>1
        <2>13. \A m \in Lessees : Running(m)' => lease'[m].token \in DOMAIN records'
            BY <2>1, <2>3, <2>4, <2>6, PurgedRecords DEF kept
        <2>14. \A m \in Lessees : Opened(m)' /\ lease'[m].token \in DOMAIN records' =>
                                      records'[lease'[m].token] = lease'[m].expires
            <3>1. ASSUME NEW m \in Lessees \ {l}, Opened(m), lease[m].token \in DOMAIN records'
                  PROVE  records'[lease[m].token] = lease[m].expires
                <4>1. lease[m].token \in DOMAIN kept /\ lease[m].token \in DOMAIN records
                    BY <1>2, <2>6, <3>1, PurgedRecords DEF BrokerInv, IsLease, kept
                <4> QED
                    BY <2>6, <3>1, <4>1 DEF BrokerInv
            <3> QED
                BY <2>1, <2>3, <2>4, <2>6, <3>1
        <2>15. now' \in Int /\ nextToken' \in Int
            BY <1>1, <1>2, <1>4
        <2> QED
            BY <2>3, <2>9, <2>10, <2>11, <2>12, <2>13, <2>14, <2>15 DEF BrokerInv
    <1> QED
        BY <1>1, <1>3, <1>4 DEF Reserve

(* Its secrets are resolved,                                               *)
LEMMA ResolvedInv ==
    ASSUME BrokerInv, NEW l \in Lessees, Resolved(l)
    PROVE  BrokerInv'
    <1> DEFINE r == [lease[l] EXCEPT !.at = "held"]
    <1>1. lease[l].at = "resolving" /\ IsLease(lease[l]) /\ UNCHANGED <<now, records, nextToken>>
        BY DEF Resolved, BrokerInv
    <1>2. /\ IsLease(r) /\ r.at = "held" /\ r.token = lease[l].token /\ r.expires = lease[l].expires
          /\ r.closed = lease[l].closed
        BY <1>1 DEF IsLease, LeaseFields
    <1>3. lease' = [lease EXCEPT ![l] = r]
        BY DEF Resolved
    <1> HIDE DEF r
    <1>4. /\ DOMAIN lease' = Lessees /\ lease'[l] = r
          /\ \A m \in Lessees \ {l} : lease'[m] = lease[m]
          /\ \A m \in Lessees : IsLease(lease'[m])
        BY <1>2, <1>3, LeaseTo
    <1>5. \A m \in Lessees : /\ lease'[m].token = lease[m].token
                             /\ lease'[m].expires = lease[m].expires
        BY <1>2, <1>4
    <1>6. \A m \in Lessees : Opened(m)' = Opened(m) /\ Running(m)' = Running(m)
        BY <1>1, <1>2, <1>4, <1>5 DEF Opened, Running, IsLease
    <1> QED
        BY <1>1, <1>4, <1>5, <1>6 DEF BrokerInv

(* A lease that is no longer open, with its record given back.             *)
LEMMA ReleasedInv ==
    ASSUME BrokerInv, NEW l \in Lessees, Opened(l), NEW r, IsLease(r),
           lease' = [lease EXCEPT ![l] = r], r.at = "refused" \/ (r.at = "held" /\ r.closed),
           records' = Released(records, lease[l].token), UNCHANGED <<now, nextToken>>
    PROVE  BrokerInv'
    <1>1. /\ DOMAIN lease' = Lessees /\ lease'[l] = r
          /\ \A m \in Lessees \ {l} : lease'[m] = lease[m]
          /\ \A m \in Lessees : IsLease(lease'[m])
        BY LeaseTo
    <1>2. /\ ~Opened(l)' /\ ~Running(l)'
          /\ \A m \in Lessees \ {l} : Opened(m)' = Opened(m) /\ Running(m)' = Running(m)
        BY <1>1 DEF Opened, Running
    <1>3. /\ DOMAIN records' = DOMAIN records \ {lease[l].token}
          /\ \A t \in DOMAIN records' : records'[t] = records[t]
        BY DEF Released
    <1>4. \A m \in Lessees \ {l} : Opened(m) => lease[m].token # lease[l].token
        BY DEF BrokerInv
    <1>5. IsFiniteSet(DOMAIN records') /\ Cardinality(DOMAIN records') <= MaxLeases
        <2>1. DOMAIN records' \in SUBSET DOMAIN records
            BY <1>3
        <2>2. /\ IsFiniteSet(DOMAIN records')
              /\ Cardinality(DOMAIN records') <= Cardinality(DOMAIN records)
            BY <2>1, FS_Subset DEF BrokerInv
        <2>3. Cardinality(DOMAIN records') \in Nat /\ Cardinality(DOMAIN records) \in Nat
            BY <2>2, FS_CardinalityType DEF BrokerInv
        <2> QED
            BY <2>2, <2>3, BrokerAssumption DEF BrokerInv
    <1>6. \A m \in Lessees : Running(m)' => lease'[m].token \in DOMAIN records'
        BY <1>1, <1>2, <1>3, <1>4 DEF BrokerInv, Running
    <1>7. \A t \in DOMAIN records' : \E m \in Lessees : Opened(m)' /\ lease'[m].token = t
        <2> SUFFICES ASSUME NEW t \in DOMAIN records'
                     PROVE  \E m \in Lessees : Opened(m)' /\ lease'[m].token = t
            OBVIOUS
        <2>1. PICK m \in Lessees : Opened(m) /\ lease[m].token = t
            BY <1>3 DEF BrokerInv
        <2>2. m # l
            BY <1>3, <2>1
        <2> QED
            BY <1>1, <1>2, <2>1, <2>2
    <1>8. \A m \in Lessees : Opened(m)' /\ lease'[m].token \in DOMAIN records' =>
                                 records'[lease'[m].token] = lease'[m].expires
        BY <1>1, <1>2, <1>3 DEF BrokerInv
    <1>9. /\ \A m \in Lessees : Opened(m)' => lease'[m].token < nextToken'
          /\ \A m, n \in Lessees :
                Opened(m)' /\ Opened(n)' /\ lease'[m].token = lease'[n].token => m = n
        BY <1>1, <1>2 DEF BrokerInv
    <1> QED
        BY <1>1, <1>5, <1>6, <1>7, <1>8, <1>9 DEF BrokerInv

(* or they are not.                                                        *)
LEMMA UnresolvedInv ==
    ASSUME BrokerInv, NEW l \in Lessees, Unresolved(l)
    PROVE  BrokerInv'
    <1> DEFINE r == [lease[l] EXCEPT !.at = "refused"]
    <1>1. lease[l].at = "resolving" /\ IsLease(lease[l]) /\ Opened(l)
        BY DEF Unresolved, BrokerInv, Opened
    <1>2. IsLease(r) /\ r.at = "refused"
        BY <1>1 DEF IsLease, LeaseFields
    <1>3. /\ lease' = [lease EXCEPT ![l] = r] /\ UNCHANGED <<now, nextToken>>
          /\ records' = Released(records, lease[l].token)
        BY DEF Unresolved
    <1> HIDE DEF r
    <1> QED
        BY <1>1, <1>2, <1>3, ReleasedInv

(* Nothing happens to the broker.                                          *)
LEMMA BrokerFrame ==
    ASSUME BrokerInv, UNCHANGED brokerVars
    PROVE  BrokerInv'
    BY DEF BrokerInv, brokerVars, Opened, Running, IsLease

(* A lease is closed.                                                      *)
LEMMA CloseLeaseInv ==
    ASSUME BrokerInv, NEW l \in Lessees, CloseLease(l), ~lease[l].closed
    PROVE  BrokerInv'
    <1> DEFINE r == [lease[l] EXCEPT !.closed = TRUE]
    <1>1. lease[l].at = "held" /\ IsLease(lease[l]) /\ Opened(l)
        BY DEF CloseLease, BrokerInv, Opened
    <1>2. IsLease(r) /\ r.at = "held" /\ r.closed
        BY <1>1 DEF IsLease, LeaseFields
    <1>3. /\ lease' = [lease EXCEPT ![l] = r] /\ UNCHANGED <<now, nextToken>>
          /\ records' = Released(records, lease[l].token)
        BY DEF CloseLease
    <1> HIDE DEF r
    <1> QED
        BY <1>1, <1>2, <1>3, ReleasedInv

(* Leases expire; their records stay until the next admission.             *)
LEMMA TickInv ==
    ASSUME BrokerInv, Tick
    PROVE  BrokerInv'
    <1>1. now' = now + 1 /\ now \in Int /\ UNCHANGED <<records, nextToken, lease>>
        BY DEF Tick, BrokerInv
    <1>2. \A l \in Lessees : Opened(l)' = Opened(l) /\ (Running(l)' => Running(l))
        BY <1>1 DEF BrokerInv, Opened, Running, IsLease
    <1> QED
        BY <1>1, <1>2 DEF BrokerInv, IsLease

(* The invariant is inductive.                                             *)
LEMMA BrokerStep ==
    ASSUME BrokerInv, [Next]_vars
    PROVE  BrokerInv'
    <1>1. CASE UNCHANGED brokerVars
        BY <1>1, BrokerFrame
    <1>2. CASE AcquireLease
        BY <1>2, ReserveInv, OwnAssumption DEF AcquireLease
    <1>3. CASE OwnResolved
        BY <1>3, ResolvedInv, OwnAssumption DEF OwnResolved
    <1>4. CASE OwnUnresolved
        BY <1>4, UnresolvedInv, OwnAssumption DEF OwnUnresolved
    <1>5. CASE CloseOwn
        BY <1>5, CloseLeaseInv, OwnAssumption DEF CloseOwn, Open
    <1>6. CASE Elsewhere
        BY <1>6, TickInv, ReserveInv, ResolvedInv, UnresolvedInv, CloseLeaseInv DEF Elsewhere
    <1>7. CASE \/ \E s \in Scripts : Submit(s)
               \/ Protect \/ Admit \/ SkipUnit \/ BeginUnit
               \/ Settle \/ Redirect \/ InterruptRedirect \/ RedirectFault
               \/ Return \/ Publish
               \/ \E c \in Causes : Stop(c)
               \/ RunStage \/ Interrupt \/ HandlerFault
        <2>1. UNCHANGED brokerVars
            BY <1>7, Zenon DEF Submit, Protect, Admit, SkipUnit, BeginUnit, Settle, Redirect,
                        InterruptRedirect, RedirectFault, Return, Publish, Stop, RunStage,
                        Interrupt, HandlerFault
        <2> QED
            BY <2>1, <1>1
    <1>8. CASE UNCHANGED vars
        BY <1>8, <1>1 DEF vars
    <1> QED
        BY <1>2, <1>3, <1>4, <1>5, <1>6, <1>7, <1>8, Zenon DEF Next

(* The inductive invariant of the broker, whatever the executor does.      *)
THEOREM BrokerInvariant == Spec => []BrokerInv
    <1>1. Init => BrokerInv
        BY BrokerInitInv DEF Init
    <1>2. BrokerInv /\ [Next]_vars => BrokerInv'
        BY BrokerStep
    <1> QED
        BY <1>1, <1>2, PTL DEF Spec

(* However many callers lease, are refused, are cancelled while the source *)
(* resolves, close late or let their leases expire, at most MaxLeases      *)
(* leases can be read, each has a record of its own, and no record         *)
(* outlives its call.                                                      *)
THEOREM LeasesAccounted == Spec => []LeaseAccounting
    BY BrokerInvariant, BrokerInvAccounts, PTL

-----------------------------------------------------------------------------
(* Folds over sequences.                                                   *)

(* A property of all numbers up to n, by its least counterexample.         *)
LEMMA LeastFailure ==
    ASSUME NEW n \in Nat, NEW T \in SUBSET (0..n), 0 \in T,
           \A m \in 1..n : m - 1 \in T => m \in T
    PROVE  n \in T
    <1> DEFINE R == {ss \in Nat \X Nat : ss[1] < ss[2]}
               B == (0..n) \ T
    <1>1. IsWellFoundedOn(R, Nat)
        BY NatLessThanWellFounded DEF OpToRel
    <1>2. SUFFICES ASSUME B # {} PROVE FALSE
        OBVIOUS
    <1>3. PICK x \in B : \A y \in B : ~(<<y, x>> \in R)
        BY <1>1, <1>2, WFMin
    <1>4. \A y \in B : ~(y < x)
        <2>1. \A y \in B : y \in Nat /\ x \in Nat
            OBVIOUS
        <2> HIDE DEF B
        <2> QED
            BY <1>3, <2>1
    <1>5. x \in 1..n /\ x - 1 \notin B
        BY <1>4
    <1> QED
        BY <1>5

(* The last of some indices.                                               *)
LEMMA TopOf ==
    ASSUME NEW m \in Nat, NEW s \in SUBSET (1..m), m \in s
    PROVE  Max(s) = m
    <1>1. \A y \in s : m >= y
        OBVIOUS
    <1>2. \A x \in s : (\A y \in s : x >= y) => x = m
        OBVIOUS
    <1> QED
        BY <1>1, <1>2 DEF Max

(* FoldLeft takes the last index of a set of indices; the sets that matter *)
(* are the prefixes.                                                       *)
LEMMA PrefixSets ==
    ASSUME NEW n \in Nat
    PROVE  /\ 1..0 = {}
           /\ \A k \in 0..n : 1..k \in SUBSET (1..n)
           /\ \A k \in 1..n : /\ 1..k # {} /\ Max(1..k) = k
                              /\ (1..k) \ {k} = 1..(k - 1)
    <1>1. \A k \in 1..n : k \in 1..k
        OBVIOUS
    <1>2. \A k \in 1..n : Max(1..k) = k
        BY <1>1, TopOf
    <1> QED
        BY <1>1, <1>2

(* A function on the sets of indices up to m, from one up to m - 1.        *)
Extends(g, f, top, m) ==
    /\ g = [s \in SUBSET (1..m) |-> g[s]]
    /\ g[{}] = f[{}]
    /\ \A s \in SUBSET (1..m) : m \in s =>
          /\ Max(s) = m /\ s \ {m} \in SUBSET (1..(m - 1))
          /\ g[s] = top[s \ {m}] /\ g[s \ {m}] = f[s \ {m}]
    /\ \A s \in SUBSET (1..m) : m \notin s =>
          /\ s \in SUBSET (1..(m - 1))
          /\ g[s] = f[s] /\ g[s \ {Max(s)}] = f[s \ {Max(s)}]

(* Such a function exists.                                                 *)
LEMMA Extension ==
    ASSUME NEW m \in Nat \ {0}, NEW f, NEW top
    PROVE  \E g : Extends(g, f, top, m)
    <1> DEFINE g == [s \in SUBSET (1..m) |-> IF m \notin s THEN f[s] ELSE top[s \ {m}]]
    <1>1. ASSUME NEW s \in SUBSET (1..m) PROVE s \ {m} \in SUBSET (1..(m - 1))
        <2>1. \A x \in s \ {m} : x \in 1..(m - 1)
            OBVIOUS
        <2> QED
            BY <2>1
    <1>2. ASSUME NEW s \in SUBSET (1..m), m \in s
          PROVE  /\ Max(s) = m /\ s \ {m} \in SUBSET (1..(m - 1))
                 /\ g[s] = top[s \ {m}] /\ g[s \ {m}] = f[s \ {m}]
        <2>1. Max(s) = m
            BY <1>2, TopOf
        <2>2. s \ {m} \in SUBSET (1..m) /\ m \notin s \ {m}
            OBVIOUS
        <2> QED
            BY <1>1, <1>2, <2>1, <2>2
    <1>3. ASSUME NEW s \in SUBSET (1..m), m \notin s
          PROVE  /\ s \in SUBSET (1..(m - 1))
                 /\ g[s] = f[s] /\ g[s \ {Max(s)}] = f[s \ {Max(s)}]
        <2>1. s \ {m} = s
            BY <1>3
        <2>2. s \ {Max(s)} \in SUBSET (1..m) /\ m \notin s \ {Max(s)}
            BY <1>3
        <2> QED
            BY <1>1, <1>3, <2>1, <2>2
    <1>4. g = [s \in SUBSET (1..m) |-> g[s]]
        OBVIOUS
    <1>5. g[{}] = f[{}]
        OBVIOUS
    <1> HIDE DEF g
    <1>6. Extends(g, f, top, m)
        BY <1>2, <1>3, <1>4, <1>5 DEF Extends
    <1> QED
        BY <1>6

-----------------------------------------------------------------------------
(* Sequences, whatever they hold.                                          *)

IsSeq(s) == s \in Seq(ToSet(s))

(* A sequence over some set is a sequence.                                 *)
LEMMA SeqIs ==
    ASSUME NEW S, NEW s \in Seq(S)
    PROVE  IsSeq(s)
    BY DEF IsSeq, ToSet

(* Length, domain, Append and Tail, element by element.                    *)
LEMMA SeqFacts ==
    ASSUME NEW s, IsSeq(s)
    PROVE  /\ Len(s) \in Nat /\ DOMAIN s = 1..Len(s)
           /\ s = <<>> <=> Len(s) = 0
           /\ \A x : /\ IsSeq(Append(s, x)) /\ Len(Append(s, x)) = Len(s) + 1
                     /\ \A i \in 1..Len(s) : Append(s, x)[i] = s[i]
                     /\ Append(s, x)[Len(s) + 1] = x
           /\ s # <<>> => /\ IsSeq(Tail(s)) /\ Len(Tail(s)) = Len(s) - 1
                          /\ \A i \in 1..(Len(s) - 1) : Tail(s)[i] = s[i + 1]
    <1> DEFINE S == ToSet(s)
    <1>1. s \in Seq(S)
        BY DEF IsSeq
    <1> HIDE DEF S
    <1>2. ASSUME NEW x
          PROVE  /\ IsSeq(Append(s, x)) /\ Len(Append(s, x)) = Len(s) + 1
                 /\ \A i \in 1..Len(s) : Append(s, x)[i] = s[i]
                 /\ Append(s, x)[Len(s) + 1] = x
        <2>1. s \in Seq(S \cup {x})
            BY <1>1
        <2>2. /\ Append(s, x) \in Seq(S \cup {x}) /\ Len(Append(s, x)) = Len(s) + 1
              /\ \A i \in 1..Len(s) : Append(s, x)[i] = s[i]
              /\ Append(s, x)[Len(s) + 1] = x
            BY <2>1
        <2>3. IsSeq(Append(s, x))
            BY <2>2, SeqIs
        <2> QED
            BY <2>2, <2>3
    <1>3. ASSUME s # <<>>
          PROVE  /\ IsSeq(Tail(s)) /\ Len(Tail(s)) = Len(s) - 1
                 /\ \A i \in 1..(Len(s) - 1) : Tail(s)[i] = s[i + 1]
        <2>1. /\ Tail(s) \in Seq(S) /\ Len(Tail(s)) = Len(s) - 1
              /\ \A i \in 1..(Len(s) - 1) : Tail(s)[i] = s[i + 1]
            BY <1>1, <1>3
        <2>2. IsSeq(Tail(s))
            BY <2>1, SeqIs
        <2> QED
            BY <2>1, <2>2
    <1> QED
        BY <1>1, <1>2, <1>3

(* Concatenation, element by element.                                      *)
LEMMA Concatenation ==
    ASSUME NEW s, NEW u, IsSeq(s), IsSeq(u)
    PROVE  /\ IsSeq(s \o u) /\ Len(s \o u) = Len(s) + Len(u)
           /\ \A i \in 1..Len(s) : (s \o u)[i] = s[i]
           /\ \A i \in 1..Len(u) : (s \o u)[Len(s) + i] = u[i]
    <1> DEFINE S == ToSet(s) \cup ToSet(u)
    <1>1. s \in Seq(S) /\ u \in Seq(S)
        BY DEF IsSeq
    <1> HIDE DEF S
    <1>2. /\ s \o u \in Seq(S) /\ Len(s \o u) = Len(s) + Len(u)
          /\ \A i \in 1..Len(s) : (s \o u)[i] = s[i]
          /\ \A i \in 1..Len(u) : (s \o u)[Len(s) + i] = u[i]
        BY <1>1
    <1>3. IsSeq(s \o u)
        BY <1>2, SeqIs
    <1> QED
        BY <1>2, <1>3

(* A function on 1..n is a sequence.                                       *)
LEMMA Listing ==
    ASSUME NEW s, NEW n \in Nat, s = [i \in 1..n |-> s[i]]
    PROVE  IsSeq(s) /\ Len(s) = n
    <1>1. s \in Seq({s[i] : i \in 1..n})
        OBVIOUS
    <1> QED
        BY <1>1, SeqIs

(* The operators that are folded over a sequence; p is what else each one  *)
(* reads.                                                                  *)
Folded(op, p, s, x) ==
    CASE op = "lex" -> Lex(s, p, x)
      [] op = "parse" -> Parse(s, x)
      [] op = "change" -> ApplyChange(s, x)
      [] op = "cat" -> CatOperand(s, x, p.ctx, p.t)
      [] op = "ls" -> LsOperand(s, x, p.several, p.ctx, p.t)
      [] op = "placed" -> Placed(s, x)
      [] op = "sorted" -> Inserted(s, WithoutLf(x), p)
      [] op = "mkdir" -> Taken(s, MkdirOperand(s.tree, x, p.cwd, p.parents))
      [] op = "touch" -> Taken(s, TouchOperand(s.tree, x, p.cwd))
      [] op = "rm" -> Taken(s, RmOperand(s.tree, x, p.cwd, p.flags))
      [] op = "transfer" ->
           Taken(s, TransferOperand(s.tree, x, p.d, p.into, p.cwd, p.recursive, p.move))

Iterates(g, op, p, base, seq, n) ==
    g = [s \in SUBSET (1..n) |-> IF s = {} THEN base
           ELSE Folded(op, p, g[s \ {Max(s)}], seq[Max(s)])]

(* The recursive function behind a fold of each of them exists.            *)
LEMMA FoldExists ==
    ASSUME NEW op, NEW p, NEW base, NEW seq, NEW n \in Nat
    PROVE  \E g : Iterates(g, op, p, base, seq, n)
    <1> DEFINE Step(g, s) == IF s = {} THEN base ELSE Folded(op, p, g[s \ {Max(s)}], seq[Max(s)])
               Iter(m, g) == g = [s \in SUBSET (1..m) |-> Step(g, s)]
               T == {m \in 0..n : \E g : Iter(m, g)}
    <1>1. 0 \in T
        <2> DEFINE g == [s \in SUBSET (1..0) |-> base]
        <2>1. Iter(0, g)
            OBVIOUS
        <2> QED
            BY <2>1
    <1>2. ASSUME NEW m \in 1..n, m - 1 \in T PROVE m \in T
        <2>1. PICK f : Iter(m - 1, f)
            BY <1>2
        <2> DEFINE top == [s \in SUBSET (1..(m - 1)) |-> Folded(op, p, f[s], seq[m])]
        <2>2. PICK g : Extends(g, f, top, m)
            <3> HIDE DEF top, Iter
            <3> QED
                BY Extension
        <2>3. ASSUME NEW s \in SUBSET (1..m), m \in s
              PROVE  g[s] = Step(g, s)
            <3>1. /\ Max(s) = m /\ s \ {m} \in SUBSET (1..(m - 1))
                  /\ g[s] = top[s \ {m}] /\ g[s \ {m}] = f[s \ {m}]
                BY <2>2, <2>3 DEF Extends
            <3>2. g[s] = Folded(op, p, f[s \ {m}], seq[m])
                BY <3>1
            <3> QED
                BY <2>3, <3>1, <3>2
        <2>4. ASSUME NEW s \in SUBSET (1..m), m \notin s
              PROVE  g[s] = Step(g, s)
            <3>1. /\ s \in SUBSET (1..(m - 1))
                  /\ g[s] = f[s] /\ g[s \ {Max(s)}] = f[s \ {Max(s)}]
                BY <2>2, <2>4 DEF Extends
            <3>2. f[s] = Step(f, s)
                BY <2>1, <3>1
            <3> QED
                BY <3>1, <3>2
        <2> HIDE DEF Step
        <2>5. Iter(m, g)
            BY <2>2, <2>3, <2>4 DEF Extends
        <2> HIDE DEF Iter
        <2> QED
            BY <2>5
    <1> HIDE DEF Iter
    <1>3. n \in T
        BY <1>1, <1>2, LeastFailure
    <1> QED
        BY <1>3 DEF Iter, Iterates

States(h, op, p, base, seq, n, g) ==
    /\ h[0] = base /\ h[n] = g[1..n]
    /\ \A k \in 1..n : h[k] = Folded(op, p, h[k - 1], seq[k])

(* It gives the states before and after each element of the sequence.      *)
LEMMA FoldStates ==
    ASSUME NEW op, NEW p, NEW base, NEW seq, NEW n \in Nat, NEW g,
           Iterates(g, op, p, base, seq, n)
    PROVE  \E h : States(h, op, p, base, seq, n, g)
    <1> DEFINE Step(s) == IF s = {} THEN base ELSE Folded(op, p, g[s \ {Max(s)}], seq[Max(s)])
               h == [k \in 0..n |-> g[1..k]]
    <1>1. \A s \in SUBSET (1..n) : g[s] = Step(s)
        BY DEF Iterates
    <1>2. ASSUME NEW k \in 1..n PROVE h[k] = Folded(op, p, h[k - 1], seq[k])
        <2>1. 1..k \in SUBSET (1..n) /\ 1..k # {} /\ Max(1..k) = k /\ (1..k) \ {k} = 1..(k - 1)
            BY PrefixSets
        <2>2. g[1..k] = Step(1..k)
            BY <1>1, <2>1
        <2>3. g[1..k] = Folded(op, p, g[1..(k - 1)], seq[k])
            BY <2>1, <2>2
        <2> QED
            BY <2>3
    <1>3. h[0] = base
        <2>1. 1..0 = {} /\ {} \in SUBSET (1..n)
            OBVIOUS
        <2>2. g[1..0] = Step({})
            BY <1>1, <2>1
        <2> QED
            BY <2>2
    <1>4. h[n] = g[1..n]
        OBVIOUS
    <1> HIDE DEF h
    <1>5. States(h, op, p, base, seq, n, g)
        BY <1>2, <1>3, <1>4 DEF States
    <1> HIDE DEF Step
    <1> QED
        BY <1>5

(* So a fold ends in the last of such states.                              *)
LEMMA LexFold ==
    ASSUME NEW lexemes, IsSeq(lexemes)
    PROVE  \E h : /\ h[0] = [tokens |-> <<>>, parts |-> <<>>, started |-> FALSE, code |-> "ok"]
                  /\ \A k \in 1..Len(lexemes) : h[k] = Lex(h[k - 1], lexemes, k)
                  /\ h[Len(lexemes)] = Lexed(lexemes)
    <1> DEFINE base == [tokens |-> <<>>, parts |-> <<>>, started |-> FALSE, code |-> "ok"]
               n == Len(lexemes)
               p == lexemes
               seq == [i \in 1..Len(lexemes) |-> i]
               Iter(g) == g = [s \in SUBSET DOMAIN seq |-> IF s = {} THEN base
                                 ELSE Lex(g[s \ {Max(s)}], lexemes, seq[Max(s)])]
               it == CHOOSE g : Iter(g)
    <1>1. Lexed(lexemes) = it[DOMAIN seq]
        BY DEF FoldLeft, MapThenFoldSet, Lexed
    <1>2. n \in Nat /\ DOMAIN seq = 1..n
        BY SeqFacts
    <1> HIDE DEF n, base, seq
    <1>3. \A g : Iter(g) <=> Iterates(g, "lex", p, base, seq, n)
        BY <1>2 DEF Iterates, Folded
    <1> HIDE DEF Iter, p
    <1>4. Iterates(it, "lex", p, base, seq, n)
        BY <1>2, <1>3, FoldExists
    <1> HIDE DEF it
    <1>5. \A s, x : Folded("lex", p, s, x) = Lex(s, lexemes, x)
        BY DEF Folded, p
    <1>6. PICK h : States(h, "lex", p, base, seq, n, it)
        BY <1>2, <1>4, FoldStates
    <1>7. \A k \in 1..n : h[k] = Lex(h[k - 1], lexemes, seq[k])
        BY <1>5, <1>6 DEF States
    <1> QED
        BY <1>1, <1>2, <1>6, <1>7 DEF base, n, seq, States

(* So has the fold of the parser,                                          *)
LEMMA ParseFold ==
    ASSUME NEW tokens, IsSeq(tokens)
    PROVE  \E h : /\ h[0] = [units |-> <<>>, stages |-> <<>>, words |-> <<>>, connector |-> ";",
                              mode |-> "none", destination |-> [k |-> "word", parts |-> <<>>],
                              at |-> "command"]
                  /\ \A k \in 1..Len(tokens) : h[k] = Parse(h[k - 1], tokens[k])
                  /\ h[Len(tokens)] = Parsed(tokens)
    <1> DEFINE base == [units |-> <<>>, stages |-> <<>>, words |-> <<>>, connector |-> ";",
                              mode |-> "none", destination |-> [k |-> "word", parts |-> <<>>],
                              at |-> "command"]
               n == Len(tokens)
               p == 0
               seq == tokens
               Iter(g) == g = [s \in SUBSET DOMAIN seq |-> IF s = {} THEN base
                                 ELSE Parse(g[s \ {Max(s)}], seq[Max(s)])]
               it == CHOOSE g : Iter(g)
    <1>1. Parsed(tokens) = it[DOMAIN seq]
        BY DEF FoldLeft, MapThenFoldSet, Parsed
    <1>2. n \in Nat /\ DOMAIN seq = 1..n
        BY SeqFacts
    <1> HIDE DEF n, base, seq
    <1>3. \A g : Iter(g) <=> Iterates(g, "parse", p, base, seq, n)
        BY <1>2 DEF Iterates, Folded
    <1> HIDE DEF Iter, p
    <1>4. Iterates(it, "parse", p, base, seq, n)
        BY <1>2, <1>3, FoldExists
    <1> HIDE DEF it
    <1>5. \A s, x : Folded("parse", p, s, x) = Parse(s, x)
        BY DEF Folded, p
    <1>6. PICK h : States(h, "parse", p, base, seq, n, it)
        BY <1>2, <1>4, FoldStates
    <1>7. \A k \in 1..n : h[k] = Parse(h[k - 1], seq[k])
        BY <1>5, <1>6 DEF States
    <1> QED
        BY <1>1, <1>2, <1>6, <1>7 DEF base, n, seq, States

(* the fold of the environment changes,                                    *)
LEMMA ChangeFold ==
    ASSUME NEW env, NEW changes, IsSeq(changes)
    PROVE  \E h : /\ h[0] = env
                  /\ \A k \in 1..Len(changes) : h[k] = ApplyChange(h[k - 1], changes[k])
                  /\ h[Len(changes)] = ApplyChanges(env, changes)
    <1> DEFINE base == env
               n == Len(changes)
               p == 0
               seq == changes
               Iter(g) == g = [s \in SUBSET DOMAIN seq |-> IF s = {} THEN base
                                 ELSE ApplyChange(g[s \ {Max(s)}], seq[Max(s)])]
               it == CHOOSE g : Iter(g)
    <1>1. ApplyChanges(env, changes) = it[DOMAIN seq]
        BY DEF FoldLeft, MapThenFoldSet, ApplyChanges
    <1>2. n \in Nat /\ DOMAIN seq = 1..n
        BY SeqFacts
    <1> HIDE DEF n, base, seq
    <1>3. \A g : Iter(g) <=> Iterates(g, "change", p, base, seq, n)
        BY <1>2 DEF Iterates, Folded
    <1> HIDE DEF Iter, p
    <1>4. Iterates(it, "change", p, base, seq, n)
        BY <1>2, <1>3, FoldExists
    <1> HIDE DEF it
    <1>5. \A s, x : Folded("change", p, s, x) = ApplyChange(s, x)
        BY DEF Folded, p
    <1>6. PICK h : States(h, "change", p, base, seq, n, it)
        BY <1>2, <1>4, FoldStates
    <1>7. \A k \in 1..n : h[k] = ApplyChange(h[k - 1], seq[k])
        BY <1>5, <1>6 DEF States
    <1> QED
        BY <1>1, <1>2, <1>6, <1>7 DEF base, n, seq, States

(* the fold of cat, over its operands,                                     *)
LEMMA CatFold ==
    ASSUME NEW operands, IsSeq(operands), NEW ctx, NEW t
    PROVE  \E h : /\ h[0] = Success(<<>>)
                  /\ \A k \in 1..Len(operands) : h[k] = CatOperand(h[k - 1], operands[k], ctx, t)
                  /\ h[Len(operands)] = Concatenated(operands, ctx, t)
    <1> DEFINE base == Success(<<>>)
               n == Len(operands)
               p == [ctx |-> ctx, t |-> t]
               seq == operands
               Iter(g) == g = [s \in SUBSET DOMAIN seq |-> IF s = {} THEN base
                                 ELSE CatOperand(g[s \ {Max(s)}], seq[Max(s)], ctx, t)]
               it == CHOOSE g : Iter(g)
    <1>1. Concatenated(operands, ctx, t) = it[DOMAIN seq]
        BY DEF FoldLeft, MapThenFoldSet, Concatenated
    <1>2. n \in Nat /\ DOMAIN seq = 1..n
        BY SeqFacts
    <1> HIDE DEF n, base, seq
    <1>3. \A g : Iter(g) <=> Iterates(g, "cat", p, base, seq, n)
        BY <1>2 DEF Iterates, Folded
    <1> HIDE DEF Iter, p
    <1>4. Iterates(it, "cat", p, base, seq, n)
        BY <1>2, <1>3, FoldExists
    <1> HIDE DEF it
    <1>5. \A s, x : Folded("cat", p, s, x) = CatOperand(s, x, ctx, t)
        BY DEF Folded, p
    <1>6. PICK h : States(h, "cat", p, base, seq, n, it)
        BY <1>2, <1>4, FoldStates
    <1>7. \A k \in 1..n : h[k] = CatOperand(h[k - 1], seq[k], ctx, t)
        BY <1>5, <1>6 DEF States
    <1> QED
        BY <1>1, <1>2, <1>6, <1>7 DEF base, n, seq, States

(* and the fold of ls.                                                     *)
LEMMA LsFold ==
    ASSUME NEW operands, IsSeq(operands), NEW ctx, NEW t
    PROVE  \E h : /\ h[0] = [ok |-> TRUE, out |-> <<>>, first |-> TRUE, result |-> Invalid]
                  /\ \A k \in 1..Len(operands) :
                       h[k] = LsOperand(h[k - 1], operands[k], Len(operands) > 1, ctx, t)
                  /\ h[Len(operands)] = Listed(operands, ctx, t)
    <1> DEFINE base == [ok |-> TRUE, out |-> <<>>, first |-> TRUE, result |-> Invalid]
               n == Len(operands)
               p == [several |-> Len(operands) > 1, ctx |-> ctx, t |-> t]
               seq == operands
               Iter(g) == g = [s \in SUBSET DOMAIN seq |-> IF s = {} THEN base
                                 ELSE LsOperand(g[s \ {Max(s)}], seq[Max(s)],
                                                Len(operands) > 1, ctx, t)]
               it == CHOOSE g : Iter(g)
    <1>1. Listed(operands, ctx, t) = it[DOMAIN seq]
        BY DEF FoldLeft, MapThenFoldSet, Listed
    <1>2. n \in Nat /\ DOMAIN seq = 1..n
        BY SeqFacts
    <1> HIDE DEF n, base, seq
    <1>3. \A g : Iter(g) <=> Iterates(g, "ls", p, base, seq, n)
        BY <1>2 DEF Iterates, Folded
    <1> HIDE DEF Iter, p
    <1>4. Iterates(it, "ls", p, base, seq, n)
        BY <1>2, <1>3, FoldExists
    <1> HIDE DEF it
    <1>5. \A s, x : Folded("ls", p, s, x) = LsOperand(s, x, Len(operands) > 1, ctx, t)
        BY DEF Folded, p
    <1>6. PICK h : States(h, "ls", p, base, seq, n, it)
        BY <1>2, <1>4, FoldStates
    <1>7. \A k \in 1..n : h[k] = LsOperand(h[k - 1], seq[k], Len(operands) > 1, ctx, t)
        BY <1>5, <1>6 DEF States
    <1> QED
        BY <1>1, <1>2, <1>6, <1>7 DEF base, n, seq, States

(* Applying changes in two goes is applying all of them.                   *)
LEMMA ChangesAppend ==
    ASSUME NEW base, NEW a, NEW b, IsSeq(a), IsSeq(b)
    PROVE  ApplyChanges(base, a \o b) = ApplyChanges(ApplyChanges(base, a), b)
    <1> DEFINE n == Len(a)
               m == Len(b)
               c == a \o b
    <1>1. n \in Nat /\ DOMAIN a = 1..n /\ m \in Nat /\ DOMAIN b = 1..m
        BY SeqFacts
    <1>2. /\ IsSeq(c) /\ Len(c) = n + m /\ DOMAIN c = 1..(n + m)
          /\ \A i \in 1..n : c[i] = a[i]
          /\ \A i \in 1..m : c[n + i] = b[i]
        BY <1>1, Concatenation, SeqFacts
    <1> HIDE DEF n, m, c
    <1>3. PICK f : /\ f[0] = base /\ f[n] = ApplyChanges(base, a)
                   /\ \A k \in 1..n : f[k] = ApplyChange(f[k - 1], a[k])
        BY ChangeFold DEF n, m
    <1>4. PICK g : /\ g[0] = f[n] /\ g[m] = ApplyChanges(f[n], b)
                   /\ \A k \in 1..m : g[k] = ApplyChange(g[k - 1], b[k])
        BY ChangeFold DEF n, m
    <1>5. PICK h : /\ h[0] = base /\ h[n + m] = ApplyChanges(base, c)
                   /\ \A k \in 1..(n + m) : h[k] = ApplyChange(h[k - 1], c[k])
        BY <1>2, ChangeFold
    <1>6. h[n] = f[n]
        <2> DEFINE T == {k \in 0..n : h[k] = f[k]}
        <2>1. 0 \in T
            BY <1>1, <1>3, <1>5
        <2>2. ASSUME NEW k \in 1..n, k - 1 \in T PROVE k \in T
            <3>1. k \in 1..(n + m) /\ c[k] = a[k]
                BY <1>1, <1>2
            <3> QED
                BY <1>3, <1>5, <2>2, <3>1
        <2> HIDE DEF T
        <2>3. n \in T
            BY <1>1, <2>1, <2>2, LeastFailure DEF T
        <2> QED
            BY <2>3 DEF T
    <1>7. h[n + m] = g[m]
        <2> DEFINE T == {k \in 0..m : h[n + k] = g[k]}
        <2>1. 0 \in T
            BY <1>1, <1>4, <1>6
        <2>2. ASSUME NEW k \in 1..m, k - 1 \in T PROVE k \in T
            <3>1. n + k \in 1..(n + m) /\ c[n + k] = b[k] /\ (n + k) - 1 = n + (k - 1)
                BY <1>1, <1>2
            <3> QED
                BY <1>4, <1>5, <2>2, <3>1
        <2> HIDE DEF T
        <2>3. m \in T
            BY <1>1, <2>1, <2>2, LeastFailure DEF T
        <2> QED
            BY <2>3 DEF T
    <1> QED
        BY <1>3, <1>4, <1>5, <1>7 DEF c

-----------------------------------------------------------------------------
(* The lexer and the parser keep their accumulators sequences.             *)

LexState(s) ==
    /\ DOMAIN s = {"tokens", "parts", "started", "code"}
    /\ IsSeq(s.tokens)
    /\ s.code # "returned"

(* The empty sequence.                                                     *)
LEMMA NoElements ==
    ASSUME NEW z, z = <<>>
    PROVE  IsSeq(z) /\ Len(z) = 0 /\ DOMAIN z = {}
    <1>1. z \in Seq({}) /\ Len(z) = 0
        OBVIOUS
    <1>2. IsSeq(z)
        BY <1>1, SeqIs
    <1> QED
        BY <1>1, <1>2, SeqFacts

(* Flush ends the word that was begun.                                     *)
LEMMA FlushKeeps ==
    ASSUME NEW s, LexState(s)
    PROVE  LexState(Flush(s))
    <1> DEFINE r == Flush(s)
               w == [k |-> "word", parts |-> s.parts]
    <1>1. /\ DOMAIN r = DOMAIN s /\ r.code = s.code
          /\ r.tokens = IF s.started THEN Append(s.tokens, w) ELSE s.tokens
        BY DEF Flush, LexState
    <1>2. IsSeq(Append(s.tokens, w))
        <2> HIDE DEF w
        <2> QED
            BY SeqFacts DEF LexState
    <1> HIDE DEF r, w
    <1>3. LexState(r)
        BY <1>1, <1>2 DEF LexState
    <1> QED
        BY <1>3 DEF r

Refusable(lexemes) ==
    \A i \in DOMAIN lexemes : lexemes[i].k = "refused" => lexemes[i].code # "returned"

(* One lexeme.                                                             *)
LEMMA LexKeeps ==
    ASSUME NEW lexemes, NEW i \in DOMAIN lexemes, Refusable(lexemes), NEW s, LexState(s)
    PROVE  LexState(Lex(s, lexemes, i))
    <1> DEFINE x == lexemes[i]
               f == Flush(s)
    <1>1. LexState(f)
        BY FlushKeeps
    <1>2. IsSeq(Append(f.tokens, x))
        <2> HIDE DEF f, x
        <2> QED
            BY <1>1, SeqFacts DEF LexState
    <1>3. LexState([f EXCEPT !.tokens = Append(@, x)])
        <2> HIDE DEF f, x
        <2> QED
            BY <1>1, <1>2 DEF LexState
    <1>4. x.k = "refused" => LexState([s EXCEPT !.code = x.code])
        BY DEF LexState, Refusable
    <1>5. LexState([s EXCEPT !.code = "unsupported"])
        BY DEF LexState
    <1>6. LexState([s EXCEPT !.parts = @ \o x.parts, !.started = TRUE])
        BY DEF LexState
    <1> HIDE DEF LexState
    <1> QED
        BY <1>1, <1>3, <1>4, <1>5, <1>6 DEF Lex

(* All lexemes.                                                            *)
LEMMA LexedState ==
    ASSUME NEW lexemes, IsSeq(lexemes), Refusable(lexemes)
    PROVE  LexState(Lexed(lexemes))
    <1> DEFINE n == Len(lexemes)
    <1>1. n \in Nat /\ DOMAIN lexemes = 1..n
        BY SeqFacts
    <1>2. PICK h : /\ h[0] = [tokens |-> <<>>, parts |-> <<>>, started |-> FALSE, code |-> "ok"]
                   /\ \A k \in 1..n : h[k] = Lex(h[k - 1], lexemes, k)
                   /\ h[n] = Lexed(lexemes)
        BY LexFold
    <1> HIDE DEF n
    <1> DEFINE T == {k \in 0..n : LexState(h[k])}
    <1>3. 0 \in T
        <2>0. h[0].tokens = <<>>
            BY <1>2
        <2>1. LexState(h[0])
            BY <1>2, <2>0, NoElements DEF LexState
        <2> HIDE DEF LexState
        <2> QED
            BY <1>1, <2>1
    <1>4. ASSUME NEW k \in 1..n, k - 1 \in T PROVE k \in T
        <2>1. LexState(Lex(h[k - 1], lexemes, k))
            BY <1>1, <1>4, LexKeeps
        <2> QED
            BY <1>1, <1>2, <2>1
    <1> HIDE DEF T
    <1>5. n \in T
        BY <1>1, <1>3, <1>4, LeastFailure DEF T
    <1> QED
        BY <1>2, <1>5 DEF T

(* tokenize yields a sequence of tokens, or a refusal.                     *)
LEMMA Tokens ==
    ASSUME NEW lexemes, IsSeq(lexemes), Refusable(lexemes)
    PROVE  IF Tokenize(lexemes).ok THEN IsSeq(Tokenize(lexemes).tokens)
           ELSE Tokenize(lexemes).code # "returned"
    <1> DEFINE end == Lexed(lexemes)
    <1>1. LexState(end) /\ LexState(Flush(end))
        BY LexedState, FlushKeeps
    <1>2. \/ Tokenize(lexemes) = Fail("unsupported")
          \/ Tokenize(lexemes) = Fail(end.code)
          \/ Tokenize(lexemes) = [ok |-> TRUE, tokens |-> Flush(end).tokens]
        BY DEF Tokenize
    <1> HIDE DEF end
    <1> QED
        BY <1>1, <1>2 DEF Fail, LexState

-----------------------------------------------------------------------------
Stage(words) == IsSeq(words) /\ words # <<>>
GoodUnit(u) ==
    /\ IsSeq(u.stages) /\ u.stages # <<>>
    /\ \A i \in DOMAIN u.stages : Stage(u.stages[i])
GoodUnits(us) == IsSeq(us) /\ \A i \in DOMAIN us : GoodUnit(us[i])

ParseState(s) ==
    /\ DOMAIN s = {"units", "stages", "words", "connector", "mode", "destination", "at"}
    /\ GoodUnits(s.units)
    /\ IsSeq(s.stages) /\ \A i \in DOMAIN s.stages : Stage(s.stages[i])
    /\ IsSeq(s.words) /\ (s.at \in {"words", "destination", "end"} => s.words # <<>>)

(* Appending keeps what holds of every element.                            *)
LEMMA AppendStage ==
    ASSUME NEW s, IsSeq(s), \A i \in DOMAIN s : Stage(s[i]), NEW x, Stage(x)
    PROVE  /\ IsSeq(Append(s, x)) /\ Append(s, x) # <<>>
           /\ \A i \in DOMAIN Append(s, x) : Stage(Append(s, x)[i])
    <1> DEFINE a == Append(s, x)
    <1>1. /\ Len(s) \in Nat /\ DOMAIN s = 1..Len(s) /\ IsSeq(a) /\ Len(a) = Len(s) + 1
          /\ \A i \in 1..Len(s) : a[i] = s[i]
          /\ a[Len(s) + 1] = x
        BY SeqFacts
    <1> HIDE DEF a
    <1>2. DOMAIN a = 1..(Len(s) + 1) /\ a # <<>>
        BY <1>1, SeqFacts
    <1>3. \A i \in DOMAIN a : Stage(a[i])
        BY <1>1, <1>2
    <1> QED
        BY <1>1, <1>2, <1>3 DEF a

(* The same for the units of a plan.                                       *)
LEMMA AppendUnit ==
    ASSUME NEW s, GoodUnits(s), NEW x, GoodUnit(x)
    PROVE  GoodUnits(Append(s, x)) /\ Append(s, x) # <<>>
    <1> DEFINE a == Append(s, x)
    <1>1. /\ Len(s) \in Nat /\ DOMAIN s = 1..Len(s) /\ IsSeq(a) /\ Len(a) = Len(s) + 1
          /\ \A i \in 1..Len(s) : a[i] = s[i]
          /\ a[Len(s) + 1] = x
        BY SeqFacts DEF GoodUnits
    <1> HIDE DEF a
    <1>2. DOMAIN a = 1..(Len(s) + 1) /\ a # <<>>
        BY <1>1, SeqFacts
    <1>3. \A i \in DOMAIN a : GoodUnit(a[i])
        BY <1>1, <1>2 DEF GoodUnits
    <1> QED
        BY <1>1, <1>2, <1>3 DEF a, GoodUnits

(* The end of a stage.                                                     *)
LEMMA EndStageKeeps ==
    ASSUME NEW s, ParseState(s), s.words # <<>>
    PROVE  LET e == EndStage(s)
           IN  /\ DOMAIN e = DOMAIN s /\ e.units = s.units /\ e.words = <<>>
               /\ e.connector = s.connector /\ e.mode = s.mode
               /\ e.destination = s.destination
               /\ IsSeq(e.stages) /\ e.stages # <<>>
               /\ \A i \in DOMAIN e.stages : Stage(e.stages[i])
    <1> DEFINE e == EndStage(s)
    <1>1. /\ DOMAIN e = DOMAIN s /\ e.units = s.units /\ e.words = <<>>
          /\ e.connector = s.connector /\ e.mode = s.mode
          /\ e.destination = s.destination /\ e.stages = Append(s.stages, s.words)
        BY DEF EndStage, ParseState
    <1> HIDE DEF e
    <1>2. /\ IsSeq(e.stages) /\ e.stages # <<>>
          /\ \A i \in DOMAIN e.stages : Stage(e.stages[i])
        BY <1>1, AppendStage DEF ParseState, Stage
    <1> QED
        BY <1>1, <1>2 DEF e

(* The end of a unit.                                                      *)
LEMMA EndUnitKeeps ==
    ASSUME NEW s, ParseState(s), s.words # <<>>
    PROVE  LET e == EndUnit(s)
           IN  /\ DOMAIN e = DOMAIN s /\ e.words = <<>> /\ e.stages = <<>>
               /\ GoodUnits(e.units) /\ e.units # <<>>
    <1> DEFINE f == EndStage(s)
               u == [connector |-> s.connector, stages |-> f.stages,
                     mode |-> s.mode, destination |-> s.destination]
               e == EndUnit(s)
    <1>1. /\ DOMAIN f = DOMAIN s /\ f.units = s.units /\ f.words = <<>>
          /\ IsSeq(f.stages) /\ f.stages # <<>>
          /\ \A i \in DOMAIN f.stages : Stage(f.stages[i])
        BY EndStageKeeps
    <1>2. e = [f EXCEPT !.units = Append(@, u), !.stages = <<>>, !.mode = "none",
                        !.destination = [k |-> "word", parts |-> <<>>]]
        BY Zenon DEF EndUnit
    <1> HIDE DEF f, e
    <1>3. GoodUnit(u)
        BY <1>1 DEF GoodUnit
    <1> HIDE DEF u
    <1>4. /\ DOMAIN e = DOMAIN s /\ e.words = <<>> /\ e.stages = <<>>
          /\ e.units = Append(s.units, u)
        BY <1>1, <1>2 DEF ParseState
    <1>5. GoodUnits(e.units) /\ e.units # <<>>
        BY <1>3, <1>4, AppendUnit DEF ParseState
    <1> QED
        BY <1>4, <1>5 DEF e

(* One token.                                                              *)
LEMMA ParseKeeps ==
    ASSUME NEW s, ParseState(s), NEW x
    PROVE  ParseState(Parse(s, x))
    <1> DEFINE e == EndStage(s)
               f == EndUnit(s)
    <1>1. ParseState([s EXCEPT !.at = "error"])
        BY DEF ParseState
    <1>2. ParseState([s EXCEPT !.words = Append(@, x), !.at = "words"])
        <2>1. IsSeq(Append(s.words, x)) /\ Append(s.words, x) # <<>>
            <3> DEFINE a == Append(s.words, x)
            <3>1. Len(s.words) \in Nat /\ IsSeq(a) /\ Len(a) = Len(s.words) + 1
                BY SeqFacts DEF ParseState
            <3> HIDE DEF a
            <3>2. IsSeq(a) /\ a # <<>>
                BY <3>1, SeqFacts
            <3> QED
                BY <3>2 DEF a
        <2> QED
            BY <2>1 DEF ParseState
    <1>3. s.at = "destination" => ParseState([s EXCEPT !.destination = x, !.at = "end"])
        BY DEF ParseState
    <1>4. s.at = "words" => ParseState([s EXCEPT !.mode = x.v, !.at = "destination"])
        BY DEF ParseState
    <1>5. s.at = "words" => ParseState([e EXCEPT !.at = "command"])
        <2>1. SUFFICES ASSUME s.at = "words" PROVE ParseState([e EXCEPT !.at = "command"])
            OBVIOUS
        <2>2. /\ DOMAIN e = DOMAIN s /\ e.units = s.units /\ e.words = <<>>
              /\ IsSeq(e.stages) /\ \A i \in DOMAIN e.stages : Stage(e.stages[i])
            BY <2>1, EndStageKeeps DEF ParseState
        <2> HIDE DEF e
        <2> DEFINE g == [e EXCEPT !.at = "command"]
        <2>3. /\ DOMAIN g = DOMAIN s /\ g.units = e.units /\ g.words = e.words
              /\ g.stages = e.stages /\ g.at = "command"
            BY <2>2 DEF ParseState
        <2> HIDE DEF g
        <2>4. IsSeq(g.words) /\ (g.stages = <<>> => IsSeq(g.stages) /\ DOMAIN g.stages = {})
            BY <2>2, <2>3, NoElements
        <2>5. ParseState(g)
            BY <2>2, <2>3, <2>4 DEF ParseState
        <2> QED
            BY <2>5 DEF g
    <1>6. s.at \in {"words", "end"} =>
              ParseState([f EXCEPT !.connector = x.v, !.at = "command"])
        <2>1. SUFFICES ASSUME s.at \in {"words", "end"}
                       PROVE  ParseState([f EXCEPT !.connector = x.v, !.at = "command"])
            OBVIOUS
        <2>2. /\ DOMAIN f = DOMAIN s /\ f.words = <<>> /\ f.stages = <<>> /\ GoodUnits(f.units)
            BY <2>1, EndUnitKeeps DEF ParseState
        <2> HIDE DEF f
        <2> DEFINE g == [f EXCEPT !.connector = x.v, !.at = "command"]
        <2>3. /\ DOMAIN g = DOMAIN s /\ g.units = f.units /\ g.words = f.words
              /\ g.stages = f.stages /\ g.at = "command"
            BY <2>2 DEF ParseState
        <2> HIDE DEF g
        <2>4. IsSeq(g.words) /\ (g.stages = <<>> => IsSeq(g.stages) /\ DOMAIN g.stages = {})
            BY <2>2, <2>3, NoElements
        <2>5. ParseState(g)
            BY <2>2, <2>3, <2>4 DEF ParseState
        <2> QED
            BY <2>5 DEF g
    <1> HIDE DEF ParseState
    <1> QED
        BY <1>1, <1>2, <1>3, <1>4, <1>5, <1>6 DEF Parse

(* All tokens.                                                             *)
LEMMA ParsedState ==
    ASSUME NEW tokens, IsSeq(tokens)
    PROVE  ParseState(Parsed(tokens))
    <1> DEFINE n == Len(tokens)
    <1>1. n \in Nat
        BY SeqFacts
    <1>2. PICK h : /\ h[0] = [units |-> <<>>, stages |-> <<>>, words |-> <<>>, connector |-> ";",
                              mode |-> "none", destination |-> [k |-> "word", parts |-> <<>>],
                              at |-> "command"]
                   /\ \A k \in 1..n : h[k] = Parse(h[k - 1], tokens[k])
                   /\ h[n] = Parsed(tokens)
        BY ParseFold
    <1> HIDE DEF n
    <1> DEFINE T == {k \in 0..n : ParseState(h[k])}
    <1>3. 0 \in T
        <2> DEFINE g == h[0]
        <2>0. g = [units |-> <<>>, stages |-> <<>>, words |-> <<>>, connector |-> ";",
                   mode |-> "none", destination |-> [k |-> "word", parts |-> <<>>],
                   at |-> "command"]
            BY <1>2
        <2> HIDE DEF g
        <2>1. /\ DOMAIN g = {"units", "stages", "words", "connector", "mode", "destination", "at"}
              /\ g.units = <<>> /\ g.stages = <<>> /\ g.words = <<>> /\ g.at = "command"
            BY <2>0
        <2>a. /\ IsSeq(g.units) /\ DOMAIN g.units = {} /\ IsSeq(g.stages) /\ DOMAIN g.stages = {}
              /\ IsSeq(g.words)
            BY <2>1, NoElements
        <2>b. ParseState(g)
            BY <2>1, <2>a DEF ParseState, GoodUnits
        <2>2. ParseState(h[0])
            BY <2>b DEF g
        <2> QED
            BY <1>1, <2>2
    <1>4. ASSUME NEW k \in 1..n, k - 1 \in T PROVE k \in T
        <2>1. ParseState(h[k - 1]) /\ k \in 0..n
            BY <1>1, <1>4
        <2>2. ParseState(Parse(h[k - 1], tokens[k]))
            BY <2>1, ParseKeeps
        <2> QED
            BY <1>2, <2>1, <2>2
    <1> HIDE DEF T
    <1>5. n \in T
        BY <1>1, <1>3, <1>4, LeastFailure DEF T
    <1> QED
        BY <1>2, <1>5 DEF T

(* A plan that is accepted has units, and each unit has stages.            *)
LEMMA Plans ==
    ASSUME NEW tokens, IsSeq(tokens)
    PROVE  IF ParseExecutionPlan(tokens).ok
           THEN /\ GoodUnits(ParseExecutionPlan(tokens).units)
                /\ ParseExecutionPlan(tokens).units # <<>>
           ELSE ParseExecutionPlan(tokens).code # "returned"
    <1> DEFINE end == Parsed(tokens)
               plan == ParseExecutionPlan(tokens)
    <1>1. ParseState(end)
        BY ParsedState
    <1>2. \/ plan = Fail("empty") \/ plan = Fail("invalid")
          \/ end.at \in {"words", "end"} /\ plan = [ok |-> TRUE, units |-> EndUnit(end).units]
        BY DEF ParseExecutionPlan
    <1> HIDE DEF end, plan
    <1>3. end.at \in {"words", "end"} => GoodUnits(EndUnit(end).units) /\ EndUnit(end).units # <<>>
        BY <1>1, EndUnitKeeps DEF ParseState
    <1>4. IF plan.ok THEN GoodUnits(plan.units) /\ plan.units # <<>> ELSE plan.code # "returned"
        BY <1>2, <1>3 DEF Fail
    <1> QED
        BY <1>4 DEF plan

-----------------------------------------------------------------------------
(* BoundedOutputCollector, for any texts of whole characters.              *)

(* The collector c has been given, text by text, all of `all`.             *)
Collected(c, all) ==
    /\ DOMAIN c = {"max", "text", "original", "truncated", "closed"}
    /\ c.max \in Nat /\ IsSeq(c.text) /\ IsSeq(all) /\ Len(c.text) <= c.max
    /\ Len(c.text) <= Len(all) /\ \A i \in 1..Len(c.text) : c.text[i] = all[i]
    /\ Decodable(c.text) /\ Decodable(all)
    /\ c.original = Len(all)
    /\ c.truncated \in BOOLEAN /\ c.closed = c.truncated
    /\ c.truncated <=> Len(c.text) # Len(all)

(* Sequences with the same elements are the same.                          *)
LEMMA SameElements ==
    ASSUME NEW s, NEW u, IsSeq(s), IsSeq(u), Len(s) = Len(u),
           \A i \in 1..Len(s) : s[i] = u[i]
    PROVE  s = u
    <1> DEFINE S == ToSet(s) \cup ToSet(u)
    <1>1. s \in Seq(S) /\ u \in Seq(S)
        BY DEF IsSeq
    <1> HIDE DEF S
    <1> QED
        BY <1>1

(* The first elements of a sequence.                                       *)
LEMMA FirstElements ==
    ASSUME NEW s, IsSeq(s), NEW n \in 0..Len(s)
    PROVE  /\ IsSeq(SubSeq(s, 1, n)) /\ Len(SubSeq(s, 1, n)) = n
           /\ \A i \in 1..n : SubSeq(s, 1, n)[i] = s[i]
    <1> DEFINE S == ToSet(s)
    <1>1. s \in Seq(S) /\ Len(s) \in Nat
        BY SeqFacts DEF IsSeq
    <1> HIDE DEF S
    <1>2. /\ SubSeq(s, 1, n) \in Seq(S) /\ Len(SubSeq(s, 1, n)) = n
          /\ \A i \in 1..n : SubSeq(s, 1, n)[i] = s[i]
        BY <1>1
    <1> QED
        BY <1>2, SeqIs

(* Whole characters, one text behind the other.                            *)
LEMMA DecodableAppend ==
    ASSUME NEW a, NEW b, IsSeq(a), IsSeq(b), Decodable(a), Decodable(b)
    PROVE  Decodable(a \o b)
    <1> DEFINE c == a \o b
    <1>1. /\ Len(a) \in Nat /\ DOMAIN a = 1..Len(a) /\ Len(b) \in Nat /\ DOMAIN b = 1..Len(b)
          /\ Len(c) = Len(a) + Len(b) /\ DOMAIN c = 1..(Len(a) + Len(b))
          /\ \A i \in 1..Len(a) : c[i] = a[i]
          /\ \A i \in 1..Len(b) : c[Len(a) + i] = b[i]
        BY Concatenation, SeqFacts
    <1> HIDE DEF c
    <1>2. ASSUME NEW i \in 1..Len(a)
          PROVE  /\ c[i] = Lead => i < Len(c) /\ c[i + 1] = Trail
                 /\ c[i] = Trail => i > 1 /\ c[i - 1] = Lead
        <2>1. /\ a[i] = Lead => i < Len(a) /\ a[i + 1] = Trail
              /\ a[i] = Trail => i > 1 /\ a[i - 1] = Lead
            BY <1>1 DEF Decodable
        <2>2. c[i] = a[i]
            BY <1>1
        <2>3. CASE a[i] = Lead
            <3>1. i + 1 \in 1..Len(a) /\ i < Len(c)
                BY <1>1, <2>1, <2>3
            <3>2. c[i + 1] = Trail
                BY <1>1, <2>1, <2>3, <3>1
            <3> QED
                BY <2>2, <2>3, <3>1, <3>2, CharacterAssumption
        <2>4. CASE a[i] = Trail
            <3>1. i - 1 \in 1..Len(a) /\ i > 1
                BY <1>1, <2>1, <2>4
            <3>2. c[i - 1] = Lead
                BY <1>1, <2>1, <2>4, <3>1
            <3> QED
                BY <2>2, <2>4, <3>1, <3>2, CharacterAssumption
        <2> QED
            BY <2>2, <2>3, <2>4
    <1>3. ASSUME NEW j \in 1..Len(b)
          PROVE  LET i == Len(a) + j
                 IN  /\ c[i] = Lead => i < Len(c) /\ c[i + 1] = Trail
                     /\ c[i] = Trail => i > 1 /\ c[i - 1] = Lead
        <2>1. /\ b[j] = Lead => j < Len(b) /\ b[j + 1] = Trail
              /\ b[j] = Trail => j > 1 /\ b[j - 1] = Lead
            BY <1>1 DEF Decodable
        <2>2. c[Len(a) + j] = b[j]
            BY <1>1
        <2>3. CASE b[j] = Lead
            <3>1. j + 1 \in 1..Len(b) /\ (Len(a) + j) + 1 = Len(a) + (j + 1) /\ Len(a) + j < Len(c)
                BY <1>1, <2>1, <2>3
            <3>2. c[(Len(a) + j) + 1] = Trail
                BY <1>1, <2>1, <2>3, <3>1
            <3> QED
                BY <2>2, <2>3, <3>1, <3>2, CharacterAssumption
        <2>4. CASE b[j] = Trail
            <3>1. j - 1 \in 1..Len(b) /\ (Len(a) + j) - 1 = Len(a) + (j - 1) /\ Len(a) + j > 1
                BY <1>1, <2>1, <2>4
            <3>2. c[(Len(a) + j) - 1] = Lead
                BY <1>1, <2>1, <2>4, <3>1
            <3> QED
                BY <2>2, <2>4, <3>1, <3>2, CharacterAssumption
        <2> QED
            BY <2>2, <2>3, <2>4
    <1>4. \A i \in DOMAIN c : i \in 1..Len(a) \/ \E j \in 1..Len(b) : i = Len(a) + j
        <2> SUFFICES ASSUME NEW i \in DOMAIN c, i \notin 1..Len(a)
                     PROVE  \E j \in 1..Len(b) : i = Len(a) + j
            OBVIOUS
        <2>1. i - Len(a) \in 1..Len(b) /\ i = Len(a) + (i - Len(a))
            BY <1>1
        <2> QED
            BY <2>1
    <1>5. Decodable(c)
        BY <1>2, <1>3, <1>4 DEF Decodable
    <1> QED
        BY <1>5 DEF c

(* The longest prefix that ends with a character.                          *)
LEMMA CompletePrefixFacts ==
    ASSUME NEW s, IsSeq(s), Decodable(s), NEW n \in 0..Len(s)
    PROVE  LET p == CompletePrefix(s, n)
           IN  /\ IsSeq(p) /\ Len(p) <= n /\ Decodable(p)
               /\ \A i \in 1..Len(p) : p[i] = s[i]
    <1>1. Len(s) \in Nat /\ DOMAIN s = 1..Len(s)
        BY SeqFacts
    <1>2. ASSUME NEW k \in 0..Len(s), k > 0 => s[k] # Lead
          PROVE  /\ IsSeq(SubSeq(s, 1, k)) /\ Len(SubSeq(s, 1, k)) = k
                 /\ \A i \in 1..k : SubSeq(s, 1, k)[i] = s[i]
                 /\ Decodable(SubSeq(s, 1, k))
        <2> DEFINE p == SubSeq(s, 1, k)
        <2>1. IsSeq(p) /\ Len(p) = k /\ \A i \in 1..k : p[i] = s[i]
            BY FirstElements
        <2>2. DOMAIN p = 1..k
            BY <2>1, SeqFacts
        <2> HIDE DEF p
        <2>3. \A i \in 1..k : s[i] = Lead => i < k
            BY <1>2
        <2>4. Decodable(p)
            BY <1>1, <2>1, <2>2, <2>3 DEF Decodable
        <2> QED
            BY <2>1, <2>4 DEF p
    <1>3. CASE n > 0 /\ s[n] = Lead
        <2>1. n - 1 \in 0..Len(s) /\ n - 1 <= n /\ CompletePrefix(s, n) = SubSeq(s, 1, n - 1)
            BY <1>1, <1>3 DEF CompletePrefix
        <2>2. n - 1 > 0 => s[n - 1] # Lead
            <3> SUFFICES ASSUME n - 1 > 0, s[n - 1] = Lead
                         PROVE  FALSE
                OBVIOUS
            <3> DEFINE k == n - 1
            <3>1. k \in DOMAIN s /\ k + 1 = n
                BY <1>1
            <3>2. s[k] = Lead
                OBVIOUS
            <3> HIDE DEF k
            <3>3. s[k + 1] = Trail
                BY <3>1, <3>2 DEF Decodable
            <3> QED
                BY <1>3, <3>1, <3>3, CharacterAssumption
        <2> QED
            BY <1>2, <2>1, <2>2
    <1>4. CASE ~(n > 0 /\ s[n] = Lead)
        BY <1>1, <1>2, <1>4 DEF CompletePrefix
    <1> QED
        BY <1>3, <1>4

(* One text more.                                                          *)
LEMMA CollectKeeps ==
    ASSUME NEW c, NEW all, Collected(c, all), NEW text, IsSeq(text), Decodable(text)
    PROVE  Collected(Collect(c, text), all \o text)
    <1> DEFINE m == all \o text
               d == Collect(c, text)
               room == c.max - Len(c.text)
               Grown(u) == /\ IsSeq(c.text \o u) /\ Len(c.text \o u) = Len(c.text) + Len(u)
                           /\ \A i \in 1..Len(c.text) : (c.text \o u)[i] = c.text[i]
                           /\ \A i \in 1..Len(u) : (c.text \o u)[Len(c.text) + i] = u[i]
                           /\ Decodable(c.text \o u)
    <1>1. /\ Len(c.text) \in Nat /\ Len(all) \in Nat /\ Len(text) \in Nat
          /\ text = <<>> <=> Len(text) = 0
        BY SeqFacts DEF Collected
    <1>2. /\ IsSeq(m) /\ Len(m) = Len(all) + Len(text)
          /\ \A i \in 1..Len(all) : m[i] = all[i]
          /\ \A i \in 1..Len(text) : m[Len(all) + i] = text[i]
          /\ Decodable(m)
        BY Concatenation, DecodableAppend DEF Collected
    <1>3. ASSUME NEW u, IsSeq(u), Decodable(u) PROVE Grown(u)
        BY <1>3, Concatenation, DecodableAppend DEF Collected
    <1>4. c.max \in Nat /\ room \in Int
        BY <1>1 DEF Collected
    <1> HIDE DEF m, Grown
    <1>5. CASE c.closed \/ room <= 0
        <2>1. /\ d.text = c.text /\ d.max = c.max /\ d.original = c.original + Len(text)
              /\ d.truncated = (c.truncated \/ text # <<>>)
              /\ d.closed = (c.closed \/ text # <<>>) /\ DOMAIN d = DOMAIN c
            BY <1>5 DEF Collect, Collected
        <2> HIDE DEF d
        <2>2. d.truncated <=> Len(d.text) # Len(m)
            <3>1. c.truncated \in BOOLEAN /\ (c.truncated <=> Len(c.text) # Len(all))
                BY DEF Collected
            <3>2. CASE text = <<>>
                BY <1>1, <1>2, <2>1, <3>1, <3>2
            <3>3. CASE text # <<>>
                <4>1. d.truncated
                    BY <2>1, <3>3
                <4>2. Len(text) > 0 /\ Len(c.text) <= Len(all)
                    BY <1>1, <3>3 DEF Collected
                <4>3. Len(d.text) # Len(m)
                    BY <1>1, <1>2, <2>1, <4>2
                <4> QED
                    BY <4>1, <4>3
            <3> QED
                BY <3>2, <3>3
        <2>3. \A i \in 1..Len(d.text) : d.text[i] = m[i]
            BY <1>1, <1>2, <2>1 DEF Collected
        <2>4. d.truncated \in BOOLEAN /\ d.closed = d.truncated
            BY <2>1 DEF Collected
        <2> QED
            BY <1>1, <1>2, <2>1, <2>2, <2>3, <2>4 DEF Collected, d, m
    <1>6. CASE ~c.closed /\ room > 0
        <2>1. Len(c.text) = Len(all) /\ c.truncated = FALSE
            BY <1>6 DEF Collected
        <2>2. CASE Len(text) <= room
            <3>1. /\ d.text = c.text \o text /\ d.max = c.max
                  /\ d.original = c.original + Len(text)
                  /\ d.truncated = c.truncated /\ d.closed = c.closed /\ DOMAIN d = DOMAIN c
                BY <1>4, <1>6, <2>2 DEF Collect, Collected
            <3>2. Grown(text)
                BY <1>3
            <3> HIDE DEF d
            <3>3. Len(d.text) = Len(m) /\ Len(d.text) <= d.max /\ IsSeq(d.text)
                  /\ Decodable(d.text)
                BY <1>1, <1>2, <1>4, <2>1, <2>2, <3>1, <3>2 DEF Grown
            <3>4. ASSUME NEW i \in 1..Len(d.text) PROVE d.text[i] = m[i]
                <4>1. CASE i <= Len(all)
                    BY <1>1, <1>2, <2>1, <3>1, <3>2, <4>1 DEF Grown, Collected
                <4>2. CASE i > Len(all)
                    <5>1. i - Len(all) \in 1..Len(text) /\ i = Len(all) + (i - Len(all))
                        BY <1>1, <1>2, <3>3, <4>2
                    <5> QED
                        BY <1>2, <2>1, <3>1, <3>2, <5>1 DEF Grown
                <4> QED
                    BY <1>1, <4>1, <4>2
            <3> QED
                BY <1>1, <1>2, <2>1, <3>1, <3>3, <3>4 DEF Collected, d, m
        <2>3. CASE Len(text) > room
            <3> DEFINE u == CompletePrefix(text, room)
            <3>1. /\ d.text = c.text \o u /\ d.max = c.max
                  /\ d.original = c.original + Len(text)
                  /\ d.truncated = TRUE /\ d.closed = TRUE /\ DOMAIN d = DOMAIN c
                BY <1>1, <1>4, <1>6, <2>3 DEF Collect, Collected
            <3>2. room \in 0..Len(text)
                BY <1>1, <1>4, <1>6, <2>3
            <3>3. /\ IsSeq(u) /\ Len(u) <= room /\ Decodable(u)
                  /\ \A i \in 1..Len(u) : u[i] = text[i]
                BY <3>2, CompletePrefixFacts
            <3>4. Len(u) \in Nat
                BY <3>3, SeqFacts
            <3> HIDE DEF u
            <3>5. Grown(u)
                BY <1>3, <3>3
            <3> HIDE DEF d
            <3>6. /\ Len(d.text) = Len(all) + Len(u) /\ Len(d.text) <= d.max
                  /\ Len(d.text) < Len(m) /\ IsSeq(d.text) /\ Decodable(d.text)
                BY <1>1, <1>2, <1>4, <2>1, <2>3, <3>1, <3>3, <3>4, <3>5 DEF Grown
            <3>7. ASSUME NEW i \in 1..Len(d.text) PROVE d.text[i] = m[i]
                <4>1. CASE i <= Len(all)
                    BY <1>1, <1>2, <2>1, <3>1, <3>5, <4>1 DEF Grown, Collected
                <4>2. CASE i > Len(all)
                    <5>1. i - Len(all) \in 1..Len(u) /\ i = Len(all) + (i - Len(all))
                        BY <1>1, <3>4, <3>6, <4>2
                    <5>2. i - Len(all) \in 1..Len(text)
                        BY <1>1, <1>4, <2>3, <3>3, <3>4, <5>1
                    <5> DEFINE j == i - Len(all)
                    <5>3. u[j] = text[j]
                        BY <3>3, <5>1
                    <5>4. m[Len(all) + j] = text[j]
                        BY <1>2, <5>2
                    <5>5. d.text[Len(all) + j] = u[j]
                        BY <2>1, <3>1, <3>5, <5>1 DEF Grown
                    <5> QED
                        BY <5>1, <5>3, <5>4, <5>5
                <4> QED
                    BY <1>1, <4>1, <4>2
            <3>8. d.original = Len(m) /\ d.max \in Nat /\ Len(d.text) # Len(m)
                BY <1>1, <1>2, <3>1, <3>6 DEF Collected
            <3>9. Len(d.text) \in Nat /\ Len(m) \in Nat
                BY <1>2, <3>6, SeqFacts
            <3>10. /\ Len(d.text) <= Len(m)
                   /\ DOMAIN d = {"max", "text", "original", "truncated", "closed"}
                BY <3>1, <3>6, <3>9 DEF Collected
            <3>11. d.truncated \in BOOLEAN /\ d.closed = d.truncated
                   /\ (d.truncated <=> Len(d.text) # Len(m))
                BY <3>1, <3>8
            <3>12. Collected(d, m)
                BY <1>2, <3>6, <3>7, <3>8, <3>10, <3>11 DEF Collected
            <3> QED
                BY <3>12 DEF d, m
        <2> QED
            BY <1>1, <1>4, <2>2, <2>3
    <1> QED
        BY <1>4, <1>5, <1>6

(* Whatever texts of whole characters a collector is given, what it keeps  *)
(* is a prefix of all of them together, in whole characters and within its *)
(* limit, the size it reports is that of all of them, and it says that     *)
(* something is missing exactly when something is: also when a text after  *)
(* the cut would have fitted.                                              *)
THEOREM CollectorFaithful ==
    /\ \A max \in Nat : Collected(Collector(max), <<>>)
    /\ \A c, all, text : Collected(c, all) /\ IsSeq(text) /\ Decodable(text) =>
                             Collected(Collect(c, text), all \o text)
    /\ \A c, all : Collected(c, all) => Faithful(c, all)
    <1>1. ASSUME NEW max \in Nat PROVE Collected(Collector(max), <<>>)
        <2> DEFINE none == <<>>
        <2>1. IsSeq(none) /\ Len(none) = 0 /\ DOMAIN none = {}
            BY NoElements, SeqFacts
        <2>2. Collector(max) = [max |-> max, text |-> none, original |-> 0, truncated |-> FALSE,
                                closed |-> FALSE]
            BY DEF Collector
        <2> HIDE DEF none
        <2>3. Decodable(none)
            BY <2>1 DEF Decodable
        <2>4. Collected(Collector(max), none)
            BY <2>1, <2>2, <2>3 DEF Collected
        <2> QED
            BY <2>4 DEF none
    <1>2. ASSUME NEW c, NEW all, Collected(c, all) PROVE Faithful(c, all)
        <2>1. Len(c.text) \in Nat /\ Len(all) \in Nat /\ IsSeq(c.text) /\ IsSeq(all)
            BY <1>2, SeqFacts DEF Collected
        <2>2. IsPrefix(c.text, all)
            <3> DEFINE n == Len(c.text)
            <3>1. n \in 0..Len(c.text) /\ n \in 0..Len(all)
                BY <1>2, <2>1 DEF Collected
            <3>2. /\ IsSeq(SubSeq(c.text, 1, n)) /\ Len(SubSeq(c.text, 1, n)) = n
                  /\ IsSeq(SubSeq(all, 1, n)) /\ Len(SubSeq(all, 1, n)) = n
                  /\ \A i \in 1..n : SubSeq(c.text, 1, n)[i] = SubSeq(all, 1, n)[i]
                BY <1>2, <2>1, <3>1, FirstElements DEF Collected
            <3>3. SubSeq(c.text, 1, n) = SubSeq(all, 1, n)
                BY <3>2, SameElements
            <3> QED
                BY <1>2, <3>3 DEF IsPrefix, Collected
        <2>3. c.truncated <=> c.text # all
            BY <1>2, <2>1, SameElements DEF Collected
        <2> QED
            BY <1>2, <2>2, <2>3 DEF Faithful, Collected
    <1> QED
        BY <1>1, <1>2, CollectKeeps

-----------------------------------------------------------------------------
(* The results of commands.                                                *)

ResultFields == {"exit", "code", "out", "err", "moves", "cwd", "changes", "trees"}

(* A command that only prints changes neither the environment nor a tree.  *)
Still(r) == DOMAIN r = ResultFields /\ r.changes = <<>>
Plain(r) == Still(r) /\ r.trees = <<>>

(* The results that every command builds its answer from.                  *)
LEMMA PlainResults ==
    /\ \A exit, code, out, err : Plain(Result(exit, code, out, err))
    /\ \A out : Plain(Success(out)) /\ Plain(Failure(out))
    /\ Plain(Invalid) /\ Plain(ProtectedValue)
    <1>1. \A exit, code, out, err : Plain(Result(exit, code, out, err))
        BY DEF Result, Plain, Still, ResultFields
    <1> QED
        BY <1>1 DEF Success, Failure, Invalid, ProtectedValue

(* What _read_inputs refuses with.                                         *)
LEMMA ReadPlain ==
    ASSUME NEW t, NEW operands, NEW ctx, ~ReadInputs(t, operands, ctx).ok
    PROVE  Plain(ReadInputs(t, operands, ctx).result)
    <1> DEFINE reads == IF operands = <<>> THEN <<[ok |-> TRUE, text |-> ctx.stdin]>>
                        ELSE [i \in DOMAIN operands |-> ReadText(t, operands[i], ctx)]
               bad == {i \in DOMAIN reads : ~reads[i].ok}
               r == ReadInputs(t, operands, ctx)
    <1>1. r = IF bad = {} THEN [ok |-> TRUE, texts |-> [i \in DOMAIN reads |-> reads[i].text],
                              labels |-> operands]
              ELSE IF reads[Min(bad)].code = "protected" THEN [ok |-> FALSE, result |-> ProtectedValue]
              ELSE [ok |-> FALSE, result |-> Failure(<<>>)]
        BY Zenon DEF ReadInputs
    <1> HIDE DEF reads, bad
    <1>2. \/ r.ok
          \/ r = [ok |-> FALSE, result |-> ProtectedValue]
          \/ r = [ok |-> FALSE, result |-> Failure(<<>>)]
        BY <1>1
    <1> HIDE DEF r
    <1>3. ~r.ok
        BY DEF r
    <1>4. Plain(r.result)
        BY <1>2, <1>3, PlainResults
    <1> QED
        BY <1>4 DEF r

(* The commands that print, one by one.                                    *)
LEMMA PwdPlain == \A args, ctx, t : Plain(Pwd(args, ctx, t))
    BY PlainResults, Zenon DEF Pwd

(* echo.                                                                   *)
LEMMA EchoPlain == \A args, ctx, t : Plain(Echo(args, ctx, t))
    BY PlainResults, Zenon DEF Echo

(* env.                                                                    *)
LEMMA EnvPlain == \A args, ctx, t : Plain(Env(args, ctx, t))
    BY PlainResults, Zenon DEF Env

(* head and tail.                                                          *)
LEMMA HeadPlain == \A args, ctx, t, e : Plain(HeadOrTail(args, ctx, t, e))
    BY PlainResults, ReadPlain, Zenon DEF HeadOrTail

(* sort.                                                                   *)
LEMMA SortPlain == \A args, ctx, t : Plain(Sort(args, ctx, t))
    BY PlainResults, ReadPlain, Zenon DEF Sort

(* uniq.                                                                   *)
LEMMA UniqPlain == \A args, ctx, t : Plain(Uniq(args, ctx, t))
    <1> TAKE args, ctx, t
    <1> DEFINE counted == args # <<>> /\ args[1] = <<"-c">>
               rest == WithoutDashes(IF counted THEN Tail(args) ELSE args)
               r == ReadInputs(t, rest, ctx)
               c == Len(rest) > 1 \/ \E x \in Range(rest) : Dashed(x) /\ x # <<"-">>
    <1>1. \E out : Uniq(args, ctx, t)
                   = IF c THEN Invalid ELSE IF ~r.ok THEN r.result ELSE Success(out)
        BY Zenon DEF Uniq
    <1>2. ~r.ok => Plain(r.result)
        BY ReadPlain
    <1> HIDE DEF r, c
    <1> QED
        BY <1>1, <1>2, PlainResults

(* wc.                                                                     *)
LEMMA WcPlain == \A args, ctx, t : Plain(Wc(args, ctx, t))
    <1> TAKE args, ctx, t
    <1> DEFINE o == Options(args, {"c", "l", "w"}, TRUE)
               r == ReadInputs(t, o.operands, ctx)
    <1>1. \E out : Wc(args, ctx, t)
                   = IF ~o.ok THEN Invalid ELSE IF ~r.ok THEN r.result ELSE Success(out)
        BY Zenon DEF Wc
    <1>2. ~r.ok => Plain(r.result)
        BY ReadPlain
    <1> HIDE DEF r, o
    <1> QED
        BY <1>1, <1>2, PlainResults

(* find.                                                                   *)
LEMMA FindPlain == \A args, ctx, t : Plain(Find(args, ctx, t))
    <1> TAKE args, ctx, t
    <1>1. \E out : Find(args, ctx, t) \in {Invalid, ProtectedValue, Failure(<<>>), Success(out)}
        BY ZenonT(60) DEF Find
    <1> QED
        BY <1>1, PlainResults

(* grep.                                                                   *)
LEMMA GrepPlain == \A args, ctx, t : Plain(Grep(args, ctx, t))
    <1> TAKE args, ctx, t
    <1>1. \E out : Grep(args, ctx, t) \in
             {Invalid, ProtectedValue, Failure(<<>>), Success(out),
              Result(1, "no_match", <<>>, <<>>)}
        BY ZenonT(60) DEF Grep
    <1> QED
        BY <1>1, PlainResults

(* A command that goes on to its next operand after a failure.             *)
LEMMA EachStill ==
    \A e : Still([(IF e.ok THEN Success(<<>>) ELSE Failure(<<>>)) EXCEPT !.trees = e.trees])
    BY PlainResults DEF Still, Plain, ResultFields

(* mkdir.                                                                  *)
LEMMA MkdirStill ==
    ASSUME NEW args, NEW ctx, NEW t
    PROVE  Still(Mkdir(args, ctx, t))
    <1>1. \E e : Mkdir(args, ctx, t) \in
                 {Invalid, ProtectedValue,
                  [(IF e.ok THEN Success(<<>>) ELSE Failure(<<>>)) EXCEPT !.trees = e.trees]}
        BY Zenon DEF Mkdir, EachOperand
    <1> QED
        BY <1>1, PlainResults, EachStill, Zenon DEF Plain

(* touch.                                                                  *)
LEMMA TouchStill ==
    ASSUME NEW args, NEW ctx, NEW t
    PROVE  Still(Touch(args, ctx, t))
    <1>1. \E e : Touch(args, ctx, t) \in
                 {Invalid, ProtectedValue,
                  [(IF e.ok THEN Success(<<>>) ELSE Failure(<<>>)) EXCEPT !.trees = e.trees]}
        BY Zenon DEF Touch, EachOperand
    <1> QED
        BY <1>1, PlainResults, EachStill, Zenon DEF Plain

(* rm.                                                                     *)
LEMMA RmStill ==
    ASSUME NEW args, NEW ctx, NEW t
    PROVE  Still(Rm(args, ctx, t))
    <1>1. \E e : Rm(args, ctx, t) \in
                 {Invalid, ProtectedValue,
                  [(IF e.ok THEN Success(<<>>) ELSE Failure(<<>>)) EXCEPT !.trees = e.trees]}
        BY Zenon DEF Rm, EachOperand
    <1> QED
        BY <1>1, PlainResults, EachStill, Zenon DEF Plain

(* cp and mv.                                                              *)
LEMMA TransferStill ==
    ASSUME NEW operands, NEW ctx, NEW t, NEW recursive, NEW move
    PROVE  Still(Transfer(operands, ctx, t, recursive, move))
    <1>1. \E e : Transfer(operands, ctx, t, recursive, move) \in
                 {ProtectedValue, Failure(<<>>),
                  [(IF e.ok THEN Success(<<>>) ELSE Failure(<<>>)) EXCEPT !.trees = e.trees]}
        BY Zenon DEF Transfer, EachOperand
    <1> QED
        BY <1>1, PlainResults, EachStill, Zenon DEF Plain

(* cd moves, and changes nothing else.                                     *)
LEMMA CdStill == \A args, ctx, t : Still(Cd(args, ctx, t))
    <1>1. \A p : Still([Success(<<>>) EXCEPT !.moves = TRUE, !.cwd = p])
        BY PlainResults DEF Plain, Still, ResultFields
    <1> QED
        BY <1>1, PlainResults, Zenon DEF Plain, Cd

(* The least of some indices.                                              *)
LEMMA LeastIndex ==
    ASSUME NEW n \in Nat, NEW S \in SUBSET (1..n), S # {}
    PROVE  Min(S) \in S /\ Min(S) \in 1..n
    <1> DEFINE T == {k \in 0..n : \A j \in S : k < j}
    <1>1. 0 \in T
        OBVIOUS
    <1>2. n \notin T
        <2>1. PICK j \in S : TRUE
            OBVIOUS
        <2>2. ~(n < j)
            BY <2>1
        <2> QED
            BY <2>1, <2>2
    <1>3. \E m \in 1..n : m - 1 \in T /\ m \notin T
        <2> HIDE DEF T
        <2> QED
            BY <1>1, <1>2, LeastFailure DEF T
    <1>4. PICK m \in 1..n : m - 1 \in T /\ m \notin T
        BY <1>3
    <1>5. m \in S /\ \A j \in S : m <= j
        BY <1>4
    <1> HIDE DEF T
    <1> QED
        BY <1>5 DEF Min

(* Operands after "--", after the options, and in general.                 *)
LEMMA WithoutDashesSeq ==
    ASSUME NEW args, IsSeq(args)
    PROVE  IsSeq(WithoutDashes(args))
    BY SeqFacts DEF WithoutDashes

(* What is left of a sequence is a sequence.                               *)
LEMMA SubSeqSeq ==
    ASSUME NEW s, IsSeq(s), NEW m \in 1..(Len(s) + 1)
    PROVE  IsSeq(SubSeq(s, m, Len(s)))
    <1> DEFINE S == ToSet(s)
    <1>1. s \in Seq(S) /\ Len(s) \in Nat
        BY SeqFacts DEF IsSeq
    <1> HIDE DEF S
    <1>2. SubSeq(s, m, Len(s)) \in Seq(S)
        BY <1>1
    <1> QED
        BY <1>2, SeqIs

(* The operands that follow the options are a sequence.                    *)
LEMMA OptionsSeq ==
    ASSUME NEW args, IsSeq(args), NEW known, NEW reads
    PROVE  IsSeq(Options(args, known, reads).operands)
    <1> DEFINE IsOption(i) == Dashed(args[i]) /\ ~(reads /\ args[i] = <<"-">>)
               ends == {i \in DOMAIN args : ~IsOption(i) \/ args[i] = <<"--">>}
               n == IF ends = {} THEN Len(args) ELSE Min(ends) - 1
               after == SubSeq(args, n + 1, Len(args))
    <1>1. Options(args, known, reads).operands = WithoutDashes(after)
        BY DEF Options
    <1>2. Len(args) \in Nat /\ DOMAIN args = 1..Len(args)
        BY SeqFacts
    <1>3. ends \in SUBSET (1..Len(args))
        BY <1>2
    <1> HIDE DEF ends
    <1>4. n + 1 \in 1..(Len(args) + 1)
        BY <1>2, <1>3, LeastIndex
    <1> HIDE DEF n
    <1>5. IsSeq(after)
        BY <1>4, SubSeqSeq
    <1> HIDE DEF after
    <1> QED
        BY <1>1, <1>5, WithoutDashesSeq

(* cat and ls: the accumulator stays a result that changes nothing.        *)
LEMMA CatPlain ==
    ASSUME NEW args, IsSeq(args), NEW ctx, NEW t
    PROVE  Plain(Cat(args, ctx, t))
    <1> DEFINE o == Options(args, {}, TRUE)
               n == Len(o.operands)
    <1>1. IsSeq(o.operands)
        BY OptionsSeq
    <1>2. Cat(args, ctx, t) \in {Invalid, Success(ctx.stdin), Concatenated(o.operands, ctx, t)}
        BY Zenon DEF Cat
    <1> HIDE DEF o
    <1>3. n \in Nat
        BY <1>1, SeqFacts
    <1>4. PICK h : /\ h[0] = Success(<<>>)
                   /\ \A k \in 1..n : h[k] = CatOperand(h[k - 1], o.operands[k], ctx, t)
                   /\ h[n] = Concatenated(o.operands, ctx, t)
        BY <1>1, CatFold
    <1> HIDE DEF n
    <1> DEFINE T == {k \in 0..n : Plain(h[k])}
    <1>5. 0 \in T
        BY <1>3, <1>4, PlainResults
    <1>6. ASSUME NEW k \in 1..n, k - 1 \in T PROVE k \in T
        <2> DEFINE s == h[k - 1]
                   x == o.operands[k]
        <2>1. Plain(s) /\ k \in 0..n
            BY <1>3, <1>6
        <2> HIDE DEF s
        <2>2. \E text : CatOperand(s, x, ctx, t)
                        \in {s, [s EXCEPT !.out = @ \o text], ProtectedValue, Failure(s.out)}
            BY Zenon DEF CatOperand
        <2>3. \A text : Plain([s EXCEPT !.out = @ \o text])
            BY <2>1 DEF Plain, Still, ResultFields
        <2>4. Plain(CatOperand(s, x, ctx, t))
            BY <2>1, <2>2, <2>3, PlainResults, Zenon
        <2>5. Plain(h[k])
            BY <1>4, <2>4 DEF s
        <2> QED
            BY <2>1, <2>5
    <1> HIDE DEF T
    <1>7. n \in T
        BY <1>3, <1>5, <1>6, LeastFailure DEF T
    <1>8. Plain(Concatenated(o.operands, ctx, t))
        BY <1>4, <1>7 DEF T
    <1> QED
        BY <1>2, <1>8, PlainResults, Zenon

LsState(s) == DOMAIN s = {"ok", "out", "first", "result"} /\ Plain(s.result)

(* One operand of ls.                                                      *)
LEMMA LsOperandKeeps ==
    ASSUME NEW s, LsState(s), NEW x, NEW several, NEW ctx, NEW t
    PROVE  LsState(LsOperand(s, x, several, ctx, t))
    <1>1. \E out : LsOperand(s, x, several, ctx, t) \in
             {s, [s EXCEPT !.ok = FALSE, !.result = ProtectedValue],
              [s EXCEPT !.ok = FALSE, !.result = Failure(s.out)],
              [s EXCEPT !.out = @ \o (IF s.first THEN <<>> ELSE <<"LF">>) \o out, !.first = FALSE]}
        BY Zenon DEF LsOperand
    <1>2. /\ LsState([s EXCEPT !.ok = FALSE, !.result = ProtectedValue])
          /\ LsState([s EXCEPT !.ok = FALSE, !.result = Failure(s.out)])
        BY PlainResults DEF LsState
    <1>3. \A out : LsState([s EXCEPT !.out = @ \o (IF s.first THEN <<>> ELSE <<"LF">>) \o out,
                                     !.first = FALSE])
        BY DEF LsState
    <1> QED
        BY <1>1, <1>2, <1>3, Zenon

(* ls.                                                                     *)
LEMMA LsPlain ==
    ASSUME NEW args, IsSeq(args), NEW ctx, NEW t
    PROVE  Plain(Ls(args, ctx, t))
    <1> DEFINE o == Options(args, {"1", "a"}, TRUE)
               operands == IF o.operands = <<>> THEN <<<<".">>>> ELSE o.operands
               n == Len(operands)
               end == Listed(operands, ctx, t)
    <1>1. IsSeq(operands)
        <2>1. IsSeq(o.operands)
            BY OptionsSeq
        <2>2. <<<<".">>>> \in Seq({<<".">>})
            OBVIOUS
        <2>3. IsSeq(<<<<".">>>>)
            BY <2>2, SeqIs
        <2> QED
            BY <2>1, <2>3
    <1>2. Ls(args, ctx, t) \in {Invalid, Success(end.out), end.result}
        BY Zenon DEF Ls
    <1> HIDE DEF operands
    <1>3. n \in Nat
        BY <1>1, SeqFacts
    <1>4. PICK h : /\ h[0] = [ok |-> TRUE, out |-> <<>>, first |-> TRUE, result |-> Invalid]
                   /\ \A k \in 1..n : h[k] = LsOperand(h[k - 1], operands[k], n > 1, ctx, t)
                   /\ h[n] = end
        BY <1>1, LsFold
    <1> HIDE DEF n, end
    <1> DEFINE T == {k \in 0..n : LsState(h[k])}
    <1>5. 0 \in T
        <2>1. LsState(h[0])
            BY <1>4, PlainResults DEF LsState
        <2> QED
            BY <1>3, <2>1
    <1>6. ASSUME NEW k \in 1..n, k - 1 \in T PROVE k \in T
        <2>1. LsState(h[k - 1]) /\ k \in 0..n
            BY <1>3, <1>6
        <2>2. LsState(LsOperand(h[k - 1], operands[k], n > 1, ctx, t))
            BY <2>1, LsOperandKeeps
        <2> QED
            BY <1>4, <2>1, <2>2
    <1> HIDE DEF T
    <1>7. n \in T
        BY <1>3, <1>5, <1>6, LeastFailure DEF T
    <1>8. Plain(end.result)
        BY <1>4, <1>7 DEF T, LsState
    <1> QED
        BY <1>2, <1>8, PlainResults, Zenon

IsResult(r) == DOMAIN r = ResultFields /\ IsSeq(r.changes)

(* A result without changes is one whose changes are a sequence.           *)
LEMMA StillIsResult == ASSUME NEW r, Still(r) PROVE IsResult(r)
    BY NoElements DEF Still, IsResult

(* export and unset: one change per operand.                               *)
LEMMA ChangesResult ==
    ASSUME NEW rest, IsSeq(rest), NEW c, c = [i \in DOMAIN rest |-> c[i]]
    PROVE  IsResult([Success(<<>>) EXCEPT !.changes = c])
    <1>1. Len(rest) \in Nat /\ DOMAIN rest = 1..Len(rest)
        BY SeqFacts
    <1>2. IsSeq(c)
        BY <1>1, Listing
    <1>3. DOMAIN Success(<<>>) = ResultFields
        BY PlainResults DEF Plain, Still
    <1> QED
        BY <1>2, <1>3 DEF IsResult, ResultFields

(* export.                                                                 *)
LEMMA ExportResult ==
    ASSUME NEW args, IsSeq(args), NEW ctx, NEW t
    PROVE  IsResult(Export(args, ctx, t))
    <1> DEFINE rest == WithoutDashes(args)
               c == [i \in DOMAIN rest |->
                       [name |-> Assigned[rest[i][1]], set |-> TRUE, value |-> Tail(rest[i])]]
    <1>1. IsSeq(rest)
        BY WithoutDashesSeq
    <1>2. Export(args, ctx, t) \in {Invalid, ProtectedValue, [Success(<<>>) EXCEPT !.changes = c]}
        BY Zenon DEF Export
    <1> HIDE DEF rest
    <1>3. c = [i \in DOMAIN rest |-> c[i]]
        OBVIOUS
    <1> HIDE DEF c
    <1>4. IsResult([Success(<<>>) EXCEPT !.changes = c])
        BY <1>1, <1>3, ChangesResult
    <1>5. IsResult(Invalid) /\ IsResult(ProtectedValue)
        BY PlainResults, StillIsResult DEF Plain
    <1> QED
        BY <1>2, <1>4, <1>5, Zenon

(* unset.                                                                  *)
LEMMA UnsetResult ==
    ASSUME NEW args, IsSeq(args), NEW ctx, NEW t
    PROVE  IsResult(Unset(args, ctx, t))
    <1> DEFINE rest == WithoutDashes(args)
               c == [i \in DOMAIN rest |-> [name |-> rest[i][1], set |-> FALSE, value |-> <<>>]]
    <1>1. IsSeq(rest)
        BY WithoutDashesSeq
    <1>2. Unset(args, ctx, t) \in {Invalid, ProtectedValue, [Success(<<>>) EXCEPT !.changes = c]}
        BY Zenon DEF Unset
    <1> HIDE DEF rest
    <1>3. c = [i \in DOMAIN rest |-> c[i]]
        OBVIOUS
    <1> HIDE DEF c
    <1>4. IsResult([Success(<<>>) EXCEPT !.changes = c])
        BY <1>1, <1>3, ChangesResult
    <1>5. IsResult(Invalid) /\ IsResult(ProtectedValue)
        BY PlainResults, StillIsResult DEF Plain
    <1> QED
        BY <1>2, <1>4, <1>5, Zenon

(* Every command of the profile.                                           *)
LEMMA HandlerResult ==
    ASSUME NEW argv, Stage(argv), NEW ctx, NEW t, argv[1][1] \in Commands
    PROVE  /\ IsResult(Handler(argv, ctx, t))
           /\ argv[1][1] \in Printers => Plain(Handler(argv, ctx, t))
    <1> DEFINE name == argv[1][1]
               args == Tail(argv)
               r == Handler(argv, ctx, t)
    <1>1. IsSeq(args)
        BY SeqFacts DEF Stage
    <1> HIDE DEF args, name
    <1>2. /\ name = "pwd" => r = Pwd(args, ctx, t)
          /\ name = "cd" => r = Cd(args, ctx, t)
          /\ name = "ls" => r = Ls(args, ctx, t)
          /\ name = "cat" => r = Cat(args, ctx, t)
          /\ name = "echo" => r = Echo(args, ctx, t)
          /\ name = "mkdir" => r = Mkdir(args, ctx, t)
          /\ name = "touch" => r = Touch(args, ctx, t)
          /\ name = "rm" => r = Rm(args, ctx, t)
          /\ name = "head" => r = HeadOrTail(args, ctx, t, FALSE)
          /\ name = "tail" => r = HeadOrTail(args, ctx, t, TRUE)
        BY DEF Handler, HeadCmd, TailCmd, name, args
    <1>3. /\ name = "grep" => r = Grep(args, ctx, t)
          /\ name = "find" => r = Find(args, ctx, t)
          /\ name = "wc" => r = Wc(args, ctx, t)
          /\ name = "sort" => r = Sort(args, ctx, t)
          /\ name = "uniq" => r = Uniq(args, ctx, t)
          /\ name = "cp" => r = Cp(args, ctx, t)
          /\ name = "mv" => r = Mv(args, ctx, t)
          /\ name = "env" => r = Env(args, ctx, t)
          /\ name = "export" => r = Export(args, ctx, t)
          /\ name = "unset" => r = Unset(args, ctx, t)
        BY DEF Handler, name, args
    <1> HIDE DEF r
    <1>4. name \in Printers => Plain(r)
        BY <1>1, <1>2, <1>3, PwdPlain, LsPlain, CatPlain, EchoPlain, HeadPlain, GrepPlain,
           FindPlain, WcPlain, SortPlain, UniqPlain, EnvPlain DEF Printers
    <1>5. name \in {"cd", "mkdir", "touch", "rm"} => Still(r)
        BY <1>2, CdStill, MkdirStill, TouchStill, RmStill
    <1>6. name \in {"cp", "mv"} => Still(r)
        <2>1. Still(Cp(args, ctx, t)) /\ Still(Mv(args, ctx, t))
            BY TransferStill, PlainResults, Zenon DEF Cp, Mv, Plain
        <2> QED
            BY <1>3, <2>1
    <1>7. name \in {"export", "unset"} => IsResult(r)
        BY <1>1, <1>3, ExportResult, UnsetResult
    <1>8. IsResult(r)
        BY <1>4, <1>5, <1>6, <1>7, StillIsResult DEF Commands, Printers, Plain, name
    <1> QED
        BY <1>4, <1>8 DEF r, name

-----------------------------------------------------------------------------
(* What _prepare_unit leaves to run.                                       *)
Runnable(argv) == Stage(argv) /\ argv[1][1] \in Commands

Prepared(u, p) ==
    /\ IsResult(p.failure)
    /\ IsSeq(p.stages) /\ Len(p.stages) = Len(u.stages)
    /\ p.failure.exit = 0 =>
          \A k \in 1..Len(u.stages) :
              /\ Runnable(p.stages[k])
              /\ (u.mode # "none" \/ Len(u.stages) > 1) => p.stages[k][1][1] \in Printers

(* A stage that is not refused is known, and prints when it is piped.      *)
LEMMA RefusalFacts ==
    ASSUME NEW argv, NEW k, NEW n, NEW destination
    PROVE  LET r == Refusal(argv, k, n, destination).result
           IN  /\ Plain(r)
               /\ r.exit = 0 => /\ ~AnyProtected(argv) /\ Known(argv)
                                /\ n > 1 => PipelineSafe(argv[1][1])
    <1> DEFINE r == Refusal(argv, k, n, destination).result
    <1>1. /\ Plain(ProtectedValue) /\ ProtectedValue.exit # 0 /\ Plain(Invalid) /\ Invalid.exit # 0
          /\ Plain(NoStage)
          /\ Plain(Result(127, "command_not_found", <<>>, Note))
          /\ Result(127, "command_not_found", <<>>, Note).exit # 0
        <2>1. ProtectedValue.exit # 0 /\ Invalid.exit # 0
              /\ Result(127, "command_not_found", <<>>, Note).exit # 0
            BY DEF ProtectedValue, Invalid, Result
        <2> QED
            BY <2>1, PlainResults DEF NoStage
    <1>2. \/ r \in {ProtectedValue, Invalid, Result(127, "command_not_found", <<>>, Note)}
          \/ /\ r = NoStage /\ ~AnyProtected(argv) /\ Known(argv)
             /\ ~(n > 1 /\ ~PipelineSafe(argv[1][1]))
        BY DEF Refusal
    <1> HIDE DEF r
    <1>3. /\ Plain(r)
          /\ r.exit = 0 => /\ ~AnyProtected(argv) /\ Known(argv)
                           /\ n > 1 => PipelineSafe(argv[1][1])
        BY <1>1, <1>2
    <1> QED
        BY <1>3 DEF r

(* _prepare_unit.                                                          *)
LEMMA PrepareUnitFacts ==
    ASSUME NEW u, GoodUnit(u)
    PROVE  Prepared(u, PrepareUnit(u))
    <1> DEFINE n == Len(u.stages)
               argvs == [k \in 1..n |-> Argv(u, k)]
               destination == IF u.mode = "none" THEN <<>>
                              ELSE ExpandWord(u.destination, View, run.cwd)
               lead == IF Protected(destination)
                       THEN <<[result |-> ProtectedValue, admitted |-> FALSE]>> ELSE <<>>
               each == [k \in 1..n |-> Refusal(argvs[k], k, n, destination)]
               refusals == lead \o each
               failed == {i \in DOMAIN refusals : refusals[i].result.exit # 0}
               first == IF failed = {} THEN NoStage ELSE refusals[Min(failed)].result
               barred == /\ u.mode # "none" /\ ~AnyProtected(argvs[n])
                         /\ Known(argvs[n]) /\ ~PermitsRedirection(argvs[n][1][1])
               p == PrepareUnit(u)
    <1>1. /\ p.stages = argvs
          /\ p.failure = IF barred /\ first.code # "protected_value_rejected"
                         THEN Invalid ELSE first
        BY DEF PrepareUnit
    <1>2. n \in Nat /\ n > 0 /\ DOMAIN u.stages = 1..n
        BY SeqFacts DEF GoodUnit
    <1>3. IsSeq(argvs) /\ Len(argvs) = n
        BY <1>2, Listing
    <1>4. ASSUME NEW k \in 1..n PROVE Stage(argvs[k])
        <2> DEFINE w == u.stages[k]
                   a == [j \in DOMAIN w |-> ExpandWord(w[j], View, run.cwd)]
        <2>1. Stage(w)
            BY <1>2 DEF GoodUnit
        <2>2. argvs[k] = a
            BY <1>2 DEF Argv
        <2> HIDE DEF w
        <2>3. a = [j \in DOMAIN w |-> a[j]]
            OBVIOUS
        <2> HIDE DEF a
        <2>4. Len(w) \in Nat /\ Len(w) # 0 /\ DOMAIN w = 1..Len(w)
            BY <2>1, SeqFacts DEF Stage
        <2>5. IsSeq(a) /\ Len(a) = Len(w)
            BY <2>3, <2>4, Listing
        <2>6. Stage(a)
            BY <2>4, <2>5, SeqFacts DEF Stage
        <2> QED
            BY <2>2, <2>6
    <1> HIDE DEF argvs, n, destination
    <1>5. IsSeq(each) /\ Len(each) = n
        BY <1>2, Listing
    <1>6. IsSeq(lead)
        <2> DEFINE z == [result |-> ProtectedValue, admitted |-> FALSE]
        <2>1. <<z>> \in Seq({z})
            OBVIOUS
        <2>2. IsSeq(<<z>>)
            BY <2>1, SeqIs
        <2>3. IsSeq(<<>>)
            BY NoElements
        <2> QED
            BY <2>2, <2>3
    <1>7. \A i \in DOMAIN lead : Plain(lead[i].result)
        <2>1. DOMAIN lead \subseteq {1} /\ (1 \in DOMAIN lead => lead[1].result = ProtectedValue)
            <3> HIDE DEF Protected
            <3> QED
                BY NoElements
        <2> QED
            BY <2>1, PlainResults
    <1>8. \A k \in 1..n : each[k] = Refusal(argvs[k], k, n, destination)
        OBVIOUS
    <1> HIDE DEF lead, each
    <1>9. /\ IsSeq(refusals) /\ Len(refusals) = Len(lead) + n /\ Len(lead) \in Nat
          /\ DOMAIN refusals = 1..(Len(lead) + n) /\ DOMAIN lead = 1..Len(lead)
          /\ \A i \in 1..Len(lead) : refusals[i] = lead[i]
          /\ \A k \in 1..n : refusals[Len(lead) + k] = each[k]
        BY <1>5, <1>6, Concatenation, SeqFacts
    <1> HIDE DEF refusals
    <1>10. \A i \in DOMAIN refusals : Plain(refusals[i].result)
        <2> TAKE i \in DOMAIN refusals
        <2>1. CASE i \in 1..Len(lead)
            BY <1>7, <1>9, <2>1
        <2>2. CASE i \notin 1..Len(lead)
            <3>1. i - Len(lead) \in 1..n /\ Len(lead) + (i - Len(lead)) = i
                BY <1>2, <1>9, <2>2
            <3>2. refusals[i] = each[i - Len(lead)]
                BY <1>9, <3>1
            <3>3. Plain(each[i - Len(lead)].result)
                BY <1>8, <3>1, RefusalFacts
            <3> QED
                BY <3>2, <3>3
        <2> QED
            BY <2>1, <2>2
    <1>11. failed # {} => Min(failed) \in failed
        <2>1. failed \in SUBSET (1..(Len(lead) + n)) /\ Len(lead) + n \in Nat
            BY <1>2, <1>9
        <2> HIDE DEF failed
        <2> QED
            BY <2>1, LeastIndex
    <1>12. IsResult(p.failure)
        <2>1. Plain(first)
            BY <1>10, <1>11, PlainResults DEF NoStage
        <2> HIDE DEF first, barred
        <2>2. Plain(p.failure)
            BY <1>1, <2>1, PlainResults
        <2> QED
            BY <2>2, StillIsResult DEF Plain
    <1>13. ASSUME p.failure.exit = 0, NEW k \in 1..n
           PROVE  /\ Runnable(argvs[k])
                  /\ (u.mode # "none" \/ n > 1) => argvs[k][1][1] \in Printers
        <2>1. failed = {} /\ ~barred
            <3>1. Invalid.exit # 0 /\ NoStage.code # "protected_value_rejected"
                BY DEF Invalid, NoStage, Success, Result
            <3>2. failed # {} => first.exit # 0
                BY <1>11
            <3>3. failed = {} => first = NoStage
                OBVIOUS
            <3> HIDE DEF failed, first, barred
            <3> QED
                BY <1>1, <1>13, <3>1, <3>2, <3>3
        <2>2. \A j \in 1..n : /\ ~AnyProtected(argvs[j]) /\ Known(argvs[j])
                              /\ n > 1 => PipelineSafe(argvs[j][1][1])
            <3> TAKE j \in 1..n
            <3>1. Len(lead) + j \in DOMAIN refusals /\ refusals[Len(lead) + j] = each[j]
                BY <1>2, <1>9
            <3>2. each[j].result.exit = 0
                BY <2>1, <3>1
            <3> QED
                BY <1>8, <3>2, RefusalFacts
        <2> HIDE DEF failed, first
        <2>3. Runnable(argvs[k])
            BY <1>4, <2>2 DEF Runnable, Known
        <2>4. n > 1 => argvs[k][1][1] \in Printers
            BY <2>2 DEF PipelineSafe
        <2>5. n = 1 => k = n
            BY <1>2
        <2>6. u.mode # "none" /\ n = 1 => argvs[n][1][1] \in Printers
            BY <1>2, <2>1, <2>2 DEF PermitsRedirection
        <2> QED
            BY <1>2, <2>3, <2>4, <2>5, <2>6
    <1> HIDE DEF failed, first, barred, p
    <1>14. Prepared(u, p)
        BY <1>1, <1>3, <1>12, <1>13 DEF Prepared, n
    <1> QED
        BY <1>14 DEF p

-----------------------------------------------------------------------------
(* The plan of a call.                                                     *)
RunFields == {"cwd", "env", "changes", "exit", "code", "out", "err"}
PipeFields == {"k", "input", "bytes", "err", "exit", "code"}

CallInv ==
    /\ pc \in {"idle", "lease", "admit", "unit", "run", "settle", "redirect", "closing", "done"}
    /\ pc # "idle" => request \in Scripts
    /\ GoodUnits(units)
    /\ pc = "closing" /\ outcome = "returned" => units = <<>>

(* What the units so far did to the environment is what their changes do   *)
(* to the session's.                                                       *)
WorkInv ==
    /\ DOMAIN run = RunFields /\ IsSeq(run.changes)
    /\ pc # "done" => run.env = ApplyChanges(session.env, run.changes)

(* The unit that runs was prepared; what runs was not refused.             *)
UnitInv ==
    /\ DOMAIN pipe = PipeFields
    /\ pc \in {"run", "settle", "redirect"} =>
          GoodUnit(unit) /\ Prepared(unit, prep) /\ IsResult(stage)
    /\ pc = "run" => prep.failure.exit = 0 /\ pipe.k \in 1..Len(unit.stages)
    /\ pc = "redirect" => unit.mode # "none" /\ prep.admitted

PlanInv == CallInv /\ WorkInv /\ UnitInv

(* No changes leave an environment as it is.                               *)
LEMMA NoChanges == \A env : ApplyChanges(env, <<>>) = env
    <1> TAKE env
    <1> DEFINE c == <<>>
    <1>1. IsSeq(c) /\ Len(c) = 0
        BY NoElements
    <1> HIDE DEF c
    <1>2. \E h : h[0] = env /\ h[Len(c)] = ApplyChanges(env, c)
        BY <1>1, ChangeFold
    <1> QED
        BY <1>1, <1>2 DEF c

(* No units are good units.                                                *)
LEMMA NoUnits == GoodUnits(<<>>)
    <1> DEFINE us == <<>>
    <1>1. IsSeq(us) /\ DOMAIN us = {}
        BY NoElements
    <1> HIDE DEF us
    <1>2. GoodUnits(us)
        BY <1>1 DEF GoodUnits
    <1> QED
        BY <1>2 DEF us

(* So are the units that follow the first.                                 *)
LEMMA TailUnits ==
    ASSUME NEW us, GoodUnits(us), us # <<>>
    PROVE  GoodUnits(Tail(us)) /\ GoodUnit(us[1])
    <1> DEFINE r == Tail(us)
    <1>1. /\ Len(us) \in Nat /\ Len(us) # 0 /\ DOMAIN us = 1..Len(us)
          /\ IsSeq(r) /\ Len(r) = Len(us) - 1
          /\ \A i \in 1..(Len(us) - 1) : r[i] = us[i + 1]
        BY SeqFacts DEF GoodUnits
    <1> HIDE DEF r
    <1>2. DOMAIN r = 1..(Len(us) - 1)
        BY <1>1, SeqFacts
    <1>3. \A i \in DOMAIN r : r[i] = us[i + 1] /\ i + 1 \in DOMAIN us
        BY <1>1, <1>2
    <1>4. GoodUnits(r)
        BY <1>1, <1>3 DEF GoodUnits
    <1>5. GoodUnit(us[1])
        BY <1>1 DEF GoodUnits
    <1> QED
        BY <1>4, <1>5 DEF r

(* The invariant before the call.                                          *)
LEMMA PlanInit == Init => PlanInv
    <1> SUFFICES ASSUME Init PROVE PlanInv
        OBVIOUS
    <1>1. CallInv
        BY NoUnits DEF Init, CallInv
    <1>2. WorkInv
        <2>1. /\ DOMAIN run = RunFields /\ run.changes = <<>> /\ run.env = session.env
            BY DEF Init, StartOf, RunFields
        <2>2. IsSeq(run.changes) /\ ApplyChanges(session.env, run.changes) = session.env
            BY <2>1, NoElements, NoChanges
        <2> QED
            BY <2>1, <2>2 DEF WorkInv
    <1>3. UnitInv
        BY DEF Init, UnitInv, NoPipe, PipeFields
    <1> QED
        BY <1>1, <1>2, <1>3 DEF PlanInv

(* A stop is no return.                                                    *)
LEMMA StoppedCode == Stopped # "returned"
    BY DEF Stopped

(* Raising leaves the plan and what it did so far as they are.             *)
LEMMA RaiseKeeps ==
    ASSUME PlanInv, pc \notin {"idle", "done"}, NEW code, code # "returned", Raise(code),
           UNCHANGED <<session, request, units, pipe, run>>
    PROVE  PlanInv'
    BY DEF PlanInv, CallInv, WorkInv, UnitInv, Raise

(* Leasing ends with what is raised, or goes on.                           *)
LEMMA LeaseKeeps ==
    ASSUME PlanInv, AcquireLease \/ OwnResolved \/ OwnUnresolved \/ Protect
    PROVE  PlanInv'
    <1>1. /\ pc = "lease" /\ UNCHANGED <<session, request, units, unit, prep, pipe, stage, run>>
          /\ \/ UNCHANGED <<pc, outcome>>
             \/ pc' = "admit"
             \/ pc' = "closing" /\ outcome' # "returned"
        BY StoppedCode
           DEF AcquireLease, OwnResolved, OwnUnresolved, Protect, Raise, execVars
    <1> QED
        BY <1>1 DEF PlanInv, CallInv, WorkInv, UnitInv

(* The lexemes of a command line.                                          *)
LEMMA RequestLexemes ==
    ASSUME NEW s \in Scripts
    PROVE  IsSeq(s.lexemes) /\ Refusable(s.lexemes)
    <1>1. /\ s.lexemes \in Seq(Range(s.lexemes))
          /\ \A x \in Range(s.lexemes) : x.k = "refused" => x.code # "returned"
        BY ScriptsAssumption
    <1>2. IsSeq(s.lexemes)
        BY <1>1, SeqIs
    <1>3. Refusable(s.lexemes)
        BY <1>1 DEF Refusable, Range
    <1> QED
        BY <1>2, <1>3

(* Parsing refuses the line, or yields the units of a plan.                *)
LEMMA AdmitFacts ==
    ASSUME CallInv, Admit
    PROVE  /\ pc = "admit" /\ UNCHANGED <<tree, session, request, unit, prep, pipe, stage, run>>
           /\ \/ pc' = "unit" /\ GoodUnits(units') /\ units' # <<>>
              \/ pc' = "closing" /\ outcome' # "returned" /\ UNCHANGED units
    <1> DEFINE words == Tokenize(request.lexemes)
               plan == ParseExecutionPlan(words.tokens)
    <1>1. pc = "admit" /\ UNCHANGED <<tree, session, request, unit, prep, pipe, stage, run>>
        BY DEF Admit
    <1>2. IF words.ok THEN IsSeq(words.tokens) ELSE words.code # "returned"
        BY <1>1, RequestLexemes, Tokens DEF CallInv
    <1>3. IsSeq(words.tokens) =>
            IF plan.ok THEN GoodUnits(plan.units) /\ plan.units # <<>> ELSE plan.code # "returned"
        <2> HIDE DEF words
        <2> QED
            BY Plans
    <1>4. \/ Raise("too_long") /\ UNCHANGED units
          \/ ~words.ok /\ Raise(words.code) /\ UNCHANGED units
          \/ words.ok /\ ~plan.ok /\ Raise(plan.code) /\ UNCHANGED units
          \/ words.ok /\ plan.ok /\ pc' = "unit" /\ units' = plan.units
          \/ Raise("invalid") /\ UNCHANGED units
        <2> DEFINE short == Len(request.lexemes) <= MaxCommand
                   long == Len(request.lexemes) > MaxCommand
        <2>1. (CASE long -> Raise("too_long") /\ UNCHANGED units
                [] short /\ ~words.ok -> Raise(words.code) /\ UNCHANGED units
                [] short /\ words.ok /\ ~plan.ok -> Raise(plan.code) /\ UNCHANGED units
                [] OTHER -> IF WithinStructure(plan.units)
                            THEN pc' = "unit" /\ units' = plan.units /\ UNCHANGED outcome
                            ELSE Raise("invalid") /\ UNCHANGED units)
            BY Zenon DEF Admit
        <2>2. long \/ short
            <3>1. Len(request.lexemes) \in Nat /\ MaxCommand \in Nat
                BY <1>1, RequestLexemes, SeqFacts, CommandLimitsAssumption DEF CallInv
            <3> QED
                BY <3>1
        <2> HIDE DEF words, plan, short, long
        <2> QED
            BY <2>1, <2>2
    <1> HIDE DEF words, plan
    <1> QED
        BY <1>1, <1>2, <1>3, <1>4 DEF Raise

(* Admission and the start of a unit.                                      *)
LEMMA AdmitKeeps == ASSUME PlanInv, Admit PROVE PlanInv'
    BY AdmitFacts DEF PlanInv, CallInv, WorkInv, UnitInv

(* A unit is skipped.                                                      *)
LEMMA SkipUnitKeeps == ASSUME PlanInv, SkipUnit PROVE PlanInv'
    BY TailUnits DEF PlanInv, CallInv, WorkInv, UnitInv, SkipUnit

(* A unit begins.                                                          *)
LEMMA BeginUnitKeeps == ASSUME PlanInv, BeginUnit PROVE PlanInv'
    <1>1. /\ pc = "unit" /\ units # <<>> /\ UNCHANGED <<session, request, run>>
          /\ \/ \E code : code # "returned" /\ Raise(code) /\ UNCHANGED <<units, pipe>>
             \/ /\ unit' = units[1] /\ units' = Tail(units) /\ prep' = PrepareUnit(units[1])
                /\ pipe' = NoPipe /\ stage' = prep'.failure
                /\ pc' = IF prep'.failure.exit = 0 THEN "run" ELSE "settle"
        BY StoppedCode DEF BeginUnit
    <1>2. CASE \E code : code # "returned" /\ Raise(code) /\ UNCHANGED <<units, pipe>>
        BY <1>1, <1>2, RaiseKeeps
    <1>3. CASE /\ unit' = units[1] /\ units' = Tail(units) /\ prep' = PrepareUnit(units[1])
               /\ pipe' = NoPipe /\ stage' = prep'.failure
               /\ pc' = IF prep'.failure.exit = 0 THEN "run" ELSE "settle"
        <2>1. GoodUnits(units') /\ GoodUnit(unit')
            BY <1>1, <1>3, TailUnits DEF PlanInv, CallInv
        <2>2. Prepared(unit', prep')
            BY <1>3, <2>1, PrepareUnitFacts
        <2>3. IsResult(stage')
            BY <1>3, <2>2 DEF Prepared
        <2>4. DOMAIN pipe' = PipeFields /\ pipe'.k \in 1..Len(unit'.stages)
            <3>1. Len(unit'.stages) \in Nat /\ Len(unit'.stages) # 0
                BY <2>1, SeqFacts DEF GoodUnit
            <3> QED
                BY <1>3, <3>1 DEF NoPipe, PipeFields
        <2> HIDE DEF GoodUnit, GoodUnits, Prepared, IsResult
        <2>5. pc' \in {"run", "settle"} /\ (pc' = "run" => prep'.failure.exit = 0)
            BY <1>3
        <2> QED
            BY <1>1, <2>1, <2>2, <2>3, <2>4, <2>5 DEF PlanInv, CallInv, WorkInv, UnitInv
    <1> QED
        BY <1>1, <1>2, <1>3

(* _sanitize_stage gives a result.                                         *)
LEMMA SanitizeResult ==
    ASSUME NEW r, IsResult(r)
    PROVE  IsResult(Sanitize(r))
    <1>1. Sanitize(r) \in {[ProtectedValue EXCEPT !.trees = r.trees],
                           [r EXCEPT !.out = Redact(@), !.err = Redact(@)]}
        BY Zenon DEF Sanitize
    <1>2. IsResult([ProtectedValue EXCEPT !.trees = r.trees])
        <2>1. IsResult(ProtectedValue)
            BY PlainResults, StillIsResult DEF Plain
        <2> QED
            BY <2>1 DEF IsResult, ResultFields
    <1>3. IsResult([r EXCEPT !.out = Redact(@), !.err = Redact(@)])
        BY DEF IsResult, ResultFields
    <1> QED
        BY <1>1, <1>2, <1>3, Zenon

(* So does every end of a pipeline.                                        *)
LEMMA PlainIsResult == \A exit, code, out, err : IsResult(Result(exit, code, out, err))
    BY PlainResults, StillIsResult DEF Plain

(* The result of the stage that runs.                                      *)
LEMMA StageFacts ==
    ASSUME UnitInv, pc = "run"
    PROVE  /\ IsResult(StageResult)
           /\ (unit.mode # "none" \/ Len(unit.stages) > 1) => StageResult.trees = <<>>
    <1>1. Runnable(StageArgv)
          /\ ((unit.mode # "none" \/ Len(unit.stages) > 1) => StageArgv[1][1] \in Printers)
        BY DEF UnitInv, Prepared, StageArgv
    <1> DEFINE ctx == [cwd |-> run.cwd, view |-> View, stdin |-> pipe.input,
                       connected |-> pipe.k > 1]
    <1>2. StageResult = Handler(StageArgv, ctx, tree)
        BY DEF StageResult
    <1> HIDE DEF ctx
    <1>3. IsResult(StageResult) /\ (StageArgv[1][1] \in Printers => Plain(StageResult))
        BY <1>1, <1>2, HandlerResult DEF Runnable
    <1> QED
        BY <1>1, <1>3 DEF Plain

(* The end of a stage: the next one, the end of the unit, or a raise.      *)
LEMMA FinishStageFacts ==
    ASSUME UnitInv, pc = "run", NEW r, IsResult(r), FinishStage(r)
    PROVE  \/ \E code : code # "returned" /\ Raise(code) /\ UNCHANGED <<pipe, stage>>
           \/ pc' = "settle" /\ IsResult(stage') /\ UNCHANGED <<pipe, outcome>>
           \/ /\ UNCHANGED <<pc, stage, outcome>>
              /\ DOMAIN pipe' = PipeFields /\ pipe'.k \in 1..Len(unit.stages)
    <1> DEFINE s == Sanitize(r)
               p == [pipe EXCEPT !.err = @ \o s.err, !.bytes = @ + Len(s.out),
                                 !.exit = IF s.exit # 0 THEN s.exit ELSE @,
                                 !.code = IF s.exit # 0 THEN s.code ELSE @]
               more == /\ pipe.k < Len(prep.stages)
                       /\ Len(s.out) > MaxIntermediate \/ p.bytes > MaxAggregate
               last == pipe.k = Len(prep.stages)
    <1>1. IsResult(s)
        BY SanitizeResult
    <1>2. \/ stage' = s /\ pc' = "settle" /\ UNCHANGED <<pipe, outcome>>
          \/ Raise(Stopped) /\ UNCHANGED <<pipe, stage>>
          \/ Raise("internal") /\ UNCHANGED <<pipe, stage>>
          \/ /\ UNCHANGED outcome
             /\ (CASE last -> /\ stage' = Result(p.exit, p.code, s.out, p.err)
                              /\ pc' = "settle" /\ UNCHANGED pipe
                   [] more -> /\ stage' = Result(1, "pipeline_limit_exceeded", <<>>, p.err \o Note)
                              /\ pc' = "settle" /\ UNCHANGED pipe
                   [] OTHER -> /\ pipe' = [p EXCEPT !.k = @ + 1, !.input = s.out]
                               /\ UNCHANGED <<pc, stage>>)
        BY Zenon DEF FinishStage
    <1> HIDE DEF s
    <1>3. DOMAIN p = PipeFields /\ p.k = pipe.k
        BY DEF UnitInv, PipeFields
    <1> HIDE DEF p, more
    <1>4. CASE stage' = s /\ pc' = "settle" /\ UNCHANGED <<pipe, outcome>>
        BY <1>1, <1>4
    <1>5. CASE Raise(Stopped) /\ UNCHANGED <<pipe, stage>>
        BY <1>5, StoppedCode
    <1>6. CASE Raise("internal") /\ UNCHANGED <<pipe, stage>>
        BY <1>6
    <1>7. CASE /\ UNCHANGED <<pipe, outcome>> /\ pc' = "settle"
               /\ \E exit, code, out, err : stage' = Result(exit, code, out, err)
        BY <1>7, PlainIsResult
    <1>8. CASE /\ ~last /\ pipe' = [p EXCEPT !.k = @ + 1, !.input = s.out]
               /\ UNCHANGED <<pc, stage, outcome>>
        <2>1. /\ pipe.k \in 1..Len(unit.stages) /\ pipe.k # Len(unit.stages)
              /\ Len(unit.stages) \in Nat
            BY <1>8, SeqFacts DEF UnitInv, Prepared, GoodUnit
        <2>2. DOMAIN pipe' = PipeFields /\ pipe'.k = pipe.k + 1
            BY <1>3, <1>8 DEF PipeFields
        <2> QED
            BY <1>8, <2>1, <2>2
    <1> HIDE DEF last
    <1>9. \/ UNCHANGED <<pipe, outcome>> /\ pc' = "settle"
             /\ stage' = Result(p.exit, p.code, s.out, p.err)
          \/ UNCHANGED <<pipe, outcome>> /\ pc' = "settle"
             /\ stage' = Result(1, "pipeline_limit_exceeded", <<>>, p.err \o Note)
          \/ /\ ~last /\ pipe' = [p EXCEPT !.k = @ + 1, !.input = s.out]
             /\ UNCHANGED <<pc, stage, outcome>>
          \/ stage' = s /\ pc' = "settle" /\ UNCHANGED <<pipe, outcome>>
          \/ Raise(Stopped) /\ UNCHANGED <<pipe, stage>>
          \/ Raise("internal") /\ UNCHANGED <<pipe, stage>>
        BY <1>2
    <1> QED
        BY <1>4, <1>5, <1>6, <1>7, <1>8, <1>9

(* A stage ends.                                                           *)
LEMMA RunStageKeeps == ASSUME PlanInv, RunStage PROVE PlanInv'
    <1>1. /\ pc = "run" /\ UNCHANGED <<session, request, units, unit, prep, run>>
          /\ \/ Raise("secret_expired") /\ UNCHANGED <<pipe, stage>>
             \/ FinishStage(StageResult)
        BY Zenon DEF RunStage
    <1>2. \/ \E code : code # "returned" /\ Raise(code) /\ UNCHANGED <<pipe, stage>>
          \/ pc' = "settle" /\ IsResult(stage') /\ UNCHANGED <<pipe, outcome>>
          \/ /\ UNCHANGED <<pc, stage, outcome>>
             /\ DOMAIN pipe' = PipeFields /\ pipe'.k \in 1..Len(unit.stages)
        BY <1>1, StageFacts, FinishStageFacts DEF PlanInv
    <1>3. CASE \E code : code # "returned" /\ Raise(code) /\ UNCHANGED <<pipe, stage>>
        BY <1>1, <1>3, RaiseKeeps
    <1>4. CASE \/ pc' = "settle" /\ IsResult(stage') /\ UNCHANGED <<pipe, outcome>>
               \/ /\ UNCHANGED <<pc, stage, outcome>>
                  /\ DOMAIN pipe' = PipeFields /\ pipe'.k \in 1..Len(unit.stages)
        BY <1>1, <1>4 DEF PlanInv, CallInv, WorkInv, UnitInv
    <1> QED
        BY <1>2, <1>3, <1>4

(* A stage or a redirection is cut off.                                    *)
LEMMA InterruptsKeep ==
    ASSUME PlanInv, Interrupt \/ HandlerFault \/ InterruptRedirect \/ RedirectFault
    PROVE  PlanInv'
    <1>1. /\ pc \in {"run", "redirect"} /\ UNCHANGED <<session, request, units, pipe, run>>
          /\ \E code : code # "returned" /\ Raise(code)
        BY StoppedCode DEF Interrupt, HandlerFault, InterruptRedirect, RedirectFault
    <1> QED
        BY <1>1, RaiseKeeps

(* The end of a unit moves cwd and environment with the changes it keeps,  *)
(* and only when it succeeded.                                             *)
LEMMA EndOfUnitFacts ==
    ASSUME WorkInv, pc # "done", NEW s, IsResult(s), NEW out, EndOfUnit(s, out),
           UNCHANGED session
    PROVE  /\ DOMAIN run' = RunFields /\ IsSeq(run'.changes)
           /\ run'.env = ApplyChanges(session.env, run'.changes)
           /\ ((run'.cwd = run.cwd /\ run'.env = run.env) \/ run'.exit = 0)
    <1> DEFINE c == Committed(s)
    <1>1. /\ DOMAIN c = RunFields
          /\ IF s.exit # 0
             THEN c.cwd = run.cwd /\ c.env = run.env /\ c.changes = run.changes
             ELSE c.env = ApplyChanges(run.env, s.changes) /\ c.changes = run.changes \o s.changes
        BY DEF Committed, WorkInv, RunFields
    <1>2. run' = [c EXCEPT !.exit = s.exit, !.code = s.code,
                           !.out = Collect(@, out), !.err = Collect(@, s.err)]
        BY Zenon DEF EndOfUnit
    <1> HIDE DEF c
    <1>3. /\ DOMAIN run' = RunFields /\ run'.exit = s.exit
          /\ run'.cwd = c.cwd /\ run'.env = c.env /\ run'.changes = c.changes
        BY <1>1, <1>2 DEF RunFields
    <1>4. IsSeq(run.changes) /\ IsSeq(s.changes) /\ run.env = ApplyChanges(session.env, run.changes)
        BY DEF WorkInv, IsResult
    <1>5. /\ IsSeq(run.changes \o s.changes)
          /\ ApplyChanges(session.env, run.changes \o s.changes)
             = ApplyChanges(ApplyChanges(session.env, run.changes), s.changes)
        BY <1>4, Concatenation, ChangesAppend
    <1> QED
        BY <1>1, <1>3, <1>4, <1>5

(* A unit ends, or goes on to its redirection.                             *)
LEMMA SettleKeeps == ASSUME PlanInv, Settle PROVE PlanInv'
    <1> DEFINE s == Sanitize(stage)
    <1>1. pc = "settle" /\ UNCHANGED <<session, request, units, unit, prep, pipe>>
        BY DEF Settle
    <1>2. \/ Raise(Stopped)  /\ UNCHANGED <<stage, run, emitted>>
          \/ RedirectsOutput /\ pc' = "redirect" /\ stage' = s /\ UNCHANGED <<run, outcome>>
          \/ EndOfUnit(s, s.out) /\ pc' = "unit" /\ UNCHANGED <<stage, outcome>>
        BY Zenon DEF Settle
    <1>3. IsResult(s)
        BY <1>1, SanitizeResult DEF PlanInv, UnitInv
    <1> HIDE DEF s
    <1>4. CASE Raise(Stopped) /\ UNCHANGED <<stage, run, emitted>>
        BY <1>1, <1>4, RaiseKeeps, StoppedCode
    <1>5. CASE RedirectsOutput /\ pc' = "redirect" /\ stage' = s /\ UNCHANGED <<run, outcome>>
        BY <1>1, <1>3, <1>5 DEF PlanInv, CallInv, WorkInv, UnitInv, RedirectsOutput
    <1>6. CASE EndOfUnit(s, s.out) /\ pc' = "unit" /\ UNCHANGED <<stage, outcome>>
        <2>1. /\ DOMAIN run' = RunFields /\ IsSeq(run'.changes)
              /\ run'.env = ApplyChanges(session.env, run'.changes)
            BY <1>1, <1>3, <1>6, EndOfUnitFacts DEF PlanInv
        <2> QED
            BY <1>1, <1>6, <2>1 DEF PlanInv, CallInv, WorkInv, UnitInv
    <1> QED
        BY <1>2, <1>4, <1>5, <1>6

(* What redirection makes of the result.                                   *)
LEMMA RedirectedResult ==
    ASSUME IsResult(stage)
    PROVE  IsResult(Redirected.stage)
    <1> DEFINE failed == [Result(1, "redirection_failure", <<>>, stage.err \o Note)
                          EXCEPT !.trees = <<>>]
    <1>1. Redirected.stage \in {failed, [stage EXCEPT !.out = <<>>]}
        BY DEF Redirected
    <1>2. IsResult(failed)
        <2>1. IsResult(Result(1, "redirection_failure", <<>>, stage.err \o Note))
            BY PlainIsResult
        <2> QED
            BY <2>1 DEF IsResult, ResultFields
    <1> HIDE DEF failed
    <1>3. IsResult([stage EXCEPT !.out = <<>>])
        BY DEF IsResult, ResultFields
    <1> QED
        BY <1>1, <1>2, <1>3, Zenon

(* A redirection ends.                                                     *)
LEMMA RedirectKeeps == ASSUME PlanInv, Redirect PROVE PlanInv'
    <1> DEFINE s == Sanitize(Redirected.stage)
    <1>1. /\ pc = "redirect" /\ UNCHANGED <<session, request, units, unit, prep, pipe, stage>>
          /\ \/ Raise(Stopped) /\ UNCHANGED <<run, emitted>>
             \/ EndOfUnit(s, <<>>) /\ pc' = "unit" /\ UNCHANGED outcome
        BY Zenon DEF Redirect
    <1>2. IsResult(s)
        BY <1>1, RedirectedResult, SanitizeResult DEF PlanInv, UnitInv
    <1> HIDE DEF s
    <1>3. CASE Raise(Stopped) /\ UNCHANGED <<run, emitted>>
        BY <1>1, <1>3, RaiseKeeps, StoppedCode
    <1>4. CASE EndOfUnit(s, <<>>) /\ pc' = "unit" /\ UNCHANGED outcome
        <2>1. /\ DOMAIN run' = RunFields /\ IsSeq(run'.changes)
              /\ run'.env = ApplyChanges(session.env, run'.changes)
            BY <1>1, <1>2, <1>4, EndOfUnitFacts DEF PlanInv
        <2> QED
            BY <1>1, <1>4, <2>1 DEF PlanInv, CallInv, WorkInv, UnitInv
    <1> QED
        BY <1>1, <1>3, <1>4

(* The beginning and the end of the call, and what happens around it.      *)
LEMMA RestKeeps ==
    ASSUME PlanInv,
           \/ Return \/ CloseOwn \/ Publish \/ Elsewhere
           \/ (\E s \in Scripts : Submit(s)) \/ (\E c \in Causes : Stop(c))
    PROVE  PlanInv'
    <1>1. CASE Return
        BY <1>1, StoppedCode DEF PlanInv, CallInv, WorkInv, UnitInv, Return, Raise
    <1>2. CASE CloseOwn \/ Elsewhere \/ \E c \in Causes : Stop(c)
        BY <1>2 DEF PlanInv, CallInv, WorkInv, UnitInv, CloseOwn, Elsewhere, Stop, execVars
    <1>3. CASE Publish
        BY <1>3 DEF PlanInv, CallInv, WorkInv, UnitInv, Publish
    <1>4. CASE \E s \in Scripts : Submit(s)
        BY <1>4 DEF PlanInv, CallInv, WorkInv, UnitInv, Submit
    <1> QED
        BY <1>1, <1>2, <1>3, <1>4

(* The invariant is inductive.                                             *)
LEMMA PlanInvKeeps == PlanInv /\ [Next]_vars => PlanInv'
    <1> SUFFICES ASSUME PlanInv, [Next]_vars PROVE PlanInv'
        OBVIOUS
    <1>1. CASE UNCHANGED vars
        BY <1>1 DEF PlanInv, CallInv, WorkInv, UnitInv, vars, execVars
    <1>2. CASE Next
        BY <1>2, LeaseKeeps, AdmitKeeps, SkipUnitKeeps, BeginUnitKeeps, RunStageKeeps,
           InterruptsKeep, SettleKeeps, RedirectKeeps, RestKeeps DEF Next
    <1> QED
        BY <1>1, <1>2

(* At every moment of a call the units to come are those of a parsed plan, *)
(* what runs was neither refused nor barred, a pipeline or a redirected    *)
(* command runs only commands that print, and the environment of the next  *)
(* unit is the session's with the changes of the units that succeeded.     *)
THEOREM PlanInvariant == Spec => []PlanInv
    BY PlanInit, PlanInvKeeps, PTL DEF Spec

-----------------------------------------------------------------------------
(* CommandExecutor implements CommandContract.                             *)
Busy == {"run", "settle", "redirect"}

(* A session that is idle is what the contract starts from.                *)
LEMMA ContractStart == Init => Promise!ContractInit
    <1> SUFFICES ASSUME Init PROVE Promise!ContractInit
        OBVIOUS
    <1>1. Status = "idle" /\ ToDo = <<>> /\ Granted = Promise!NoGrant
        BY DEF Init, Status, ToDo, Granted, Promise!NoGrant, Promise!Root, Root
    <1>2. Promise!IsTree(tree)
        BY TreeAssumption DEF Init, IsTree, Promise!IsTree, Paths, Promise!Paths
    <1>3. [cwd |-> run.cwd, env |-> run.env] = session /\ (run.exit = 0) = TRUE
        BY DEF Init, StartOf
    <1> QED
        BY <1>1, <1>2, <1>3 DEF Promise!ContractInit

(* Something is raised before the plan is accepted ...                     *)
LEMMA RaiseRefuses ==
    ASSUME pc \in {"idle", "lease", "admit"}, pc' = "closing", outcome' # "returned",
           UNCHANGED <<tree, session, run>>
    PROVE  Promise!Refuse
    <1>1. Status = "idle" /\ Status' = "over"
        BY DEF Status
    <1>2. ToDo = <<>> /\ ToDo' = <<>>
        BY <1>1 DEF ToDo
    <1>3. Granted = Promise!NoGrant /\ Granted' = Promise!NoGrant
        BY DEF Granted, Promise!NoGrant, Promise!Root, Root
    <1> QED
        BY <1>1, <1>2, <1>3 DEF Promise!Refuse

(* ... or while it runs.                                                   *)
LEMMA RaiseAborts ==
    ASSUME pc \in Busy \cup {"unit"}, pc' = "closing", outcome' # "returned",
           UNCHANGED <<session, run>>, Promise!Effect
    PROVE  Promise!Abort
    <1>1. Status = "running" /\ Status' = "over"
        BY DEF Status, Busy
    <1>2. ToDo' = <<>>
        BY <1>1 DEF ToDo
    <1>3. Granted' = Promise!NoGrant
        BY DEF Granted, Promise!NoGrant, Promise!Root, Root
    <1> QED
        BY <1>1, <1>2, <1>3 DEF Promise!Abort

(* Leaving the tree alone is always allowed.                               *)
LEMMA NoEffect == tree' = tree => Promise!Effect
    BY DEF Promise!Effect

(* Nothing that the contract speaks of changes.                            *)
LEMMA SameContract ==
    ASSUME UNCHANGED <<tree, session, run>>,
           \/ UNCHANGED <<pc, outcome, units, unit, prep>>
           \/ pc \in {"idle", "lease", "admit"} /\ pc' \in {"idle", "lease", "admit"}
           \/ UNCHANGED <<units, unit, prep>> /\ pc \in Busy /\ pc' \in Busy
    PROVE  UNCHANGED Promise!contractVars
    <1>1. CASE UNCHANGED <<pc, outcome, units, unit, prep>>
        BY <1>1 DEF Promise!contractVars, Status, ToDo, Granted
    <1>2. CASE pc \in {"idle", "lease", "admit"} /\ pc' \in {"idle", "lease", "admit"}
        <2>1. Status = "idle" /\ Status' = "idle"
            BY <1>2 DEF Status
        <2>2. ToDo = <<>> /\ ToDo' = <<>>
            BY <2>1 DEF ToDo
        <2>3. Granted = Promise!NoGrant /\ Granted' = Promise!NoGrant
            BY <1>2 DEF Granted, Promise!NoGrant, Promise!Root, Root
        <2> QED
            BY <2>1, <2>2, <2>3 DEF Promise!contractVars
    <1>3. CASE UNCHANGED <<units, unit, prep>> /\ pc \in Busy /\ pc' \in Busy
        <2>1. Status = "running" /\ Status' = "running"
            BY <1>3 DEF Status, Busy
        <2>2. ToDo' = ToDo
            BY <1>3, <2>1 DEF ToDo
        <2>3. Granted' = Granted
            BY <1>3 DEF Granted, Busy
        <2> QED
            BY <2>1, <2>2, <2>3 DEF Promise!contractVars
    <1> QED
        BY <1>1, <1>2, <1>3

Maps == Promise!ContractNext \/ UNCHANGED Promise!contractVars

(* Leasing refuses, or is not seen.                                        *)
LEMMA LeaseMaps ==
    ASSUME AcquireLease \/ OwnResolved \/ OwnUnresolved \/ Protect
    PROVE  Maps
    <1>1. /\ pc = "lease" /\ UNCHANGED <<tree, session, units, unit, prep, run>>
          /\ \/ UNCHANGED <<pc, outcome>>
             \/ pc' = "admit"
             \/ pc' = "closing" /\ outcome' # "returned"
        BY StoppedCode
           DEF AcquireLease, OwnResolved, OwnUnresolved, Protect, Raise, execVars
    <1> QED
        BY <1>1, SameContract, RaiseRefuses DEF Maps, Promise!ContractNext

(* What the contract has to do is the units that are to come.              *)
LEMMA ToDoUnits ==
    ASSUME Status = "running", GoodUnits(units)
    PROVE  /\ IsSeq(ToDo) /\ Len(ToDo) = Len(units) /\ DOMAIN ToDo = DOMAIN units
           /\ \A i \in 1..Len(units) :
                 ToDo[i] = [connector |-> units[i].connector, form |-> Form(units[i])]
           /\ ToDo = <<>> <=> units = <<>>
    <1>1. Len(units) \in Nat /\ DOMAIN units = 1..Len(units) /\ (units = <<>> <=> Len(units) = 0)
        BY SeqFacts DEF GoodUnits
    <1>2. ToDo = [i \in DOMAIN units |->
                     [connector |-> units[i].connector, form |-> Form(units[i])]]
        BY DEF ToDo
    <1> HIDE DEF ToDo
    <1>3. ToDo = [i \in 1..Len(units) |-> ToDo[i]]
        BY <1>1, <1>2
    <1>4. IsSeq(ToDo) /\ Len(ToDo) = Len(units)
        BY <1>1, <1>3, Listing
    <1>5. ToDo = <<>> <=> Len(units) = 0
        BY <1>4, SeqFacts
    <1> QED
        BY <1>1, <1>2, <1>4, <1>5

(* Admission accepts or refuses.                                           *)
LEMMA AdmitMaps == ASSUME PlanInv, Admit PROVE Maps
    <1>1. /\ pc = "admit" /\ UNCHANGED <<tree, session, run>>
          /\ \/ pc' = "unit" /\ GoodUnits(units') /\ units' # <<>>
             \/ pc' = "closing" /\ outcome' # "returned"
        BY AdmitFacts DEF PlanInv
    <1>2. CASE pc' = "closing" /\ outcome' # "returned"
        BY <1>1, <1>2, RaiseRefuses DEF Maps, Promise!ContractNext
    <1>3. CASE pc' = "unit" /\ GoodUnits(units') /\ units' # <<>>
        <2>1. Status = "idle" /\ Status' = "running"
            BY <1>1, <1>3 DEF Status
        <2>2. ToDo' # <<>>
            <3>1. DOMAIN units' # {}
                <4>1. /\ Len(units') \in Nat /\ DOMAIN units' = 1..Len(units')
                      /\ Len(units') # 0
                    BY <1>3, SeqFacts DEF GoodUnits
                <4>2. 1 \in DOMAIN units'
                    BY <4>1
                <4> QED
                    BY <4>2
            <3>2. DOMAIN ToDo' = DOMAIN units'
                BY <2>1 DEF ToDo
            <3> QED
                BY <3>1, <3>2, NoElements
        <2>3. Granted = Promise!NoGrant /\ Granted' = Promise!NoGrant
            BY <1>1, <1>3 DEF Granted, Promise!NoGrant, Promise!Root, Root
        <2> QED
            BY <1>1, <2>1, <2>2, <2>3 DEF Maps, Promise!ContractNext, Promise!Accept
    <1> QED
        BY <1>1, <1>2, <1>3

(* A sequence is the function of its elements.                             *)
LEMMA SeqFunction ==
    ASSUME NEW s, IsSeq(s)
    PROVE  s = [i \in 1..Len(s) |-> s[i]]
    <1> DEFINE S == ToSet(s)
    <1>1. s \in Seq(S)
        BY DEF IsSeq
    <1> HIDE DEF S
    <1> QED
        BY <1>1

(* Taking a unit off the plan takes it off what the contract has to do.    *)
LEMMA ToDoTail ==
    ASSUME Status = "running", Status' = "running", GoodUnits(units), units # <<>>,
           units' = Tail(units)
    PROVE  /\ ToDo # <<>> /\ ToDo' = Tail(ToDo)
           /\ Head(ToDo).connector = units[1].connector /\ Head(ToDo).form = Form(units[1])
    <1> DEFINE n == Len(units)
               item(u) == [connector |-> u.connector, form |-> Form(u)]
               rest == Tail(ToDo)
    <1>1. /\ n \in Nat /\ n # 0 /\ DOMAIN units = 1..n
          /\ IsSeq(units') /\ Len(units') = n - 1
          /\ \A i \in 1..(n - 1) : units'[i] = units[i + 1]
        BY SeqFacts DEF GoodUnits
    <1>2. DOMAIN units' = 1..(n - 1)
        BY <1>1, SeqFacts
    <1>3. /\ IsSeq(ToDo) /\ Len(ToDo) = n /\ ToDo # <<>>
          /\ \A i \in 1..n : ToDo[i] = item(units[i])
        BY ToDoUnits
    <1>4. ToDo' = [i \in DOMAIN units' |-> item(units'[i])]
        BY DEF ToDo, Form
    <1>5. /\ IsSeq(rest) /\ Len(rest) = n - 1
          /\ \A i \in 1..(n - 1) : rest[i] = ToDo[i + 1]
        BY <1>3, SeqFacts
    <1> HIDE DEF rest, n, item
    <1>6. rest = [i \in 1..(n - 1) |-> rest[i]]
        BY <1>5, SeqFunction
    <1>7. \A i \in 1..(n - 1) : rest[i] = item(units'[i])
        BY <1>1, <1>3, <1>5
    <1>8. ToDo' = rest
        BY <1>2, <1>4, <1>6, <1>7
    <1>9. Head(ToDo) = item(units[1])
        <2>1. Head(ToDo) = ToDo[1]
            BY <1>3 DEF IsSeq
        <2> QED
            BY <1>1, <1>3, <2>1
    <1>10. Head(ToDo).connector = units[1].connector /\ Head(ToDo).form = Form(units[1])
        BY <1>9 DEF item
    <1> QED
        BY <1>3, <1>8, <1>10 DEF rest

(* A skipped unit is skipped by the contract.                              *)
LEMMA SkipUnitMaps == ASSUME PlanInv, SkipUnit PROVE Maps
    <1>1. Status = "running" /\ Status' = "running"
        BY DEF SkipUnit, Status
    <1>2. Granted = Promise!NoGrant /\ Granted' = Promise!NoGrant
        BY DEF SkipUnit, Granted, Promise!NoGrant, Promise!Root, Root
    <1>3. /\ ToDo # <<>> /\ ToDo' = Tail(ToDo) /\ Head(ToDo).connector = "&&"
        BY <1>1, ToDoTail DEF SkipUnit, PlanInv, CallInv
    <1>4. UNCHANGED <<tree, session, run>> /\ run.exit # 0
        BY DEF SkipUnit
    <1> QED
        BY <1>1, <1>2, <1>3, <1>4 DEF Maps, Promise!ContractNext, Promise!Skip

(* What a unit in hand may touch follows from its form.                    *)
LEMMA GrantKinds ==
    ASSUME pc \in Busy
    PROVE  /\ Promise!MayGrant(Form(unit), Granted) /\ Granted # Promise!NoGrant
           /\ Form(unit) = "command" /\ prep.failure.exit = 0 => Granted = Promise!WholeTree
    <1>1. \/ Granted = [k |-> "nothing", path |-> Root]
          \/ Form(unit) = "command" /\ Granted = [k |-> "tree", path |-> Root]
          \/ /\ Form(unit) = "redirected"
             /\ Granted = [k |-> "file", path |-> PathOf(prep.destination, run.cwd)]
        BY DEF Granted, Busy
    <1>2. Form(unit) = "command" /\ prep.failure.exit = 0 => Granted = [k |-> "tree", path |-> Root]
        BY DEF Granted, Busy
    <1> HIDE DEF Granted
    <1> QED
        BY <1>1, <1>2 DEF Promise!MayGrant, Promise!Untouched, Promise!WholeTree, Promise!OneFile,
           Promise!NoGrant, Promise!Root, Root

(* The same after the step.                                                *)
LEMMA GrantKindsNext ==
    ASSUME pc' \in Busy
    PROVE  Promise!MayGrant(Form(unit'), Granted')
    <1>1. \/ Granted' = [k |-> "nothing", path |-> Root]
          \/ Form(unit') = "command" /\ Granted' = [k |-> "tree", path |-> Root]
          \/ /\ Form(unit') = "redirected"
             /\ Granted' = [k |-> "file", path |-> PathOf(prep.destination, run.cwd)']
        BY DEF Granted, Busy, Form
    <1> HIDE DEF Granted
    <1> QED
        BY <1>1 DEF Promise!MayGrant, Promise!Untouched, Promise!WholeTree, Promise!OneFile,
           Promise!Root, Root

(* A unit that begins is begun with the grant of its form.                 *)
LEMMA BeginUnitMaps == ASSUME PlanInv, BeginUnit PROVE Maps
    <1>1. /\ pc = "unit" /\ units # <<>> /\ UNCHANGED <<tree, session, run>>
          /\ units[1].connector = "&&" => run.exit = 0
          /\ \/ \E code : code # "returned" /\ Raise(code)
             \/ unit' = units[1] /\ units' = Tail(units) /\ pc' \in {"run", "settle"}
        BY StoppedCode DEF BeginUnit
    <1>2. CASE \E code : code # "returned" /\ Raise(code)
        BY <1>1, <1>2, RaiseAborts, NoEffect DEF Raise, Maps, Promise!ContractNext
    <1>3. CASE unit' = units[1] /\ units' = Tail(units) /\ pc' \in {"run", "settle"}
        <2>1. Status = "running" /\ Status' = "running"
            BY <1>1, <1>3 DEF Status
        <2>2. Granted = Promise!NoGrant
            BY <1>1 DEF Granted, Promise!NoGrant, Promise!Root, Root
        <2>3. /\ ToDo # <<>> /\ ToDo' = Tail(ToDo)
              /\ Head(ToDo).connector = units[1].connector /\ Head(ToDo).form = Form(units[1])
            BY <1>1, <1>3, <2>1, ToDoTail DEF PlanInv, CallInv
        <2>4. Promise!MayGrant(Head(ToDo).form, Granted')
            BY <1>3, <2>3, GrantKindsNext DEF Busy
        <2> QED
            BY <1>1, <2>1, <2>2, <2>3, <2>4 DEF Maps, Promise!ContractNext, Promise!Enter
    <1> QED
        BY <1>1, <1>2, <1>3

(* A command changes the tree only if it is a unit of its own.             *)
LEMMA RunEffect ==
    ASSUME UnitInv, pc = "run", NEW n, tree' = After(StageResult.trees, n),
           n \in 0..Len(StageResult.trees) \/ n = Len(StageResult.trees)
    PROVE  Promise!Effect
    <1>1. CASE unit.mode # "none" \/ Len(unit.stages) > 1
        <2>1. Len(StageResult.trees) = 0
            BY <1>1, StageFacts, NoElements
        <2>2. tree' = tree
            BY <2>1 DEF After
        <2> QED
            BY <2>2, NoEffect
    <1>2. CASE ~(unit.mode # "none" \/ Len(unit.stages) > 1)
        <2>1. Form(unit) = "command" /\ prep.failure.exit = 0
            BY <1>2 DEF Form, UnitInv
        <2> QED
            BY <2>1, GrantKinds DEF Busy, Promise!Effect
    <1> QED
        BY <1>1, <1>2

(* A stage writes within the grant.                                        *)
LEMMA RunStageMaps == ASSUME PlanInv, RunStage PROVE Maps
    <1> DEFINE r == StageResult
    <1>1. /\ pc = "run" /\ UNCHANGED <<session, units, unit, prep, run>>
          /\ \/ Raise("secret_expired") /\ UNCHANGED <<tree, pipe, stage>>
             \/ tree' = After(r.trees, Len(r.trees)) /\ FinishStage(r)
        BY Zenon DEF RunStage
    <1>2. CASE Raise("secret_expired") /\ UNCHANGED <<tree, pipe, stage>>
        BY <1>1, <1>2, RaiseAborts, NoEffect DEF Raise, Busy, Maps, Promise!ContractNext
    <1>3. CASE tree' = After(r.trees, Len(r.trees)) /\ FinishStage(r)
        <2>1. /\ Promise!Effect
              /\ \/ \E code : code # "returned" /\ Raise(code)
                 \/ pc' \in {"run", "settle"}
            <3>1. \/ \E code : code # "returned" /\ Raise(code)
                  \/ pc' \in {"run", "settle"}
                BY <1>1, <1>3, StageFacts, FinishStageFacts DEF PlanInv
            <3>2. Promise!Effect
                BY <1>1, <1>3, RunEffect DEF PlanInv
            <3> QED
                BY <3>1, <3>2
        <2>2. CASE \E code : code # "returned" /\ Raise(code)
            BY <1>1, <2>1, <2>2, RaiseAborts DEF Raise, Busy, Maps, Promise!ContractNext
        <2>3. CASE pc' \in {"run", "settle"}
            <3>1. Status = "running" /\ Status' = "running"
                BY <1>1, <2>3 DEF Status
            <3>2. ToDo' = ToDo
                BY <1>1, <3>1 DEF ToDo
            <3>3. Granted' = Granted /\ Granted # Promise!NoGrant
                BY <1>1, <2>3, GrantKinds DEF Granted, Busy
            <3> QED
                BY <1>1, <2>1, <3>1, <3>2, <3>3 DEF Maps, Promise!ContractNext, Promise!Touches
        <2> QED
            BY <2>1, <2>2, <2>3
    <1> QED
        BY <1>1, <1>2, <1>3

(* So does one that is cut off, which aborts the call.                     *)
LEMMA InterruptsMap ==
    ASSUME PlanInv, Interrupt \/ HandlerFault \/ InterruptRedirect \/ RedirectFault
    PROVE  Maps
    <1>1. /\ UNCHANGED <<session, run>>
          /\ \E code : code # "returned" /\ Raise(code)
          /\ \/ pc = "redirect" /\ tree' = tree
             \/ /\ pc = "run"
                /\ \E n \in 0..Len(StageResult.trees) : tree' = After(StageResult.trees, n)
        BY StoppedCode DEF Interrupt, HandlerFault, InterruptRedirect, RedirectFault
    <1>2. Promise!Effect
        BY <1>1, RunEffect, NoEffect DEF PlanInv
    <1> QED
        BY <1>1, <1>2, RaiseAborts DEF Raise, Busy, Maps, Promise!ContractNext

(* The end of a unit.                                                      *)
LEMMA EndOfUnitLeaves ==
    ASSUME PlanInv, pc \in Busy, pc' = "unit", NEW s, IsResult(s), NEW out, EndOfUnit(s, out),
           UNCHANGED <<session, units>>, Promise!Effect
    PROVE  Promise!Leave
    <1>1. Status = "running" /\ Status' = "running"
        BY DEF Status, Busy
    <1>2. ToDo' = ToDo
        BY <1>1 DEF ToDo
    <1>3. Granted # Promise!NoGrant
        BY GrantKinds
    <1>4. Granted' = Promise!NoGrant
        BY DEF Granted, Promise!NoGrant, Promise!Root, Root
    <1>5. ((run'.cwd = run.cwd /\ run'.env = run.env) \/ run'.exit = 0)
        BY EndOfUnitFacts DEF PlanInv, Busy
    <1> QED
        BY <1>1, <1>2, <1>3, <1>4, <1>5 DEF Promise!Leave

(* The end of a unit keeps or discards its work.                           *)
LEMMA SettleMaps == ASSUME PlanInv, Settle PROVE Maps
    <1> DEFINE s == Sanitize(stage)
    <1>1. pc = "settle" /\ UNCHANGED <<tree, session, request, units, unit, prep, pipe>>
        BY DEF Settle
    <1>2. \/ Raise(Stopped)  /\ UNCHANGED <<stage, run, emitted>>
          \/ pc' = "redirect" /\ UNCHANGED <<run, outcome>>
          \/ EndOfUnit(s, s.out) /\ pc' = "unit"
        BY Zenon DEF Settle
    <1>3. IsResult(s)
        BY <1>1, SanitizeResult DEF PlanInv, UnitInv
    <1> HIDE DEF s
    <1>4. CASE Raise(Stopped) /\ UNCHANGED <<stage, run, emitted>>
        BY <1>1, <1>4, RaiseAborts, NoEffect, StoppedCode
           DEF Raise, Busy, Maps, Promise!ContractNext
    <1>5. CASE pc' = "redirect" /\ UNCHANGED <<run, outcome>>
        BY <1>1, <1>5, SameContract DEF Busy, Maps
    <1>6. CASE EndOfUnit(s, s.out) /\ pc' = "unit"
        BY <1>1, <1>3, <1>6, EndOfUnitLeaves, NoEffect DEF Busy, Maps, Promise!ContractNext
    <1> QED
        BY <1>2, <1>4, <1>5, <1>6

(* Redirection replaces the file it names, or nothing.                     *)
LEMMA RedirectEffect ==
    ASSUME UnitInv, pc = "redirect", tree' = Redirected.tree
    PROVE  Promise!Effect
    <1> DEFINE p == PathOf(prep.destination, run.cwd)
               r == IF unit.mode = ">" THEN WriteNode(tree, p, stage.out)
                    ELSE AppendNode(tree, p, stage.out)
    <1>1. \/ Redirected.tree = tree
          \/ Resolves(prep.destination, run.cwd) /\ r.ok /\ Redirected.tree = r.tree
        BY DEF Redirected
    <1>2. \E content : r = WriteNode(tree, p, content)
        BY Zenon DEF AppendNode
    <1> HIDE DEF r
    <1>3. ASSUME Resolves(prep.destination, run.cwd), r.ok, tree' = r.tree
          PROVE  Promise!Effect
        <2>1. PICK content : r = WriteNode(tree, p, content)
            BY <1>2
        <2>2. Granted = [k |-> "file", path |-> p]
            BY <1>3 DEF Granted, UnitInv, Form
        <2> HIDE DEF p
        <2>3. /\ p # Root /\ ~IsDir(tree, p) /\ HasParent(tree, p, FALSE)
              /\ tree' = Put(tree, p, content)
            BY <1>3, <2>1 DEF WriteNode, Mutated
        <2>4. tree'[p] = content
            BY <2>3 DEF Put
        <2>5. /\ p # Promise!Root /\ ~Promise!IsDir(tree, p) /\ Promise!HasParent(tree, p, FALSE)
              /\ tree' = Promise!Put(tree, p, tree'[p])
            BY <2>3, <2>4 DEF Root, Promise!Root, IsDir, Promise!IsDir, HasParent,
               Promise!HasParent, Ancestors, Promise!Ancestors, Put, Promise!Put
        <2> QED
            BY <2>2, <2>5 DEF Promise!Effect
    <1> QED
        BY <1>1, <1>3, NoEffect

(* A redirection writes the one file that was granted.                     *)
LEMMA RedirectMaps == ASSUME PlanInv, Redirect PROVE Maps
    <1> DEFINE s == Sanitize(Redirected.stage)
    <1>1. /\ pc = "redirect" /\ UNCHANGED <<session, request, units, unit, prep, pipe, stage>>
          /\ tree' = Redirected.tree
          /\ \/ Raise(Stopped) /\ UNCHANGED <<run, emitted>>
             \/ EndOfUnit(s, <<>>) /\ pc' = "unit"
        BY Zenon DEF Redirect
    <1>2. IsResult(s)
        BY <1>1, RedirectedResult, SanitizeResult DEF PlanInv, UnitInv
    <1>3. Promise!Effect
        BY <1>1, RedirectEffect DEF PlanInv
    <1> HIDE DEF s
    <1>4. CASE Raise(Stopped) /\ UNCHANGED <<run, emitted>>
        BY <1>1, <1>3, <1>4, RaiseAborts, StoppedCode DEF Raise, Busy, Maps, Promise!ContractNext
    <1>5. CASE EndOfUnit(s, <<>>) /\ pc' = "unit"
        BY <1>1, <1>2, <1>3, <1>5, EndOfUnitLeaves DEF Busy, Maps, Promise!ContractNext
    <1> QED
        BY <1>1, <1>4, <1>5

(* The return of the call is not seen until it is published.               *)
LEMMA ReturnMaps == ASSUME Return PROVE Maps
    <1>1. /\ pc = "unit" /\ pc' = "closing" /\ UNCHANGED <<tree, session, units, unit, prep, run>>
        BY DEF Return, Raise
    <1>2. CASE outcome' # "returned"
        BY <1>1, <1>2, RaiseAborts, NoEffect DEF Maps, Promise!ContractNext
    <1>3. CASE outcome' = "returned"
        <2>1. Status = "running" /\ Status' = "running"
            BY <1>1, <1>3 DEF Status
        <2>2. ToDo' = ToDo
            BY <1>1, <2>1 DEF ToDo
        <2>3. Granted = Promise!NoGrant /\ Granted' = Promise!NoGrant
            BY <1>1 DEF Granted, Promise!NoGrant, Promise!Root, Root
        <2> QED
            BY <1>1, <2>1, <2>2, <2>3 DEF Maps, Promise!contractVars
    <1> QED
        BY <1>1, <1>2, <1>3

(* The session moves to where the units left off, or stays.                *)
LEMMA PublishMaps == ASSUME PlanInv, Publish PROVE Maps
    <1>1. pc = "closing" /\ pc' = "done" /\ UNCHANGED <<tree, units, unit, prep, run>>
        BY DEF Publish
    <1>2. Granted = Promise!NoGrant /\ Granted' = Promise!NoGrant
        BY <1>1 DEF Granted, Promise!NoGrant, Promise!Root, Root
    <1>3. Status' = "over" /\ ToDo' = <<>>
        BY <1>1 DEF Status, ToDo
    <1>4. CASE outcome # "returned"
        <2>1. Status = "over" /\ ToDo = <<>> /\ session' = session
            BY <1>1, <1>4 DEF Status, ToDo, Publish
        <2> QED
            BY <1>1, <1>2, <1>3, <2>1 DEF Maps, Promise!contractVars
    <1>5. CASE outcome = "returned" /\ stops # {}
        <2>1. Status = "running" /\ session' = session
            BY <1>1, <1>5 DEF Status, Publish
        <2> QED
            BY <1>1, <1>2, <1>3, <2>1, NoEffect DEF Maps, Promise!ContractNext, Promise!Abort
    <1>6. CASE outcome = "returned" /\ stops = {}
        <2>1. Status = "running" /\ units = <<>>
            BY <1>1, <1>6 DEF Status, PlanInv, CallInv
        <2>2. ToDo = <<>>
            BY <2>1, ToDoUnits DEF PlanInv, CallInv
        <2>3. session' = [cwd |-> run.cwd, env |-> run.env]
            BY <1>1, <1>6 DEF Publish, PlanInv, WorkInv
        <2> QED
            BY <1>1, <1>2, <1>3, <2>1, <2>2, <2>3 DEF Maps, Promise!ContractNext, Promise!Complete
    <1> QED
        BY <1>4, <1>5, <1>6

(* The rest is not seen.                                                   *)
LEMMA RestMaps ==
    ASSUME CloseOwn \/ Elsewhere \/ (\E s \in Scripts : Submit(s)) \/ (\E c \in Causes : Stop(c))
    PROVE  Maps
    <1>1. /\ UNCHANGED <<tree, session, run>>
          /\ \/ UNCHANGED <<pc, outcome, units, unit, prep>>
             \/ pc = "idle" /\ pc' = "lease"
        BY DEF CloseOwn, Elsewhere, Submit, Stop, execVars
    <1> QED
        BY <1>1, SameContract DEF Maps

(* Every step maps to a step of the contract or to none.                   *)
LEMMA StepMaps == PlanInv /\ [Next]_vars => [Promise!ContractNext]_(Promise!contractVars)
    <1> SUFFICES ASSUME PlanInv, [Next]_vars PROVE Maps
        BY DEF Maps
    <1>1. CASE UNCHANGED vars
        BY <1>1, SameContract DEF Maps, vars, execVars
    <1>2. CASE Next
        BY <1>2, LeaseMaps, AdmitMaps, SkipUnitMaps, BeginUnitMaps, RunStageMaps,
           InterruptsMap, SettleMaps, RedirectMaps, ReturnMaps, PublishMaps, RestMaps DEF Next
    <1> QED
        BY <1>1, <1>2

(* Every execute does what CommandContract promises: a unit runs or is     *)
(* skipped by the exit before it, only a command of its own changes the    *)
(* tree at large, redirection replaces one file, and cwd and environment   *)
(* are published together, once, and only when the whole plan was run.     *)
THEOREM ContractImplemented == Spec => ImplementsContract
    <1>1. Spec => []PlanInv
        BY PlanInvariant
    <1> QED
        BY <1>1, ContractStart, StepMaps, PTL DEF Spec, ImplementsContract, Promise!Contract

-----------------------------------------------------------------------------
(* Sequences put together.                                                 *)

FlatSteps(f, s) ==
    /\ f[1] = s[1] /\ f[Len(s)] = FlattenSeq(s)
    /\ \A k \in 2..Len(s) : f[k] = f[k - 1] \o s[k]

(* FlattenSeq goes from piece to piece.                                    *)
LEMMA FlattenSteps ==
    ASSUME NEW s, IsSeq(s), s # <<>>
    PROVE  \E f : FlatSteps(f, s)
    <1> DEFINE n == Len(s)
               Step(f, i) == IF i = 1 THEN s[i] ELSE f[i - 1] \o s[i]
               Iter(m, f) == f = [i \in 1..m |-> Step(f, i)]
               T == {m \in 0..n : \E f : Iter(m, f)}
               it == CHOOSE f : f = [i \in 1..n |-> IF i = 1 THEN s[i] ELSE f[i - 1] \o s[i]]
    <1>1. n \in Nat /\ n # 0
        BY SeqFacts
    <1>2. FlattenSeq(s) = it[n]
        BY <1>1 DEF FlattenSeq
    <1> HIDE DEF n
    <1>3. 0 \in T
        <2> DEFINE f == [i \in 1..0 |-> 0]
        <2>1. Iter(0, f)
            OBVIOUS
        <2> HIDE DEF f, Iter
        <2> QED
            BY <1>1, <2>1
    <1>4. ASSUME NEW m \in 1..n, m - 1 \in T PROVE m \in T
        <2>1. PICK f : Iter(m - 1, f)
            BY <1>4
        <2> DEFINE g == [i \in 1..m |-> IF i = m THEN Step(f, m) ELSE f[i]]
        <2>2. ASSUME NEW i \in 1..m PROVE g[i] = Step(g, i)
            <3>1. CASE i = m
                <4>1. i # 1 => i - 1 \in 1..m /\ i - 1 # m /\ g[i - 1] = f[i - 1]
                    BY <1>1, <3>1
                <4>2. g[i] = Step(f, m)
                    BY <3>1
                <4> HIDE DEF g
                <4> QED
                    BY <3>1, <4>1, <4>2
            <3>2. CASE i # m
                <4>1. i \in 1..(m - 1)
                    BY <1>1, <3>2
                <4>2. i # 1 => i - 1 \in 1..m /\ i - 1 # m /\ g[i - 1] = f[i - 1]
                    BY <1>1, <4>1
                <4>3. f[i] = Step(f, i) /\ g[i] = f[i]
                    BY <2>1, <3>2, <4>1
                <4> HIDE DEF g
                <4> QED
                    BY <4>2, <4>3
            <3> QED
                BY <3>1, <3>2
        <2>3. g = [i \in 1..m |-> g[i]]
            OBVIOUS
        <2> HIDE DEF g, Step
        <2>4. g = [i \in 1..m |-> Step(g, i)]
            BY <2>2, <2>3
        <2> QED
            BY <1>1, <2>4
    <1> HIDE DEF Iter
    <1>5. n \in T
        BY <1>1, <1>3, <1>4, LeastFailure
    <1>6. \E f : Iter(n, f)
        BY <1>5
    <1>7. it = [i \in 1..n |-> IF i = 1 THEN s[i] ELSE it[i - 1] \o s[i]]
        BY <1>6 DEF Iter
    <1> HIDE DEF it
    <1>8. \A i \in 1..n : it[i] = IF i = 1 THEN s[i] ELSE it[i - 1] \o s[i]
        BY <1>7
    <1>9. it[1] = s[1] /\ \A k \in 2..n : it[k] = it[k - 1] \o s[k]
        <2>1. 1 \in 1..n /\ \A k \in 2..n : k \in 1..n /\ k # 1
            BY <1>1
        <2> QED
            BY <1>8, <2>1
    <1>10. FlatSteps(it, s)
        BY <1>2, <1>9 DEF FlatSteps, n
    <1> QED
        BY <1>10

(* Pieces of sequences over a set are a sequence over that set.            *)
LEMMA FlattenOver ==
    ASSUME NEW s, IsSeq(s), NEW S, \A i \in DOMAIN s : s[i] \in Seq(S)
    PROVE  FlattenSeq(s) \in Seq(S)
    <1> DEFINE n == Len(s)
    <1>1. n \in Nat /\ DOMAIN s = 1..n /\ (s = <<>> <=> n = 0)
        BY SeqFacts
    <1>2. CASE s = <<>>
        BY <1>1, <1>2 DEF FlattenSeq
    <1>3. CASE s # <<>>
        <2>1. PICK f : /\ f[1] = s[1] /\ f[n] = FlattenSeq(s)
                       /\ \A k \in 2..n : f[k] = f[k - 1] \o s[k]
            BY <1>3, FlattenSteps DEF FlatSteps
        <2> HIDE DEF n
        <2> DEFINE T == {k \in 0..n : k > 0 => f[k] \in Seq(S)}
        <2>2. ASSUME NEW k \in 1..n, k - 1 \in T PROVE k \in T
            <3>1. s[k] \in Seq(S)
                BY <1>1
            <3>2. CASE k = 1
                BY <1>1, <2>1, <3>1, <3>2
            <3>3. CASE k # 1
                <4>1. k \in 2..n /\ k - 1 > 0 /\ f[k - 1] \in Seq(S)
                    BY <1>1, <2>2, <3>3
                <4>2. f[k] = f[k - 1] \o s[k]
                    BY <2>1, <4>1
                <4>3. f[k - 1] \o s[k] \in Seq(S)
                    <5> DEFINE a == f[k - 1]
                               b == s[k]
                    <5>1. a \in Seq(S) /\ b \in Seq(S)
                        BY <3>1, <4>1
                    <5> HIDE DEF a, b
                    <5>2. a \o b \in Seq(S)
                        BY <5>1
                    <5> QED
                        BY <5>2 DEF a, b
                <4>4. f[k] \in Seq(S)
                    BY <4>2, <4>3, Zenon
                <4> QED
                    BY <1>1, <4>4
            <3> QED
                BY <3>2, <3>3
        <2>3. 0 \in T
            BY <1>1
        <2> HIDE DEF T
        <2>4. n \in T
            BY <1>1, <2>2, <2>3, LeastFailure DEF T
        <2> QED
            BY <1>1, <1>3, <2>1, <2>4 DEF T
    <1> QED
        BY <1>2, <1>3

(* A function on the indices of a sequence is a sequence.                  *)
LEMMA ListingOver ==
    ASSUME NEW s, IsSeq(s), NEW r, r = [i \in DOMAIN s |-> r[i]]
    PROVE  IsSeq(r) /\ Len(r) = Len(s) /\ DOMAIN r = DOMAIN s
    <1>1. Len(s) \in Nat /\ DOMAIN s = 1..Len(s)
        BY SeqFacts
    <1>2. r = [i \in 1..Len(s) |-> r[i]]
        BY <1>1
    <1> QED
        BY <1>1, <1>2, Listing

(* A part of a sequence.                                                   *)
LEMMA SubSeqFacts ==
    ASSUME NEW s, IsSeq(s), NEW a \in 1..(Len(s) + 1), NEW b \in 0..Len(s)
    PROVE  LET r == SubSeq(s, a, b)
           IN  /\ IsSeq(r) /\ Len(r) = (IF a <= b THEN b - a + 1 ELSE 0)
               /\ \A i \in 1..Len(r) : r[i] = s[a + i - 1] /\ a + i - 1 \in 1..Len(s)
    <1> DEFINE S == ToSet(s)
    <1>1. s \in Seq(S) /\ Len(s) \in Nat
        BY SeqFacts DEF IsSeq
    <1> HIDE DEF S
    <1>2. SubSeq(s, a, b) \in Seq(S)
        BY <1>1
    <1>3. Len(SubSeq(s, a, b)) = IF a <= b THEN b - a + 1 ELSE 0
        BY <1>1
    <1>4. \A i \in 1..Len(SubSeq(s, a, b)) : a + i - 1 \in 1..Len(s)
        BY <1>1, <1>3
    <1>5. \A i \in 1..Len(SubSeq(s, a, b)) : SubSeq(s, a, b)[i] = s[a + i - 1]
        BY <1>1, <1>3
    <1> QED
        BY <1>2, <1>3, <1>4, <1>5, SeqIs

(* A sequence made of two.                                                 *)
Joins(s, u, r) == r = s \o u

(* Its elements are those of both.                                         *)
LEMMA Joined ==
    ASSUME NEW s, NEW u, IsSeq(s), IsSeq(u), NEW r, Joins(s, u, r)
    PROVE  /\ IsSeq(r) /\ Len(r) = Len(s) + Len(u)
           /\ \A i \in 1..Len(s) : r[i] = s[i]
           /\ \A i \in 1..Len(u) : r[Len(s) + i] = u[i]
    <1>1. /\ IsSeq(s \o u) /\ Len(s \o u) = Len(s) + Len(u)
          /\ \A i \in 1..Len(s) : (s \o u)[i] = s[i]
          /\ \A i \in 1..Len(u) : (s \o u)[Len(s) + i] = u[i]
        BY Concatenation
    <1> QED
        BY <1>1 DEF Joins

(* Concatenation is associative.                                           *)
LEMMA Associative ==
    ASSUME NEW a, IsSeq(a), NEW b, IsSeq(b), NEW c, IsSeq(c)
    PROVE  (a \o b) \o c = a \o (b \o c)
    <1> DEFINE ab == a \o b
               bc == b \o c
               u == ab \o c
               v == a \o bc
    <1>1. Len(a) \in Nat /\ Len(b) \in Nat /\ Len(c) \in Nat
        BY SeqFacts
    <1>2. /\ IsSeq(ab) /\ Len(ab) = Len(a) + Len(b)
          /\ \A i \in 1..Len(a) : ab[i] = a[i]
          /\ \A i \in 1..Len(b) : ab[Len(a) + i] = b[i]
          /\ IsSeq(bc) /\ Len(bc) = Len(b) + Len(c)
          /\ \A i \in 1..Len(b) : bc[i] = b[i]
          /\ \A i \in 1..Len(c) : bc[Len(b) + i] = c[i]
        BY Concatenation
    <1> HIDE DEF ab, bc
    <1>6. Joins(ab, c, u) /\ Joins(a, bc, v)
        BY DEF Joins
    <1> HIDE DEF u, v
    <1>3. /\ IsSeq(u) /\ Len(u) = Len(ab) + Len(c)
          /\ \A i \in 1..Len(ab) : u[i] = ab[i]
          /\ \A i \in 1..Len(c) : u[Len(ab) + i] = c[i]
        BY <1>2, <1>6, Joined
    <1>8. IsSeq(a) /\ IsSeq(bc) /\ Joins(a, bc, v)
        BY <1>2, <1>6
    <1>7. /\ IsSeq(v) /\ Len(v) = Len(a) + Len(bc)
          /\ \A i \in 1..Len(a) : v[i] = a[i]
          /\ \A i \in 1..Len(bc) : v[Len(a) + i] = bc[i]
        BY <1>8, Joined
    <1>4. ASSUME NEW i \in 1..Len(u) PROVE u[i] = v[i]
        <2>1. CASE i <= Len(a)
            <3>1. i \in 1..Len(a) /\ i \in 1..Len(ab)
                BY <1>1, <1>2, <2>1
            <3> QED
                BY <1>2, <1>3, <1>7, <3>1
        <2>2. CASE i > Len(a) /\ i <= Len(a) + Len(b)
            <3> DEFINE j == i - Len(a)
            <3>1. j \in 1..Len(b) /\ j \in 1..Len(bc) /\ i = Len(a) + j /\ i \in 1..Len(ab)
                BY <1>1, <1>2, <2>2
            <3> HIDE DEF j
            <3>2. u[i] = ab[Len(a) + j] /\ v[i] = bc[j]
                BY <1>3, <1>7, <3>1
            <3> QED
                BY <1>2, <3>1, <3>2
        <2>3. CASE i > Len(a) + Len(b)
            <3> DEFINE j == i - (Len(a) + Len(b))
            <3>1. /\ j \in 1..Len(c) /\ Len(b) + j \in 1..Len(bc)
                  /\ i = Len(ab) + j /\ i = Len(a) + (Len(b) + j)
                BY <1>1, <1>2, <1>3, <1>7, <2>3
            <3> HIDE DEF j
            <3>2. u[i] = c[j] /\ v[i] = bc[Len(b) + j]
                BY <1>3, <1>7, <3>1
            <3> QED
                BY <1>2, <3>1, <3>2
        <2> QED
            BY <1>1, <1>2, <1>3, <1>7, <2>1, <2>2, <2>3
    <1>5. u = v
        BY <1>1, <1>2, <1>3, <1>7, <1>4, SameElements
    <1> QED
        BY <1>5 DEF u, v, ab, bc

(* A sequence of elements of a set.                                        *)
LEMMA SeqOver ==
    ASSUME NEW s, IsSeq(s), NEW S, \A i \in DOMAIN s : s[i] \in S
    PROVE  s \in Seq(S)
    <1>1. Len(s) \in Nat /\ DOMAIN s = 1..Len(s)
        BY SeqFacts
    <1>2. s \in Seq(ToSet(s)) /\ ToSet(s) \subseteq S
        BY DEF IsSeq, ToSet
    <1> DEFINE V == ToSet(s)
    <1>3. s \in Seq(V) /\ V \subseteq S
        BY <1>2
    <1> HIDE DEF V
    <1> QED
        BY <1>3

(* Sequences put together are a sequence.                                  *)
LEMMA FlattenIs ==
    ASSUME NEW s, IsSeq(s), \A i \in DOMAIN s : IsSeq(s[i])
    PROVE  IsSeq(FlattenSeq(s))
    <1> DEFINE S == UNION {ToSet(s[i]) : i \in DOMAIN s}
    <1>1. ASSUME NEW i \in DOMAIN s PROVE s[i] \in Seq(S)
        <2>1. IsSeq(s[i]) /\ \A j \in DOMAIN s[i] : s[i][j] \in S
            BY DEF ToSet
        <2> HIDE DEF S
        <2> QED
            BY <2>1, SeqOver
    <1> HIDE DEF S
    <1>2. FlattenSeq(s) \in Seq(S)
        BY <1>1, FlattenOver
    <1> QED
        BY <1>2, SeqIs

(* Nothing put together is nothing.                                        *)
LEMMA FlattenNone == FlattenSeq(<<>>) = <<>> /\ IsSeq(<<>>)
    BY NoElements DEF FlattenSeq

(* One more sequence comes at the end.                                     *)
LEMMA FlattenMore ==
    ASSUME NEW s, IsSeq(s), NEW x, IsSeq(x)
    PROVE  FlattenSeq(Append(s, x)) = FlattenSeq(s) \o x
    <1> DEFINE a == Append(s, x)
               n == Len(s)
    <1>1. /\ n \in Nat /\ DOMAIN s = 1..n /\ (s = <<>> <=> n = 0)
          /\ IsSeq(a) /\ Len(a) = n + 1 /\ a[n + 1] = x /\ \A i \in 1..n : a[i] = s[i]
        BY SeqFacts
    <1> HIDE DEF a, n
    <1>2. a # <<>> /\ Len(s) = n
        BY <1>1, SeqFacts DEF n
    <1>3. PICK f : FlatSteps(f, a)
        BY <1>1, <1>2, FlattenSteps
    <1>4. CASE s = <<>>
        <2>1. FlattenSeq(a) = x
            BY <1>1, <1>3, <1>4 DEF FlatSteps
        <2>2. FlattenSeq(s) = <<>> /\ <<>> \o x = x
            <3>1. x \in Seq(ToSet(x))
                BY DEF IsSeq
            <3>2. <<>> \o x = x
                BY <3>1
            <3> QED
                BY <1>4, <3>2, FlattenNone
        <2>3. FlattenSeq(s) \o x = x
            BY <2>2
        <2> QED
            BY <2>1, <2>3 DEF a
    <1>5. CASE s # <<>>
        <2>1. PICK g : FlatSteps(g, s)
            BY <1>5, FlattenSteps
        <2>2. /\ f[1] = a[1] /\ f[n + 1] = FlattenSeq(a)
              /\ \A k \in 2..(n + 1) : f[k] = f[k - 1] \o a[k]
              /\ g[1] = s[1] /\ g[n] = FlattenSeq(s)
              /\ \A k \in 2..n : g[k] = g[k - 1] \o s[k]
            BY <1>1, <1>2, <1>3, <2>1, Zenon DEF FlatSteps
        <2> DEFINE T == {k \in 0..n : k > 0 => f[k] = g[k]}
        <2>3. ASSUME NEW k \in 1..n, k - 1 \in T PROVE k \in T
            <3>1. CASE k = 1
                BY <1>1, <2>2, <3>1
            <3>2. CASE k # 1
                <4>1. /\ k \in 2..n /\ k \in 2..(n + 1) /\ k \in 0..n
                      /\ f[k - 1] = g[k - 1] /\ a[k] = s[k]
                    BY <1>1, <2>3, <3>2
                <4>2. f[k] = f[k - 1] \o a[k] /\ g[k] = g[k - 1] \o s[k]
                    BY <2>2, <4>1
                <4>3. f[k] = g[k]
                    BY <4>1, <4>2, Zenon
                <4> QED
                    BY <4>1, <4>3
            <3> QED
                BY <3>1, <3>2
        <2>4. 0 \in T
            BY <1>1
        <2> HIDE DEF T
        <2>5. n \in T
            BY <1>1, <2>3, <2>4, LeastFailure DEF T
        <2>6. n > 0 /\ n + 1 \in 2..(n + 1) /\ (n + 1) - 1 = n
            BY <1>1, <1>5
        <2>7. f[n] = g[n]
            BY <2>5, <2>6 DEF T
        <2>8. f[n + 1] = f[n] \o x
            BY <1>1, <2>2, <2>6
        <2>9. FlattenSeq(a) = FlattenSeq(s) \o x
            BY <2>2, <2>7, <2>8, Zenon
        <2> QED
            BY <2>9 DEF a
    <1> QED
        BY <1>4, <1>5

-----------------------------------------------------------------------------
(* The parser and its grammar.                                             *)

Word(x) == x.k = "word"
Token(x) == ~Word(x) => x \in [k : {"op"}, v : {"|"} \cup Redirects \cup Separators]
TokenList(tokens) == IsSeq(tokens) /\ \A i \in DOMAIN tokens : Token(tokens[i])
Redirecting(x) == ~Word(x) /\ x.v \in Redirects

(* The first k tokens can begin a command line,                            *)
Begins(tokens, k) ==
    /\ k > 0 => Word(tokens[1])
    /\ \A i \in 1..k : Word(tokens[i]) => ExpandsWell(tokens[i])
    /\ \A i \in 1..(k - 1) : ~Word(tokens[i]) => Word(tokens[i + 1])
    /\ \A i \in 1..(k - 2) : Redirecting(tokens[i]) =>
                                ~Word(tokens[i + 2]) /\ tokens[i + 2].v \in Separators

(* the k-th is what may come behind those before it,                       *)
Fitting(tokens, k) ==
    /\ k = 1 => Word(tokens[k])
    /\ Word(tokens[k]) => ExpandsWell(tokens[k])
    /\ k > 1 => (~Word(tokens[k - 1]) => Word(tokens[k]))
    /\ k > 2 => (Redirecting(tokens[k - 2]) => ~Word(tokens[k]) /\ tokens[k].v \in Separators)

(* and the parser stands there behind it.                                  *)
Place(tokens, k) ==
    IF k = 0 THEN "command"
    ELSE IF Word(tokens[k]) THEN IF k > 1 /\ Redirecting(tokens[k - 1]) THEN "end" ELSE "words"
    ELSE IF Redirecting(tokens[k]) THEN "destination" ELSE "command"

(* One token more.                                                         *)
LEMMA BeginsMore ==
    ASSUME NEW tokens, NEW k \in Nat \ {0}
    PROVE  Begins(tokens, k) <=> Begins(tokens, k - 1) /\ Fitting(tokens, k)
    <1> HIDE DEF Word, ExpandsWell
    <1>1. ASSUME Begins(tokens, k) PROVE Begins(tokens, k - 1)
        BY <1>1 DEF Begins
    <1>2. ASSUME Begins(tokens, k) PROVE Fitting(tokens, k)
        <2>1. /\ k = 1 => Word(tokens[k])
              /\ Word(tokens[k]) => ExpandsWell(tokens[k])
            BY <1>2 DEF Begins
        <2>2. k > 1 => (~Word(tokens[k - 1]) => Word(tokens[k]))
            <3>1. k > 1 => k - 1 \in 1..(k - 1) /\ (k - 1) + 1 = k
                OBVIOUS
            <3> QED
                BY <1>2, <3>1 DEF Begins
        <2>3. k > 2 => (Redirecting(tokens[k - 2]) => ~Word(tokens[k]) /\ tokens[k].v \in Separators)
            <3>1. k > 2 => k - 2 \in 1..(k - 2) /\ (k - 2) + 2 = k
                OBVIOUS
            <3> QED
                BY <1>2, <3>1 DEF Begins
        <2> QED
            BY <2>1, <2>2, <2>3 DEF Fitting
    <1>3. ASSUME Begins(tokens, k - 1), Fitting(tokens, k) PROVE Begins(tokens, k)
        <2>1. Word(tokens[1])
            BY <1>3 DEF Begins, Fitting
        <2>2. \A i \in 1..k : Word(tokens[i]) => ExpandsWell(tokens[i])
            <3>1. \A i \in 1..k : i \in 1..(k - 1) \/ i = k
                OBVIOUS
            <3> QED
                BY <1>3, <3>1 DEF Begins, Fitting
        <2>3. \A i \in 1..(k - 1) : ~Word(tokens[i]) => Word(tokens[i + 1])
            <3>1. \A i \in 1..(k - 1) : i \in 1..((k - 1) - 1) \/ (k > 1 /\ i = k - 1 /\ i + 1 = k)
                OBVIOUS
            <3> QED
                BY <1>3, <3>1 DEF Begins, Fitting
        <2>4. \A i \in 1..(k - 2) : Redirecting(tokens[i]) =>
                                ~Word(tokens[i + 2]) /\ tokens[i + 2].v \in Separators
            <3>1. \A i \in 1..(k - 2) : i \in 1..((k - 1) - 2) \/ (k > 2 /\ i = k - 2 /\ i + 2 = k)
                OBVIOUS
            <3> QED
                BY <1>3, <3>1 DEF Begins, Fitting
        <2> QED
            BY <2>1, <2>2, <2>3, <2>4 DEF Begins
    <1> QED
        BY <1>1, <1>2, <1>3

(* Where the parser stands after a token.                                  *)
Standing(s, x) ==
    IF s.at = "error" \/ (Word(x) /\ ~ExpandsWell(x)) THEN "error"
    ELSE IF Word(x)
         THEN IF s.at \in {"command", "words"} THEN "words"
              ELSE IF s.at = "destination" THEN "end" ELSE "error"
    ELSE IF s.at = "words" /\ x.v = "|" THEN "command"
    ELSE IF s.at = "words" /\ x.v \in Redirects THEN "destination"
    ELSE IF s.at \in {"words", "end"} /\ x.v \in Separators THEN "command" ELSE "error"

(* The parser takes that place.                                            *)
LEMMA ParseAt ==
    ASSUME NEW s, ParseState(s), NEW x, Token(x)
    PROVE  Parse(s, x).at = Standing(s, x)
    <1> DEFINE e == EndStage(s)
               f == EndUnit(s)
               invalid == [s EXCEPT !.at = "error"]
               word == [s EXCEPT !.words = Append(@, x), !.at = "words"]
               end == [s EXCEPT !.destination = x, !.at = "end"]
               piped == [e EXCEPT !.at = "command"]
               to == [s EXCEPT !.mode = x.v, !.at = "destination"]
               next == [f EXCEPT !.connector = x.v, !.at = "command"]
               r == Parse(s, x)
    <1>1. r = IF s.at = "error" \/ (x.k = "word" /\ ~ExpandsWell(x)) THEN invalid
              ELSE IF x.k = "word" /\ s.at \in {"command", "words"} THEN word
              ELSE IF x.k = "word" /\ s.at = "destination" THEN end
              ELSE IF x.k = "op" /\ s.at = "words" /\ x.v = "|" THEN piped
              ELSE IF x.k = "op" /\ s.at = "words" /\ x.v \in Redirects THEN to
              ELSE IF x.k = "op" /\ s.at \in {"words", "end"} /\ x.v \in Separators THEN next
              ELSE invalid
        BY Zenon DEF Parse
    <1>2. invalid.at = "error" /\ word.at = "words" /\ end.at = "end" /\ to.at = "destination"
        BY DEF ParseState
    <1>3. s.at = "words" => piped.at = "command"
        <2>1. s.at = "words" => DOMAIN e = DOMAIN s
            BY EndStageKeeps DEF ParseState
        <2> HIDE DEF e
        <2> QED
            BY <2>1 DEF ParseState
    <1>4. s.at \in {"words", "end"} => next.at = "command"
        <2>1. s.at \in {"words", "end"} => DOMAIN f = DOMAIN s
            BY EndUnitKeeps DEF ParseState
        <2> HIDE DEF f
        <2> QED
            BY <2>1 DEF ParseState
    <1>5. x.k = "word" \/ x.k = "op"
        BY DEF Token, Word
    <1>6. x.v = "|" => x.v \notin Redirects /\ x.v \notin Separators
        BY DEF Redirects, Separators
    <1>7. \A v \in Redirects : v \notin Separators
        BY DEF Redirects, Separators
    <1> HIDE DEF r, invalid, word, end, piped, to, next, Redirects, Separators, ExpandsWell
    <1>8. r.at = Standing(s, x)
        BY <1>1, <1>2, <1>3, <1>4, <1>5, <1>6, <1>7 DEF Standing, Word
    <1> QED
        BY <1>8 DEF r

(* So it has an error exactly when the tokens cannot begin a command line. *)
LEMMA ParserStands ==
    ASSUME NEW tokens, TokenList(tokens), NEW k \in 1..Len(tokens), NEW s, ParseState(s),
           IF Begins(tokens, k - 1) THEN s.at = Place(tokens, k - 1) ELSE s.at = "error"
    PROVE  LET r == Parse(s, tokens[k])
           IN  IF Begins(tokens, k) THEN r.at = Place(tokens, k) ELSE r.at = "error"
    <1> DEFINE r == Parse(s, tokens[k])
               x == tokens[k]
               y == tokens[k - 1]
               z == tokens[k - 2]
    <1>1. /\ Len(tokens) \in Nat /\ DOMAIN tokens = 1..Len(tokens) /\ k \in Nat \ {0}
          /\ k > 1 => k - 1 \in DOMAIN tokens
        BY SeqFacts DEF TokenList
    <1>2. Token(x) /\ (k > 1 => Token(y))
        BY <1>1 DEF TokenList
    <1>3. r.at = Standing(s, x)
        BY <1>2, ParseAt
    <1>4. Begins(tokens, k) <=> Begins(tokens, k - 1) /\ Fitting(tokens, k)
        BY <1>1, BeginsMore
    <1>5. Place(tokens, k) = IF Word(x) THEN IF k > 1 /\ Redirecting(y) THEN "end" ELSE "words"
                             ELSE IF Redirecting(x) THEN "destination" ELSE "command"
        BY <1>1 DEF Place
    <1>6. Place(tokens, k - 1) =
             IF k = 1 THEN "command"
             ELSE IF Word(y) THEN IF k > 2 /\ Redirecting(z) THEN "end" ELSE "words"
             ELSE IF Redirecting(y) THEN "destination" ELSE "command"
        BY <1>1 DEF Place
    <1>7. Fitting(tokens, k) <=>
             /\ k = 1 => Word(x)
             /\ Word(x) => ExpandsWell(x)
             /\ k > 1 => (~Word(y) => Word(x))
             /\ k > 2 => (Redirecting(z) => ~Word(x) /\ x.v \in Separators)
        BY DEF Fitting
    <1>8. /\ ~Word(x) => x.v = "|" \/ x.v \in Redirects \/ x.v \in Separators
          /\ Redirecting(x) <=> ~Word(x) /\ x.v \in Redirects
          /\ Redirecting(y) => ~Word(y)
          /\ x.v = "|" => x.v \notin Separators /\ x.v \notin Redirects
          /\ \A v \in Redirects : v \notin Separators
        <2>1. \A v \in Redirects : v \notin Separators
            BY DEF Redirects, Separators
        <2>2. "|" \notin Separators /\ "|" \notin Redirects
            BY DEF Redirects, Separators
        <2>3. ~Word(x) => x.v \in {"|"} \cup Redirects \cup Separators
            BY <1>2 DEF Token
        <2> QED
            BY <2>1, <2>2, <2>3 DEF Redirecting
    <1>9. Begins(tokens, k - 1) /\ k > 2 /\ Redirecting(z) => Word(y)
        <2>1. k > 2 => k - 2 \in 1..((k - 1) - 1) /\ (k - 2) + 1 = k - 1
            BY <1>1
        <2> QED
            BY <2>1 DEF Begins, Redirecting
    <1> HIDE DEF r, x, y, z, Word, Redirecting, ExpandsWell, Begins, Fitting, Place
    <1>10. IF Begins(tokens, k) THEN r.at = Place(tokens, k) ELSE r.at = "error"
        BY <1>1, <1>3, <1>4, <1>5, <1>6, <1>7, <1>8, <1>9 DEF Standing
    <1> QED
        BY <1>10 DEF r, x

-----------------------------------------------------------------------------
(* What a plan renders.                                                    *)

(* A sequence of one.                                                      *)
LEMMA Singly ==
    ASSUME NEW x
    PROVE  IsSeq(<<x>>) /\ Len(<<x>>) = 1 /\ <<x>>[1] = x
    <1>1. <<x>> \in Seq({x})
        OBVIOUS
    <1> QED
        BY <1>1, SeqIs

(* Operators are sequences of one.                                         *)
LEMMA OperatorIs ==
    ASSUME NEW i, NEW v
    PROVE  IsSeq(Op(v)) /\ IsSeq(Between(i, v)) /\ (i # 1 => Between(i, v) = Op(v))
    <1>1. IsSeq(Op(v)) /\ IsSeq(<<>>)
        BY Singly, NoElements DEF Op
    <1> QED
        BY <1>1 DEF Between

(* Nothing is neutral,                                                     *)
LEMMA Neutral ==
    ASSUME NEW s, IsSeq(s)
    PROVE  s \o <<>> = s /\ <<>> \o s = s
    <1>1. s \in Seq(ToSet(s))
        BY DEF IsSeq
    <1> QED
        BY <1>1

(* one element more is a sequence of one behind the rest,                  *)
LEMMA OneMore ==
    ASSUME NEW s, IsSeq(s), NEW x
    PROVE  Append(s, x) = s \o <<x>>
    <1> DEFINE one == <<x>>
               r == s \o one
               a == Append(s, x)
    <1>1. IsSeq(one) /\ Len(one) = 1 /\ one[1] = x
        BY Singly
    <1> HIDE DEF one
    <1>2. Joins(s, one, r)
        BY DEF Joins
    <1> HIDE DEF r
    <1>3. /\ IsSeq(r) /\ Len(r) = Len(s) + 1
          /\ \A i \in 1..Len(s) : r[i] = s[i]
          /\ \A i \in 1..Len(one) : r[Len(s) + i] = one[i]
        <2>1. /\ IsSeq(r) /\ Len(r) = Len(s) + Len(one)
              /\ \A i \in 1..Len(s) : r[i] = s[i]
              /\ \A i \in 1..Len(one) : r[Len(s) + i] = one[i]
            <3>1. IsSeq(s) /\ IsSeq(one) /\ Joins(s, one, r)
                BY <1>1, <1>2
            <3> QED
                BY <3>1, Joined
        <2> QED
            BY <1>1, <2>1
    <1>4. /\ Len(s) \in Nat /\ IsSeq(a) /\ Len(a) = Len(s) + 1
          /\ \A i \in 1..Len(s) : a[i] = s[i]
          /\ a[Len(s) + 1] = x
        BY SeqFacts
    <1> HIDE DEF a
    <1>5. \A i \in 1..Len(a) : a[i] = r[i]
        <2>1. \A i \in 1..Len(a) : i \in 1..Len(s) \/ i = Len(s) + 1
            BY <1>4
        <2>2. r[Len(s) + 1] = x
            BY <1>1, <1>3
        <2> QED
            BY <1>3, <1>4, <2>1, <2>2
    <1>6. a = r
        BY <1>3, <1>4, <1>5, SameElements
    <1> QED
        BY <1>6 DEF a, r, one

(* and a list made element by element grows at its end.                    *)
LEMMA Longer ==
    ASSUME NEW f, IsSeq(f), NEW g, IsSeq(g), NEW n, n = Len(f), Len(g) = n + 1,
           \A i \in 1..n : g[i] = f[i]
    PROVE  g = Append(f, g[n + 1])
    <1> DEFINE a == Append(f, g[n + 1])
    <1>1. /\ n \in Nat /\ IsSeq(a) /\ Len(a) = n + 1
          /\ \A i \in 1..n : a[i] = f[i]
          /\ a[n + 1] = g[n + 1]
        BY SeqFacts
    <1> HIDE DEF a
    <1>2. \A i \in 1..(n + 1) : i \in 1..n \/ i = n + 1
        BY <1>1
    <1>3. \A i \in 1..Len(g) : g[i] = a[i]
        BY <1>1, <1>2
    <1>4. g = a
        BY <1>1, <1>3, SameElements
    <1> QED
        BY <1>4 DEF a

(* Two ways to put three sequences together,                               *)
LEMMA Regrouped ==
    ASSUME NEW a, IsSeq(a), NEW b, IsSeq(b), NEW c, IsSeq(c), NEW ab, Joins(a, b, ab),
           NEW bc, Joins(b, c, bc), NEW u
    PROVE  /\ IsSeq(ab) /\ IsSeq(bc)
           /\ Joins(ab, c, u) <=> Joins(a, bc, u)
    <1>1. IsSeq(a \o b) /\ IsSeq(b \o c)
        BY Concatenation
    <1>2. (a \o b) \o c = a \o (b \o c)
        BY Associative
    <1> QED
        BY <1>1, <1>2, Zenon DEF Joins

(* and four.                                                               *)
LEMMA Four ==
    ASSUME NEW p, IsSeq(p), NEW t, IsSeq(t), NEW l, IsSeq(l), NEW w, IsSeq(w),
           NEW tl, Joins(t, l, tl), NEW tlw, Joins(tl, w, tlw),
           NEW pt, Joins(p, t, pt), NEW ptl, Joins(pt, l, ptl), NEW q, Joins(ptl, w, q)
    PROVE  Joins(p, tlw, q)
    <1>1. IsSeq(tl) /\ Joins(p, tl, ptl)
        BY Regrouped
    <1> QED
        BY <1>1, Regrouped

(* A stage more renders behind the rest.                                   *)
LEMMA StageMore ==
    ASSUME NEW stages, IsSeq(stages), \A i \in DOMAIN stages : IsSeq(stages[i]), NEW w, IsSeq(w)
    PROVE  /\ IsSeq(StageTokens(stages))
           /\ StageTokens(Append(stages, w))
                = (StageTokens(stages) \o Between(Len(stages) + 1, "|")) \o w
    <1> DEFINE a == Append(stages, w)
               f == [i \in DOMAIN stages |-> Between(i, "|") \o stages[i]]
               g == [i \in DOMAIN a |-> Between(i, "|") \o a[i]]
               n == Len(stages)
               l == Between(n + 1, "|")
               lw == l \o w
    <1>1. /\ n \in Nat /\ DOMAIN stages = 1..n
          /\ IsSeq(a) /\ Len(a) = n + 1 /\ a[n + 1] = w /\ \A i \in 1..n : a[i] = stages[i]
        BY SeqFacts
    <1>2. DOMAIN a = 1..(n + 1)
        <2> HIDE DEF a, n
        <2> QED
            BY <1>1, SeqFacts
    <1>3. IsSeq(l) /\ IsSeq(lw)
        BY OperatorIs, Concatenation
    <1>4. \A i \in DOMAIN f : IsSeq(f[i])
        <2>1. ASSUME NEW i \in DOMAIN stages PROVE IsSeq(Between(i, "|") \o stages[i])
            BY OperatorIs, Concatenation
        <2> QED
            BY <2>1
    <1> HIDE DEF a
    <1>5. \A i \in 1..n : g[i] = f[i]
        BY <1>1, <1>2
    <1>6. g[n + 1] = lw
        BY <1>1, <1>2
    <1>7. f = [i \in 1..n |-> f[i]] /\ g = [i \in 1..(n + 1) |-> g[i]]
        BY <1>1, <1>2
    <1>8. StageTokens(stages) = FlattenSeq(f) /\ StageTokens(a) = FlattenSeq(g)
        BY DEF StageTokens
    <1> HIDE DEF f, g, lw, n, l
    <1>9. IsSeq(f) /\ Len(f) = n /\ IsSeq(g) /\ Len(g) = n + 1
        BY <1>1, <1>7, Listing
    <1>10. g = Append(f, lw)
        <2>1. g = Append(f, g[n + 1])
            BY <1>5, <1>9, Longer
        <2> QED
            BY <1>6, <2>1, Zenon
    <1>11. IsSeq(FlattenSeq(f)) /\ FlattenSeq(g) = FlattenSeq(f) \o lw
        BY <1>3, <1>4, <1>10, <1>9, FlattenIs, FlattenMore
    <1>12. FlattenSeq(f) \o (l \o w) = (FlattenSeq(f) \o l) \o w
        <2> DEFINE t == FlattenSeq(f)
        <2>1. IsSeq(t)
            BY <1>11
        <2> HIDE DEF t
        <2>2. (t \o l) \o w = t \o (l \o w)
            <3>1. IsSeq(t) /\ IsSeq(l) /\ IsSeq(w)
                BY <1>3, <2>1
            <3> QED
                BY <3>1, Associative
        <2> QED
            BY <2>2, Zenon DEF t
    <1>13. /\ IsSeq(StageTokens(stages))
           /\ StageTokens(a) = (StageTokens(stages) \o l) \o w
        BY <1>8, <1>11, <1>12, Zenon DEF lw
    <1> QED
        BY <1>13, Zenon DEF a, l, n

(* What a unit renders is a sequence,                                      *)
LEMMA UnitIs ==
    ASSUME NEW u, GoodUnit(u)
    PROVE  /\ IsSeq(StageTokens(u.stages)) /\ IsSeq(Redirection(u.mode, u.destination))
           /\ IsSeq(UnitTokens(u))
    <1>1. IsSeq(StageTokens(u.stages))
        <2>1. \A i \in DOMAIN u.stages : IsSeq(u.stages[i])
            BY DEF GoodUnit, Stage
        <2>2. IsSeq(u.stages) /\ IsSeq(<<>>)
            BY NoElements DEF GoodUnit
        <2> QED
            BY <2>1, <2>2, StageMore
    <1>2. IsSeq(Redirection(u.mode, u.destination))
        <2> DEFINE one == <<u.destination>>
                   op == Op(u.mode)
                   r == Redirection(u.mode, u.destination)
        <2>1. IsSeq(one) /\ IsSeq(op)
            BY Singly, OperatorIs
        <2>2. IsSeq(op \o one)
            <3> HIDE DEF one, op
            <3> QED
                BY <2>1, Concatenation
        <2>3. r = <<>> \/ r = op \o one
            BY DEF Redirection
        <2> HIDE DEF one, op, r
        <2>4. IsSeq(r)
            BY <2>2, <2>3, NoElements
        <2> QED
            BY <2>4 DEF r
    <1>3. IsSeq(UnitTokens(u))
        <2> DEFINE t == StageTokens(u.stages)
                   d == Redirection(u.mode, u.destination)
        <2>1. IsSeq(t) /\ IsSeq(d)
            BY <1>1, <1>2
        <2>2. UnitTokens(u) = t \o d
            BY Zenon DEF UnitTokens
        <2> HIDE DEF t, d
        <2>3. IsSeq(t \o d)
            BY <2>1, Concatenation
        <2> QED
            BY <2>2, <2>3, Zenon
    <1> QED
        BY <1>1, <1>2, <1>3

(* so is what units render,                                                *)
LEMMA RenderedIs ==
    ASSUME NEW us, GoodUnits(us)
    PROVE  IsSeq(Rendered(us))
    <1> DEFINE f == [i \in DOMAIN us |-> Between(i, us[i].connector) \o UnitTokens(us[i])]
    <1>1. \A i \in DOMAIN f : IsSeq(f[i])
        <2>1. ASSUME NEW i \in DOMAIN us
              PROVE  IsSeq(Between(i, us[i].connector) \o UnitTokens(us[i]))
            <3>1. GoodUnit(us[i])
                BY DEF GoodUnits
            <3>2. IsSeq(UnitTokens(us[i])) /\ IsSeq(Between(i, us[i].connector))
                BY <3>1, OperatorIs, UnitIs
            <3> QED
                BY <3>2, Concatenation
        <2> QED
            BY <2>1
    <1>2. IsSeq(f)
        BY ListingOver DEF GoodUnits
    <1>3. Rendered(us) = FlattenSeq(f)
        BY DEF Rendered
    <1> HIDE DEF f
    <1>4. IsSeq(FlattenSeq(f))
        BY <1>1, <1>2, FlattenIs
    <1> QED
        BY <1>3, <1>4, Zenon

(* and a unit more renders behind the rest.                                *)
LEMMA UnitMore ==
    ASSUME NEW us, GoodUnits(us), NEW u, GoodUnit(u)
    PROVE  Rendered(Append(us, u))
             = Rendered(us) \o (Between(Len(us) + 1, u.connector) \o UnitTokens(u))
    <1> DEFINE a == Append(us, u)
               f == [i \in DOMAIN us |-> Between(i, us[i].connector) \o UnitTokens(us[i])]
               g == [i \in DOMAIN a |-> Between(i, a[i].connector) \o UnitTokens(a[i])]
               n == Len(us)
               w == Between(n + 1, u.connector) \o UnitTokens(u)
    <1>1. /\ n \in Nat /\ DOMAIN us = 1..n /\ IsSeq(us)
          /\ IsSeq(a) /\ Len(a) = n + 1 /\ a[n + 1] = u /\ \A i \in 1..n : a[i] = us[i]
        BY SeqFacts DEF GoodUnits
    <1>2. DOMAIN a = 1..(n + 1)
        <2> HIDE DEF a, n
        <2> QED
            BY <1>1, SeqFacts
    <1>3. IsSeq(w)
        BY OperatorIs, UnitIs, Concatenation
    <1> HIDE DEF a
    <1>5. \A i \in 1..n : g[i] = f[i]
        <2> SUFFICES ASSUME NEW i \in 1..n PROVE g[i] = f[i]
            OBVIOUS
        <2>1. i \in DOMAIN us /\ i \in DOMAIN a /\ a[i] = us[i]
            <3> HIDE DEF f, g, w
            <3> QED
                BY <1>1, <1>2
        <2>2. f[i] = Between(i, us[i].connector) \o UnitTokens(us[i])
            BY <2>1, Zenon
        <2>3. g[i] = Between(i, a[i].connector) \o UnitTokens(a[i])
            BY <2>1, Zenon
        <2> HIDE DEF f, g, w, n
        <2> QED
            BY <2>1, <2>2, <2>3
    <1>6. g[n + 1] = w
        BY <1>1, <1>2
    <1>7. f = [i \in 1..n |-> f[i]] /\ g = [i \in 1..(n + 1) |-> g[i]]
        BY <1>1, <1>2
    <1>8. Rendered(us) = FlattenSeq(f) /\ Rendered(a) = FlattenSeq(g)
        BY DEF Rendered
    <1> HIDE DEF f, g, n, w
    <1>9. IsSeq(f) /\ Len(f) = n /\ IsSeq(g) /\ Len(g) = n + 1
        BY <1>1, <1>7, Listing
    <1>10. g = Append(f, w)
        <2>1. g = Append(f, g[n + 1])
            BY <1>5, <1>9, Longer
        <2> QED
            BY <1>6, <2>1, Zenon
    <1>11. FlattenSeq(g) = FlattenSeq(f) \o w
        BY <1>3, <1>9, <1>10, FlattenMore
    <1> QED
        BY <1>8, <1>11, Zenon DEF a, w, n

(* What the parser has seen when it stands at s.                           *)
Joint(s) == Between(Len(s.units) + 1, s.connector)
Link(s) == Between(Len(s.stages) + 1, "|")
Sent(s) ==
    IF s.mode = "none" THEN <<>>
    ELSE Op(s.mode) \o (IF s.at = "end" THEN <<s.destination>> ELSE <<>>)
Together(b, a, t, l, w, d) == ((((b \o a) \o t) \o l) \o w) \o d
Said(s) ==
    Together(Rendered(s.units), Joint(s), StageTokens(s.stages), Link(s), s.words, Sent(s))

Directed(s) == s.mode # "none" <=> s.at \in {"destination", "end"}

(* Its parts are sequences.                                                *)
LEMMA SaidParts ==
    ASSUME NEW s, ParseState(s)
    PROVE  /\ IsSeq(Rendered(s.units)) /\ IsSeq(Joint(s)) /\ IsSeq(StageTokens(s.stages))
           /\ IsSeq(Link(s)) /\ IsSeq(s.words) /\ IsSeq(Sent(s))
    <1>1. IsSeq(Rendered(s.units))
        BY RenderedIs DEF ParseState
    <1>2. IsSeq(StageTokens(s.stages))
        <2>1. IsSeq(s.stages) /\ \A i \in DOMAIN s.stages : IsSeq(s.stages[i])
            BY DEF ParseState, Stage
        <2>2. IsSeq(<<>>)
            BY NoElements
        <2> QED
            BY <2>1, <2>2, StageMore
    <1>3. IsSeq(Sent(s))
        <2> DEFINE op == Op(s.mode)
                   to == IF s.at = "end" THEN <<s.destination>> ELSE <<>>
                   r == Sent(s)
        <2>1. IsSeq(op) /\ IsSeq(to) /\ IsSeq(<<>>)
            BY OperatorIs, Singly, NoElements
        <2>2. r = <<>> \/ r = op \o to
            BY DEF Sent
        <2> HIDE DEF op, to, r
        <2>3. IsSeq(op \o to)
            BY <2>1, Concatenation
        <2>4. IsSeq(r)
            BY <2>1, <2>2, <2>3
        <2> QED
            BY <2>4 DEF r
    <1> QED
        BY <1>1, <1>2, <1>3, OperatorIs DEF ParseState, Joint, Link

(* What is added at the end: a word, a destination, a redirection, what    *)
(* ends a stage and what ends a unit.                                      *)
Grows(b, a, t, l, w, d, one) ==
    /\ Together(b, a, t, l, w \o one, <<>>) = Together(b, a, t, l, w, <<>>) \o one
    /\ Together(b, a, t, l, w, d \o one) = Together(b, a, t, l, w, d) \o one
    /\ Together(b, a, t, l, w, one) = Together(b, a, t, l, w, <<>>) \o one
    /\ Together(b, a, (t \o l) \o w, one, <<>>, <<>>) = Together(b, a, t, l, w, <<>>) \o one
    /\ b \o (a \o (((t \o l) \o w) \o d)) = Together(b, a, t, l, w, d)
    /\ Together(b, one, <<>>, <<>>, <<>>, <<>>) = b \o one

(* It grows so, whatever the parts are.                                    *)
LEMMA Additions ==
    ASSUME NEW b, IsSeq(b), NEW a, IsSeq(a), NEW t, IsSeq(t), NEW l, IsSeq(l),
           NEW w, IsSeq(w), NEW d, IsSeq(d), NEW one, IsSeq(one)
    PROVE  Grows(b, a, t, l, w, d, one)
    <1> DEFINE said == Together(b, a, t, l, w, <<>>)
               p == b \o a
               pt == p \o t
               ptl == pt \o l
               q == ptl \o w
               wo == w \o one
               do == d \o one
               qo == q \o one
               qd == q \o d
               qdo == qd \o one
               tl == t \o l
               tlw == tl \o w
               v == tlw \o d
               y == a \o v
    <1>0. /\ Joins(b, a, p) /\ Joins(p, t, pt) /\ Joins(pt, l, ptl) /\ Joins(ptl, w, q)
          /\ Joins(q, d, qd) /\ Joins(t, l, tl) /\ Joins(tl, w, tlw) /\ Joins(tlw, d, v)
          /\ Joins(a, v, y)
        BY Zenon DEF Joins
    <1>1. IsSeq(p)
        BY Concatenation
    <1>2. IsSeq(pt)
        <2> HIDE DEF p
        <2> QED
            BY <1>1, Concatenation
    <1>3. IsSeq(ptl)
        <2> HIDE DEF pt
        <2> QED
            BY <1>2, Concatenation
    <1>4. IsSeq(q)
        <2> HIDE DEF ptl
        <2> QED
            BY <1>3, Concatenation
    <1>5. IsSeq(qo) /\ IsSeq(qd)
        <2> HIDE DEF q
        <2> QED
            BY <1>4, Concatenation
    <1>6. IsSeq(qdo)
        <2> HIDE DEF qd
        <2> QED
            BY <1>5, Concatenation
    <1>7. q \o <<>> = q /\ qo \o <<>> = qo /\ qdo \o <<>> = qdo
        <2> HIDE DEF q, qo, qdo
        <2> QED
            BY <1>4, <1>5, <1>6, Neutral
    <1>8. said = q
        BY <1>7, Zenon DEF Together
    <1>9. ptl \o wo = qo
        <2>1. Joins(ptl, w, q) /\ Joins(w, one, wo) /\ Joins(q, one, qo)
            BY Zenon DEF Joins
        <2> HIDE DEF q, wo, qo, ptl
        <2>2. Joins(ptl, wo, qo)
            BY <1>3, <2>1, Regrouped
        <2> QED
            BY <2>2, Zenon DEF Joins
    <1>10. Together(b, a, t, l, wo, <<>>) = said \o one
        BY <1>7, <1>8, <1>9, Zenon DEF Together
    <1>11. q \o do = qdo
        <2>1. Joins(q, d, qd) /\ Joins(d, one, do) /\ Joins(qd, one, qdo)
            BY Zenon DEF Joins
        <2> HIDE DEF q, qd, do, qdo
        <2>2. Joins(q, do, qdo)
            BY <1>4, <2>1, Regrouped
        <2> QED
            BY <2>2, Zenon DEF Joins
    <1>12. Together(b, a, t, l, w, do) = Together(b, a, t, l, w, d) \o one
        BY <1>11, Zenon DEF Together
    <1>13. Together(b, a, t, l, w, one) = said \o one
        BY <1>8, Zenon DEF Together
    <1>14. Joins(p, tlw, q)
        <2> HIDE DEF p, pt, ptl, q, tl, tlw
        <2> QED
            BY <1>0, <1>1, Four
    <1>15. Together(b, a, tlw, one, <<>>, <<>>) = said \o one
        BY <1>7, <1>8, <1>14, Zenon DEF Together, Joins
    <1>16. Joins(b, y, qd)
        <2> HIDE DEF p, pt, ptl, q, tl, tlw, v, y, qd
        <2>1. IsSeq(tl)
            BY <1>0, Joined
        <2>2. IsSeq(tlw)
            BY <1>0, <2>1, Joined
        <2>3. IsSeq(v) /\ Joins(p, v, qd)
            BY <1>0, <1>1, <1>14, <2>2, Regrouped
        <2> QED
            BY <1>0, <2>3, Regrouped
    <1>17. b \o y = Together(b, a, t, l, w, d)
        BY <1>16, Zenon DEF Together, Joins
    <1>18. Together(b, one, <<>>, <<>>, <<>>, <<>>) = b \o one
        <2> DEFINE bo == b \o one
        <2>1. IsSeq(bo)
            BY Concatenation
        <2> HIDE DEF bo
        <2>2. bo \o <<>> = bo
            BY <2>1, Neutral
        <2>3. (((bo \o <<>>) \o <<>>) \o <<>>) \o <<>> = bo
            BY <2>2, Zenon
        <2> QED
            BY <2>3, Zenon DEF Together, bo
    <1> QED
        BY <1>10, <1>12, <1>13, <1>15, <1>17, <1>18, Zenon DEF Grows, wo, do, y, v, tlw, tl

(* A unit that ends renders what the parser has seen of it.                *)
LEMMA UnitSays ==
    ASSUME NEW s, ParseState(s), Directed(s), s.at \in {"words", "end"}
    PROVE  Rendered(EndUnit(s).units) = Said(s)
    <1> DEFINE b == Rendered(s.units)
               a == Joint(s)
               t == StageTokens(s.stages)
               l == Link(s)
               w == s.words
               d == Sent(s)
               f == EndStage(s)
               u == [connector |-> s.connector, stages |-> f.stages,
                     mode |-> s.mode, destination |-> s.destination]
    <1>1. IsSeq(b) /\ IsSeq(a) /\ IsSeq(t) /\ IsSeq(l) /\ IsSeq(w) /\ IsSeq(d)
        BY SaidParts
    <1>2. /\ DOMAIN f = DOMAIN s /\ f.units = s.units /\ f.stages = Append(s.stages, w)
          /\ IsSeq(f.stages) /\ f.stages # <<>> /\ \A i \in DOMAIN f.stages : Stage(f.stages[i])
        <2>1. f.stages = Append(s.stages, w)
            BY DEF EndStage, ParseState
        <2> QED
            BY <2>1, EndStageKeeps DEF ParseState
    <1>3. EndUnit(s).units = Append(s.units, u)
        <2>1. EndUnit(s) = [f EXCEPT !.units = Append(@, u), !.stages = <<>>, !.mode = "none",
                        !.destination = [k |-> "word", parts |-> <<>>]]
            BY Zenon DEF EndUnit
        <2> HIDE DEF f, u
        <2>2. "units" \in DOMAIN f
            BY <1>2 DEF ParseState
        <2> QED
            BY <1>2, <2>1, <2>2
    <1>4. StageTokens(u.stages) = (t \o l) \o w
        <2>1. IsSeq(s.stages) /\ \A i \in DOMAIN s.stages : IsSeq(s.stages[i])
            BY DEF ParseState, Stage
        <2>2. StageTokens(Append(s.stages, w)) = (t \o l) \o w
            BY <1>1, <2>1, StageMore, Zenon DEF Link
        <2>3. u.stages = Append(s.stages, w)
            BY <1>2
        <2> QED
            BY <2>2, <2>3, Zenon
    <1>5. Redirection(u.mode, u.destination) = d
        <2>1. Redirection(s.mode, s.destination) = d
            BY DEF Redirection, Sent, Directed
        <2> QED
            BY <2>1
    <1>6. GoodUnit(u)
        <2> HIDE DEF f
        <2> QED
            BY <1>2 DEF GoodUnit
    <1>7. GoodUnits(s.units) /\ u.connector = s.connector
        BY DEF ParseState
    <1> HIDE DEF u, f
    <1>8. UnitTokens(u) = ((t \o l) \o w) \o d
        BY <1>4, <1>5, Zenon DEF UnitTokens
    <1>9. Rendered(Append(s.units, u)) = b \o (Between(Len(s.units) + 1, u.connector) \o UnitTokens(u))
        BY <1>6, <1>7, UnitMore, Zenon
    <1>10. Rendered(EndUnit(s).units) = b \o (a \o (((t \o l) \o w) \o d))
        BY <1>3, <1>7, <1>8, <1>9, Zenon DEF Joint
    <1>11. Said(s) = Together(b, a, t, l, w, d)
        BY Zenon DEF Said
    <1> HIDE DEF b, a, t, l, w, d
    <1>12. b \o (a \o (((t \o l) \o w) \o d)) = Together(b, a, t, l, w, d)
        <2>1. IsSeq(<<>>)
            BY NoElements
        <2>2. Grows(b, a, t, l, w, d, <<>>)
            BY <1>1, <2>1, Additions
        <2> QED
            BY <2>2, Zenon DEF Grows
    <1> QED
        BY <1>10, <1>11, <1>12, Zenon

(* What an operator does to the parser.                                    *)
LEMMA ParseOp ==
    ASSUME NEW s, s.at # "error", NEW x, Token(x), ~Word(x)
    PROVE  /\ s.at = "words" /\ x.v = "|" => Parse(s, x) = [EndStage(s) EXCEPT !.at = "command"]
           /\ s.at = "words" /\ x.v \in Redirects =>
                 Parse(s, x) = [s EXCEPT !.mode = x.v, !.at = "destination"]
           /\ s.at \in {"words", "end"} /\ x.v \in Separators =>
                 Parse(s, x) = [EndUnit(s) EXCEPT !.connector = x.v, !.at = "command"]
    <1> DEFINE stop == [EndStage(s) EXCEPT !.at = "command"]
               to == [s EXCEPT !.mode = x.v, !.at = "destination"]
               next == [EndUnit(s) EXCEPT !.connector = x.v, !.at = "command"]
    <1>1. x.k = "op" /\ x.k # "word"
        BY DEF Token, Word
    <1>2. x.v = "|" => x.v \notin Redirects /\ x.v \notin Separators
        BY DEF Redirects, Separators
    <1>3. \A v \in Redirects : v \notin Separators
        BY DEF Redirects, Separators
    <1>4. Parse(s, x) = IF s.at = "words" /\ x.v = "|" THEN stop
                        ELSE IF s.at = "words" /\ x.v \in Redirects THEN to
                        ELSE IF s.at \in {"words", "end"} /\ x.v \in Separators THEN next
                        ELSE [s EXCEPT !.at = "error"]
        BY <1>1 DEF Parse
    <1> HIDE DEF stop, to, next
    <1>5. /\ s.at = "words" /\ x.v = "|" => Parse(s, x) = stop
          /\ s.at = "words" /\ x.v \in Redirects => Parse(s, x) = to
          /\ s.at \in {"words", "end"} /\ x.v \in Separators => Parse(s, x) = next
        BY <1>2, <1>3, <1>4
    <1> QED
        BY <1>5, Zenon DEF stop, to, next

(* One token more: the parser has seen that as well.                       *)
LEMMA ParserSays ==
    ASSUME NEW s, ParseState(s), Directed(s), NEW x, Token(x), Parse(s, x).at # "error"
    PROVE  Said(Parse(s, x)) = Said(s) \o <<x>> /\ Directed(Parse(s, x))
    <1> DEFINE b == Rendered(s.units)
               a == Joint(s)
               t == StageTokens(s.stages)
               l == Link(s)
               w == s.words
               d == Sent(s)
               one == <<x>>
               r == Parse(s, x)
               R == Rendered(r.units)
               T == StageTokens(r.stages)
    <1>1. IsSeq(b) /\ IsSeq(a) /\ IsSeq(t) /\ IsSeq(l) /\ IsSeq(w) /\ IsSeq(d)
        BY SaidParts
    <1>2. IsSeq(one)
        BY Singly
    <1>3. Said(s) = Together(b, a, t, l, w, d)
        BY Zenon DEF Said
    <1>4. Said(r) = Together(R, Joint(r), T, Link(r), r.words, Sent(r))
        BY Zenon DEF Said
    <1>5. /\ Together(b, a, t, l, w \o one, <<>>) = Together(b, a, t, l, w, <<>>) \o one
          /\ Together(b, a, t, l, w, d \o one) = Together(b, a, t, l, w, d) \o one
          /\ Together(b, a, t, l, w, one) = Together(b, a, t, l, w, <<>>) \o one
          /\ Together(b, a, (t \o l) \o w, one, <<>>, <<>>) = Together(b, a, t, l, w, <<>>) \o one
        <2> HIDE DEF b, a, t, l, w, d, one
        <2> QED
            <3>1. Grows(b, a, t, l, w, d, one)
                BY <1>1, <1>2, Additions
            <3> QED
                BY <3>1, Zenon DEF Grows
    <1>6. ~Word(x) => one = Op(x.v)
        BY DEF Token, Op
    <1>7. r.at = Standing(s, x) /\ r.at # "error"
        BY ParseAt
    <1>8. s.at # "error" /\ (Word(x) => ExpandsWell(x))
        BY <1>7 DEF Standing
    <1>9. s.at \in {"command", "words"} => s.mode = "none" /\ d = <<>>
        BY DEF Directed, Sent
    <1>10. CASE Word(x) /\ s.at \in {"command", "words"}
        <2>1. r = [s EXCEPT !.words = Append(@, x), !.at = "words"]
            BY <1>8, <1>10 DEF Parse, Word
        <2>2. /\ r.units = s.units /\ r.connector = s.connector /\ r.stages = s.stages
              /\ r.words = Append(w, x) /\ r.mode = s.mode /\ r.at = "words"
            BY <2>1 DEF ParseState
        <2> HIDE DEF r
        <2>3. Directed(r) /\ Sent(r) = <<>>
            BY <1>9, <1>10, <2>2 DEF Directed, Sent
        <2>4. R = b /\ Joint(r) = a /\ T = t /\ Link(r) = l
            BY <2>2, Zenon DEF Joint, Link
        <2>5. r.words = w \o one
            BY <1>1, <2>2, OneMore
        <2> HIDE DEF b, a, t, l, w, d, one, R, T
        <2>6. Said(r) = Together(b, a, t, l, w \o one, <<>>)
            BY <1>4, <2>3, <2>4, <2>5, Zenon
        <2>7. Said(r) = Said(s) \o one
            BY <1>3, <1>5, <1>9, <1>10, <2>6, Zenon
        <2> QED
            BY <2>3, <2>7 DEF r, one
    <1>11. CASE Word(x) /\ s.at = "destination"
        <2>1. r = [s EXCEPT !.destination = x, !.at = "end"]
            BY <1>8, <1>11 DEF Parse, Word
        <2>2. /\ r.units = s.units /\ r.connector = s.connector /\ r.stages = s.stages
              /\ r.words = w /\ r.mode = s.mode /\ r.at = "end" /\ r.destination = x
            BY <2>1 DEF ParseState
        <2> HIDE DEF r
        <2>3. s.mode # "none" /\ Directed(r)
            BY <1>11, <2>2 DEF Directed
        <2>4. R = b /\ Joint(r) = a /\ T = t /\ Link(r) = l
            BY <2>2, Zenon DEF Joint, Link
        <2>5. Sent(r) = d \o one
            <3> DEFINE op == Op(s.mode)
            <3>1. d = op \o <<>> /\ Sent(r) = op \o one
                BY <1>11, <2>2, <2>3 DEF Sent
            <3>2. IsSeq(op)
                BY OperatorIs
            <3> HIDE DEF op
            <3>3. op \o <<>> = op
                BY <3>2, Neutral
            <3> QED
                BY <3>1, <3>3, Zenon
        <2> HIDE DEF b, a, t, l, w, d, one, R, T
        <2>6. Said(r) = Together(b, a, t, l, w, d \o one)
            BY <1>4, <2>2, <2>4, <2>5, Zenon
        <2>7. Said(r) = Said(s) \o one
            BY <1>3, <1>5, <2>6, Zenon
        <2> QED
            BY <2>3, <2>7 DEF r, one
    <1>12. CASE ~Word(x) /\ s.at = "words" /\ x.v \in Redirects
        <2>1. r = [s EXCEPT !.mode = x.v, !.at = "destination"]
            BY <1>8, <1>12, ParseOp
        <2>2. /\ r.units = s.units /\ r.connector = s.connector /\ r.stages = s.stages
              /\ r.words = w /\ r.mode = x.v /\ r.at = "destination"
            BY <2>1 DEF ParseState
        <2> HIDE DEF r
        <2>3. r.mode # "none" /\ Directed(r)
            BY <1>12, <2>2 DEF Directed, Redirects
        <2>4. R = b /\ Joint(r) = a /\ T = t /\ Link(r) = l
            BY <2>2, Zenon DEF Joint, Link
        <2>5. Sent(r) = one
            <3>1. Sent(r) = one \o <<>>
                BY <1>6, <1>12, <2>2, <2>3 DEF Sent
            <3> HIDE DEF one
            <3>2. one \o <<>> = one
                BY <1>2, Neutral
            <3> QED
                BY <3>1, <3>2, Zenon
        <2> HIDE DEF b, a, t, l, w, d, one, R, T
        <2>6. Said(r) = Together(b, a, t, l, w, one)
            BY <1>4, <2>2, <2>4, <2>5, Zenon
        <2>7. d = <<>>
            BY <1>9, <1>12
        <2>8. Said(r) = Said(s) \o one
            BY <1>3, <1>5, <2>6, <2>7, Zenon
        <2> QED
            BY <2>3, <2>8 DEF r, one
    <1>13. CASE ~Word(x) /\ s.at = "words" /\ x.v = "|"
        <2> DEFINE f == EndStage(s)
        <2>1. r = [f EXCEPT !.at = "command"]
            BY <1>8, <1>13, ParseOp
        <2>2. /\ DOMAIN f = DOMAIN s /\ f.units = s.units /\ f.stages = Append(s.stages, w)
              /\ f.connector = s.connector /\ f.mode = s.mode /\ f.words = <<>>
            BY DEF EndStage, ParseState
        <2> HIDE DEF f
        <2>3. /\ r.units = s.units /\ r.connector = s.connector
              /\ r.stages = Append(s.stages, w)
              /\ r.words = <<>> /\ r.mode = s.mode /\ r.at = "command"
            BY <2>1, <2>2 DEF ParseState
        <2> HIDE DEF r
        <2>4. Directed(r) /\ Sent(r) = <<>>
            BY <1>9, <1>13, <2>3 DEF Directed, Sent
        <2>5. R = b /\ Joint(r) = a
            BY <2>3, Zenon DEF Joint
        <2>6. T = (t \o l) \o w
            <3>1. IsSeq(s.stages) /\ \A i \in DOMAIN s.stages : IsSeq(s.stages[i])
                BY DEF ParseState, Stage
            <3>2. StageTokens(Append(s.stages, w)) = (t \o l) \o w
                BY <1>1, <3>1, StageMore, Zenon DEF Link
            <3> QED
                BY <2>3, <3>2, Zenon
        <2>7. Link(r) = one
            <3>1. Len(s.stages) \in Nat /\ Len(r.stages) = Len(s.stages) + 1
                BY <2>3, SeqFacts DEF ParseState
            <3>2. Len(r.stages) + 1 # 1
                BY <3>1
            <3> QED
                BY <1>6, <1>13, <3>2 DEF Link, Between
        <2> HIDE DEF b, a, t, l, w, d, one, R, T
        <2>8. Said(r) = Together(b, a, (t \o l) \o w, one, <<>>, <<>>)
            BY <1>4, <2>3, <2>4, <2>5, <2>6, <2>7, Zenon
        <2>9. d = <<>>
            BY <1>9, <1>13
        <2>10. Said(r) = Said(s) \o one
            BY <1>3, <1>5, <2>8, <2>9, Zenon
        <2> QED
            BY <2>4, <2>10 DEF r, one
    <1>14. CASE ~Word(x) /\ s.at \in {"words", "end"} /\ x.v \in Separators
        <2> DEFINE e == EndUnit(s)
        <2>1. r = [e EXCEPT !.connector = x.v, !.at = "command"]
            BY <1>8, <1>14, ParseOp
        <2>2. Rendered(e.units) = Said(s)
            BY <1>14, UnitSays
        <2>3. /\ DOMAIN e = DOMAIN s /\ e.words = <<>> /\ e.stages = <<>>
              /\ IsSeq(e.units) /\ e.units # <<>> /\ GoodUnits(e.units)
            BY <1>14, EndUnitKeeps DEF ParseState, GoodUnits
        <2>4. e.mode = "none"
            BY DEF EndUnit, EndStage, ParseState
        <2> HIDE DEF e
        <2>5. /\ r.units = e.units /\ r.connector = x.v /\ r.stages = <<>>
              /\ r.words = <<>> /\ r.mode = "none" /\ r.at = "command"
            BY <2>1, <2>3, <2>4 DEF ParseState
        <2> HIDE DEF r
        <2>6. Directed(r) /\ Sent(r) = <<>>
            BY <2>5 DEF Directed, Sent
        <2>7. R = Said(s) /\ IsSeq(Said(s))
            BY <2>2, <2>3, <2>5, RenderedIs
        <2>8. Joint(r) = one
            <3>1. Len(e.units) \in Nat /\ Len(e.units) # 0
                BY <2>3, SeqFacts
            <3>2. Len(r.units) + 1 # 1
                BY <2>5, <3>1
            <3> QED
                BY <1>6, <1>14, <2>5, <3>2 DEF Joint, Between
        <2>9. T = <<>> /\ Link(r) = <<>>
            BY <2>5, FlattenNone, NoElements DEF StageTokens, Link, Between
        <2> HIDE DEF b, a, t, l, w, d, one, R, T
        <2>10. Said(r) = Together(Said(s), one, <<>>, <<>>, <<>>, <<>>)
            BY <1>4, <2>5, <2>6, <2>7, <2>8, <2>9, Zenon
        <2>11. Together(Said(s), one, <<>>, <<>>, <<>>, <<>>) = Said(s) \o one
            <3> DEFINE said == Said(s)
            <3>1. IsSeq(said)
                BY <2>7
            <3> HIDE DEF said
            <3>2. Grows(said, a, t, l, w, d, one)
                BY <1>1, <1>2, <3>1, Additions
            <3> QED
                BY <3>2, Zenon DEF Grows, said
        <2> QED
            BY <2>6, <2>10, <2>11, Zenon DEF r, one
    <1>15. \/ Word(x) /\ s.at \in {"command", "words", "destination"}
           \/ ~Word(x) /\ s.at = "words" /\ (x.v = "|" \/ x.v \in Redirects)
           \/ ~Word(x) /\ s.at \in {"words", "end"} /\ x.v \in Separators
        BY <1>7 DEF Standing
    <1> QED
        BY <1>10, <1>11, <1>12, <1>13, <1>14, <1>15

(* The parser at s has read the first k tokens.                            *)
Follows(tokens, k, s) ==
    /\ ParseState(s)
    /\ IF Begins(tokens, k)
       THEN /\ s.at = Place(tokens, k) /\ Directed(s)
            /\ IsSeq(Said(s)) /\ Len(Said(s)) = k
            /\ \A i \in 1..k : Said(s)[i] = tokens[i]
       ELSE s.at = "error"

(* At first it has read none,                                              *)
LEMMA FollowsNone ==
    ASSUME NEW tokens, NEW s,
           DOMAIN s = {"units", "stages", "words", "connector", "mode", "destination", "at"},
           s.units = <<>>, s.stages = <<>>, s.words = <<>>, s.at = "command", s.mode = "none"
    PROVE  Follows(tokens, 0, s)
    <1>1. /\ DOMAIN s = {"units", "stages", "words", "connector", "mode", "destination", "at"}
          /\ s.units = <<>> /\ s.stages = <<>> /\ s.words = <<>> /\ s.at = "command"
          /\ s.mode = "none"
        OBVIOUS
    <1>2. IsSeq(<<>>) /\ DOMAIN <<>> = {} /\ Len(<<>>) = 0
        BY NoElements
    <1>3. ParseState(s)
        BY <1>1, <1>2 DEF ParseState, GoodUnits
    <1>4. Begins(tokens, 0) /\ Place(tokens, 0) = "command"
        <2> HIDE DEF Word, Redirecting, ExpandsWell
        <2>1. /\ \A i \in 1..0 : FALSE
              /\ \A i \in 1..(0 - 1) : FALSE
              /\ \A i \in 1..(0 - 2) : FALSE
            OBVIOUS
        <2>2. Begins(tokens, 0)
            BY <2>1 DEF Begins
        <2> QED
            BY <2>2 DEF Place
    <1>5. Directed(s) /\ Sent(s) = <<>>
        BY <1>1 DEF Directed, Sent
    <1>6. Rendered(s.units) = <<>> /\ StageTokens(s.stages) = <<>>
        <2> DEFINE z == s.units
                   f == [i \in DOMAIN z |-> Between(i, z[i].connector) \o UnitTokens(z[i])]
        <2>1. IsSeq(z) /\ Len(z) = 0
            BY <1>1, <1>2
        <2>2. IsSeq(f) /\ Len(f) = Len(z)
            <3> HIDE DEF z
            <3> QED
                BY <2>1, ListingOver
        <2>3. Rendered(z) = FlattenSeq(f)
            BY DEF Rendered
        <2> HIDE DEF f
        <2>4. f = <<>>
            BY <2>1, <2>2, SeqFacts
        <2>5. StageTokens(s.stages) = <<>>
            <3> DEFINE y == s.stages
                       e == [i \in DOMAIN y |-> Between(i, "|") \o y[i]]
            <3>1. IsSeq(y) /\ Len(y) = 0
                BY <1>1, NoElements
            <3>2. IsSeq(e) /\ Len(e) = Len(y)
                <4> HIDE DEF y
                <4> QED
                    BY <3>1, ListingOver
            <3>3. StageTokens(y) = FlattenSeq(e)
                BY DEF StageTokens
            <3> HIDE DEF e
            <3>4. e = <<>>
                BY <3>1, <3>2, SeqFacts
            <3> QED
                BY <3>3, <3>4, FlattenNone, Zenon DEF y
        <2> QED
            BY <2>3, <2>4, <2>5, FlattenNone
    <1>7. Joint(s) = <<>> /\ Link(s) = <<>>
        <2>1. Len(s.units) + 1 = 1 /\ Len(s.stages) + 1 = 1
            BY <1>1, NoElements
        <2> QED
            BY <2>1, Zenon DEF Joint, Link, Between
    <1>8. <<>> \o <<>> = <<>>
        BY <1>2, Neutral
    <1>9. Said(s) = <<>>
        <2>1. Said(s) = Together(<<>>, <<>>, <<>>, <<>>, <<>>, <<>>)
            BY <1>1, <1>5, <1>6, <1>7, Zenon DEF Said
        <2> QED
            BY <1>8, <2>1, Zenon DEF Together
    <1> QED
        <2> DEFINE u == Said(s)
        <2>1. IsSeq(u) /\ Len(u) = 0 /\ 1..0 = {}
            BY <1>9, NoElements
        <2>2. \A i \in 1..0 : u[i] = tokens[i]
            BY <2>1
        <2> HIDE DEF u
        <2>3. s.at = Place(tokens, 0)
            BY <1>1, <1>4
        <2> QED
            BY <1>3, <1>4, <1>5, <2>1, <2>2, <2>3, Zenon DEF Follows, u

(* and each token takes it one further.                                    *)
LEMMA FollowsMore ==
    ASSUME NEW tokens, TokenList(tokens), NEW k \in 1..Len(tokens), NEW s,
           Follows(tokens, k - 1, s)
    PROVE  Follows(tokens, k, Parse(s, tokens[k]))
    <1> DEFINE r == Parse(s, tokens[k])
               x == tokens[k]
               one == <<x>>
               u == Said(s)
               v == Said(r)
    <1>1. ParseState(s) /\ ParseState(r)
        BY ParseKeeps DEF Follows
    <1>2. IF Begins(tokens, k) THEN r.at = Place(tokens, k) ELSE r.at = "error"
        <2>1. IF Begins(tokens, k - 1) THEN s.at = Place(tokens, k - 1) ELSE s.at = "error"
            BY DEF Follows
        <2> QED
            BY <1>1, <2>1, ParserStands
    <1>3. ASSUME Begins(tokens, k)
          PROVE  Directed(r) /\ IsSeq(v) /\ Len(v) = k /\ \A i \in 1..k : v[i] = tokens[i]
        <2>1. Len(tokens) \in Nat /\ k \in DOMAIN tokens /\ k \in Nat \ {0}
            BY SeqFacts DEF TokenList
        <2>2. Begins(tokens, k - 1)
            BY <1>3, <2>1, BeginsMore
        <2>3. /\ Directed(s) /\ IsSeq(u) /\ Len(u) = k - 1
              /\ \A i \in 1..(k - 1) : u[i] = tokens[i]
            BY <2>2 DEF Follows
        <2>4. Token(x)
            BY <2>1 DEF TokenList
        <2>5. r.at # "error"
            BY <1>2, <1>3 DEF Place
        <2>6. v = u \o one /\ Directed(r)
            BY <1>1, <2>3, <2>4, <2>5, ParserSays
        <2>7. IsSeq(one) /\ Len(one) = 1 /\ one[1] = x
            BY Singly
        <2>8. Joins(u, one, v)
            BY <2>6, Zenon DEF Joins
        <2> HIDE DEF u, v, one, r
        <2>9. /\ IsSeq(v) /\ Len(v) = Len(u) + Len(one)
              /\ \A i \in 1..Len(u) : v[i] = u[i]
              /\ \A i \in 1..Len(one) : v[Len(u) + i] = one[i]
            <3>1. IsSeq(u) /\ IsSeq(one) /\ Joins(u, one, v)
                BY <2>3, <2>7, <2>8
            <3> QED
                BY <3>1, Joined
        <2>10. \A i \in 1..k : i \in 1..(k - 1) \/ i = k
            BY <2>1
        <2>11. v[k] = x
            BY <2>1, <2>3, <2>7, <2>9
        <2> QED
            BY <2>1, <2>3, <2>6, <2>7, <2>9, <2>10, <2>11
    <1> QED
        BY <1>1, <1>2, <1>3 DEF Follows

(* The parser accepts exactly the grammar, and the plan renders exactly    *)
(* the tokens.                                                             *)
LEMMA ParserGrammar ==
    ASSUME NEW tokens, TokenList(tokens)
    PROVE  LET plan == ParseExecutionPlan(tokens)
           IN  /\ plan.ok <=> Accepts(tokens)
               /\ plan.ok => Rendered(plan.units) = tokens
    <1> DEFINE n == Len(tokens)
               end == Parsed(tokens)
               plan == ParseExecutionPlan(tokens)
    <1>1. IsSeq(tokens) /\ n \in Nat /\ (tokens = <<>> <=> n = 0)
        BY SeqFacts DEF TokenList
    <1>2. PICK h : /\ h[0] = [units |-> <<>>, stages |-> <<>>, words |-> <<>>, connector |-> ";",
                              mode |-> "none", destination |-> [k |-> "word", parts |-> <<>>],
                              at |-> "command"]
                   /\ \A k \in 1..n : h[k] = Parse(h[k - 1], tokens[k])
                   /\ h[n] = end
        BY <1>1, ParseFold
    <1> DEFINE T == {k \in 0..n : Follows(tokens, k, h[k])}
    <1>3. 0 \in T
        <2> DEFINE g == h[0]
        <2>1. g = [units |-> <<>>, stages |-> <<>>, words |-> <<>>, connector |-> ";",
                   mode |-> "none", destination |-> [k |-> "word", parts |-> <<>>],
                   at |-> "command"]
            BY <1>2
        <2> HIDE DEF g
        <2>2. /\ DOMAIN g = {"units", "stages", "words", "connector", "mode", "destination", "at"}
              /\ g.units = <<>> /\ g.stages = <<>> /\ g.words = <<>> /\ g.at = "command"
              /\ g.mode = "none"
            BY <2>1
        <2>3. Follows(tokens, 0, g)
            BY <2>2, FollowsNone, Zenon
        <2>4. 0 \in 0..n
            BY <1>1
        <2> QED
            BY <2>3, <2>4, Zenon DEF g
    <1>4. ASSUME NEW k \in 1..n, k - 1 \in T PROVE k \in T
        <2>1. Follows(tokens, k - 1, h[k - 1]) /\ k \in 0..n
            BY <1>1, <1>4
        <2>2. Follows(tokens, k, Parse(h[k - 1], tokens[k]))
            BY <2>1, FollowsMore
        <2> QED
            BY <1>2, <2>1, <2>2
    <1> HIDE DEF T
    <1>5. n \in T
        BY <1>1, <1>3, <1>4, LeastFailure DEF T
    <1>6. Follows(tokens, n, end)
        BY <1>2, <1>5 DEF T
    <1>7. plan = IF tokens = <<>> THEN Fail("empty")
                 ELSE IF end.at \in {"words", "end"}
                      THEN [ok |-> TRUE, units |-> EndUnit(end).units]
                      ELSE Fail("invalid")
        BY Zenon DEF ParseExecutionPlan
    <1>8. Accepts(tokens) <=> n > 0 /\ Begins(tokens, n) /\ Word(tokens[n])
        <2> HIDE DEF ExpandsWell
        <2>1. n > 0 => n \in 1..n
            BY <1>1
        <2> QED
            BY <1>1, <2>1 DEF Accepts, Begins, Word, Redirecting
    <1> HIDE DEF plan, end
    <1>9. plan.ok <=> n > 0 /\ end.at \in {"words", "end"}
        BY <1>1, <1>7 DEF Fail
    <1>10. n > 0 => (end.at \in {"words", "end"} <=> Begins(tokens, n) /\ Word(tokens[n]))
        BY <1>1, <1>6 DEF Follows, Place
    <1>11. plan.ok => Rendered(plan.units) = tokens
        <2>1. SUFFICES ASSUME plan.ok PROVE Rendered(plan.units) = tokens
            OBVIOUS
        <2>2. /\ ParseState(end) /\ Directed(end) /\ end.at \in {"words", "end"}
              /\ IsSeq(Said(end)) /\ Len(Said(end)) = n
              /\ \A i \in 1..n : Said(end)[i] = tokens[i]
            BY <1>6, <1>9, <1>10, <2>1 DEF Follows
        <2>3. plan.units = EndUnit(end).units
            BY <1>7, <1>9, <1>1, <2>1
        <2>4. Rendered(plan.units) = Said(end)
            BY <2>2, <2>3, UnitSays
        <2>5. Said(end) = tokens
            BY <1>1, <2>2, SameElements
        <2> QED
            BY <2>4, <2>5
    <1> QED
        BY <1>8, <1>9, <1>10, <1>11 DEF plan

(* parse_execution_plan accepts exactly the token sequences of the         *)
(* grammar, whatever their length, and the plan it returns has the words   *)
(* and operators of the command, all of them and in order.                 *)
THEOREM ParserAgrees == Spec => []ParserExact
    <1>1. ParserExact
        <2>1. ASSUME NEW tokens \in Phrases
              PROVE  LET plan == ParseExecutionPlan(tokens)
                     IN  /\ plan.ok <=> Accepts(tokens)
                         /\ plan.ok => Rendered(plan.units) = tokens
            <3>1. TokenList(tokens)
                <4>1. /\ tokens \in Seq(Range(tokens))
                      /\ \A x \in Range(tokens) : Token(x)
                    BY PhrasesAssumption DEF Token, Word
                <4>2. IsSeq(tokens)
                    BY <4>1, SeqIs
                <4>3. \A i \in DOMAIN tokens : tokens[i] \in Range(tokens)
                    BY DEF Range
                <4> QED
                    BY <4>1, <4>2, <4>3 DEF TokenList
            <3> QED
                BY <3>1, ParserGrammar
        <2> QED
            BY <2>1 DEF ParserExact
    <1> QED
        BY <1>1, PTL
=============================================================================
