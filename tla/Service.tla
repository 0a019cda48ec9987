------------------------------ MODULE Service ------------------------------
(***************************************************************************)
(* InMemorySandboxService (src/mem_sandbox/service/service.py) and the     *)
(* runtimes it owns (service/resources.py): create, resume, get_session,   *)
(* delete and close, with their shared deletion and close tasks.           *)
(*                                                                         *)
(* Every body under the service lock is free of awaits, so the lock is     *)
(* always free when it is asked for and a body is one step with the code   *)
(* around it.  What interleaves are the awaits between: the snapshot load, *)
(* the session factory, session.start(), runtime.close() and the shared    *)
(* tasks; the caller may be cancelled at each of them, any number of       *)
(* times.  A create or resume call builds at most one runtime, which is    *)
(* named after it.                                                         *)
(***************************************************************************)
EXTENDS Integers, FiniteSets

CONSTANTS
    Creators,   \* calls of create() and resume(), and their runtimes
    Resumes,    \* those of them that are resume()
    Users,      \* calls of get_session() and delete()
    Closers,    \* calls of close()
    Handles,    \* handles the UUID generator may return
    SessionIds, \* session identifiers it may return
    None        \* no handle, identifier, runtime or record

ASSUME ResumesAssumption == Resumes \subseteq Creators
ASSUME NoneAssumption ==
    None \notin Creators \cup Handles \cup SessionIds

VARIABLES
    svc,        \* _state
    pending,    \* _pending_operations
    records,    \* _records, by handle
    deleting,   \* runtimes whose record has a deletion task
    heldHandles, heldIds, \* _reserved_handles, _reserved_session_ids
    pc,         \* progress of each create() or resume()
    patience,   \* cancellations its rollback still absorbs
    handle, sid,\* the identifiers it reserved
    phase,      \* progress of the runtime: its close runs once, in a task
    session,    \* state of its session
    user,       \* progress of each get_session() or delete()
    target,     \* the runtime whose deletion a user awaits
    got,        \* the runtime whose session a user was given
    closing,    \* progress of _close_task
    awaited,    \* the operations under way and the deletions it waits for
    closer      \* progress of each close()

registry == <<svc, pending, records, deleting, heldHandles, heldIds>>
creation == <<pc, patience, handle, sid>>
runtimes == <<phase, session>>
users == <<user, target, got>>
closure == <<closing, awaited, closer>>
vars == <<registry, creation, runtimes, users, closure>>

Init ==
    /\ svc = "open"
    /\ pending = {}
    /\ records = [h \in Handles |-> None]
    /\ deleting = {}
    /\ heldHandles = {} /\ heldIds = {}
    /\ pc = [c \in Creators |-> "idle"]
    /\ patience = [c \in Creators |-> 0]
    /\ handle = [c \in Creators |-> None]
    /\ sid = [c \in Creators |-> None]
    /\ phase = [c \in Creators |-> "none"]
    /\ session = [c \in Creators |-> "none"]
    /\ user = [u \in Users |-> "idle"]
    /\ target = [u \in Users |-> None]
    /\ got = [u \in Users |-> None]
    /\ closing = "none"
    /\ awaited = [ops |-> {}, deletions |-> {}]
    /\ closer = [c \in Closers |-> "idle"]

Registered == {records[h] : h \in Handles} \ {None}

-----------------------------------------------------------------------------
(* create() and resume() *)

(* Faulty variant: the operation stays pending.                            *)
FinishPending(c) ==
    /\ pc' = [pc EXCEPT ![c] = "done"]
    /\ heldHandles' = heldHandles \ {handle[c]}
    /\ heldIds' = heldIds \ {sid[c]}
    /\ UNCHANGED pending

(* _finish_lifecycle, for a call that has reserved identifiers or not.     *)
Finish(c) ==
    /\ pc' = [pc EXCEPT ![c] = "done"]
    /\ pending' = pending \ {c}
    /\ heldHandles' = heldHandles \ {handle[c]}
    /\ heldIds' = heldIds \ {sid[c]}

(* Faulty variant: reservations of calls under way are not looked at.      *)
FreeAmongRecords(h, i) ==
    /\ records[h] = None
    /\ \A c \in Registered : sid[c] # i

(* _reserve_identifiers: neither identifier is reserved or in a record.    *)
Free(h, i) ==
    /\ h \notin heldHandles /\ records[h] = None
    /\ i \notin heldIds /\ \A c \in Registered : sid[c] # i

Reserve(c) ==
    \E h \in Handles, i \in SessionIds :
      /\ Free(h, i)
      /\ handle' = [handle EXCEPT ![c] = h]
      /\ sid' = [sid EXCEPT ![c] = i]
      /\ heldHandles' = heldHandles \cup {h}
      /\ heldIds' = heldIds \cup {i}
      /\ pc' = [pc EXCEPT ![c] = "factory"]

(* create() reserves at once; resume() first loads its snapshot.  A closed *)
(* service or a conflict ends the call before it has left a trace.         *)
Begin(c) ==
    /\ pc[c] = "idle"
    /\ svc = "open"
    /\ pending' = pending \cup {c}
    /\ \/ c \notin Resumes /\ Reserve(c)
       \/ /\ c \in Resumes
          /\ pc' = [pc EXCEPT ![c] = "load"]
          /\ UNCHANGED <<handle, sid, heldHandles, heldIds>>
    /\ UNCHANGED <<svc, records, deleting, patience, runtimes, users, closure>>

Refuse(c) ==
    /\ pc[c] = "idle"
    /\ svc # "open" \/ \E h \in Handles, i \in SessionIds : ~Free(h, i)
    /\ pc' = [pc EXCEPT ![c] = "done"]
    /\ UNCHANGED <<registry, patience, handle, sid, runtimes, users, closure>>

Loaded(c) ==
    /\ pc[c] = "load"
    /\ svc = "open"
    /\ Reserve(c)
    /\ UNCHANGED <<svc, pending, records, deleting, patience, runtimes, users, closure>>

(* The load or the factory fails or is cancelled, or the service closed or *)
(* a conflict arose during the load.                                       *)
Abandon(c) ==
    /\ pc[c] \in {"load", "factory"}
    /\ Finish(c)
    /\ UNCHANGED <<svc, records, deleting, patience, handle, sid, runtimes, users, closure>>

FactoryReturns(c) ==
    /\ pc[c] = "factory"
    /\ pc' = [pc EXCEPT ![c] = "start"]
    /\ phase' = [phase EXCEPT ![c] = "built"]
    /\ session' = [session EXCEPT ![c] = "created"]
    /\ UNCHANGED <<registry, patience, handle, sid, users, closure>>

(* runtime.close() creates the runtime's close task.                       *)
CloseRuntime(c) == phase' = [phase EXCEPT ![c] = "session"]

(* Faulty variant: the constructed runtime is forgotten.                   *)
RollBackForgetting(c, n) ==
    /\ pc' = [pc EXCEPT ![c] = "cleanup"]
    /\ patience' = [patience EXCEPT ![c] = n]
    /\ UNCHANGED phase

RollBack(c, n) ==
    /\ pc' = [pc EXCEPT ![c] = "cleanup"]
    /\ patience' = [patience EXCEPT ![c] = n]
    /\ CloseRuntime(c)

(* start() returns; the session is published unless the service has begun  *)
(* to close, and then it is rolled back.                                   *)
StartReturns(c) ==
    /\ pc[c] = "start"
    /\ session' = [session EXCEPT ![c] = "running"]
    /\ \/ /\ svc = "open"
          /\ records' = [records EXCEPT ![handle[c]] = c]
          /\ Finish(c)
          /\ UNCHANGED <<patience, phase>>
       \/ /\ svc # "open"
          /\ RollBack(c, 1)
          /\ UNCHANGED <<pending, records, heldHandles, heldIds>>
    /\ UNCHANGED <<svc, deleting, handle, sid, users, closure>>

(* A failed start of create() is cleaned up in its handler and once more   *)
(* in the finally; a cancelled one, or a resume(), only in the finally.    *)
StartFails(c) ==
    /\ pc[c] = "start"
    /\ session' = [session EXCEPT ![c] = "stopped"]
    /\ \/ c \notin Resumes /\ RollBack(c, 3)
       \/ RollBack(c, 1)
    /\ UNCHANGED <<registry, handle, sid, users, closure>>

RollbackEnds(c) ==
    /\ pc[c] = "cleanup"
    /\ phase[c] = "closed"
    /\ Finish(c)
    /\ UNCHANGED <<svc, records, deleting, patience, handle, sid, runtimes, users, closure>>

(* _await_shared absorbs one cancellation and leaves at the next.          *)
RollbackCancelled(c) ==
    /\ pc[c] = "cleanup"
    /\ \/ /\ patience[c] > 0
          /\ patience' = [patience EXCEPT ![c] = @ - 1]
          /\ UNCHANGED <<pc, pending, heldHandles, heldIds>>
       \/ /\ patience[c] = 0
          /\ Finish(c)
          /\ UNCHANGED patience
    /\ UNCHANGED <<svc, records, deleting, handle, sid, runtimes, users, closure>>

-----------------------------------------------------------------------------
(* Runtimes and sessions. *)

(* DefaultServiceSessionRuntime._close_once: the session first, then the   *)
(* post-session scope, whether or not the first failed.                    *)
SessionClosed(c) ==
    /\ phase[c] = "session"
    /\ phase' = [phase EXCEPT ![c] = "scope"]
    /\ session' = [session EXCEPT ![c] = "stopped"]
    /\ UNCHANGED <<registry, creation, users, closure>>

(* CompositeResourceScope.close_with_timeout ends by itself or at its      *)
(* timeout.                                                                *)
ScopeClosed(c) ==
    /\ phase[c] = "scope"
    /\ phase' = [phase EXCEPT ![c] = "closed"]
    /\ UNCHANGED <<registry, creation, session, users, closure>>

(* A holder of the session closes it, or an operation makes it fail.       *)
SessionStops(c) ==
    /\ session[c] = "running"
    /\ \E u \in Users : got[u] = c
    /\ session' = [session EXCEPT ![c] = "stopped"]
    /\ UNCHANGED <<registry, creation, phase, users, closure>>

(* _start_deletion_locked: the first caller creates the deletion task,     *)
(* which calls runtime.close().                                            *)
StartDeletion(rs) ==
    /\ deleting' = deleting \cup rs
    /\ phase' = [c \in Creators |-> IF c \in rs \ deleting THEN "session" ELSE phase[c]]

(* The end of _delete_record.                                              *)
DeletionEnds(h) ==
    /\ records[h] \in deleting
    /\ phase[records[h]] = "closed"
    /\ records' = [records EXCEPT ![h] = None]
    /\ heldHandles' = heldHandles \ {h}
    /\ heldIds' = heldIds \ {sid[records[h]]}
    /\ UNCHANGED <<svc, pending, deleting, creation, runtimes, users, closure>>

-----------------------------------------------------------------------------
(* get_session() and delete() *)

Await(u, c) ==
    /\ user' = [user EXCEPT ![u] = "waiting"]
    /\ target' = [target EXCEPT ![u] = c]

(* Faulty variant: a record that is being deleted is still looked up.      *)
GetDeleting(u, h) ==
    /\ user[u] = "idle"
    /\ svc = "open" /\ records[h] # None
    /\ session[records[h]] = "running"
    /\ user' = [user EXCEPT ![u] = "done"]
    /\ got' = [got EXCEPT ![u] = records[h]]
    /\ UNCHANGED <<registry, creation, runtimes, target, closure>>

(* A running session is handed out; any other found active is deleted.     *)
Get(u, h) ==
    /\ user[u] = "idle"
    /\ svc = "open" /\ records[h] # None /\ records[h] \notin deleting
    /\ \/ /\ session[records[h]] = "running"
          /\ user' = [user EXCEPT ![u] = "done"]
          /\ got' = [got EXCEPT ![u] = records[h]]
          /\ UNCHANGED <<deleting, phase, target>>
       \/ /\ session[records[h]] # "running"
          /\ StartDeletion({records[h]})
          /\ Await(u, records[h])
          /\ UNCHANGED got
    /\ UNCHANGED <<svc, pending, records, heldHandles, heldIds, creation, session, closure>>

Delete(u, h) ==
    /\ user[u] = "idle"
    /\ svc = "open" /\ records[h] # None
    /\ StartDeletion({records[h]})
    /\ Await(u, records[h])
    /\ UNCHANGED <<svc, pending, records, heldHandles, heldIds, creation, session, got, closure>>

NotFound(u) ==
    /\ user[u] = "idle"
    /\ svc # "open" \/ \E h \in Handles : records[h] = None \/ records[h] \in deleting
    /\ user' = [user EXCEPT ![u] = "done"]
    /\ UNCHANGED <<registry, creation, runtimes, target, got, closure>>

(* The deletion task has removed the record.                               *)
UserReturns(u) ==
    /\ user[u] \in {"waiting", "cancelling"}
    /\ target[u] \notin Registered
    /\ user' = [user EXCEPT ![u] = IF @ = "waiting" THEN "done" ELSE "cancelled"]
    /\ UNCHANGED <<registry, creation, runtimes, target, got, closure>>

UserCancelled(u) ==
    /\ user[u] \in {"waiting", "cancelling"}
    /\ user' = [user EXCEPT ![u] = IF @ = "waiting" THEN "cancelling" ELSE "cancelled"]
    /\ UNCHANGED <<registry, creation, runtimes, target, got, closure>>

-----------------------------------------------------------------------------
(* close() *)

Close(k) ==
    /\ closer[k] = "idle"
    /\ closer' = [closer EXCEPT ![k] = IF closing = "done" THEN "done" ELSE "waiting"]
    /\ closing' = IF closing = "none" THEN "called" ELSE closing
    /\ UNCHANGED <<registry, creation, runtimes, users, awaited>>

(* Faulty variant: calls under way are not waited for.                     *)
CloseBeginsAlone ==
    /\ closing = "called"
    /\ closing' = "draining"
    /\ svc' = "closing"
    /\ awaited' = [ops |-> {}, deletions |-> Registered]
    /\ StartDeletion(Registered)
    /\ UNCHANGED <<pending, records, heldHandles, heldIds, creation, session, users, closer>>

CloseBegins ==
    /\ closing = "called"
    /\ closing' = "draining"
    /\ svc' = "closing"
    /\ awaited' = [ops |-> pending, deletions |-> Registered]
    /\ StartDeletion(Registered)
    /\ UNCHANGED <<pending, records, heldHandles, heldIds, creation, session, users, closer>>

CloseEnds ==
    /\ closing = "draining"
    /\ awaited.ops \cap pending = {} /\ awaited.deletions \cap Registered = {}
    /\ closing' = "done"
    /\ svc' = "closed"
    /\ heldHandles' = {} /\ heldIds' = {}
    /\ UNCHANGED <<pending, records, deleting, creation, runtimes, users, awaited, closer>>

CloserReturns(k) ==
    /\ closer[k] \in {"waiting", "cancelling"}
    /\ closing = "done"
    /\ closer' = [closer EXCEPT ![k] = IF @ = "waiting" THEN "done" ELSE "cancelled"]
    /\ UNCHANGED <<registry, creation, runtimes, users, closing, awaited>>

CloserCancelled(k) ==
    /\ closer[k] \in {"waiting", "cancelling"}
    /\ closer' = [closer EXCEPT ![k] = IF @ = "waiting" THEN "cancelling" ELSE "cancelled"]
    /\ UNCHANGED <<registry, creation, runtimes, users, closing, awaited>>

-----------------------------------------------------------------------------
CreatorNext(c) ==
    \/ Begin(c) \/ Refuse(c) \/ Loaded(c) \/ Abandon(c) \/ FactoryReturns(c)
    \/ StartReturns(c) \/ StartFails(c) \/ RollbackEnds(c) \/ RollbackCancelled(c)

RuntimeNext(c) == SessionClosed(c) \/ ScopeClosed(c) \/ SessionStops(c)

UserNext(u) ==
    \/ \E h \in Handles : Get(u, h) \/ Delete(u, h)
    \/ NotFound(u) \/ UserReturns(u) \/ UserCancelled(u)

Next ==
    \/ \E c \in Creators : CreatorNext(c) \/ RuntimeNext(c)
    \/ \E h \in Handles : DeletionEnds(h)
    \/ \E u \in Users : UserNext(u)
    \/ \E k \in Closers : Close(k) \/ CloserReturns(k) \/ CloserCancelled(k)
    \/ CloseBegins \/ CloseEnds

Spec == Init /\ [][Next]_vars

(* The event loop does not stop while a task can go on: loads, the factory *)
(* (which only writes to memory), start() and runtime closes (which have   *)
(* deadlines) end, well or not.  Every call is made once, so no task can   *)
(* keep another from its turn for ever, and this is all the fairness that  *)
(* is needed.  Nothing makes a caller act or be cancelled.                 *)
TaskGoesOn ==
    \/ \E c \in Creators : \/ Loaded(c) \/ Abandon(c) \/ FactoryReturns(c)
                           \/ StartReturns(c) \/ StartFails(c) \/ RollbackEnds(c)
                           \/ SessionClosed(c) \/ ScopeClosed(c)
    \/ \E h \in Handles : DeletionEnds(h)
    \/ \E u \in Users : UserReturns(u)
    \/ \E k \in Closers : CloserReturns(k)
    \/ CloseBegins \/ CloseEnds

Fairness == WF_vars(TaskGoesOn)

FairSpec == Spec /\ Fairness

-----------------------------------------------------------------------------
Stages == {"idle", "load", "factory", "start", "cleanup", "done"}
Waits == {"idle", "waiting", "cancelling", "cancelled", "done"}

(* Every variable has its type.                                            *)
TypeOK ==
    /\ svc \in {"open", "closing", "closed"}
    /\ pending \subseteq Creators
    /\ records \in [Handles -> Creators \cup {None}]
    /\ deleting \subseteq Creators
    /\ heldHandles \subseteq Handles /\ heldIds \subseteq SessionIds
    /\ pc \in [Creators -> Stages]
    /\ patience \in [Creators -> 0..3]
    /\ handle \in [Creators -> Handles \cup {None}]
    /\ sid \in [Creators -> SessionIds \cup {None}]
    /\ phase \in [Creators -> {"none", "built", "session", "scope", "closed"}]
    /\ session \in [Creators -> {"none", "created", "running", "stopped"}]
    /\ user \in [Users -> Waits]
    /\ target \in [Users -> Creators \cup {None}]
    /\ got \in [Users -> Creators \cup {None}]
    /\ closing \in {"none", "called", "draining", "done"}
    /\ awaited \in [ops : SUBSET Creators, deletions : SUBSET Creators]
    /\ closer \in [Closers -> Waits]

(* No runtime is ever left behind: one that nobody has begun to close is   *)
(* in the hands of the call that built it or in a record that is not being *)
(* deleted, whatever failed, was cancelled or raced service close.         *)
NoOrphanRuntime ==
    \A c \in Creators : phase[c] = "built" => pc[c] = "start" \/ c \in Registered \ deleting

Owns(c) == c \in Registered \/ pc[c] \in {"factory", "start", "cleanup"}

(* Two live sandboxes never share a handle or a session identifier, even   *)
(* when the generator repeats itself and while one of them is being        *)
(* created, rolled back or deleted; and a reservation that keeps them      *)
(* apart belongs to a call that will release it.                           *)
IdentityUnique ==
    /\ \A c, d \in Creators : Owns(c) /\ Owns(d) /\ c # d => handle[c] # handle[d] /\ sid[c] # sid[d]
    /\ \A h \in heldHandles : \E c \in pending : handle[c] = h
    /\ \A i \in heldIds : \E c \in pending : sid[c] = i

(* A closed service has nothing left: no record, no call under way, no     *)
(* reservation, and no session that was ever published still running.      *)
ClosedIsEmpty ==
    svc = "closed" =>
      /\ Registered = {} /\ pending = {} /\ heldHandles = {} /\ heldIds = {}
      /\ \A c \in Creators : phase[c] # "built"
      /\ \A u \in Users : got[u] # None => phase[got[u]] = "closed"

(* A lookup returns only a session that was started and whose deletion has *)
(* not begun, although delete, close and failures race it.                 *)
LookupIsLive ==
    [][\A u \in Users : got'[u] # got[u] =>
          session[got'[u]] = "running" /\ phase[got'[u]] = "built"]_vars

(* Everyone is answered in the end: creations and resumes, deletions and   *)
(* lookups that wait for one; a runtime that has begun to close is closed  *)
(* and out of the registry; and a close that was requested has closed the  *)
(* service, whatever failed or was cancelled on the way.                   *)
EverythingEnds ==
    <>[] /\ pending = {}
         /\ \A c \in Creators : /\ phase[c] \in {"none", "built", "closed"}
                                /\ phase[c] = "closed" => c \notin Registered
         /\ \A u \in Users : user[u] \in {"idle", "done", "cancelled"}
         /\ \A k \in Closers : /\ closer[k] \in {"idle", "done", "cancelled"}
                               /\ closer[k] # "idle" => svc = "closed"
=============================================================================
