--------------------------- MODULE ServiceProofs ---------------------------
(***************************************************************************)
(* Proofs about Service for any number of calls, users, handles and        *)
(* identifiers.  The inductive invariant says who owns what: which calls   *)
(* hold which reservations (CallInv), what the registry knows of the       *)
(* runtimes it holds (RecordInv), how far each runtime is (RuntimeInv),    *)
(* what became of the sessions handed out (UserInv), and what a close that *)
(* has begun waits for (CloseInv).                                         *)
(***************************************************************************)
EXTENDS Service, TLAPS

Underway == {"load", "factory", "start", "cleanup"}
Reserved == {"factory", "start", "cleanup"}
Ending == {"session", "scope", "closed"}

(* A call is pending while it is under way, and from its reservation on it *)
(* has identifiers of its own, which are held until it ends.               *)
CallInv ==
    /\ \A c \in Creators : c \in pending <=> pc[c] \in Underway
    /\ \A c \in Creators : pc[c] \in {"idle", "load"} => handle[c] = None /\ sid[c] = None
    /\ \A c \in Creators : pc[c] \in Reserved => handle[c] \in heldHandles /\ sid[c] \in heldIds

(* A record is that of a call that has ended, under its own handle.        *)
RecordInv ==
    \A h \in Handles : records[h] # None =>
        /\ pc[records[h]] = "done"
        /\ handle[records[h]] = h
        /\ sid[records[h]] \in SessionIds

(* What the stage of a call and the registry say of the runtime.           *)
RuntimeInv ==
    /\ \A c \in Creators : pc[c] \in {"idle", "load", "factory"} => phase[c] = "none"
    /\ \A c \in Creators : pc[c] = "start" => phase[c] = "built"
    /\ \A c \in Creators : pc[c] = "cleanup" => phase[c] \in Ending
    /\ \A c \in Registered \ deleting : phase[c] = "built"
    /\ \A c \in deleting : phase[c] \in Ending

(* A session that was handed out is in a record, or closed.                *)
UserInv ==
    \A u \in Users : got[u] # None => got[u] \in Registered \/ phase[got[u]] = "closed"

(* A close that has begun waits for everything that is left.               *)
CloseInv ==
    /\ svc = "open" <=> closing \in {"none", "called"}
    /\ svc # "open" => /\ pending \subseteq awaited.ops
                       /\ Registered \subseteq awaited.deletions
                       /\ Registered \subseteq deleting
    /\ svc = "closed" => pending = {} /\ Registered = {} /\ heldHandles = {} /\ heldIds = {}

IInv ==
    /\ TypeOK
    /\ CallInv
    /\ RecordInv
    /\ RuntimeInv
    /\ UserInv
    /\ CloseInv
    /\ NoOrphanRuntime
    /\ IdentityUnique

-----------------------------------------------------------------------------
(* A new call reserves identifiers that no other call holds.               *)
LEMMA BeginKeeps ==
    ASSUME IInv, NEW c \in Creators, Begin(c)
    PROVE  IInv'
  <1> USE NoneAssumption, ResumesAssumption
          DEF IInv, Begin, Reserve, Free, registry, creation, runtimes, users, closure
  <1>1. TypeOK'
    BY DEF TypeOK, Stages, Waits
  <1>2. CallInv'
    BY DEF TypeOK, CallInv, CloseInv, Underway, Reserved, RecordInv, IdentityUnique, Owns,
           Registered
  <1>3. RecordInv'
    BY DEF TypeOK, RecordInv, CallInv, Underway, Reserved
  <1>4. RuntimeInv'
    BY DEF TypeOK, RuntimeInv, RecordInv, Ending, Registered
  <1>5. CloseInv'
    BY DEF TypeOK, CloseInv, Registered
  <1>6. NoOrphanRuntime'
    BY DEF TypeOK, NoOrphanRuntime, RuntimeInv, Registered, RecordInv, Ending
  <1>7. IdentityUnique'
    BY DEF TypeOK, IdentityUnique, Owns, Registered, CallInv, RecordInv, Underway, Reserved
  <1>8. UserInv'
    BY DEF UserInv, Registered
  <1> QED
    BY <1>1, <1>2, <1>3, <1>4, <1>5, <1>6, <1>7, <1>8 DEF IInv

(* A refused call has left no trace.                                       *)
LEMMA RefuseKeeps ==
    ASSUME IInv, NEW c \in Creators, Refuse(c)
    PROVE  IInv'
  <1> USE NoneAssumption, ResumesAssumption
          DEF IInv, Refuse, registry, creation, runtimes, users, closure
  <1>1. TypeOK'
    BY DEF TypeOK, Stages, Waits
  <1>2. CallInv'
    BY DEF TypeOK, CallInv, CloseInv, Underway, Reserved, RecordInv, IdentityUnique, Owns,
           Registered
  <1>3. RecordInv'
    BY DEF TypeOK, RecordInv, CallInv, Underway, Reserved
  <1>4. RuntimeInv'
    BY DEF TypeOK, RuntimeInv, RecordInv, Ending, Registered
  <1>5. NoOrphanRuntime'
    BY DEF TypeOK, NoOrphanRuntime, RuntimeInv, Registered, RecordInv, Ending
  <1>6. IdentityUnique'
    BY DEF TypeOK, IdentityUnique, Owns, Registered, CallInv, RecordInv, Underway, Reserved
  <1>7. UserInv' /\ CloseInv'
    BY DEF UserInv, Registered, CloseInv
  <1> QED
    BY <1>1, <1>2, <1>3, <1>4, <1>5, <1>6, <1>7 DEF IInv

(* A resume reserves its identifiers after the load.                       *)
LEMMA LoadedKeeps ==
    ASSUME IInv, NEW c \in Creators, Loaded(c)
    PROVE  IInv'
  <1> USE NoneAssumption, ResumesAssumption
          DEF IInv, Loaded, Reserve, Free, registry, creation, runtimes, users, closure
  <1>1. TypeOK'
    BY DEF TypeOK, Stages, Waits
  <1>2. CallInv'
    BY DEF TypeOK, CallInv, CloseInv, Underway, Reserved, RecordInv, IdentityUnique, Owns,
           Registered
  <1>3. RecordInv'
    BY DEF TypeOK, RecordInv, CallInv, Underway, Reserved
  <1>4. RuntimeInv'
    BY DEF TypeOK, RuntimeInv, RecordInv, Ending, Registered
  <1>5. CloseInv'
    BY DEF TypeOK, CloseInv, Registered
  <1>6. NoOrphanRuntime'
    BY DEF TypeOK, NoOrphanRuntime, RuntimeInv, Registered, RecordInv, Ending
  <1>7. IdentityUnique'
    BY DEF TypeOK, IdentityUnique, Owns, Registered, CallInv, RecordInv, Underway, Reserved
  <1>8. UserInv'
    BY DEF UserInv, Registered
  <1> QED
    BY <1>1, <1>2, <1>3, <1>4, <1>5, <1>6, <1>7, <1>8 DEF IInv

(* A call that built nothing gives back what it held.                      *)
LEMMA AbandonKeeps ==
    ASSUME IInv, NEW c \in Creators, Abandon(c)
    PROVE  IInv'
  <1> USE NoneAssumption, ResumesAssumption
          DEF IInv, Abandon, Finish, registry, creation, runtimes, users, closure
  <1>1. TypeOK'
    BY DEF TypeOK, Stages, Waits
  <1>2. CallInv'
    BY DEF TypeOK, CallInv, CloseInv, Underway, Reserved, RecordInv, IdentityUnique, Owns,
           Registered
  <1>3. RecordInv'
    BY DEF TypeOK, RecordInv, CallInv, Underway, Reserved
  <1>4. RuntimeInv'
    BY DEF TypeOK, RuntimeInv, RecordInv, Ending, Registered
  <1>5. CloseInv'
    <2>1. /\ UNCHANGED <<svc, closing, awaited, deleting>> /\ Registered' = Registered
          /\ pending' \subseteq pending /\ heldHandles' \subseteq heldHandles
          /\ heldIds' \subseteq heldIds
      BY DEF Registered
    <2> QED
      BY <2>1 DEF CloseInv
  <1>6. NoOrphanRuntime'
    BY DEF TypeOK, NoOrphanRuntime, RuntimeInv, Registered, RecordInv, Ending
  <1>7. IdentityUnique'
    BY DEF TypeOK, IdentityUnique, Owns, Registered, CallInv, RecordInv, Underway, Reserved
  <1>8. UserInv'
    BY DEF UserInv, Registered
  <1> QED
    BY <1>1, <1>2, <1>3, <1>4, <1>5, <1>6, <1>7, <1>8 DEF IInv

(* The runtime is in the hands of its call.                                *)
LEMMA FactoryReturnsKeeps ==
    ASSUME IInv, NEW c \in Creators, FactoryReturns(c)
    PROVE  IInv'
  <1> USE NoneAssumption, ResumesAssumption
          DEF IInv, FactoryReturns, registry, creation, runtimes, users, closure
  <1>1. TypeOK'
    BY DEF TypeOK, Stages, Waits
  <1>2. CallInv'
    BY DEF TypeOK, CallInv, CloseInv, Underway, Reserved, RecordInv, IdentityUnique, Owns,
           Registered
  <1>3. RecordInv'
    BY DEF TypeOK, RecordInv, CallInv, Underway, Reserved
  <1>4. RuntimeInv'
    BY DEF TypeOK, RuntimeInv, RecordInv, Ending, Registered
  <1>5. UserInv'
    BY DEF TypeOK, UserInv, RuntimeInv, Registered, Ending
  <1>6. NoOrphanRuntime'
    BY DEF TypeOK, NoOrphanRuntime, RuntimeInv, Registered, RecordInv, Ending
  <1>7. IdentityUnique'
    BY DEF TypeOK, IdentityUnique, Owns, Registered, CallInv, RecordInv, Underway, Reserved
  <1>8. CloseInv'
    BY DEF CloseInv, Registered
  <1> QED
    BY <1>1, <1>2, <1>3, <1>4, <1>5, <1>6, <1>7, <1>8 DEF IInv

(* The runtime goes to a record or is rolled back.                         *)
LEMMA StartReturnsKeeps ==
    ASSUME IInv, NEW c \in Creators, StartReturns(c)
    PROVE  IInv'
  <1> USE NoneAssumption
      DEF IInv, StartReturns, Finish, RollBack, CloseRuntime, registry, creation, runtimes, users,
          closure
  <1>a. c \in pending /\ handle[c] \in Handles /\ sid[c] \in SessionIds
    BY DEF TypeOK, CallInv, Underway, Reserved
  <1>b. records[handle[c]] = None
    BY <1>a DEF TypeOK, IdentityUnique, Owns, Registered, RecordInv
  <1>1. TypeOK'
    BY DEF TypeOK, Stages, Waits
  <1>2. CallInv'
    BY DEF TypeOK, CallInv, CloseInv, Underway, Reserved, RecordInv, IdentityUnique, Owns,
           Registered
  <1>3. RecordInv'
    BY <1>a DEF TypeOK, RecordInv, CallInv, Underway, Reserved
  <1>4. CASE svc = "open"
    <2>1. Registered' = Registered \cup {c}
      BY <1>4, <1>a, <1>b DEF TypeOK, Registered
    <2>2. c \notin deleting
      BY DEF RuntimeInv, Ending
    <2>3. RuntimeInv' /\ NoOrphanRuntime'
      BY <1>4, <2>1, <2>2 DEF TypeOK, RuntimeInv, NoOrphanRuntime, Ending
    <2>4. UserInv' /\ CloseInv'
      BY <1>4, <2>1 DEF TypeOK, UserInv, CloseInv
    <2>5. IdentityUnique'
      BY <1>4, <2>1, <1>a DEF TypeOK, IdentityUnique, Owns, CallInv, Underway, Reserved
    <2> QED
      BY <1>1, <1>2, <1>3, <2>3, <2>4, <2>5
  <1>5. CASE svc # "open"
    <2>1. Registered' = Registered /\ c \notin Registered
      BY <1>5 DEF TypeOK, Registered, RecordInv
    <2>2. phase' = [phase EXCEPT ![c] = "session"] /\ pc' = [pc EXCEPT ![c] = "cleanup"]
      BY <1>5
    <2>3. RuntimeInv'
      BY <2>1, <2>2 DEF TypeOK, RuntimeInv, Ending
    <2>4. NoOrphanRuntime'
      BY <2>1, <2>2 DEF TypeOK, NoOrphanRuntime
    <2>5. UserInv'
      BY <1>5, <2>1 DEF TypeOK, UserInv, RuntimeInv
    <2>6. CloseInv'
      BY <1>5, <2>1 DEF TypeOK, CloseInv
    <2>7. IdentityUnique'
      BY <1>5, <2>1 DEF TypeOK, IdentityUnique, Owns, CallInv, Underway, Reserved
    <2> QED
      BY <1>1, <1>2, <1>3, <2>3, <2>4, <2>5, <2>6, <2>7
  <1> QED
    BY <1>4, <1>5

(* A failed start begins to close the runtime.                             *)
LEMMA StartFailsKeeps ==
    ASSUME IInv, NEW c \in Creators, StartFails(c)
    PROVE  IInv'
  <1> USE NoneAssumption, ResumesAssumption
          DEF IInv, StartFails, RollBack, CloseRuntime, registry, creation, runtimes,
              users, closure
  <1>1. TypeOK'
    BY DEF TypeOK, Stages, Waits
  <1>2. CallInv'
    BY DEF TypeOK, CallInv, CloseInv, Underway, Reserved, RecordInv, IdentityUnique, Owns,
           Registered
  <1>3. RecordInv'
    BY DEF TypeOK, RecordInv, CallInv, Underway, Reserved
  <1>4. RuntimeInv'
    BY DEF TypeOK, RuntimeInv, RecordInv, Ending, Registered
  <1>5. UserInv'
    BY DEF TypeOK, UserInv, RuntimeInv, Registered, Ending
  <1>6. NoOrphanRuntime'
    BY DEF TypeOK, NoOrphanRuntime, RuntimeInv, Registered, RecordInv, Ending
  <1>7. IdentityUnique'
    BY DEF TypeOK, IdentityUnique, Owns, Registered, CallInv, RecordInv, Underway, Reserved
  <1>8. CloseInv'
    BY DEF CloseInv, Registered
  <1> QED
    BY <1>1, <1>2, <1>3, <1>4, <1>5, <1>6, <1>7, <1>8 DEF IInv

(* A call that rolled back ends.                                           *)
LEMMA RollbackEndsKeeps ==
    ASSUME IInv, NEW c \in Creators, RollbackEnds(c)
    PROVE  IInv'
  <1> USE NoneAssumption, ResumesAssumption
          DEF IInv, RollbackEnds, Finish, registry, creation, runtimes, users, closure
  <1>1. TypeOK'
    BY DEF TypeOK, Stages, Waits
  <1>2. CallInv'
    BY DEF TypeOK, CallInv, CloseInv, Underway, Reserved, RecordInv, IdentityUnique, Owns,
           Registered
  <1>3. RecordInv'
    BY DEF TypeOK, RecordInv, CallInv, Underway, Reserved
  <1>4. RuntimeInv'
    BY DEF TypeOK, RuntimeInv, RecordInv, Ending, Registered
  <1>5. CloseInv'
    BY DEF TypeOK, CloseInv, CallInv, Underway, Registered
  <1>6. NoOrphanRuntime'
    BY DEF TypeOK, NoOrphanRuntime, RuntimeInv, Registered, RecordInv, Ending
  <1>7. IdentityUnique'
    BY DEF TypeOK, IdentityUnique, Owns, Registered, CallInv, RecordInv, Underway, Reserved
  <1>8. UserInv'
    BY DEF UserInv, Registered
  <1> QED
    BY <1>1, <1>2, <1>3, <1>4, <1>5, <1>6, <1>7, <1>8 DEF IInv

(* A cancelled rollback leaves a runtime that is being closed.             *)
LEMMA RollbackCancelledKeeps ==
    ASSUME IInv, NEW c \in Creators, RollbackCancelled(c)
    PROVE  IInv'
  <1> USE NoneAssumption, ResumesAssumption
          DEF IInv, RollbackCancelled, Finish, registry, creation, runtimes, users,
              closure
  <1>1. TypeOK'
    BY DEF TypeOK, Stages, Waits
  <1>2. CallInv'
    BY DEF TypeOK, CallInv, CloseInv, Underway, Reserved, RecordInv, IdentityUnique, Owns,
           Registered
  <1>3. RecordInv'
    BY DEF TypeOK, RecordInv, CallInv, Underway, Reserved
  <1>4. RuntimeInv'
    BY DEF TypeOK, RuntimeInv, RecordInv, Ending, Registered
  <1>5. CloseInv'
    BY DEF TypeOK, CloseInv, CallInv, Underway, Registered
  <1>6. NoOrphanRuntime'
    BY DEF TypeOK, NoOrphanRuntime, RuntimeInv, Registered, RecordInv, Ending
  <1>7. IdentityUnique'
    BY DEF TypeOK, IdentityUnique, Owns, Registered, CallInv, RecordInv, Underway, Reserved
  <1>8. UserInv'
    BY DEF UserInv, Registered
  <1> QED
    BY <1>1, <1>2, <1>3, <1>4, <1>5, <1>6, <1>7, <1>8 DEF IInv

(* A close goes on.                                                        *)
LEMMA SessionClosedKeeps ==
    ASSUME IInv, NEW c \in Creators, SessionClosed(c)
    PROVE  IInv'
  <1> USE NoneAssumption, ResumesAssumption
          DEF IInv, SessionClosed, registry, creation, runtimes, users, closure
  <1>1. TypeOK'
    BY DEF TypeOK, Stages, Waits
  <1>2. RuntimeInv'
    BY DEF TypeOK, RuntimeInv, RecordInv, Ending, Registered
  <1>3. UserInv'
    BY DEF TypeOK, UserInv, RuntimeInv, Registered, Ending
  <1>4. NoOrphanRuntime'
    BY DEF TypeOK, NoOrphanRuntime, RuntimeInv, Registered, RecordInv, Ending
  <1>5. CallInv' /\ RecordInv' /\ CloseInv' /\ IdentityUnique'
    BY DEF CallInv, RecordInv, CloseInv, Registered, IdentityUnique, Owns
  <1> QED
    BY <1>1, <1>2, <1>3, <1>4, <1>5 DEF IInv

(* A close ends.                                                           *)
LEMMA ScopeClosedKeeps ==
    ASSUME IInv, NEW c \in Creators, ScopeClosed(c)
    PROVE  IInv'
  <1> USE NoneAssumption, ResumesAssumption
          DEF IInv, ScopeClosed, registry, creation, runtimes, users, closure
  <1>1. TypeOK'
    BY DEF TypeOK, Stages, Waits
  <1>2. RuntimeInv'
    BY DEF TypeOK, RuntimeInv, RecordInv, Ending, Registered
  <1>3. UserInv'
    BY DEF TypeOK, UserInv, RuntimeInv, Registered, Ending
  <1>4. NoOrphanRuntime'
    BY DEF TypeOK, NoOrphanRuntime, RuntimeInv, Registered, RecordInv, Ending
  <1>5. CallInv' /\ RecordInv' /\ CloseInv' /\ IdentityUnique'
    BY DEF CallInv, RecordInv, CloseInv, Registered, IdentityUnique, Owns
  <1> QED
    BY <1>1, <1>2, <1>3, <1>4, <1>5 DEF IInv

(* A record that goes was being deleted, and its runtime is closed.        *)
LEMMA DeletionEndsKeeps ==
    ASSUME IInv, NEW h \in Handles, DeletionEnds(h)
    PROVE  IInv'
  <1> USE NoneAssumption, ResumesAssumption
          DEF IInv, DeletionEnds, registry, creation, runtimes, users, closure
  <1>1. TypeOK'
    BY DEF TypeOK, Stages, Waits
  <1>2. CallInv'
    BY DEF TypeOK, CallInv, CloseInv, Underway, Reserved, RecordInv, IdentityUnique, Owns,
           Registered
  <1>3. RecordInv'
    BY DEF TypeOK, RecordInv, CallInv, Underway, Reserved
  <1>4. RuntimeInv'
    BY DEF TypeOK, RuntimeInv, RecordInv, Ending, Registered
  <1>5. UserInv'
    BY DEF TypeOK, UserInv, RuntimeInv, Registered, Ending
  <1>6. CloseInv'
    BY DEF TypeOK, CloseInv, Registered
  <1>7. NoOrphanRuntime'
    BY DEF TypeOK, NoOrphanRuntime, RuntimeInv, Registered, RecordInv, Ending
  <1>8. IdentityUnique'
    BY DEF TypeOK, IdentityUnique, Owns, Registered, CallInv, RecordInv, Underway, Reserved
  <1> QED
    BY <1>1, <1>2, <1>3, <1>4, <1>5, <1>6, <1>7, <1>8 DEF IInv

(* A session that is handed out is in a record.                            *)
LEMMA GetKeeps ==
    ASSUME IInv, NEW u \in Users, NEW h \in Handles, Get(u, h)
    PROVE  IInv'
  <1> USE NoneAssumption, ResumesAssumption
          DEF IInv, Get, StartDeletion, Await, registry, creation, runtimes, users,
              closure
  <1>1. TypeOK'
    BY DEF TypeOK, Stages, Waits
  <1>2. RuntimeInv'
    BY DEF TypeOK, RuntimeInv, RecordInv, Ending, Registered
  <1>3. UserInv'
    BY DEF TypeOK, UserInv, RuntimeInv, Registered, Ending
  <1>4. CloseInv'
    BY DEF TypeOK, CloseInv, Registered
  <1>5. NoOrphanRuntime'
    BY DEF TypeOK, NoOrphanRuntime, RuntimeInv, Registered, RecordInv, Ending
  <1>6. CallInv' /\ RecordInv' /\ IdentityUnique'
    BY DEF CallInv, RecordInv, IdentityUnique, Owns, Registered
  <1> QED
    BY <1>1, <1>2, <1>3, <1>4, <1>5, <1>6 DEF IInv

(* A deletion begins to close a runtime that was in a record.              *)
LEMMA DeleteKeeps ==
    ASSUME IInv, NEW u \in Users, NEW h \in Handles, Delete(u, h)
    PROVE  IInv'
  <1> USE NoneAssumption, ResumesAssumption
          DEF IInv, Delete, StartDeletion, Await, registry, creation, runtimes, users,
              closure
  <1>1. TypeOK'
    BY DEF TypeOK, Stages, Waits
  <1>2. RuntimeInv'
    BY DEF TypeOK, RuntimeInv, RecordInv, Ending, Registered
  <1>3. UserInv'
    BY DEF TypeOK, UserInv, RuntimeInv, Registered, Ending
  <1>4. CloseInv'
    BY DEF TypeOK, CloseInv, Registered
  <1>5. NoOrphanRuntime'
    BY DEF TypeOK, NoOrphanRuntime, RuntimeInv, Registered, RecordInv, Ending
  <1>6. CallInv' /\ RecordInv' /\ IdentityUnique'
    BY DEF CallInv, RecordInv, IdentityUnique, Owns, Registered
  <1> QED
    BY <1>1, <1>2, <1>3, <1>4, <1>5, <1>6 DEF IInv

(* A close is requested.                                                   *)
LEMMA CloseKeeps ==
    ASSUME IInv, NEW k \in Closers, Close(k)
    PROVE  IInv'
  <1> USE NoneAssumption, ResumesAssumption
          DEF IInv, Close, registry, creation, runtimes, users, closure
  <1>1. TypeOK'
    BY DEF TypeOK, Stages, Waits
  <1>2. CloseInv'
    <2>1. Registered' = Registered
      BY DEF Registered
    <2> QED
      BY <2>1 DEF TypeOK, CloseInv
  <1>3. CallInv' /\ RecordInv' /\ RuntimeInv' /\ UserInv' /\ NoOrphanRuntime' /\ IdentityUnique'
    BY DEF CallInv, RecordInv, RuntimeInv, Registered, UserInv, NoOrphanRuntime,
           IdentityUnique, Owns
  <1> QED
    BY <1>1, <1>2, <1>3 DEF IInv

(* From here on nothing is added to what close waits for.                  *)
LEMMA CloseBeginsKeeps ==
    ASSUME IInv, CloseBegins
    PROVE  IInv'
  <1> USE NoneAssumption, ResumesAssumption
          DEF IInv, CloseBegins, StartDeletion, registry, creation, runtimes, users,
              closure
  <1>1. TypeOK'
    BY DEF TypeOK, Stages, Waits, Registered
  <1>2. RuntimeInv'
    BY DEF TypeOK, RuntimeInv, RecordInv, Ending, Registered
  <1>3. UserInv'
    BY DEF TypeOK, UserInv, RuntimeInv, Registered, Ending
  <1>4. CloseInv'
    BY DEF TypeOK, CloseInv, Registered
  <1>5. NoOrphanRuntime'
    BY DEF TypeOK, NoOrphanRuntime, RuntimeInv, Registered, RecordInv, Ending
  <1>6. CallInv' /\ RecordInv' /\ IdentityUnique'
    BY DEF CallInv, RecordInv, IdentityUnique, Owns, Registered
  <1> QED
    BY <1>1, <1>2, <1>3, <1>4, <1>5, <1>6 DEF IInv

(* Everything close waited for has gone.                                   *)
LEMMA CloseEndsKeeps ==
    ASSUME IInv, CloseEnds
    PROVE  IInv'
  <1> USE NoneAssumption, ResumesAssumption
          DEF IInv, CloseEnds, registry, creation, runtimes, users, closure
  <1>1. TypeOK'
    BY DEF TypeOK, Stages, Waits
  <1>2. CallInv'
    BY DEF TypeOK, CallInv, CloseInv, Underway, Reserved, RecordInv, IdentityUnique, Owns,
           Registered
  <1>3. CloseInv'
    BY DEF TypeOK, CloseInv, Registered
  <1>4. IdentityUnique'
    BY DEF TypeOK, IdentityUnique, Owns, Registered, CallInv, RecordInv, Underway, Reserved
  <1>5. RecordInv' /\ RuntimeInv' /\ UserInv' /\ NoOrphanRuntime'
    BY DEF RecordInv, RuntimeInv, Registered, UserInv, NoOrphanRuntime
  <1> QED
    BY <1>1, <1>2, <1>3, <1>4, <1>5 DEF IInv

(* Steps that change none of this: callers that return or are cancelled,   *)
(* and sessions that stop.                                                 *)
LEMMA QuietStepKeeps ==
    ASSUME IInv, TypeOK', UNCHANGED <<registry, pc, handle, sid, phase, got, closing, awaited>>
    PROVE  IInv'
  <1> USE DEF IInv, registry, Registered
  <1>1. CallInv' /\ RecordInv' /\ RuntimeInv'
    BY DEF CallInv, RecordInv, RuntimeInv
  <1>2. UserInv' /\ CloseInv' /\ NoOrphanRuntime'
    BY DEF UserInv, CloseInv, NoOrphanRuntime
  <1>3. IdentityUnique'
    BY DEF IdentityUnique, Owns
  <1> QED
    BY <1>1, <1>2, <1>3

(* Initially nothing is owned.                                             *)
LEMMA InitInv == Init => IInv
  <1> SUFFICES ASSUME Init
               PROVE  IInv
    OBVIOUS
  <1> USE NoneAssumption DEF Init
  <1>0. Registered = {}
    BY DEF Registered
  <1>1. TypeOK
    BY DEF TypeOK, Stages, Waits
  <1>2. CallInv /\ RecordInv /\ RuntimeInv
    BY <1>0 DEF CallInv, RecordInv, RuntimeInv, Underway, Reserved
  <1>3. UserInv /\ CloseInv /\ NoOrphanRuntime
    BY <1>0 DEF UserInv, CloseInv, NoOrphanRuntime
  <1>4. IdentityUnique
    BY <1>0 DEF IdentityUnique, Owns
  <1> QED
    BY <1>1, <1>2, <1>3, <1>4 DEF IInv

(* Every step keeps the invariant.                                         *)
LEMMA StepInv == IInv /\ [Next]_vars => IInv'
  <1> SUFFICES ASSUME IInv, [Next]_vars
               PROVE  IInv'
    OBVIOUS
  <1>1. ASSUME NEW c \in Creators, CreatorNext(c)
        PROVE  IInv'
    BY <1>1, BeginKeeps, RefuseKeeps, LoadedKeeps, AbandonKeeps, FactoryReturnsKeeps,
       StartReturnsKeeps, StartFailsKeeps, RollbackEndsKeeps, RollbackCancelledKeeps
       DEF CreatorNext
  <1>2. ASSUME NEW c \in Creators, RuntimeNext(c)
        PROVE  IInv'
    <2>1. CASE SessionStops(c)
      BY <2>1, QuietStepKeeps
         DEF IInv, TypeOK, SessionStops, registry, creation, users, closure
    <2> QED
      BY <1>2, <2>1, SessionClosedKeeps, ScopeClosedKeeps DEF RuntimeNext
  <1>3. ASSUME NEW h \in Handles, DeletionEnds(h)
        PROVE  IInv'
    BY <1>3, DeletionEndsKeeps
  <1>4. ASSUME NEW u \in Users, UserNext(u)
        PROVE  IInv'
    <2> USE DEF IInv, TypeOK, Waits, registry, creation, runtimes, users, closure
    <2>1. CASE \E h \in Handles : Get(u, h) \/ Delete(u, h)
      BY <2>1, GetKeeps, DeleteKeeps
    <2>2. CASE NotFound(u)
      BY <2>2, QuietStepKeeps DEF NotFound
    <2>3. CASE UserReturns(u)
      BY <2>3, QuietStepKeeps DEF UserReturns
    <2>4. CASE UserCancelled(u)
      BY <2>4, QuietStepKeeps DEF UserCancelled
    <2> QED
      BY <1>4, <2>1, <2>2, <2>3, <2>4 DEF UserNext
  <1>5. ASSUME NEW k \in Closers, Close(k) \/ CloserReturns(k) \/ CloserCancelled(k)
        PROVE  IInv'
    <2> USE DEF IInv, TypeOK, Waits, registry, creation, runtimes, users
    <2>1. CASE CloserReturns(k)
      BY <2>1, QuietStepKeeps DEF CloserReturns
    <2>2. CASE CloserCancelled(k)
      BY <2>2, QuietStepKeeps DEF CloserCancelled
    <2> QED
      BY <1>5, <2>1, <2>2, CloseKeeps
  <1>6. CASE CloseBegins \/ CloseEnds
    BY <1>6, CloseBeginsKeeps, CloseEndsKeeps
  <1>7. CASE UNCHANGED vars
    BY <1>7, QuietStepKeeps
       DEF IInv, TypeOK, vars, registry, creation, runtimes, users, closure
  <1> QED
    BY <1>1, <1>2, <1>3, <1>4, <1>5, <1>6, <1>7 DEF Next

-----------------------------------------------------------------------------
(* Ownership is an invariant of the service.                               *)
THEOREM ServiceInvariant == Spec => []IInv
  BY InitInv, StepInv, PTL DEF Spec

(* No runtime is left behind: whatever failed, was cancelled or raced the  *)
(* close of the service, one that nobody has begun to close is with its    *)
(* call or in a record that is not being deleted.                          *)
THEOREM RuntimesOwned == Spec => []NoOrphanRuntime
  <1>1. IInv => NoOrphanRuntime
    BY DEF IInv
  <1> QED
    BY <1>1, ServiceInvariant, PTL

(* Two live sandboxes never share a handle or a session identifier, and a  *)
(* reservation belongs to a call that will release it.                     *)
THEOREM IdentitiesUnique == Spec => []IdentityUnique
  <1>1. IInv => IdentityUnique
    BY DEF IInv
  <1> QED
    BY <1>1, ServiceInvariant, PTL

(* A closed service has no record, no call under way, no reservation, no   *)
(* runtime that is not closing and no handed-out session that is not       *)
(* closed.                                                                 *)
THEOREM ClosedServiceIsEmpty == Spec => []ClosedIsEmpty
  <1>1. IInv => ClosedIsEmpty
    <2> SUFFICES ASSUME IInv, svc = "closed"
                 PROVE  /\ Registered = {} /\ pending = {} /\ heldHandles = {} /\ heldIds = {}
                        /\ \A c \in Creators : phase[c] # "built"
                        /\ \A u \in Users : got[u] # None => phase[got[u]] = "closed"
      BY DEF ClosedIsEmpty
    <2>1. Registered = {} /\ pending = {} /\ heldHandles = {} /\ heldIds = {}
      BY DEF IInv, CloseInv
    <2>2. \A c \in Creators : phase[c] # "built"
      BY <2>1 DEF IInv, NoOrphanRuntime, CallInv, Underway
    <2>3. \A u \in Users : got[u] # None => phase[got[u]] = "closed"
      BY <2>1 DEF IInv, UserInv
    <2> QED
      BY <2>1, <2>2, <2>3
  <1> QED
    BY <1>1, ServiceInvariant, PTL

(* A lookup returns only a session that was started and whose deletion has *)
(* not begun, although delete, close and failures race it.                 *)
THEOREM LookupsLive == Spec => LookupIsLive
  <1> DEFINE Live == \A u \in Users : got'[u] # got[u] =>
                        session[got'[u]] = "running" /\ phase[got'[u]] = "built"
  <1>1. IInv /\ [Next]_vars => [Live]_vars
    <2> SUFFICES ASSUME IInv, Next
                 PROVE  Live
      OBVIOUS
    <2> USE DEF registry, creation, runtimes, users, closure
    <2>1. ASSUME NEW u \in Users, NEW h \in Handles, Get(u, h)
          PROVE  Live
      BY <2>1, NoneAssumption DEF Get, IInv, TypeOK, RuntimeInv, Registered
    <2>2. ASSUME got' = got
          PROVE  Live
      BY <2>2
    <2>3. ASSUME NEW c \in Creators, CreatorNext(c) \/ RuntimeNext(c)
          PROVE  got' = got
      BY <2>3 DEF CreatorNext, RuntimeNext, Begin, Refuse, Loaded, Abandon, FactoryReturns,
                  StartReturns, StartFails, RollbackEnds, RollbackCancelled, SessionClosed,
                  ScopeClosed, SessionStops
    <2>4. ASSUME NEW u \in Users, NEW h \in Handles, Delete(u, h)
          PROVE  got' = got
      BY <2>4 DEF Delete
    <2>5. ASSUME NEW u \in Users, NotFound(u) \/ UserReturns(u) \/ UserCancelled(u)
          PROVE  got' = got
      BY <2>5 DEF NotFound, UserReturns, UserCancelled
    <2>6. ASSUME NEW k \in Closers, Close(k) \/ CloserReturns(k) \/ CloserCancelled(k)
          PROVE  got' = got
      BY <2>6 DEF Close, CloserReturns, CloserCancelled
    <2>7. ASSUME CloseBegins \/ CloseEnds \/ \E h \in Handles : DeletionEnds(h)
          PROVE  got' = got
      BY <2>7 DEF CloseBegins, CloseEnds, DeletionEnds
    <2> QED
      BY <2>1, <2>2, <2>3, <2>4, <2>5, <2>6, <2>7 DEF Next, UserNext
  <1> QED
    BY <1>1, ServiceInvariant, PTL DEF Spec, LookupIsLive
=============================================================================
