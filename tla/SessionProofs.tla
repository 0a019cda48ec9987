--------------------------- MODULE SessionProofs ---------------------------
(***************************************************************************)
(* Proofs about Session for any number of calls, starters and closers.     *)
(* The inductive invariant is IInv of Session: the types, the exclusion of *)
(* the operation gate, and what the lifecycle, the leases, the tracked     *)
(* HTTP tasks and the event numbers need of each other.  Each conjunct has *)
(* a lemma that every step preserves it.  What the calls come to needs the *)
(* invariant OInv on top of it, in the second half.                        *)
(***************************************************************************)
EXTENDS Session, SequenceTheorems, TLAPS

-----------------------------------------------------------------------------
(* Types. *)

(* What the operators shared by several actions do to the types.           *)
LEMMA DeliverType ==
    ASSUME EventType, NEW a \in Actors, NEW t \in EventTypes, Deliver(a, t)
    PROVE  log' \in Seq([n : Nat, type : EventTypes, by : Actors])
  BY DEF EventType, Deliver

(* Taking an event number keeps the counter and the numbers in use natural.*)
LEMMA NewEventType ==
    ASSUME EventType, NEW a \in Actors, NewEvent(a)
    PROVE  seq' \in Nat /\ ev' \in [Actors -> Nat]
  BY DEF EventType, NewEvent

(* Ending an action, with or without leases to close, keeps the types.     *)
LEMMA EndActionType ==
    ASSUME TypeOK, NEW o \in Ops, NEW v \in Verdicts, EndAction(o, v)
    PROVE  /\ seq' \in Nat /\ ev' \in [Actors -> Nat]
           /\ verdict' \in [Ops -> Verdicts]
           /\ pc' \in [Ops -> {"idle", "gate", "done"} \cup InOperation]
  <1>1. seq' \in Nat /\ ev' \in [Actors -> Nat]
    BY NewEventType DEF TypeOK, EventType, EndAction, BeginTerminal, Actors
  <1>2. /\ verdict' \in [Ops -> Verdicts]
        /\ pc' \in [Ops -> {"idle", "gate", "done"} \cup InOperation]
    BY DEF TypeOK, CallType, EndAction, BeginTerminal, InOperation
  <1> QED
    BY <1>1, <1>2

(* Entering a collaborator step, or being refused it, keeps the types.     *)
LEMMA EnterStepType ==
    ASSUME TypeOK, NEW o \in Ops, NEW s \in Steps, EnterStep(o, s)
    PROVE  /\ seq' \in Nat /\ ev' \in [Actors -> Nat]
           /\ verdict' \in [Ops -> Verdicts]
           /\ pc' \in [Ops -> {"idle", "gate", "done"} \cup InOperation]
           /\ step' \in [Ops -> Steps]
           /\ task' \in [Ops -> {"none", "run", "ok", "error", "unprovable", "settled"}]
  <1> USE DEF TypeOK, EventType, CallType
  <1>1. CASE EndAction(o, "timed_out") /\ UNCHANGED <<step, task>>
    BY <1>1, EndActionType DEF Verdicts
  <1>2. CASE EndAction(o, "cancelled") /\ UNCHANGED <<step, task>>
    BY <1>2, EndActionType DEF Verdicts
  <1>3. CASE /\ pc' = [pc EXCEPT ![o] = IF s = "publish" THEN "publish" ELSE "collab"]
             /\ step' = [step EXCEPT ![o] = s]
             /\ task' = [task EXCEPT ![o] = "run"]
             /\ UNCHANGED <<seq, ev, verdict>>
    BY <1>3 DEF InOperation
  <1> QED
    BY <1>1, <1>2, <1>3 DEF EnterStep

(* Completing an action keeps the types.                                   *)
LEMMA CompleteType ==
    ASSUME TypeOK, NEW o \in Ops, Complete(o)
    PROVE  /\ seq' \in Nat /\ ev' \in [Actors -> Nat]
           /\ verdict' \in [Ops -> Verdicts]
           /\ pc' \in [Ops -> {"idle", "gate", "done"} \cup InOperation]
  <1>1. seq' \in Nat /\ ev' \in [Actors -> Nat]
    BY NewEventType DEF TypeOK, Complete, BeginTerminal, Actors
  <1>2. /\ verdict' \in [Ops -> Verdicts]
        /\ pc' \in [Ops -> {"idle", "gate", "done"} \cup InOperation]
    BY DEF TypeOK, CallType, Complete, BeginTerminal, InOperation, Verdicts
  <1> QED
    BY <1>1, <1>2

(* The step that follows a collaborator step is a step.                    *)
LEMMA StepTypes ==
    ASSUME TypeOK, NEW o \in Ops
    PROVE  NextStep(o) \in Steps
  <1>1. FirstStep(o) \in Steps
    BY KindAssumption DEF FirstStep, Steps, Kinds, TypeOK, CallType
  <1> QED
    BY <1>1 DEF NextStep, Steps, TypeOK, CallType

(* Accepting the result of a step keeps the types.                         *)
LEMMA AdvanceType ==
    ASSUME TypeOK, NEW o \in Ops, Advance(o)
    PROVE  /\ seq' \in Nat /\ ev' \in [Actors -> Nat]
           /\ verdict' \in [Ops -> Verdicts]
           /\ pc' \in [Ops -> {"idle", "gate", "done"} \cup InOperation]
           /\ step' \in [Ops -> Steps]
           /\ task' \in [Ops -> {"none", "run", "ok", "error", "unprovable", "settled"}]
  <1>1. CASE /\ pc' = [pc EXCEPT ![o] = "leases"]
             /\ UNCHANGED <<seq, ev, verdict, step, task, ctx>>
    BY <1>1 DEF TypeOK, EventType, CallType, InOperation
  <1>2. CASE EnterStep(o, NextStep(o))
    BY <1>2, StepTypes, EnterStepType
  <1>3. CASE Complete(o) /\ UNCHANGED <<step, task>>
    BY <1>3, CompleteType DEF TypeOK, CallType
  <1> QED
    BY <1>1, <1>2, <1>3 DEF Advance

(* The terminal event of any verdict is an event type.                     *)
LEMMA TerminalTypes ==
    ASSUME TypeOK, NEW o \in Ops
    PROVE  TerminalType(verdict[o]) \in EventTypes
  BY DEF TypeOK, CallType, TerminalType, EventTypes, Verdicts

(* Every step keeps the types.                                             *)
LEMMA TypeStep ==
    ASSUME TypeOK, [Next]_vars
    PROVE  TypeOK'
  <1>1. ASSUME NEW o \in Ops, OpNext(o)
        PROVE  TypeOK'
    <2>1. CASE Call(o)
      <3>1. LifecycleType'
        BY <2>1 DEF TypeOK, LifecycleType, Call, lifecycle, Actors
      <3>2. EventType'
        BY <2>1 DEF TypeOK, EventType, Call, events
      <3>3. DataType'
        BY <2>1 DEF TypeOK, DataType, Call, data
      <3>4. CallType'
        BY <2>1 DEF TypeOK, CallType, Call, Return, DataType, InOperation
      <3> QED
        BY <3>1, <3>2, <3>3, <3>4 DEF TypeOK
    <2>2. CASE GateRefuses(o)
      <3>1. LifecycleType'
        BY <2>2 DEF TypeOK, LifecycleType, GateRefuses, lifecycle, Actors
      <3>2. EventType'
        BY <2>2 DEF TypeOK, EventType, GateRefuses, events
      <3>3. DataType'
        BY <2>2 DEF TypeOK, DataType, GateRefuses, data
      <3>4. CallType'
        BY <2>2 DEF TypeOK, CallType, GateRefuses, Return, InOperation
      <3> QED
        BY <3>1, <3>2, <3>3, <3>4 DEF TypeOK
    <2>3. CASE Acquire(o)
      <3>1. LifecycleType'
        BY <2>3 DEF TypeOK, LifecycleType, Acquire, lifecycle, Actors
      <3>2. EventType'
        BY <2>3, NewEventType DEF TypeOK, EventType, Acquire, Actors
      <3>3. DataType'
        BY <2>3 DEF TypeOK, DataType, Acquire, data
      <3>4. CallType'
        BY <2>3 DEF TypeOK, CallType, Acquire, Return, InOperation
      <3> QED
        BY <3>1, <3>2, <3>3, <3>4 DEF TypeOK
    <2>4. CASE StartedDelivered(o)
      <3>1. LifecycleType'
        BY <2>4 DEF TypeOK, LifecycleType, StartedDelivered, lifecycle, Actors
      <3>2. EventType'
        BY <2>4, DeliverType, EnterStepType DEF TypeOK, EventType, StartedDelivered,
           Actors, EventTypes, Steps
      <3>3. DataType'
        BY <2>4 DEF TypeOK, DataType, StartedDelivered, data
      <3>4. CallType'
        BY <2>4, EnterStepType DEF TypeOK, CallType, StartedDelivered, Steps, InOperation
      <3> QED
        BY <3>1, <3>2, <3>3, <3>4 DEF TypeOK
    <2>5. CASE StartedLost(o)
      <3>1. LifecycleType'
        BY <2>5 DEF TypeOK, LifecycleType, StartedLost, lifecycle, Actors, Release
      <3>2. EventType'
        BY <2>5 DEF TypeOK, EventType, StartedLost, events
      <3>3. DataType'
        BY <2>5 DEF TypeOK, DataType, StartedLost, data
      <3>4. CallType'
        BY <2>5 DEF TypeOK, CallType, StartedLost, Return, InOperation
      <3> QED
        BY <3>1, <3>2, <3>3, <3>4 DEF TypeOK
    <2>6. CASE CommandMutates(o)
      <3>1. LifecycleType'
        BY <2>6 DEF TypeOK, LifecycleType, CommandMutates, lifecycle, Actors
      <3>2. EventType'
        BY <2>6 DEF TypeOK, EventType, CommandMutates, events
      <3>3. DataType'
        BY <2>6 DEF TypeOK, DataType, CommandMutates, data
      <3>4. CallType'
        BY <2>6 DEF TypeOK, CallType, CommandMutates, calls, InOperation
      <3> QED
        BY <3>1, <3>2, <3>3, <3>4 DEF TypeOK
    <2>7. CASE TaskReturns(o)
      <3>1. LifecycleType'
        BY <2>7 DEF TypeOK, LifecycleType, TaskReturns, lifecycle, Actors
      <3>2. EventType'
        BY <2>7 DEF TypeOK, EventType, TaskReturns, events
      <3>3. DataType'
        BY <2>7 DEF TypeOK, DataType, TaskReturns, data
      <3>4. CallType'
        BY <2>7 DEF TypeOK, CallType, TaskReturns, InOperation
      <3> QED
        BY <3>1, <3>2, <3>3, <3>4 DEF TypeOK
    <2>8. CASE TaskRaises(o)
      <3>1. LifecycleType'
        BY <2>8 DEF TypeOK, LifecycleType, TaskRaises, lifecycle, Actors
      <3>2. EventType'
        BY <2>8 DEF TypeOK, EventType, TaskRaises, events
      <3>3. DataType'
        BY <2>8 DEF TypeOK, DataType, TaskRaises, data
      <3>4. CallType'
        BY <2>8 DEF TypeOK, CallType, TaskRaises, InOperation
      <3> QED
        BY <3>1, <3>2, <3>3, <3>4 DEF TypeOK
    <2>9. CASE TaskSettles(o)
      <3>1. LifecycleType'
        BY <2>9 DEF TypeOK, LifecycleType, TaskSettles, lifecycle, Actors
      <3>2. EventType'
        BY <2>9 DEF TypeOK, EventType, TaskSettles, events
      <3>3. DataType'
        BY <2>9 DEF TypeOK, DataType, TaskSettles, data
      <3>4. CallType'
        BY <2>9 DEF TypeOK, CallType, TaskSettles, InOperation
      <3> QED
        BY <3>1, <3>2, <3>3, <3>4 DEF TypeOK
    <2>10. CASE CollabReturns(o)
      <3>1. LifecycleType'
        BY <2>10 DEF TypeOK, LifecycleType, CollabReturns, lifecycle, Actors
      <3>2. EventType'
        BY <2>10, AdvanceType, EndActionType DEF TypeOK, EventType, CollabReturns,
           Actors, Verdicts
      <3>3. DataType'
        BY <2>10 DEF TypeOK, DataType, CollabReturns, data, Advance
      <3>4. CallType'
        BY <2>10, AdvanceType, EndActionType DEF TypeOK, CallType, CollabReturns,
           Verdicts, InOperation
      <3> QED
        BY <3>1, <3>2, <3>3, <3>4 DEF TypeOK
    <2>11. CASE CollabRaises(o)
      <3>1. LifecycleType'
        BY <2>11 DEF TypeOK, LifecycleType, CollabRaises, lifecycle, Actors
      <3>2. EventType'
        BY <2>11, EndActionType DEF TypeOK, EventType, CollabRaises, Actors,
           Verdicts, CallType
      <3>3. DataType'
        BY <2>11 DEF TypeOK, DataType, CollabRaises, data
      <3>4. CallType'
        BY <2>11, EndActionType DEF TypeOK, CallType, CollabRaises, Verdicts, InOperation
      <3> QED
        BY <3>1, <3>2, <3>3, <3>4 DEF TypeOK
    <2>12. CASE CollabInterrupted(o)
      <3>1. LifecycleType'
        BY <2>12 DEF TypeOK, LifecycleType, CollabInterrupted, lifecycle, Actors
      <3>2. EventType'
        BY <2>12 DEF TypeOK, EventType, CollabInterrupted, events
      <3>3. DataType'
        BY <2>12 DEF TypeOK, DataType, CollabInterrupted, data, AbandonTask
      <3>4. CallType'
        BY <2>12 DEF TypeOK, CallType, CollabInterrupted, AbandonTask, Verdicts, InOperation
      <3> QED
        BY <3>1, <3>2, <3>3, <3>4 DEF TypeOK
    <2>13. CASE SettleReturns(o)
      <3>1. LifecycleType'
        BY <2>13 DEF TypeOK, LifecycleType, SettleReturns, lifecycle, Actors
      <3>2. EventType'
        BY <2>13, EndActionType DEF TypeOK, EventType, SettleReturns, Actors,
           Verdicts, CallType
      <3>3. DataType'
        BY <2>13 DEF TypeOK, DataType, SettleReturns, data
      <3>4. CallType'
        BY <2>13, EndActionType DEF TypeOK, CallType, SettleReturns, Verdicts, InOperation
      <3> QED
        BY <3>1, <3>2, <3>3, <3>4 DEF TypeOK
    <2>14. CASE SettleGivesUp(o)
      <3>1. LifecycleType'
        BY <2>14 DEF TypeOK, LifecycleType, SettleGivesUp, lifecycle, Actors,
           FailClosed, States
      <3>2. EventType'
        BY <2>14, EndActionType DEF TypeOK, EventType, SettleGivesUp, Actors,
           Verdicts, CallType
      <3>3. DataType'
        BY <2>14 DEF TypeOK, DataType, SettleGivesUp, data
      <3>4. CallType'
        BY <2>14, EndActionType DEF TypeOK, CallType, SettleGivesUp, Verdicts, InOperation
      <3> QED
        BY <3>1, <3>2, <3>3, <3>4 DEF TypeOK
    <2>15. CASE CloseLease(o)
      <3>1. LifecycleType'
        BY <2>15 DEF TypeOK, LifecycleType, CloseLease, lifecycle, Actors
      <3>2. EventType'
        BY <2>15 DEF TypeOK, EventType, CloseLease, events
      <3>3. DataType'
        BY <2>15 DEF TypeOK, DataType, CloseLease, data
      <3>4. CallType'
        BY <2>15 DEF TypeOK, CallType, CloseLease, Verdicts, InOperation
      <3> QED
        BY <3>1, <3>2, <3>3, <3>4 DEF TypeOK
    <2>16. CASE LeasesClosed(o)
      <3>1. LifecycleType'
        BY <2>16 DEF TypeOK, LifecycleType, LeasesClosed, lifecycle, Actors
      <3>2. EventType'
        BY <2>16, EnterStepType, NewEventType DEF TypeOK, EventType, LeasesClosed,
           Actors, Steps, BeginTerminal
      <3>3. DataType'
        BY <2>16 DEF TypeOK, DataType, LeasesClosed, data
      <3>4. CallType'
        BY <2>16, EnterStepType DEF TypeOK, CallType, LeasesClosed, Steps,
           BeginTerminal, Verdicts, InOperation
      <3> QED
        BY <3>1, <3>2, <3>3, <3>4 DEF TypeOK
    <2>17. CASE PublishReturns(o)
      <3>1. LifecycleType'
        BY <2>17 DEF TypeOK, LifecycleType, PublishReturns, lifecycle, Actors
      <3>2. EventType'
        BY <2>17, CompleteType DEF TypeOK, EventType, PublishReturns, Actors
      <3>3. DataType'
        BY <2>17 DEF TypeOK, DataType, PublishReturns, data
      <3>4. CallType'
        BY <2>17, CompleteType DEF TypeOK, CallType, PublishReturns, InOperation
      <3> QED
        BY <3>1, <3>2, <3>3, <3>4 DEF TypeOK
    <2>18. CASE PublishRaises(o)
      <3>1. LifecycleType'
        BY <2>18 DEF TypeOK, LifecycleType, PublishRaises, lifecycle, Actors, States
      <3>2. EventType'
        BY <2>18, EndActionType, NewEventType DEF TypeOK, EventType, PublishRaises,
           Actors, Verdicts, CallType
      <3>3. DataType'
        BY <2>18 DEF TypeOK, DataType, PublishRaises, data
      <3>4. CallType'
        BY <2>18, EndActionType DEF TypeOK, CallType, PublishRaises, Verdicts, InOperation
      <3> QED
        BY <3>1, <3>2, <3>3, <3>4 DEF TypeOK
    <2>19. CASE PublishInterrupted(o)
      <3>1. LifecycleType'
        BY <2>19 DEF TypeOK, LifecycleType, PublishInterrupted, lifecycle, Actors
      <3>2. EventType'
        BY <2>19, EndActionType DEF TypeOK, EventType, PublishInterrupted, Actors,
           Verdicts, CallType
      <3>3. DataType'
        BY <2>19 DEF TypeOK, DataType, PublishInterrupted, data
      <3>4. CallType'
        BY <2>19, EndActionType DEF TypeOK, CallType, PublishInterrupted, Verdicts,
           InOperation
      <3> QED
        BY <3>1, <3>2, <3>3, <3>4 DEF TypeOK
    <2>20. CASE FailedEvent(o)
      <3>1. LifecycleType'
        BY <2>20 DEF TypeOK, LifecycleType, FailedEvent, lifecycle, Actors
      <3>2. EventType'
        BY <2>20, DeliverType, EndActionType DEF TypeOK, EventType, FailedEvent,
           Actors, EventTypes, Verdicts, CallType
      <3>3. DataType'
        BY <2>20 DEF TypeOK, DataType, FailedEvent, data
      <3>4. CallType'
        BY <2>20, EndActionType DEF TypeOK, CallType, FailedEvent, Verdicts, InOperation
      <3> QED
        BY <3>1, <3>2, <3>3, <3>4 DEF TypeOK
    <2>21. CASE PostEvent(o)
      <3>1. LifecycleType'
        BY <2>21 DEF TypeOK, LifecycleType, PostEvent, lifecycle, Actors
      <3>2. EventType'
        BY <2>21, DeliverType, NewEventType DEF TypeOK, EventType, PostEvent,
           Actors, EventTypes, BeginTerminal
      <3>3. DataType'
        BY <2>21 DEF TypeOK, DataType, PostEvent, data
      <3>4. CallType'
        BY <2>21 DEF TypeOK, CallType, PostEvent, BeginTerminal, Verdicts, InOperation
      <3> QED
        BY <3>1, <3>2, <3>3, <3>4 DEF TypeOK
    <2>22. CASE TerminalDelivered(o)
      <3>1. LifecycleType'
        BY <2>22 DEF TypeOK, LifecycleType, TerminalDelivered, lifecycle, Actors, Release
      <3>2. EventType'
        BY <2>22, DeliverType, TerminalTypes DEF TypeOK, EventType,
           TerminalDelivered, Actors, EventTypes
      <3>3. DataType'
        BY <2>22 DEF TypeOK, DataType, TerminalDelivered, data
      <3>4. CallType'
        BY <2>22 DEF TypeOK, CallType, TerminalDelivered, Return, TerminalResult,
           InOperation
      <3> QED
        BY <3>1, <3>2, <3>3, <3>4 DEF TypeOK
    <2>23. CASE TerminalLost(o)
      <3>1. LifecycleType'
        BY <2>23 DEF TypeOK, LifecycleType, TerminalLost, lifecycle, Actors, Release
      <3>2. EventType'
        BY <2>23 DEF TypeOK, EventType, TerminalLost, events
      <3>3. DataType'
        BY <2>23 DEF TypeOK, DataType, TerminalLost, data
      <3>4. CallType'
        BY <2>23 DEF TypeOK, CallType, TerminalLost, Return, InOperation
      <3> QED
        BY <3>1, <3>2, <3>3, <3>4 DEF TypeOK
    <2>24. CASE CancelQueued(o)
      <3>1. LifecycleType'
        BY <2>24 DEF TypeOK, LifecycleType, CancelQueued, lifecycle, Actors
      <3>2. EventType'
        BY <2>24 DEF TypeOK, EventType, CancelQueued, events
      <3>3. DataType'
        BY <2>24 DEF TypeOK, DataType, CancelQueued, data
      <3>4. CallType'
        BY <2>24 DEF TypeOK, CallType, CancelQueued, Return, InOperation
      <3> QED
        BY <3>1, <3>2, <3>3, <3>4 DEF TypeOK
    <2>25. CASE CancelEmit(o)
      <3>1. LifecycleType'
        BY <2>25 DEF TypeOK, LifecycleType, CancelEmit, lifecycle, Actors, Release
      <3>2. EventType'
        BY <2>25, NewEventType DEF TypeOK, EventType, CancelEmit, Actors, BeginTerminal
      <3>3. DataType'
        BY <2>25 DEF TypeOK, DataType, CancelEmit, data
      <3>4. CallType'
        BY <2>25 DEF TypeOK, CallType, CancelEmit, Return, BeginTerminal, Verdicts,
           InOperation
      <3> QED
        BY <3>1, <3>2, <3>3, <3>4 DEF TypeOK
    <2>26. CASE CancelCollab(o)
      <3>1. LifecycleType'
        BY <2>26 DEF TypeOK, LifecycleType, CancelCollab, lifecycle, Actors
      <3>2. EventType'
        BY <2>26, AdvanceType, EndActionType DEF TypeOK, EventType, CancelCollab,
           Actors, Verdicts
      <3>3. DataType'
        BY <2>26 DEF TypeOK, DataType, CancelCollab, data, Advance, AbandonTask
      <3>4. CallType'
        BY <2>26, AdvanceType, EndActionType DEF TypeOK, CallType, CancelCollab,
           Verdicts, AbandonTask, InOperation
      <3> QED
        BY <3>1, <3>2, <3>3, <3>4 DEF TypeOK
    <2>27. CASE CancelSettle(o)
      <3>1. LifecycleType'
        BY <2>27 DEF TypeOK, LifecycleType, CancelSettle, lifecycle, Actors,
           FailClosed, States
      <3>2. EventType'
        BY <2>27, EndActionType DEF TypeOK, EventType, CancelSettle, Actors,
           Verdicts, CallType
      <3>3. DataType'
        BY <2>27 DEF TypeOK, DataType, CancelSettle, data
      <3>4. CallType'
        BY <2>27, EndActionType DEF TypeOK, CallType, CancelSettle, Verdicts, InOperation
      <3> QED
        BY <3>1, <3>2, <3>3, <3>4 DEF TypeOK
    <2>28. CASE CancelLeases(o)
      <3>1. LifecycleType'
        BY <2>28 DEF TypeOK, LifecycleType, CancelLeases, lifecycle, Actors
      <3>2. EventType'
        BY <2>28 DEF TypeOK, EventType, CancelLeases, events
      <3>3. DataType'
        BY <2>28 DEF TypeOK, DataType, CancelLeases, data
      <3>4. CallType'
        BY <2>28 DEF TypeOK, CallType, CancelLeases, Verdicts, InOperation
      <3> QED
        BY <3>1, <3>2, <3>3, <3>4 DEF TypeOK
    <2>29. CASE CancelPublish(o)
      <3>1. LifecycleType'
        BY <2>29 DEF TypeOK, LifecycleType, CancelPublish, lifecycle, Actors, States
      <3>2. EventType'
        BY <2>29, CompleteType, EndActionType DEF TypeOK, EventType, CancelPublish,
           Actors, Verdicts
      <3>3. DataType'
        BY <2>29 DEF TypeOK, DataType, CancelPublish, data
      <3>4. CallType'
        BY <2>29, CompleteType, EndActionType DEF TypeOK, CallType, CancelPublish,
           Verdicts, InOperation
      <3> QED
        BY <3>1, <3>2, <3>3, <3>4 DEF TypeOK
    <2> QED
      BY <1>1, <2>1, <2>2, <2>3, <2>4, <2>5, <2>6, <2>7, <2>8, <2>9, <2>10, <2>11,
         <2>12, <2>13, <2>14, <2>15, <2>16, <2>17, <2>18, <2>19, <2>20, <2>21, <2>22,
         <2>23, <2>24, <2>25, <2>26, <2>27, <2>28, <2>29 DEF OpNext
  <1>2. ASSUME NEW s \in Starters, StarterNext(s)
        PROVE  TypeOK'
    <2>1. CASE Start(s)
      <3>1. LifecycleType'
        BY <2>1 DEF TypeOK, LifecycleType, Start, lifecycle, Actors
      <3>2. EventType'
        BY <2>1 DEF TypeOK, EventType, Start, events
      <3>3. DataType'
        BY <2>1 DEF TypeOK, DataType, Start, data
      <3>4. CallType'
        BY <2>1 DEF TypeOK, CallType, Start, calls
      <3> QED
        BY <3>1, <3>2, <3>3, <3>4 DEF TypeOK
    <2>2. CASE StartLeaves(s)
      <3>1. LifecycleType'
        BY <2>2 DEF TypeOK, LifecycleType, StartLeaves, lifecycle, Actors
      <3>2. EventType'
        BY <2>2 DEF TypeOK, EventType, StartLeaves, events
      <3>3. DataType'
        BY <2>2 DEF TypeOK, DataType, StartLeaves, data
      <3>4. CallType'
        BY <2>2 DEF TypeOK, CallType, StartLeaves, calls
      <3> QED
        BY <3>1, <3>2, <3>3, <3>4 DEF TypeOK
    <2>3. CASE StartAcquires(s)
      <3>1. LifecycleType'
        BY <2>3 DEF TypeOK, LifecycleType, StartAcquires, lifecycle, Actors
      <3>2. EventType'
        BY <2>3, NewEventType DEF TypeOK, EventType, StartAcquires, Actors
      <3>3. DataType'
        BY <2>3 DEF TypeOK, DataType, StartAcquires, data
      <3>4. CallType'
        BY <2>3 DEF TypeOK, CallType, StartAcquires, calls
      <3> QED
        BY <3>1, <3>2, <3>3, <3>4 DEF TypeOK
    <2>4. CASE StartDelivered(s)
      <3>1. LifecycleType'
        BY <2>4 DEF TypeOK, LifecycleType, StartDelivered, lifecycle, Actors,
           Release, States
      <3>2. EventType'
        BY <2>4, DeliverType DEF TypeOK, EventType, StartDelivered, Actors, EventTypes
      <3>3. DataType'
        BY <2>4 DEF TypeOK, DataType, StartDelivered, data
      <3>4. CallType'
        BY <2>4 DEF TypeOK, CallType, StartDelivered, calls
      <3> QED
        BY <3>1, <3>2, <3>3, <3>4 DEF TypeOK
    <2>5. CASE StartLost(s)
      <3>1. LifecycleType'
        BY <2>5 DEF TypeOK, LifecycleType, StartLost, lifecycle, Actors, Release, States
      <3>2. EventType'
        BY <2>5 DEF TypeOK, EventType, StartLost, events
      <3>3. DataType'
        BY <2>5 DEF TypeOK, DataType, StartLost, data
      <3>4. CallType'
        BY <2>5 DEF TypeOK, CallType, StartLost, calls
      <3> QED
        BY <3>1, <3>2, <3>3, <3>4 DEF TypeOK
    <2> QED
      BY <1>2, <2>1, <2>2, <2>3, <2>4, <2>5 DEF StarterNext
  <1>3. ASSUME NEW c \in Closers, CloserNext(c)
        PROVE  TypeOK'
    <2>1. CASE Close(c)
      <3>1. LifecycleType'
        BY <2>1 DEF TypeOK, LifecycleType, Close, lifecycle, Actors, States
      <3>2. EventType'
        BY <2>1 DEF TypeOK, EventType, Close, events
      <3>3. DataType'
        BY <2>1 DEF TypeOK, DataType, Close, data
      <3>4. CallType'
        BY <2>1 DEF TypeOK, CallType, Close, calls
      <3> QED
        BY <3>1, <3>2, <3>3, <3>4 DEF TypeOK
    <2>2. CASE CloserCancelled(c)
      <3>1. LifecycleType'
        BY <2>2 DEF TypeOK, LifecycleType, CloserCancelled, lifecycle, Actors
      <3>2. EventType'
        BY <2>2 DEF TypeOK, EventType, CloserCancelled, events
      <3>3. DataType'
        BY <2>2 DEF TypeOK, DataType, CloserCancelled, data
      <3>4. CallType'
        BY <2>2 DEF TypeOK, CallType, CloserCancelled, calls
      <3> QED
        BY <3>1, <3>2, <3>3, <3>4 DEF TypeOK
    <2>3. CASE CloserReturns(c)
      <3>1. LifecycleType'
        BY <2>3 DEF TypeOK, LifecycleType, CloserReturns, lifecycle, Actors
      <3>2. EventType'
        BY <2>3 DEF TypeOK, EventType, CloserReturns, events
      <3>3. DataType'
        BY <2>3 DEF TypeOK, DataType, CloserReturns, data
      <3>4. CallType'
        BY <2>3 DEF TypeOK, CallType, CloserReturns, calls
      <3> QED
        BY <3>1, <3>2, <3>3, <3>4 DEF TypeOK
    <2> QED
      BY <1>3, <2>1, <2>2, <2>3 DEF CloserNext
  <1>4. ASSUME CloseNext
        PROVE  TypeOK'
    <2>1. CASE CloseAcquires
      <3>1. LifecycleType'
        BY <2>1 DEF TypeOK, LifecycleType, CloseAcquires, lifecycle, Actors
      <3>2. EventType'
        BY <2>1, NewEventType DEF TypeOK, EventType, CloseAcquires, Actors
      <3>3. DataType'
        BY <2>1 DEF TypeOK, DataType, CloseAcquires, data
      <3>4. CallType'
        BY <2>1 DEF TypeOK, CallType, CloseAcquires, calls
      <3> QED
        BY <3>1, <3>2, <3>3, <3>4 DEF TypeOK
    <2>2. CASE ClosingEvent
      <3>1. LifecycleType'
        BY <2>2 DEF TypeOK, LifecycleType, ClosingEvent, lifecycle, Actors
      <3>2. EventType'
        BY <2>2, DeliverType DEF TypeOK, EventType, ClosingEvent, Actors, EventTypes
      <3>3. DataType'
        BY <2>2 DEF TypeOK, DataType, ClosingEvent, data
      <3>4. CallType'
        BY <2>2 DEF TypeOK, CallType, ClosingEvent, calls
      <3> QED
        BY <3>1, <3>2, <3>3, <3>4 DEF TypeOK
    <2>3. CASE CloseScope
      <3>1. LifecycleType'
        BY <2>3 DEF TypeOK, LifecycleType, CloseScope, lifecycle, Actors, States
      <3>2. EventType'
        BY <2>3, NewEventType DEF TypeOK, EventType, CloseScope, Actors
      <3>3. DataType'
        BY <2>3 DEF TypeOK, DataType, CloseScope, data
      <3>4. CallType'
        BY <2>3 DEF TypeOK, CallType, CloseScope, calls
      <3> QED
        BY <3>1, <3>2, <3>3, <3>4 DEF TypeOK
    <2>4. CASE ClosedEvent
      <3>1. LifecycleType'
        BY <2>4 DEF TypeOK, LifecycleType, ClosedEvent, lifecycle, Actors, Release
      <3>2. EventType'
        BY <2>4, DeliverType DEF TypeOK, EventType, ClosedEvent, Actors, EventTypes
      <3>3. DataType'
        BY <2>4 DEF TypeOK, DataType, ClosedEvent, data
      <3>4. CallType'
        BY <2>4 DEF TypeOK, CallType, ClosedEvent, calls
      <3> QED
        BY <3>1, <3>2, <3>3, <3>4 DEF TypeOK
    <2> QED
      BY <1>4, <2>1, <2>2, <2>3, <2>4 DEF CloseNext
  <1>5. CASE UNCHANGED vars
    BY <1>5 DEF TypeOK, LifecycleType, EventType, DataType, CallType,
                vars, lifecycle, events, data, calls
  <1> QED
    BY <1>1, <1>2, <1>3, <1>4, <1>5 DEF Next

-----------------------------------------------------------------------------
(* The operation gate and the lifecycle. *)

(* Only a free gate is acquired and only its holder releases it.           *)
LEMMA GateStep ==
    ASSUME TypeOK, GateExclusion, [Next]_vars
    PROVE  GateExclusion'
  <1> USE ActorsAssumption DEF TypeOK, LifecycleType, CallType, GateExclusion,
     InOperation, Actors, lifecycle, calls
  <1>1. ASSUME NEW o \in Ops, OpNext(o)
        PROVE  GateExclusion'
    <2>1. CASE Call(o)
      BY <2>1 DEF Call, Return
    <2>2. CASE GateRefuses(o)
      BY <2>2 DEF GateRefuses, Return
    <2>3. CASE Acquire(o)
      BY <2>3 DEF Acquire, Return, NewEvent, Uncancelled
    <2>4. CASE StartedDelivered(o)
      BY <2>4 DEF StartedDelivered, Deliver, EnterStep, EndAction, BeginTerminal, NewEvent
    <2>5. CASE StartedLost(o)
      BY <2>5 DEF StartedLost, Return, Release
    <2>6. CASE CommandMutates(o)
      BY <2>6 DEF CommandMutates
    <2>7. CASE TaskReturns(o)
      BY <2>7 DEF TaskReturns
    <2>8. CASE TaskRaises(o)
      BY <2>8 DEF TaskRaises
    <2>9. CASE TaskSettles(o)
      BY <2>9 DEF TaskSettles
    <2>10. CASE CollabReturns(o)
      BY <2>10 DEF CollabReturns, Advance, Complete, EnterStep, EndAction,
         BeginTerminal, NewEvent
    <2>11. CASE CollabRaises(o)
      BY <2>11 DEF CollabRaises, EndAction, BeginTerminal, NewEvent
    <2>12. CASE CollabInterrupted(o)
      BY <2>12 DEF CollabInterrupted, AbandonTask
    <2>13. CASE SettleReturns(o)
      BY <2>13 DEF SettleReturns, EndAction, BeginTerminal, NewEvent
    <2>14. CASE SettleGivesUp(o)
      BY <2>14 DEF SettleGivesUp, FailClosed, EndAction, BeginTerminal, NewEvent
    <2>15. CASE CloseLease(o)
      BY <2>15 DEF CloseLease
    <2>16. CASE LeasesClosed(o)
      BY <2>16 DEF LeasesClosed, EnterStep, EndAction, BeginTerminal, NewEvent
    <2>17. CASE PublishReturns(o)
      BY <2>17 DEF PublishReturns, Complete, BeginTerminal, NewEvent
    <2>18. CASE PublishRaises(o)
      BY <2>18 DEF PublishRaises, EndAction, BeginTerminal, NewEvent
    <2>19. CASE PublishInterrupted(o)
      BY <2>19 DEF PublishInterrupted, EndAction, BeginTerminal, NewEvent
    <2>20. CASE FailedEvent(o)
      BY <2>20 DEF FailedEvent, Deliver, EndAction, BeginTerminal, NewEvent
    <2>21. CASE PostEvent(o)
      BY <2>21 DEF PostEvent, Deliver, BeginTerminal, NewEvent
    <2>22. CASE TerminalDelivered(o)
      BY <2>22 DEF TerminalDelivered, Deliver, Return, Release, TerminalType, TerminalResult
    <2>23. CASE TerminalLost(o)
      BY <2>23 DEF TerminalLost, Return, Release
    <2>24. CASE CancelQueued(o)
      BY <2>24 DEF CancelQueued, Return
    <2>25. CASE CancelEmit(o)
      BY <2>25 DEF CancelEmit, Return, Release, BeginTerminal, NewEvent
    <2>26. CASE CancelCollab(o)
      BY <2>26 DEF CancelCollab, Advance, Complete, EnterStep, EndAction,
         BeginTerminal, NewEvent, AbandonTask
    <2>27. CASE CancelSettle(o)
      BY <2>27 DEF CancelSettle, FailClosed, EndAction, BeginTerminal, NewEvent
    <2>28. CASE CancelLeases(o)
      BY <2>28 DEF CancelLeases
    <2>29. CASE CancelPublish(o)
      BY <2>29 DEF CancelPublish, Complete, BeginTerminal, NewEvent, EndAction
    <2> QED
      BY <1>1, <2>1, <2>2, <2>3, <2>4, <2>5, <2>6, <2>7, <2>8, <2>9, <2>10, <2>11,
         <2>12, <2>13, <2>14, <2>15, <2>16, <2>17, <2>18, <2>19, <2>20, <2>21, <2>22,
         <2>23, <2>24, <2>25, <2>26, <2>27, <2>28, <2>29 DEF OpNext
  <1>2. ASSUME NEW s \in Starters, StarterNext(s)
        PROVE  GateExclusion'
    <2>1. CASE Start(s)
      BY <2>1 DEF Start
    <2>2. CASE StartLeaves(s)
      BY <2>2 DEF StartLeaves
    <2>3. CASE StartAcquires(s)
      BY <2>3 DEF StartAcquires, NewEvent
    <2>4. CASE StartDelivered(s)
      BY <2>4 DEF StartDelivered, Deliver, Release
    <2>5. CASE StartLost(s)
      BY <2>5 DEF StartLost, Release
    <2> QED
      BY <1>2, <2>1, <2>2, <2>3, <2>4, <2>5 DEF StarterNext
  <1>3. ASSUME NEW c \in Closers, CloserNext(c)
        PROVE  GateExclusion'
    <2>1. CASE Close(c)
      BY <2>1 DEF Close
    <2>2. CASE CloserCancelled(c)
      BY <2>2 DEF CloserCancelled
    <2>3. CASE CloserReturns(c)
      BY <2>3 DEF CloserReturns
    <2> QED
      BY <1>3, <2>1, <2>2, <2>3 DEF CloserNext
  <1>4. ASSUME CloseNext
        PROVE  GateExclusion'
    <2>1. CASE CloseAcquires
      BY <2>1 DEF CloseAcquires, NewEvent
    <2>2. CASE ClosingEvent
      BY <2>2 DEF ClosingEvent, Deliver
    <2>3. CASE CloseScope
      BY <2>3 DEF CloseScope, NewEvent
    <2>4. CASE ClosedEvent
      BY <2>4 DEF ClosedEvent, Deliver, Release
    <2> QED
      BY <1>4, <2>1, <2>2, <2>3, <2>4 DEF CloseNext
  <1>5. CASE UNCHANGED vars
    BY <1>5 DEF vars
  <1> QED
    BY <1>1, <1>2, <1>3, <1>4, <1>5 DEF Next

(* CREATED is left once, and close() leaves it for good.                   *)
LEMMA LifecycleStep ==
    ASSUME TypeOK, GateExclusion, LifecycleInv, [Next]_vars
    PROVE  LifecycleInv'
  <1> USE ActorsAssumption DEF TypeOK, LifecycleType, CallType, GateExclusion,
     LifecycleInv, InOperation, Actors, lifecycle, calls
  <1>1. ASSUME NEW o \in Ops, OpNext(o)
        PROVE  LifecycleInv'
    <2>1. CASE Call(o)
      BY <2>1 DEF Call, Return
    <2>2. CASE GateRefuses(o)
      BY <2>2 DEF GateRefuses, Return
    <2>3. CASE Acquire(o)
      BY <2>3 DEF Acquire, Return, NewEvent, Uncancelled
    <2>4. CASE StartedDelivered(o)
      BY <2>4 DEF StartedDelivered, Deliver, EnterStep, EndAction, BeginTerminal, NewEvent
    <2>5. CASE StartedLost(o)
      BY <2>5 DEF StartedLost, Return, Release
    <2>6. CASE CommandMutates(o)
      BY <2>6 DEF CommandMutates
    <2>7. CASE TaskReturns(o)
      BY <2>7 DEF TaskReturns
    <2>8. CASE TaskRaises(o)
      BY <2>8 DEF TaskRaises
    <2>9. CASE TaskSettles(o)
      BY <2>9 DEF TaskSettles
    <2>10. CASE CollabReturns(o)
      BY <2>10 DEF CollabReturns, Advance, Complete, EnterStep, EndAction,
         BeginTerminal, NewEvent
    <2>11. CASE CollabRaises(o)
      BY <2>11 DEF CollabRaises, EndAction, BeginTerminal, NewEvent
    <2>12. CASE CollabInterrupted(o)
      BY <2>12 DEF CollabInterrupted, AbandonTask
    <2>13. CASE SettleReturns(o)
      BY <2>13 DEF SettleReturns, EndAction, BeginTerminal, NewEvent
    <2>14. CASE SettleGivesUp(o)
      BY <2>14 DEF SettleGivesUp, FailClosed, EndAction, BeginTerminal, NewEvent
    <2>15. CASE CloseLease(o)
      BY <2>15 DEF CloseLease
    <2>16. CASE LeasesClosed(o)
      BY <2>16 DEF LeasesClosed, EnterStep, EndAction, BeginTerminal, NewEvent
    <2>17. CASE PublishReturns(o)
      BY <2>17 DEF PublishReturns, Complete, BeginTerminal, NewEvent
    <2>18. CASE PublishRaises(o)
      BY <2>18 DEF PublishRaises, EndAction, BeginTerminal, NewEvent
    <2>19. CASE PublishInterrupted(o)
      BY <2>19 DEF PublishInterrupted, EndAction, BeginTerminal, NewEvent
    <2>20. CASE FailedEvent(o)
      BY <2>20 DEF FailedEvent, Deliver, EndAction, BeginTerminal, NewEvent
    <2>21. CASE PostEvent(o)
      BY <2>21 DEF PostEvent, Deliver, BeginTerminal, NewEvent
    <2>22. CASE TerminalDelivered(o)
      BY <2>22 DEF TerminalDelivered, Deliver, Return, Release, TerminalType, TerminalResult
    <2>23. CASE TerminalLost(o)
      BY <2>23 DEF TerminalLost, Return, Release
    <2>24. CASE CancelQueued(o)
      BY <2>24 DEF CancelQueued, Return
    <2>25. CASE CancelEmit(o)
      BY <2>25 DEF CancelEmit, Return, Release, BeginTerminal, NewEvent
    <2>26. CASE CancelCollab(o)
      BY <2>26 DEF CancelCollab, Advance, Complete, EnterStep, EndAction,
         BeginTerminal, NewEvent, AbandonTask
    <2>27. CASE CancelSettle(o)
      BY <2>27 DEF CancelSettle, FailClosed, EndAction, BeginTerminal, NewEvent
    <2>28. CASE CancelLeases(o)
      BY <2>28 DEF CancelLeases
    <2>29. CASE CancelPublish(o)
      BY <2>29 DEF CancelPublish, Complete, BeginTerminal, NewEvent, EndAction
    <2> QED
      BY <1>1, <2>1, <2>2, <2>3, <2>4, <2>5, <2>6, <2>7, <2>8, <2>9, <2>10, <2>11,
         <2>12, <2>13, <2>14, <2>15, <2>16, <2>17, <2>18, <2>19, <2>20, <2>21, <2>22,
         <2>23, <2>24, <2>25, <2>26, <2>27, <2>28, <2>29 DEF OpNext
  <1>2. ASSUME NEW s \in Starters, StarterNext(s)
        PROVE  LifecycleInv'
    <2>1. CASE Start(s)
      BY <2>1 DEF Start
    <2>2. CASE StartLeaves(s)
      BY <2>2 DEF StartLeaves
    <2>3. CASE StartAcquires(s)
      BY <2>3 DEF StartAcquires, NewEvent
    <2>4. CASE StartDelivered(s)
      BY <2>4 DEF StartDelivered, Deliver, Release
    <2>5. CASE StartLost(s)
      BY <2>5 DEF StartLost, Release
    <2> QED
      BY <1>2, <2>1, <2>2, <2>3, <2>4, <2>5 DEF StarterNext
  <1>3. ASSUME NEW c \in Closers, CloserNext(c)
        PROVE  LifecycleInv'
    <2>1. CASE Close(c)
      BY <2>1 DEF Close
    <2>2. CASE CloserCancelled(c)
      BY <2>2 DEF CloserCancelled
    <2>3. CASE CloserReturns(c)
      BY <2>3 DEF CloserReturns
    <2> QED
      BY <1>3, <2>1, <2>2, <2>3 DEF CloserNext
  <1>4. ASSUME CloseNext
        PROVE  LifecycleInv'
    <2>1. CASE CloseAcquires
      BY <2>1 DEF CloseAcquires, NewEvent
    <2>2. CASE ClosingEvent
      BY <2>2 DEF ClosingEvent, Deliver
    <2>3. CASE CloseScope
      BY <2>3 DEF CloseScope, NewEvent
    <2>4. CASE ClosedEvent
      BY <2>4 DEF ClosedEvent, Deliver, Release
    <2> QED
      BY <1>4, <2>1, <2>2, <2>3, <2>4 DEF CloseNext
  <1>5. CASE UNCHANGED vars
    BY <1>5 DEF vars
  <1> QED
    BY <1>1, <1>2, <1>3, <1>4, <1>5 DEF Next

-----------------------------------------------------------------------------
(* Leases and tracked HTTP tasks. *)

(* No step leaves the execute with a lease still to close.                 *)
LEMMA LeaseStep ==
    ASSUME TypeOK, LeaseInv, [Next]_vars
    PROVE  LeaseInv'
  <1> USE KindAssumption DEF TypeOK, CallType, LeaseInv, InOperation, lifecycle, calls,
     NextStep, FirstStep, Kinds
  <1>1. ASSUME NEW o \in Ops, OpNext(o)
        PROVE  LeaseInv'
    <2>1. CASE Call(o)
      BY <2>1 DEF Call, Return
    <2>2. CASE GateRefuses(o)
      BY <2>2 DEF GateRefuses, Return
    <2>3. CASE Acquire(o)
      BY <2>3 DEF Acquire, Return, NewEvent, Uncancelled
    <2>4. CASE StartedDelivered(o)
      BY <2>4 DEF StartedDelivered, EnterStep, EndAction, BeginTerminal, NewEvent
    <2>5. CASE StartedLost(o)
      BY <2>5 DEF StartedLost, Return, Release
    <2>6. CASE CommandMutates(o)
      BY <2>6 DEF CommandMutates
    <2>7. CASE TaskReturns(o)
      BY <2>7 DEF TaskReturns
    <2>8. CASE TaskRaises(o)
      BY <2>8 DEF TaskRaises
    <2>9. CASE TaskSettles(o)
      BY <2>9 DEF TaskSettles
    <2>10. CASE CollabReturns(o)
      BY <2>10 DEF CollabReturns, Advance, Complete, EnterStep, EndAction,
         BeginTerminal, NewEvent
    <2>11. CASE CollabRaises(o)
      BY <2>11 DEF CollabRaises, EndAction, BeginTerminal, NewEvent
    <2>12. CASE CollabInterrupted(o)
      BY <2>12 DEF CollabInterrupted, AbandonTask
    <2>13. CASE SettleReturns(o)
      BY <2>13 DEF SettleReturns, EndAction, BeginTerminal, NewEvent
    <2>14. CASE SettleGivesUp(o)
      BY <2>14 DEF SettleGivesUp, FailClosed, EndAction, BeginTerminal, NewEvent
    <2>15. CASE CloseLease(o)
      BY <2>15 DEF CloseLease
    <2>16. CASE LeasesClosed(o)
      BY <2>16 DEF LeasesClosed, EnterStep, EndAction, BeginTerminal, NewEvent
    <2>17. CASE PublishReturns(o)
      BY <2>17 DEF PublishReturns, Complete, BeginTerminal, NewEvent
    <2>18. CASE PublishRaises(o)
      BY <2>18 DEF PublishRaises, EndAction, BeginTerminal, NewEvent
    <2>19. CASE PublishInterrupted(o)
      BY <2>19 DEF PublishInterrupted, EndAction, BeginTerminal, NewEvent
    <2>20. CASE FailedEvent(o)
      BY <2>20 DEF FailedEvent, EndAction, BeginTerminal, NewEvent
    <2>21. CASE PostEvent(o)
      BY <2>21 DEF PostEvent, BeginTerminal, NewEvent
    <2>22. CASE TerminalDelivered(o)
      BY <2>22 DEF TerminalDelivered, Return, Release, TerminalType, TerminalResult
    <2>23. CASE TerminalLost(o)
      BY <2>23 DEF TerminalLost, Return, Release
    <2>24. CASE CancelQueued(o)
      BY <2>24 DEF CancelQueued, Return
    <2>25. CASE CancelEmit(o)
      BY <2>25 DEF CancelEmit, Return, Release, BeginTerminal, NewEvent
    <2>26. CASE CancelCollab(o)
      BY <2>26 DEF CancelCollab, Advance, Complete, EnterStep, EndAction,
         BeginTerminal, NewEvent, AbandonTask
    <2>27. CASE CancelSettle(o)
      BY <2>27 DEF CancelSettle, FailClosed, EndAction, BeginTerminal, NewEvent
    <2>28. CASE CancelLeases(o)
      BY <2>28 DEF CancelLeases
    <2>29. CASE CancelPublish(o)
      BY <2>29 DEF CancelPublish, Complete, BeginTerminal, NewEvent, EndAction
    <2> QED
      BY <1>1, <2>1, <2>2, <2>3, <2>4, <2>5, <2>6, <2>7, <2>8, <2>9, <2>10, <2>11,
         <2>12, <2>13, <2>14, <2>15, <2>16, <2>17, <2>18, <2>19, <2>20, <2>21, <2>22,
         <2>23, <2>24, <2>25, <2>26, <2>27, <2>28, <2>29 DEF OpNext
  <1>2. ASSUME NEW s \in Starters, StarterNext(s)
        PROVE  LeaseInv'
    <2>1. CASE Start(s)
      BY <2>1 DEF Start
    <2>2. CASE StartLeaves(s)
      BY <2>2 DEF StartLeaves
    <2>3. CASE StartAcquires(s)
      BY <2>3 DEF StartAcquires, NewEvent
    <2>4. CASE StartDelivered(s)
      BY <2>4 DEF StartDelivered, Release
    <2>5. CASE StartLost(s)
      BY <2>5 DEF StartLost, Release
    <2> QED
      BY <1>2, <2>1, <2>2, <2>3, <2>4, <2>5 DEF StarterNext
  <1>3. ASSUME NEW c \in Closers, CloserNext(c)
        PROVE  LeaseInv'
    <2>1. CASE Close(c)
      BY <2>1 DEF Close
    <2>2. CASE CloserCancelled(c)
      BY <2>2 DEF CloserCancelled
    <2>3. CASE CloserReturns(c)
      BY <2>3 DEF CloserReturns
    <2> QED
      BY <1>3, <2>1, <2>2, <2>3 DEF CloserNext
  <1>4. ASSUME CloseNext
        PROVE  LeaseInv'
    <2>1. CASE CloseAcquires
      BY <2>1 DEF CloseAcquires, NewEvent
    <2>2. CASE ClosingEvent
      BY <2>2 DEF ClosingEvent
    <2>3. CASE CloseScope
      BY <2>3 DEF CloseScope, NewEvent
    <2>4. CASE ClosedEvent
      BY <2>4 DEF ClosedEvent, Release
    <2> QED
      BY <1>4, <2>1, <2>2, <2>3, <2>4 DEF CloseNext
  <1>5. CASE UNCHANGED vars
    BY <1>5 DEF vars
  <1> QED
    BY <1>1, <1>2, <1>3, <1>4, <1>5 DEF Next

(* A call stops settling a live HTTP task only in a session that is not    *)
(* running.                                                                *)
LEMMA UnsettledStep ==
    ASSUME TypeOK, LifecycleInv, LeaseInv, UnsettledInv, [Next]_vars
    PROVE  UnsettledInv'
  <1> USE KindAssumption DEF TypeOK, LifecycleType, DataType, CallType, LifecycleInv,
     LeaseInv, UnsettledInv, InOperation, lifecycle, data, calls, NextStep, FirstStep,
     Kinds
  <1>1. ASSUME NEW o \in Ops, OpNext(o)
        PROVE  UnsettledInv'
    <2>1. CASE Call(o)
      BY <2>1 DEF Call, Return
    <2>2. CASE GateRefuses(o)
      BY <2>2 DEF GateRefuses, Return
    <2>3. CASE Acquire(o)
      BY <2>3 DEF Acquire, Return, NewEvent, Uncancelled
    <2>4. CASE StartedDelivered(o)
      BY <2>4 DEF StartedDelivered, EnterStep, EndAction, BeginTerminal, NewEvent
    <2>5. CASE StartedLost(o)
      BY <2>5 DEF StartedLost, Return, Release
    <2>6. CASE CommandMutates(o)
      BY <2>6 DEF CommandMutates
    <2>7. CASE TaskReturns(o)
      BY <2>7 DEF TaskReturns
    <2>8. CASE TaskRaises(o)
      BY <2>8 DEF TaskRaises
    <2>9. CASE TaskSettles(o)
      BY <2>9 DEF TaskSettles
    <2>10. CASE CollabReturns(o)
      BY <2>10 DEF CollabReturns, Advance, Complete, EnterStep, EndAction,
         BeginTerminal, NewEvent
    <2>11. CASE CollabRaises(o)
      BY <2>11 DEF CollabRaises, EndAction, BeginTerminal, NewEvent
    <2>12. CASE CollabInterrupted(o)
      BY <2>12 DEF CollabInterrupted, AbandonTask
    <2>13. CASE SettleReturns(o)
      BY <2>13 DEF SettleReturns, EndAction, BeginTerminal, NewEvent
    <2>14. CASE SettleGivesUp(o)
      BY <2>14 DEF SettleGivesUp, FailClosed, EndAction, BeginTerminal, NewEvent
    <2>15. CASE CloseLease(o)
      BY <2>15 DEF CloseLease
    <2>16. CASE LeasesClosed(o)
      BY <2>16 DEF LeasesClosed, EnterStep, EndAction, BeginTerminal, NewEvent
    <2>17. CASE PublishReturns(o)
      BY <2>17 DEF PublishReturns, Complete, BeginTerminal, NewEvent
    <2>18. CASE PublishRaises(o)
      BY <2>18 DEF PublishRaises, EndAction, BeginTerminal, NewEvent
    <2>19. CASE PublishInterrupted(o)
      BY <2>19 DEF PublishInterrupted, EndAction, BeginTerminal, NewEvent
    <2>20. CASE FailedEvent(o)
      BY <2>20 DEF FailedEvent, EndAction, BeginTerminal, NewEvent
    <2>21. CASE PostEvent(o)
      BY <2>21 DEF PostEvent, BeginTerminal, NewEvent
    <2>22. CASE TerminalDelivered(o)
      BY <2>22 DEF TerminalDelivered, Return, Release, TerminalType, TerminalResult
    <2>23. CASE TerminalLost(o)
      BY <2>23 DEF TerminalLost, Return, Release
    <2>24. CASE CancelQueued(o)
      BY <2>24 DEF CancelQueued, Return
    <2>25. CASE CancelEmit(o)
      BY <2>25 DEF CancelEmit, Return, Release, BeginTerminal, NewEvent
    <2>26. CASE CancelCollab(o)
      BY <2>26 DEF CancelCollab, Advance, Complete, EnterStep, EndAction,
         BeginTerminal, NewEvent, AbandonTask
    <2>27. CASE CancelSettle(o)
      BY <2>27 DEF CancelSettle, FailClosed, EndAction, BeginTerminal, NewEvent
    <2>28. CASE CancelLeases(o)
      BY <2>28 DEF CancelLeases
    <2>29. CASE CancelPublish(o)
      BY <2>29 DEF CancelPublish, Complete, BeginTerminal, NewEvent, EndAction
    <2> QED
      BY <1>1, <2>1, <2>2, <2>3, <2>4, <2>5, <2>6, <2>7, <2>8, <2>9, <2>10, <2>11,
         <2>12, <2>13, <2>14, <2>15, <2>16, <2>17, <2>18, <2>19, <2>20, <2>21, <2>22,
         <2>23, <2>24, <2>25, <2>26, <2>27, <2>28, <2>29 DEF OpNext
  <1>2. ASSUME NEW s \in Starters, StarterNext(s)
        PROVE  UnsettledInv'
    <2>1. CASE Start(s)
      BY <2>1 DEF Start
    <2>2. CASE StartLeaves(s)
      BY <2>2 DEF StartLeaves
    <2>3. CASE StartAcquires(s)
      BY <2>3 DEF StartAcquires, NewEvent
    <2>4. CASE StartDelivered(s)
      BY <2>4 DEF StartDelivered, Release
    <2>5. CASE StartLost(s)
      BY <2>5 DEF StartLost, Release
    <2> QED
      BY <1>2, <2>1, <2>2, <2>3, <2>4, <2>5 DEF StarterNext
  <1>3. ASSUME NEW c \in Closers, CloserNext(c)
        PROVE  UnsettledInv'
    <2>1. CASE Close(c)
      BY <2>1 DEF Close
    <2>2. CASE CloserCancelled(c)
      BY <2>2 DEF CloserCancelled
    <2>3. CASE CloserReturns(c)
      BY <2>3 DEF CloserReturns
    <2> QED
      BY <1>3, <2>1, <2>2, <2>3 DEF CloserNext
  <1>4. ASSUME CloseNext
        PROVE  UnsettledInv'
    <2>1. CASE CloseAcquires
      BY <2>1 DEF CloseAcquires, NewEvent
    <2>2. CASE ClosingEvent
      BY <2>2 DEF ClosingEvent
    <2>3. CASE CloseScope
      BY <2>3 DEF CloseScope, NewEvent
    <2>4. CASE ClosedEvent
      BY <2>4 DEF ClosedEvent, Release
    <2> QED
      BY <1>4, <2>1, <2>2, <2>3, <2>4 DEF CloseNext
  <1>5. CASE UNCHANGED vars
    BY <1>5 DEF vars
  <1> QED
    BY <1>1, <1>2, <1>3, <1>4, <1>5 DEF Next

-----------------------------------------------------------------------------
(***************************************************************************)
(* Events.  A step by b delivers at most b's own event and either takes    *)
(* the next number with the gate held or leaves the numbers alone.         *)
(***************************************************************************)
EventShape(b) ==
    /\ \A a \in Actors \ {b} : Emitting(a)' => Emitting(a)
    /\ \/ UNCHANGED log
       \/ Emitting(b) /\ \E t \in EventTypes : Deliver(b, t)
    /\ \/ NewEvent(b) /\ gate' = b
       \/ UNCHANGED <<seq, ev>> /\ (~Emitting(b)' \/ (UNCHANGED log /\ Emitting(b)))

(* An actor that delivers an event holds the gate.                         *)
LEMMA EmitterHoldsGate ==
    ASSUME GateExclusion, NEW a \in Actors, Emitting(a)
    PROVE  gate = a
  BY DEF GateExclusion, Emitting, InOperation, Actors

(* The same in the next state.                                             *)
LEMMA NextEmitterHoldsGate ==
    ASSUME GateExclusion', NEW a \in Actors, Emitting(a)'
    PROVE  gate' = a
  BY DEF GateExclusion, Emitting, InOperation, Actors

(* What a delivery does to the log.                                        *)
LEMMA DeliveredLog ==
    ASSUME EventType, NEW b \in Actors, NEW t \in EventTypes, Deliver(b, t)
    PROVE  /\ Len(log') = Len(log) + 1
           /\ log'[Len(log) + 1].n = ev[b]
           /\ \A i \in 1..Len(log) : log'[i] = log[i]
  BY DEF EventType, Deliver

(* A step of that shape keeps the log in order: what it delivers is new.   *)
LEMMA ShapeKeepsOrder ==
    ASSUME TypeOK, EventInv, EventOrder, NEW b \in Actors, EventShape(b)
    PROVE  EventOrder'
  <1>1. CASE UNCHANGED log
    BY <1>1 DEF EventOrder
  <1>2. ASSUME Emitting(b), NEW t \in EventTypes, Deliver(b, t)
        PROVE  EventOrder'
    <2>1. /\ Len(log') = Len(log) + 1
          /\ log'[Len(log) + 1].n = ev[b]
          /\ \A i \in 1..Len(log) : log'[i] = log[i]
      BY <1>2, DeliveredLog DEF TypeOK
    <2>2. ev[b] = seq /\ \A i \in 1..Len(log) : log[i].n < seq
      BY <1>2 DEF EventInv
    <2>3. Len(log) \in Nat
      BY DEF TypeOK, EventType
    <2> QED
      BY <2>1, <2>2, <2>3 DEF EventOrder
  <1> QED
    BY <1>1, <1>2 DEF EventShape

(* A step of that shape leaves the newest number with its only emitter.    *)
LEMMA ShapeKeepsNumbers ==
    ASSUME TypeOK, GateExclusion, GateExclusion', EventInv, NEW b \in Actors, EventShape(b)
    PROVE  EventInv'
  <1>1. Len(log) \in Nat /\ seq \in Nat /\ \A i \in 1..Len(log) : log[i].n \in Nat
    <2>1. log \in Seq([n : Nat, type : EventTypes, by : Actors]) /\ seq \in Nat
      BY DEF TypeOK, EventType
    <2>2. \A i \in 1..Len(log) : log[i] \in [n : Nat, type : EventTypes, by : Actors]
      BY <2>1, ElementOfSeq
    <2> QED
      BY <2>1, <2>2
  <1>2. /\ Len(log') \in Nat
        /\ \A i \in 1..Len(log') : log'[i].n \in Nat /\ log'[i].n <= seq
    <2>1. CASE UNCHANGED log
      BY <1>1, <2>1 DEF EventInv
    <2>2. ASSUME Emitting(b), NEW t \in EventTypes, Deliver(b, t)
          PROVE  /\ Len(log') \in Nat
                 /\ \A i \in 1..Len(log') : log'[i].n \in Nat /\ log'[i].n <= seq
      <3>1. /\ Len(log') = Len(log) + 1
            /\ log'[Len(log) + 1].n = ev[b]
            /\ \A i \in 1..Len(log) : log'[i] = log[i]
        BY <2>2, DeliveredLog DEF TypeOK
      <3>2. ev[b] = seq
        BY <2>2 DEF EventInv
      <3> QED
        BY <1>1, <3>1, <3>2 DEF EventInv
    <2> QED
      BY <2>1, <2>2 DEF EventShape
  <1>3. CASE NewEvent(b) /\ gate' = b
    <2>1. seq' = seq + 1 /\ ev'[b] = seq'
      BY <1>3 DEF NewEvent, TypeOK, EventType
    <2>2. \A a \in Actors : Emitting(a)' => a = b
      BY <1>3, NextEmitterHoldsGate
    <2>3. \A i \in 1..Len(log') : log'[i].n < seq'
      BY <1>1, <1>2, <2>1
    <2> QED
      BY <1>1, <1>2, <2>1, <2>2, <2>3 DEF EventInv
  <1>4. CASE UNCHANGED <<seq, ev>> /\ (~Emitting(b)' \/ (UNCHANGED log /\ Emitting(b)))
    <2>1. ASSUME NEW a \in Actors, Emitting(a)'
          PROVE  Emitting(a) /\ UNCHANGED log
      <3>1. Emitting(a)
        BY <1>4, <2>1 DEF EventShape
      <3>2. CASE a = b
        BY <1>4, <2>1, <3>2, <3>1
      <3>3. CASE a # b
        BY <3>1, <3>3, EmitterHoldsGate DEF EventShape
      <3> QED
        BY <3>2, <3>3
    <2>2. ASSUME NEW a \in Actors, Emitting(a)'
          PROVE  ev'[a] = seq' /\ \A i \in 1..Len(log') : log'[i].n < seq'
      BY <1>4, <2>1, <2>2 DEF EventInv
    <2> QED
      BY <1>2, <1>4, <2>2 DEF EventInv
  <1> QED
    BY <1>3, <1>4 DEF EventShape

(* Every step of an operation has that shape.                              *)
LEMMA OpShape ==
    ASSUME TypeOK, GateExclusion, NEW o \in Ops, OpNext(o)
    PROVE  EventShape(o)
  <1> USE ActorsAssumption DEF TypeOK, LifecycleType, CallType, GateExclusion, EventShape,
     Emitting, EventTypes, InOperation, Actors, lifecycle, calls, events
  <1>1. CASE Call(o)
    BY <1>1 DEF Call, Return
  <1>2. CASE GateRefuses(o)
    BY <1>2 DEF GateRefuses, Return
  <1>3. CASE Acquire(o)
    BY <1>3 DEF Acquire, Return, Uncancelled
  <1>4. CASE StartedDelivered(o)
    BY <1>4 DEF StartedDelivered, EnterStep, EndAction, BeginTerminal
  <1>5. CASE StartedLost(o)
    BY <1>5 DEF StartedLost, Return, Release
  <1>6. CASE CommandMutates(o)
    BY <1>6 DEF CommandMutates
  <1>7. CASE TaskReturns(o)
    BY <1>7 DEF TaskReturns
  <1>8. CASE TaskRaises(o)
    BY <1>8 DEF TaskRaises
  <1>9. CASE TaskSettles(o)
    BY <1>9 DEF TaskSettles
  <1>10. CASE CollabReturns(o)
    BY <1>10 DEF CollabReturns, Advance, Complete, EnterStep, EndAction, BeginTerminal
  <1>11. CASE CollabRaises(o)
    BY <1>11 DEF CollabRaises, EndAction, BeginTerminal
  <1>12. CASE CollabInterrupted(o)
    BY <1>12 DEF CollabInterrupted, AbandonTask
  <1>13. CASE SettleReturns(o)
    BY <1>13 DEF SettleReturns, EndAction, BeginTerminal
  <1>14. CASE SettleGivesUp(o)
    BY <1>14 DEF SettleGivesUp, FailClosed, EndAction, BeginTerminal
  <1>15. CASE CloseLease(o)
    BY <1>15 DEF CloseLease
  <1>16. CASE LeasesClosed(o)
    BY <1>16 DEF LeasesClosed, EnterStep, EndAction, BeginTerminal
  <1>17. CASE PublishReturns(o)
    BY <1>17 DEF PublishReturns, Complete, BeginTerminal
  <1>18. CASE PublishRaises(o)
    BY <1>18 DEF PublishRaises, EndAction, BeginTerminal
  <1>19. CASE PublishInterrupted(o)
    BY <1>19 DEF PublishInterrupted, EndAction, BeginTerminal
  <1>20. CASE FailedEvent(o)
    BY <1>20 DEF FailedEvent, EndAction, BeginTerminal
  <1>21. CASE PostEvent(o)
    BY <1>21 DEF PostEvent, BeginTerminal
  <1>22. CASE TerminalDelivered(o)
    BY <1>22, TerminalTypes DEF TerminalDelivered, Return, Release, TerminalType,
       TerminalResult
  <1>23. CASE TerminalLost(o)
    BY <1>23 DEF TerminalLost, Return, Release
  <1>24. CASE CancelQueued(o)
    BY <1>24 DEF CancelQueued, Return
  <1>25. CASE CancelEmit(o)
    BY <1>25 DEF CancelEmit, Return, Release, BeginTerminal
  <1>26. CASE CancelCollab(o)
    BY <1>26 DEF CancelCollab, Advance, Complete, EnterStep, EndAction, BeginTerminal,
       AbandonTask
  <1>27. CASE CancelSettle(o)
    BY <1>27 DEF CancelSettle, FailClosed, EndAction, BeginTerminal
  <1>28. CASE CancelLeases(o)
    BY <1>28 DEF CancelLeases
  <1>29. CASE CancelPublish(o)
    BY <1>29 DEF CancelPublish, Complete, BeginTerminal, EndAction
  <1> QED
    BY <1>1, <1>2, <1>3, <1>4, <1>5, <1>6, <1>7, <1>8, <1>9, <1>10, <1>11, <1>12, <1>13,
       <1>14, <1>15, <1>16, <1>17, <1>18, <1>19, <1>20, <1>21, <1>22, <1>23, <1>24,
       <1>25, <1>26, <1>27, <1>28, <1>29 DEF OpNext

(* Every step of start() has that shape.                                   *)
LEMMA StarterShape ==
    ASSUME TypeOK, GateExclusion, NEW s \in Starters, StarterNext(s)
    PROVE  EventShape(s)
  <1> USE ActorsAssumption DEF TypeOK, LifecycleType, CallType, GateExclusion, EventShape,
     Emitting, EventTypes, InOperation, Actors, lifecycle, calls, events
  <1>1. CASE Start(s)
    BY <1>1 DEF Start
  <1>2. CASE StartLeaves(s)
    BY <1>2 DEF StartLeaves
  <1>3. CASE StartAcquires(s)
    BY <1>3 DEF StartAcquires
  <1>4. CASE StartDelivered(s)
    BY <1>4 DEF StartDelivered, Release
  <1>5. CASE StartLost(s)
    BY <1>5 DEF StartLost, Release
  <1> QED
    BY <1>1, <1>2, <1>3, <1>4, <1>5 DEF StarterNext

(* A step of a caller of close() touches no event.                         *)
LEMMA CloserShape ==
    ASSUME TypeOK, GateExclusion, NEW c \in Closers, CloserNext(c)
    PROVE  EventShape(CloseTask)
  <1> USE ActorsAssumption DEF TypeOK, LifecycleType, CallType, GateExclusion, EventShape,
     Emitting, EventTypes, InOperation, Actors, lifecycle, calls, events
  <1>1. CASE Close(c)
    BY <1>1 DEF Close
  <1>2. CASE CloserCancelled(c)
    BY <1>2 DEF CloserCancelled
  <1>3. CASE CloserReturns(c)
    BY <1>3 DEF CloserReturns
  <1> QED
    BY <1>1, <1>2, <1>3 DEF CloserNext

(* Every step of the close task has that shape.                            *)
LEMMA CloseShape ==
    ASSUME TypeOK, GateExclusion, CloseNext
    PROVE  EventShape(CloseTask)
  <1> USE ActorsAssumption DEF TypeOK, LifecycleType, CallType, GateExclusion, EventShape,
     Emitting, EventTypes, InOperation, Actors, lifecycle, calls, events
  <1>1. CASE CloseAcquires
    BY <1>1 DEF CloseAcquires
  <1>2. CASE ClosingEvent
    BY <1>2 DEF ClosingEvent
  <1>3. CASE CloseScope
    BY <1>3 DEF CloseScope
  <1>4. CASE ClosedEvent
    BY <1>4 DEF ClosedEvent, Release
  <1> QED
    BY <1>1, <1>2, <1>3, <1>4 DEF CloseNext

(* Every step keeps the event numbers and the order of the log.            *)
LEMMA EventStep ==
    ASSUME TypeOK, GateExclusion, GateExclusion', EventInv, EventOrder, [Next]_vars
    PROVE  EventInv' /\ EventOrder'
  <1>1. ASSUME NEW o \in Ops, OpNext(o)
        PROVE  EventInv' /\ EventOrder'
    BY <1>1, OpShape, ShapeKeepsNumbers, ShapeKeepsOrder DEF Actors
  <1>2. ASSUME NEW s \in Starters, StarterNext(s)
        PROVE  EventInv' /\ EventOrder'
    BY <1>2, StarterShape, ShapeKeepsNumbers, ShapeKeepsOrder DEF Actors
  <1>3. ASSUME NEW c \in Closers, CloserNext(c)
        PROVE  EventInv' /\ EventOrder'
    BY <1>3, CloserShape, ShapeKeepsNumbers, ShapeKeepsOrder DEF Actors
  <1>4. ASSUME CloseNext
        PROVE  EventInv' /\ EventOrder'
    BY <1>4, CloseShape, ShapeKeepsNumbers, ShapeKeepsOrder DEF Actors
  <1>5. CASE UNCHANGED vars
    BY <1>5 DEF EventInv, EventOrder, Emitting, vars, events, calls, lifecycle
  <1> QED
    BY <1>1, <1>2, <1>3, <1>4, <1>5 DEF Next

-----------------------------------------------------------------------------
(* Theorems. *)

(* The invariant holds at first.                                           *)
LEMMA InitInv == Init => IInv
  <1> SUFFICES ASSUME Init PROVE IInv
    OBVIOUS
  <1>1. TypeOK
    <2>1. LifecycleType
      BY DEF Init, LifecycleType, States
    <2>2. EventType /\ DataType
      BY DEF Init, EventType, DataType
    <2>3. CallType
      BY DEF Init, CallType, InOperation, Steps, Verdicts
    <2> QED
      BY <2>1, <2>2, <2>3 DEF TypeOK
  <1>2. GateExclusion /\ LifecycleInv /\ LeaseInv /\ UnsettledInv
    BY DEF Init, GateExclusion, InOperation, LifecycleInv, LeaseInv, UnsettledInv
  <1>3. EventInv /\ EventOrder
    BY DEF Init, EventInv, EventOrder, Emitting
  <1> QED
    BY <1>1, <1>2, <1>3 DEF IInv

(* The invariant is inductive.                                             *)
LEMMA StepInv == IInv /\ [Next]_vars => IInv'
  <1> SUFFICES ASSUME IInv, [Next]_vars PROVE IInv'
    OBVIOUS
  <1>1. TypeOK'
    BY TypeStep DEF IInv
  <1>2. GateExclusion'
    BY GateStep DEF IInv
  <1>3. LifecycleInv'
    BY LifecycleStep DEF IInv
  <1>4. LeaseInv' /\ UnsettledInv'
    BY LeaseStep, UnsettledStep DEF IInv
  <1>5. EventInv' /\ EventOrder'
    BY <1>2, EventStep DEF IInv
  <1> QED
    BY <1>1, <1>2, <1>3, <1>4, <1>5 DEF IInv

(* The inductive invariant of the session holds in every state.            *)
THEOREM SessionInvariant == Spec => []IInv
  BY InitInv, StepInv, PTL DEF Spec

(* The session is type correct: in particular no lease is closed that was  *)
(* not acquired.                                                           *)
THEOREM TypeCorrect == Spec => []TypeOK
  <1>1. IInv => TypeOK
    BY DEF IInv
  <1> QED
    BY <1>1, SessionInvariant, PTL

(* Operations, start() and close() exclude each other between acquire and  *)
(* release of _operation_gate, however many callers there are.             *)
THEOREM GateExcludes == Spec => []GateExclusion
  <1>1. IInv => GateExclusion
    BY DEF IInv
  <1> QED
    BY <1>1, SessionInvariant, PTL

(* Delivered events are in strictly increasing sequence order.             *)
THEOREM EventsInOrder == Spec => []EventOrder
  <1>1. IInv => EventOrder
    BY DEF IInv
  <1> QED
    BY <1>1, SessionInvariant, PTL

(* A session with an HTTP task still alive after its operation is neither  *)
(* created nor running.                                                    *)
THEOREM FailsClosed == Spec => []UnsettledFailsClosed
  <1>1. IInv => UnsettledFailsClosed
    <2> SUFFICES ASSUME IInv, unsettled # {}, gate = NoOne
                 PROVE  state \notin {"CREATED", "RUNNING"}
      BY DEF UnsettledFailsClosed
    <2>1. state # "CREATED"
      BY DEF IInv, LifecycleInv
    <2>2. PICK o \in unsettled : TRUE
      OBVIOUS
    <2>3. state = "RUNNING" => pc[o] = "settle"
      BY <2>2 DEF IInv, UnsettledInv
    <2>4. o \in Ops /\ NoOne # o
      BY <2>2, ActorsAssumption DEF IInv, TypeOK, DataType, Actors
    <2>5. pc[o] # "settle"
      BY <2>4 DEF IInv, GateExclusion, InOperation
    <2> QED
      BY <2>1, <2>3, <2>5
  <1> QED
    BY <1>1, SessionInvariant, PTL

(* Only a start() that no close() has overtaken makes the session run.     *)
THEOREM NeverRevived == Spec => NoRevival
  <1>1. ASSUME IInv, Next, state' = "RUNNING", state # "RUNNING"
        PROVE  state = "CREATED" /\ close = "none"
    <2>1. state = "CREATED"
      <3> USE <1>1 DEF lifecycle
      <3>1. ASSUME NEW o \in Ops, OpNext(o) PROVE state = "CREATED"
        BY <3>1 DEF OpNext, FailClosed, Call, GateRefuses, Acquire,
           StartedDelivered, StartedLost, CommandMutates, TaskReturns, TaskRaises,
           TaskSettles, CollabReturns, CollabRaises, CollabInterrupted,
           SettleReturns, SettleGivesUp, CloseLease, LeasesClosed, PublishReturns,
           PublishRaises, PublishInterrupted, FailedEvent, PostEvent,
           TerminalDelivered, TerminalLost, CancelQueued, CancelEmit, CancelCollab,
           CancelSettle, CancelLeases, CancelPublish
      <3>2. ASSUME NEW s \in Starters, StarterNext(s) PROVE state = "CREATED"
        BY <3>2 DEF StarterNext, Start, StartLeaves, StartAcquires, StartDelivered,
           StartLost
      <3>3. ASSUME NEW c \in Closers, CloserNext(c) PROVE state = "CREATED"
        BY <3>3 DEF CloserNext, Close, CloserCancelled, CloserReturns
      <3>4. ASSUME CloseNext PROVE state = "CREATED"
        BY <3>4 DEF CloseNext, CloseAcquires, ClosingEvent, CloseScope, ClosedEvent
      <3> QED
        BY <1>1, <3>1, <3>2, <3>3, <3>4 DEF Next
    <2> QED
      BY <1>1, <2>1 DEF IInv, LifecycleInv
  <1>2. IInv /\ [Next]_vars =>
          [(state' = "RUNNING" /\ state # "RUNNING") => (state = "CREATED" /\ close = "none")]_vars
    BY <1>1
  <1> QED
    BY <1>2, SessionInvariant, PTL DEF Spec, NoRevival

-----------------------------------------------------------------------------
(***************************************************************************)
(* What the calls of a session come to: their outcomes, their leases, the  *)
(* workspace they replace, the silence after close and the story the       *)
(* events tell.  OInv extends IInv: it follows one call through its        *)
(* collaborator steps (PhaseInv), the workspace a portable restore was     *)
(* checked against (SourceInv), the end of the session (ClosedInv) and the *)
(* log (StoryInv).                                                         *)
(***************************************************************************)

(* The collaborator steps each kind of operation goes through.             *)
StepsOf(k) ==
    CASE k \in {"read", "list"} -> {"policy", "read", "stats"}
      [] k = "write" -> {"policy", "mutate"}
      [] k = "execute" -> {"policy", "lease", "execute", "stats"}
      [] k = "http" -> {"policy", "gateway", "stats"}
      [] k = "snapshot" -> {"policy", "export", "save"}
      [] k = "restore" -> {"policy", "load", "prepare", "publish"}
      [] k = "archive" -> {"policy", "cas", "prepare", "publish"}

(* Where a call is tells which steps it can be at, what has become of its  *)
(* task, and whether it has answered.                                      *)
Phased(o) ==
    /\ step[o] \in StepsOf(Kind[o])
    /\ pc[o] \in {"idle", "gate", "start"} => task[o] = "none" /\ step[o] = "policy"
    /\ pc[o] # "done" => result[o] = "none"
    /\ pc[o] = "collab" => step[o] # "publish"
    /\ pc[o] = "settle" => task[o] \in {"run", "settled"} /\ verdict[o] # "completed"
    /\ pc[o] = "leases" => Kind[o] = "execute"
    /\ pc[o] = "post" => Kind[o] \in {"snapshot", "restore"}
    /\ pc[o] = "failing" => task[o] = "unprovable"

PhaseInv == \A o \in Ops : Phased(o)

(* A command's cwd and environment are assigned when its action returns.   *)
ContextInv == \A o \in Ops : Kind[o] = "execute" /\ ctx = o => pc[o] \in {"terminal", "done"}

(* From the comparison on, the workspace is the one that was compared,     *)
(* until it is replaced.                                                   *)
SourceInv ==
    \A o \in Ops :
      (/\ Kind[o] = "archive" /\ expect[o] # "any"
       /\ step[o] \in {"prepare", "publish"} /\ pc[o] \in {"collab", "publish"}
       /\ ~Published(o)) => ws = expect[o]

(* Nobody is inside the gate any more when the scope is closed, the close  *)
(* task itself apart.                                                      *)
ClosedInv ==
    /\ scope = "closed" => /\ state = "CLOSED"
                           /\ close \in {"closed", "done"}
                           /\ \A o \in Ops : pc[o] \notin InOperation
                           /\ \A s \in Starters : starter[s] # "emit"
    /\ close \in {"closed", "done"} => scope = "closed"

(* The log ends in the events of the call that is under way, from its      *)
(* operation.started on and without a terminal event.                      *)
Telling(o) ==
    \E i \in 1..Len(log) :
      /\ log[i].type = "operation.started"
      /\ \A k \in i..Len(log) : log[k].by = o /\ ~IsTerminal(log[k])

HasStarted == \E i \in 1..Len(log) : log[i].type = "sandbox.started"

StoryInv ==
    /\ \A o \in Ops : pc[o] \in InOperation \ {"start"} => Telling(o)
    /\ state = "RUNNING" => HasStarted
    /\ \A o \in Ops : pc[o] \in InOperation => HasStarted
    /\ \A i \in 1..Len(log) : log[i].type = "sandbox.closed" => close = "done"

OInv ==
    /\ PhaseInv /\ OutcomeMatchesEffect
    /\ ContextInv /\ SourceInv /\ ClosedInv
    /\ StoryInv /\ EventStory

-----------------------------------------------------------------------------
(* Frames. *)

(* start(), close() and the close task leave the calls and the data alone. *)
LEMMA BackgroundFrame ==
    /\ \A s \in Starters : StarterNext(s) => UNCHANGED <<data, calls, unsettled>>
    /\ \A c \in Closers : CloserNext(c) => UNCHANGED <<data, calls, unsettled>>
    /\ CloseNext => UNCHANGED <<data, calls, unsettled>>
  <1>1. \A s \in Starters : StarterNext(s) => UNCHANGED <<data, calls, unsettled>>
    BY DEF StarterNext, Start, StartLeaves, StartAcquires, StartDelivered, StartLost
  <1>2. \A c \in Closers : CloserNext(c) => UNCHANGED <<data, calls, unsettled>>
    BY DEF CloserNext, Close, CloserCancelled, CloserReturns
  <1>3. CloseNext => UNCHANGED <<data, calls, unsettled>>
    BY DEF CloseNext, CloseAcquires, ClosingEvent, CloseScope, ClosedEvent
  <1> QED
    BY <1>1, <1>2, <1>3

(* A step of one call leaves the locals of every other call alone.         *)
SameLocals(p) ==
    /\ pc'[p] = pc[p] /\ step'[p] = step[p] /\ task'[p] = task[p]
    /\ verdict'[p] = verdict[p] /\ leases'[p] = leases[p]
    /\ expect'[p] = expect[p] /\ result'[p] = result[p]

(* A step of one call leaves the others where they are.                    *)
LEMMA CallFrame ==
    ASSUME TypeOK, NEW o \in Ops, OpNext(o), NEW p \in Ops, p # o
    PROVE  SameLocals(p)
  <1> USE DEF TypeOK, CallType, SameLocals, calls
  <1>1. CASE Call(o)
    BY <1>1 DEF Call, Return
  <1>2. CASE GateRefuses(o)
    BY <1>2 DEF GateRefuses, Return
  <1>3. CASE Acquire(o)
    BY <1>3 DEF Acquire, Return, NewEvent, Uncancelled
  <1>4. CASE StartedDelivered(o)
    BY <1>4 DEF StartedDelivered, EnterStep, EndAction, BeginTerminal, NewEvent
  <1>5. CASE StartedLost(o)
    BY <1>5 DEF StartedLost, Return, Release
  <1>6. CASE CommandMutates(o)
    BY <1>6 DEF CommandMutates
  <1>7. CASE TaskReturns(o)
    BY <1>7 DEF TaskReturns
  <1>8. CASE TaskRaises(o)
    BY <1>8 DEF TaskRaises
  <1>9. CASE TaskSettles(o)
    BY <1>9 DEF TaskSettles
  <1>10. CASE CollabReturns(o)
    BY <1>10 DEF CollabReturns, Advance, Complete, EnterStep, EndAction, BeginTerminal, NewEvent
  <1>11. CASE CollabRaises(o)
    BY <1>11 DEF CollabRaises, EndAction, BeginTerminal, NewEvent
  <1>12. CASE CollabInterrupted(o)
    BY <1>12 DEF CollabInterrupted, AbandonTask
  <1>13. CASE SettleReturns(o)
    BY <1>13 DEF SettleReturns, EndAction, BeginTerminal, NewEvent
  <1>14. CASE SettleGivesUp(o)
    BY <1>14 DEF SettleGivesUp, FailClosed, EndAction, BeginTerminal, NewEvent
  <1>15. CASE CloseLease(o)
    BY <1>15 DEF CloseLease
  <1>16. CASE LeasesClosed(o)
    BY <1>16 DEF LeasesClosed, EnterStep, EndAction, BeginTerminal, NewEvent
  <1>17. CASE PublishReturns(o)
    BY <1>17 DEF PublishReturns, Complete, BeginTerminal, NewEvent
  <1>18. CASE PublishRaises(o)
    BY <1>18 DEF PublishRaises, EndAction, BeginTerminal, NewEvent
  <1>19. CASE PublishInterrupted(o)
    BY <1>19 DEF PublishInterrupted, EndAction, BeginTerminal, NewEvent
  <1>20. CASE FailedEvent(o)
    BY <1>20 DEF FailedEvent, EndAction, BeginTerminal, NewEvent
  <1>21. CASE PostEvent(o)
    BY <1>21 DEF PostEvent, BeginTerminal, NewEvent
  <1>22. CASE TerminalDelivered(o)
    BY <1>22 DEF TerminalDelivered, Return, Release
  <1>23. CASE TerminalLost(o)
    BY <1>23 DEF TerminalLost, Return, Release
  <1>24. CASE CancelQueued(o)
    BY <1>24 DEF CancelQueued, Return
  <1>25. CASE CancelEmit(o)
    BY <1>25 DEF CancelEmit, Return, Release, BeginTerminal, NewEvent
  <1>26. CASE CancelCollab(o)
    BY <1>26 DEF CancelCollab, Advance, Complete, EnterStep, EndAction, BeginTerminal, NewEvent,
       AbandonTask, KeepsResult
  <1>27. CASE CancelSettle(o)
    BY <1>27 DEF CancelSettle, FailClosed, EndAction, BeginTerminal, NewEvent
  <1>28. CASE CancelLeases(o)
    BY <1>28 DEF CancelLeases
  <1>29. CASE CancelPublish(o)
    BY <1>29 DEF CancelPublish, Complete, BeginTerminal, NewEvent, EndAction
  <1> QED
    BY <1>1, <1>2, <1>3, <1>4, <1>5, <1>6, <1>7, <1>8, <1>9, <1>10, <1>11, <1>12, <1>13,
       <1>14, <1>15, <1>16, <1>17, <1>18, <1>19, <1>20, <1>21, <1>22, <1>23, <1>24, <1>25,
       <1>26, <1>27, <1>28, <1>29 DEF OpNext

-----------------------------------------------------------------------------
(* Phases and outcomes. *)

Outcome(o) ==
    Kind[o] \in AuthoritativeKinds =>
      /\ pc[o] = "terminal" => (verdict[o] = "completed" <=> Published(o))
      /\ result[o] = "native" => ~Published(o)
      /\ result[o] = "ok" => Published(o)

(* A call stays in its phases.                                             *)
LEMMA CallPhase ==
    ASSUME IInv, NEW o \in Ops, Phased(o), OpNext(o)
    PROVE  Phased(o)'
  <1> USE KindAssumption DEF IInv, TypeOK, CallType, LeaseInv, UnsettledInv, Phased, StepsOf, Kinds,
        NextStep, FirstStep, calls
  <1>1. CASE Call(o)
    BY <1>1 DEF Call, Return
  <1>2. CASE GateRefuses(o)
    BY <1>2 DEF GateRefuses, Return
  <1>3. CASE Acquire(o)
    BY <1>3 DEF Acquire, Return, NewEvent, Uncancelled
  <1>4. CASE StartedDelivered(o)
    BY <1>4 DEF StartedDelivered, EnterStep, EndAction, BeginTerminal, NewEvent
  <1>5. CASE StartedLost(o)
    BY <1>5 DEF StartedLost, Return, Release
  <1>6. CASE CommandMutates(o)
    BY <1>6 DEF CommandMutates
  <1>7. CASE TaskReturns(o)
    BY <1>7 DEF TaskReturns
  <1>8. CASE TaskRaises(o)
    BY <1>8 DEF TaskRaises
  <1>9. CASE TaskSettles(o)
    BY <1>9 DEF TaskSettles
  <1>10. CASE CollabReturns(o)
    BY <1>10 DEF CollabReturns, Advance, Complete, EnterStep, EndAction, BeginTerminal, NewEvent
  <1>11. CASE CollabRaises(o)
    BY <1>11 DEF CollabRaises, EndAction, BeginTerminal, NewEvent
  <1>12. CASE CollabInterrupted(o)
    BY <1>12 DEF CollabInterrupted, AbandonTask
  <1>13. CASE SettleReturns(o)
    BY <1>13 DEF SettleReturns, EndAction, BeginTerminal, NewEvent
  <1>14. CASE SettleGivesUp(o)
    BY <1>14 DEF SettleGivesUp, FailClosed, EndAction, BeginTerminal, NewEvent
  <1>15. CASE CloseLease(o)
    BY <1>15 DEF CloseLease
  <1>16. CASE LeasesClosed(o)
    BY <1>16 DEF LeasesClosed, EnterStep, EndAction, BeginTerminal, NewEvent
  <1>17. CASE PublishReturns(o)
    BY <1>17 DEF PublishReturns, Complete, BeginTerminal, NewEvent
  <1>18. CASE PublishRaises(o)
    BY <1>18 DEF PublishRaises, EndAction, BeginTerminal, NewEvent
  <1>19. CASE PublishInterrupted(o)
    BY <1>19 DEF PublishInterrupted, EndAction, BeginTerminal, NewEvent
  <1>20. CASE FailedEvent(o)
    BY <1>20 DEF FailedEvent, EndAction, BeginTerminal, NewEvent
  <1>21. CASE PostEvent(o)
    BY <1>21 DEF PostEvent, BeginTerminal, NewEvent
  <1>22. CASE TerminalDelivered(o)
    BY <1>22 DEF TerminalDelivered, Return, Release
  <1>23. CASE TerminalLost(o)
    BY <1>23 DEF TerminalLost, Return, Release
  <1>24. CASE CancelQueued(o)
    BY <1>24 DEF CancelQueued, Return
  <1>25. CASE CancelEmit(o)
    BY <1>25 DEF CancelEmit, Return, Release, BeginTerminal, NewEvent
  <1>26. CASE CancelCollab(o)
    BY <1>26 DEF CancelCollab, Advance, Complete, EnterStep, EndAction, BeginTerminal, NewEvent,
       AbandonTask, KeepsResult
  <1>27. CASE CancelSettle(o)
    BY <1>27 DEF CancelSettle, FailClosed, EndAction, BeginTerminal, NewEvent
  <1>28. CASE CancelLeases(o)
    BY <1>28 DEF CancelLeases
  <1>29. CASE CancelPublish(o)
    BY <1>29 DEF CancelPublish, Complete, BeginTerminal, NewEvent, EndAction
  <1> QED
    BY <1>1, <1>2, <1>3, <1>4, <1>5, <1>6, <1>7, <1>8, <1>9, <1>10, <1>11, <1>12, <1>13,
       <1>14, <1>15, <1>16, <1>17, <1>18, <1>19, <1>20, <1>21, <1>22, <1>23, <1>24, <1>25,
       <1>26, <1>27, <1>28, <1>29 DEF OpNext

(* A call that goes on tells the truth about what it changed.              *)
LEMMA CallOutcome ==
    ASSUME IInv, NEW o \in Ops, Phased(o), Outcome(o), OpNext(o)
    PROVE  Outcome(o)'
  <1> USE KindAssumption DEF IInv, TypeOK, CallType, LeaseInv, UnsettledInv, Phased, StepsOf, Kinds,
        NextStep, FirstStep, calls, Outcome, Published, AuthoritativeKinds
  <1>1. CASE Call(o)
    BY <1>1 DEF Call, Return
  <1>2. CASE GateRefuses(o)
    BY <1>2 DEF GateRefuses, Return
  <1>3. CASE Acquire(o)
    BY <1>3 DEF Acquire, Return, NewEvent, Uncancelled
  <1>4. CASE StartedDelivered(o)
    BY <1>4 DEF StartedDelivered, EnterStep, EndAction, BeginTerminal, NewEvent
  <1>5. CASE StartedLost(o)
    BY <1>5 DEF StartedLost, Return, Release
  <1>6. CASE CommandMutates(o)
    BY <1>6 DEF CommandMutates
  <1>7. CASE TaskReturns(o)
    BY <1>7 DEF TaskReturns
  <1>8. CASE TaskRaises(o)
    BY <1>8 DEF TaskRaises
  <1>9. CASE TaskSettles(o)
    BY <1>9 DEF TaskSettles
  <1>10. CASE CollabReturns(o)
    BY <1>10 DEF CollabReturns, Advance, Complete, EnterStep, EndAction, BeginTerminal, NewEvent
  <1>11. CASE CollabRaises(o)
    BY <1>11 DEF CollabRaises, EndAction, BeginTerminal, NewEvent
  <1>12. CASE CollabInterrupted(o)
    BY <1>12 DEF CollabInterrupted, AbandonTask
  <1>13. CASE SettleReturns(o)
    BY <1>13 DEF SettleReturns, EndAction, BeginTerminal, NewEvent
  <1>14. CASE SettleGivesUp(o)
    BY <1>14 DEF SettleGivesUp, FailClosed, EndAction, BeginTerminal, NewEvent
  <1>15. CASE CloseLease(o)
    BY <1>15 DEF CloseLease
  <1>16. CASE LeasesClosed(o)
    BY <1>16 DEF LeasesClosed, EnterStep, EndAction, BeginTerminal, NewEvent
  <1>17. CASE PublishReturns(o)
    BY <1>17 DEF PublishReturns, Complete, BeginTerminal, NewEvent
  <1>18. CASE PublishRaises(o)
    BY <1>18 DEF PublishRaises, EndAction, BeginTerminal, NewEvent
  <1>19. CASE PublishInterrupted(o)
    BY <1>19 DEF PublishInterrupted, EndAction, BeginTerminal, NewEvent
  <1>20. CASE FailedEvent(o)
    BY <1>20 DEF FailedEvent, EndAction, BeginTerminal, NewEvent
  <1>21. CASE PostEvent(o)
    BY <1>21 DEF PostEvent, BeginTerminal, NewEvent
  <1>22. CASE TerminalDelivered(o)
    BY <1>22 DEF TerminalDelivered, Return, Release, TerminalResult
  <1>23. CASE TerminalLost(o)
    BY <1>23 DEF TerminalLost, Return, Release
  <1>24. CASE CancelQueued(o)
    BY <1>24 DEF CancelQueued, Return
  <1>25. CASE CancelEmit(o)
    BY <1>25 DEF CancelEmit, Return, Release, BeginTerminal, NewEvent
  <1>26. CASE CancelCollab(o)
    BY <1>26 DEF CancelCollab, Advance, Complete, EnterStep, EndAction, BeginTerminal, NewEvent,
       AbandonTask, KeepsResult
  <1>27. CASE CancelSettle(o)
    BY <1>27 DEF CancelSettle, FailClosed, EndAction, BeginTerminal, NewEvent
  <1>28. CASE CancelLeases(o)
    BY <1>28 DEF CancelLeases
  <1>29. CASE CancelPublish(o)
    BY <1>29 DEF CancelPublish, Complete, BeginTerminal, NewEvent, EndAction
  <1> QED
    BY <1>1, <1>2, <1>3, <1>4, <1>5, <1>6, <1>7, <1>8, <1>9, <1>10, <1>11, <1>12, <1>13,
       <1>14, <1>15, <1>16, <1>17, <1>18, <1>19, <1>20, <1>21, <1>22, <1>23, <1>24, <1>25,
       <1>26, <1>27, <1>28, <1>29 DEF OpNext

(* Every step keeps phases and outcomes.                                   *)
LEMMA OutcomeStep ==
    ASSUME IInv, PhaseInv, OutcomeMatchesEffect, [Next]_vars
    PROVE  PhaseInv' /\ OutcomeMatchesEffect'
  <1>0. \A p \in Ops : Phased(p) /\ Outcome(p)
    BY DEF PhaseInv, OutcomeMatchesEffect, Outcome
  <1> SUFFICES ASSUME NEW p \in Ops PROVE Phased(p)' /\ Outcome(p)'
    BY DEF PhaseInv, OutcomeMatchesEffect, Outcome
  <1>1. ASSUME SameLocals(p) PROVE Phased(p)' /\ Outcome(p)'
    BY <1>0, <1>1 DEF SameLocals, Phased, Outcome, Published
  <1>2. ASSUME NEW o \in Ops, OpNext(o) PROVE Phased(p)' /\ Outcome(p)'
    <2>1. CASE o = p
      BY <1>0, <1>2, <2>1, CallPhase, CallOutcome
    <2>2. CASE o # p
      BY <1>1, <1>2, <2>2, CallFrame DEF IInv
    <2> QED
      BY <2>1, <2>2
  <1>3. CASE UNCHANGED calls
    BY <1>1, <1>3 DEF calls, SameLocals
  <1>4. CASE UNCHANGED vars
    BY <1>3, <1>4 DEF vars
  <1> QED
    BY <1>2, <1>3, <1>4, BackgroundFrame DEF Next

-----------------------------------------------------------------------------
(* Context, sources and the closed session. *)

Settled(o) == Kind[o] = "execute" /\ ctx = o => pc[o] \in {"terminal", "done"}

(* A command's context is assigned by the step that ends its action.       *)
LEMMA CallContext ==
    ASSUME IInv, PhaseInv, NEW o \in Ops, Settled(o), OpNext(o)
    PROVE  Settled(o)'
  <1> USE KindAssumption DEF IInv, TypeOK, CallType, GateExclusion, PhaseInv, Phased, StepsOf, Kinds,
        NextStep, FirstStep, calls, data, Settled
  <1>1. CASE Call(o)
    BY <1>1 DEF Call, Return
  <1>2. CASE GateRefuses(o)
    BY <1>2 DEF GateRefuses, Return
  <1>3. CASE Acquire(o)
    BY <1>3 DEF Acquire, Return, NewEvent, Uncancelled
  <1>4. CASE StartedDelivered(o)
    BY <1>4 DEF StartedDelivered, EnterStep, EndAction, BeginTerminal, NewEvent
  <1>5. CASE StartedLost(o)
    BY <1>5 DEF StartedLost, Return, Release
  <1>6. CASE CommandMutates(o)
    BY <1>6 DEF CommandMutates
  <1>7. CASE TaskReturns(o)
    BY <1>7 DEF TaskReturns
  <1>8. CASE TaskRaises(o)
    BY <1>8 DEF TaskRaises
  <1>9. CASE TaskSettles(o)
    BY <1>9 DEF TaskSettles
  <1>10. CASE CollabReturns(o)
    BY <1>10 DEF CollabReturns, Advance, Complete, EnterStep, EndAction, BeginTerminal, NewEvent
  <1>11. CASE CollabRaises(o)
    BY <1>11 DEF CollabRaises, EndAction, BeginTerminal, NewEvent
  <1>12. CASE CollabInterrupted(o)
    BY <1>12 DEF CollabInterrupted, AbandonTask
  <1>13. CASE SettleReturns(o)
    BY <1>13 DEF SettleReturns, EndAction, BeginTerminal, NewEvent
  <1>14. CASE SettleGivesUp(o)
    BY <1>14 DEF SettleGivesUp, FailClosed, EndAction, BeginTerminal, NewEvent
  <1>15. CASE CloseLease(o)
    BY <1>15 DEF CloseLease
  <1>16. CASE LeasesClosed(o)
    BY <1>16 DEF LeasesClosed, EnterStep, EndAction, BeginTerminal, NewEvent
  <1>17. CASE PublishReturns(o)
    BY <1>17 DEF PublishReturns, Complete, BeginTerminal, NewEvent
  <1>18. CASE PublishRaises(o)
    BY <1>18 DEF PublishRaises, EndAction, BeginTerminal, NewEvent
  <1>19. CASE PublishInterrupted(o)
    BY <1>19 DEF PublishInterrupted, EndAction, BeginTerminal, NewEvent
  <1>20. CASE FailedEvent(o)
    BY <1>20 DEF FailedEvent, EndAction, BeginTerminal, NewEvent
  <1>21. CASE PostEvent(o)
    BY <1>21 DEF PostEvent, BeginTerminal, NewEvent
  <1>22. CASE TerminalDelivered(o)
    BY <1>22 DEF TerminalDelivered, Return, Release
  <1>23. CASE TerminalLost(o)
    BY <1>23 DEF TerminalLost, Return, Release
  <1>24. CASE CancelQueued(o)
    BY <1>24 DEF CancelQueued, Return
  <1>25. CASE CancelEmit(o)
    BY <1>25 DEF CancelEmit, Return, Release, BeginTerminal, NewEvent
  <1>26. CASE CancelCollab(o)
    BY <1>26 DEF CancelCollab, Advance, Complete, EnterStep, EndAction, BeginTerminal, NewEvent,
       AbandonTask, KeepsResult
  <1>27. CASE CancelSettle(o)
    BY <1>27 DEF CancelSettle, FailClosed, EndAction, BeginTerminal, NewEvent
  <1>28. CASE CancelLeases(o)
    BY <1>28 DEF CancelLeases
  <1>29. CASE CancelPublish(o)
    BY <1>29 DEF CancelPublish, Complete, BeginTerminal, NewEvent, EndAction
  <1> QED
    BY <1>1, <1>2, <1>3, <1>4, <1>5, <1>6, <1>7, <1>8, <1>9, <1>10, <1>11, <1>12, <1>13,
       <1>14, <1>15, <1>16, <1>17, <1>18, <1>19, <1>20, <1>21, <1>22, <1>23, <1>24, <1>25,
       <1>26, <1>27, <1>28, <1>29 DEF OpNext

(* Every step keeps it: only a call assigns itself.                        *)
LEMMA ContextStep ==
    ASSUME IInv, PhaseInv, ContextInv, [Next]_vars
    PROVE  ContextInv'
  <1> SUFFICES ASSUME NEW p \in Ops PROVE Settled(p)'
    BY DEF ContextInv, Settled
  <1>0. Settled(p)
    BY DEF ContextInv, Settled
  <1>1. ASSUME SameLocals(p), ctx' = p => ctx = p PROVE Settled(p)'
    BY <1>0, <1>1 DEF SameLocals, Settled
  <1>2. ASSUME NEW o \in Ops, OpNext(o) PROVE Settled(p)'
    <2>1. CASE o = p
      BY <1>0, <1>2, <2>1, CallContext
    <2>2. CASE o # p
      <3>1. ctx' \in {ctx, o}
        BY <1>2 DEF OpNext, Call, GateRefuses, Acquire, StartedDelivered, StartedLost,
           CommandMutates, TaskReturns, TaskRaises, TaskSettles, CollabReturns, Advance,
           CollabRaises, CollabInterrupted, SettleReturns, SettleGivesUp, CloseLease,
           LeasesClosed, PublishReturns, PublishRaises, PublishInterrupted, FailedEvent,
           PostEvent, TerminalDelivered, TerminalLost, CancelQueued, CancelEmit,
           CancelCollab, CancelSettle, CancelLeases, CancelPublish, data
      <3> QED
        BY <1>1, <1>2, <2>2, <3>1, CallFrame DEF IInv
    <2> QED
      BY <2>1, <2>2
  <1>3. CASE UNCHANGED <<data, calls>>
    BY <1>1, <1>3 DEF calls, data, SameLocals
  <1>4. CASE UNCHANGED vars
    BY <1>3, <1>4 DEF vars
  <1> QED
    BY <1>2, <1>3, <1>4, BackgroundFrame DEF Next

Sourced(o) ==
    (/\ Kind[o] = "archive" /\ expect[o] # "any"
     /\ step[o] \in {"prepare", "publish"} /\ pc[o] \in {"collab", "publish"}
     /\ ~Published(o)) => ws = expect[o]

(* A portable restore reaches its preparation through the comparison.      *)
LEMMA CallSource ==
    ASSUME IInv, PhaseInv, NEW o \in Ops, Sourced(o), OpNext(o)
    PROVE  Sourced(o)'
  <1> USE KindAssumption DEF IInv, TypeOK, CallType, PhaseInv, Phased, StepsOf, Kinds,
        NextStep, FirstStep, calls, data, Sourced, Published
  <1>1. CASE Call(o)
    BY <1>1 DEF Call, Return
  <1>2. CASE GateRefuses(o)
    BY <1>2 DEF GateRefuses, Return
  <1>3. CASE Acquire(o)
    BY <1>3 DEF Acquire, Return, NewEvent, Uncancelled
  <1>4. CASE StartedDelivered(o)
    BY <1>4 DEF StartedDelivered, EnterStep, EndAction, BeginTerminal, NewEvent
  <1>5. CASE StartedLost(o)
    BY <1>5 DEF StartedLost, Return, Release
  <1>6. CASE CommandMutates(o)
    BY <1>6 DEF CommandMutates
  <1>7. CASE TaskReturns(o)
    BY <1>7 DEF TaskReturns
  <1>8. CASE TaskRaises(o)
    BY <1>8 DEF TaskRaises
  <1>9. CASE TaskSettles(o)
    BY <1>9 DEF TaskSettles
  <1>10. CASE CollabReturns(o)
    BY <1>10 DEF CollabReturns, Advance, Complete, EnterStep, EndAction, BeginTerminal, NewEvent,
       SourceUnchanged
  <1>11. CASE CollabRaises(o)
    BY <1>11 DEF CollabRaises, EndAction, BeginTerminal, NewEvent
  <1>12. CASE CollabInterrupted(o)
    BY <1>12 DEF CollabInterrupted, AbandonTask
  <1>13. CASE SettleReturns(o)
    BY <1>13 DEF SettleReturns, EndAction, BeginTerminal, NewEvent
  <1>14. CASE SettleGivesUp(o)
    BY <1>14 DEF SettleGivesUp, FailClosed, EndAction, BeginTerminal, NewEvent
  <1>15. CASE CloseLease(o)
    BY <1>15 DEF CloseLease
  <1>16. CASE LeasesClosed(o)
    BY <1>16 DEF LeasesClosed, EnterStep, EndAction, BeginTerminal, NewEvent
  <1>17. CASE PublishReturns(o)
    BY <1>17 DEF PublishReturns, Complete, BeginTerminal, NewEvent
  <1>18. CASE PublishRaises(o)
    BY <1>18 DEF PublishRaises, EndAction, BeginTerminal, NewEvent
  <1>19. CASE PublishInterrupted(o)
    BY <1>19 DEF PublishInterrupted, EndAction, BeginTerminal, NewEvent
  <1>20. CASE FailedEvent(o)
    BY <1>20 DEF FailedEvent, EndAction, BeginTerminal, NewEvent
  <1>21. CASE PostEvent(o)
    BY <1>21 DEF PostEvent, BeginTerminal, NewEvent
  <1>22. CASE TerminalDelivered(o)
    BY <1>22 DEF TerminalDelivered, Return, Release
  <1>23. CASE TerminalLost(o)
    BY <1>23 DEF TerminalLost, Return, Release
  <1>24. CASE CancelQueued(o)
    BY <1>24 DEF CancelQueued, Return
  <1>25. CASE CancelEmit(o)
    BY <1>25 DEF CancelEmit, Return, Release, BeginTerminal, NewEvent
  <1>26. CASE CancelCollab(o)
    BY <1>26 DEF CancelCollab, Advance, Complete, EnterStep, EndAction, BeginTerminal, NewEvent,
       AbandonTask, KeepsResult
  <1>27. CASE CancelSettle(o)
    BY <1>27 DEF CancelSettle, FailClosed, EndAction, BeginTerminal, NewEvent
  <1>28. CASE CancelLeases(o)
    BY <1>28 DEF CancelLeases
  <1>29. CASE CancelPublish(o)
    BY <1>29 DEF CancelPublish, Complete, BeginTerminal, NewEvent, EndAction
  <1> QED
    BY <1>1, <1>2, <1>3, <1>4, <1>5, <1>6, <1>7, <1>8, <1>9, <1>10, <1>11, <1>12, <1>13,
       <1>14, <1>15, <1>16, <1>17, <1>18, <1>19, <1>20, <1>21, <1>22, <1>23, <1>24, <1>25,
       <1>26, <1>27, <1>28, <1>29 DEF OpNext

(* Only a call inside the gate writes to the workspace, as itself.         *)
LEMMA Writer ==
    ASSUME NEW o \in Ops, OpNext(o), ws' # ws
    PROVE  /\ ws' = o
           /\ pc[o] \in {"collab", "settle", "publish"}
           /\ \/ step[o] = "execute"
              \/ step[o] \in {"mutate", "publish"} /\ task[o] = "run" /\ task' = [task EXCEPT ![o] = "ok"]
  BY DEF OpNext, Call, GateRefuses, Acquire, StartedDelivered, StartedLost,
     CommandMutates, TaskReturns, TaskRaises, TaskSettles, CollabReturns, Advance,
     CollabRaises, CollabInterrupted, SettleReturns, SettleGivesUp, CloseLease,
     LeasesClosed, PublishReturns, PublishRaises, PublishInterrupted, FailedEvent,
     PostEvent, TerminalDelivered, TerminalLost, CancelQueued, CancelEmit,
     CancelCollab, CancelSettle, CancelLeases, CancelPublish, data

(* Every step keeps the source: the gate keeps other writers out.          *)
LEMMA SourceStep ==
    ASSUME IInv, PhaseInv, SourceInv, [Next]_vars
    PROVE  SourceInv'
  <1> SUFFICES ASSUME NEW p \in Ops PROVE Sourced(p)'
    BY DEF SourceInv, Sourced
  <1>0. Sourced(p)
    BY DEF SourceInv, Sourced
  <1>1. ASSUME SameLocals(p), ws' = ws PROVE Sourced(p)'
    BY <1>0, <1>1 DEF SameLocals, Sourced, Published
  <1>2. ASSUME NEW o \in Ops, OpNext(o) PROVE Sourced(p)'
    <2>1. CASE o = p
      BY <1>0, <1>2, <2>1, CallSource
    <2>2. CASE o # p
      <3>1. SameLocals(p)
        BY <1>2, <2>2, CallFrame DEF IInv
      <3>2. CASE pc[p] \in {"collab", "publish"}
        <4>1. ws' = ws
          BY <1>2, <2>2, <3>2, Writer DEF IInv, GateExclusion, InOperation
        <4> QED
          BY <1>1, <3>1, <4>1
      <3>3. CASE pc[p] \notin {"collab", "publish"}
        BY <3>1, <3>3 DEF SameLocals, Sourced
      <3> QED
        BY <3>2, <3>3
    <2> QED
      BY <2>1, <2>2
  <1>3. CASE UNCHANGED <<data, calls>>
    BY <1>1, <1>3 DEF calls, data, SameLocals
  <1>4. CASE UNCHANGED vars
    BY <1>3, <1>4 DEF vars
  <1> QED
    BY <1>2, <1>3, <1>4, BackgroundFrame DEF Next

(* A call outside the gate neither enters it nor changes the state once    *)
(* the session is closed; inside it there is none.                         *)
LEMMA CallClosed ==
    ASSUME IInv, ClosedInv, NEW o \in Ops, OpNext(o)
    PROVE  ClosedInv' /\ (scope = "closed" => UNCHANGED data /\ state' = "CLOSED")
  <1> USE DEF IInv, TypeOK, LifecycleType, CallType, UnsettledInv, ClosedInv, InOperation, lifecycle, calls, data,
       FailClosed
  <1>1. CASE Call(o)
    BY <1>1 DEF Call, Return
  <1>2. CASE GateRefuses(o)
    BY <1>2 DEF GateRefuses, Return
  <1>3. CASE Acquire(o)
    BY <1>3 DEF Acquire, Return, NewEvent, Uncancelled
  <1>4. CASE StartedDelivered(o)
    BY <1>4 DEF StartedDelivered, EnterStep, EndAction, BeginTerminal, NewEvent
  <1>5. CASE StartedLost(o)
    BY <1>5 DEF StartedLost, Return, Release
  <1>6. CASE CommandMutates(o)
    BY <1>6 DEF CommandMutates
  <1>7. CASE TaskReturns(o)
    BY <1>7 DEF TaskReturns
  <1>8. CASE TaskRaises(o)
    BY <1>8 DEF TaskRaises
  <1>9. CASE TaskSettles(o)
    BY <1>9 DEF TaskSettles
  <1>10. CASE CollabReturns(o)
    BY <1>10 DEF CollabReturns, Advance, Complete, EnterStep, EndAction, BeginTerminal, NewEvent
  <1>11. CASE CollabRaises(o)
    BY <1>11 DEF CollabRaises, EndAction, BeginTerminal, NewEvent
  <1>12. CASE CollabInterrupted(o)
    BY <1>12 DEF CollabInterrupted, AbandonTask
  <1>13. CASE SettleReturns(o)
    BY <1>13 DEF SettleReturns, EndAction, BeginTerminal, NewEvent
  <1>14. CASE SettleGivesUp(o)
    BY <1>14 DEF SettleGivesUp, FailClosed, EndAction, BeginTerminal, NewEvent
  <1>15. CASE CloseLease(o)
    BY <1>15 DEF CloseLease
  <1>16. CASE LeasesClosed(o)
    BY <1>16 DEF LeasesClosed, EnterStep, EndAction, BeginTerminal, NewEvent
  <1>17. CASE PublishReturns(o)
    BY <1>17 DEF PublishReturns, Complete, BeginTerminal, NewEvent
  <1>18. CASE PublishRaises(o)
    BY <1>18 DEF PublishRaises, EndAction, BeginTerminal, NewEvent
  <1>19. CASE PublishInterrupted(o)
    BY <1>19 DEF PublishInterrupted, EndAction, BeginTerminal, NewEvent
  <1>20. CASE FailedEvent(o)
    BY <1>20 DEF FailedEvent, EndAction, BeginTerminal, NewEvent
  <1>21. CASE PostEvent(o)
    BY <1>21 DEF PostEvent, BeginTerminal, NewEvent
  <1>22. CASE TerminalDelivered(o)
    BY <1>22 DEF TerminalDelivered, Return, Release
  <1>23. CASE TerminalLost(o)
    BY <1>23 DEF TerminalLost, Return, Release
  <1>24. CASE CancelQueued(o)
    BY <1>24 DEF CancelQueued, Return
  <1>25. CASE CancelEmit(o)
    BY <1>25 DEF CancelEmit, Return, Release, BeginTerminal, NewEvent
  <1>26. CASE CancelCollab(o)
    BY <1>26 DEF CancelCollab, Advance, Complete, EnterStep, EndAction, BeginTerminal, NewEvent,
       AbandonTask, KeepsResult
  <1>27. CASE CancelSettle(o)
    BY <1>27 DEF CancelSettle, FailClosed, EndAction, BeginTerminal, NewEvent
  <1>28. CASE CancelLeases(o)
    BY <1>28 DEF CancelLeases
  <1>29. CASE CancelPublish(o)
    BY <1>29 DEF CancelPublish, Complete, BeginTerminal, NewEvent, EndAction
  <1> QED
    BY <1>1, <1>2, <1>3, <1>4, <1>5, <1>6, <1>7, <1>8, <1>9, <1>10, <1>11, <1>12, <1>13,
       <1>14, <1>15, <1>16, <1>17, <1>18, <1>19, <1>20, <1>21, <1>22, <1>23, <1>24, <1>25,
       <1>26, <1>27, <1>28, <1>29 DEF OpNext

(* Every step leaves a closed session closed and its data alone.           *)
LEMMA ClosedStep ==
    ASSUME IInv, ClosedInv, [Next]_vars
    PROVE  ClosedInv' /\ (scope = "closed" => UNCHANGED data /\ state' = "CLOSED")
  <1> USE DEF IInv, TypeOK, LifecycleType, CallType, ClosedInv, lifecycle, calls, data
  <1>1. ASSUME NEW s \in Starters, StarterNext(s)
        PROVE  ClosedInv' /\ (scope = "closed" => UNCHANGED data /\ state' = "CLOSED")
    <2>1. CASE Start(s) \/ StartLeaves(s)
      BY <2>1 DEF Start, StartLeaves
    <2>2. CASE StartAcquires(s)
      BY <2>2 DEF StartAcquires
    <2>3. CASE StartDelivered(s)
      BY <2>3 DEF StartDelivered
    <2>4. CASE StartLost(s)
      <3>1. scope # "closed" /\ scope' # "closed" /\ close' = close
        BY <2>4 DEF StartLost
      <3> QED
        BY <3>1
    <2> QED
      BY <1>1, <2>1, <2>2, <2>3, <2>4 DEF StarterNext
  <1>2. ASSUME NEW c \in Closers, CloserNext(c)
        PROVE  ClosedInv' /\ (scope = "closed" => UNCHANGED data /\ state' = "CLOSED")
    BY <1>2 DEF CloserNext, Close, CloserCancelled, CloserReturns
  <1>3. ASSUME CloseNext
        PROVE  ClosedInv' /\ (scope = "closed" => UNCHANGED data /\ state' = "CLOSED")
    <2>1. CASE CloseScope
      <3>1. gate = CloseTask
        BY <2>1 DEF CloseScope, GateExclusion
      <3>2. \A o \in Ops : pc[o] \notin InOperation
        BY <3>1, ActorsAssumption DEF GateExclusion
      <3>3. \A s \in Starters : starter[s] # "emit"
        BY <3>1, ActorsAssumption DEF GateExclusion
      <3> QED
        BY <2>1, <3>2, <3>3 DEF CloseScope
    <2>2. CASE CloseAcquires \/ ClosingEvent \/ ClosedEvent
      BY <2>2 DEF CloseAcquires, ClosingEvent, ClosedEvent
    <2> QED
      BY <1>3, <2>1, <2>2 DEF CloseNext
  <1>4. CASE UNCHANGED vars
    BY <1>4 DEF vars
  <1> QED
    BY <1>1, <1>2, <1>3, <1>4, CallClosed DEF Next

-----------------------------------------------------------------------------
(* The story of the log. *)

(* What a delivery does to the log.                                        *)
LEMMA Appended ==
    ASSUME TypeOK, NEW b \in Actors, NEW t \in EventTypes, Deliver(b, t)
    PROVE  /\ Len(log) \in Nat /\ Len(log') = Len(log) + 1
           /\ log'[Len(log) + 1].type = t /\ log'[Len(log) + 1].by = b
           /\ \A i \in 1..Len(log) : log'[i] = log[i]
  BY DEF TypeOK, EventType, Deliver

(* sandbox.started stays in the log.                                       *)
LEMMA StartedStays ==
    ASSUME TypeOK, HasStarted, NEW b \in Actors, NEW t \in EventTypes, Deliver(b, t)
    PROVE  HasStarted'
  BY Appended DEF HasStarted

(* A call's own events continue what it tells.                             *)
LEMMA TellingGoesOn ==
    ASSUME TypeOK, NEW o \in Ops, Telling(o), NEW t \in EventTypes \ Terminals, Deliver(o, t)
    PROVE  Telling(o)'
  <1>1. /\ Len(log) \in Nat /\ Len(log') = Len(log) + 1
        /\ log'[Len(log) + 1].type = t /\ log'[Len(log) + 1].by = o
        /\ \A i \in 1..Len(log) : log'[i] = log[i]
    BY Appended DEF Actors
  <1>2. PICK i \in 1..Len(log) : /\ log[i].type = "operation.started"
                                 /\ \A k \in i..Len(log) : log[k].by = o /\ ~IsTerminal(log[k])
    BY DEF Telling
  <1>3. i \in 1..Len(log') /\ log'[i].type = "operation.started"
    BY <1>1, <1>2
  <1>4. \A k \in i..Len(log') : log'[k].by = o /\ ~IsTerminal(log'[k])
    BY <1>1, <1>2 DEF IsTerminal
  <1> QED
    BY <1>3, <1>4 DEF Telling

(* operation.started begins it.                                            *)
LEMMA TellingBegins ==
    ASSUME TypeOK, NEW o \in Ops, Deliver(o, "operation.started")
    PROVE  Telling(o)'
  <1>1. /\ Len(log) \in Nat /\ Len(log') = Len(log) + 1
        /\ log'[Len(log) + 1].type = "operation.started" /\ log'[Len(log) + 1].by = o
    BY Appended DEF Actors, EventTypes
  <1>2. Len(log) + 1 \in 1..Len(log') /\ \A k \in (Len(log) + 1)..Len(log') : k = Len(log) + 1
    BY <1>1
  <1> QED
    BY <1>1, <1>2 DEF Telling, IsTerminal, Terminals

(* An event that fits the story so far can be appended to it.              *)
LEMMA StoryGoesOn ==
    ASSUME TypeOK, EventStory, NEW b \in Actors, NEW t \in EventTypes, Deliver(b, t),
           t \in Terminals => Telling(b),
           t = "operation.started" => HasStarted,
           \A i \in 1..Len(log) : log[i].type # "sandbox.closed"
    PROVE  EventStory'
  <1>1. /\ Len(log) \in Nat /\ Len(log') = Len(log) + 1
        /\ log'[Len(log) + 1].type = t /\ log'[Len(log) + 1].by = b
        /\ \A i \in 1..Len(log) : log'[i] = log[i]
    BY Appended
  <1> SUFFICES ASSUME NEW j \in 1..Len(log')
               PROVE  /\ IsTerminal(log'[j]) =>
                           \E i \in 1..(j - 1) :
                             /\ log'[i].type = "operation.started"
                             /\ \A k \in i..j : log'[k].by = log'[j].by
                             /\ \A k \in (i + 1)..(j - 1) : ~IsTerminal(log'[k])
                      /\ log'[j].type = "operation.started" =>
                           \E i \in 1..(j - 1) : log'[i].type = "sandbox.started"
                      /\ log'[j].type = "sandbox.closed" => j = Len(log')
    BY DEF EventStory, IsTerminal
  <1>2. CASE j \in 1..Len(log)
    <2>1. \A k \in 1..j : log'[k] = log[k]
      BY <1>1, <1>2
    <2>2. ASSUME IsTerminal(log'[j])
          PROVE  \E i \in 1..(j - 1) :
                   /\ log'[i].type = "operation.started"
                   /\ \A k \in i..j : log'[k].by = log'[j].by
                   /\ \A k \in (i + 1)..(j - 1) : ~IsTerminal(log'[k])
      <3>1. PICK i \in 1..(j - 1) : /\ log[i].type = "operation.started"
                                    /\ \A k \in i..j : log[k].by = log[j].by
                                    /\ \A k \in (i + 1)..(j - 1) : ~IsTerminal(log[k])
        BY <1>2, <2>1, <2>2 DEF EventStory
      <3>2. \A k \in i..j : log'[k] = log[k]
        BY <2>1
      <3> QED
        BY <3>1, <3>2
    <2>3. ASSUME log'[j].type = "operation.started"
          PROVE  \E i \in 1..(j - 1) : log'[i].type = "sandbox.started"
      BY <1>2, <2>1, <2>3 DEF EventStory
    <2> QED
      BY <1>1, <1>2, <2>2, <2>3
  <1>3. CASE j = Len(log) + 1
    <2>1. ASSUME IsTerminal(log'[j])
          PROVE  \E i \in 1..(j - 1) :
                   /\ log'[i].type = "operation.started"
                   /\ \A k \in i..j : log'[k].by = log'[j].by
                   /\ \A k \in (i + 1)..(j - 1) : ~IsTerminal(log'[k])
      <3>1. PICK i \in 1..Len(log) : /\ log[i].type = "operation.started"
                                     /\ \A k \in i..Len(log) : log[k].by = b /\ ~IsTerminal(log[k])
        BY <1>1, <1>3, <2>1 DEF IsTerminal, Telling
      <3>2. i \in 1..(j - 1) /\ log'[i].type = "operation.started"
        BY <1>1, <1>3, <3>1
      <3>3. \A k \in i..j : log'[k].by = b
        BY <1>1, <1>3, <3>1
      <3>4. \A k \in (i + 1)..(j - 1) : ~IsTerminal(log'[k])
        BY <1>1, <1>3, <3>1
      <3> QED
        BY <1>1, <1>3, <3>2, <3>3, <3>4
    <2>2. ASSUME log'[j].type = "operation.started"
          PROVE  \E i \in 1..(j - 1) : log'[i].type = "sandbox.started"
      BY <1>1, <1>3, <2>2 DEF HasStarted
    <2> QED
      BY <1>1, <1>3, <2>1, <2>2
  <1> QED
    BY <1>1, <1>2, <1>3

Inside == InOperation \ {"start"}

(* What a step of a call does to the log, and when it enters the gate.     *)
CallLog(o) ==
    /\ \/ UNCHANGED log /\ (pc'[o] \in Inside => pc[o] \in Inside)
       \/ pc[o] = "start" /\ Deliver(o, "operation.started")
       \/ pc[o] \in {"failing", "post"} /\ \E t \in {"sandbox.failed", "snapshot"} : Deliver(o, t)
       \/ pc[o] = "terminal" /\ pc'[o] = "done" /\ \E t \in Terminals : Deliver(o, t)
    /\ pc'[o] \in InOperation => pc[o] \in InOperation \/ state = "RUNNING"
    /\ state' = "RUNNING" => state = "RUNNING"
    /\ close' = close

(* Every step of a call does one of these.                                 *)
LEMMA CallLogs ==
    ASSUME TypeOK, NEW o \in Ops, OpNext(o)
    PROVE  CallLog(o)
  <1> USE DEF TypeOK, CallType, CallLog, Inside, InOperation, Terminals, lifecycle, events, calls
  <1>1. CASE Call(o)
    BY <1>1 DEF Call, Return
  <1>2. CASE GateRefuses(o)
    BY <1>2 DEF GateRefuses, Return
  <1>3. CASE Acquire(o)
    BY <1>3 DEF Acquire, Return, NewEvent, Uncancelled
  <1>4. CASE StartedDelivered(o)
    BY <1>4 DEF StartedDelivered, EnterStep, EndAction, BeginTerminal, NewEvent
  <1>5. CASE StartedLost(o)
    BY <1>5 DEF StartedLost, Return, Release
  <1>6. CASE CommandMutates(o)
    BY <1>6 DEF CommandMutates
  <1>7. CASE TaskReturns(o)
    BY <1>7 DEF TaskReturns
  <1>8. CASE TaskRaises(o)
    BY <1>8 DEF TaskRaises
  <1>9. CASE TaskSettles(o)
    BY <1>9 DEF TaskSettles
  <1>10. CASE CollabReturns(o)
    BY <1>10 DEF CollabReturns, Advance, Complete, EnterStep, EndAction, BeginTerminal, NewEvent
  <1>11. CASE CollabRaises(o)
    BY <1>11 DEF CollabRaises, EndAction, BeginTerminal, NewEvent
  <1>12. CASE CollabInterrupted(o)
    BY <1>12 DEF CollabInterrupted, AbandonTask
  <1>13. CASE SettleReturns(o)
    BY <1>13 DEF SettleReturns, EndAction, BeginTerminal, NewEvent
  <1>14. CASE SettleGivesUp(o)
    BY <1>14 DEF SettleGivesUp, FailClosed, EndAction, BeginTerminal, NewEvent
  <1>15. CASE CloseLease(o)
    BY <1>15 DEF CloseLease
  <1>16. CASE LeasesClosed(o)
    BY <1>16 DEF LeasesClosed, EnterStep, EndAction, BeginTerminal, NewEvent
  <1>17. CASE PublishReturns(o)
    BY <1>17 DEF PublishReturns, Complete, BeginTerminal, NewEvent
  <1>18. CASE PublishRaises(o)
    BY <1>18 DEF PublishRaises, EndAction, BeginTerminal, NewEvent
  <1>19. CASE PublishInterrupted(o)
    BY <1>19 DEF PublishInterrupted, EndAction, BeginTerminal, NewEvent
  <1>20. CASE FailedEvent(o)
    BY <1>20 DEF FailedEvent, EndAction, BeginTerminal, NewEvent
  <1>21. CASE PostEvent(o)
    BY <1>21 DEF PostEvent, BeginTerminal, NewEvent
  <1>22. CASE TerminalDelivered(o)
    BY <1>22 DEF TerminalDelivered, Return, Release, TerminalType
  <1>23. CASE TerminalLost(o)
    BY <1>23 DEF TerminalLost, Return, Release
  <1>24. CASE CancelQueued(o)
    BY <1>24 DEF CancelQueued, Return
  <1>25. CASE CancelEmit(o)
    BY <1>25 DEF CancelEmit, Return, Release, BeginTerminal, NewEvent
  <1>26. CASE CancelCollab(o)
    BY <1>26 DEF CancelCollab, Advance, Complete, EnterStep, EndAction, BeginTerminal, NewEvent,
       AbandonTask, KeepsResult
  <1>27. CASE CancelSettle(o)
    BY <1>27 DEF CancelSettle, FailClosed, EndAction, BeginTerminal, NewEvent
  <1>28. CASE CancelLeases(o)
    BY <1>28 DEF CancelLeases
  <1>29. CASE CancelPublish(o)
    BY <1>29 DEF CancelPublish, Complete, BeginTerminal, NewEvent, EndAction
  <1> QED
    BY <1>1, <1>2, <1>3, <1>4, <1>5, <1>6, <1>7, <1>8, <1>9, <1>10, <1>11, <1>12, <1>13,
       <1>14, <1>15, <1>16, <1>17, <1>18, <1>19, <1>20, <1>21, <1>22, <1>23, <1>24, <1>25,
       <1>26, <1>27, <1>28, <1>29 DEF OpNext

(* Nobody delivers anything after sandbox.closed.                          *)
LEMMA NoneAfterClosed ==
    ASSUME IInv, ClosedInv, StoryInv, NEW b \in Actors, Emitting(b)
    PROVE  \A i \in 1..Len(log) : log[i].type # "sandbox.closed"
  <1> SUFFICES ASSUME NEW i \in 1..Len(log), log[i].type = "sandbox.closed" PROVE FALSE
    OBVIOUS
  <1>1. close = "done" /\ scope = "closed"
    BY DEF StoryInv, ClosedInv
  <1>2. /\ \A o \in Ops : pc[o] \notin InOperation
        /\ \A s \in Starters : starter[s] # "emit"
    BY <1>1 DEF ClosedInv
  <1> QED
    BY <1>1, <1>2 DEF Emitting, InOperation

(* A call keeps the story.                                                 *)
LEMMA CallStory ==
    ASSUME IInv, ClosedInv, StoryInv, EventStory, NEW o \in Ops, OpNext(o)
    PROVE  StoryInv' /\ EventStory'
  <1>0. TypeOK /\ GateExclusion /\ o \in Actors
    BY DEF IInv, Actors
  <1>1. CallLog(o)
    BY <1>0, CallLogs
  <1>2. \A p \in Ops : p # o => pc'[p] = pc[p]
    BY <1>0, CallFrame DEF SameLocals
  <1>3. (pc'[o] \in InOperation \/ state' = "RUNNING") => HasStarted
    BY <1>1 DEF CallLog, StoryInv
  <1>4. \A p \in Ops : pc'[p] \in InOperation => HasStarted
    BY <1>2, <1>3 DEF StoryInv
  <1>5. CASE UNCHANGED log /\ (pc'[o] \in Inside => pc[o] \in Inside)
    <2>1. HasStarted' = HasStarted /\ \A p \in Ops : Telling(p)' = Telling(p)
      BY <1>5 DEF HasStarted, Telling, IsTerminal
    <2>2. EventStory'
      BY <1>5 DEF EventStory, IsTerminal
    <2> QED
      BY <1>1, <1>2, <1>3, <1>4, <1>5, <2>1, <2>2 DEF StoryInv, CallLog, Inside
  <1>6. ASSUME NEW t \in EventTypes, Deliver(o, t), Emitting(o),
               t \in Terminals => Telling(o) /\ pc'[o] = "done",
               t = "operation.started" => pc[o] = "start",
               t \notin Terminals => (pc'[o] \in Inside => Telling(o)'),
               t # "sandbox.closed"
        PROVE  StoryInv' /\ EventStory'
    <2>1. gate = o
      BY <1>0, <1>6, EmitterHoldsGate
    <2>2. \A p \in Ops : p # o => pc'[p] \notin InOperation
      BY <1>0, <1>2, <2>1 DEF GateExclusion
    <2>3. HasStarted
      BY <1>0, <1>6, ActorsAssumption DEF StoryInv, Emitting, InOperation, Actors
    <2>4. HasStarted'
      BY <1>0, <1>6, <2>3, StartedStays
    <2>5. EventStory'
      BY <1>0, <1>6, <2>3, NoneAfterClosed, StoryGoesOn
    <2>6. \A i \in 1..Len(log') : log'[i].type # "sandbox.closed"
      <3>1. /\ Len(log) \in Nat /\ Len(log') = Len(log) + 1
            /\ log'[Len(log) + 1].type = t
            /\ \A i \in 1..Len(log) : log'[i] = log[i]
        BY <1>0, <1>6, Appended
      <3>2. \A i \in 1..Len(log) : log[i].type # "sandbox.closed"
        BY <1>0, <1>6, NoneAfterClosed
      <3> QED
        BY <1>6, <3>1, <3>2
    <2>7. \A p \in Ops : pc'[p] \in Inside => Telling(p)'
      BY <1>6, <2>2 DEF Inside, InOperation
    <2> QED
      BY <2>4, <2>5, <2>6, <2>7 DEF StoryInv, Inside
  <1>7. CASE pc[o] = "start" /\ Deliver(o, "operation.started")
    <2>1. Telling(o)' /\ Emitting(o)
      BY <1>0, <1>7, TellingBegins DEF Emitting
    <2> QED
      BY <1>6, <1>7, <2>1 DEF EventTypes, Terminals
  <1>8. ASSUME pc[o] \in {"failing", "post"}, NEW t \in {"sandbox.failed", "snapshot"}, Deliver(o, t)
        PROVE  StoryInv' /\ EventStory'
    <2>1. Telling(o) /\ Emitting(o) /\ t \in EventTypes \ Terminals
      BY <1>8 DEF StoryInv, Emitting, InOperation, EventTypes, Terminals
    <2>2. Telling(o)'
      BY <1>0, <1>8, <2>1, TellingGoesOn
    <2> QED
      BY <1>6, <1>8, <2>1, <2>2
  <1>9. ASSUME pc[o] = "terminal", pc'[o] = "done", NEW t \in Terminals, Deliver(o, t)
        PROVE  StoryInv' /\ EventStory'
    <2>1. Telling(o) /\ Emitting(o) /\ t \in EventTypes /\ t \notin {"sandbox.closed", "operation.started"}
      BY <1>9 DEF StoryInv, Emitting, InOperation, EventTypes, Terminals
    <2> QED
      BY <1>6, <1>9, <2>1
  <1> QED
    BY <1>1, <1>5, <1>7, <1>8, <1>9 DEF CallLog

(* start() and close() keep the story.                                     *)
LEMMA StoryStep ==
    ASSUME IInv, ClosedInv, StoryInv, EventStory, [Next]_vars
    PROVE  StoryInv' /\ EventStory'
  <1>0. TypeOK /\ GateExclusion
    BY DEF IInv
  <1>1. ASSUME UNCHANGED <<log, pc>>, state' = "RUNNING" => state = "RUNNING", close = "done" => close' = "done"
        PROVE  StoryInv' /\ EventStory'
    <2>1. HasStarted' = HasStarted /\ \A p \in Ops : Telling(p)' = Telling(p)
      BY <1>1 DEF HasStarted, Telling, IsTerminal
    <2>2. EventStory'
      BY <1>1 DEF EventStory, IsTerminal
    <2> QED
      BY <1>1, <2>1, <2>2 DEF StoryInv
  <1>2. ASSUME NEW b \in Actors \ Ops, Emitting(b), NEW t \in EventTypes \ (Terminals \cup {"operation.started"}),
               Deliver(b, t), UNCHANGED pc, state' = "RUNNING" => t = "sandbox.started" \/ state = "RUNNING",
               t = "sandbox.closed" => close' = "done"
        PROVE  StoryInv' /\ EventStory'
    <2>1. gate = b
      BY <1>0, <1>2, EmitterHoldsGate
    <2>2. \A p \in Ops : pc'[p] \notin InOperation
      BY <1>0, <1>2, <2>1 DEF GateExclusion
    <2>3. \A i \in 1..Len(log) : log[i].type # "sandbox.closed"
      BY <1>2, NoneAfterClosed
    <2>4. EventStory'
      BY <1>0, <1>2, <2>3, StoryGoesOn
    <2>5. /\ Len(log) \in Nat /\ Len(log') = Len(log) + 1
          /\ log'[Len(log) + 1].type = t
          /\ \A i \in 1..Len(log) : log'[i] = log[i]
      BY <1>0, <1>2, Appended
    <2>6. state' = "RUNNING" => HasStarted'
      <3>1. CASE t = "sandbox.started"
        BY <2>5, <3>1 DEF HasStarted
      <3>2. CASE state = "RUNNING"
        BY <1>0, <1>2, <3>2, StartedStays DEF StoryInv
      <3> QED
        BY <1>2, <3>1, <3>2
    <2>7. \A i \in 1..Len(log') : log'[i].type = "sandbox.closed" => close' = "done"
      BY <1>2, <2>3, <2>5
    <2> QED
      BY <2>2, <2>4, <2>6, <2>7 DEF StoryInv
  <1>3. ASSUME NEW s \in Starters, StarterNext(s)
        PROVE  StoryInv' /\ EventStory'
    <2>1. CASE StartDelivered(s)
      BY <1>2, <2>1, ActorsAssumption DEF StartDelivered, Emitting, Actors, EventTypes, Terminals, calls
    <2>2. CASE Start(s) \/ StartLeaves(s) \/ StartAcquires(s) \/ StartLost(s)
      BY <1>1, <2>2 DEF Start, StartLeaves, StartAcquires, StartLost, events, calls
    <2> QED
      BY <1>3, <2>1, <2>2 DEF StarterNext
  <1>4. ASSUME NEW c \in Closers, CloserNext(c)
        PROVE  StoryInv' /\ EventStory'
    BY <1>1, <1>4 DEF CloserNext, Close, CloserCancelled, CloserReturns, events, calls
  <1>5. ASSUME CloseNext
        PROVE  StoryInv' /\ EventStory'
    <2>1. CASE CloseAcquires \/ CloseScope
      BY <1>1, <2>1 DEF CloseAcquires, CloseScope, calls
    <2>2. CASE ClosingEvent
      BY <1>1, <1>2, <2>2, ActorsAssumption DEF ClosingEvent, Emitting, Actors, EventTypes, Terminals, calls
    <2>3. CASE ClosedEvent
      BY <1>1, <1>2, <2>3, ActorsAssumption DEF ClosedEvent, Emitting, Actors, EventTypes, Terminals, calls
    <2> QED
      BY <1>5, <2>1, <2>2, <2>3 DEF CloseNext
  <1>6. CASE UNCHANGED vars
    BY <1>1, <1>6 DEF vars, events, calls, lifecycle
  <1> QED
    BY <1>3, <1>4, <1>5, <1>6, CallStory DEF Next

-----------------------------------------------------------------------------
(* Theorems. *)

(* The extended invariant holds at first.                                  *)
LEMMA InitOutcome == Init => OInv
  <1> SUFFICES ASSUME Init PROVE OInv
    OBVIOUS
  <1>1. PhaseInv
    BY KindAssumption DEF Init, PhaseInv, Phased, StepsOf, Kinds
  <1>2. OutcomeMatchesEffect /\ ContextInv /\ SourceInv
    BY ActorsAssumption DEF Init, OutcomeMatchesEffect, ContextInv, SourceInv, Actors
  <1>3. ClosedInv /\ StoryInv /\ EventStory
    BY DEF Init, ClosedInv, StoryInv, EventStory, InOperation
  <1> QED
    BY <1>1, <1>2, <1>3 DEF OInv

(* It is inductive together with the invariant of SessionProofs.           *)
LEMMA StepOutcome == IInv /\ OInv /\ [Next]_vars => OInv'
  BY OutcomeStep, ContextStep, SourceStep, ClosedStep, StoryStep DEF OInv

(* The phases of every call, its source, the end of the session and the    *)
(* story of its log are as OInv says in every state.                       *)
THEOREM OutcomeInvariant == Spec => []OInv
  BY InitOutcome, StepOutcome, SessionInvariant, PTL DEF Spec

(* A write, mkdir, remove, patch or portable restore reports completed     *)
(* exactly when it changed the workspace, whatever cancellation or         *)
(* deadline races its publication.                                         *)
THEOREM OutcomesMatch == Spec => []OutcomeMatchesEffect
  <1>1. OInv => OutcomeMatchesEffect
    BY DEF OInv
  <1> QED
    BY <1>1, OutcomeInvariant, PTL

(* The delivered events tell a well-formed story.                          *)
THEOREM StoryTold == Spec => []EventStory
  <1>1. OInv => EventStory
    BY DEF OInv
  <1> QED
    BY <1>1, OutcomeInvariant, PTL

(* No path out of an execute leaves a lease open, and a command's cwd and  *)
(* environment become session state only after its leases are closed.      *)
THEOREM NoLeaseLeft == Spec => []LeasesReleased
  <1>1. IInv /\ OInv => LeasesReleased
    <2> SUFFICES ASSUME IInv, OInv, NEW o \in Ops
                 PROVE  /\ pc[o] \notin {"collab", "settle", "leases"} => leases[o] = 0
                        /\ (Kind[o] = "execute" /\ ctx = o) => leases[o] = 0
      BY DEF LeasesReleased
    <2>1. leases[o] \in Nat
      BY DEF IInv, TypeOK, CallType
    <2>2. pc[o] \notin {"collab", "settle", "leases"} => leases[o] = 0
      BY <2>1 DEF IInv, LeaseInv
    <2> QED
      BY <2>2 DEF OInv, ContextInv
  <1> QED
    BY <1>1, SessionInvariant, OutcomeInvariant, PTL

(* A portable restore that carries its source replaces that very workspace.*)
THEOREM NoUpdateLost == Spec => NoLostUpdate
  <1> DEFINE Kept == \A o \in Ops :
        (Kind[o] = "archive" /\ expect[o] # "any" /\ ws' = o /\ ws # o) => ws = expect[o]
  <1>1. IInv /\ OInv /\ [Next]_vars => [Kept]_vars
    <2> SUFFICES ASSUME IInv, OInv, Next, NEW o \in Ops, Kind[o] = "archive", expect[o] # "any",
                        ws' = o, ws # o
                 PROVE  ws = expect[o]
      OBVIOUS
    <2>1. PICK p \in Ops : OpNext(p)
      BY BackgroundFrame DEF Next, data
    <2>2. /\ p = o
          /\ pc[o] \in {"collab", "settle", "publish"}
          /\ \/ step[o] = "execute"
             \/ step[o] \in {"mutate", "publish"} /\ task[o] = "run" /\ task' = [task EXCEPT ![o] = "ok"]
      BY <2>1, Writer
    <2>3. step[o] = "publish" /\ task[o] = "run"
      BY <2>2 DEF OInv, PhaseInv, Phased, StepsOf
    <2>4. pc[o] \in {"collab", "publish"}
      <3>1. pc[o] # "settle"
        BY <2>1, <2>2, <2>3 DEF OpNext, CommandMutates, TaskReturns, Call, GateRefuses, Acquire,
           StartedDelivered, StartedLost, TaskRaises, TaskSettles, CollabReturns, Advance,
           CollabRaises, CollabInterrupted, SettleReturns, SettleGivesUp, CloseLease,
           LeasesClosed, PublishReturns, PublishRaises, PublishInterrupted, FailedEvent,
           PostEvent, TerminalDelivered, TerminalLost, CancelQueued, CancelEmit,
           CancelCollab, CancelSettle, CancelLeases, CancelPublish, data
      <3> QED
        BY <2>2, <3>1
    <2> QED
      BY <2>3, <2>4 DEF OInv, SourceInv, Published
  <1> QED
    BY <1>1, SessionInvariant, OutcomeInvariant, PTL DEF Spec, NoLostUpdate

(* Once the resource scope is closed nothing changes the workspace, the    *)
(* cwd or the environment, and the session stays CLOSED.                   *)
THEOREM QuietOnceClosed == Spec => QuietAfterClose
  <1>1. IInv /\ OInv /\ [Next]_vars => [scope = "closed" => (UNCHANGED data /\ state' = "CLOSED")]_vars
    BY ClosedStep DEF OInv
  <1> QED
    BY <1>1, SessionInvariant, OutcomeInvariant, PTL DEF Spec, QuietAfterClose
=============================================================================
