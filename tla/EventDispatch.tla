--------------------------- MODULE EventDispatch ---------------------------
(***************************************************************************)
(* EventDispatcher (src/mem_sandbox/events/delivery.py) in front of an     *)
(* InMemoryEventSink (events/sink.py).                                     *)
(*                                                                         *)
(* The session emits events numbered 1, 2, ...; an event is its number.    *)
(* In required mode the emitter awaits the sink; in best-effort mode it    *)
(* puts the event in a bounded queue, never waits, and a worker task       *)
(* drains the queue under a timeout for each sink call.  A sink call takes *)
(* effect in one step and returns in a later one, so that a timeout may    *)
(* fall before, between or after.                                          *)
(***************************************************************************)
EXTENDS Integers, Sequences, FiniteSets

CONSTANTS
    MaxEvents,  \* bound on the events emitted
    Capacity,   \* max_pending_events of the queue
    SinkLimit,  \* max_events of the sink
    Closers,    \* callers of close()
    Stop        \* the _STOP marker

Events == 1..MaxEvents

ASSUME BoundsAssumption ==
    MaxEvents \in Nat /\ Capacity \in Nat \ {0} /\ SinkLimit \in Nat
ASSUME StopAssumption == Stop \notin Events

VARIABLES
    mode,       \* delivery_policy.mode
    accepting,  \* _accepting
    queue,      \* _queue
    unfinished, \* its count of items without task_done()
    worker,     \* _worker
    current,    \* the event of the sink call under way, or 0
    call,       \* progress of that call
    emitted,    \* number of the last event emitted
    sink,       \* events the sink has stored
    reports,    \* diagnostics per event
    raised,     \* events whose required emit() raised
    close,      \* progress of _close_task
    closer      \* progress of each close()

delivery == <<queue, unfinished, worker, current, call>>
vars == <<mode, accepting, delivery, emitted, sink, reports, raised, close, closer>>

Init ==
    /\ mode \in {"required", "best_effort"}
    /\ accepting = TRUE
    /\ queue = <<>>
    /\ unfinished = 0
    /\ worker = "none"
    /\ current = 0
    /\ call = "none"
    /\ emitted = 0
    /\ sink = <<>>
    /\ reports = [e \in Events |-> 0]
    /\ raised = {}
    /\ close = "none"
    /\ closer = [c \in Closers |-> "idle"]

-----------------------------------------------------------------------------
Report(e) == reports' = [reports EXCEPT ![e] = @ + 1]

(* The session awaits one required emission at a time.                     *)
EmitRequired ==
    /\ mode = "required"
    /\ call = "none" /\ emitted < MaxEvents
    /\ emitted' = emitted + 1
    /\ \/ /\ accepting
          /\ current' = emitted + 1
          /\ call' = "calling"
          /\ UNCHANGED raised
       \/ /\ raised' = raised \cup {emitted + 1}     \* closed, or not prepared
          /\ UNCHANGED <<current, call>>
    /\ UNCHANGED <<mode, accepting, queue, unfinished, worker, sink, reports, close, closer>>

(* Faulty variants: an event that finds the queue full is dropped without  *)
(* a word; the newest event overtakes the queue; the queue has no bound.   *)
EmitDropping ==
    /\ mode = "best_effort"
    /\ emitted < MaxEvents
    /\ emitted' = emitted + 1
    /\ worker' = IF accepting /\ worker = "none" THEN "idle" ELSE worker
    /\ \/ /\ accepting /\ Len(queue) < Capacity
          /\ queue' = Append(queue, emitted + 1)
          /\ unfinished' = unfinished + 1
       \/ /\ ~accepting \/ Len(queue) = Capacity
          /\ UNCHANGED <<queue, unfinished>>
    /\ UNCHANGED <<mode, accepting, current, call, sink, reports, raised, close, closer>>

EmitOvertaking ==
    /\ mode = "best_effort"
    /\ emitted < MaxEvents
    /\ emitted' = emitted + 1
    /\ accepting /\ Len(queue) < Capacity
    /\ worker' = IF worker = "none" THEN "idle" ELSE worker
    /\ queue' = <<emitted + 1>> \o queue
    /\ unfinished' = unfinished + 1
    /\ UNCHANGED <<mode, accepting, current, call, sink, reports, raised, close, closer>>

(* emit() in best-effort mode: a closed dispatcher, an event that cannot   *)
(* be prepared and a full queue are reported, and nothing is raised.       *)
EmitBestEffort ==
    /\ mode = "best_effort"
    /\ emitted < MaxEvents
    /\ emitted' = emitted + 1
    /\ \/ /\ accepting /\ Len(queue) < Capacity
          /\ worker' = IF worker = "none" THEN "idle" ELSE worker
          /\ queue' = Append(queue, emitted + 1)
          /\ unfinished' = unfinished + 1
          /\ UNCHANGED reports
       \/ /\ accepting /\ Len(queue) = Capacity
          /\ worker' = IF worker = "none" THEN "idle" ELSE worker
          /\ Report(emitted + 1)
          /\ UNCHANGED <<queue, unfinished>>
       \/ /\ Report(emitted + 1)                     \* closed, or not prepared
          /\ UNCHANGED <<queue, unfinished, worker>>
    /\ UNCHANGED <<mode, accepting, current, call, sink, raised, close, closer>>

(* _run_worker: the stop marker ends it, an event goes to the sink.        *)
WorkerGets ==
    /\ worker = "idle"
    /\ queue # <<>>
    /\ queue' = Tail(queue)
    /\ \/ /\ Head(queue) = Stop
          /\ worker' = "stopped"
          /\ unfinished' = unfinished - 1
          /\ UNCHANGED <<current, call>>
       \/ /\ Head(queue) # Stop
          /\ worker' = "busy"
          /\ current' = Head(queue)
          /\ call' = "calling"
          /\ UNCHANGED unfinished
    /\ UNCHANGED <<mode, accepting, emitted, sink, reports, raised, close, closer>>

(* InMemoryEventSink.emit stores an event above the last one and within    *)
(* its limits; any sink may refuse.                                        *)
SinkStores ==
    /\ call = "calling"
    /\ \A i \in 1..Len(sink) : sink[i] < current
    /\ Len(sink) < SinkLimit
    /\ sink' = Append(sink, current)
    /\ call' = "stored"
    /\ UNCHANGED <<mode, accepting, queue, unfinished, worker, current, emitted,
                   reports, raised, close, closer>>

SinkRefuses ==
    /\ call = "calling"
    /\ call' = "refused"
    /\ UNCHANGED <<mode, accepting, queue, unfinished, worker, current, emitted, sink,
                   reports, raised, close, closer>>

(* Faulty variant: a failed call is not counted as done.                   *)
CallEndsUncounted ==
    /\ call # "none"
    /\ call' = "none"
    /\ current' = 0
    /\ worker' = IF mode = "best_effort" THEN "idle" ELSE worker
    /\ unfinished' = IF mode = "best_effort" /\ call = "stored" THEN unfinished - 1 ELSE unfinished
    /\ UNCHANGED <<mode, accepting, queue, emitted, sink, reports, raised, close, closer>>

(* The sink call returns, raises or times out; what failed, or was cut off *)
(* though the sink had stored it, is raised or reported.  The worker calls *)
(* task_done().                                                            *)
CallEnds ==
    /\ call # "none"
    /\ call' = "none"
    /\ current' = 0
    /\ \/ /\ mode = "required"
          /\ \/ call = "stored" /\ UNCHANGED raised
             \/ raised' = raised \cup {current}
          /\ UNCHANGED <<worker, unfinished, reports>>
       \/ /\ mode = "best_effort"
          /\ worker' = "idle"
          /\ unfinished' = unfinished - 1
          /\ \/ call = "stored" /\ UNCHANGED reports
             \/ Report(current)
          /\ UNCHANGED raised
    /\ UNCHANGED <<mode, accepting, queue, emitted, sink, close, closer>>

-----------------------------------------------------------------------------
(* close(): the first caller stops admission and creates the task.         *)
Close(c) ==
    /\ closer[c] = "idle"
    /\ closer' = [closer EXCEPT ![c] = IF close = "done" THEN "done" ELSE "waiting"]
    /\ accepting' = FALSE
    /\ close' = IF close = "none" THEN "join" ELSE close
    /\ UNCHANGED <<mode, delivery, emitted, sink, reports, raised>>

(* Faulty variant: close returns without waiting for the queue.            *)
CloseJoinsNothing ==
    /\ close = "join"
    /\ close' = "done"
    /\ UNCHANGED <<mode, accepting, delivery, emitted, sink, reports, raised, closer>>

(* _close_once: without a worker there is nothing to wait for; otherwise   *)
(* join the queue, put the stop marker and await the worker.               *)
CloseJoins ==
    /\ close = "join"
    /\ \/ /\ worker = "none"
          /\ close' = "done"
          /\ UNCHANGED <<queue, unfinished>>
       \/ /\ worker # "none" /\ unfinished = 0
          /\ close' = "stop"
          /\ queue' = Append(queue, Stop)
          /\ unfinished' = unfinished + 1
    /\ UNCHANGED <<mode, accepting, worker, current, call, emitted, sink, reports, raised, closer>>

CloseEnds ==
    /\ close = "stop"
    /\ worker = "stopped"
    /\ close' = "done"
    /\ UNCHANGED <<mode, accepting, delivery, emitted, sink, reports, raised, closer>>

CloserReturns(c) ==
    /\ closer[c] \in {"waiting", "cancelling"}
    /\ close = "done"
    /\ closer' = [closer EXCEPT ![c] = IF @ = "waiting" THEN "done" ELSE "cancelled"]
    /\ UNCHANGED <<mode, accepting, delivery, emitted, sink, reports, raised, close>>

CloserCancelled(c) ==
    /\ closer[c] \in {"waiting", "cancelling"}
    /\ closer' = [closer EXCEPT ![c] = IF @ = "waiting" THEN "cancelling" ELSE "cancelled"]
    /\ UNCHANGED <<mode, accepting, delivery, emitted, sink, reports, raised, close>>

-----------------------------------------------------------------------------
Next ==
    \/ EmitRequired \/ EmitBestEffort
    \/ WorkerGets \/ SinkStores \/ SinkRefuses \/ CallEnds
    \/ CloseJoins \/ CloseEnds
    \/ \E c \in Closers : Close(c) \/ CloserReturns(c) \/ CloserCancelled(c)

Spec == Init /\ [][Next]_vars

(* The worker's sink calls have a deadline; the worker and the close task  *)
(* run.  A required call has no deadline here, and nobody has to emit or   *)
(* to close.                                                               *)
Fairness ==
    /\ WF_vars(WorkerGets)
    /\ WF_vars(mode = "best_effort" /\ CallEnds)
    /\ WF_vars(CloseJoins \/ CloseEnds)
    /\ \A c \in Closers : WF_vars(CloserReturns(c))

FairSpec == Spec /\ Fairness

-----------------------------------------------------------------------------
Elements(s) == {s[i] : i \in 1..Len(s)}

(* Every variable has its type; the queue never exceeds its capacity.      *)
TypeOK ==
    /\ mode \in {"required", "best_effort"}
    /\ accepting \in BOOLEAN
    /\ queue \in Seq(Events \cup {Stop}) /\ Len(queue) <= Capacity
    /\ unfinished \in Nat
    /\ worker \in {"none", "idle", "busy", "stopped"}
    /\ current \in Events \cup {0}
    /\ call \in {"none", "calling", "stored", "refused"}
    /\ emitted \in 0..MaxEvents
    /\ sink \in Seq(Events)
    /\ reports \in [Events -> Nat]
    /\ raised \subseteq Events
    /\ close \in {"none", "join", "stop", "done"}
    /\ closer \in [Closers -> {"idle", "waiting", "cancelling", "cancelled", "done"}]

(* No event is lost in silence or reported twice: an emitted event is in   *)
(* the queue, at the sink, stored, raised to its emitter or reported, and  *)
(* one that was reported or raised will not be delivered any more.         *)
AccountedOnce ==
    \A e \in Events :
      LET underway == e \in Elements(queue) \/ e = current
      IN  /\ e <= emitted =>
               underway \/ e \in Elements(sink) \/ e \in raised \/ reports[e] > 0
          /\ underway => reports[e] = 0 /\ e \notin raised
          /\ reports[e] <= 1
          /\ e > emitted => ~underway /\ reports[e] = 0

(* An event reaches the sink after everything the sink has stored: the     *)
(* sink never refuses one for its sequence, although events before it were *)
(* dropped, refused or cut off.                                            *)
DeliveredInOrder ==
    /\ call = "calling" => \A i \in 1..Len(sink) : sink[i] < current
    /\ \A i, j \in 1..Len(queue) : i < j /\ queue[i] # Stop /\ queue[j] # Stop => queue[i] < queue[j]

(* When close() is over, everything that was accepted in best-effort mode  *)
(* has been delivered or reported, and nothing more reaches the sink.      *)
DrainedAtClose ==
    close = "done" /\ mode = "best_effort" =>
      queue = <<>> /\ call = "none" /\ unfinished = 0 /\ worker \in {"none", "stopped"}

(* A requested close ends although sink calls fail or time out.            *)
CloseCompletes ==
    \A c \in Closers : (closer[c] = "waiting") ~> (close = "done" /\ closer[c] \in {"done", "cancelled"})

-----------------------------------------------------------------------------
(* The inductive invariant behind the safety properties.                   *)

(* What the queue's counter counts, who works, and where the stop marker   *)
(* may be.                                                                 *)
QueueInv ==
    /\ mode = "required" => worker = "none"
    /\ unfinished = Len(queue) + (IF worker = "busy" THEN 1 ELSE 0)
    /\ worker = "none" => queue = <<>>
    /\ worker = "busy" <=> mode = "best_effort" /\ call # "none"
    /\ current = 0 <=> call = "none"
    /\ \A i \in 1..Len(queue) : queue[i] = Stop => close = "stop"

CloseInv ==
    /\ close # "none" => ~accepting
    /\ close = "stop" => \/ queue = <<Stop>> /\ worker = "idle"
                         \/ queue = <<>> /\ worker = "stopped"
    /\ close = "done" => queue = <<>> /\ worker \in {"none", "stopped"}
    /\ worker = "stopped" => close \in {"stop", "done"}

(* Sink, call under way, queue and emissions to come are in this order; an *)
(* event the sink call has stored is in the sink.                          *)
OrderInv ==
    /\ call = "stored" => current \in Elements(sink)
    /\ \A i \in 1..Len(sink) : sink[i] <= emitted
    /\ current <= emitted
    /\ \A e \in raised : e <= emitted
    /\ call # "none" => \A i \in 1..Len(sink) : sink[i] <= current
    /\ \A j \in 1..Len(queue) : queue[j] # Stop =>
         /\ queue[j] <= emitted
         /\ current < queue[j]
         /\ \A i \in 1..Len(sink) : sink[i] < queue[j]

IInv ==
    /\ TypeOK /\ QueueInv /\ CloseInv
    /\ OrderInv /\ DeliveredInOrder /\ AccountedOnce
=============================================================================
