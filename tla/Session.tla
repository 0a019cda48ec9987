------------------------------ MODULE Session ------------------------------
(***************************************************************************)
(* One SandboxSession (src/mem_sandbox/session/session.py): its lifecycle, *)
(* its operation gate and the pipeline every operation runs through, with  *)
(* the asyncio interleavings of its callers.                               *)
(*                                                                         *)
(* Each operation call is a member of Ops and runs once.  A collaborator   *)
(* call (policy, workspace, executor, broker, store, HTTP gateway) is a    *)
(* task of its own: it finishes in one step (TaskReturns) and the session  *)
(* observes that in a later one, so cancellation, deadlines and close can  *)
(* fall between the two.  Time and the callers are left to chance: every   *)
(* deadline check may find its deadline expired, every cancellation check  *)
(* may find the signal set, and a native cancellation may reach any await, *)
(* any number of times.  File content, command text and responses are left *)
(* out: the workspace and the (cwd, environment) pair are named by the     *)
(* last call that wrote them.                                              *)
(***************************************************************************)
EXTENDS Integers, Sequences, FiniteSets

CONSTANTS
    Ops,        \* operation calls
    Kind,       \* the operation each call invokes
    Starters,   \* callers of start()
    Closers,    \* callers of close()
    CloseTask,  \* the one shared task that runs _close_once
    NoOne,      \* the gate is free; no call has written yet
    Secrets     \* number of distinct secret references of an execute request

(* read: read_file, read_bytes, stat, export_portable_archive and          *)
(* list_entries; list: list_entries of an empty directory, which asks for  *)
(* the statistics as well; write: write_file, write_bytes,                 *)
(* create_directory, remove_path and apply_patch; archive:                 *)
(* restore_portable_archive; the others bear their own names.              *)
Kinds == {"read", "list", "write", "execute", "http", "snapshot", "restore", "archive"}

(* Mutations whose completed result outlives cancellation.                 *)
AuthoritativeKinds == {"write", "archive"}

Actors == Ops \cup Starters \cup {CloseTask}

ASSUME KindAssumption == Kind \in [Ops -> Kinds]
ASSUME SecretsAssumption == Secrets \in Nat
ASSUME ActorsAssumption ==
    /\ Ops \cap Starters = {}
    /\ CloseTask \notin Ops \cup Starters
    /\ NoOne \notin Actors

Steps == {"policy", "read", "mutate", "lease", "execute", "gateway", "stats",
          "export", "save", "load", "cas", "prepare", "publish", "end"}

EventTypes == {"sandbox.started", "sandbox.closing", "sandbox.closed", "sandbox.failed",
               "operation.started", "snapshot", "completed", "failed", "timed_out", "cancelled"}

Verdicts == {"none", "completed", "failed", "timed_out", "cancelled", "native"}

VARIABLES
    state,      \* SandboxSession._state
    gate,       \* holder of _operation_gate
    seq,        \* _event_sequence
    log,        \* events whose required delivery returned normally
    ev,         \* sequence number of the event an actor is delivering
    unsettled,  \* _unsettled_collaborators, by the call that started them
    ws,         \* last call that changed the workspace
    ctx,        \* last call that assigned (_cwd, _environment)
    starter,    \* progress of each start() caller
    close,      \* progress of _close_task
    closeErr,   \* _close_once met a failure
    scope,      \* the session's resource scope
    closer,     \* progress of each close() caller
    pc,         \* progress of each operation call
    step,       \* the collaborator step a call is at
    task,       \* the collaborator task a call awaits
    verdict,    \* what its operation has come to
    leases,     \* secret leases it still has to close
    expect,     \* workspace a portable restore was derived from
    result      \* what the caller got

lifecycle == <<state, starter, close, closeErr, scope, closer>>
data == <<ws, ctx>>
events == <<seq, log, ev>>
calls == <<pc, step, task, verdict, leases, expect, result>>
vars == <<lifecycle, gate, events, unsettled, data, calls>>

Init ==
    /\ state = "CREATED"
    /\ gate = NoOne
    /\ seq = 0
    /\ log = <<>>
    /\ ev = [a \in Actors |-> 0]
    /\ unsettled = {}
    /\ ws = NoOne
    /\ ctx = NoOne
    /\ starter = [s \in Starters |-> "idle"]
    /\ close = "none"
    /\ closeErr = FALSE
    /\ scope = "open"
    /\ closer = [c \in Closers |-> "idle"]
    /\ pc = [o \in Ops |-> "idle"]
    /\ step = [o \in Ops |-> "policy"]
    /\ task = [o \in Ops |-> "none"]
    /\ verdict = [o \in Ops |-> "none"]
    /\ leases = [o \in Ops |-> 0]
    /\ expect = [o \in Ops |-> "any"]
    /\ result = [o \in Ops |-> "none"]

-----------------------------------------------------------------------------
(* Events: _new_event takes the next number, a delivery that returns puts  *)
(* the event in the log.                                                   *)
NewEvent(a) ==
    /\ seq' = seq + 1
    /\ ev' = [ev EXCEPT ![a] = seq + 1]

Deliver(a, type) ==
    log' = Append(log, [n |-> ev[a], type |-> type, by |-> a])

(* A call hands out its result; one that holds the gate releases it.       *)
Return(o, r) ==
    /\ pc' = [pc EXCEPT ![o] = "done"]
    /\ result' = [result EXCEPT ![o] = r]

Release == gate' = NoOne

(* A cancellation check finds the signal set, or does not.  The portable   *)
(* archive operations pass no signal; HTTP adds the session's close        *)
(* request to the caller's.                                                *)
Cancellable(o) == Kind[o] # "archive"
Uncancelled(o) == Kind[o] = "http" => close = "none"

BeginTerminal(o, v) ==
    /\ verdict' = [verdict EXCEPT ![o] = v]
    /\ pc' = [pc EXCEPT ![o] = "terminal"]
    /\ NewEvent(o)

(* Faulty variant: the leases of a failed execute are forgotten.           *)
EndActionLeaky(o, v) == BeginTerminal(o, v)

(* The action of the operation ends with verdict v: an execute first closes*)
(* the leases it acquired.                                                 *)
EndAction(o, v) ==
    \/ /\ leases[o] > 0
       /\ verdict' = [verdict EXCEPT ![o] = v]
       /\ pc' = [pc EXCEPT ![o] = "leases"]
       /\ UNCHANGED <<seq, ev>>
    \/ leases[o] = 0 /\ BeginTerminal(o, v)

(* The step after s; "end" when the action is over.                        *)
FirstStep(o) ==
    CASE Kind[o] \in {"read", "list"} -> "read"
      [] Kind[o] = "write" -> "mutate"
      [] Kind[o] = "execute" -> IF Secrets > 0 THEN "lease" ELSE "execute"
      [] Kind[o] = "http" -> "gateway"
      [] Kind[o] = "snapshot" -> "export"
      [] Kind[o] = "restore" -> "load"
      [] Kind[o] = "archive" -> IF expect[o] = "any" THEN "prepare" ELSE "cas"

NextStep(o) ==
    CASE step[o] = "policy" -> FirstStep(o)
      [] step[o] = "lease" -> IF leases[o] < Secrets THEN "lease" ELSE "execute"
      [] step[o] \in {"execute", "gateway"} -> "stats"
      [] step[o] = "read" /\ Kind[o] = "list" -> "stats"
      [] step[o] = "export" -> "save"
      [] step[o] \in {"load", "cas"} -> "prepare"
      [] step[o] = "prepare" -> "publish"
      [] OTHER -> "end"

(* The collaborator call of step s: refused when its budget is spent or    *)
(* cancellation was requested, else its task is created.                   *)
EnterStep(o, s) ==
    \/ EndAction(o, "timed_out") /\ UNCHANGED <<step, task>>
    \/ Cancellable(o) /\ EndAction(o, "cancelled") /\ UNCHANGED <<step, task>>
    \/ /\ Uncancelled(o)
       /\ pc' = [pc EXCEPT ![o] = IF s = "publish" THEN "publish" ELSE "collab"]
       /\ step' = [step EXCEPT ![o] = s]
       /\ task' = [task EXCEPT ![o] = "run"]
       /\ UNCHANGED <<seq, ev, verdict>>

Complete(o) ==
    IF Kind[o] \in {"snapshot", "restore"}
    THEN /\ pc' = [pc EXCEPT ![o] = "post"]
         /\ NewEvent(o)
         /\ UNCHANGED verdict
    ELSE BeginTerminal(o, "completed")

(* The result of the current step is accepted.  An execute closes its      *)
(* leases after the command and assigns cwd and environment after the      *)
(* statistics, with no await before its action returns.                    *)
Advance(o) ==
    \/ /\ step[o] = "execute" /\ leases[o] > 0
       /\ pc' = [pc EXCEPT ![o] = "leases"]
       /\ UNCHANGED <<seq, ev, verdict, step, task, ctx>>
    \/ /\ ~(step[o] = "execute" /\ leases[o] > 0)
       /\ NextStep(o) # "end"
       /\ EnterStep(o, NextStep(o))
       /\ UNCHANGED ctx
    \/ /\ NextStep(o) = "end"
       /\ Complete(o)
       /\ ctx' = IF Kind[o] = "execute" THEN o ELSE ctx
       /\ UNCHANGED <<step, task>>

FailClosed ==
    state' = IF state = "RUNNING" THEN "FAILED" ELSE state

-----------------------------------------------------------------------------
(* start() *)

Start(s) ==
    /\ starter[s] = "idle"
    /\ starter' = [starter EXCEPT ![s] = IF state = "CREATED" THEN "gate" ELSE "done"]
    /\ UNCHANGED <<state, close, closeErr, scope, closer, gate, events, unsettled, data, calls>>

(* Timed out or cancelled while it waits for the gate.                     *)
StartLeaves(s) ==
    /\ starter[s] = "gate"
    /\ starter' = [starter EXCEPT ![s] = "done"]
    /\ UNCHANGED <<state, close, closeErr, scope, closer, gate, events, unsettled, data, calls>>

StartAcquires(s) ==
    /\ starter[s] = "gate"
    /\ gate = NoOne
    /\ \/ /\ state = "CREATED"
          /\ gate' = s
          /\ starter' = [starter EXCEPT ![s] = "emit"]
          /\ NewEvent(s)
       \/ /\ state # "CREATED"
          /\ starter' = [starter EXCEPT ![s] = "done"]
          /\ UNCHANGED <<gate, seq, ev>>
    /\ UNCHANGED <<state, close, closeErr, scope, closer, log, unsettled, data, calls>>

(* Faulty variant: RUNNING is published although close() came meanwhile.   *)
StartDeliveredAlways(s) ==
    /\ starter[s] = "emit"
    /\ Deliver(s, "sandbox.started")
    /\ state' = "RUNNING"
    /\ starter' = [starter EXCEPT ![s] = "done"]
    /\ Release
    /\ UNCHANGED <<close, closeErr, scope, closer, seq, ev, unsettled, data, calls>>

StartDelivered(s) ==
    /\ starter[s] = "emit"
    /\ Deliver(s, "sandbox.started")
    /\ state' = IF state = "CREATED" THEN "RUNNING" ELSE state
    /\ starter' = [starter EXCEPT ![s] = "done"]
    /\ Release
    /\ UNCHANGED <<close, closeErr, scope, closer, seq, ev, unsettled, data, calls>>

(* Faulty variant: the failed start keeps the gate.                        *)
StartLostKeepsGate(s) ==
    /\ starter[s] = "emit"
    /\ state' = "FAILED"
    /\ starter' = [starter EXCEPT ![s] = "done"]
    /\ UNCHANGED <<close, closeErr, scope, closer, gate, events, unsettled, data, calls>>

(* The delivery failed, timed out or was cancelled: FAILED whatever the    *)
(* state has become meanwhile.                                             *)
StartLost(s) ==
    /\ starter[s] = "emit"
    /\ state' = "FAILED"
    /\ starter' = [starter EXCEPT ![s] = "done"]
    /\ Release
    /\ UNCHANGED <<close, closeErr, scope, closer, events, unsettled, data, calls>>

-----------------------------------------------------------------------------
(* close() *)

Close(c) ==
    /\ closer[c] = "idle"
    /\ closer' = [closer EXCEPT ![c] = IF close = "done" THEN "returned" ELSE "waiting"]
    /\ \/ close = "none" /\ close' = "gate" /\ state' = "CLOSING"
       \/ close # "none" /\ UNCHANGED <<close, state>>
    /\ UNCHANGED <<starter, closeErr, scope, gate, events, unsettled, data, calls>>

(* The first cancellation makes the caller wait again, the second one      *)
(* leaves it.                                                              *)
CloserCancelled(c) ==
    /\ closer[c] \in {"waiting", "cancelling"}
    /\ closer' = [closer EXCEPT ![c] =
                    IF closer[c] = "waiting" THEN "cancelling" ELSE "cancelled"]
    /\ UNCHANGED <<state, starter, close, closeErr, scope, gate, events, unsettled, data, calls>>

(* A failure of the shared task replaces a pending cancellation.           *)
CloserReturns(c) ==
    /\ closer[c] \in {"waiting", "cancelling"}
    /\ close = "done"
    /\ closer' = [closer EXCEPT ![c] =
                    IF closeErr THEN "failed"
                    ELSE IF closer[c] = "waiting" THEN "returned" ELSE "cancelled"]
    /\ UNCHANGED <<state, starter, close, closeErr, scope, gate, events, unsettled, data, calls>>

(* Faulty variant: close does not wait for the active operation.           *)
CloseJumpsGate ==
    /\ close = "gate"
    /\ gate' = CloseTask
    /\ close' = "closing"
    /\ NewEvent(CloseTask)
    /\ UNCHANGED <<state, starter, closeErr, scope, closer, log, unsettled, data, calls>>

CloseAcquires ==
    /\ close = "gate"
    /\ gate = NoOne
    /\ gate' = CloseTask
    /\ close' = "closing"
    /\ NewEvent(CloseTask)
    /\ UNCHANGED <<state, starter, closeErr, scope, closer, log, unsettled, data, calls>>

(* Delivery of sandbox.closing, then of sandbox.closed: a failure is kept  *)
(* for the end.                                                            *)
ClosingEvent ==
    /\ close = "closing"
    /\ close' = "scope"
    /\ \/ Deliver(CloseTask, "sandbox.closing") /\ UNCHANGED closeErr
       \/ closeErr' = TRUE /\ UNCHANGED log
    /\ UNCHANGED <<state, starter, scope, closer, gate, seq, ev, unsettled, data, calls>>

CloseScope ==
    /\ close = "scope"
    /\ scope' = "closed"
    /\ state' = "CLOSED"
    /\ close' = "closed"
    /\ closeErr' \in {closeErr, TRUE}
    /\ NewEvent(CloseTask)
    /\ UNCHANGED <<starter, closer, gate, log, unsettled, data, calls>>

ClosedEvent ==
    /\ close = "closed"
    /\ close' = "done"
    /\ \/ Deliver(CloseTask, "sandbox.closed") /\ UNCHANGED closeErr
       \/ closeErr' = TRUE /\ UNCHANGED log
    /\ Release
    /\ UNCHANGED <<state, starter, scope, closer, seq, ev, unsettled, data, calls>>

-----------------------------------------------------------------------------
(* Admission. *)

(* A portable restore may carry the revision and hash of the workspace it  *)
(* was derived from.  HTTP checks its grant before it queues.              *)
Call(o) ==
    /\ pc[o] = "idle"
    /\ \/ /\ state = "RUNNING"
          /\ pc' = [pc EXCEPT ![o] = "gate"]
          /\ \/ Kind[o] = "archive" /\ expect' = [expect EXCEPT ![o] = ws]
             \/ UNCHANGED expect
          /\ UNCHANGED result
       \/ /\ state # "RUNNING" \/ Kind[o] = "http"
          /\ Return(o, "refused")
          /\ UNCHANGED expect
    /\ UNCHANGED <<lifecycle, gate, events, unsettled, data,
                   step, task, verdict, leases>>

(* Faulty variant: the release covers the failed acquisition too.          *)
GateRefusesReleasing(o) ==
    /\ pc[o] = "gate"
    /\ Return(o, "refused")
    /\ Release
    /\ UNCHANGED <<lifecycle, events, unsettled, data,
                   step, task, verdict, leases, expect>>

(* The deadline or the signal, seen while waiting for the gate.            *)
GateRefuses(o) ==
    /\ pc[o] = "gate"
    /\ Return(o, "refused")
    /\ UNCHANGED <<lifecycle, gate, events, unsettled, data,
                   step, task, verdict, leases, expect>>

(* Faulty variant: the state seen before the wait is trusted after it.     *)
AcquireUnchecked(o) ==
    /\ pc[o] = "gate"
    /\ gate = NoOne
    /\ gate' = o
    /\ pc' = [pc EXCEPT ![o] = "start"]
    /\ NewEvent(o)
    /\ UNCHANGED <<lifecycle, log, unsettled, data,
                   step, task, verdict, leases, expect, result>>

(* With the gate held: the session state is checked again, the path is     *)
(* normalised, and operation.started is sent.                              *)
Acquire(o) ==
    /\ pc[o] = "gate"
    /\ gate = NoOne
    /\ \/ /\ state = "RUNNING" /\ Uncancelled(o)
          /\ gate' = o
          /\ pc' = [pc EXCEPT ![o] = "start"]
          /\ NewEvent(o)
          /\ UNCHANGED result
       \/ /\ Return(o, "refused")
          /\ UNCHANGED <<gate, seq, ev>>
    /\ UNCHANGED <<lifecycle, log, unsettled, data,
                   step, task, verdict, leases, expect>>

StartedDelivered(o) ==
    /\ pc[o] = "start"
    /\ Deliver(o, "operation.started")
    /\ EnterStep(o, "policy")
    /\ UNCHANGED <<lifecycle, gate, unsettled, data,
                   leases, expect, result>>

StartedLost(o) ==
    /\ pc[o] = "start"
    /\ Return(o, "error")
    /\ Release
    /\ UNCHANGED <<lifecycle, events, unsettled, data,
                   step, task, verdict, leases, expect>>

-----------------------------------------------------------------------------
(* Collaborator tasks. *)

(* A command may change the workspace several times before it ends.        *)
CommandMutates(o) ==
    /\ step[o] = "execute" /\ task[o] = "run"
    /\ pc[o] \in {"collab", "settle"}
    /\ ws # o
    /\ ws' = o
    /\ UNCHANGED <<lifecycle, gate, events, unsettled, ctx, calls>>

(* The task ends well.  The workspace publishes in the step that ends it;  *)
(* an acquired lease is recorded in the step that ends its acquisition; a  *)
(* restore assigns cwd and environment in the step that commits it, a      *)
(* portable one only when it carries them.                                 *)
TaskReturns(o) ==
    /\ task[o] = "run"
    /\ pc[o] \in {"collab", "publish"}
    /\ task' = [task EXCEPT ![o] = "ok"]
    /\ ws' = IF step[o] \in {"mutate", "publish"} THEN o ELSE ws
    /\ \/ step[o] = "publish" /\ ctx' = o
       \/ (step[o] # "publish" \/ Kind[o] = "archive") /\ UNCHANGED ctx
    /\ leases' = [leases EXCEPT ![o] = IF step[o] = "lease" THEN @ + 1 ELSE @]
    /\ UNCHANGED <<lifecycle, gate, events, unsettled,
                   pc, step, verdict, expect, result>>

(* ... or raises: "unprovable" is an unexpected failure of a publication.  *)
TaskRaises(o) ==
    /\ task[o] = "run"
    /\ pc[o] \in {"collab", "publish"}
    /\ \E e \in {"error"} \cup (IF step[o] = "publish" THEN {"unprovable"} ELSE {}) :
         task' = [task EXCEPT ![o] = e]
    /\ UNCHANGED <<lifecycle, gate, events, unsettled, data,
                   pc, step, verdict, leases, expect, result>>

(* A cancelled task ends; an HTTP one leaves the unsettled set by callback,*)
(* also long after its operation returned.                                 *)
TaskSettles(o) ==
    /\ task[o] = "run"
    /\ pc[o] = "settle" \/ o \in unsettled
    /\ task' = [task EXCEPT ![o] = "settled"]
    /\ unsettled' = unsettled \ {o}
    /\ UNCHANGED <<lifecycle, gate, events, data,
                   pc, step, verdict, leases, expect, result>>

(* Faulty variant: the expected revision and hash are not compared.        *)
SourceAssumed(o) == expect[o] # "any"

(* The workspace still is the one a portable restore was derived from.     *)
SourceUnchanged(o) == ws = expect[o]

(* The session observes the end of the task.  Only a mutation's result is  *)
(* accepted without looking at deadline and cancellation again.            *)
CollabReturns(o) ==
    /\ pc[o] = "collab"
    /\ task[o] = "ok"
    /\ \/ /\ step[o] = "mutate" \/ Uncancelled(o)
          /\ step[o] = "cas" => SourceUnchanged(o)
          /\ Advance(o)
       \/ /\ \/ step[o] # "mutate" /\ EndAction(o, "timed_out")
             \/ step[o] # "mutate" /\ Cancellable(o) /\ EndAction(o, "cancelled")
             \/ step[o] = "policy" /\ EndAction(o, "failed")
             \/ step[o] = "cas" /\ ~SourceUnchanged(o) /\ EndAction(o, "failed")
          /\ UNCHANGED <<step, task, ctx>>
    /\ UNCHANGED <<lifecycle, gate, log, unsettled, ws,
                   leases, expect, result>>

(* The terminal event follows the error's category: commands and the HTTP  *)
(* gateway have timeouts and cancellation of their own.                    *)
CollabRaises(o) ==
    /\ pc[o] = "collab"
    /\ task[o] = "error"
    /\ \E v \in {"failed"} \cup (IF step[o] \in {"execute", "gateway"}
                                 THEN {"timed_out", "cancelled"} ELSE {}) :
         EndAction(o, v)
    /\ UNCHANGED <<lifecycle, gate, log, unsettled, data, step, task,
                   leases, expect, result>>

(* Cooperative cancellation or the deadline: the task is cancelled and     *)
(* awaited, an HTTP one only for a bounded time.                           *)
AbandonTask(o, v) ==
    /\ verdict' = [verdict EXCEPT ![o] = v]
    /\ pc' = [pc EXCEPT ![o] = "settle"]
    /\ unsettled' = IF step[o] = "gateway" THEN unsettled \cup {o} ELSE unsettled

CollabInterrupted(o) ==
    /\ pc[o] = "collab"
    /\ task[o] = "run"
    /\ \/ Cancellable(o) /\ AbandonTask(o, "cancelled")
       \/ Uncancelled(o) /\ AbandonTask(o, "timed_out")
    /\ UNCHANGED <<lifecycle, gate, events, data, step, task,
                   leases, expect, result>>

SettleReturns(o) ==
    /\ pc[o] = "settle"
    /\ task[o] = "settled"
    /\ EndAction(o, verdict[o])
    /\ UNCHANGED <<lifecycle, gate, log, unsettled, data, step, task,
                   leases, expect, result>>

(* Faulty variants: the session stays usable with the task alive; the wait *)
(* for the cancelled task is unbounded.                                    *)
SettleGivesUpOpen(o) ==
    /\ pc[o] = "settle"
    /\ step[o] = "gateway" /\ task[o] = "run"
    /\ EndAction(o, verdict[o])
    /\ UNCHANGED <<lifecycle, gate, log, unsettled, data,
                   step, task, leases, expect, result>>

SettleGivesUp(o) ==
    /\ pc[o] = "settle"
    /\ step[o] = "gateway" /\ task[o] = "run"
    /\ FailClosed
    /\ EndAction(o, verdict[o])
    /\ UNCHANGED <<starter, close, closeErr, scope, closer, gate, log, unsettled, data,
                   step, task, leases, expect, result>>

-----------------------------------------------------------------------------
(* Secret leases are closed one at a time; a failed close is remembered    *)
(* unless the operation already failed.                                    *)
CloseLease(o) ==
    /\ pc[o] = "leases"
    /\ leases[o] > 0
    /\ leases' = [leases EXCEPT ![o] = @ - 1]
    /\ \/ UNCHANGED verdict
       \/ verdict' = [verdict EXCEPT ![o] = IF @ = "none" THEN "failed" ELSE @]
    /\ UNCHANGED <<lifecycle, gate, events, unsettled, data,
                   pc, step, task, expect, result>>

LeasesClosed(o) ==
    /\ pc[o] = "leases"
    /\ leases[o] = 0
    /\ \/ verdict[o] = "none" /\ EnterStep(o, "stats")
       \/ verdict[o] # "none" /\ BeginTerminal(o, verdict[o]) /\ UNCHANGED <<step, task>>
    /\ UNCHANGED <<lifecycle, gate, log, unsettled, data,
                   leases, expect, result>>

-----------------------------------------------------------------------------
(* Publication of a restore. *)

PublishReturns(o) ==
    /\ pc[o] = "publish"
    /\ task[o] = "ok"
    /\ Complete(o)
    /\ UNCHANGED <<lifecycle, gate, log, unsettled, data, step, task,
                   leases, expect, result>>

PublishRaises(o) ==
    /\ pc[o] = "publish"
    /\ \/ /\ task[o] = "error"
          /\ EndAction(o, "failed")
          /\ UNCHANGED state
       \/ /\ task[o] = "unprovable"
          /\ state' = "FAILED"
          /\ pc' = [pc EXCEPT ![o] = "failing"]
          /\ NewEvent(o)
          /\ UNCHANGED verdict
    /\ UNCHANGED <<starter, close, closeErr, scope, closer, gate, log, unsettled, data,
                   step, task, leases, expect, result>>

(* The commit has no await after its publication, so a task that is        *)
(* cancelled before it ended publishes nothing.                            *)
PublishInterrupted(o) ==
    /\ pc[o] = "publish"
    /\ task[o] = "run"
    /\ \/ Cancellable(o) /\ EndAction(o, "cancelled")
       \/ EndAction(o, "timed_out")
    /\ task' = [task EXCEPT ![o] = "settled"]
    /\ UNCHANGED <<lifecycle, gate, log, unsettled, data, step,
                   leases, expect, result>>

FailedEvent(o) ==
    /\ pc[o] = "failing"
    /\ Deliver(o, "sandbox.failed") \/ UNCHANGED log
    /\ EndAction(o, "failed")
    /\ UNCHANGED <<lifecycle, gate, unsettled, data, step, task,
                   leases, expect, result>>

-----------------------------------------------------------------------------
(* The post-commit snapshot event and the terminal event. *)

PostEvent(o) ==
    /\ pc[o] = "post"
    /\ \/ Deliver(o, "snapshot") /\ BeginTerminal(o, "completed")
       \/ UNCHANGED log /\ BeginTerminal(o, "failed")
    /\ UNCHANGED <<lifecycle, gate, unsettled, data, step, task,
                   leases, expect, result>>

TerminalType(v) ==
    CASE v = "completed" -> "completed"
      [] v = "timed_out" -> "timed_out"
      [] v \in {"cancelled", "native"} -> "cancelled"
      [] OTHER -> "failed"

TerminalResult(v) ==
    CASE v = "completed" -> "ok" [] v = "native" -> "native" [] OTHER -> "error"

TerminalDelivered(o) ==
    /\ pc[o] = "terminal"
    /\ Deliver(o, TerminalType(verdict[o]))
    /\ Return(o, TerminalResult(verdict[o]))
    /\ Release
    /\ UNCHANGED <<lifecycle, seq, ev, unsettled, data, step, task,
                   verdict, leases, expect>>

TerminalLost(o) ==
    /\ pc[o] = "terminal"
    /\ Return(o, IF verdict[o] = "native" THEN "native" ELSE "error")
    /\ Release
    /\ UNCHANGED <<lifecycle, events, unsettled, data, step, task,
                   verdict, leases, expect>>

-----------------------------------------------------------------------------
(* Native cancellation (asyncio.CancelledError at the await of a call).    *)

CancelQueued(o) ==
    /\ pc[o] = "gate"
    /\ Return(o, "native")
    /\ UNCHANGED <<lifecycle, gate, events, unsettled, data,
                   step, task, verdict, leases, expect>>

(* While an event is delivered.  The completion of an authoritative        *)
(* mutation is shielded and consumes the cancellation.                     *)
CancelEmit(o) ==
    /\ \/ /\ pc[o] = "start"
          /\ Return(o, "native") /\ Release
          /\ UNCHANGED <<seq, ev, verdict>>
       \/ /\ pc[o] = "terminal"
          /\ ~(verdict[o] = "completed" /\ Kind[o] \in AuthoritativeKinds)
          /\ Return(o, "native") /\ Release
          /\ UNCHANGED <<seq, ev, verdict>>
       \/ /\ pc[o] \in {"post", "failing"}
          /\ BeginTerminal(o, "native")
          /\ UNCHANGED <<gate, result>>
    /\ UNCHANGED <<lifecycle, log, unsettled, data,
                   step, task, leases, expect>>

(* Faulty variant: cancellation discards the result of a mutation.         *)
KeepsNothing(o) == FALSE

(* A mutation that has ended well keeps its result.                        *)
KeepsResult(o) == step[o] = "mutate" /\ task[o] = "ok"

CancelCollab(o) ==
    /\ pc[o] = "collab"
    /\ \/ /\ KeepsResult(o)
          /\ Advance(o)
          /\ UNCHANGED unsettled
       \/ /\ task[o] = "run"
          /\ AbandonTask(o, "native")
          /\ UNCHANGED <<seq, ev, step, task, ctx>>
       \/ /\ task[o] # "run" /\ ~KeepsResult(o)
          /\ EndAction(o, "native")
          /\ UNCHANGED <<step, task, ctx, unsettled>>
    /\ UNCHANGED <<lifecycle, gate, log, ws, leases, expect, result>>

(* Only the bounded HTTP settlement can be interrupted.  One that a        *)
(* timeout began is begun again; any other is abandoned.                   *)
CancelSettle(o) ==
    /\ pc[o] = "settle"
    /\ step[o] = "gateway"
    /\ IF task[o] = "run" THEN FailClosed ELSE UNCHANGED state
    /\ \/ /\ verdict[o] = "timed_out"
          /\ verdict' = [verdict EXCEPT ![o] = "native"]
          /\ UNCHANGED <<pc, seq, ev>>
       \/ verdict[o] # "timed_out" /\ EndAction(o, "native")
    /\ UNCHANGED <<starter, close, closeErr, scope, closer, gate, log, unsettled, data,
                   step, task, leases, expect, result>>

(* Lease cleanup goes on; the interruption is raised at its end unless the *)
(* operation had failed before the cleanup began.                          *)
CancelLeases(o) ==
    /\ pc[o] = "leases"
    /\ verdict' = [verdict EXCEPT ![o] = IF step[o] = "execute" /\ task[o] = "ok"
                                            /\ @ \in {"none", "failed"}
                                         THEN "native" ELSE @]
    /\ UNCHANGED <<lifecycle, gate, events, unsettled, data,
                   pc, step, task, leases, expect, result>>

(* During publication: success already reached wins, an unprovable outcome *)
(* fails the session without a lifecycle event.                            *)
CancelPublish(o) ==
    /\ pc[o] = "publish"
    /\ \/ /\ task[o] = "ok"
          /\ Complete(o)
          /\ UNCHANGED <<state, task>>
       \/ /\ task[o] # "ok"
          /\ EndAction(o, "native")
          /\ state' = IF task[o] = "unprovable" THEN "FAILED" ELSE state
          /\ task' = [task EXCEPT ![o] = "settled"]
    /\ UNCHANGED <<starter, close, closeErr, scope, closer, gate, log, unsettled, data,
                   step, leases, expect, result>>

-----------------------------------------------------------------------------
OpNext(o) ==
    \/ Call(o) \/ GateRefuses(o) \/ Acquire(o) \/ StartedDelivered(o) \/ StartedLost(o)
    \/ CommandMutates(o) \/ TaskReturns(o) \/ TaskRaises(o) \/ TaskSettles(o)
    \/ CollabReturns(o) \/ CollabRaises(o) \/ CollabInterrupted(o)
    \/ SettleReturns(o) \/ SettleGivesUp(o)
    \/ CloseLease(o) \/ LeasesClosed(o)
    \/ PublishReturns(o) \/ PublishRaises(o) \/ PublishInterrupted(o) \/ FailedEvent(o)
    \/ PostEvent(o) \/ TerminalDelivered(o) \/ TerminalLost(o)
    \/ CancelQueued(o) \/ CancelEmit(o) \/ CancelCollab(o)
    \/ CancelSettle(o) \/ CancelLeases(o) \/ CancelPublish(o)

StarterNext(s) ==
    \/ Start(s) \/ StartLeaves(s) \/ StartAcquires(s) \/ StartDelivered(s) \/ StartLost(s)

CloserNext(c) == Close(c) \/ CloserCancelled(c) \/ CloserReturns(c)

CloseNext == CloseAcquires \/ ClosingEvent \/ CloseScope \/ ClosedEvent

Next ==
    \/ \E o \in Ops : OpNext(o)
    \/ \E s \in Starters : StarterNext(s)
    \/ \E c \in Closers : CloserNext(c)
    \/ CloseNext

Spec == Init /\ [][Next]_vars

(* What the event loop runs by itself: time passes, deliveries return or   *)
(* time out, the close task and its scope finish, and collaborators other  *)
(* than the HTTP gateway end once they are cancelled.  Nothing makes a     *)
(* collaborator return before that, and nothing makes an HTTP task settle. *)
OpProgress(o) ==
    \/ GateRefuses(o) \/ Acquire(o) \/ StartedDelivered(o) \/ StartedLost(o)
    \/ CollabReturns(o) \/ CollabRaises(o) \/ CollabInterrupted(o)
    \/ (step[o] # "gateway" /\ TaskSettles(o))
    \/ SettleReturns(o) \/ SettleGivesUp(o)
    \/ CloseLease(o) \/ LeasesClosed(o)
    \/ PublishReturns(o) \/ PublishRaises(o) \/ PublishInterrupted(o) \/ FailedEvent(o)
    \/ PostEvent(o) \/ TerminalDelivered(o) \/ TerminalLost(o)

Fairness ==
    /\ \A o \in Ops : WF_vars(OpProgress(o))
    /\ \A s \in Starters :
         WF_vars(StartLeaves(s) \/ StartAcquires(s) \/ StartDelivered(s) \/ StartLost(s))
    /\ \A c \in Closers : WF_vars(CloserReturns(c))
    /\ WF_vars(CloseNext)

FairSpec == Spec /\ Fairness

-----------------------------------------------------------------------------
(* Properties *)

States == {"CREATED", "RUNNING", "CLOSING", "CLOSED", "FAILED"}
InOperation == {"start", "collab", "settle", "leases", "publish", "failing", "post", "terminal"}

LifecycleType ==
    /\ state \in States
    /\ starter \in [Starters -> {"idle", "gate", "emit", "done"}]
    /\ close \in {"none", "gate", "closing", "scope", "closed", "done"}
    /\ closeErr \in BOOLEAN
    /\ scope \in {"open", "closed"}
    /\ closer \in [Closers -> {"idle", "waiting", "cancelling", "returned", "failed", "cancelled"}]
    /\ gate \in Actors \cup {NoOne}

EventType ==
    /\ seq \in Nat
    /\ ev \in [Actors -> Nat]
    /\ log \in Seq([n : Nat, type : EventTypes, by : Actors])

DataType ==
    /\ ws \in Ops \cup {NoOne}
    /\ ctx \in Ops \cup {NoOne}
    /\ unsettled \subseteq Ops

CallType ==
    /\ pc \in [Ops -> {"idle", "gate", "done"} \cup InOperation]
    /\ step \in [Ops -> Steps]
    /\ task \in [Ops -> {"none", "run", "ok", "error", "unprovable", "settled"}]
    /\ verdict \in [Ops -> Verdicts]
    /\ leases \in [Ops -> Nat]
    /\ expect \in [Ops -> Ops \cup {NoOne, "any"}]
    /\ result \in [Ops -> {"none", "refused", "ok", "error", "native"}]

(* Every variable of the session keeps its type; no lease is closed that   *)
(* was not acquired.                                                       *)
TypeOK == LifecycleType /\ EventType /\ DataType /\ CallType

(* asyncio.Lock has no owner: any release frees it.  Whoever is between    *)
(* acquire and release of _operation_gate (an operation, a start() or the  *)
(* close task) nevertheless holds it, so the three never overlap.          *)
GateExclusion ==
    /\ \A o \in Ops : pc[o] \in InOperation => gate = o
    /\ \A s \in Starters : starter[s] = "emit" => gate = s
    /\ close \in {"closing", "scope", "closed"} => gate = CloseTask

(* Delivered events carry strictly increasing session sequence numbers,    *)
(* the condition under which the sink accepts them.                        *)
EventOrder ==
    \A i, j \in 1..Len(log) : i < j => log[i].n < log[j].n

Terminals == {"completed", "failed", "timed_out", "cancelled"}
IsTerminal(e) == e.type \in Terminals

(* The delivered events tell a well-formed story: a terminal event is      *)
(* preceded by its operation's operation.started with no event of another  *)
(* actor between the two, no operation has two terminal events, operations *)
(* run after sandbox.started, and sandbox.closed is the last event.        *)
EventStory ==
    \A j \in 1..Len(log) :
      /\ IsTerminal(log[j]) =>
           \E i \in 1..(j - 1) :
             /\ log[i].type = "operation.started"
             /\ \A k \in i..j : log[k].by = log[j].by
             /\ \A k \in (i + 1)..(j - 1) : ~IsTerminal(log[k])
      /\ log[j].type = "operation.started" =>
           \E i \in 1..(j - 1) : log[i].type = "sandbox.started"
      /\ log[j].type = "sandbox.closed" => j = Len(log)

(* An HTTP task that outlived its cancellation is never behind the back of *)
(* a running session: between operations, the session with one has failed, *)
(* is closing or is closed.                                                *)
UnsettledFailsClosed ==
    (unsettled # {} /\ gate = NoOne) => state \notin {"CREATED", "RUNNING"}

Published(o) == task[o] = "ok" /\ step[o] \in {"mutate", "publish"}

(* A write, mkdir, remove, patch or portable restore ends in               *)
(* operation.completed exactly when it changed the workspace, and its      *)
(* caller's native cancellation never hides a change: no cancellation or   *)
(* deadline that races the publication makes it report cancelled,          *)
(* timed_out or failed for a change that happened.                         *)
OutcomeMatchesEffect ==
    \A o \in Ops : Kind[o] \in AuthoritativeKinds =>
      /\ pc[o] = "terminal" => (verdict[o] = "completed" <=> Published(o))
      /\ result[o] = "native" => ~Published(o)
      /\ result[o] = "ok" => Published(o)

(* No path out of an execute leaves a lease open, and a command's cwd and  *)
(* environment become session state only after its leases are closed.      *)
LeasesReleased ==
    \A o \in Ops :
      /\ pc[o] \notin {"collab", "settle", "leases"} => leases[o] = 0
      /\ (Kind[o] = "execute" /\ ctx = o) => leases[o] = 0

(* A portable restore that carries the source it was derived from replaces *)
(* that very workspace: what other operations wrote since is never lost.   *)
NoLostUpdate ==
    [][\A o \in Ops :
         (Kind[o] = "archive" /\ expect[o] # "any" /\ ws' = o /\ ws # o) => ws = expect[o]]_vars

(* A session that was closed or has failed never runs again, whatever      *)
(* start(), restore or settlement is still under way.                      *)
NoRevival ==
    [][(state' = "RUNNING" /\ state # "RUNNING") => (state = "CREATED" /\ close = "none")]_vars

(* Once the resource scope is closed no operation changes the workspace or *)
(* the session's cwd and environment, and the session stays CLOSED.        *)
QuietAfterClose ==
    [][scope = "closed" => (UNCHANGED data /\ state' = "CLOSED")]_vars

(* A requested close ends in CLOSED with its callers answered, and every   *)
(* admitted call is answered, although deliveries fail, leases fail to     *)
(* close, collaborators hang until they are cancelled and an HTTP task may *)
(* never settle.                                                           *)
EveryoneAnswered ==
    /\ \A c \in Closers : (closer[c] = "waiting") ~>
          (state = "CLOSED" /\ closer[c] \in {"returned", "failed", "cancelled"})
    /\ \A o \in Ops : (pc[o] # "idle") ~> (pc[o] = "done")

-----------------------------------------------------------------------------
(* The inductive invariant behind GateExclusion, EventOrder, NoRevival and *)
(* UnsettledFailsClosed.                                                   *)

(* Before start() succeeds nothing has happened; after close() was called  *)
(* the session is neither created nor running.                             *)
LifecycleInv ==
    /\ state = "CREATED" => /\ close = "none"
                            /\ unsettled = {}
                            /\ \A o \in Ops : pc[o] \in {"idle", "done"}
    /\ close # "none" => state \notin {"CREATED", "RUNNING"}

(* A tracked HTTP task is running and its call is settling it, about to    *)
(* report or gone; only in the first case may the session be running.      *)
UnsettledInv ==
    \A o \in unsettled :
      /\ task[o] = "run"
      /\ step[o] = "gateway"
      /\ pc[o] \in {"settle", "terminal", "done"}
      /\ state = "RUNNING" => pc[o] = "settle"

(* Leases are held only while an execute acquires them, runs its command   *)
(* or closes them.                                                         *)
LeaseInv ==
    \A o \in Ops :
      /\ leases[o] > 0 => /\ step[o] \in {"lease", "execute"}
                          /\ pc[o] \in {"collab", "settle", "leases"}
      /\ pc[o] = "publish" => step[o] = "publish"

(* The actors that deliver an event hold the newest number.                *)
Emitting(a) ==
    \/ a \in Ops /\ pc[a] \in {"start", "failing", "post", "terminal"}
    \/ a \in Starters /\ starter[a] = "emit"
    \/ a = CloseTask /\ close \in {"closing", "closed"}

EventInv ==
    /\ \A i \in 1..Len(log) : log[i].n <= seq
    /\ \A a \in Actors : Emitting(a) =>
         ev[a] = seq /\ \A i \in 1..Len(log) : log[i].n < seq

IInv ==
    /\ TypeOK /\ GateExclusion
    /\ LifecycleInv /\ LeaseInv /\ UnsettledInv
    /\ EventInv /\ EventOrder

(* What the component documentation promises of close(): a caller's        *)
(* cancellation propagates only after the cleanup is complete.             *)
CloseBeforeCancellation ==
    \A c \in Closers : closer[c] = "cancelled" => scope = "closed"

=============================================================================
