----------------------------- MODULE MCSession -----------------------------
(* Instances of Session for TLC: one call of every kind with a life of its *)
(* own, a caller of start() and a caller of close().  Those who call are   *)
(* one of some casts; proofs speak of any number of calls at once          *)
(* (SessionProofs).                                                        *)
EXTENDS Session, TLC

CONSTANTS o1, o2, o3, o4, o5, o6

OneOfEach == (o1 :> "snapshot") @@ (o2 :> "http") @@ (o3 :> "execute")
               @@ (o4 :> "archive") @@ (o5 :> "restore") @@ (o6 :> "write")
Lister == o1 :> "list"

(* What meets: a task that may not settle with a snapshot or a write, a    *)
(* portable restore with each of those who write, a write with a restore,  *)
(* an execute with another mutation.                                       *)
Casts == {{o1, o2}, {o2, o6}, {o3, o4}, {o3, o6}, {o4, o5}, {o4, o6}, {o5, o6}}
OneCast == \E cast \in Casts : {o \in Ops : pc[o] # "idle"} \subseteq cast

-----------------------------------------------------------------------------
(* The event history guards no action, nor do the locals of a call that    *)
(* has returned: states that differ only in them are the same, as long as  *)
(* the properties of the history cannot tell them apart.                   *)
Locals(o) ==
    IF pc[o] = "done" THEN <<result[o], Published(o), leases[o], o \in unsettled>>
    ELSE <<pc[o], step[o], task[o], verdict[o], leases[o], expect[o], o \in unsettled>>

(* EventOrder goes on to compare the numbers yet to be delivered with the  *)
(* highest delivered, and with each other;                                 *)
Fresh == {a \in Actors : \A i \in DOMAIN log : ev[a] > log[i].n}
Later == {p \in Fresh \X Fresh : ev[p[1]] < ev[p[2]]}

(* EventStory goes on from the operation whose terminal event may come     *)
(* next, and from whether the session was started or closed.               *)
Open ==
    {o \in Ops : \E i \in DOMAIN log :
        /\ log[i].type = "operation.started"
        /\ \A k \in i..Len(log) : log[k].by = o
        /\ \A k \in (i + 1)..Len(log) : ~IsTerminal(log[k])}
Milestones == {log[i].type : i \in DOMAIN log} \cap {"sandbox.started", "sandbox.closed"}

WithoutHistory ==
    <<lifecycle, gate, data, [o \in Ops |-> Locals(o)],
      Fresh, Later, Open, Milestones, EventOrder, EventStory>>
=============================================================================
