--------------------------- MODULE AgentsAdapter ---------------------------
(***************************************************************************)
(* The OpenAI Agents SDK adapter (packages/openai-agents: adapter.py and   *)
(* snapshot.py) over a sandbox service and a snapshot store.               *)
(*                                                                         *)
(* A client call (create, resume) allocates a sandbox and hands out a      *)
(* provider session that refers to it; start, stop, shutdown and delete of *)
(* one provider session exclude each other by its lifecycle lock; file     *)
(* operations, exec and the applications of manifests, of which several    *)
(* may be under way in one session (Tasks), do not take it.                *)
(* What interleaves are the awaits: any of them may fail or be cancelled,  *)
(* and the service may take a sandbox away at any time, as it does when    *)
(* another client deletes it or when it closes.                            *)
(*                                                                         *)
(* An operation of the core session is one step, by its operation gate     *)
(* (module Session); a root hash stands for the tree, an archive for the   *)
(* tree and its revision.  Sandboxes and snapshots are numbered in the     *)
(* order in which their UUIDs are drawn, so a handle is never used twice.  *)
(* The SDK's base class is external: its start runs _start_workspace, its  *)
(* stop _persist_snapshot, and aclose runs stop, shutdown and then closes  *)
(* the dependencies.                                                       *)
(***************************************************************************)
EXTENDS ManifestPlan, SnapshotStore

CONSTANTS
    Sessions,       \* provider sessions, with the client call that makes each
    Tasks,          \* the host's tasks that may apply manifests to one session
    Manifests, Batches, \* what create and apply are called with, by name
    Targets, Contents, \* the paths and contents that callers name
    Archives,       \* [tree, rev] of the streams hydrate_workspace is given
    Environments,   \* approved environments, the first one among them
    NoEnvironment,
    MaxStreamBytes, \* max_stream_bytes
    MaxBoxes, MaxSaves, \* bounds: sandboxes and snapshot identifiers drawn
    MaxCalls,       \* bound: calls the host makes, start() apart
    MaxMishaps,     \* bound: failures, cancellations and acts of others
    None

(* Manifests, batches and streams are finite, and so is what they hold.    *)
ASSUME CallersAssumption ==
    /\ \A m \in DOMAIN Manifests : Manifests[m].entries \in Seq(Entries)
    /\ \A b \in DOMAIN Batches : Batches[b] \in Seq(Entries)
    /\ Targets \subseteq Seq(Segments) /\ Contents \subseteq Seq(Bytes)
    /\ \A archive \in Archives :
          /\ IsFiniteSet(DOMAIN archive.tree)
          /\ \A p \in DOMAIN archive.tree :
                archive.tree[p] = Dir \/ archive.tree[p] \in Seq(Bytes)

VARIABLES
    box,        \* sandbox -> NoBox or [life, tree, rev, cwd, env, work]
    call,       \* session -> NoCall or the client call that will hand it out
    prov,       \* session -> NoProvider or the InMemorySandboxSession
    lock,       \* session -> who holds its _lifecycle_lock, and how far
    captured,   \* session -> what the stop under way has exported
    applying,   \* session -> task -> NoApplication or the application under way
    saved,      \* the provider state the host has serialized
    lastId,     \* snapshot identifiers drawn
    calls, mishaps \* what has been spent of the two bounds

sdk == <<call, prov, lock, captured, applying, saved, lastId>>
vars == <<box, sdk, storeVars, calls, mishaps>>

Boxes == 1..MaxBoxes
ManifestPlans == [m \in DOMAIN Manifests |-> PlanOf(Manifests[m])]
BatchPlans == [b \in DOMAIN Batches |-> BatchPlanOf(Batches[b])]

(* What is not there.                                                      *)
NoBox == [life |-> "none"]
NoCall == [stage |-> "none"]
NoProvider == [box |-> 0]
NoApplication == [stage |-> "none"]

Lives(b) == box[b].life = "live"
Gone(b) == box[b].life = "gone"

(* What a workspace and its execution context are at one moment, with the  *)
(* number of user operations that made them (history).                     *)
Moment(b) == [tree |-> box[b].tree, rev |-> box[b].rev, cwd |-> box[b].cwd,
              env |-> box[b].env, work |-> box[b].work]

Init ==
    /\ StoreInit
    /\ box = [b \in Boxes |-> NoBox]
    /\ call = [s \in Sessions |-> NoCall]
    /\ prov = [s \in Sessions |-> NoProvider]
    /\ lock = [s \in Sessions |-> "free"]
    /\ captured = [s \in Sessions |-> None]
    /\ applying = [s \in Sessions |-> [t \in Tasks |-> NoApplication]]
    /\ saved = None
    /\ lastId = 0
    /\ calls = 0 /\ mishaps = 0

-----------------------------------------------------------------------------
(* The service, as the adapter uses it (module Service).                   *)

(* create: a sandbox with the seed files of the plan.                      *)
Draw == {b \in Boxes : box[b] = NoBox /\ \A c \in 1..(b - 1) : box[c] # NoBox}
Box(life, v) == [life |-> life, tree |-> v.tree, rev |-> v.rev,
                 cwd |-> Root, env |-> NoEnvironment, work |-> 0]
NewBox(b, v) == box' = [box EXCEPT ![b] = Box("live", v)]

(* delete: the deletion runs in a task of its own, whether or not the      *)
(* caller waits for it.  From its begin the session takes no operation,    *)
(* and get_session waits for its end and finds nothing.                    *)
Doom(b) == box' = [box EXCEPT ![b] = Box("gone", Pristine)]

(* Another client deletes the sandbox, or the service closes.              *)
Evict(b) == Lives(b) /\ Doom(b) /\ UNCHANGED <<sdk, storeVars>>

-----------------------------------------------------------------------------
(* The snapshot bridge (snapshot.py).                                      *)
ArchiveBytes(tree) == Cardinality(DOMAIN tree) + TotalBytes(tree)
Draft(m) == [format |-> "portable", tree |-> m.tree, rev |-> m.rev,
             bytes |-> ArchiveBytes(m.tree)]
Foreign == [format |-> "session", bytes |-> 1]

(* _load_snapshot: what the store returns has to be one of ours.           *)
Restorable(state) ==
    /\ Loads(state.snapshot)
    /\ snapshots[state.snapshot].draft.format = "portable"

(* A core session saves a full snapshot of its own in the same store.      *)
SaveForeign ==
    /\ lastId < MaxSaves
    /\ lastId' = lastId + 1
    /\ Save(lastId + 1, Foreign)
    /\ UNCHANGED <<box, call, prov, lock, captured, applying, saved>>

-----------------------------------------------------------------------------
(* InMemorySandboxClient.create and resume.                                *)
FreshState(m, id) ==
    [handle |-> None, session |-> None, manifest |-> m, snapshot |-> id,
     metadata |-> None, cwd |-> Root, env |-> NoEnvironment, moment |-> None]

Provided(s) == prov[s] # NoProvider
Idle(s) == call[s] = NoCall /\ ~Provided(s)
Calling(s, stage) == call[s].stage = stage

(* The manifest is planned, and a snapshot that can be loaded is refused,  *)
(* because it is restorable or because it is not one of ours, before       *)
(* anything is allocated.  Zero is an identifier just drawn.  A            *)
(* NoopSnapshot is never persisted nor restorable: a session that has one  *)
(* is a session that is never stopped.                                     *)
Create(s, m, id) ==
    /\ Idle(s)
    /\ ManifestPlans[m].ok
    /\ Load(id)
    /\ call' = IF Loads(id) THEN call
               ELSE [call EXCEPT ![s] = [stage |-> "allocate", resumes |-> FALSE,
                                         state |-> FreshState(m, id), box |-> None]]
    /\ UNCHANGED <<box, prov, lock, captured, applying, saved, lastId>>

(* _allocate, up to the sandbox; it may be refused.                        *)
Allocate(s, b) ==
    LET v == Seeded(Pristine, ManifestPlans[call[s].state.manifest])
    IN  /\ Calling(s, "allocate")
        /\ v.ok
        /\ NewBox(b, v)
        /\ call' = [call EXCEPT ![s] = [@ EXCEPT !.stage = "materialize", !.box = b]]
        /\ UNCHANGED <<prov, lock, captured, applying, saved, lastId, storeVars>>

AllocateFails(s) ==
    /\ Calling(s, "allocate")
    /\ call' = [call EXCEPT ![s] = NoCall]
    /\ UNCHANGED <<box, prov, lock, captured, applying, saved, lastId, storeVars>>

Provider(b, state, live, replacement) ==
    [box |-> b, state |-> state, live |-> live, replacement |-> replacement,
     cleanup |-> ~live, started |-> FALSE, deleted |-> FALSE, closed |-> FALSE]

(* The directories are made and the provider session is returned.          *)
HandOut(s) ==
    LET b == call[s].box
        v == MaterializedDirectories(Version(box[b].tree, box[b].rev),
                                     ManifestPlans[call[s].state.manifest])
    IN  /\ Calling(s, "materialize")
        /\ Lives(b)
        /\ v.ok
        /\ box' = [box EXCEPT ![b] = [@ EXCEPT !.tree = v.tree, !.rev = v.rev]]
        /\ prov' = [prov EXCEPT ![s] =
                      Provider(b, [call[s].state EXCEPT !.handle = b, !.session = b],
                               FALSE, call[s].resumes)]
        /\ call' = [call EXCEPT ![s] = NoCall]
        /\ UNCHANGED <<lock, captured, applying, saved, lastId, storeVars>>

(* Faulty variant: the caller gets the error and the sandbox stays.        *)
HandOutFailsKeeping(s) ==
    /\ Calling(s, "materialize")
    /\ call' = [call EXCEPT ![s] = NoCall]
    /\ UNCHANGED <<box, prov, lock, captured, applying, saved, lastId, storeVars>>

(* get_session, a directory or the wrapping fails, or the caller is        *)
(* cancelled: _cleanup_handle_after_failure.                               *)
HandOutFails(s) ==
    /\ Calling(s, "materialize")
    /\ Doom(call[s].box)
    /\ call' = [call EXCEPT ![s] = NoCall]
    /\ UNCHANGED <<prov, lock, captured, applying, saved, lastId, storeVars>>

(* resume, of the state serialized earlier or of that of a session at      *)
(* hand: its sandbox if it is still there, its snapshot otherwise.  `at`   *)
(* is the sandbox its handle names, which may belong to another session.   *)
Resume(s, state, at) ==
    /\ Idle(s)
    /\ at = state.handle \/ Lives(at)
    /\ IF Lives(at) /\ at = state.session
       THEN /\ prov' = [prov EXCEPT ![s] = Provider(at, state, TRUE, FALSE)]
            /\ UNCHANGED <<call, storeVars>>
       ELSE /\ Load(state.snapshot)
            /\ call' = IF Restorable(state) /\ state.metadata # None
                       THEN [call EXCEPT ![s] = [stage |-> "allocate", resumes |-> TRUE,
                                                 state |-> state, box |-> None]]
                       ELSE call
            /\ UNCHANGED prov
    /\ UNCHANGED <<box, lock, captured, applying, saved, lastId>>

States == ({saved} \cup {prov[s].state : s \in {t \in Sessions : Provided(t)}}) \ {None}

-----------------------------------------------------------------------------
(* InMemorySandboxSession: its lifecycle.                                  *)

(* _require_backend_available *)
Available(s) ==
    /\ Provided(s)
    /\ ~prov[s].deleted /\ ~prov[s].closed
    /\ Lives(prov[s].box)

Holds(s, stage) == lock[s] = stage
SetLock(s, stage) == lock' = [lock EXCEPT ![s] = stage]
lifecycle == <<call, captured, applying, saved, lastId>>

StartBegins(s) ==
    /\ Holds(s, "free") /\ Available(s) /\ ~prov[s].started
    /\ SetLock(s, IF prov[s].live \/ prov[s].replacement THEN "starting" ELSE "ready")
    /\ UNCHANGED <<box, prov, lifecycle, storeVars>>

(* _start_workspace: a new workspace is there already, a live one must     *)
(* still be; that of a replacement comes from the snapshot.                *)
StartPreserved(s) ==
    /\ Holds(s, "starting") /\ prov[s].live
    /\ SetLock(s, IF Available(s) THEN "ready" ELSE "failing")
    /\ UNCHANGED <<box, prov, lifecycle, storeVars>>

StartChecks(s) ==
    /\ Holds(s, "starting") /\ prov[s].replacement
    /\ Load(prov[s].state.snapshot)
    /\ SetLock(s, IF Restorable(prov[s].state) THEN "restoring" ELSE "failing")
    /\ UNCHANGED <<box, prov, lifecycle>>

(* hydrate_workspace on an archive: its metadata have to be those of the   *)
(* state, if the state has any.  Only a replacement brings its context.    *)
Context(s) ==
    IF prov[s].replacement THEN [cwd |-> prov[s].state.cwd, env |-> prov[s].state.env]
    ELSE [cwd |-> box[prov[s].box].cwd, env |-> box[prov[s].box].env]

Hydratable(s, archive) ==
    LET metadata == prov[s].state.metadata
    IN  /\ Available(s)
        /\ metadata # None => metadata = [tree |-> archive.tree, rev |-> archive.rev]
        /\ ArchiveBytes(archive.tree) <= MaxStreamBytes
        /\ Fits(archive.tree)
        /\ IsDir(archive.tree, Context(s).cwd)

Hydrated(s, archive, work) ==
    [box[prov[s].box] EXCEPT !.tree = archive.tree, !.rev = archive.rev, !.work = work,
                             !.cwd = Context(s).cwd, !.env = Context(s).env]

(* _restore_snapshot_into_workspace_on_resume: the snapshot is loaded      *)
(* again, and may have expired since it was found restorable.              *)
StartRestores(s) ==
    LET state == prov[s].state
        archive == snapshots[state.snapshot].draft
    IN  /\ Holds(s, "restoring")
        /\ Load(state.snapshot)
        /\ IF Restorable(state) /\ Hydratable(s, archive)
           THEN /\ SetLock(s, "ready")
                /\ box' = [box EXCEPT ![prov[s].box] = Hydrated(s, archive, state.moment.work)]
           ELSE SetLock(s, "failing") /\ UNCHANGED box
        /\ UNCHANGED <<prov, lifecycle>>

StartEnds(s) ==
    /\ Holds(s, "ready")
    /\ SetLock(s, "free")
    /\ prov' = [prov EXCEPT ![s] = [@ EXCEPT !.cleanup = FALSE, !.started = TRUE]]
    /\ UNCHANGED <<box, lifecycle, storeVars>>

(* The base class or an await fails, or the caller is cancelled.           *)
StartBreaks(s) ==
    /\ lock[s] \in {"starting", "restoring", "ready"}
    /\ SetLock(s, "failing")
    /\ UNCHANGED <<box, prov, lifecycle, storeVars>>

(* What this session allocated is deleted: _cleanup_handle_after_failure   *)
(* says whether the deletion has ended, or has taken too long; then the    *)
(* dependencies are closed, if they can be.                                *)
StartFails(s, done, closed) ==
    /\ Holds(s, "failing")
    /\ SetLock(s, "free")
    /\ IF prov[s].cleanup
       THEN /\ Doom(prov[s].box)
            /\ prov' = [prov EXCEPT ![s] = [@ EXCEPT !.deleted = done, !.closed = closed]]
       ELSE UNCHANGED <<box, prov>>
    /\ UNCHANGED <<lifecycle, storeVars>>

(* Faulty variant: an unstarted replacement is persisted.                  *)
StopsAlways(s) == Available(s)

(* stop does nothing for a session that is closed or closing, nor before   *)
(* a replacement has been given its workspace.                             *)
Stops(s) == Available(s) /\ (prov[s].replacement => prov[s].started)

(* _persist_snapshot, up to the export; cwd and environment are read in    *)
(* the same step as the export returns, and the metadata are compared: the *)
(* snapshot of an unchanged workspace may do, if it can still be loaded.   *)
StopBegins(s) ==
    LET m == Moment(prov[s].box)
    IN  /\ Holds(s, "free") /\ Stops(s)
        /\ ArchiveBytes(m.tree) <= MaxStreamBytes
        /\ SetLock(s, IF prov[s].state.metadata = [tree |-> m.tree, rev |-> m.rev]
                      THEN "checking" ELSE "saving")
        /\ captured' = [captured EXCEPT ![s] = m]
        /\ UNCHANGED <<box, call, prov, applying, saved, lastId, storeVars>>

StopEnds(s) ==
    /\ SetLock(s, "free")
    /\ captured' = [captured EXCEPT ![s] = None]

Stopping(s) == lock[s] \in {"checking", "saving"}

(* The host may serialize the state of a session it has stopped.           *)
Publish(s, state, keep) ==
    /\ prov' = [prov EXCEPT ![s].state = state]
    /\ saved' = IF keep THEN state ELSE saved

(* The snapshot of before is as good; only the context may be new.         *)
PersistContext(s, keep) ==
    LET m == captured[s]
    IN  /\ Holds(s, "checking") /\ Restorable(prov[s].state)
        /\ Publish(s, [prov[s].state EXCEPT !.cwd = m.cwd, !.env = m.env, !.moment = m], keep)
        /\ StopEnds(s)
        /\ UNCHANGED <<box, call, applying, lastId, storeVars>>

(* restorable finds that snapshot expired or deleted: it is saved again,   *)
(* and other users of the store may come between the two.                  *)
SnapshotLost(s) ==
    /\ Holds(s, "checking") /\ ~Loads(prov[s].state.snapshot)
    /\ Load(prov[s].state.snapshot)
    /\ SetLock(s, "saving")
    /\ UNCHANGED <<box, prov, lifecycle>>

(* A new identifier; the state follows only when the store has accepted.   *)
PersistSnapshot(s, keep) ==
    LET m == captured[s]
        id == lastId + 1
    IN  /\ Holds(s, "saving")
        /\ id <= MaxSaves
        /\ lastId' = id
        /\ Save(id, Draft(m))
        /\ IF Accepts(id, Draft(m))
           THEN Publish(s, [prov[s].state EXCEPT
                              !.snapshot = id, !.metadata = [tree |-> m.tree, rev |-> m.rev],
                              !.cwd = m.cwd, !.env = m.env, !.moment = m], keep)
           ELSE UNCHANGED <<prov, saved>>
        /\ StopEnds(s)
        /\ UNCHANGED <<box, call, applying>>

(* The store may have kept the snapshot when it fails: nobody knows it.    *)
PersistUncertain(s) ==
    /\ Holds(s, "saving")
    /\ lastId < MaxSaves
    /\ lastId' = lastId + 1
    /\ Save(lastId + 1, Draft(captured[s]))
    /\ StopEnds(s)
    /\ UNCHANGED <<box, call, prov, applying, saved>>

PersistFails(s) ==
    /\ Stopping(s)
    /\ StopEnds(s)
    /\ UNCHANGED <<box, call, prov, applying, saved, lastId, storeVars>>

(* shutdown; closed stands for _sdk_closing_or_closed and for              *)
(* _dependencies_closed, which every method tests together.                *)
Shutdown(s) ==
    /\ Provided(s) /\ ~prov[s].closed /\ Holds(s, "free")
    /\ prov' = [prov EXCEPT ![s] = [@ EXCEPT !.closed = TRUE]]
    /\ UNCHANGED <<box, lock, lifecycle, storeVars>>

(* delete_backend.  Of a sandbox that is gone it finds nothing, and only   *)
(* marks a session that is unavailable anyway.                             *)
DeleteBegins(s) ==
    /\ Provided(s) /\ Holds(s, "free") /\ Lives(prov[s].box)
    /\ Doom(prov[s].box)
    /\ SetLock(s, "deleting")
    /\ UNCHANGED <<prov, lifecycle, storeVars>>

DeleteEnds(s) ==
    /\ Holds(s, "deleting")
    /\ SetLock(s, "free")
    /\ prov' = [prov EXCEPT ![s] = [@ EXCEPT !.deleted = TRUE]]
    /\ UNCHANGED <<box, lifecycle, storeVars>>

(* The deletion raises, or its caller is cancelled: delete may be called   *)
(* again.                                                                  *)
DeleteFails(s) ==
    /\ Holds(s, "deleting")
    /\ SetLock(s, "free")
    /\ UNCHANGED <<box, prov, lifecycle, storeVars>>

(* The host drops a session that is of no use.                             *)
Forget(s) ==
    /\ Provided(s) /\ ~Lives(prov[s].box) /\ Holds(s, "free")
    /\ \A t \in Tasks : applying[s][t] = NoApplication
    /\ prov' = [prov EXCEPT ![s] = NoProvider]
    /\ UNCHANGED <<box, lock, lifecycle, storeVars>>

-----------------------------------------------------------------------------
(* InMemorySandboxSession: operations on the workspace.                    *)
Work(s, content) ==
    /\ box' = [box EXCEPT ![prov[s].box] = [content EXCEPT !.work = @ + 1]]
    /\ UNCHANGED <<prov, lock, lifecycle, storeVars>>

WorkOn(s, v) ==
    LET b == box[prov[s].box]
    IN  v.ok /\ v.tree # b.tree /\ Work(s, [b EXCEPT !.tree = v.tree, !.rev = v.rev])

Current(s) == Version(box[prov[s].box].tree, box[prov[s].box].rev)

(* write: the stream is read up to its limit before the session is asked.  *)
Write(s, p, content) ==
    /\ Available(s)
    /\ Resolves(p)
    /\ Len(content) <= MaxStreamBytes
    /\ WorkOn(s, Written(Current(s), Normalized(p), content))

(* mkdir: `parents` creates them and tolerates a directory.                *)
Mkdir(s, p, parents) ==
    /\ Available(s)
    /\ Resolves(p)
    /\ parents \/ HasParent(Current(s).tree, Normalized(p), FALSE)
    /\ WorkOn(s, MadeDirectory(Current(s), Normalized(p)))

(* rm: also of the working directory, which then names nothing.            *)
Rm(s, p, recursive) ==
    LET v == Current(s)
        q == Normalized(p)
    IN  /\ Available(s)
        /\ Resolves(p)
        /\ q # Root /\ q \in DOMAIN v.tree
        /\ recursive \/ Subtree(v.tree, q) = {q}
        /\ WorkOn(s, Committed(v, TRUE, Prune(v.tree, q)))

(* exec: a command that changes directory and environment (the commands    *)
(* are module CommandExecutor's).                                          *)
Exec(s, p, env) ==
    LET b == box[prov[s].box]
    IN  /\ Available(s)
        /\ IsDir(b.tree, p)
        /\ <<p, env>> # <<b.cwd, b.env>>
        /\ Work(s, [b EXCEPT !.cwd = p, !.env = env])

(* hydrate_workspace, called by the host with a stream that                *)
(* persist_workspace returned, of this session or of another, or with its  *)
(* bare bytes: they do not tell their revision, and are taken for what the *)
(* state describes.                                                        *)
Claimed(s, archive, raw) ==
    IF raw THEN [tree |-> archive.tree, rev |-> prov[s].state.metadata.rev] ELSE archive

HydrateWorkspace(s, archive, raw) ==
    LET claimed == Claimed(s, archive, raw)
    IN  /\ Provided(s)
        /\ raw => prov[s].state.metadata # None
        /\ Hydratable(s, claimed)
        /\ Work(s, Hydrated(s, claimed, box[prov[s].box].work))

-----------------------------------------------------------------------------
(* _apply_manifest and _apply_entry_batch: _apply_plan_atomically builds   *)
(* the new workspace in a staging sandbox and publishes it in one step.    *)
(* Nothing keeps two tasks of the host from applying to one session.       *)
Applying(s, t, stage) == applying[s][t].stage = stage
SetApplying(s, t, a) == applying' = [applying EXCEPT ![s][t] = a]
aside == <<call, prov, lock, captured, saved, lastId, storeVars>>

ApplyBegins(s, t, plan) ==
    /\ applying[s][t] = NoApplication
    /\ plan.ok /\ (plan.files # <<>> \/ plan.directories # <<>>)
    /\ SetApplying(s, t, [stage |-> "create", base |-> Current(s), plan |-> plan,
                          box |-> None, result |-> None])
    /\ UNCHANGED <<box, aside>>

ApplyManifest(s, t) == Available(s) /\ ApplyBegins(s, t, ManifestPlans[prov[s].state.manifest])
ApplyEntryBatch(s, t, batch) == Available(s) /\ ApplyBegins(s, t, BatchPlans[batch])

ApplyStages(s, t, b) ==
    /\ Applying(s, t, "create")
    /\ NewBox(b, Pristine)
    /\ SetApplying(s, t, [applying[s][t] EXCEPT !.stage = "build", !.box = b])
    /\ UNCHANGED aside

ApplyRefused(s, t) ==
    /\ Applying(s, t, "create")
    /\ SetApplying(s, t, NoApplication)
    /\ UNCHANGED <<box, aside>>

(* Nobody else knows the staging sandbox, so what is done to it is one     *)
(* step, up to the export and the deletion.  The plan may not fit.         *)
ApplyBuilds(s, t) ==
    LET v == Materialized(applying[s][t].base, applying[s][t].plan)
    IN  /\ Applying(s, t, "build")
        /\ Lives(applying[s][t].box)
        /\ SetApplying(s, t, IF v.ok
                             THEN [applying[s][t] EXCEPT !.stage = "publish", !.result = v]
                             ELSE NoApplication)
        /\ Doom(applying[s][t].box)
        /\ UNCHANGED aside

(* An await fails or the caller is cancelled: the finally clause.          *)
ApplyBreaks(s, t) ==
    /\ Applying(s, t, "build")
    /\ SetApplying(s, t, NoApplication)
    /\ Doom(applying[s][t].box)
    /\ UNCHANGED aside

(* The deletion or the publication raises or is cancelled.                 *)
ApplyRaises(s, t) ==
    /\ Applying(s, t, "publish")
    /\ SetApplying(s, t, NoApplication)
    /\ UNCHANGED <<box, aside>>

(* Faulty variant: what is there is not compared with what was exported.   *)
PublishableAnyway(s, t) == IsDir(applying[s][t].result.tree, box[prov[s].box].cwd)

(* restore_portable_archive with the expected revision and root hash.      *)
Publishable(s, t) ==
    /\ Current(s) = applying[s][t].base
    /\ IsDir(applying[s][t].result.tree, box[prov[s].box].cwd)

ApplyPublishes(s, t) ==
    LET b == prov[s].box
        v == applying[s][t].result
    IN  /\ Applying(s, t, "publish")
        /\ box' = IF Lives(b) /\ Publishable(s, t)
                  THEN [box EXCEPT ![b] = [@ EXCEPT !.tree = v.tree, !.rev = v.rev]]
                  ELSE box
        /\ SetApplying(s, t, NoApplication)
        /\ UNCHANGED aside

-----------------------------------------------------------------------------
(* What the host calls, and how the calls go on.  The SDK starts a session *)
(* by itself when the host enters it.                                      *)
HostCalls(s) ==
    \/ \E m \in DOMAIN Manifests, id \in {0} \cup DOMAIN snapshots : Create(s, m, id)
    \/ \E state \in States, at \in {b \in Boxes : box[b] # NoBox} : Resume(s, state, at)
    \/ StopBegins(s) \/ Shutdown(s) \/ DeleteBegins(s)
    \/ \E p \in Targets, content \in Contents : Write(s, p, content)
    \/ \E p \in Targets, flag \in BOOLEAN : Mkdir(s, p, flag) \/ Rm(s, p, flag)
    \/ \E p \in Targets \cup {Root}, env \in Environments : Exec(s, p, env)
    \/ \E archive \in Archives, raw \in BOOLEAN : HydrateWorkspace(s, archive, raw)
    \/ \E t \in Tasks : ApplyManifest(s, t)
    \/ \E t \in Tasks, batch \in DOMAIN Batches : ApplyEntryBatch(s, t, batch)

(* What happens to a call whose sandbox was taken away.                    *)
Deserted(s) ==
    \/ Calling(s, "materialize") /\ Gone(call[s].box) /\ HandOutFails(s)
    \/ \E t \in Tasks :
           Applying(s, t, "build") /\ Gone(applying[s][t].box) /\ ApplyBreaks(s, t)

Continues(s) ==
    \/ \E b \in Draw : Allocate(s, b) \/ \E t \in Tasks : ApplyStages(s, t, b)
    \/ HandOut(s)
    \/ StartBegins(s) \/ StartPreserved(s) \/ StartChecks(s) \/ StartRestores(s) \/ StartEnds(s)
    \/ \E done, closed \in BOOLEAN : StartFails(s, done, closed)
    \/ \E keep \in BOOLEAN : PersistContext(s, keep) \/ PersistSnapshot(s, keep)
    \/ SnapshotLost(s)
    \/ DeleteEnds(s)
    \/ \E t \in Tasks : ApplyBuilds(s, t) \/ ApplyPublishes(s, t)
    \/ Deserted(s) \/ Forget(s)

Fails(s) ==
    \/ AllocateFails(s) \/ HandOutFails(s) \/ StartBreaks(s)
    \/ PersistUncertain(s) \/ PersistFails(s) \/ DeleteFails(s)
    \/ \E t \in Tasks : ApplyRefused(s, t) \/ ApplyBreaks(s, t) \/ ApplyRaises(s, t)

Others ==
    \/ \E b \in Boxes : Evict(b)
    \/ SaveForeign
    \/ (Tick \/ PurgeExpired \/ \E id \in DOMAIN snapshots : DeleteSnapshot(id))
       /\ UNCHANGED <<box, sdk>>

Next ==
    \/ /\ calls < MaxCalls /\ calls' = calls + 1 /\ UNCHANGED mishaps
       /\ \E s \in Sessions : HostCalls(s)
    \/ /\ mishaps < MaxMishaps /\ mishaps' = mishaps + 1 /\ UNCHANGED calls
       /\ (\E s \in Sessions : Fails(s)) \/ Others
    \/ \E s \in Sessions : Continues(s) /\ UNCHANGED <<calls, mishaps>>

Spec == Init /\ [][Next]_vars

-----------------------------------------------------------------------------
(* A task that applies a manifest to the session builds it there.          *)
Staging(s, b) == \E t \in Tasks : Applying(s, t, "build") /\ applying[s][t].box = b

(* No sandbox is left running that nobody can delete any more: it belongs  *)
(* to a call that will hand it out or clean it up, to a provider session   *)
(* that does not take it for deleted, or to the application of a manifest; *)
(* whatever fails, or is cancelled, between the allocation and the return. *)
NoOrphanSandbox ==
    \A b \in Boxes : Lives(b) => \E s \in Sessions :
        \/ Calling(s, "materialize") /\ call[s].box = b
        \/ Provided(s) /\ prov[s].box = b /\ ~prov[s].deleted
        \/ Staging(s, b)

(* A resumed replacement is given the workspace, the revision, the working *)
(* directory and the environment of one and the same stop, although stops  *)
(* that found the workspace unchanged, failed saves, refusals of a full    *)
(* store and expiries came between; and a provider session that allocated  *)
(* its sandbox never replaces its durable state by one with less work in   *)
(* it, such as the bare manifest of a replacement that was not started.    *)
DurableState ==
    [][\A s \in Sessions : Provided(s) /\ Provided(s)' =>
          /\ Holds(s, "restoring") /\ lock'[s] = "ready" =>
                 Moment(prov[s].box)' = prov[s].state.moment
          /\ ~prov[s].live /\ prov[s].state.moment # None =>
                 prov'[s].state.moment.work >= prov[s].state.moment.work]_vars

(* A manifest is applied to the workspace as it is when the result is      *)
(* published, all of it or none, and the staging sandbox is gone by then:  *)
(* neither a write nor the result of another task that came between the    *)
(* export and the publication is undone.                                   *)
ApplyAtomic ==
    [][\A s \in Sessions, t \in Tasks :
          Applying(s, t, "publish") /\ applying'[s][t] = NoApplication /\ box' # box =>
              LET v == Materialized(Current(s), applying[s][t].plan)
              IN  /\ v.ok /\ Current(s)' = Version(v.tree, v.rev)
                  /\ Gone(applying[s][t].box)]_vars

(* A session that was resumed and started works on a workspace that has    *)
(* all the work of its durable state (OPENAI_SANDBOX_AGENT_ADAPTER.md:     *)
(* "resume never silently substitutes an empty manifest-based workspace"). *)
ResumedHasItsWork ==
    \A s \in Sessions :
        Provided(s) /\ prov[s].started /\ prov[s].state.moment # None /\ Lives(prov[s].box) =>
            box[prov[s].box].work >= prov[s].state.moment.work
=============================================================================
