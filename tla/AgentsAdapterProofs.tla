------------------------- MODULE AgentsAdapterProofs -------------------------
(***************************************************************************)
(* Proofs about AgentsAdapter, for any number of sessions, sandboxes and   *)
(* snapshots and any manifests, archives, failures and acts of others: no  *)
(* sandbox is orphaned, durable state is restored whole and never loses    *)
(* work, and a manifest is applied atomically.  And the snapshot store     *)
(* keeps its account in the hands of any client.                           *)
(*                                                                         *)
(* AInv says of every session what its client call, its provider session,  *)
(* the work it has made durable and its manifest applications come to;     *)
(* a sandbox that a session allocated is its own (Distinct).               *)
(***************************************************************************)
EXTENDS AgentsAdapter, FiniteSetTheorems, WellFoundedInduction, TLAPS

-----------------------------------------------------------------------------
(* The invariant.                                                          *)

BoxFields == {"life", "tree", "rev", "cwd", "env", "work"}
CallFields == {"stage", "resumes", "state", "box"}
ProviderFields == {"box", "state", "live", "replacement", "cleanup", "started", "deleted",
"closed"}
StateFields == {"handle", "session", "manifest", "snapshot", "metadata", "cwd", "env", "moment"}
ApplicationFields == {"stage", "base", "plan", "box", "result"}

IsBox(r) == DOMAIN r = BoxFields /\ r.life \in {"live", "gone"} /\ r.work \in Nat
BoxInv == DOMAIN box = Boxes /\ \A b \in Boxes : box[b] = NoBox \/ IsBox(box[b])

(* A sandbox number that was drawn.                                        *)
Drawn(b) == b \in Boxes /\ box[b] # NoBox

(* A provider state names tree, revision, directory, environment and work  *)
(* of one and the same moment.                                             *)
StateOK(st) ==
    /\ DOMAIN st = StateFields
    /\ st.moment # None => st.moment.work \in Nat
    /\ st.metadata # None =>
          /\ st.moment.work \in Nat
          /\ st.moment = [tree |-> st.metadata.tree, rev |-> st.metadata.rev, cwd |-> st.cwd,
                          env |-> st.env, work |-> st.moment.work]

CallOK(s) ==
    call[s] # NoCall =>
        /\ DOMAIN call[s] = CallFields /\ call[s].stage \in {"allocate", "materialize"}
        /\ ~Provided(s) /\ StateOK(call[s].state) /\ call[s].resumes \in BOOLEAN
        /\ IF call[s].resumes THEN call[s].state.metadata # None ELSE call[s].state.moment = None
        /\ call[s].stage = "materialize" => Drawn(call[s].box)

Starting == {"starting", "restoring", "ready"}

ProviderOK(s) ==
    /\ lock[s] \in Starting \cup {"free", "failing", "checking", "saving", "deleting"}
    /\ ~Provided(s) => lock[s] = "free"
    /\ Provided(s) =>
          /\ DOMAIN prov[s] = ProviderFields /\ Drawn(prov[s].box) /\ StateOK(prov[s].state)
          /\ prov[s].live \in BOOLEAN /\ prov[s].replacement \in BOOLEAN
          /\ prov[s].replacement => ~prov[s].live
          /\ prov[s].replacement /\ ~prov[s].started => prov[s].state.metadata # None
          /\ lock[s] \in Starting => ~prov[s].started
          /\ lock[s] = "restoring" => prov[s].replacement
          /\ lock[s] = "deleting" => ~Lives(prov[s].box)

(* What a stop has exported.                                               *)
IsMoment(m) ==
    /\ m = [tree |-> m.tree, rev |-> m.rev, cwd |-> m.cwd, env |-> m.env, work |-> m.work]
    /\ m.work \in Nat

(* The workspace of a session that allocated it has all the work of its    *)
(* durable state, once it was restored; and so has what it is exporting.   *)
WorkOK(s) ==
    /\ Stopping(s) => IsMoment(captured[s])
    /\ lock[s] = "checking" =>
          prov[s].state.metadata = [tree |-> captured[s].tree, rev |-> captured[s].rev]
    /\ Provided(s) /\ ~prov[s].live =>
          LET made == prov[s].state.moment
              there == box[prov[s].box]
          IN  /\ made # None /\ Lives(prov[s].box)
                   /\ (~prov[s].replacement \/ prov[s].started \/ lock[s] = "ready") =>
                     there.work >= made.work
              /\ Stopping(s) =>
                   /\ made # None => captured[s].work >= made.work
                   /\ Lives(prov[s].box) => there.work >= captured[s].work
                   /\ ~prov[s].replacement \/ prov[s].started

ApplicationOK(s, a) ==
    a # NoApplication =>
        /\ Provided(s) /\ DOMAIN a = ApplicationFields
        /\ a.stage \in {"create", "build", "publish"}
        /\ a.stage \in {"build", "publish"} => Drawn(a.box)
        /\ a.stage = "publish" =>
              a.result = Materialized(a.base, a.plan) /\ a.result.ok /\ Gone(a.box)

ApplyOK(s) == DOMAIN applying[s] = Tasks /\ \A j \in Tasks : ApplicationOK(s, applying[s][j])

SessionOK(s) == CallOK(s) /\ ProviderOK(s) /\ WorkOK(s) /\ ApplyOK(s)

(* The sandboxes a session allocated for itself.                           *)
Owns(s, b) ==
    \/ Calling(s, "materialize") /\ call[s].box = b
    \/ Provided(s) /\ ~prov[s].live /\ prov[s].box = b
Distinct == \A s, t \in Sessions, b \in Boxes : Owns(s, b) /\ Owns(t, b) => s = t

Domains ==
    /\ DOMAIN call = Sessions /\ DOMAIN prov = Sessions /\ DOMAIN lock = Sessions
    /\ DOMAIN captured = Sessions /\ DOMAIN applying = Sessions

AInv ==
    /\ BoxInv /\ Domains /\ (saved # None => StateOK(saved))
    /\ \A s \in Sessions : SessionOK(s)
    /\ Distinct /\ NoOrphanSandbox

-----------------------------------------------------------------------------
(* Frames.                                                                 *)

(* Sandboxes go on: none appears, none comes back, and none loses work,    *)
(* the one at x excepted.                                                  *)
GoOn(x) ==
    /\ DOMAIN box' = Boxes
    /\ \A b \in Boxes :
          \/ box'[b] = box[b]
          \/ /\ box[b] # NoBox /\ box'[b] # NoBox /\ IsBox(box'[b])
             /\ box'[b].life = "live" => box[b].life = "live"
             /\ box[b].life = "gone" => box'[b].life = "gone"
             /\ box'[b].life = "live" /\ b # x => box'[b].work >= box[b].work

(* One more sandbox is drawn.                                              *)
DrawsOne(b) ==
    /\ b \in Boxes /\ box[b] = NoBox /\ IsBox(box'[b]) /\ box'[b] # NoBox
    /\ DOMAIN box' = Boxes
    /\ \A c \in Boxes \ {b} : box'[c] = box[c]

(* A session that nothing happens to, but for the application of its       *)
(* manifest; and one that nothing happens to at all.                       *)
Keeps(s) ==
    /\ call'[s] = call[s] /\ prov'[s] = prov[s] /\ lock'[s] = lock[s]
    /\ captured'[s] = captured[s]
Rests(s) == Keeps(s) /\ applying'[s] = applying[s]

(* A sandbox that was made is there.                                       *)
LEMMA BoxRecords ==
    ASSUME NEW r, IsBox(r)
    PROVE  r # NoBox
    BY DEF IsBox, NoBox

(* Sandboxes that go on stay drawn,                                        *)
LEMMA GoOnBoxes ==
    ASSUME BoxInv, NEW x, GoOn(x)
    PROVE  BoxInv' /\ \A b : Drawn(b) => Drawn(b)'
    BY DEF BoxInv, GoOn, Drawn

(* and so they do when one more is drawn.                                  *)
LEMMA DrawsBoxes ==
    ASSUME BoxInv, NEW b, DrawsOne(b)
    PROVE  BoxInv' /\ \A c : Drawn(c) => Drawn(c)'
    BY DEF BoxInv, DrawsOne, Drawn

(* A session at rest stays in order while sandboxes go on, as long as its  *)
(* own sandbox is not the one that is replaced.                            *)
LEMMA KeepsGoOn ==
    ASSUME AInv, NEW s \in Sessions, SessionOK(s), Keeps(s), NEW x, GoOn(x), ~Owns(s, x)
    PROVE  CallOK(s)' /\ ProviderOK(s)' /\ WorkOK(s)'
    <1>1. \A b : Drawn(b) => Drawn(b)'
        BY GoOnBoxes DEF AInv
    <1>2. Provided(s)' = Provided(s) /\ (\A b : Owns(s, b)' = Owns(s, b))
        BY DEF Keeps, Provided, Owns, Calling
    <1>3. CallOK(s)'
        BY <1>1, <1>2 DEF SessionOK, CallOK, Keeps, StateOK
    <1>4. ProviderOK(s)'
        <2>1. ASSUME Provided(s), ~Lives(prov[s].box) PROVE ~Lives(prov[s].box)'
            BY <2>1 DEF SessionOK, ProviderOK, Drawn, GoOn, Lives, Keeps
        <2> QED
            BY <1>1, <1>2, <2>1 DEF SessionOK, ProviderOK, Keeps, StateOK
    <1>5. WorkOK(s)'
        <2>1. ASSUME Provided(s), ~prov[s].live
              PROVE  /\ prov[s].box \in Boxes /\ prov[s].box # x
                     /\ Lives(prov[s].box)' => /\ Lives(prov[s].box)
                                               /\ box'[prov[s].box].work \in Nat
                                               /\ box[prov[s].box].work \in Nat
                                               /\ box'[prov[s].box].work >= box[prov[s].box].work
            <3>1. prov[s].box \in Boxes /\ prov[s].box # x
                BY <2>1 DEF SessionOK, ProviderOK, Drawn, Owns
            <3>2. IsBox(box[prov[s].box]) \/ box[prov[s].box] = NoBox
                BY <3>1 DEF AInv, BoxInv
            <3> QED
                BY <2>1, <3>1, <3>2 DEF GoOn, Lives, Keeps, IsBox, NoBox
        <2>2. ASSUME Provided(s), ~prov[s].live, Stopping(s)
              PROVE  captured[s].work \in Nat
            BY <2>2 DEF SessionOK, WorkOK, IsMoment
        <2>3. ASSUME Provided(s), prov[s].state.moment # None
              PROVE  prov[s].state.moment.work \in Nat
            BY <2>3 DEF SessionOK, ProviderOK, StateOK
        <2> QED
            BY <1>2, <2>1, <2>2, <2>3 DEF SessionOK, WorkOK, Keeps, IsMoment, Stopping
    <1> QED
        BY <1>3, <1>4, <1>5

(* The same for all of a session, its application included.                *)
LEMMA RestsGoOn ==
    ASSUME AInv, NEW s \in Sessions, SessionOK(s), Rests(s), NEW x, GoOn(x), ~Owns(s, x)
    PROVE  SessionOK(s)'
    <1>1. \A b : Drawn(b) => Drawn(b)'
        BY GoOnBoxes DEF AInv
    <1>2. CallOK(s)' /\ ProviderOK(s)' /\ WorkOK(s)'
        BY KeepsGoOn DEF Rests
    <1>3. ApplyOK(s)'
        BY <1>1 DEF SessionOK, ApplyOK, ApplicationOK, Rests, Keeps, Provided, GoOn, Gone, Drawn
    <1> QED
        BY <1>2, <1>3 DEF SessionOK

(* The same while a new sandbox is drawn.                                  *)
LEMMA RestsDraws ==
    ASSUME AInv, NEW s \in Sessions, SessionOK(s), Rests(s), NEW b, DrawsOne(b)
    PROVE  SessionOK(s)'
    <1>1. \A c : Drawn(c) => Drawn(c)' /\ box'[c] = box[c]
        BY DrawsBoxes DEF AInv, Drawn, DrawsOne
    <1>2. Provided(s)' = Provided(s)
        BY DEF Rests, Keeps, Provided
    <1>3. CallOK(s)'
        BY <1>1, <1>2 DEF SessionOK, CallOK, Rests, Keeps, StateOK
    <1>4. ProviderOK(s)' /\ WorkOK(s)'
        BY <1>1, <1>2
           DEF SessionOK, ProviderOK, WorkOK, Rests, Keeps, StateOK, Lives, IsMoment, Stopping
    <1>5. ApplyOK(s)'
        BY <1>1 DEF SessionOK, ApplyOK, ApplicationOK, Rests, Keeps, Gone, Provided
    <1> QED
        BY <1>3, <1>4, <1>5 DEF SessionOK

(* What a step of one session has to show: the others are at rest.         *)
LEMMA OneGoesOn ==
    ASSUME AInv, NEW s \in Sessions, NEW x, GoOn(x), x = 0 \/ Owns(s, x), Domains',
           \A t \in Sessions \ {s} : Rests(t),
           SessionOK(s)', \A b \in Boxes : Owns(s, b)' => Owns(s, b),
           saved' # None => StateOK(saved)', NoOrphanSandbox'
    PROVE  AInv'
    <1>1. \A t \in Sessions \ {s} : ~Owns(t, x)
        <2>1. CASE x = 0
            BY <2>1 DEF AInv, SessionOK, CallOK, ProviderOK, Owns, Drawn, Boxes, Calling, NoCall
        <2>2. CASE Owns(s, x)
            <3>1. x \in Boxes
                BY <2>2 DEF AInv, SessionOK, CallOK, ProviderOK, Owns, Drawn, Calling, NoCall
            <3> QED
                BY <2>2, <3>1 DEF AInv, Distinct
        <2> QED
            BY <2>1, <2>2
    <1>2. \A t \in Sessions : SessionOK(t)'
        BY <1>1, RestsGoOn DEF AInv
    <1>3. BoxInv'
        BY GoOnBoxes DEF AInv
    <1>4. \A t \in Sessions, b \in Boxes : Owns(t, b)' => Owns(t, b)
        BY DEF Owns, Rests, Keeps, Calling, Provided
    <1>5. Distinct'
        BY <1>4 DEF AInv, Distinct
    <1> QED
        BY <1>2, <1>3, <1>5 DEF AInv

(* Nothing happens to any session.                                         *)
LEMMA NoneGoesOn ==
    ASSUME AInv, GoOn(0), UNCHANGED <<call, prov, lock, captured, applying, saved>>
    PROVE  AInv'
    <1>1. \A t \in Sessions : Rests(t) /\ ~Owns(t, 0)
        BY DEF Rests, Keeps, AInv, SessionOK, CallOK, ProviderOK, Owns, Drawn, Boxes, Calling,
               NoCall
    <1>2. \A t \in Sessions : SessionOK(t)'
        BY <1>1, RestsGoOn DEF AInv
    <1>3. BoxInv' /\ Domains' /\ (saved' # None => StateOK(saved)')
        BY GoOnBoxes DEF AInv, Domains, StateOK
    <1>4. Distinct'
        BY DEF AInv, Distinct, Owns, Calling, Provided
    <1>5. NoOrphanSandbox'
        <2>1. \A b \in Boxes : Lives(b)' => Lives(b)
            BY DEF GoOn, Lives
        <2> QED
            BY <2>1 DEF AInv, NoOrphanSandbox, Calling, Provided, Staging, Applying
    <1> QED
        BY <1>2, <1>3, <1>4, <1>5 DEF AInv

(* Deleting a sandbox.                                                     *)
LEMMA Dooms ==
    ASSUME AInv, NEW b, Drawn(b), Doom(b)
    PROVE  /\ GoOn(0) /\ box'[b].life = "gone"
           /\ \A c \in Boxes : Lives(c)' => Lives(c) /\ c # b
    <1>1. box' = [box EXCEPT ![b] = Box("gone", Pristine)] /\ b \in Boxes /\ DOMAIN box = Boxes
        BY DEF Doom, Drawn, AInv, BoxInv
    <1>2. IsBox(Box("gone", Pristine)) /\ Box("gone", Pristine).life = "gone"
        BY DEF Box, IsBox, BoxFields
    <1> DEFINE r == Box("gone", Pristine)
    <1> HIDE DEF r
    <1>3. r # NoBox /\ r.life = "gone" /\ IsBox(r)
        BY <1>2, BoxRecords DEF r
    <1>4. box' = [box EXCEPT ![b] = r]
        BY <1>1 DEF r
    <1> QED
        BY <1>1, <1>3, <1>4 DEF GoOn, Drawn, Lives

(* No sandbox is touched.                                                  *)
LEMMA Untouched ==
    ASSUME AInv, UNCHANGED box
    PROVE  GoOn(0) /\ \A c \in Boxes : Lives(c)' = Lives(c)
    BY DEF AInv, BoxInv, GoOn, Lives

(* What a step that draws a sandbox has to show.                           *)
LEMMA OneDraws ==
    ASSUME AInv, NEW s \in Sessions, NEW b, DrawsOne(b), Domains',
           \A t \in Sessions \ {s} : Rests(t),
           SessionOK(s)', \A c \in Boxes : Owns(s, c)' => Owns(s, c) \/ c = b,
           UNCHANGED saved, NoOrphanSandbox'
    PROVE  AInv'
    <1>1. \A t \in Sessions : SessionOK(t)'
        BY RestsDraws DEF AInv
    <1>2. BoxInv' /\ (saved' # None => StateOK(saved)')
        BY DrawsBoxes DEF AInv, StateOK
    <1>3. \A t \in Sessions : ~Owns(t, b)
        BY DEF AInv, SessionOK, CallOK, ProviderOK, Owns, Drawn, DrawsOne, Calling, NoCall
    <1>4. \A t \in Sessions \ {s}, c \in Boxes : Owns(t, c)' => Owns(t, c)
        BY DEF Owns, Rests, Keeps, Calling, Provided
    <1>5. Distinct'
        BY <1>3, <1>4 DEF AInv, Distinct
    <1> QED
        BY <1>1, <1>2, <1>5 DEF AInv

(* A step that only concerns the client call of a session, before or after *)
(* it has a sandbox.                                                       *)
LEMMA CallStep ==
    ASSUME AInv, NEW s \in Sessions, NEW r, call' = [call EXCEPT ![s] = r],
           r.stage # "materialize", ~Calling(s, "materialize"), CallOK(s)',
           UNCHANGED <<box, prov, lock, captured, applying, saved>>
    PROVE  AInv'
    <1>1. GoOn(0) /\ \A c \in Boxes : Lives(c)' = Lives(c)
        BY Untouched
    <1>2. Domains' /\ \A t \in Sessions \ {s} : Rests(t)
        BY DEF AInv, Domains, Rests, Keeps
    <1>3. call'[s] = r
        BY DEF AInv, Domains
    <1>4. SessionOK(s)'
        <2>1. SessionOK(s)
            BY DEF AInv
        <2>2. ProviderOK(s)' /\ WorkOK(s)'
            BY <2>1
               DEF SessionOK, ProviderOK, WorkOK, StateOK, Provided, Lives, Drawn, IsMoment, Stopping
        <2>3. ApplyOK(s)'
            BY <2>1 DEF SessionOK, ApplyOK, ApplicationOK, Provided, Drawn, Gone
        <2> QED
            BY <2>2, <2>3 DEF SessionOK
    <1>5. \A b \in Boxes : Owns(s, b)' => Owns(s, b)
        BY <1>3 DEF Owns, Calling, Provided
    <1>6. saved' # None => StateOK(saved)'
        BY DEF AInv, StateOK
    <1>7. NoOrphanSandbox'
        <2>1. \A t \in Sessions : Calling(t, "materialize") => call'[t] = call[t]
            BY DEF AInv, Domains
        <2> QED
            BY <1>1, <2>1 DEF AInv, NoOrphanSandbox, Calling, Provided, Staging, Applying
    <1> QED
        BY <1>1, <1>2, <1>4, <1>5, <1>6, <1>7, OneGoesOn

(* A step of the lifecycle of a provider session, which goes on with the   *)
(* same sandbox.                                                           *)
LEMMA LifecycleStep ==
    ASSUME AInv, NEW s \in Sessions, NEW x, GoOn(x), x = 0 \/ Owns(s, x),
           UNCHANGED <<call, applying>>, Domains',
           \A t \in Sessions \ {s} :
               prov'[t] = prov[t] /\ lock'[t] = lock[t] /\ captured'[t] = captured[t],
           Provided(s), Provided(s)', prov'[s].box = prov[s].box, prov'[s].live = prov[s].live,
           prov'[s].deleted => prov[s].deleted \/ ~Lives(prov[s].box)',
           ProviderOK(s)', WorkOK(s)', saved' # None => StateOK(saved)'
    PROVE  AInv'
    <1>1. \A c \in Boxes : Lives(c)' => Lives(c)
        BY DEF GoOn, Lives
    <1>2. \A t \in Sessions \ {s} : Rests(t)
        BY DEF Rests, Keeps
    <1>3. SessionOK(s)'
        <2>1. SessionOK(s) /\ \A b : Drawn(b) => Drawn(b)'
            BY GoOnBoxes DEF AInv
        <2>2. CallOK(s)'
            BY <2>1 DEF SessionOK, CallOK
        <2>3. ApplyOK(s)'
            BY <2>1 DEF SessionOK, ApplyOK, ApplicationOK, Drawn, Gone, GoOn
        <2> QED
            BY <2>2, <2>3 DEF SessionOK
    <1>4. \A b \in Boxes : Owns(s, b)' => Owns(s, b)
        BY DEF Owns, Calling
    <1>5. NoOrphanSandbox'
        <2> SUFFICES ASSUME NEW b \in Boxes, Lives(b)'
                     PROVE  \E t \in Sessions :
                                \/ Calling(t, "materialize")' /\ call'[t].box = b
                                \/ Provided(t)' /\ prov'[t].box = b /\ ~prov'[t].deleted
                                \/ Staging(t, b)'
            BY DEF NoOrphanSandbox
        <2>1. PICK t \in Sessions : \/ Calling(t, "materialize") /\ call[t].box = b
                                    \/ Provided(t) /\ prov[t].box = b /\ ~prov[t].deleted
                                    \/ Staging(t, b)
            BY <1>1 DEF AInv, NoOrphanSandbox
        <2>2. CASE t = s
            BY <2>1, <2>2 DEF Calling, Staging, Applying
        <2>3. CASE t # s
            BY <2>1, <2>3 DEF Calling, Staging, Applying, Provided
        <2> QED
            BY <2>2, <2>3
    <1> QED
        BY <1>2, <1>3, <1>4, <1>5, OneGoesOn

(* One task's application becomes a.                                       *)
LEMMA OneApplies ==
    ASSUME AInv, NEW s \in Sessions, NEW j \in Tasks, NEW a,
           applying' = [applying EXCEPT ![s][j] = a]
    PROVE  /\ DOMAIN applying' = Sessions /\ DOMAIN applying'[s] = Tasks
           /\ applying'[s][j] = a
           /\ \A i \in Tasks \ {j} : applying'[s][i] = applying[s][i]
           /\ \A t \in Sessions \ {s} : applying'[t] = applying[t]
    BY DEF AInv, Domains, SessionOK, ApplyOK

(* The applications of a session are in order when that one is.            *)
LEMMA OthersApply ==
    ASSUME AInv, NEW s \in Sessions, NEW j \in Tasks, NEW a,
           applying' = [applying EXCEPT ![s][j] = a], UNCHANGED prov,
           \A b : Drawn(b) => Drawn(b)' /\ (Gone(b) => Gone(b)'),
           ApplicationOK(s, a)'
    PROVE  ApplyOK(s)'
    <1>1. DOMAIN applying'[s] = Tasks /\ applying'[s][j] = a
        BY OneApplies
    <1>2. ASSUME NEW i \in Tasks \ {j} PROVE ApplicationOK(s, applying[s][i])'
        <2>1. applying'[s][i] = applying[s][i]
            BY OneApplies
        <2>2. ApplicationOK(s, applying[s][i])
            BY DEF AInv, SessionOK, ApplyOK
        <2> QED
            BY <2>1, <2>2 DEF ApplicationOK, Provided
    <1>3. ApplicationOK(s, applying[s][j])'
        BY <1>1
    <1> QED
        BY <1>1, <1>2, <1>3 DEF ApplyOK

(* A step of the application of a manifest, which deletes its staging      *)
(* sandbox when it leaves it.                                              *)
LEMMA ApplyStep ==
    ASSUME AInv, NEW s \in Sessions, NEW j \in Tasks, GoOn(0), NEW a,
           applying' = [applying EXCEPT ![s][j] = a],
           UNCHANGED <<call, prov, lock, captured, saved>>, ApplicationOK(s, a)',
           Applying(s, j, "build") => box'[applying[s][j].box].life = "gone"
    PROVE  AInv'
    <1>1. \A c \in Boxes : Lives(c)' => Lives(c)
        BY DEF GoOn, Lives
    <1>2. Domains' /\ Keeps(s) /\ \A t \in Sessions \ {s} : Rests(t)
        BY OneApplies DEF AInv, Domains, Rests, Keeps
    <1>3. SessionOK(s)'
        <2>1. ~Owns(s, 0)
            BY DEF AInv, SessionOK, CallOK, ProviderOK, Owns, Drawn, Boxes, Calling, NoCall
        <2>2. \A b : Drawn(b) => Drawn(b)' /\ (Gone(b) => Gone(b)')
            BY GoOnBoxes DEF AInv, GoOn, Drawn, Gone, Boxes, BoxInv
        <2>3. ApplyOK(s)'
            BY <2>2, OthersApply
        <2> QED
            BY <1>2, <2>1, <2>3, KeepsGoOn DEF AInv, SessionOK
    <1>4. \A b \in Boxes : Owns(s, b)' => Owns(s, b)
        BY DEF Owns, Calling, Provided
    <1>5. saved' # None => StateOK(saved)'
        BY DEF AInv, StateOK
    <1>6. NoOrphanSandbox'
        <2> SUFFICES ASSUME NEW b \in Boxes, Lives(b)'
                     PROVE  \E t \in Sessions :
                                \/ Calling(t, "materialize")' /\ call'[t].box = b
                                \/ Provided(t)' /\ prov'[t].box = b /\ ~prov'[t].deleted
                                \/ Staging(t, b)'
            BY DEF NoOrphanSandbox
        <2>1. PICK t \in Sessions : \/ Calling(t, "materialize") /\ call[t].box = b
                                    \/ Provided(t) /\ prov[t].box = b /\ ~prov[t].deleted
                                    \/ Staging(t, b)
            BY <1>1 DEF AInv, NoOrphanSandbox
        <2>2. CASE Staging(t, b)
            <3>1. PICK i \in Tasks : Applying(t, i, "build") /\ applying[t][i].box = b
                BY <2>2 DEF Staging
            <3>2. t # s \/ i # j
                BY <3>1 DEF Lives
            <3>3. applying'[t][i] = applying[t][i]
                BY <3>2, OneApplies
            <3> QED
                BY <3>1, <3>3 DEF Staging, Applying
        <2>3. CASE ~Staging(t, b)
            BY <2>1, <2>3 DEF Calling, Provided
        <2> QED
            BY <2>2, <2>3
    <1> QED
        BY <1>2, <1>3, <1>4, <1>5, <1>6, OneGoesOn

-----------------------------------------------------------------------------
(* The service, the store and the client calls.                            *)

(* A sandbox is taken away.                                                *)
LEMMA EvictInv ==
    ASSUME AInv, NEW b \in Boxes, Evict(b)
    PROVE  AInv'
    <1>1. Drawn(b) /\ Doom(b)
        BY DEF Evict, Lives, Drawn, NoBox
    <1> QED
        BY <1>1, Dooms, NoneGoesOn DEF Evict, sdk

(* What others do.                                                         *)
LEMMA OthersInv ==
    ASSUME AInv, Others
    PROVE  AInv'
    <1>1. ASSUME UNCHANGED <<box, call, prov, lock, captured, applying, saved>> PROVE AInv'
        BY <1>1, Untouched, NoneGoesOn
    <1> QED
        BY <1>1, EvictInv DEF Others, SaveForeign, sdk

(* create, up to the allocation.                                           *)
LEMMA CreateInv ==
    ASSUME AInv, NEW s \in Sessions, NEW m, NEW id, Create(s, m, id)
    PROVE  AInv'
    <1> DEFINE r == [stage |-> "allocate", resumes |-> FALSE, state |-> FreshState(m, id),
                     box |-> None]
    <1>1. /\ UNCHANGED <<box, prov, lock, captured, applying, saved>> /\ Idle(s)
          /\ (call' = call \/ call' = [call EXCEPT ![s] = r])
        BY DEF Create
    <1>2. CASE call' = call
        BY <1>1, <1>2, Untouched, NoneGoesOn
    <1>3. CASE call' = [call EXCEPT ![s] = r]
        <2>1. StateOK(FreshState(m, id)) /\ FreshState(m, id).moment = None
            BY DEF StateOK, FreshState, StateFields
        <2>2. /\ r.stage = "allocate" /\ r.resumes = FALSE /\ r.state = FreshState(m, id)
              /\ DOMAIN r = CallFields
            BY DEF CallFields
        <2> HIDE DEF r
        <2>3. call'[s] = r /\ ~Calling(s, "materialize") /\ ~Provided(s)'
            BY <1>1, <1>3 DEF AInv, Domains, Idle, Calling, NoCall, Provided
        <2>4. CallOK(s)'
            BY <2>1, <2>2, <2>3 DEF CallOK
        <2> QED
            BY <1>1, <1>3, <2>2, <2>3, <2>4, CallStep
    <1> QED
        BY <1>1, <1>2, <1>3

(* The allocation is refused.                                              *)
LEMMA AllocateFailsInv ==
    ASSUME AInv, NEW s \in Sessions, AllocateFails(s)
    PROVE  AInv'
    <1>1. /\ UNCHANGED <<box, prov, lock, captured, applying, saved>> /\ Calling(s, "allocate")
          /\ call' = [call EXCEPT ![s] = NoCall]
        BY DEF AllocateFails
    <1>2. CallOK(s)' /\ ~Calling(s, "materialize") /\ NoCall.stage # "materialize"
        BY <1>1 DEF CallOK, AInv, Domains, Calling, NoCall
    <1> QED
        BY <1>1, <1>2, CallStep

(* _allocate draws a number that nobody has, for its own call.             *)
LEMMA NewBoxDraws ==
    ASSUME AInv, NEW b \in Draw, NEW v, NewBox(b, v)
    PROVE  DrawsOne(b) /\ box'[b].work = 0 /\ b \in Boxes
    <1>1. IsBox(Box("live", v)) /\ Box("live", v).work = 0
        BY DEF Box, IsBox, BoxFields
    <1> DEFINE r == Box("live", v)
    <1> HIDE DEF r
    <1>2. IsBox(r) /\ r # NoBox /\ r.work = 0 /\ box' = [box EXCEPT ![b] = r]
        BY <1>1, BoxRecords DEF r, NewBox
    <1> QED
        BY <1>2 DEF DrawsOne, Draw, AInv, BoxInv

(* Who can delete the sandboxes there are when one is drawn.               *)
LEMMA DrawsOrphansNone ==
    ASSUME AInv, NEW s \in Sessions, NEW b, DrawsOne(b), UNCHANGED prov,
           \A t \in Sessions : Calling(t, "materialize") => call'[t] = call[t],
           \A t \in Sessions, c \in Boxes : Staging(t, c) => Staging(t, c)',
           (Calling(s, "materialize")' /\ call'[s].box = b) \/ Staging(s, b)'
    PROVE  NoOrphanSandbox'
    <1> SUFFICES ASSUME NEW c \in Boxes, Lives(c)'
                 PROVE  \E t \in Sessions :
                            \/ Calling(t, "materialize")' /\ call'[t].box = c
                            \/ Provided(t)' /\ prov'[t].box = c /\ ~prov'[t].deleted
                            \/ Staging(t, c)'
        BY DEF NoOrphanSandbox
    <1>1. CASE c = b
        BY <1>1
    <1>2. CASE c # b
        <2>1. Lives(c)
            BY <1>2 DEF DrawsOne, Lives
        <2>2. PICK t \in Sessions : \/ Calling(t, "materialize") /\ call[t].box = c
                                    \/ Provided(t) /\ prov[t].box = c /\ ~prov[t].deleted
                                    \/ Staging(t, c)
            BY <2>1 DEF AInv, NoOrphanSandbox
        <2> QED
            BY <2>2 DEF Calling, Provided
    <1> QED
        BY <1>1, <1>2

(* A client call is given its sandbox,                                     *)
LEMMA AllocateInv ==
    ASSUME AInv, NEW s \in Sessions, NEW b \in Draw, Allocate(s, b)
    PROVE  AInv'
    <1> DEFINE r == [call[s] EXCEPT !.stage = "materialize", !.box = b]
    <1>1. /\ UNCHANGED <<prov, lock, captured, applying, saved>> /\ Calling(s, "allocate")
          /\ call' = [call EXCEPT ![s] = r] /\ \E v : NewBox(b, v)
        BY DEF Allocate
    <1>2. DrawsOne(b) /\ b \in Boxes
        BY <1>1, NewBoxDraws
    <1>3. SessionOK(s) /\ call[s] # NoCall /\ DOMAIN call[s] = CallFields
        BY <1>1 DEF AInv, SessionOK, CallOK, Calling, NoCall
    <1>4. /\ DOMAIN r = CallFields /\ r.stage = "materialize" /\ r.box = b
          /\ r.state = call[s].state /\ r.resumes = call[s].resumes
        BY <1>3 DEF CallFields
    <1> HIDE DEF r
    <1>5. call'[s] = r /\ Domains' /\ \A t \in Sessions \ {s} : Rests(t)
        BY <1>1 DEF AInv, Domains, Rests, Keeps
    <1>6. \A c : Drawn(c) => Drawn(c)' /\ box'[c] = box[c]
        BY <1>2, DrawsBoxes DEF AInv, Drawn, DrawsOne
    <1>7. SessionOK(s)'
        <2>1. CallOK(s)'
            <3>1. Drawn(b)'
                BY <1>2 DEF DrawsOne, Drawn
            <3> QED
                BY <1>1, <1>3, <1>4, <1>5, <3>1 DEF SessionOK, CallOK, Provided, StateOK
        <2>2. ProviderOK(s)' /\ WorkOK(s)'
            BY <1>1, <1>3, <1>6
               DEF SessionOK, ProviderOK, WorkOK, StateOK, Provided, Lives, IsMoment, Stopping
        <2>3. ApplyOK(s)'
            BY <1>1, <1>3, <1>6 DEF SessionOK, ApplyOK, ApplicationOK, Gone, Provided
        <2> QED
            BY <2>1, <2>2, <2>3 DEF SessionOK
    <1>8. \A c \in Boxes : Owns(s, c)' => Owns(s, c) \/ c = b
        BY <1>1, <1>4, <1>5 DEF Owns, Calling, Provided
    <1>9. NoOrphanSandbox'
        <2>1. \A t \in Sessions : Calling(t, "materialize") => call'[t] = call[t]
            BY <1>1, <1>5 DEF Calling, Rests, Keeps
        <2>2. \A t \in Sessions, c \in Boxes : Staging(t, c) => Staging(t, c)'
            BY <1>1 DEF Staging, Applying
        <2> QED
            BY <1>1, <1>2, <1>4, <1>5, <2>1, <2>2, DrawsOrphansNone DEF Calling
    <1> QED
        BY <1>1, <1>2, <1>5, <1>7, <1>8, <1>9, OneDraws

(* and an application its staging sandbox.                                 *)
LEMMA ApplyStagesInv ==
    ASSUME AInv, NEW s \in Sessions, NEW j \in Tasks, NEW b \in Draw, ApplyStages(s, j, b)
    PROVE  AInv'
    <1>0. PICK r : r = [applying[s][j] EXCEPT !.stage = "build", !.box = b]
        OBVIOUS
    <1>1. /\ UNCHANGED <<prov, lock, captured, call, saved>> /\ Applying(s, j, "create")
          /\ applying' = [applying EXCEPT ![s][j] = r] /\ NewBox(b, Pristine)
        BY <1>0 DEF ApplyStages, SetApplying, aside
    <1>2. DrawsOne(b) /\ b \in Boxes
        BY <1>1, NewBoxDraws
    <1>3. SessionOK(s) /\ DOMAIN applying[s][j] = ApplicationFields /\ Provided(s)
        BY <1>1 DEF AInv, SessionOK, ApplyOK, ApplicationOK, Applying, NoApplication
    <1>4. DOMAIN r = ApplicationFields /\ r.stage = "build" /\ r.box = b
        BY <1>0, <1>3 DEF ApplicationFields
    <1>5. /\ applying'[s][j] = r /\ Domains' /\ (\A t \in Sessions \ {s} : Rests(t))
          /\ \A i \in Tasks \ {j} : applying'[s][i] = applying[s][i]
        BY <1>1, OneApplies DEF AInv, Domains, Rests, Keeps
    <1>6. \A c : Drawn(c) => Drawn(c)' /\ box'[c] = box[c]
        BY <1>2, DrawsBoxes DEF AInv, Drawn, DrawsOne
    <1>7. SessionOK(s)'
        <2>1. CallOK(s)'
            BY <1>1, <1>3, <1>6 DEF SessionOK, CallOK, Provided, StateOK
        <2>2. ProviderOK(s)' /\ WorkOK(s)'
            BY <1>1, <1>3, <1>6
               DEF SessionOK, ProviderOK, WorkOK, StateOK, Provided, Lives, IsMoment, Stopping
        <2>3. ApplicationOK(s, r)'
            <3>1. Drawn(b)'
                BY <1>2 DEF DrawsOne, Drawn
            <3> QED
                BY <1>1, <1>3, <1>4, <3>1 DEF ApplicationOK, Provided
        <2>4. \A c : Drawn(c) => Drawn(c)' /\ (Gone(c) => Gone(c)')
            BY <1>6 DEF Gone
        <2>5. ApplyOK(s)'
            BY <1>1, <2>3, <2>4, OthersApply
        <2> QED
            BY <2>1, <2>2, <2>5 DEF SessionOK
    <1>8. \A c \in Boxes : Owns(s, c)' => Owns(s, c)
        BY <1>1 DEF Owns, Calling, Provided
    <1>9. NoOrphanSandbox'
        <2>1. ASSUME NEW t \in Sessions, NEW c \in Boxes, Staging(t, c) PROVE Staging(t, c)'
            <3>1. PICK i \in Tasks : Applying(t, i, "build") /\ applying[t][i].box = c
                BY <2>1 DEF Staging
            <3>2. applying'[t][i] = applying[t][i]
                BY <1>1, <1>5, <3>1 DEF Applying, Rests
            <3> QED
                BY <3>1, <3>2 DEF Staging, Applying
        <2>2. Staging(s, b)'
            BY <1>4, <1>5 DEF Staging, Applying
        <2> QED
            BY <1>1, <1>2, <2>1, <2>2, DrawsOrphansNone DEF Calling
    <1> QED
        BY <1>1, <1>2, <1>5, <1>7, <1>8, <1>9, OneDraws

(* Changing a sandbox that there is, without taking work away.             *)
LEMMA Changes ==
    ASSUME AInv, NEW b, Drawn(b), NEW r, box' = [box EXCEPT ![b] = r], IsBox(r),
           r.life = box[b].life, r.work >= box[b].work
    PROVE  GoOn(0) /\ \A c \in Boxes : Lives(c)' = Lives(c)
    <1>1. b \in Boxes /\ DOMAIN box = Boxes /\ box[b] # NoBox /\ r # NoBox
        BY BoxRecords DEF Drawn, AInv, BoxInv
    <1> QED
        BY <1>1 DEF GoOn, Lives

(* A state that names another sandbox is of the same moment.               *)
LEMMA Handles ==
    ASSUME NEW st, StateOK(st), NEW b
    PROVE  LET new == [st EXCEPT !.handle = b, !.session = b]
           IN  StateOK(new) /\ new.moment = st.moment /\ new.metadata = st.metadata
    BY DEF StateOK, StateFields

(* A provider session is handed out.                                       *)
LEMMA HandOutInv ==
    ASSUME AInv, NEW s \in Sessions, HandOut(s)
    PROVE  AInv'
    <1> DEFINE b == call[s].box
               st == [call[s].state EXCEPT !.handle = b, !.session = b]
               p == Provider(b, st, FALSE, call[s].resumes)
    <1>1. PICK tree, rev :
              /\ box' = [box EXCEPT ![b] = [box[b] EXCEPT !.tree = tree, !.rev = rev]]
              /\ Calling(s, "materialize") /\ Lives(b)
              /\ prov' = [prov EXCEPT ![s] = p] /\ call' = [call EXCEPT ![s] = NoCall]
              /\ UNCHANGED <<lock, captured, applying, saved>>
        BY DEF HandOut
    <1>2. /\ SessionOK(s) /\ Drawn(b) /\ ~Provided(s) /\ lock[s] = "free"
          /\ StateOK(call[s].state) /\ call[s].resumes \in BOOLEAN
          /\ IF call[s].resumes THEN call[s].state.metadata # None ELSE call[s].state.moment = None
        BY <1>1 DEF AInv, SessionOK, CallOK, ProviderOK, Calling, NoCall
    <1>3. StateOK(st) /\ st.moment = call[s].state.moment /\ st.metadata = call[s].state.metadata
        BY <1>2, Handles
    <1> HIDE DEF st
    <1>4. /\ p # NoProvider /\ DOMAIN p = ProviderFields /\ p.box = b /\ p.state = st
          /\ p.live = FALSE /\ p.replacement = call[s].resumes /\ p.started = FALSE
          /\ p.deleted = FALSE
        BY <1>2 DEF Drawn, Provider, ProviderFields, NoProvider, Boxes
    <1> HIDE DEF p
    <1>5. GoOn(0) /\ \A c \in Boxes : Lives(c)' = Lives(c)
        <2> DEFINE r == [box[b] EXCEPT !.tree = tree, !.rev = rev]
        <2>1. IsBox(box[b])
            BY <1>2 DEF AInv, BoxInv, Drawn
        <2>2. IsBox(r) /\ r.life = box[b].life /\ r.work >= box[b].work
            BY <2>1 DEF IsBox, BoxFields
        <2>3. box' = [box EXCEPT ![b] = r]
            BY <1>1
        <2> HIDE DEF r
        <2> QED
            BY <1>2, <2>2, <2>3, Changes
    <1>6. /\ prov'[s] = p /\ call'[s] = NoCall /\ Domains' /\ Provided(s)'
          /\ \A t \in Sessions \ {s} : Rests(t)
        BY <1>1, <1>4 DEF AInv, Domains, Rests, Keeps, Provided
    <1>7. SessionOK(s)'
        <2>1. CallOK(s)'
            BY <1>6 DEF CallOK
        <2>2. \A c : Drawn(c) => Drawn(c)'
            BY <1>5, GoOnBoxes DEF AInv
        <2>3. StateOK(prov[s].state)'
            BY <1>3, <1>4, <1>6 DEF StateOK
        <2>4. ProviderOK(s)'
            BY <1>1, <1>2, <1>3, <1>4, <1>6, <2>2, <2>3 DEF ProviderOK, Starting, Drawn
        <2>5. WorkOK(s)'
            BY <1>1, <1>2, <1>3, <1>4, <1>6 DEF WorkOK, Stopping
        <2>6. ApplyOK(s)'
            BY <1>1, <1>2, <1>6 DEF SessionOK, ApplyOK, ApplicationOK
        <2> QED
            BY <2>1, <2>4, <2>5, <2>6 DEF SessionOK
    <1>8. \A c \in Boxes : Owns(s, c)' => Owns(s, c)
        BY <1>1, <1>4, <1>6 DEF Owns, Calling, NoCall
    <1>9. NoOrphanSandbox'
        <2> SUFFICES ASSUME NEW c \in Boxes, Lives(c)'
                     PROVE  \E t \in Sessions :
                                \/ Calling(t, "materialize")' /\ call'[t].box = c
                                \/ Provided(t)' /\ prov'[t].box = c /\ ~prov'[t].deleted
                                \/ Staging(t, c)'
            BY DEF NoOrphanSandbox
        <2>1. PICK t \in Sessions : \/ Calling(t, "materialize") /\ call[t].box = c
                                    \/ Provided(t) /\ prov[t].box = c /\ ~prov[t].deleted
                                    \/ Staging(t, c)
            BY <1>5 DEF AInv, NoOrphanSandbox
        <2>2. CASE t = s
            BY <1>1, <1>2, <1>4, <1>6, <2>1, <2>2 DEF Staging, Applying
        <2>3. CASE t # s
            BY <1>6, <2>1, <2>3 DEF Calling, Provided, Staging, Applying, Rests, Keeps
        <2> QED
            BY <2>2, <2>3
    <1>10. saved' # None => StateOK(saved)'
        BY <1>1 DEF AInv, StateOK
    <1> QED
        BY <1>5, <1>6, <1>7, <1>8, <1>9, <1>10, OneGoesOn

(* The hand-out fails.                                                     *)
LEMMA HandOutFailsInv ==
    ASSUME AInv, NEW s \in Sessions, HandOutFails(s)
    PROVE  AInv'
    <1>1. /\ Calling(s, "materialize") /\ Doom(call[s].box) /\ call' = [call EXCEPT ![s] = NoCall]
          /\ UNCHANGED <<prov, lock, captured, applying, saved>>
        BY DEF HandOutFails
    <1>2. SessionOK(s) /\ Drawn(call[s].box) /\ ~Provided(s)
        BY <1>1 DEF AInv, SessionOK, CallOK, Calling, NoCall
    <1>3. GoOn(0) /\ \A c \in Boxes : Lives(c)' => Lives(c) /\ c # call[s].box
        BY <1>1, <1>2, Dooms
    <1>4. call'[s] = NoCall /\ Domains' /\ \A t \in Sessions \ {s} : Rests(t)
        BY <1>1 DEF AInv, Domains, Rests, Keeps
    <1>5. SessionOK(s)'
        <2>1. CallOK(s)'
            BY <1>4 DEF CallOK
        <2>2. ProviderOK(s)' /\ WorkOK(s)' /\ ApplyOK(s)'
            BY <1>1, <1>2
               DEF SessionOK, ProviderOK, WorkOK, ApplyOK, ApplicationOK, Provided, IsMoment, Stopping,
                            Gone, Drawn
        <2> QED
            BY <2>1, <2>2 DEF SessionOK
    <1>6. \A c \in Boxes : Owns(s, c)' => Owns(s, c)
        BY <1>1, <1>4 DEF Owns, Calling, NoCall, Provided
    <1>7. NoOrphanSandbox'
        <2> SUFFICES ASSUME NEW c \in Boxes, Lives(c)'
                     PROVE  \E t \in Sessions :
                                \/ Calling(t, "materialize")' /\ call'[t].box = c
                                \/ Provided(t)' /\ prov'[t].box = c /\ ~prov'[t].deleted
                                \/ Staging(t, c)'
            BY DEF NoOrphanSandbox
        <2>1. PICK t \in Sessions : \/ Calling(t, "materialize") /\ call[t].box = c
                                    \/ Provided(t) /\ prov[t].box = c /\ ~prov[t].deleted
                                    \/ Staging(t, c)
            BY <1>3 DEF AInv, NoOrphanSandbox
        <2>2. CASE t = s
            BY <1>1, <1>2, <1>3, <2>1, <2>2 DEF Staging, Applying
        <2>3. CASE t # s
            BY <1>4, <2>1, <2>3 DEF Calling, Provided, Staging, Applying, Rests, Keeps
        <2> QED
            BY <2>2, <2>3
    <1>8. saved' # None => StateOK(saved)'
        BY <1>1 DEF AInv, StateOK
    <1> QED
        BY <1>3, <1>4, <1>5, <1>6, <1>7, <1>8, OneGoesOn

(* The states a session may be resumed from are in order.                  *)
LEMMA StatesOK ==
    ASSUME AInv, NEW st \in States
    PROVE  StateOK(st)
    BY DEF AInv, States, SessionOK, ProviderOK

(* resume.                                                                 *)
LEMMA ResumeInv ==
    ASSUME AInv, NEW s \in Sessions, NEW st \in States, NEW at \in Boxes, box[at] # NoBox,
           Resume(s, st, at)
    PROVE  AInv'
    <1>1. StateOK(st) /\ Drawn(at)
        BY StatesOK DEF Drawn
    <1>2. Idle(s) /\ UNCHANGED <<box, lock, captured, applying, saved>>
        BY DEF Resume
    <1>3. SessionOK(s) /\ ~Provided(s) /\ lock[s] = "free" /\ call[s] = NoCall
        BY <1>2 DEF AInv, SessionOK, ProviderOK, Idle
    <1>4. CASE UNCHANGED <<call, prov>>
        BY <1>2, <1>4, Untouched, NoneGoesOn
    <1>5. CASE prov' = [prov EXCEPT ![s] = Provider(at, st, TRUE, FALSE)] /\ UNCHANGED call
        <2> DEFINE p == Provider(at, st, TRUE, FALSE)
        <2>1. /\ p # NoProvider /\ DOMAIN p = ProviderFields /\ p.box = at /\ p.state = st
              /\ p.live = TRUE /\ p.replacement = FALSE /\ p.started = FALSE
              /\ p.deleted = FALSE
            BY DEF Provider, ProviderFields, NoProvider, Boxes
        <2> HIDE DEF p
        <2>2. /\ prov' = [prov EXCEPT ![s] = p] /\ prov'[s] = p /\ Domains' /\ Provided(s)'
              /\ \A t \in Sessions \ {s} : Rests(t)
            BY <1>2, <1>5, <2>1 DEF p, AInv, Domains, Rests, Keeps, Provided
        <2>3. GoOn(0) /\ \A c \in Boxes : Lives(c)' = Lives(c)
            BY <1>2, Untouched
        <2>4. SessionOK(s)'
            <3>1. CallOK(s)'
                BY <1>3, <1>5 DEF CallOK
            <3>2. StateOK(prov[s].state)' /\ Drawn(at)'
                BY <1>1, <1>2, <2>1, <2>2 DEF StateOK, Drawn
            <3>3. ProviderOK(s)'
                BY <1>2, <1>3, <2>1, <2>2, <3>2 DEF ProviderOK, Starting
            <3>4. WorkOK(s)'
                BY <1>2, <1>3, <2>1, <2>2 DEF WorkOK, Stopping
            <3>5. ApplyOK(s)'
                BY <1>2, <1>3 DEF SessionOK, ApplyOK, ApplicationOK
            <3> QED
                BY <3>1, <3>3, <3>4, <3>5 DEF SessionOK
        <2>5. \A c \in Boxes : Owns(s, c)' => Owns(s, c)
            BY <1>3, <1>5, <2>1, <2>2 DEF Owns, Calling, NoCall
        <2>6. NoOrphanSandbox'
            <3>1. \A t \in Sessions : Provided(t) => prov'[t] = prov[t]
                BY <1>3, <2>2 DEF Rests, Keeps
            <3> QED
                BY <1>2, <1>5, <2>3, <3>1
                   DEF AInv, NoOrphanSandbox, Calling, Provided, Staging, Applying
        <2>7. saved' # None => StateOK(saved)'
            BY <1>2 DEF AInv, StateOK
        <2> QED
            BY <2>2, <2>3, <2>4, <2>5, <2>6, <2>7, OneGoesOn
    <1>6. CASE /\ call' = [call EXCEPT ![s] = [stage |-> "allocate", resumes |-> TRUE,
                                               state |-> st, box |-> None]]
               /\ st.metadata # None /\ UNCHANGED prov
        <2> DEFINE r == [stage |-> "allocate", resumes |-> TRUE, state |-> st, box |-> None]
        <2>1. r.stage = "allocate" /\ r.resumes = TRUE /\ r.state = st /\ DOMAIN r = CallFields
            BY DEF CallFields
        <2> HIDE DEF r
        <2>2. call' = [call EXCEPT ![s] = r] /\ call'[s] = r /\ ~Calling(s, "materialize")
              /\ ~Provided(s)'
            BY <1>3, <1>6 DEF r, AInv, Domains, Calling, NoCall, Provided
        <2>3. CallOK(s)'
            BY <1>1, <1>6, <2>1, <2>2 DEF CallOK
        <2> QED
            BY <1>2, <1>6, <2>1, <2>2, <2>3, CallStep
    <1> QED
        BY <1>4, <1>5, <1>6 DEF Resume

(* A session is dropped.                                                   *)
LEMMA ForgetInv ==
    ASSUME AInv, NEW s \in Sessions, Forget(s)
    PROVE  AInv'
    <1>1. /\ Provided(s) /\ ~Lives(prov[s].box) /\ lock[s] = "free"
          /\ \A j \in Tasks : applying[s][j] = NoApplication
          /\ prov' = [prov EXCEPT ![s] = NoProvider]
          /\ UNCHANGED <<box, lock, call, captured, applying, saved>>
        BY DEF Forget, Holds, lifecycle
    <1>2. SessionOK(s) /\ call[s] = NoCall
        BY <1>1 DEF AInv, SessionOK, CallOK
    <1>3. GoOn(0) /\ \A c \in Boxes : Lives(c)' = Lives(c)
        BY <1>1, Untouched
    <1>4. /\ prov'[s] = NoProvider /\ ~Provided(s)' /\ Domains'
          /\ \A t \in Sessions \ {s} : Rests(t)
        BY <1>1 DEF AInv, Domains, Rests, Keeps, Provided
    <1>5. SessionOK(s)'
        BY <1>1, <1>2, <1>4
           DEF SessionOK, CallOK, ProviderOK, WorkOK, ApplyOK, ApplicationOK, Stopping
    <1>6. \A c \in Boxes : Owns(s, c)' => Owns(s, c)
        BY <1>1, <1>4 DEF Owns, Calling
    <1>7. NoOrphanSandbox'
        <2>1. \A t \in Sessions : t # s => prov'[t] = prov[t]
            BY <1>4 DEF Rests, Keeps
        <2> QED
            BY <1>1, <1>3, <2>1 DEF AInv, NoOrphanSandbox, Calling, Provided, Staging, Applying
    <1>8. saved' # None => StateOK(saved)'
        BY <1>1 DEF AInv, StateOK
    <1> QED
        BY <1>3, <1>4, <1>5, <1>6, <1>7, <1>8, OneGoesOn

-----------------------------------------------------------------------------
(* The lifecycle of a provider session.                                    *)

(* Only the lock passes on.                                                *)
LEMMA LockStep ==
    ASSUME AInv, NEW s \in Sessions, Provided(s), NEW l \in Starting \cup {"free", "failing"},
           lock' = [lock EXCEPT ![s] = l],
           UNCHANGED <<box, prov, call, captured, applying, saved>>,
           l \in Starting => ~prov[s].started,
           l = "restoring" => prov[s].replacement,
           l = "ready" => ~prov[s].replacement
    PROVE  AInv'
    <1>1. GoOn(0)
        BY Untouched
    <1>2. /\ Domains' /\ lock'[s] = l /\ Provided(s)' /\ SessionOK(s)
          /\ \A t \in Sessions \ {s} :
               prov'[t] = prov[t] /\ lock'[t] = lock[t] /\ captured'[t] = captured[t]
        BY DEF AInv, Domains, Provided
    <1>3. ProviderOK(s)'
        BY <1>2 DEF SessionOK, ProviderOK, StateOK, Starting, Provided, Drawn
    <1>4. WorkOK(s)'
        BY <1>2 DEF SessionOK, WorkOK, Starting, Provided, Lives, Stopping
    <1>5. saved' # None => StateOK(saved)'
        BY DEF AInv, StateOK
    <1> QED
        BY <1>1, <1>2, <1>3, <1>4, <1>5, LifecycleStep

(* start begins,                                                           *)
LEMMA StartBeginsInv ==
    ASSUME AInv, NEW s \in Sessions, StartBegins(s)
    PROVE  AInv'
    <1> DEFINE l == IF prov[s].live \/ prov[s].replacement THEN "starting" ELSE "ready"
    <1>1. /\ Provided(s) /\ ~prov[s].started /\ lock' = [lock EXCEPT ![s] = l]
          /\ UNCHANGED <<box, prov, call, captured, applying, saved>>
        BY DEF StartBegins, SetLock, Available, lifecycle
    <1>2. l \in {"starting", "ready"} /\ (l = "ready" => ~prov[s].replacement)
        OBVIOUS
    <1> HIDE DEF l
    <1> QED
        BY <1>1, <1>2, LockStep DEF Starting

(* finds its live sandbox,                                                 *)
LEMMA StartPreservedInv ==
    ASSUME AInv, NEW s \in Sessions, StartPreserved(s)
    PROVE  AInv'
    <1> DEFINE l == IF Available(s) THEN "ready" ELSE "failing"
    <1>1. /\ lock[s] = "starting" /\ prov[s].live /\ lock' = [lock EXCEPT ![s] = l]
          /\ UNCHANGED <<box, prov, call, captured, applying, saved>>
        BY DEF StartPreserved, SetLock, Holds, lifecycle
    <1>2. l \in {"ready", "failing"}
        OBVIOUS
    <1> HIDE DEF l
    <1>3. Provided(s) /\ ~prov[s].started /\ ~prov[s].replacement
        BY <1>1 DEF AInv, SessionOK, ProviderOK, Starting
    <1> QED
        BY <1>1, <1>2, <1>3, LockStep DEF Starting

(* finds its snapshot,                                                     *)
LEMMA StartChecksInv ==
    ASSUME AInv, NEW s \in Sessions, StartChecks(s)
    PROVE  AInv'
    <1> DEFINE l == IF Restorable(prov[s].state) THEN "restoring" ELSE "failing"
    <1>1. /\ lock[s] = "starting" /\ prov[s].replacement /\ lock' = [lock EXCEPT ![s] = l]
          /\ UNCHANGED <<box, prov, call, captured, applying, saved>>
        BY DEF StartChecks, SetLock, Holds, lifecycle
    <1>2. l \in {"restoring", "failing"}
        OBVIOUS
    <1> HIDE DEF l
    <1>3. Provided(s) /\ ~prov[s].started
        BY <1>1 DEF AInv, SessionOK, ProviderOK, Starting
    <1> QED
        BY <1>1, <1>2, <1>3, LockStep DEF Starting

(* or is cut off.                                                          *)
LEMMA StartBreaksInv ==
    ASSUME AInv, NEW s \in Sessions, StartBreaks(s)
    PROVE  AInv'
    <1>1. /\ lock[s] \in Starting /\ lock' = [lock EXCEPT ![s] = "failing"]
          /\ UNCHANGED <<box, prov, call, captured, applying, saved>>
        BY DEF StartBreaks, SetLock, Starting, lifecycle
    <1>2. Provided(s)
        BY <1>1 DEF AInv, SessionOK, ProviderOK, Starting
    <1> QED
        BY <1>1, <1>2, LockStep DEF Starting

(* A deletion that fails.                                                  *)
LEMMA DeleteFailsInv ==
    ASSUME AInv, NEW s \in Sessions, DeleteFails(s)
    PROVE  AInv'
    <1>1. /\ lock[s] = "deleting" /\ lock' = [lock EXCEPT ![s] = "free"]
          /\ UNCHANGED <<box, prov, call, captured, applying, saved>>
        BY DEF DeleteFails, SetLock, Holds, lifecycle
    <1>2. Provided(s)
        BY <1>1 DEF AInv, SessionOK, ProviderOK
    <1> QED
        BY <1>1, <1>2, LockStep DEF Starting

(* Only flags of the provider session change besides; the lock is free     *)
(* afterwards.                                                             *)
LEMMA FlagStep ==
    ASSUME AInv, NEW s \in Sessions, Provided(s), GoOn(0), lock'[s] = "free",
           DOMAIN lock' = Sessions, \A t \in Sessions \ {s} : lock'[t] = lock[t],
           NEW p, prov' = [prov EXCEPT ![s] = p], DOMAIN p = ProviderFields,
           p.box = prov[s].box, p.state = prov[s].state, p.live = prov[s].live,
           p.replacement = prov[s].replacement,
           prov[s].started => p.started,
           p.started => prov[s].started \/ lock[s] = "ready",
           p.deleted => prov[s].deleted \/ ~(box'[prov[s].box].life = "live"),
           UNCHANGED <<call, captured, applying, saved>>
    PROVE  AInv'
    <1>1. /\ Domains' /\ lock'[s] = "free" /\ prov'[s] = p /\ SessionOK(s)
          /\ \A t \in Sessions \ {s} :
               prov'[t] = prov[t] /\ lock'[t] = lock[t] /\ captured'[t] = captured[t]
        BY DEF AInv, Domains
    <1>2. Drawn(p.box) /\ p # NoProvider /\ Provided(s)'
        BY <1>1 DEF SessionOK, ProviderOK, Drawn, Boxes, NoProvider, Provided
    <1>3. Drawn(p.box)' /\ (\A b : Drawn(b) => Drawn(b)')
        BY <1>2, GoOnBoxes DEF AInv
    <1>4. ProviderOK(s)'
        <2>1. StateOK(prov[s].state)'
            BY <1>1 DEF SessionOK, ProviderOK, StateOK
        <2> QED
            BY <1>1, <1>2, <1>3, <2>1 DEF SessionOK, ProviderOK, Starting
    <1>5. WorkOK(s)'
        <2>1. ASSUME box'[p.box].life = "live"
              PROVE  /\ box[p.box].life = "live" /\ box'[p.box].work >= box[p.box].work
                     /\ box'[p.box].work \in Nat /\ box[p.box].work \in Nat
            <3>1. p.box \in Boxes /\ IsBox(box[p.box]) /\ p.box # 0
                BY <1>2 DEF Drawn, AInv, BoxInv, Boxes
            <3> QED
                BY <2>1, <3>1 DEF GoOn, IsBox
        <2>2. prov[s].state.moment # None => prov[s].state.moment.work \in Nat
            BY <1>1 DEF SessionOK, ProviderOK, StateOK
        <2> QED
            BY <1>1, <2>1, <2>2 DEF SessionOK, WorkOK, Lives, Stopping
    <1>6. saved' # None => StateOK(saved)'
        BY DEF AInv, StateOK
    <1>7. prov'[s].deleted => prov[s].deleted \/ ~Lives(prov[s].box)'
        BY <1>1 DEF Lives
    <1> QED
        BY <1>1, <1>2, <1>4, <1>5, <1>6, <1>7, LifecycleStep

(* start ends.                                                             *)
LEMMA StartEndsInv ==
    ASSUME AInv, NEW s \in Sessions, StartEnds(s)
    PROVE  AInv'
    <1> DEFINE p == [prov[s] EXCEPT !.cleanup = FALSE, !.started = TRUE]
    <1>1. /\ lock[s] = "ready" /\ lock' = [lock EXCEPT ![s] = "free"]
          /\ prov' = [prov EXCEPT ![s] = p]
          /\ UNCHANGED <<box, call, captured, applying, saved>>
        BY DEF StartEnds, SetLock, Holds, lifecycle
    <1>2. Provided(s) /\ DOMAIN prov[s] = ProviderFields
        BY <1>1 DEF AInv, SessionOK, ProviderOK
    <1>3. /\ DOMAIN p = ProviderFields /\ p.box = prov[s].box /\ p.state = prov[s].state
          /\ p.live = prov[s].live /\ p.replacement = prov[s].replacement
          /\ p.started = TRUE /\ p.deleted = prov[s].deleted
        BY <1>2 DEF ProviderFields
    <1> HIDE DEF p
    <1> QED
        BY <1>1, <1>2, <1>3, Untouched, FlagStep DEF AInv, Domains

(* shutdown.                                                               *)
LEMMA ShutdownInv ==
    ASSUME AInv, NEW s \in Sessions, Shutdown(s)
    PROVE  AInv'
    <1> DEFINE p == [prov[s] EXCEPT !.closed = TRUE]
    <1>1. /\ Provided(s) /\ lock[s] = "free" /\ UNCHANGED lock
          /\ prov' = [prov EXCEPT ![s] = p]
          /\ UNCHANGED <<box, call, captured, applying, saved>>
        BY DEF Shutdown, SetLock, Holds, lifecycle
    <1>2. DOMAIN prov[s] = ProviderFields
        BY <1>1 DEF AInv, SessionOK, ProviderOK
    <1>3. /\ DOMAIN p = ProviderFields /\ p.box = prov[s].box /\ p.state = prov[s].state
          /\ p.live = prov[s].live /\ p.replacement = prov[s].replacement
          /\ p.started = prov[s].started /\ p.deleted = prov[s].deleted
        BY <1>2 DEF ProviderFields
    <1> HIDE DEF p
    <1>4. DOMAIN lock' = Sessions
        BY <1>1 DEF AInv, Domains
    <1> QED
        BY <1>1, <1>2, <1>3, <1>4, Untouched, FlagStep DEF AInv, Domains

(* A deletion ends.                                                        *)
LEMMA DeleteEndsInv ==
    ASSUME AInv, NEW s \in Sessions, DeleteEnds(s)
    PROVE  AInv'
    <1> DEFINE p == [prov[s] EXCEPT !.deleted = TRUE]
    <1>1. /\ lock[s] = "deleting" /\ lock' = [lock EXCEPT ![s] = "free"]
          /\ prov' = [prov EXCEPT ![s] = p]
          /\ UNCHANGED <<box, call, captured, applying, saved>>
        BY DEF DeleteEnds, SetLock, Holds, lifecycle
    <1>2. Provided(s) /\ DOMAIN prov[s] = ProviderFields /\ ~Lives(prov[s].box)
        BY <1>1 DEF AInv, SessionOK, ProviderOK
    <1>3. /\ DOMAIN p = ProviderFields /\ p.box = prov[s].box /\ p.state = prov[s].state
          /\ p.live = prov[s].live /\ p.replacement = prov[s].replacement
          /\ p.started = prov[s].started
        BY <1>2 DEF ProviderFields
    <1> HIDE DEF p
    <1>4. ~(box'[prov[s].box].life = "live")
        BY <1>1, <1>2 DEF Lives
    <1> QED
        BY <1>1, <1>2, <1>3, <1>4, Untouched, FlagStep DEF AInv, Domains

(* A start that failed deletes what the session allocated.                 *)
LEMMA StartFailsInv ==
    ASSUME AInv, NEW s \in Sessions, NEW done, NEW closed, StartFails(s, done, closed)
    PROVE  AInv'
    <1> DEFINE p == [prov[s] EXCEPT !.deleted = done, !.closed = closed]
    <1>1. /\ lock[s] = "failing" /\ lock' = [lock EXCEPT ![s] = "free"]
          /\ \/ Doom(prov[s].box) /\ prov' = [prov EXCEPT ![s] = p]
             \/ UNCHANGED <<box, prov>>
          /\ UNCHANGED <<call, captured, applying, saved>>
        BY DEF StartFails, SetLock, Holds, lifecycle
    <1>2. Provided(s) /\ DOMAIN prov[s] = ProviderFields /\ Drawn(prov[s].box)
        BY <1>1 DEF AInv, SessionOK, ProviderOK
    <1>3. /\ DOMAIN p = ProviderFields /\ p.box = prov[s].box /\ p.state = prov[s].state
          /\ p.live = prov[s].live /\ p.replacement = prov[s].replacement
          /\ p.started = prov[s].started
        BY <1>2 DEF ProviderFields
    <1>4. CASE Doom(prov[s].box) /\ prov' = [prov EXCEPT ![s] = p]
        <2> HIDE DEF p
        <2> QED
            BY <1>1, <1>2, <1>3, <1>4, Dooms, FlagStep DEF AInv, Domains
    <1>5. CASE UNCHANGED <<box, prov>>
        BY <1>1, <1>2, <1>5, LockStep DEF Starting
    <1> QED
        BY <1>1, <1>4, <1>5

(* A deletion begins.                                                      *)
LEMMA DeleteBeginsInv ==
    ASSUME AInv, NEW s \in Sessions, DeleteBegins(s)
    PROVE  AInv'
    <1>1. /\ Provided(s) /\ lock[s] = "free" /\ Doom(prov[s].box)
          /\ lock' = [lock EXCEPT ![s] = "deleting"]
          /\ UNCHANGED <<prov, call, captured, applying, saved>>
        BY DEF DeleteBegins, SetLock, Holds, lifecycle
    <1>2. SessionOK(s) /\ Drawn(prov[s].box)
        BY <1>1 DEF AInv, SessionOK, ProviderOK
    <1>3. GoOn(0) /\ box'[prov[s].box].life = "gone"
        BY <1>1, <1>2, Dooms
    <1>4. /\ Domains' /\ lock'[s] = "deleting" /\ Provided(s)' /\ ~Lives(prov[s].box)'
          /\ \A t \in Sessions \ {s} :
               prov'[t] = prov[t] /\ lock'[t] = lock[t] /\ captured'[t] = captured[t]
        BY <1>1, <1>3 DEF AInv, Domains, Provided, Lives
    <1>5. \A b : Drawn(b) => Drawn(b)'
        BY <1>3, GoOnBoxes DEF AInv
    <1>6. ProviderOK(s)'
        BY <1>1, <1>2, <1>4, <1>5 DEF SessionOK, ProviderOK, StateOK, Starting
    <1>7. WorkOK(s)'
        BY <1>1, <1>4 DEF WorkOK, Stopping
    <1>8. saved' # None => StateOK(saved)'
        BY <1>1 DEF AInv, StateOK
    <1> QED
        BY <1>1, <1>3, <1>4, <1>6, <1>7, <1>8, LifecycleStep

(* What a replacement is given: the moment its durable state names.        *)
LEMMA Restored ==
    ASSUME AInv, NEW s \in Sessions, StartRestores(s), lock' # [lock EXCEPT ![s] = "failing"]
    PROVE  \E r : /\ box' = [box EXCEPT ![prov[s].box] = r]
                  /\ IsBox(r) /\ r.life = box[prov[s].box].life
                  /\ [tree |-> r.tree, rev |-> r.rev, cwd |-> r.cwd, env |-> r.env, work |-> r.work]
                       = prov[s].state.moment
                  /\ r.work = prov[s].state.moment.work
    <1> DEFINE st == prov[s].state
               old == box[prov[s].box]
               archive == snapshots[st.snapshot].draft
               cwd == Context(s).cwd
               env == Context(s).env
               tree == archive.tree
               rev == archive.rev
               work == st.moment.work
               r == [old EXCEPT !.tree = tree, !.rev = rev, !.work = work, !.cwd = cwd,
               !.env = env]
    <1>1. /\ Holds(s, "restoring") /\ Hydratable(s, archive)
          /\ box' = [box EXCEPT ![prov[s].box] = Hydrated(s, archive, st.moment.work)]
        BY DEF StartRestores, SetLock
    <1>2. /\ Provided(s) /\ prov[s].replacement /\ ~prov[s].started /\ StateOK(st)
          /\ st.metadata # None /\ Drawn(prov[s].box)
        BY <1>1 DEF AInv, SessionOK, ProviderOK, Starting, Holds
    <1>3. cwd = st.cwd /\ env = st.env
        BY <1>2 DEF Context
    <1>4. st.metadata = [tree |-> tree, rev |-> rev]
        BY <1>1, <1>2 DEF Hydratable
    <1>5. /\ work \in Nat
          /\ st.moment = [tree |-> st.metadata.tree, rev |-> st.metadata.rev, cwd |-> st.cwd,
                          env |-> st.env, work |-> work]
        BY <1>2 DEF StateOK
    <1>6. box' = [box EXCEPT ![prov[s].box] = r]
        BY <1>1 DEF Hydrated
    <1>7. IsBox(old)
        BY <1>2 DEF AInv, BoxInv, Drawn
    <1> HIDE DEF old, tree, rev, cwd, env, work, st, archive
    <1>8. /\ IsBox(r) /\ r.life = old.life /\ r.tree = tree /\ r.rev = rev /\ r.cwd = cwd
          /\ r.env = env /\ r.work = work
        BY <1>5, <1>7 DEF IsBox, BoxFields
    <1> HIDE DEF r
    <1>9. [tree |-> r.tree, rev |-> r.rev, cwd |-> r.cwd, env |-> r.env, work |-> r.work]
              = st.moment
        BY <1>3, <1>4, <1>5, <1>8
    <1> QED
        BY <1>6, <1>8, <1>9 DEF old, st, work

(* A replacement is given its workspace.                                   *)
LEMMA StartRestoresInv ==
    ASSUME AInv, NEW s \in Sessions, StartRestores(s)
    PROVE  AInv'
    <1>1. /\ lock[s] = "restoring" /\ UNCHANGED <<prov, call, captured, applying, saved>>
          /\ \/ lock' = [lock EXCEPT ![s] = "ready"]
             \/ lock' = [lock EXCEPT ![s] = "failing"] /\ UNCHANGED box
        BY DEF StartRestores, SetLock, Holds, lifecycle
    <1>2. /\ SessionOK(s) /\ Provided(s) /\ prov[s].replacement /\ ~prov[s].started
          /\ ~prov[s].live /\ Drawn(prov[s].box) /\ Owns(s, prov[s].box)
          /\ prov[s].state.metadata # None
        BY <1>1 DEF AInv, SessionOK, ProviderOK, Starting, Owns
    <1>3. CASE lock' = [lock EXCEPT ![s] = "failing"] /\ UNCHANGED box
        BY <1>1, <1>2, <1>3, LockStep DEF Starting
    <1>4. CASE lock' = [lock EXCEPT ![s] = "ready"]
        <2>1. lock'[s] = "ready" /\ lock' # [lock EXCEPT ![s] = "failing"]
            BY <1>4 DEF AInv, Domains
        <2>2. PICK r : /\ box' = [box EXCEPT ![prov[s].box] = r]
                       /\ IsBox(r) /\ r.life = box[prov[s].box].life
                       /\ r.work = prov[s].state.moment.work
            BY <2>1, Restored
        <2>3. GoOn(prov[s].box) /\ box'[prov[s].box] = r
            BY <1>2, <2>2, BoxRecords DEF GoOn, AInv, BoxInv, Drawn
        <2>4. /\ Domains' /\ Provided(s)'
              /\ \A t \in Sessions \ {s} :
                   prov'[t] = prov[t] /\ lock'[t] = lock[t] /\ captured'[t] = captured[t]
            BY <1>1, <1>2, <1>4 DEF AInv, Domains, Provided
        <2>5. \A b : Drawn(b) => Drawn(b)'
            BY <2>3, GoOnBoxes DEF AInv
        <2>6. ProviderOK(s)'
            BY <1>1, <1>2, <2>1, <2>4, <2>5 DEF SessionOK, ProviderOK, StateOK, Starting
        <2>7. WorkOK(s)'
            BY <1>1, <2>1, <2>2, <2>3 DEF WorkOK, IsBox, Stopping
        <2>8. saved' # None => StateOK(saved)'
            BY <1>1 DEF AInv, StateOK
        <2> QED
            BY <1>1, <1>2, <2>3, <2>4, <2>6, <2>7, <2>8, LifecycleStep
    <1> QED
        BY <1>1, <1>3, <1>4

(* A stop exports.                                                         *)
LEMMA StopBeginsInv ==
    ASSUME AInv, NEW s \in Sessions, StopBegins(s)
    PROVE  AInv'
    <1> DEFINE m == Moment(prov[s].box)
               same == prov[s].state.metadata = [tree |-> m.tree, rev |-> m.rev]
               l == IF same THEN "checking" ELSE "saving"
    <1>1. /\ lock[s] = "free" /\ lock' = [lock EXCEPT ![s] = l] /\ Stops(s)
          /\ captured' = [captured EXCEPT ![s] = m]
          /\ UNCHANGED <<box, prov, call, applying, saved>>
        BY DEF StopBegins, SetLock, Holds
    <1>2. /\ SessionOK(s) /\ Provided(s) /\ (prov[s].replacement => prov[s].started)
          /\ IsBox(box[prov[s].box]) /\ Lives(prov[s].box)
        BY <1>1 DEF AInv, SessionOK, ProviderOK, Stops, Available, Drawn, BoxInv
    <1>3. IsMoment(m) /\ m.work = box[prov[s].box].work /\ m.work \in Nat
        BY <1>2 DEF Moment, IsMoment, IsBox
    <1> HIDE DEF m
    <1> l \in {"checking", "saving"} /\ (l = "checking" => same)
        OBVIOUS
    <1> HIDE DEF l
    <1>4. /\ Domains' /\ Provided(s)' /\ lock'[s] = l /\ captured'[s] = m
          /\ \A t \in Sessions \ {s} :
               prov'[t] = prov[t] /\ lock'[t] = lock[t] /\ captured'[t] = captured[t]
        BY <1>1, <1>2 DEF AInv, Domains, Provided
    <1>5. ProviderOK(s)'
        BY <1>1, <1>2, <1>4 DEF SessionOK, ProviderOK, StateOK, Starting, Drawn
    <1>6. WorkOK(s)'
        <2>1. IsMoment(captured[s])'
            BY <1>3, <1>4 DEF IsMoment
        <2> QED
            BY <1>1, <1>2, <1>3, <1>4, <2>1 DEF SessionOK, WorkOK, Lives, Provided, Stopping
    <1>7. saved' # None => StateOK(saved)'
        BY <1>1 DEF AInv, StateOK
    <1> QED
        BY <1>1, <1>2, <1>4, <1>5, <1>6, <1>7, Untouched, LifecycleStep

(* The snapshot of before is lost: the stop goes on to save a new one.      *)
LEMMA SnapshotLostInv ==
    ASSUME AInv, NEW s \in Sessions, SnapshotLost(s)
    PROVE  AInv'
    <1>1. /\ lock[s] = "checking" /\ lock' = [lock EXCEPT ![s] = "saving"]
          /\ UNCHANGED <<box, prov, call, captured, applying, saved>>
        BY DEF SnapshotLost, SetLock, Holds, lifecycle
    <1>2. /\ Domains' /\ lock'[s] = "saving" /\ SessionOK(s) /\ Provided(s) /\ Provided(s)'
          /\ \A t \in Sessions \ {s} :
               prov'[t] = prov[t] /\ lock'[t] = lock[t] /\ captured'[t] = captured[t]
        BY <1>1 DEF AInv, Domains, Provided, SessionOK, ProviderOK
    <1>3. ProviderOK(s)'
        BY <1>1, <1>2 DEF SessionOK, ProviderOK, StateOK, Starting, Provided, Drawn
    <1>4. WorkOK(s)'
        BY <1>1, <1>2 DEF SessionOK, WorkOK, Provided, Lives, Stopping, IsMoment
    <1>5. saved' # None => StateOK(saved)'
        BY <1>1 DEF AInv, StateOK
    <1> QED
        BY <1>1, <1>2, <1>3, <1>4, <1>5, Untouched, LifecycleStep

(* A stop ends with the durable state of before, or with one of what it    *)
(* has captured.                                                           *)
LEMMA PersistStep ==
    ASSUME AInv, NEW s \in Sessions, Stopping(s), lock' = [lock EXCEPT ![s] = "free"],
           captured' = [captured EXCEPT ![s] = None],
           UNCHANGED <<box, call, applying>>,
           NEW st, StateOK(st), st.moment = captured[s],
           \/ UNCHANGED <<prov, saved>>
           \/ prov' = [prov EXCEPT ![s].state = st] /\ (saved' = st \/ saved' = saved)
    PROVE  /\ AInv'
           /\ ~prov[s].live /\ prov[s].state.moment # None =>
                  prov'[s].state.moment.work >= prov[s].state.moment.work
    <1>1. SessionOK(s) /\ Provided(s) /\ DOMAIN prov[s] = ProviderFields /\ IsMoment(captured[s])
        BY DEF AInv, SessionOK, ProviderOK, WorkOK, Stopping
    <1> DEFINE p == [prov[s] EXCEPT !.state = st]
    <1>2. /\ DOMAIN p = ProviderFields /\ p.box = prov[s].box /\ p.state = st
          /\ p.live = prov[s].live /\ p.replacement = prov[s].replacement
          /\ p.started = prov[s].started /\ p.deleted = prov[s].deleted
        BY <1>1 DEF ProviderFields
    <1>3. \/ UNCHANGED <<prov, saved>>
          \/ prov' = [prov EXCEPT ![s] = p] /\ (saved' = st \/ saved' = saved)
        OBVIOUS
    <1> HIDE DEF p
    <1>4. /\ Domains' /\ lock'[s] = "free" /\ (prov'[s] = prov[s] \/ prov'[s] = p)
          /\ \A t \in Sessions \ {s} :
               prov'[t] = prov[t] /\ lock'[t] = lock[t] /\ captured'[t] = captured[t]
        BY <1>3 DEF AInv, Domains
    <1>5. Drawn(p.box) /\ p # NoProvider /\ Provided(s)'
        BY <1>1, <1>2, <1>4 DEF SessionOK, ProviderOK, Drawn, Boxes, NoProvider, Provided
    <1>6. ProviderOK(s)'
        <2>1. StateOK(prov'[s].state)
            BY <1>1, <1>2, <1>4 DEF SessionOK, ProviderOK
        <2>2. StateOK(prov[s].state)'
            BY <2>1 DEF StateOK
        <2>3. Drawn(prov[s].box)'
            BY <1>2, <1>4, <1>5, <1>1 DEF SessionOK, ProviderOK, Drawn
        <2>4. p.replacement /\ ~p.started => ~(~prov[s].live)
            BY <1>1, <1>2 DEF SessionOK, WorkOK
        <2> QED
            BY <1>1, <1>2, <1>4, <1>5, <2>2, <2>3, <2>4 DEF SessionOK, ProviderOK, Starting
    <1>7. WorkOK(s)'
        BY <1>1, <1>2, <1>4 DEF SessionOK, WorkOK, Lives, Stopping
    <1>8. saved' # None => StateOK(saved)'
        BY DEF AInv, StateOK
    <1>9. ~prov[s].live /\ prov[s].state.moment # None =>
              prov'[s].state.moment.work >= prov[s].state.moment.work
        <2>1. prov[s].state.moment # None => prov[s].state.moment.work \in Nat
            BY <1>1 DEF SessionOK, ProviderOK, StateOK
        <2> QED
            BY <1>1, <1>2, <1>4, <2>1 DEF SessionOK, WorkOK
    <1> QED
        BY <1>1, <1>2, <1>4, <1>5, <1>6, <1>7, <1>8, <1>9, Untouched, LifecycleStep

(* The durable state of a session that is stopped, with a new snapshot or  *)
(* with the one it has.                                                    *)
SnapshotState(s, id) ==
    LET m == captured[s]
    IN  [prov[s].state EXCEPT !.snapshot = id, !.metadata = [tree |-> m.tree, rev |-> m.rev],
                              !.cwd = m.cwd, !.env = m.env, !.moment = m]
ContextState(s) ==
    LET m == captured[s]
    IN  [prov[s].state EXCEPT !.cwd = m.cwd, !.env = m.env, !.moment = m]

(* The state a stop publishes is of the moment it has exported.            *)
LEMMA PersistedStates ==
    ASSUME AInv, NEW s \in Sessions, Stopping(s), NEW id
    PROVE  /\ StateOK(SnapshotState(s, id)) /\ SnapshotState(s, id).moment = captured[s]
           /\ Holds(s, "checking") => StateOK(ContextState(s)) /\ ContextState(s).moment = captured[s]
    <1> DEFINE m == captured[s]
               st == prov[s].state
               data == [tree |-> m.tree, rev |-> m.rev]
    <1>1. DOMAIN st = StateFields /\ IsMoment(m)
        BY DEF AInv, SessionOK, ProviderOK, WorkOK, StateOK, Stopping
    <1>2. m.work \in Nat
          /\ m = [tree |-> m.tree, rev |-> m.rev, cwd |-> m.cwd, env |-> m.env, work |-> m.work]
        BY <1>1 DEF IsMoment
    <1>3. StateOK(SnapshotState(s, id)) /\ SnapshotState(s, id).moment = m
        <2> DEFINE new == [st EXCEPT !.snapshot = id, !.metadata = data, !.cwd = m.cwd,
                                     !.env = m.env, !.moment = m]
        <2>1. new = SnapshotState(s, id)
            BY DEF SnapshotState
        <2> HIDE DEF m, st, data
        <2>2. /\ DOMAIN new = StateFields /\ new.moment = m /\ new.metadata = data
              /\ new.cwd = m.cwd /\ new.env = m.env
            BY <1>1 DEF StateFields
        <2> HIDE DEF new
        <2>3. new.metadata.tree = m.tree /\ new.metadata.rev = m.rev
            BY <2>2 DEF data
        <2>4. StateOK(new)
            BY <1>2, <2>2, <2>3 DEF StateOK
        <2> QED
            BY <2>1, <2>2, <2>4
    <1>4. ASSUME Holds(s, "checking") PROVE StateOK(ContextState(s)) /\ ContextState(s).moment = m
        <2> DEFINE new == [st EXCEPT !.cwd = m.cwd, !.env = m.env, !.moment = m]
        <2>1. new = ContextState(s) /\ st.metadata = data
            BY <1>4 DEF ContextState, Holds, AInv, SessionOK, WorkOK
        <2> HIDE DEF m, st, data
        <2>2. /\ DOMAIN new = StateFields /\ new.moment = m /\ new.metadata = data
              /\ new.cwd = m.cwd /\ new.env = m.env
            BY <1>1, <2>1 DEF StateFields
        <2> HIDE DEF new
        <2>3. new.metadata.tree = m.tree /\ new.metadata.rev = m.rev
            BY <2>2 DEF data
        <2>4. StateOK(new)
            BY <1>2, <2>2, <2>3 DEF StateOK
        <2> QED
            BY <2>1, <2>2, <2>4
    <1> QED
        BY <1>3, <1>4

(* The steps in which a stop ends.                                         *)
StopStep(s) ==
    \/ \E keep \in BOOLEAN : PersistContext(s, keep) \/ PersistSnapshot(s, keep)
    \/ PersistUncertain(s) \/ PersistFails(s)

(* A stop ends; the durable state loses no work.                           *)
LEMMA StopStepInv ==
    ASSUME AInv, NEW s \in Sessions, StopStep(s)
    PROVE  /\ AInv' /\ UNCHANGED <<box, applying>> /\ lock'[s] = "free"
           /\ \A t \in Sessions \ {s} : prov'[t] = prov[t] /\ lock'[t] = lock[t]
           /\ ~prov[s].live /\ prov[s].state.moment # None =>
                  prov'[s].state.moment.work >= prov[s].state.moment.work
    <1>1. /\ Stopping(s) /\ lock' = [lock EXCEPT ![s] = "free"]
          /\ captured' = [captured EXCEPT ![s] = None] /\ UNCHANGED <<box, call, applying>>
        BY DEF StopStep, PersistContext, PersistSnapshot, PersistUncertain, PersistFails, Holds,
               StopEnds, SetLock, Stopping
    <1> DEFINE Moves(st) ==
            \/ UNCHANGED <<prov, saved>>
            \/ prov' = [prov EXCEPT ![s].state = st] /\ (saved' = st \/ saved' = saved)
    <1>2. (Holds(s, "checking") /\ Moves(ContextState(s))) \/ Moves(SnapshotState(s, lastId + 1))
        <2>1. ASSUME NEW keep \in BOOLEAN, PersistContext(s, keep)
              PROVE  Holds(s, "checking") /\ Moves(ContextState(s))
            BY <2>1 DEF PersistContext, Publish, ContextState
        <2>2. ASSUME NEW keep \in BOOLEAN, PersistSnapshot(s, keep)
              PROVE  Moves(SnapshotState(s, lastId + 1))
            BY <2>2 DEF PersistSnapshot, Publish, SnapshotState
        <2> QED
            BY <2>1, <2>2 DEF StopStep, PersistUncertain, PersistFails
    <1>3. PICK st : StateOK(st) /\ st.moment = captured[s] /\ Moves(st)
        BY <1>1, <1>2, PersistedStates
    <1>4. /\ AInv'
          /\ ~prov[s].live /\ prov[s].state.moment # None =>
                 prov'[s].state.moment.work >= prov[s].state.moment.work
        BY <1>1, <1>3, PersistStep
    <1>5. lock'[s] = "free" /\ \A t \in Sessions \ {s} : prov'[t] = prov[t] /\ lock'[t] = lock[t]
        BY <1>1, <1>3 DEF AInv, Domains
    <1> QED
        BY <1>1, <1>4, <1>5

-----------------------------------------------------------------------------
(* Operations on the workspace.                                            *)

(* The steps of the operations, whatever they do.                          *)
WorkStep(s) ==
    \/ \E p \in Targets, content \in Contents : Write(s, p, content)
    \/ \E p \in Targets, flag \in BOOLEAN : Mkdir(s, p, flag) \/ Rm(s, p, flag)
    \/ \E p \in Targets \cup {Root}, env \in Environments : Exec(s, p, env)
    \/ \E archive \in Archives, raw \in BOOLEAN : HydrateWorkspace(s, archive, raw)

(* A workspace is worked on.                                               *)
LEMMA WorkInv ==
    ASSUME AInv, NEW s \in Sessions, Available(s), NEW r, IsBox(r), r.life = box[prov[s].box].life,
           r.work = box[prov[s].box].work, Work(s, r)
    PROVE  AInv'
    <1> DEFINE b == prov[s].box
               new == [r EXCEPT !.work = @ + 1]
    <1>1. /\ box' = [box EXCEPT ![b] = new]
          /\ UNCHANGED <<prov, lock, call, captured, applying, saved>>
        BY DEF Work, lifecycle
    <1>2. Drawn(b)
        BY DEF AInv, SessionOK, ProviderOK, Available
    <1>3. IsBox(new) /\ new.life = r.life /\ new.work = r.work + 1 /\ r.work \in Nat
        BY DEF IsBox, BoxFields
    <1> HIDE DEF new, b
    <1>4. new.life = box[b].life /\ new.work >= box[b].work
        BY <1>3 DEF b
    <1> QED
        BY <1>1, <1>2, <1>3, <1>4, Changes, NoneGoesOn

(* Every operation on a workspace.                                         *)
LEMMA WorkStepInv ==
    ASSUME AInv, NEW s \in Sessions, WorkStep(s)
    PROVE  AInv' /\ UNCHANGED <<prov, lock, applying>>
    <1> DEFINE old == box[prov[s].box]
    <1>1. Available(s) /\ UNCHANGED <<prov, lock, applying>>
        BY DEF WorkStep, Write, Mkdir, Rm, Exec, HydrateWorkspace, Hydratable, WorkOn, Work,
               lifecycle
    <1>2. IsBox(old)
        BY <1>1 DEF AInv, SessionOK, ProviderOK, Available, Drawn, BoxInv
    <1>3. \/ \E tree, rev : Work(s, [old EXCEPT !.tree = tree, !.rev = rev])
          \/ \E p, env : Work(s, [old EXCEPT !.cwd = p, !.env = env])
          \/ \E archive : Work(s, Hydrated(s, archive, old.work))
        BY Zenon DEF WorkStep, Write, Mkdir, Rm, Exec, HydrateWorkspace, WorkOn
    <1>4. ASSUME NEW tree, NEW rev, Work(s, [old EXCEPT !.tree = tree, !.rev = rev]) PROVE AInv'
        <2> DEFINE r == [old EXCEPT !.tree = tree, !.rev = rev]
        <2>1. IsBox(r) /\ r.life = old.life /\ r.work = old.work
            BY <1>2 DEF IsBox, BoxFields
        <2>2. Work(s, r)
            BY <1>4
        <2> HIDE DEF r
        <2> QED
            BY <1>1, <2>1, <2>2, WorkInv
    <1>5. ASSUME NEW p, NEW env, Work(s, [old EXCEPT !.cwd = p, !.env = env]) PROVE AInv'
        <2> DEFINE r == [old EXCEPT !.cwd = p, !.env = env]
        <2>1. IsBox(r) /\ r.life = old.life /\ r.work = old.work
            BY <1>2 DEF IsBox, BoxFields
        <2>2. Work(s, r)
            BY <1>5
        <2> HIDE DEF r
        <2> QED
            BY <1>1, <2>1, <2>2, WorkInv
    <1>6. ASSUME NEW archive, Work(s, Hydrated(s, archive, old.work)) PROVE AInv'
        <2> DEFINE tree == archive.tree
                   rev == archive.rev
                   cwd == Context(s).cwd
                   env == Context(s).env
                   work == old.work
                   r == [old EXCEPT !.tree = tree, !.rev = rev, !.work = work, !.cwd = cwd,
                                    !.env = env]
        <2>1. Work(s, r)
            BY <1>6 DEF Hydrated
        <2>2. old.work \in Nat
            BY <1>2 DEF IsBox
        <2> HIDE DEF tree, rev, cwd, env, work
        <2>3. IsBox(r) /\ r.life = old.life /\ r.work = old.work
            BY <1>2, <2>2 DEF IsBox, BoxFields, work
        <2> HIDE DEF r
        <2> QED
            BY <1>1, <2>1, <2>3, WorkInv
    <1> QED
        BY <1>1, <1>3, <1>4, <1>5, <1>6

-----------------------------------------------------------------------------
(* The application of a manifest.                                          *)

(* An application begins,                                                  *)
LEMMA ApplyBeginsInv ==
    ASSUME AInv, NEW s \in Sessions, NEW j \in Tasks, NEW plan, Available(s), ApplyBegins(s, j,
           plan)
    PROVE  AInv'
    <1>0. PICK a : a = [stage |-> "create", base |-> Current(s), plan |-> plan, box |-> None,
                        result |-> None]
        OBVIOUS
    <1>1. /\ applying[s][j] = NoApplication /\ applying' = [applying EXCEPT ![s][j] = a]
          /\ UNCHANGED <<box, call, prov, lock, captured, saved>>
        BY <1>0 DEF ApplyBegins, SetApplying, aside
    <1>2. a.stage = "create" /\ DOMAIN a = ApplicationFields
        BY <1>0 DEF ApplicationFields
    <1>3. ~Applying(s, j, "build") /\ Provided(s)'
        BY <1>1 DEF Applying, NoApplication, Available, Provided
    <1>4. ApplicationOK(s, a)'
        BY <1>2, <1>3 DEF ApplicationOK
    <1> QED
        BY <1>1, <1>3, <1>4, Untouched, ApplyStep

(* An application that is over.                                            *)
LEMMA ApplyEndsInv ==
    ASSUME AInv, NEW s \in Sessions, NEW j \in Tasks,
           applying' = [applying EXCEPT ![s][j] = NoApplication],
           UNCHANGED <<call, prov, lock, captured, saved>>, GoOn(0),
           Applying(s, j, "build") => box'[applying[s][j].box].life = "gone"
    PROVE  AInv'
    <1>1. ApplicationOK(s, NoApplication)'
        BY DEF ApplicationOK
    <1> QED
        BY <1>1, ApplyStep

(* is refused, cut off or raises,                                          *)
LEMMA ApplyFailsInv ==
    ASSUME AInv, NEW s \in Sessions, NEW j \in Tasks, ApplyRefused(s, j) \/ ApplyBreaks(s,
           j) \/ ApplyRaises(s, j)
    PROVE  AInv'
    <1>1. /\ applying' = [applying EXCEPT ![s][j] = NoApplication]
          /\ UNCHANGED <<call, prov, lock, captured, saved>>
          /\ \/ UNCHANGED box /\ ~Applying(s, j, "build")
             \/ Applying(s, j, "build") /\ Doom(applying[s][j].box)
        BY DEF ApplyRefused, ApplyBreaks, ApplyRaises, SetApplying, aside, Applying
    <1>2. CASE UNCHANGED box /\ ~Applying(s, j, "build")
        BY <1>1, <1>2, Untouched, ApplyEndsInv
    <1>3. CASE Applying(s, j, "build") /\ Doom(applying[s][j].box)
        <2>1. Drawn(applying[s][j].box)
            BY <1>3 DEF AInv, SessionOK, ApplyOK, ApplicationOK, Applying, NoApplication
        <2> QED
            BY <1>1, <1>3, <2>1, Dooms, ApplyEndsInv
    <1> QED
        BY <1>1, <1>2, <1>3

(* is built,                                                               *)
LEMMA ApplyBuildsInv ==
    ASSUME AInv, NEW s \in Sessions, NEW j \in Tasks, ApplyBuilds(s, j)
    PROVE  AInv'
    <1> DEFINE v == Materialized(applying[s][j].base, applying[s][j].plan)
    <1>0. PICK a : a = [applying[s][j] EXCEPT !.stage = "publish", !.result = v]
        OBVIOUS
    <1>1. /\ Applying(s, j, "build") /\ Doom(applying[s][j].box)
          /\ applying' = [applying EXCEPT ![s][j] = IF v.ok THEN a ELSE NoApplication]
          /\ UNCHANGED <<call, prov, lock, captured, saved>>
        BY <1>0 DEF ApplyBuilds, SetApplying, aside
    <1>2. /\ Drawn(applying[s][j].box) /\ DOMAIN applying[s][j] = ApplicationFields /\ Provided(s)
        BY <1>1 DEF AInv, SessionOK, ApplyOK, ApplicationOK, Applying, NoApplication
    <1>3. GoOn(0) /\ box'[applying[s][j].box].life = "gone" /\ (\A b : Drawn(b) => Drawn(b)')
        BY <1>1, <1>2, Dooms, GoOnBoxes DEF AInv
    <1>4. CASE ~v.ok
        BY <1>1, <1>3, <1>4, ApplyEndsInv
    <1>5. CASE v.ok
        <2>1. applying' = [applying EXCEPT ![s][j] = a]
            BY <1>1, <1>5
        <2> HIDE DEF v
        <2>2. /\ DOMAIN a = ApplicationFields /\ a.stage = "publish" /\ a.result = v
              /\ a.base = applying[s][j].base /\ a.plan = applying[s][j].plan /\ a.box = applying[s][j].box
            BY <1>0, <1>2 DEF ApplicationFields
        <2>3. Provided(s)'
            BY <1>1, <1>2 DEF Provided
        <2>4. a.result = Materialized(a.base, a.plan)
            BY <2>2 DEF v
        <2>5. ApplicationOK(s, a)'
            BY <1>2, <1>3, <1>5, <2>2, <2>3, <2>4 DEF ApplicationOK, Gone
        <2> QED
            BY <1>1, <1>3, <2>1, <2>5, ApplyStep
    <1> QED
        BY <1>4, <1>5

(* and is published.                                                       *)
LEMMA ApplyPublishesInv ==
    ASSUME AInv, NEW s \in Sessions, NEW j \in Tasks, ApplyPublishes(s, j)
    PROVE  AInv'
    <1> DEFINE b == prov[s].box
               tree == applying[s][j].result.tree
               rev == applying[s][j].result.rev
               r == [box[b] EXCEPT !.tree = tree, !.rev = rev]
    <1>1. /\ Applying(s, j, "publish") /\ (UNCHANGED box \/ box' = [box EXCEPT ![b] = r])
          /\ applying' = [applying EXCEPT ![s][j] = NoApplication]
          /\ UNCHANGED <<call, prov, lock, captured, saved>>
        BY DEF ApplyPublishes, SetApplying, aside
    <1>2. Drawn(b) /\ ~Applying(s, j, "build")
        BY <1>1 DEF AInv, SessionOK, ApplyOK, ApplicationOK, ProviderOK, Applying, NoApplication
    <1>3. IsBox(box[b])
        BY <1>2 DEF AInv, BoxInv, Drawn
    <1>4. IsBox(r) /\ r.life = box[b].life /\ r.work >= box[b].work
        <2> HIDE DEF b, tree, rev
        <2> QED
            BY <1>3 DEF IsBox, BoxFields
    <1> HIDE DEF r, b
    <1>5. GoOn(0)
        BY <1>1, <1>2, <1>4, Changes, Untouched
    <1> QED
        BY <1>1, <1>2, <1>5, ApplyEndsInv

-----------------------------------------------------------------------------
(* Every step.                                                             *)

ClientStep(s) ==
    \/ \E m \in DOMAIN Manifests, id \in {0} \cup DOMAIN snapshots : Create(s, m, id)
    \/ \E state \in States, at \in {b \in Boxes : box[b] # NoBox} : Resume(s, state, at)
    \/ \E b \in Draw : Allocate(s, b)
    \/ AllocateFails(s) \/ HandOut(s) \/ HandOutFails(s) \/ Forget(s)

LifeStep(s) ==
    \/ StartBegins(s) \/ StartPreserved(s) \/ StartChecks(s) \/ StartRestores(s) \/ StartEnds(s)
    \/ StartBreaks(s) \/ \E done, closed \in BOOLEAN : StartFails(s, done, closed)
    \/ StopBegins(s) \/ SnapshotLost(s) \/ Shutdown(s)
    \/ DeleteBegins(s) \/ DeleteEnds(s) \/ DeleteFails(s)

ManifestStep(s, j) ==
    \/ ApplyManifest(s, j) \/ \E batch \in DOMAIN Batches : ApplyEntryBatch(s, j, batch)
    \/ \E b \in Draw : ApplyStages(s, j, b)
    \/ ApplyRefused(s, j) \/ ApplyBuilds(s, j) \/ ApplyBreaks(s, j) \/ ApplyRaises(s, j)
    \/ ApplyPublishes(s, j)

(* The steps of Next, by what they are steps of.                           *)
LEMMA NextCases ==
    ASSUME Next
    PROVE  \/ Others
           \/ \E s \in Sessions : \/ ClientStep(s) \/ LifeStep(s) \/ StopStep(s)
                                  \/ WorkStep(s) \/ \E j \in Tasks : ManifestStep(s, j)
    <1>1. \/ \E s \in Sessions : HostCalls(s)
          \/ \E s \in Sessions : Fails(s)
          \/ Others
          \/ \E s \in Sessions : Continues(s)
        BY DEF Next
    <1>2. ASSUME NEW s \in Sessions, HostCalls(s)
          PROVE  ClientStep(s) \/ LifeStep(s) \/ WorkStep(s) \/ \E j \in Tasks : ManifestStep(s, j)
        BY <1>2, Zenon DEF HostCalls, ClientStep, LifeStep, WorkStep, ManifestStep
    <1>3. ASSUME NEW s \in Sessions, Fails(s)
          PROVE  ClientStep(s) \/ LifeStep(s) \/ StopStep(s) \/ \E j \in Tasks : ManifestStep(s, j)
        BY <1>3, Zenon DEF Fails, ClientStep, LifeStep, StopStep, ManifestStep
    <1>4. ASSUME NEW s \in Sessions, Continues(s)
          PROVE  ClientStep(s) \/ LifeStep(s) \/ StopStep(s) \/ \E j \in Tasks : ManifestStep(s, j)
        BY <1>4, Zenon DEF Continues, Deserted, ClientStep, LifeStep, StopStep, ManifestStep
    <1> QED
        BY <1>1, <1>2, <1>3, <1>4

(* Client calls leave locks, applications and states alone.                *)
LEMMA ClientStepInv ==
    ASSUME AInv, NEW s \in Sessions, ClientStep(s)
    PROVE  /\ AInv' /\ UNCHANGED <<lock, applying>>
           /\ \A t \in Sessions : Provided(t) /\ Provided(t)' => prov'[t] = prov[t]
    <1>1. AInv'
        BY CreateInv, ResumeInv, AllocateInv, AllocateFailsInv, HandOutInv, HandOutFailsInv,
           ForgetInv
           DEF ClientStep
    <1>2. UNCHANGED <<lock, applying>>
        BY DEF ClientStep, Create, Resume, Allocate, AllocateFails, HandOut, HandOutFails, Forget,
               lifecycle
    <1>3. \/ UNCHANGED prov
          \/ \E p : prov' = [prov EXCEPT ![s] = p] /\ (~Provided(s) \/ p = NoProvider)
        <2>1. HandOut(s) => ~Provided(s)
            BY DEF HandOut, AInv, SessionOK, CallOK, Calling, NoCall
        <2> QED
            BY <2>1 DEF ClientStep, Create, Resume, Allocate, AllocateFails, HandOut, HandOutFails,
                        Forget, lifecycle, Idle
    <1>4. \A t \in Sessions : Provided(t) /\ Provided(t)' => prov'[t] = prov[t]
        BY <1>3 DEF AInv, Domains, Provided
    <1> QED
        BY <1>1, <1>2, <1>4

(* start, shutdown and delete leave states alone.                          *)
LEMMA LifeStepInv ==
    ASSUME AInv, NEW s \in Sessions, LifeStep(s)
    PROVE  /\ AInv' /\ UNCHANGED applying
           /\ \A t \in Sessions : Provided(t) => prov'[t].state = prov[t].state
           /\ \A t \in Sessions : lock[t] = "restoring" /\ lock'[t] = "ready" =>
                  t = s /\ StartRestores(s) /\ UNCHANGED prov
    <1>1. AInv'
        BY StartBeginsInv, StartPreservedInv, StartChecksInv, StartRestoresInv, StartEndsInv,
           StartBreaksInv, StartFailsInv, StopBeginsInv, SnapshotLostInv, ShutdownInv,
           DeleteBeginsInv,
           DeleteEndsInv, DeleteFailsInv
           DEF LifeStep
    <1>2. UNCHANGED applying
        BY DEF LifeStep, StartBegins, StartPreserved, StartChecks, StartRestores, StartEnds,
               StartBreaks, StartFails, StopBegins, SnapshotLost, Shutdown, DeleteBegins,
               DeleteEnds,
               DeleteFails, lifecycle
    <1>3. \/ UNCHANGED prov
          \/ prov' = [prov EXCEPT ![s] = [prov[s] EXCEPT !.cleanup = FALSE, !.started = TRUE]]
          \/ prov' = [prov EXCEPT ![s] = [prov[s] EXCEPT !.closed = TRUE]]
          \/ prov' = [prov EXCEPT ![s] = [prov[s] EXCEPT !.deleted = TRUE]]
          \/ \E done, closed \in BOOLEAN :
                prov' = [prov EXCEPT ![s] = [prov[s] EXCEPT !.deleted = done, !.closed = closed]]
        BY DEF LifeStep, StartBegins, StartPreserved, StartChecks, StartRestores, StartEnds,
               StartBreaks, StartFails, StopBegins, SnapshotLost, Shutdown, DeleteBegins,
               DeleteEnds, DeleteFails
    <1>4. \A t \in Sessions : Provided(t) => prov'[t].state = prov[t].state
        <2>1. Provided(s) => DOMAIN prov[s] = ProviderFields
            BY DEF AInv, SessionOK, ProviderOK
        <2> DEFINE Same(q) == Provided(s) => q.state = prov[s].state
        <2>2. /\ Same([prov[s] EXCEPT !.cleanup = FALSE, !.started = TRUE])
              /\ Same([prov[s] EXCEPT !.closed = TRUE])
              /\ Same([prov[s] EXCEPT !.deleted = TRUE])
              /\ \A done, closed : Same([prov[s] EXCEPT !.deleted = done, !.closed = closed])
            BY <2>1 DEF ProviderFields
        <2> HIDE DEF Same
        <2>3. UNCHANGED prov \/ \E q : prov' = [prov EXCEPT ![s] = q] /\ Same(q)
            BY <1>3, <2>2, Zenon
        <2> QED
            BY <2>3 DEF AInv, Domains, Same
    <1>5. \/ StartRestores(s) /\ UNCHANGED prov
          \/ UNCHANGED lock
          \/ lock[s] # "restoring"
          \/ lock' = [lock EXCEPT ![s] = "failing"]
        BY DEF LifeStep, StartBegins, StartPreserved, StartChecks, StartRestores, StartEnds,
               StartBreaks, StartFails, StopBegins, SnapshotLost, Shutdown, DeleteBegins,
               DeleteEnds,
               DeleteFails, SetLock, Holds
    <1>6. \E l : lock' = [lock EXCEPT ![s] = l] \/ lock' = lock
        BY DEF LifeStep, StartBegins, StartPreserved, StartChecks, StartRestores, StartEnds,
               StartBreaks, StartFails, StopBegins, SnapshotLost, Shutdown, DeleteBegins,
               DeleteEnds,
               DeleteFails, SetLock
    <1>7. \A t \in Sessions : lock[t] = "restoring" /\ lock'[t] = "ready" =>
              t = s /\ StartRestores(s) /\ UNCHANGED prov
        BY <1>5, <1>6 DEF AInv, Domains
    <1> QED
        BY <1>1, <1>2, <1>4, <1>7

(* Only a publication changes a workspace and ends the application in one  *)
(* step.                                                                   *)
LEMMA ManifestStepInv ==
    ASSUME AInv, NEW s \in Sessions, NEW j \in Tasks, ManifestStep(s, j)
    PROVE  /\ AInv' /\ UNCHANGED <<prov, lock>>
           /\ \A t \in Sessions, i \in Tasks :
                 Applying(t, i, "publish") /\ applying'[t][i] = NoApplication /\ box' # box =>
                     t = s /\ i = j /\ ApplyPublishes(s, j)
    <1>1. AInv'
        BY ApplyBeginsInv, ApplyStagesInv, ApplyFailsInv, ApplyBuildsInv, ApplyPublishesInv
           DEF ManifestStep, ApplyManifest, ApplyEntryBatch
    <1>2. UNCHANGED <<prov, lock>>
        BY
           DEF ManifestStep, ApplyManifest, ApplyEntryBatch, ApplyBegins, ApplyStages, ApplyRefused,
               ApplyBuilds, ApplyBreaks, ApplyRaises, ApplyPublishes, aside
    <1>3. \E a : applying' = [applying EXCEPT ![s][j] = a]
        BY
           DEF ManifestStep, ApplyManifest, ApplyEntryBatch, ApplyBegins, ApplyStages, ApplyRefused,
               ApplyBuilds, ApplyBreaks, ApplyRaises, ApplyPublishes, SetApplying
    <1>4. ApplyPublishes(s, j) \/ ~Applying(s, j, "publish") \/ UNCHANGED box
        BY
           DEF ManifestStep, ApplyManifest, ApplyEntryBatch, ApplyBegins, ApplyStages, ApplyRefused,
               ApplyBuilds, ApplyBreaks, ApplyRaises, Applying, NoApplication
    <1>5. ASSUME NEW t \in Sessions, NEW i \in Tasks, Applying(t, i, "publish"),
                 applying'[t][i] = NoApplication
          PROVE  t = s /\ i = j
        <2>1. applying'[t][i] # applying[t][i]
            BY <1>5 DEF Applying, NoApplication
        <2> QED
            BY <1>3, <2>1, OneApplies
    <1> QED
        BY <1>1, <1>2, <1>4, <1>5

(* The invariant holds before the first call.                              *)
LEMMA InitInv ==
    ASSUME Init
    PROVE  AInv
    <1>1. BoxInv /\ Domains /\ saved = None
        BY DEF Init, BoxInv, Domains
    <1>2. ASSUME NEW s \in Sessions PROVE SessionOK(s) /\ \A b : ~Owns(s, b)
        BY DEF Init, SessionOK, CallOK, ProviderOK, WorkOK, ApplyOK, ApplicationOK, Provided, Owns,
               Calling, NoCall, Starting, Stopping
    <1>3. Distinct /\ NoOrphanSandbox
        BY <1>2 DEF Init, Distinct, NoOrphanSandbox, Lives, NoBox
    <1> QED
        BY <1>1, <1>2, <1>3 DEF AInv

(* Nothing happens.                                                        *)
LEMMA StutterInv ==
    ASSUME AInv, UNCHANGED vars
    PROVE  AInv'
    BY Untouched, NoneGoesOn DEF vars, sdk

(* The invariant is inductive.                                             *)
LEMMA StepInv ==
    ASSUME AInv, [Next]_vars
    PROVE  AInv'
    BY NextCases, OthersInv, ClientStepInv, LifeStepInv, StopStepInv, WorkStepInv, ManifestStepInv,
       StutterInv

-----------------------------------------------------------------------------
(* The theorems.                                                           *)

(* AInv is an inductive invariant of the adapter: of every client call,    *)
(* provider session, durable state and manifest application.               *)
THEOREM AdapterInvariant == Spec => []AInv
    <1>1. Init => AInv
        BY InitInv
    <1>2. AInv /\ [Next]_vars => AInv'
        BY StepInv
    <1> QED
        BY <1>1, <1>2, PTL DEF Spec

(* Whatever fails or is cancelled in create, resume, start, stop, delete   *)
(* and the application of a manifest, a running sandbox has somebody who   *)
(* will hand it out, can delete it or cleans it up.                        *)
THEOREM NoSandboxOrphaned == Spec => []NoOrphanSandbox
    <1>1. AInv => NoOrphanSandbox
        BY DEF AInv
    <1> QED
        BY <1>1, AdapterInvariant, PTL

(* A replacement is given workspace, revision, working directory and       *)
(* environment of the one stop its durable state is of; and the durable    *)
(* state of a session that allocated its sandbox never loses work.         *)
THEOREM DurableStateKept == Spec => DurableState
    <1> DEFINE Kept(s) ==
            Provided(s) /\ Provided(s)' =>
              /\ Holds(s, "restoring") /\ lock'[s] = "ready" =>
                     Moment(prov[s].box)' = prov[s].state.moment
              /\ ~prov[s].live /\ prov[s].state.moment # None =>
                     prov'[s].state.moment.work >= prov[s].state.moment.work
    <1>1. ASSUME AInv, Next PROVE \A t \in Sessions : Kept(t)
        <2> SUFFICES ASSUME NEW t \in Sessions, Provided(t), Provided(t)' PROVE Kept(t)
            OBVIOUS
        <2>1. prov[t].state.moment # None => prov[t].state.moment.work \in Nat
            BY <1>1 DEF AInv, SessionOK, ProviderOK, StateOK
        <2>2. ASSUME prov'[t].state = prov[t].state, lock[t] # "restoring" \/ lock'[t] # "ready"
              PROVE  Kept(t)
            BY <2>1, <2>2 DEF Holds
        <2>3. CASE Others
            BY <2>2, <2>3 DEF Others, Evict, SaveForeign, sdk
        <2>4. ASSUME NEW s \in Sessions, ClientStep(s) PROVE Kept(t)
            BY <1>1, <2>2, <2>4, ClientStepInv
        <2>5. ASSUME NEW s \in Sessions, LifeStep(s) PROVE Kept(t)
            <3>1. prov'[t].state = prov[t].state
                BY <1>1, <2>5, LifeStepInv
            <3>2. CASE lock[t] = "restoring" /\ lock'[t] = "ready"
                <4>1. t = s /\ StartRestores(t) /\ UNCHANGED prov
                    BY <1>1, <2>5, <3>2, LifeStepInv
                <4>2. lock' # [lock EXCEPT ![t] = "failing"]
                    BY <1>1, <3>2 DEF AInv, Domains
                <4>3. PICK r : /\ box' = [box EXCEPT ![prov[t].box] = r]
                               /\ [tree |-> r.tree, rev |-> r.rev, cwd |-> r.cwd, env |-> r.env,
                                   work |-> r.work] = prov[t].state.moment
                    BY <1>1, <4>1, <4>2, Restored
                <4>4. box'[prov[t].box] = r
                    BY <1>1, <4>3 DEF AInv, BoxInv, SessionOK, ProviderOK, Drawn
                <4>5. Moment(prov[t].box)' = prov[t].state.moment
                    BY <4>1, <4>3, <4>4 DEF Moment
                <4> QED
                    BY <2>1, <3>1, <4>5
            <3>3. CASE ~(lock[t] = "restoring" /\ lock'[t] = "ready")
                BY <2>2, <3>1, <3>3
            <3> QED
                BY <3>2, <3>3
        <2>6. ASSUME NEW s \in Sessions, StopStep(s) PROVE Kept(t)
            <3>1. CASE t = s
                BY <1>1, <2>6, <3>1, StopStepInv DEF Holds
            <3>2. CASE t # s
                <4>1. prov'[t] = prov[t] /\ lock'[t] = lock[t]
                    BY <1>1, <2>6, <3>2, StopStepInv
                <4> QED
                    BY <2>2, <4>1
            <3> QED
                BY <3>1, <3>2
        <2>7. ASSUME NEW s \in Sessions, WorkStep(s) PROVE Kept(t)
            BY <1>1, <2>2, <2>7, WorkStepInv
        <2>8. ASSUME NEW s \in Sessions, NEW j \in Tasks, ManifestStep(s, j) PROVE Kept(t)
            BY <1>1, <2>2, <2>8, ManifestStepInv
        <2> QED
            BY <1>1, <2>3, <2>4, <2>5, <2>6, <2>7, <2>8, NextCases
    <1>2. AInv /\ [Next]_vars => [\A s \in Sessions : Kept(s)]_vars
        BY <1>1
    <1> QED
        BY <1>2, AdapterInvariant, PTL DEF Spec, DurableState

(* When the application of a manifest ends in a step that changes a        *)
(* workspace, that workspace is the whole manifest applied to what it was  *)
(* in the moment before, and the staging sandbox is gone.                  *)
THEOREM AppliedAtomically == Spec => ApplyAtomic
    <1> DEFINE Atomic(s, t) ==
            Applying(s, t, "publish") /\ applying'[s][t] = NoApplication /\ box' # box =>
              LET v == Materialized(Current(s), applying[s][t].plan)
              IN  /\ v.ok /\ Current(s)' = Version(v.tree, v.rev)
                  /\ Gone(applying[s][t].box)
    <1>1. ASSUME AInv, Next PROVE \A t \in Sessions, i \in Tasks : Atomic(t, i)
        <2> SUFFICES ASSUME NEW t \in Sessions, NEW i \in Tasks, Applying(t, i, "publish"),
                            applying'[t][i] = NoApplication, box' # box
                     PROVE  Atomic(t, i)
            OBVIOUS
        <2>1. applying'[t][i] # applying[t][i] /\ applying' # applying
            BY DEF Applying, NoApplication
        <2>2. ~Others
            BY <2>1 DEF Others, Evict, SaveForeign, sdk
        <2>3. PICK s \in Sessions, j \in Tasks : ManifestStep(s, j)
            BY <1>1, <2>1, <2>2, NextCases, ClientStepInv, LifeStepInv, StopStepInv, WorkStepInv
        <2>4. ApplyPublishes(t, i) /\ UNCHANGED prov
            BY <1>1, <2>3, ManifestStepInv
        <2> DEFINE b == prov[t].box
                   w == applying[t][i].result
                   r == [box[b] EXCEPT !.tree = w.tree, !.rev = w.rev]
        <2>5. box' = [box EXCEPT ![b] = r] /\ Publishable(t, i)
            BY <2>4 DEF ApplyPublishes
        <2>6. /\ w = Materialized(applying[t][i].base, applying[t][i].plan) /\ w.ok
              /\ Gone(applying[t][i].box) /\ Drawn(b)
            BY <1>1
               DEF AInv, SessionOK, ApplyOK, ApplicationOK, ProviderOK, Applying, NoApplication
        <2>7. applying[t][i].base = Current(t)
            BY <2>5 DEF Publishable
        <2>8. IsBox(box[b]) /\ b \in DOMAIN box
            BY <1>1, <2>6 DEF AInv, BoxInv, Drawn
        <2>9. r.tree = w.tree /\ r.rev = w.rev
            BY <2>8 DEF IsBox, BoxFields
        <2> HIDE DEF r, w
        <2>10. Current(t)' = Version(w.tree, w.rev)
            BY <2>4, <2>5, <2>8, <2>9 DEF Current
        <2> QED
            BY <2>6, <2>7, <2>10
    <1>2. AInv /\ [Next]_vars => [\A s \in Sessions, t \in Tasks : Atomic(s, t)]_vars
        BY <1>1
    <1> QED
        BY <1>2, AdapterInvariant, PTL DEF Spec, ApplyAtomic

-----------------------------------------------------------------------------
(* Folds and sums over finite sets, each from that of one element less.    *)

Weight(f, i) == f[i].draft.bytes
Pick(s) == CHOOSE x \in s : TRUE
Total(f, S) == MapThenSumSet(LAMBDA i : f[i].draft.bytes, S)

(* What holds of every set whose proper subsets all have it, holds of      *)
(* every finite set.                                                       *)
LEMMA SubsetInduction ==
    ASSUME NEW S, IsFiniteSet(S), NEW T,
           \A s \in SUBSET S : (\A u \in SUBSET s : u # s => u \in T) => s \in T
    PROVE  SUBSET S \subseteq T
    <1> DEFINE R == StrictSubsetOrdering(S)
               B == (SUBSET S) \ T
    <1>1. IsWellFoundedOn(R, FiniteSubsetsOf(S))
        BY FS_StrictSubsetOrderingWellFounded
    <1>2. B \subseteq FiniteSubsetsOf(S)
        BY FS_Subset DEF FiniteSubsetsOf
    <1>3. SUFFICES ASSUME B # {} PROVE FALSE
        OBVIOUS
    <1> HIDE DEF R, B
    <1>4. PICK s \in B : \A u \in B : ~(<<u, s>> \in R)
        BY <1>1, <1>2, <1>3, WFMin
    <1>5. \A u \in SUBSET s : u # s => u \in T
        BY <1>4 DEF B, R, StrictSubsetOrdering
    <1> QED
        BY <1>4, <1>5 DEF B

(* What the folds of the model do with one more element, y being what came *)
(* of the others; and the element they take: sums any one, a fold of a     *)
(* sequence the last index.                                                *)
Grown(fold, f, i, y) ==
    CASE fold = "payload" -> Weight(f, i) + y
      [] fold = "content" -> f[i] + y
      [] fold = "normalized" -> IF f[i] = Dot THEN y ELSE Append(y, f[i])
      [] fold = "files" -> IF f[i].kind = "file" THEN Append(y, f[i]) ELSE y
      [] fold = "joined" -> y \o f[i]
      [] fold = "directories" -> MadeDirectory(y, f[i])
      [] fold = "seeds" -> Written(y, f[i].path, f[i].content)

Taken(fold, s) == IF fold \in {"payload", "content"} THEN Pick(s) ELSE Max(s)
Takes(fold, S) == \A s \in SUBSET S : s # {} => Taken(fold, s) \in s

(* The results of a fold over some subsets.                                *)
Results(fold, f, base, g) ==
    \A s \in DOMAIN g :
        g[s] = IF s = {} THEN base ELSE Grown(fold, f, Taken(fold, s), g[s \ {Taken(fold, s)}])

(* The subsets of up to n elements.                                        *)
UpTo(S, n) == {s \in SUBSET S : Cardinality(s) <= n}

(* Results of the subsets of some size give those of the next size.        *)
LEMMA MoreResults ==
    ASSUME NEW fold, NEW f, NEW base, NEW S, IsFiniteSet(S), Takes(fold, S), NEW n \in Nat,
           NEW g, DOMAIN g = UpTo(S, n), Results(fold, f, base, g)
    PROVE  \E h : DOMAIN h = UpTo(S, n + 1) /\ Results(fold, f, base, h)
    <1> DEFINE Final(s) == Taken(fold, s)
               Step(s) == Grown(fold, f, Final(s), g[s \ {Final(s)}])
               h == [s \in UpTo(S, n + 1) |-> IF s = {} THEN base ELSE Step(s)]
    <1>1. \A s \in UpTo(S, n) : s \in UpTo(S, n + 1) /\ h[s] = g[s]
        <2> SUFFICES ASSUME NEW s \in UpTo(S, n) PROVE s \in UpTo(S, n + 1) /\ h[s] = g[s]
            OBVIOUS
        <2>1. Cardinality(s) \in Nat
            BY FS_Subset, FS_CardinalityType DEF UpTo
        <2>2. s \in UpTo(S, n + 1)
            BY <2>1 DEF UpTo
        <2>3. g[s] = IF s = {} THEN base ELSE Step(s)
            BY DEF Results
        <2> HIDE DEF Step
        <2> QED
            BY <2>2, <2>3
    <1>2. ASSUME NEW s \in UpTo(S, n + 1), s # {} PROVE s \ {Final(s)} \in UpTo(S, n)
        <2>1. Final(s) \in s
            BY <1>2 DEF Takes, UpTo
        <2> HIDE DEF Final
        <2>2. /\ IsFiniteSet(s) /\ Cardinality(s) \in Nat
              /\ Cardinality(s \ {Final(s)}) = Cardinality(s) - 1
            BY <2>1, FS_Subset, FS_CardinalityType, FS_RemoveElement DEF UpTo
        <2> QED
            BY <2>2 DEF UpTo
    <1>3. \A s \in UpTo(S, n + 1) : h[s] = IF s = {} THEN base ELSE Step(s)
        <2> HIDE DEF Step
        <2> QED
            OBVIOUS
    <1>4. DOMAIN h = UpTo(S, n + 1)
        OBVIOUS
    <1> HIDE DEF h
    <1>5. \A s \in UpTo(S, n + 1) : s # {} => h[s \ {Final(s)}] = g[s \ {Final(s)}]
        BY <1>1, <1>2
    <1>6. Results(fold, f, base, h)
        BY <1>3, <1>4, <1>5 DEF Results
    <1> QED
        BY <1>4, <1>6

(* All the results there are.                                              *)
LEMMA ResultsExist ==
    ASSUME NEW fold, NEW f, NEW base, NEW S, IsFiniteSet(S), Takes(fold, S)
    PROVE  \E g : DOMAIN g = SUBSET S /\ Results(fold, f, base, g)
    <1> DEFINE Known(n) == \E g : DOMAIN g = UpTo(S, n) /\ Results(fold, f, base, g)
               T == {s \in SUBSET S : Known(Cardinality(s))}
    <1>1. ASSUME NEW s \in SUBSET S, \A u \in SUBSET s : u # s => u \in T
          PROVE  Known(Cardinality(s))
        <2>1. IsFiniteSet(s) /\ Cardinality(s) \in Nat
            BY FS_Subset, FS_CardinalityType
        <2>2. CASE s = {}
            <3> DEFINE g == [u \in UpTo(S, 0) |-> base]
            <3>1. \A u \in UpTo(S, 0) : u = {}
                BY FS_Subset, FS_CardinalityType, FS_EmptySet DEF UpTo
            <3>2. DOMAIN g = UpTo(S, 0) /\ Results(fold, f, base, g)
                BY <3>1 DEF Results
            <3> HIDE DEF g
            <3> QED
                BY <2>2, <3>2, FS_EmptySet
        <2>3. CASE s # {}
            <3>1. PICK x \in s : TRUE
                BY <2>3
            <3> DEFINE n == Cardinality(s \ {x})
            <3>2. n \in Nat /\ n + 1 = Cardinality(s)
                <4>1. IsFiniteSet(s \ {x}) /\ Cardinality(s \ {x}) = Cardinality(s) - 1
                    BY <2>1, FS_RemoveElement
                <4>2. n \in Nat /\ n = Cardinality(s) - 1
                    BY <4>1, FS_CardinalityType
                <4> QED
                    BY <2>1, <4>2
            <3>3. s \ {x} \in T
                BY <1>1, <3>1
            <3>4. PICK g : DOMAIN g = UpTo(S, n) /\ Results(fold, f, base, g)
                BY <3>3
            <3> HIDE DEF n
            <3>5. \E h : DOMAIN h = UpTo(S, n + 1) /\ Results(fold, f, base, h)
                BY <3>2, <3>4, MoreResults
            <3> QED
                BY <3>2, <3>5
        <2> QED
            BY <2>2, <2>3
    <1>2. \A s \in SUBSET S : (\A u \in SUBSET s : u # s => u \in T) => s \in T
        BY <1>1
    <1>3. UpTo(S, Cardinality(S)) = SUBSET S
        BY FS_Subset DEF UpTo
    <1> HIDE DEF T
    <1>4. S \in T
        BY <1>2, SubsetInduction
    <1> QED
        BY <1>3, <1>4 DEF T

(* The recursive function behind a fold, which exists, gives them.         *)
Recursion(fold, f, base, S, g) ==
    g = [s \in SUBSET S |->
            IF s = {} THEN base ELSE Grown(fold, f, Taken(fold, s), g[s \ {Taken(fold, s)}])]

LEMMA RecursionExists ==
    ASSUME NEW fold, NEW f, NEW base, NEW S, IsFiniteSet(S), Takes(fold, S)
    PROVE  \E g : Recursion(fold, f, base, S, g)
    <1>1. PICK h : DOMAIN h = SUBSET S /\ Results(fold, f, base, h)
        BY ResultsExist
    <1>2. PICK k : k = [s \in SUBSET S |-> h[s]]
        OBVIOUS
    <1>3. \A s \in SUBSET S : s \ {Taken(fold, s)} \in SUBSET S
        OBVIOUS
    <1>4. \A s \in SUBSET S : k[s] = IF s = {} THEN base
                ELSE Grown(fold, f, Taken(fold, s), k[s \ {Taken(fold, s)}])
        BY <1>1, <1>2, <1>3 DEF Results
    <1>5. Recursion(fold, f, base, S, k)
        BY <1>2, <1>4 DEF Recursion
    <1> QED
        BY <1>5

(* What every step of a fold keeps, its result has.                        *)
KeptBy(fold, f, S, g, Y) ==
    \A i \in S, s, t \in SUBSET S : g[s] \in Y /\ g[t] = Grown(fold, f, i, g[s]) => g[t] \in Y

LEMMA RecursionKeeps ==
    ASSUME NEW fold, NEW f, NEW base, NEW S, IsFiniteSet(S), Takes(fold, S),
           NEW g, Recursion(fold, f, base, S, g), NEW Y, base \in Y,
           KeptBy(fold, f, S, g, Y)
    PROVE  g[S] \in Y
    <1> DEFINE T == {s \in SUBSET S : g[s] \in Y}
    <1>1. ASSUME NEW s \in SUBSET S, \A u \in SUBSET s : u # s => u \in T
          PROVE  s \in T
        <2> DEFINE i == Taken(fold, s)
        <2>1. g[s] = IF s = {} THEN base ELSE Grown(fold, f, i, g[s \ {i}])
            BY DEF Recursion
        <2>2. CASE s = {}
            BY <2>1, <2>2
        <2>3. CASE s # {}
            <3>1. i \in s
                BY <2>3 DEF Takes
            <3> HIDE DEF i
            <3>2. i \in S /\ s \ {i} \in SUBSET S /\ s \ {i} \in T
                BY <1>1, <3>1
            <3>3. g[s] \in Y
                BY <2>1, <2>3, <3>2 DEF KeptBy
            <3> QED
                BY <3>3
        <2> QED
            BY <2>2, <2>3
    <1> HIDE DEF T
    <1>2. S \in T
        BY <1>1, SubsetInduction
    <1> QED
        BY <1>2 DEF T

(* The sums, as results.                                                   *)
Sums(f, g) ==
    \A s \in DOMAIN g :
        g[s] = IF s = {} THEN 0 ELSE Weight(f, Pick(s)) + g[s \ {Pick(s)}]

LEMMA SumsExist ==
    ASSUME NEW f, NEW S, IsFiniteSet(S)
    PROVE  \E g : DOMAIN g = SUBSET S /\ Sums(f, g)
    <1>1. Takes("payload", S)
        BY DEF Takes, Taken, Pick
    <1>2. PICK g : DOMAIN g = SUBSET S /\ Results("payload", f, 0, g)
        BY <1>1, ResultsExist
    <1>3. ASSUME NEW s \in DOMAIN g
          PROVE  g[s] = IF s = {} THEN 0 ELSE Weight(f, Pick(s)) + g[s \ {Pick(s)}]
        <2>1. Taken("payload", s) = Pick(s)
            BY DEF Taken
        <2>2. g[s] = IF s = {} THEN 0 ELSE Grown("payload", f, Pick(s), g[s \ {Pick(s)}])
            BY <1>2, <2>1 DEF Results
        <2>3. \A y : Grown("payload", f, Pick(s), y) = Weight(f, Pick(s)) + y
            BY DEF Grown
        <2> QED
            BY <2>2, <2>3
    <1> QED
        BY <1>2, <1>3 DEF Sums

(* Sums over the same elements are the same.                               *)
LEMMA SumsAgree ==
    ASSUME NEW f, NEW e, NEW S, IsFiniteSet(S), \A i \in S : Weight(f, i) = Weight(e, i),
           NEW g, NEW h, Sums(f, g), Sums(e, h),
           SUBSET S \subseteq DOMAIN g, SUBSET S \subseteq DOMAIN h
    PROVE  g[S] = h[S]
    <1> DEFINE T == {s \in SUBSET S : g[s] = h[s]}
    <1>1. ASSUME NEW s \in SUBSET S, \A u \in SUBSET s : u # s => u \in T
          PROVE  s \in T
        <2>1. CASE s = {}
            BY <2>1 DEF Sums
        <2>2. CASE s # {}
            <3>1. Pick(s) \in s
                BY <2>2 DEF Pick
            <3>2. g[s \ {Pick(s)}] = h[s \ {Pick(s)}]
                BY <1>1, <3>1
            <3>3. /\ g[s] = Weight(f, Pick(s)) + g[s \ {Pick(s)}]
                  /\ h[s] = Weight(e, Pick(s)) + h[s \ {Pick(s)}]
                BY <2>2 DEF Sums
            <3> QED
                BY <3>1, <3>2, <3>3
        <2> QED
            BY <2>1, <2>2
    <1> HIDE DEF T
    <1>2. S \in T
        BY <1>1, SubsetInduction
    <1> QED
        BY <1>2 DEF T

(* The total is one of these sums.                                         *)
LEMMA TotalIsSum ==
    ASSUME NEW f, NEW S, IsFiniteSet(S)
    PROVE  \E g : DOMAIN g = SUBSET S /\ Sums(f, g) /\ Total(f, S) = g[S]
    <1> DEFINE Step(g) == [s \in SUBSET S |->
                              IF s = {} THEN 0 ELSE Weight(f, Pick(s)) + g[s \ {Pick(s)}]]
               g == CHOOSE g : g = Step(g)
    <1>1. PICK h : DOMAIN h = SUBSET S /\ Sums(f, h)
        BY SumsExist
    <1>2. PICK k : k = [s \in SUBSET S |-> h[s]]
        OBVIOUS
    <1>3. k = Step(k)
        BY <1>1, <1>2 DEF Sums
    <1>4. g = Step(g)
        BY <1>3
    <1>5. Total(f, S) = g[S]
        BY DEF Total, MapThenSumSet, MapThenFoldSet, Weight, Pick
    <1>6. DOMAIN g = SUBSET S /\ Sums(f, g)
        <2> HIDE DEF g
        <2> QED
            BY <1>4 DEF Sums
    <1> HIDE DEF g
    <1> QED
        BY <1>5, <1>6

(* Where the weights are the same, so are the totals.                      *)
LEMMA TotalAgrees ==
    ASSUME NEW f, NEW e, NEW S, IsFiniteSet(S), \A i \in S : Weight(f, i) = Weight(e, i)
    PROVE  Total(f, S) = Total(e, S)
    <1>1. PICK g : DOMAIN g = SUBSET S /\ Sums(f, g) /\ Total(f, S) = g[S]
        BY TotalIsSum
    <1>2. PICK h : DOMAIN h = SUBSET S /\ Sums(e, h) /\ Total(e, S) = h[S]
        BY TotalIsSum
    <1>3. g[S] = h[S]
        BY <1>1, <1>2, SumsAgree
    <1> QED
        BY <1>1, <1>2, <1>3

(* The empty total, and one element taken from a total.                    *)
LEMMA TotalPicks ==
    ASSUME NEW f, NEW S, IsFiniteSet(S)
    PROVE  Total(f, S) = IF S = {} THEN 0
                         ELSE Weight(f, Pick(S)) + Total(f, S \ {Pick(S)})
    <1>1. PICK g : DOMAIN g = SUBSET S /\ Sums(f, g) /\ Total(f, S) = g[S]
        BY TotalIsSum
    <1>2. CASE S = {}
        BY <1>1, <1>2 DEF Sums
    <1>3. CASE S # {}
        <2> DEFINE r == S \ {Pick(S)}
        <2>1. IsFiniteSet(r) /\ SUBSET r \subseteq SUBSET S
            BY FS_RemoveElement
        <2>2. PICK h : DOMAIN h = SUBSET r /\ Sums(f, h) /\ Total(f, r) = h[r]
            BY <2>1, TotalIsSum
        <2>3. g[r] = h[r]
            BY <1>1, <2>1, <2>2, SumsAgree
        <2>4. g[S] = Weight(f, Pick(S)) + g[r]
            BY <1>1, <1>3 DEF Sums
        <2> QED
            BY <1>1, <1>3, <2>2, <2>3, <2>4
    <1> QED
        BY <1>2, <1>3

Weighs(f, S) == \A i \in S : Weight(f, i) \in Nat

(* A total of natural numbers is a natural number.                         *)
LEMMA TotalIsNat ==
    ASSUME NEW f, NEW S, IsFiniteSet(S), Weighs(f, S)
    PROVE  Total(f, S) \in Nat
    <1> DEFINE T == {s \in SUBSET S : Total(f, s) \in Nat}
    <1>1. ASSUME NEW s \in SUBSET S, \A u \in SUBSET s : u # s => u \in T
          PROVE  s \in T
        <2>1. IsFiniteSet(s)
            BY FS_Subset
        <2>2. CASE s = {}
            <3>1. Total(f, s) = 0
                BY <2>1, <2>2, TotalPicks
            <3> QED
                BY <3>1
        <2>3. CASE s # {}
            <3>1. Pick(s) \in s
                BY <2>3 DEF Pick
            <3>2. Total(f, s \ {Pick(s)}) \in Nat /\ Weight(f, Pick(s)) \in Nat
                BY <1>1, <3>1 DEF Weighs
            <3>3. Total(f, s) = Weight(f, Pick(s)) + Total(f, s \ {Pick(s)})
                BY <2>1, <2>3, TotalPicks
            <3> QED
                BY <3>2, <3>3
        <2> QED
            BY <2>2, <2>3
    <1> HIDE DEF T
    <1>2. S \in T
        BY <1>1, SubsetInduction
    <1> QED
        BY <1>2 DEF T

(* Any element can be the one that is taken.                               *)
LEMMA TotalWithout ==
    ASSUME NEW f, NEW S, IsFiniteSet(S), Weighs(f, S), NEW x \in S
    PROVE  Total(f, S) = Weight(f, x) + Total(f, S \ {x})
    <1> DEFINE T == {s \in SUBSET S :
                        \A y \in s : Total(f, s) = Weight(f, y) + Total(f, s \ {y})}
    <1>1. ASSUME NEW s \in SUBSET S, \A u \in SUBSET s : u # s => u \in T
          PROVE  s \in T
        <2> SUFFICES ASSUME NEW y \in s
                     PROVE  Total(f, s) = Weight(f, y) + Total(f, s \ {y})
            OBVIOUS
        <2> DEFINE c == Pick(s)
                   both == s \ {c, y}
        <2>1. c \in s /\ IsFiniteSet(s)
            BY FS_Subset DEF Pick
        <2>2. Total(f, s) = Weight(f, c) + Total(f, s \ {c})
            BY <2>1, TotalPicks
        <2> HIDE DEF c
        <2>3. CASE c = y
            BY <2>2, <2>3
        <2>4. CASE c # y
            <3>1. /\ s \ {c} \in T /\ y \in s \ {c} /\ (s \ {c}) \ {y} = both
                  /\ s \ {y} \in T /\ c \in s \ {y} /\ (s \ {y}) \ {c} = both
                BY <1>1, <2>1, <2>4
            <3>2. /\ Total(f, s \ {c}) = Weight(f, y) + Total(f, both)
                  /\ Total(f, s \ {y}) = Weight(f, c) + Total(f, both)
                BY <3>1
            <3>3. both \in SUBSET S /\ Weighs(f, both) /\ IsFiniteSet(both)
                BY FS_Subset DEF Weighs
            <3>4. Total(f, both) \in Nat
                BY <3>3, TotalIsNat
            <3>5. Weight(f, c) \in Nat /\ Weight(f, y) \in Nat
                BY <2>1 DEF Weighs
            <3> QED
                BY <2>2, <3>2, <3>4, <3>5
        <2> QED
            BY <2>3, <2>4
    <1> HIDE DEF T
    <1>2. S \in T
        BY <1>1, SubsetInduction
    <1> QED
        BY <1>2 DEF T

(* What some elements add up to can be taken from a total.                 *)
LEMMA TotalLess ==
    ASSUME NEW f, NEW S, IsFiniteSet(S), Weighs(f, S), NEW R \in SUBSET S
    PROVE  Total(f, S \ R) = Total(f, S) - Total(f, R)
    <1> DEFINE T == {s \in SUBSET R : Total(f, S \ s) = Total(f, S) - Total(f, s)}
    <1>1. IsFiniteSet(R)
        BY FS_Subset
    <1>2. ASSUME NEW s \in SUBSET R, \A u \in SUBSET s : u # s => u \in T
          PROVE  s \in T
        <2>1. s \in SUBSET S /\ IsFiniteSet(s) /\ Total(f, S) \in Nat
            BY FS_Subset, TotalIsNat
        <2>2. CASE s = {}
            <3>1. S \ s = S /\ Total(f, s) = 0
                BY <2>1, <2>2, TotalPicks
            <3> QED
                BY <2>1, <3>1
        <2>3. CASE s # {}
            <3>1. PICK x \in s : TRUE
                BY <2>3
            <3> DEFINE r == s \ {x}
                       left == S \ r
            <3>2. /\ r \in SUBSET S /\ IsFiniteSet(r) /\ Weighs(f, r)
                  /\ left \in SUBSET S /\ IsFiniteSet(left) /\ Weighs(f, left)
                  /\ Weighs(f, s) /\ x \in left /\ left \ {x} = S \ s /\ Weight(f, x) \in Nat
                BY <2>1, FS_Subset DEF Weighs
            <3>3. Total(f, left) = Total(f, S) - Total(f, r)
                BY <1>2
            <3>4. Total(f, left) = Weight(f, x) + Total(f, S \ s)
                BY <3>2, TotalWithout
            <3>5. Total(f, s) = Weight(f, x) + Total(f, r)
                BY <2>1, <3>2, TotalWithout
            <3>6. Total(f, r) \in Nat
                BY <3>2, TotalIsNat
            <3>7. Weighs(f, S \ s) /\ IsFiniteSet(S \ s)
                BY FS_Subset DEF Weighs
            <3>8. Total(f, S \ s) \in Nat
                BY <3>7, TotalIsNat
            <3> QED
                BY <2>1, <3>2, <3>3, <3>4, <3>5, <3>6, <3>8
        <2> QED
            BY <2>2, <2>3
    <1> HIDE DEF T
    <1>3. R \in T
        BY <1>1, <1>2, SubsetInduction
    <1> QED
        BY <1>3 DEF T

-----------------------------------------------------------------------------
(* The store: its account.                                                 *)

StoreInv ==
    /\ IsFiniteSet(DOMAIN snapshots)
    /\ Weighs(snapshots, DOMAIN snapshots)
    /\ StoreAccounting

(* The account of the store, as a total, before and after a step.          *)
LEMMA PayloadIsTotal ==
    /\ \A ids : Payload(ids) = Total(snapshots, ids)
    /\ StoreAccounting' <=> /\ payloadBytes' = Total(snapshots', DOMAIN snapshots')
                            /\ Cardinality(DOMAIN snapshots') <= MaxSnapshots
                            /\ payloadBytes' <= MaxPayloadBytes
    <1>1. \A ids : Payload(ids) = Total(snapshots, ids)
        BY DEF Payload, Total, MapThenSumSet, MapThenFoldSet
    <1>2. Payload(DOMAIN snapshots)' = Total(snapshots', DOMAIN snapshots')
        BY DEF Payload, Total, MapThenSumSet, MapThenFoldSet
    <1> QED
        BY <1>1, <1>2 DEF StoreAccounting

(* What is left after a removal.                                           *)
LEMMA LeftInv ==
    ASSUME StoreInv, NEW ids
    PROVE  LET left == DOMAIN snapshots \ ids
           IN  /\ IsFiniteSet(left) /\ Cardinality(left) \in Nat
               /\ Cardinality(left) <= Cardinality(DOMAIN snapshots)
               /\ Weighs(snapshots, left) /\ Total(snapshots, left) \in Nat
               /\ Total(snapshots, left) <= payloadBytes /\ payloadBytes \in Nat
               /\ payloadBytes - Payload(ids \cap DOMAIN snapshots) = Total(snapshots, left)
    <1> DEFINE left == DOMAIN snapshots \ ids
               out == ids \cap DOMAIN snapshots
    <1>1. /\ left \in SUBSET DOMAIN snapshots /\ out \in SUBSET DOMAIN snapshots
          /\ left = DOMAIN snapshots \ out
        OBVIOUS
    <1>2. /\ IsFiniteSet(left) /\ Cardinality(left) <= Cardinality(DOMAIN snapshots)
          /\ IsFiniteSet(out)
        BY <1>1, FS_Subset DEF StoreInv
    <1>3. Cardinality(left) \in Nat
        BY <1>2, FS_CardinalityType
    <1>4. Weighs(snapshots, left) /\ Weighs(snapshots, out)
        BY <1>1 DEF StoreInv, Weighs
    <1>5. /\ Total(snapshots, left) \in Nat /\ Total(snapshots, out) \in Nat
          /\ Total(snapshots, DOMAIN snapshots) \in Nat
        BY <1>2, <1>4, TotalIsNat DEF StoreInv
    <1>6. Total(snapshots, left) = Total(snapshots, DOMAIN snapshots) - Total(snapshots, out)
        BY <1>1, TotalLess DEF StoreInv
    <1>7. payloadBytes = Total(snapshots, DOMAIN snapshots)
          /\ Payload(out) = Total(snapshots, out)
        BY PayloadIsTotal DEF StoreInv, StoreAccounting
    <1> QED
        BY <1>2, <1>3, <1>4, <1>5, <1>6, <1>7

(* Snapshots are removed.                                                  *)
LEMMA RemoveLockedInv ==
    ASSUME StoreInv, NEW ids, RemoveLocked(ids)
    PROVE  StoreInv'
    <1> DEFINE left == DOMAIN snapshots \ ids
    <1>1. /\ snapshots' = [i \in left |-> snapshots[i]]
          /\ payloadBytes' = payloadBytes - Payload(ids \cap DOMAIN snapshots)
        BY DEF RemoveLocked, Restrict
    <1>2. /\ IsFiniteSet(left) /\ Cardinality(left) \in Nat
          /\ Cardinality(left) <= Cardinality(DOMAIN snapshots)
          /\ Weighs(snapshots, left) /\ Total(snapshots, left) \in Nat
          /\ Total(snapshots, left) <= payloadBytes /\ payloadBytes \in Nat
          /\ payloadBytes' = Total(snapshots, left)
        BY <1>1, LeftInv
    <1>3. DOMAIN snapshots' = left /\ \A i \in left : Weight(snapshots', i) = Weight(snapshots, i)
        BY <1>1 DEF Weight
    <1> HIDE DEF left
    <1>4. Total(snapshots', left) = Total(snapshots, left)
        BY <1>2, <1>3, TotalAgrees
    <1>5. Weighs(snapshots', left)
        BY <1>2, <1>3 DEF Weighs
    <1>6. Cardinality(left) <= MaxSnapshots /\ payloadBytes' <= MaxPayloadBytes
        <2>1. /\ Cardinality(DOMAIN snapshots) <= MaxSnapshots /\ payloadBytes <= MaxPayloadBytes
              /\ Cardinality(DOMAIN snapshots) \in Nat
            BY FS_CardinalityType DEF StoreInv, StoreAccounting
        <2> QED
            BY <1>2, <2>1, StoreAssumption
    <1> QED
        BY <1>2, <1>3, <1>4, <1>5, <1>6, PayloadIsTotal DEF StoreInv

(* A save, accepted or refused.                                            *)
LEMMA SaveInv ==
    ASSUME StoreInv, NEW id, NEW draft, draft.bytes \in Nat, Save(id, draft)
    PROVE  StoreInv'
    <1>1. CASE ~Accepts(id, draft)
        BY <1>1, RemoveLockedInv DEF Save
    <1>2. CASE Accepts(id, draft)
        <2> DEFINE left == DOMAIN snapshots \ Expired
                   all == left \cup {id}
        <2>1. /\ snapshots' = [i \in all |->
                                  IF i = id THEN [draft |-> draft, expires |-> now + TTL]
                                  ELSE snapshots[i]]
              /\ payloadBytes' = payloadBytes - Payload(Expired) + draft.bytes
            BY <1>2 DEF Save
        <2>2. /\ id \notin left /\ Cardinality(left) + 1 <= MaxSnapshots
              /\ payloadBytes' <= MaxPayloadBytes
            BY <1>2, <2>1 DEF Accepts
        <2>3. Expired \cap DOMAIN snapshots = Expired
            BY DEF Expired
        <2>4. /\ IsFiniteSet(left) /\ Cardinality(left) \in Nat
              /\ Weighs(snapshots, left) /\ Total(snapshots, left) \in Nat
              /\ payloadBytes - Payload(Expired) = Total(snapshots, left)
            BY <2>3, LeftInv
        <2>5. /\ DOMAIN snapshots' = all /\ Weight(snapshots', id) = draft.bytes
              /\ \A i \in left : Weight(snapshots', i) = Weight(snapshots, i)
            BY <2>1, <2>2 DEF Weight
        <2>6. all \ {id} = left
            BY <2>2
        <2>7. IsFiniteSet(all) /\ Cardinality(all) = Cardinality(left) + 1
            BY <2>2, <2>4, FS_AddElement
        <2> HIDE DEF left
        <2>8. Weighs(snapshots', all)
            BY <2>4, <2>5 DEF Weighs
        <2> HIDE DEF all
        <2>9. id \in all
            BY DEF all
        <2>10. Total(snapshots', all) = draft.bytes + Total(snapshots', left)
            BY <2>5, <2>6, <2>7, <2>8, <2>9, TotalWithout
        <2>11. Total(snapshots', left) = Total(snapshots, left)
            BY <2>4, <2>5, TotalAgrees
        <2>12. payloadBytes' = Total(snapshots', all)
            BY <2>1, <2>4, <2>10, <2>11
        <2> QED
            BY <2>2, <2>5, <2>7, <2>8, <2>12, PayloadIsTotal DEF StoreInv
    <1> QED
        BY <1>1, <1>2

(* An empty store.                                                         *)
LEMMA StoreInitInv == StoreInit => StoreInv
    <1> SUFFICES ASSUME StoreInit PROVE StoreInv
        OBVIOUS
    <1>1. DOMAIN snapshots = {} /\ payloadBytes = 0
        BY DEF StoreInit
    <1>2. IsFiniteSet({}) /\ Cardinality({}) = 0 /\ Total(snapshots, {}) = 0
        BY FS_EmptySet, TotalPicks
    <1>3. Payload({}) = 0
        BY <1>2, PayloadIsTotal
    <1> QED
        BY <1>1, <1>2, <1>3, StoreAssumption DEF StoreInv, StoreAccounting, Weighs

(* The clock alone moves, or nothing does.                                 *)
LEMMA StoreFrame ==
    ASSUME StoreInv, UNCHANGED <<snapshots, payloadBytes>> PROVE StoreInv'
    <1>1. payloadBytes = Total(snapshots, DOMAIN snapshots)
        BY PayloadIsTotal DEF StoreInv, StoreAccounting
    <1>2. StoreAccounting'
        BY <1>1, PayloadIsTotal DEF StoreInv, StoreAccounting
    <1> QED
        BY <1>2 DEF StoreInv

(* The invariant of the store is inductive.                                *)
LEMMA StoreStepInv == StoreInv /\ [StoreNext]_storeVars => StoreInv'
    <1> SUFFICES ASSUME StoreInv, [StoreNext]_storeVars PROVE StoreInv'
        OBVIOUS
    <1>1. CASE UNCHANGED storeVars
        BY <1>1, StoreFrame DEF storeVars
    <1>2. ASSUME NEW id, Load(id) PROVE StoreInv'
        BY <1>2, RemoveLockedInv, StoreFrame DEF Load, storeVars
    <1>3. ASSUME NEW id, DeleteSnapshot(id) PROVE StoreInv'
        BY <1>3, RemoveLockedInv DEF DeleteSnapshot
    <1>4. CASE PurgeExpired
        BY <1>4, RemoveLockedInv DEF PurgeExpired
    <1>5. CASE Tick
        BY <1>5, StoreFrame DEF Tick
    <1> QED
        BY <1>1, <1>2, <1>3, <1>4, <1>5, SaveInv DEF StoreNext

(* The account of the store is the sum of the payloads it keeps, and both  *)
(* limits hold, whatever clients save, load and delete and whenever        *)
(* snapshots expire.                                                       *)
THEOREM StoreAccounted == StoreSpec => []StoreAccounting
    <1>1. StoreInit => StoreInv
        BY StoreInitInv
    <1>2. StoreInv /\ [StoreNext]_storeVars => StoreInv'
        BY StoreStepInv
    <1>3. StoreInv => StoreAccounting
        BY DEF StoreInv
    <1> QED
        BY <1>1, <1>2, <1>3, PTL DEF StoreSpec

-----------------------------------------------------------------------------
(* The folds of the adapter.                                               *)

(* A set of indices has a largest one.                                     *)
LEMMA LargestIndex ==
    ASSUME NEW S, IsFiniteSet(S), S \subseteq Int, S # {}
    PROVE  Max(S) \in S
    <1> DEFINE Has(s) == \E x \in s : \A y \in s : x >= y
               T == {s \in SUBSET S : s # {} => Has(s)}
    <1>1. ASSUME NEW s \in SUBSET S, \A u \in SUBSET s : u # s => u \in T
          PROVE  s \in T
        <2> SUFFICES ASSUME s # {} PROVE Has(s)
            OBVIOUS
        <2>1. PICK x \in s : TRUE
            OBVIOUS
        <2>2. s \ {x} \in T
            BY <1>1, <2>1
        <2>3. CASE s \ {x} = {}
            BY <2>1, <2>3
        <2>4. CASE s \ {x} # {}
            <3>1. PICK z \in s \ {x} : \A y \in s \ {x} : z >= y
                BY <2>2, <2>4
            <3>2. CASE z >= x
                BY <3>1, <3>2
            <3>3. CASE ~(z >= x)
                <4>1. \A y \in s : x >= y
                    BY <2>1, <3>1, <3>3
                <4> QED
                    BY <2>1, <4>1
            <3> QED
                BY <3>2, <3>3
        <2> QED
            BY <2>3, <2>4
    <1> HIDE DEF T, Has
    <1>2. S \in T
        BY <1>1, SubsetInduction
    <1>3. \E x \in S : \A y \in S : x >= y
        BY <1>2 DEF T, Has
    <1> QED
        BY <1>3 DEF Max

(* So a fold over a sequence takes one index after the other.              *)
LEMMA IndexTaken ==
    ASSUME NEW n \in Nat, NEW fold
    PROVE  IsFiniteSet(1..n) /\ Takes(fold, 1..n)
    <1>1. IsFiniteSet(1..n)
        BY FS_Interval
    <1>2. ASSUME NEW s \in SUBSET (1..n), s # {} PROVE Taken(fold, s) \in s
        <2>1. s \subseteq Int
            OBVIOUS
        <2>2. IsFiniteSet(s)
            BY <1>1, FS_Subset
        <2>3. Max(s) \in s
            BY <1>2, <2>1, <2>2, LargestIndex
        <2> QED
            BY <1>2, <2>3 DEF Taken, Pick
    <1> QED
        BY <1>1, <1>2 DEF Takes

(* Each of the folds is the result of such a recursion:                    *)
(* of the segments of a path that are kept,                                *)
LEMMA NormalizedFold ==
    ASSUME NEW path, NEW n \in Nat, DOMAIN path = 1..n
    PROVE  \E g : Recursion("normalized", path, <<>>, 1..n, g) /\ Normalized(path) = g[1..n]
    <1> DEFINE Iter(g) == g = [s \in SUBSET DOMAIN path |-> IF s = {} THEN <<>>
                             ELSE IF path[Max(s)] = Dot THEN g[s \ {Max(s)}]
                                  ELSE Append(g[s \ {Max(s)}], path[Max(s)])]
               it == CHOOSE g : Iter(g)
    <1>1. Normalized(path) = it[DOMAIN path]
        BY DEF Normalized, FoldLeft, MapThenFoldSet
    <1>2. \A g : Iter(g) <=> Recursion("normalized", path, <<>>, 1..n, g)
        BY DEF Recursion, Grown, Taken
    <1> HIDE DEF Iter
    <1>3. \E g : Recursion("normalized", path, <<>>, 1..n, g)
        BY IndexTaken, RecursionExists
    <1>4. Recursion("normalized", path, <<>>, 1..n, it)
        BY <1>2, <1>3
    <1> QED
        BY <1>1, <1>4

(* of the entries that are files,                                          *)
LEMMA FilesFold ==
    ASSUME NEW planned, NEW n \in Nat, DOMAIN planned = 1..n
    PROVE  \E g : Recursion("files", planned, <<>>, 1..n, g) /\ FilesOf(planned) = g[1..n]
    <1> DEFINE Iter(g) == g = [s \in SUBSET DOMAIN planned |-> IF s = {} THEN <<>>
                             ELSE IF planned[Max(s)].kind = "file"
                                  THEN Append(g[s \ {Max(s)}], planned[Max(s)])
                                  ELSE g[s \ {Max(s)}]]
               it == CHOOSE g : Iter(g)
    <1>1. FilesOf(planned) = it[DOMAIN planned]
        BY DEF FilesOf, FoldLeft, MapThenFoldSet
    <1>2. \A g : Iter(g) <=> Recursion("files", planned, <<>>, 1..n, g)
        BY DEF Recursion, Grown, Taken
    <1> HIDE DEF Iter
    <1>3. \E g : Recursion("files", planned, <<>>, 1..n, g)
        BY IndexTaken, RecursionExists
    <1>4. Recursion("files", planned, <<>>, 1..n, it)
        BY <1>2, <1>3
    <1> QED
        BY <1>1, <1>4

(* of the directories of every depth,                                      *)
LEMMA JoinedFold ==
    ASSUME NEW pieces, NEW n \in Nat, DOMAIN pieces = 1..n
    PROVE  \E g : /\ Recursion("joined", pieces, <<>>, 1..n, g)
                  /\ FoldLeft(\o, <<>>, pieces) = g[1..n]
    <1> DEFINE Iter(g) == g = [s \in SUBSET DOMAIN pieces |-> IF s = {} THEN <<>>
                             ELSE g[s \ {Max(s)}] \o pieces[Max(s)]]
               it == CHOOSE g : Iter(g)
    <1>1. FoldLeft(\o, <<>>, pieces) = it[DOMAIN pieces]
        BY DEF FoldLeft, MapThenFoldSet
    <1>2. \A g : Iter(g) <=> Recursion("joined", pieces, <<>>, 1..n, g)
        BY DEF Recursion, Grown, Taken
    <1> HIDE DEF Iter
    <1>3. \E g : Recursion("joined", pieces, <<>>, 1..n, g)
        BY IndexTaken, RecursionExists
    <1>4. Recursion("joined", pieces, <<>>, 1..n, it)
        BY <1>2, <1>3
    <1> QED
        BY <1>1, <1>4

(* of a workspace that is given directories,                               *)
LEMMA DirectoriesFold ==
    ASSUME NEW v, NEW plan, NEW n \in Nat, DOMAIN plan.directories = 1..n
    PROVE  \E g : /\ Recursion("directories", plan.directories, v, 1..n, g)
                  /\ MaterializedDirectories(v, plan) = g[1..n]
    <1> DEFINE paths == plan.directories
               Iter(g) == g = [s \in SUBSET DOMAIN paths |-> IF s = {} THEN v
                             ELSE MadeDirectory(g[s \ {Max(s)}], paths[Max(s)])]
               it == CHOOSE g : Iter(g)
    <1>1. MaterializedDirectories(v, plan) = it[DOMAIN paths]
        BY DEF MaterializedDirectories, FoldLeft, MapThenFoldSet
    <1>2. \A g : Iter(g) <=> Recursion("directories", paths, v, 1..n, g)
        BY DEF Recursion, Grown, Taken
    <1> HIDE DEF Iter
    <1>3. \E g : Recursion("directories", paths, v, 1..n, g)
        BY IndexTaken, RecursionExists
    <1>4. Recursion("directories", paths, v, 1..n, it)
        BY <1>2, <1>3
    <1> QED
        BY <1>1, <1>4

(* or seed files.                                                          *)
LEMMA SeedsFold ==
    ASSUME NEW v, NEW plan, NEW n \in Nat, DOMAIN plan.files = 1..n
    PROVE  \E g : Recursion("seeds", plan.files, v, 1..n, g) /\ Seeded(v, plan) = g[1..n]
    <1> DEFINE files == plan.files
               Iter(g) == g = [s \in SUBSET DOMAIN files |-> IF s = {} THEN v
                                                  ELSE Written(g[s \ {Max(s)}], files[Max(s)].path,
                                                               files[Max(s)].content)]
               it == CHOOSE g : Iter(g)
    <1>1. Seeded(v, plan) = it[DOMAIN files]
        BY DEF Seeded, FoldLeft, MapThenFoldSet
    <1>2. \A g : Iter(g) <=> Recursion("seeds", files, v, 1..n, g)
        BY DEF Recursion, Grown, Taken
    <1> HIDE DEF Iter
    <1>3. \E g : Recursion("seeds", files, v, 1..n, g)
        BY IndexTaken, RecursionExists
    <1>4. Recursion("seeds", files, v, 1..n, it)
        BY <1>2, <1>3
    <1> QED
        BY <1>1, <1>4

(* The image of a finite set is finite.                                    *)
LEMMA FiniteImage ==
    ASSUME NEW f, IsFiniteSet(DOMAIN f)
    PROVE  IsFiniteSet({f[x] : x \in DOMAIN f})
    <1> DEFINE S == DOMAIN f
               T == {f[x] : x \in S}
               h == [x \in S |-> f[x]]
    <1>1. h \in Surjection(S, T)
        BY DEF Surjection
    <1> HIDE DEF S, T, h
    <1>2. IsFiniteSet(T)
        BY <1>1, FS_Surjection DEF S
    <1> QED
        BY <1>2 DEF T, S

-----------------------------------------------------------------------------
(* Trees have a size.                                                      *)

Sized(tree) ==
    /\ IsFiniteSet(DOMAIN tree)
    /\ \A p \in DOMAIN tree : tree[p] # Dir => Len(tree[p]) \in Nat

(* The sum of the lengths of the files is the result of a fold too.        *)
LEMMA ContentFold ==
    ASSUME NEW f, IsFiniteSet(DOMAIN f)
    PROVE  \E g : Recursion("content", f, 0, DOMAIN f, g) /\ SumFunction(f) = g[DOMAIN f]
    <1> DEFINE S == DOMAIN f
               Iter(g) == g = [s \in SUBSET S |-> IF s = {} THEN 0
                             ELSE f[CHOOSE x \in s : TRUE] + g[s \ {CHOOSE x \in s : TRUE}]]
               it == CHOOSE g : Iter(g)
    <1>1. SumFunction(f) = it[S]
        BY DEF SumFunction, SumFunctionOnSet, FoldFunctionOnSet, MapThenFoldSet
    <1>2. \A g : Iter(g) <=> Recursion("content", f, 0, S, g)
        BY DEF Recursion, Grown, Taken, Pick
    <1> HIDE DEF Iter
    <1>3. Takes("content", S)
        BY DEF Takes, Taken, Pick
    <1>4. \E g : Recursion("content", f, 0, S, g)
        BY <1>3, RecursionExists
    <1>5. Recursion("content", f, 0, S, it)
        BY <1>2, <1>4
    <1> QED
        BY <1>1, <1>5

(* An export of a tree that has a size is so many bytes.                   *)
LEMMA ArchiveWeighs ==
    ASSUME NEW tree, Sized(tree)
    PROVE  ArchiveBytes(tree) \in Nat
    <1> DEFINE S == {q \in DOMAIN tree : tree[q] # Dir}
               f == [p \in S |-> Len(tree[p])]
    <1>1. IsFiniteSet(S) /\ DOMAIN f = S /\ \A p \in S : f[p] \in Nat
        BY FS_Subset DEF Sized
    <1>2. TotalBytes(tree) = SumFunction(f)
        BY DEF TotalBytes
    <1> HIDE DEF S, f
    <1>3. PICK g : Recursion("content", f, 0, S, g) /\ SumFunction(f) = g[S]
        BY <1>1, ContentFold
    <1>4. Takes("content", S)
        BY DEF Takes, Taken, Pick
    <1>5. \A i \in S, y \in Nat : Grown("content", f, i, y) \in Nat
        BY <1>1 DEF Grown
    <1>6. KeptBy("content", f, S, g, Nat)
        BY <1>5 DEF KeptBy
    <1>8. g[S] \in Nat
        BY <1>1, <1>3, <1>4, <1>6, RecursionKeeps
    <1>7. Cardinality(DOMAIN tree) \in Nat
        BY FS_CardinalityType DEF Sized
    <1> QED
        BY <1>2, <1>3, <1>7, <1>8 DEF ArchiveBytes

(* The tree of the editing steps.                                          *)
LEMMA EditsSized ==
    ASSUME NEW t, Sized(t), NEW p
    PROVE  /\ Sized(Prune(t, p))
           /\ Len(p) \in Nat => Sized(WithParents(t, p))
           /\ \A node : node = Dir \/ Len(node) \in Nat => Sized(Put(t, p, node))
    <1>1. IsFiniteSet(DOMAIN t)
        BY DEF Sized
    <1>2. Sized(Prune(t, p))
        <2>1. IsFiniteSet(DOMAIN t \ Subtree(t, p))
            BY <1>1, FS_Difference
        <2> QED
            BY <2>1 DEF Prune, Sized
    <1>3. ASSUME Len(p) \in Nat PROVE Sized(WithParents(t, p))
        <2>1. IsFiniteSet(0..(Len(p) - 1))
            BY <1>3, FS_Interval
        <2> DEFINE f == [k \in 0..(Len(p) - 1) |-> SubSeq(p, 1, k)]
        <2>2. IsFiniteSet(Ancestors(p))
            <3>1. Ancestors(p) = {f[k] : k \in DOMAIN f}
                BY DEF Ancestors
            <3> QED
                BY <2>1, <3>1, FiniteImage
        <2>3. IsFiniteSet(DOMAIN t \cup Ancestors(p))
            BY <1>1, <2>2, FS_Union
        <2> QED
            BY <2>3 DEF WithParents, Sized
    <1>4. ASSUME NEW node, node = Dir \/ Len(node) \in Nat PROVE Sized(Put(t, p, node))
        <2>1. IsFiniteSet(DOMAIN t \cup {p})
            BY <1>1, FS_AddElement
        <2> QED
            BY <1>4, <2>1 DEF Put, Sized
    <1> QED
        BY <1>2, <1>3, <1>4

(* A version of a workspace that has a size.                               *)
VersionOK(v) == DOMAIN v = {"ok", "tree", "rev"} /\ Sized(v.tree)

LEMMA CommittedOK ==
    ASSUME NEW v, VersionOK(v), NEW may, NEW tree, may => Sized(tree)
    PROVE  VersionOK(Committed(v, may, tree))
    BY DEF Committed, Version, VersionOK

LEMMA StepsOK ==
    ASSUME NEW v, VersionOK(v), NEW p, Len(p) \in Nat
    PROVE  /\ VersionOK(MadeDirectory(v, p))
           /\ \A content : Len(content) \in Nat => VersionOK(Written(v, p, content))
    <1>1. Sized(WithParents(v.tree, p))
        BY EditsSized DEF VersionOK
    <1>2. Sized(Put(WithParents(v.tree, p), p, Dir))
        BY <1>1, EditsSized
    <1>3. VersionOK(MadeDirectory(v, p))
        BY <1>2, CommittedOK DEF MadeDirectory
    <1>4. ASSUME NEW content, Len(content) \in Nat PROVE VersionOK(Written(v, p, content))
        <2>1. Sized(Put(WithParents(v.tree, p), p, content))
            BY <1>1, <1>4, EditsSized
        <2> QED
            BY <2>1, CommittedOK DEF Written
    <1> QED
        BY <1>3, <1>4

-----------------------------------------------------------------------------
(* Plans are sequences, of whatever they were planned from.                *)

PlanOK(plan) == plan.files \in Seq(Entries) /\ plan.directories \in Seq(Seq(Segments))

LEMMA NormalizedOK ==
    ASSUME NEW path \in Seq(Segments)
    PROVE  Normalized(path) \in Seq(Segments)
    <1> DEFINE n == Len(path)
    <1>1. n \in Nat /\ DOMAIN path = 1..n /\ \A i \in 1..n : path[i] \in Segments
        OBVIOUS
    <1> HIDE DEF n
    <1>2. PICK g : Recursion("normalized", path, <<>>, 1..n, g) /\ Normalized(path) = g[1..n]
        BY <1>1, NormalizedFold
    <1>3. \A i \in 1..n, y \in Seq(Segments) : Grown("normalized", path, i, y) \in Seq(Segments)
        BY <1>1 DEF Grown
    <1>4. <<>> \in Seq(Segments)
        OBVIOUS
    <1>5. IsFiniteSet(1..n) /\ Takes("normalized", 1..n)
        BY <1>1, IndexTaken
    <1>6. KeptBy("normalized", path, 1..n, g, Seq(Segments))
        BY <1>3 DEF KeptBy
    <1>7. g[1..n] \in Seq(Segments)
        BY <1>2, <1>4, <1>5, <1>6, RecursionKeeps
    <1> QED
        BY <1>2, <1>7

LEMMA FilesOK ==
    ASSUME NEW planned \in Seq(Entries)
    PROVE  FilesOf(planned) \in Seq(Entries)
    <1> DEFINE n == Len(planned)
    <1>1. n \in Nat /\ DOMAIN planned = 1..n /\ \A i \in 1..n : planned[i] \in Entries
        OBVIOUS
    <1> HIDE DEF n
    <1>2. PICK g : Recursion("files", planned, <<>>, 1..n, g) /\ FilesOf(planned) = g[1..n]
        BY <1>1, FilesFold
    <1>3. \A i \in 1..n, y \in Seq(Entries) : Grown("files", planned, i, y) \in Seq(Entries)
        BY <1>1 DEF Grown
    <1>4. <<>> \in Seq(Entries)
        OBVIOUS
    <1>5. IsFiniteSet(1..n) /\ Takes("files", 1..n)
        BY <1>1, IndexTaken
    <1>6. KeptBy("files", planned, 1..n, g, Seq(Entries))
        BY <1>3 DEF KeptBy
    <1>7. g[1..n] \in Seq(Entries)
        BY <1>2, <1>4, <1>5, <1>6, RecursionKeeps
    <1> QED
        BY <1>2, <1>7

(* A finite set is listed by a sequence of its elements.                   *)
LEMMA ListedOK ==
    ASSUME NEW S, IsFiniteSet(S)
    PROVE  SetToSeq(S) \in Seq(S)
    <1> DEFINE n == Cardinality(S)
               e == SetToSeq(S)
    <1>1. n \in Nat /\ ExistsBijection(1..n, S)
        BY FS_CardinalityType
    <1>2. \E f \in [1..n -> S] : IsInjective(f)
        BY <1>1 DEF ExistsBijection, Bijection, Injection
    <1>3. e = CHOOSE f \in [1..n -> S] : IsInjective(f)
        BY DEF SetToSeq
    <1> HIDE DEF e, n
    <1>4. e \in [1..n -> S]
        BY <1>2, <1>3
    <1>5. e \in Seq(S)
        BY <1>1, <1>4
    <1> QED
        BY <1>5 DEF e

LEMMA DirectoriesOK ==
    ASSUME NEW S, NEW paths \in SUBSET S, IsFiniteSet(paths)
    PROVE  ByDepth(paths) \in Seq(S)
    <1> DEFINE n == MaxDepth
               pieces == [d \in 1..n |-> SetToSeq({p \in paths : Len(p) = d})]
    <1>1. n \in Nat /\ DOMAIN pieces = 1..n
        BY LimitsAssumption
    <1>2. ASSUME NEW d \in 1..n PROVE pieces[d] \in Seq(S)
        <2> DEFINE D == {p \in paths : Len(p) = d}
        <2>1. IsFiniteSet(D) /\ D \in SUBSET S
            BY FS_Subset
        <2> HIDE DEF D
        <2>2. SetToSeq(D) \in Seq(D)
            BY <2>1, ListedOK
        <2>3. SetToSeq(D) \in Seq(S)
            BY <2>1, <2>2
        <2> QED
            BY <2>3 DEF D
    <1>3. ByDepth(paths) = FoldLeft(\o, <<>>, pieces)
        BY DEF ByDepth
    <1> HIDE DEF n, pieces
    <1>4. PICK g : /\ Recursion("joined", pieces, <<>>, 1..n, g)
                   /\ FoldLeft(\o, <<>>, pieces) = g[1..n]
        BY <1>1, JoinedFold
    <1>5. \A i \in 1..n, y \in Seq(S) : Grown("joined", pieces, i, y) \in Seq(S)
        BY <1>2 DEF Grown
    <1>6. <<>> \in Seq(S)
        OBVIOUS
    <1>7. IsFiniteSet(1..n) /\ Takes("joined", 1..n)
        BY <1>1, IndexTaken
    <1>8. KeptBy("joined", pieces, 1..n, g, Seq(S))
        BY <1>5 DEF KeptBy
    <1>9. g[1..n] \in Seq(S)
        BY <1>4, <1>6, <1>7, <1>8, RecursionKeeps
    <1> QED
        BY <1>3, <1>4, <1>9

LEMMA PlanOfOK ==
    ASSUME NEW manifest, manifest.entries \in Seq(Entries)
    PROVE  PlanOK(PlanOf(manifest))
    <1> DEFINE entries == manifest.entries
               planned == [i \in DOMAIN entries |-> [entries[i] EXCEPT !.path = Normalized(@)]]
               n == Len(entries)
               paths == {e.path : e \in {d \in Range(planned) : d.kind = "dir"}}
    <1>1. n \in Nat /\ DOMAIN entries = 1..n /\ \A i \in 1..n : entries[i] \in Entries
        OBVIOUS
    <1>2. ASSUME NEW i \in 1..n PROVE planned[i] \in Entries
        <2>1. entries[i] \in Entries /\ Normalized(entries[i].path) \in Seq(Segments)
            BY <1>1, NormalizedOK DEF Entries
        <2> HIDE DEF entries, n
        <2> QED
            BY <1>1, <2>1 DEF Entries
    <1>3. planned \in Seq(Entries) /\ DOMAIN planned = 1..n
        <2> HIDE DEF entries, n
        <2>1. DOMAIN planned = 1..n
            BY <1>1
        <2> HIDE DEF planned
        <2>2. planned = [i \in 1..n |-> planned[i]]
            BY <2>1 DEF planned
        <2> QED
            BY <1>1, <1>2, <2>1, <2>2
    <1>4. PlanOf(manifest) = NoPlan \/ PlanOf(manifest) = [ok |-> TRUE, files |-> FilesOf(planned),
                                                         directories |-> ByDepth(paths)]
        BY DEF PlanOf
    <1> HIDE DEF entries, planned, n
    <1>5. IsFiniteSet(paths) /\ paths \in SUBSET Seq(Segments)
        <2>1. IsFiniteSet(DOMAIN planned)
            BY <1>1, <1>3, FS_Interval
        <2>2. Range(planned) = {planned[i] : i \in DOMAIN planned}
            BY DEF Range
        <2>3. IsFiniteSet(Range(planned)) /\ Range(planned) \subseteq Entries
            BY <1>2, <1>3, <2>1, <2>2, FiniteImage
        <2> DEFINE D == {d \in Range(planned) : d.kind = "dir"}
        <2>4. D \subseteq Range(planned)
            OBVIOUS
        <2>5. IsFiniteSet(D) /\ D \subseteq Entries
            BY <2>3, <2>4, FS_Subset
        <2> HIDE DEF D
        <2>6. IsFiniteSet({e.path : e \in D})
            <3> DEFINE f == [e \in D |-> e.path]
            <3>1. IsFiniteSet({f[e] : e \in DOMAIN f})
                BY <2>5, FiniteImage
            <3> QED
                BY <3>1
        <2>7. {e.path : e \in D} \subseteq Seq(Segments)
            BY <2>5 DEF Entries
        <2> QED
            BY <2>6, <2>7 DEF D
    <1> HIDE DEF paths
    <1>6. FilesOf(planned) \in Seq(Entries) /\ ByDepth(paths) \in Seq(Seq(Segments))
        BY <1>3, <1>5, FilesOK, DirectoriesOK
    <1>7. PlanOK(NoPlan)
        BY DEF PlanOK, NoPlan
    <1> QED
        BY <1>4, <1>6, <1>7 DEF PlanOK

(* The plans there are.                                                    *)
LEMMA PlansOK ==
    /\ \A m \in DOMAIN Manifests : PlanOK(ManifestPlans[m])
    /\ \A b \in DOMAIN Batches : PlanOK(BatchPlans[b])
    <1>1. ASSUME NEW m \in DOMAIN Manifests PROVE PlanOK(ManifestPlans[m])
        <2>1. PlanOK(PlanOf(Manifests[m]))
            BY CallersAssumption, PlanOfOK
        <2> QED
            BY <2>1 DEF ManifestPlans
    <1>2. ASSUME NEW b \in DOMAIN Batches PROVE PlanOK(BatchPlans[b])
        <2> DEFINE manifest == [supported |-> TRUE, entries |-> Batches[b]]
        <2>1. manifest.entries \in Seq(Entries)
            BY CallersAssumption
        <2>2. PlanOK(PlanOf(manifest))
            BY <2>1, PlanOfOK
        <2>3. PlanOK(NoPlan)
            BY DEF PlanOK, NoPlan
        <2>4. BatchPlanOf(Batches[b]) = PlanOf(manifest) \/ BatchPlanOf(Batches[b]) = NoPlan
            BY DEF BatchPlanOf
        <2> HIDE DEF manifest
        <2>5. PlanOK(BatchPlanOf(Batches[b]))
            BY <2>2, <2>3, <2>4
        <2> QED
            BY <2>5 DEF BatchPlans
    <1> QED
        BY <1>1, <1>2

(* A workspace with a size keeps one, whatever plan is applied to it.      *)
LEMMA DirectoriesSized ==
    ASSUME NEW plan, PlanOK(plan), NEW v, VersionOK(v)
    PROVE  VersionOK(MaterializedDirectories(v, plan))
    <1> DEFINE paths == plan.directories
               n == Len(paths)
    <1>1. n \in Nat /\ DOMAIN paths = 1..n /\ \A i \in 1..n : Len(paths[i]) \in Nat
        BY DEF PlanOK
    <1> HIDE DEF n
    <1>2. PICK g : /\ Recursion("directories", paths, v, 1..n, g)
                   /\ MaterializedDirectories(v, plan) = g[1..n]
        BY <1>1, DirectoriesFold
    <1> HIDE DEF paths
    <1> DEFINE Y == {y \in {g[s] : s \in SUBSET (1..n)} \cup {v} : VersionOK(y)}
    <1>3. ASSUME NEW i \in 1..n, NEW s \in SUBSET (1..n), NEW t \in SUBSET (1..n), g[s] \in Y,
                 g[t] = Grown("directories", paths, i, g[s])
          PROVE  g[t] \in Y
        <2>1. VersionOK(MadeDirectory(g[s], paths[i]))
            BY <1>1, <1>3, StepsOK
        <2>2. g[t] = MadeDirectory(g[s], paths[i])
            BY <1>3 DEF Grown
        <2> QED
            BY <2>1, <2>2
    <1>4. v \in Y
        OBVIOUS
    <1> HIDE DEF Y
    <1>5. IsFiniteSet(1..n) /\ Takes("directories", 1..n)
        BY <1>1, IndexTaken
    <1>6. KeptBy("directories", paths, 1..n, g, Y)
        BY <1>3 DEF KeptBy
    <1>7. g[1..n] \in Y
        BY <1>2, <1>4, <1>5, <1>6, RecursionKeeps
    <1> QED
        BY <1>2, <1>7 DEF Y

LEMMA SeedsSized ==
    ASSUME NEW plan, PlanOK(plan), NEW v, VersionOK(v)
    PROVE  VersionOK(Seeded(v, plan))
    <1> DEFINE files == plan.files
               n == Len(files)
    <1>1. n \in Nat /\ DOMAIN files = 1..n
        BY DEF PlanOK
    <1>2. \A i \in 1..n : Len(files[i].path) \in Nat /\ Len(files[i].content) \in Nat
        <2>1. \A i \in 1..n : files[i] \in Entries
            BY DEF PlanOK
        <2>2. \A e \in Entries : e.path \in Seq(Segments) /\ e.content \in Seq(Bytes)
            BY DEF Entries
        <2> HIDE DEF files, n
        <2> QED
            BY <2>1, <2>2
    <1> HIDE DEF n
    <1>3. PICK g : Recursion("seeds", files, v, 1..n, g) /\ Seeded(v, plan) = g[1..n]
        BY <1>1, SeedsFold
    <1> HIDE DEF files
    <1> DEFINE Y == {y \in {g[s] : s \in SUBSET (1..n)} \cup {v} : VersionOK(y)}
    <1>4. ASSUME NEW i \in 1..n, NEW s \in SUBSET (1..n), NEW t \in SUBSET (1..n), g[s] \in Y,
                 g[t] = Grown("seeds", files, i, g[s])
          PROVE  g[t] \in Y
        <2>1. VersionOK(Written(g[s], files[i].path, files[i].content))
            BY <1>2, <1>4, StepsOK
        <2>2. g[t] = Written(g[s], files[i].path, files[i].content)
            BY <1>4 DEF Grown
        <2> QED
            BY <2>1, <2>2
    <1>5. v \in Y
        OBVIOUS
    <1> HIDE DEF Y
    <1>6. IsFiniteSet(1..n) /\ Takes("seeds", 1..n)
        BY <1>1, IndexTaken
    <1>7. KeptBy("seeds", files, 1..n, g, Y)
        BY <1>4 DEF KeptBy
    <1>8. g[1..n] \in Y
        BY <1>3, <1>5, <1>6, <1>7, RecursionKeeps
    <1> QED
        BY <1>3, <1>8 DEF Y

LEMMA PristineOK == VersionOK(Pristine)
    <1>1. IsFiniteSet({Root})
        BY FS_Singleton
    <1> QED
        BY <1>1 DEF Pristine, Version, VersionOK, Sized

LEMMA MaterializedOK ==
    ASSUME NEW plan, PlanOK(plan), NEW v, VersionOK(v)
    PROVE  VersionOK(Materialized(v, plan))
    BY DirectoriesSized, SeedsSized DEF Materialized

-----------------------------------------------------------------------------
(* Every tree in the hands of the adapter has a size: of a sandbox that    *)
(* lives, of what a stop has exported, of what a manifest is applied to,   *)
(* and of an archive in the store; and every state names a manifest that a *)
(* create was called with.                                                 *)

Planned(state) == state.manifest \in DOMAIN Manifests

BoxesSized == \A b \in Boxes : Lives(b) => Sized(box[b].tree)
StopsSized == \A s \in Sessions : Stopping(s) => Sized(captured[s].tree)
AppliesSized ==
    \A s \in Sessions, j \in Tasks : applying[s][j] # NoApplication =>
        VersionOK(applying[s][j].base) /\ PlanOK(applying[s][j].plan)
StatesPlanned ==
    /\ saved # None => Planned(saved)
    /\ \A s \in Sessions : /\ Provided(s) => Planned(prov[s].state)
                           /\ call[s] # NoCall => Planned(call[s].state)
SnapshotsSized ==
    \A i \in DOMAIN snapshots :
        snapshots[i].draft.format = "portable" => Sized(snapshots[i].draft.tree)

SizeInv == BoxesSized /\ StopsSized /\ AppliesSized /\ StatesPlanned /\ SnapshotsSized

(* A step of s, part by part.                                              *)
MovesBoxes ==
    \/ UNCHANGED box
    \/ \E b, r : box' = [box EXCEPT ![b] = r] /\ (r.life = "live" => Sized(r.tree))
MovesStop(s) ==
    \/ UNCHANGED <<lock, captured>>
    \/ \E l, m : /\ lock' = [lock EXCEPT ![s] = l]
                 /\ captured' \in {captured, [captured EXCEPT ![s] = m]}
                 /\ l \in {"checking", "saving"} =>
                        \/ captured' = [captured EXCEPT ![s] = m] /\ Sized(m.tree)
                        \/ Stopping(s) /\ UNCHANGED captured
MovesApplication(s) ==
    \/ UNCHANGED applying
    \/ \E j \in Tasks : \E a :
          /\ applying' = [applying EXCEPT ![s][j] = a]
          /\ a = NoApplication \/ (VersionOK(a.base) /\ PlanOK(a.plan))
MovesCall(s) ==
    \/ UNCHANGED call
    \/ \E r : call' = [call EXCEPT ![s] = r] /\ (r = NoCall \/ Planned(r.state))
MovesProvider(s) ==
    \/ UNCHANGED prov
    \/ \E q : prov' = [prov EXCEPT ![s] = q] /\ (q = NoProvider \/ Planned(q.state))

MovesSized(s) ==
    /\ MovesBoxes /\ MovesStop(s) /\ MovesApplication(s) /\ MovesCall(s) /\ MovesProvider(s)
    /\ saved' = saved \/ Planned(saved')
    /\ SnapshotsSized'

LEMMA SizedStep ==
    ASSUME AInv, SizeInv, NEW s \in Sessions, MovesSized(s)
    PROVE  SizeInv'
    <1>1. BoxesSized'
        BY DEF MovesSized, MovesBoxes, SizeInv, BoxesSized, Lives, AInv, BoxInv
    <1>2. StopsSized'
        BY DEF MovesSized, MovesStop, SizeInv, StopsSized, Stopping, AInv, Domains
    <1>3. AppliesSized'
        <2>1. AppliesSized /\ MovesApplication(s)
            BY DEF MovesSized, SizeInv
        <2>2. CASE UNCHANGED applying
            BY <2>1, <2>2 DEF AppliesSized
        <2>3. ASSUME NEW j \in Tasks, NEW a, applying' = [applying EXCEPT ![s][j] = a],
                     a = NoApplication \/ (VersionOK(a.base) /\ PlanOK(a.plan))
              PROVE  AppliesSized'
            BY <2>1, <2>3, OneApplies DEF AppliesSized
        <2> QED
            BY <2>1, <2>2, <2>3 DEF MovesApplication
    <1>4. StatesPlanned'
        BY
           DEF MovesSized, MovesCall, MovesProvider, SizeInv, StatesPlanned, Provided, AInv, Domains
    <1> QED
        BY <1>1, <1>2, <1>3, <1>4 DEF MovesSized, SizeInv

(* The store, as far as it is about trees.                                 *)
LEMMA RemovesSized ==
    ASSUME SnapshotsSized, NEW ids, RemoveLocked(ids)
    PROVE  SnapshotsSized'
    BY DEF SnapshotsSized, RemoveLocked, Restrict

LEMMA LoadsSized ==
    ASSUME SnapshotsSized, NEW id, Load(id)
    PROVE  SnapshotsSized'
    BY RemovesSized DEF Load, SnapshotsSized, storeVars

LEMMA SavesSized ==
    ASSUME SnapshotsSized, NEW id, NEW draft, draft.format = "portable" => Sized(draft.tree),
           Save(id, draft)
    PROVE  SnapshotsSized'
    <1>1. CASE Accepts(id, draft)
        BY <1>1 DEF Save, SnapshotsSized
    <1>2. CASE ~Accepts(id, draft)
        BY <1>2, RemovesSized DEF Save
    <1> QED
        BY <1>1, <1>2

LEMMA StoreRests ==
    ASSUME SnapshotsSized, UNCHANGED storeVars
    PROVE  SnapshotsSized'
    BY DEF SnapshotsSized, storeVars

(* A sandbox that lives is a workspace with a size.                        *)
LEMMA WorkspaceOK ==
    ASSUME AInv, SizeInv, NEW b \in Boxes, Lives(b)
    PROVE  /\ DOMAIN box[b] = BoxFields /\ Sized(box[b].tree)
           /\ \A rev : VersionOK(Version(box[b].tree, rev))
    <1>1. box[b] # NoBox
        BY DEF Lives, NoBox
    <1> QED
        BY <1>1 DEF AInv, BoxInv, IsBox, SizeInv, BoxesSized, VersionOK, Version

(* A sandbox that is made, or is done with.                                *)
LEMMA MadeSized ==
    /\ \A b, v : NewBox(b, v) /\ Sized(v.tree) => MovesBoxes
    /\ \A b : Doom(b) => MovesBoxes
    <1>1. ASSUME NEW b, NEW v, NewBox(b, v), Sized(v.tree) PROVE MovesBoxes
        <2> DEFINE r == Box("live", v)
        <2>1. r.tree = v.tree /\ box' = [box EXCEPT ![b] = r]
            BY <1>1 DEF Box, NewBox
        <2> HIDE DEF r
        <2> QED
            BY <1>1, <2>1 DEF MovesBoxes
    <1>2. ASSUME NEW b, Doom(b) PROVE MovesBoxes
        <2> DEFINE r == Box("gone", Pristine)
        <2>1. r.life = "gone" /\ box' = [box EXCEPT ![b] = r]
            BY <1>2 DEF Box, Doom
        <2> HIDE DEF r
        <2> QED
            BY <2>1 DEF MovesBoxes
    <1> QED
        BY <1>1, <1>2

(* The steps of a client call.                                             *)
LEMMA ClientStepSized ==
    ASSUME AInv, SizeInv, NEW s \in Sessions, ClientStep(s)
    PROVE  MovesSized(s)
    <1>1. SnapshotsSized /\ StatesPlanned
        BY DEF SizeInv
    <1>2. ASSUME NEW m \in DOMAIN Manifests, NEW id, Create(s, m, id) PROVE MovesSized(s)
        <2>1. SnapshotsSized'
            BY <1>1, <1>2, LoadsSized DEF Create
        <2> DEFINE r == [stage |-> "allocate", resumes |-> FALSE, state |-> FreshState(m, id),
                         box |-> None]
        <2>2. Planned(r.state) /\ (call' = call \/ call' = [call EXCEPT ![s] = r])
            BY <1>2 DEF Create, Planned, FreshState
        <2> HIDE DEF r
        <2>3. MovesCall(s)
            BY <2>2 DEF MovesCall
        <2> QED
            BY <1>2, <2>1, <2>3 DEF Create, MovesSized, MovesBoxes, MovesStop, MovesApplication,
                                    MovesProvider
    <1>3. ASSUME NEW st \in States, NEW at, Resume(s, st, at) PROVE MovesSized(s)
        <2>1. Planned(st)
            BY <1>1 DEF States, StatesPlanned
        <2>2. SnapshotsSized'
            BY <1>1, <1>3, LoadsSized, StoreRests DEF Resume
        <2> DEFINE r == [stage |-> "allocate", resumes |-> TRUE, state |-> st, box |-> None]
                   q == Provider(at, st, TRUE, FALSE)
        <2>3. /\ r.state = st /\ q.state = st
              /\ call' = call \/ call' = [call EXCEPT ![s] = r]
              /\ prov' = prov \/ prov' = [prov EXCEPT ![s] = q]
            BY <1>3 DEF Resume, Provider
        <2> HIDE DEF r, q
        <2>4. MovesCall(s) /\ MovesProvider(s)
            BY <2>1, <2>3 DEF MovesCall, MovesProvider
        <2> QED
            BY <1>3, <2>2, <2>4 DEF Resume, MovesSized, MovesBoxes, MovesStop, MovesApplication
    <1>4. ASSUME NEW b, Allocate(s, b) PROVE MovesSized(s)
        <2> DEFINE m == call[s].state.manifest
                   v == Seeded(Pristine, ManifestPlans[m])
                   r == [call[s] EXCEPT !.stage = "materialize", !.box = b]
        <2>1. call[s] # NoCall
            BY <1>4 DEF Allocate, Calling, NoCall
        <2>2. m \in DOMAIN Manifests /\ DOMAIN call[s] = CallFields
            BY <1>1, <2>1 DEF StatesPlanned, Planned, AInv, SessionOK, CallOK
        <2>3. NewBox(b, v) /\ call' = [call EXCEPT ![s] = r]
            BY <1>4 DEF Allocate
        <2>4. r.state = call[s].state
            BY <2>2 DEF CallFields
        <2>5. PlanOK(ManifestPlans[m])
            BY <2>2, PlansOK
        <2> HIDE DEF m, r
        <2>6. Sized(v.tree)
            BY <2>5, PristineOK, SeedsSized DEF VersionOK
        <2> HIDE DEF v
        <2>7. MovesBoxes
            BY <2>3, <2>6, MadeSized
        <2>8. MovesCall(s)
            BY <1>1, <2>1, <2>3, <2>4 DEF MovesCall, StatesPlanned
        <2>9. SnapshotsSized'
            BY <1>1, <1>4, StoreRests DEF Allocate
        <2> QED
            BY <1>4, <2>7, <2>8, <2>9 DEF Allocate, MovesSized, MovesStop, MovesApplication,
                                          MovesProvider
    <1>5. ASSUME HandOut(s) PROVE MovesSized(s)
        <2> DEFINE b == call[s].box
                   m == call[s].state.manifest
                   v == MaterializedDirectories(Version(box[b].tree, box[b].rev), ManifestPlans[m])
                   r == [box[b] EXCEPT !.tree = v.tree, !.rev = v.rev]
                   st == [call[s].state EXCEPT !.handle = b, !.session = b]
                   q == Provider(b, st, FALSE, call[s].resumes)
        <2>1. call[s] # NoCall /\ call[s].stage = "materialize" /\ Lives(b)
            BY <1>5 DEF HandOut, Calling, NoCall
        <2>2. /\ m \in DOMAIN Manifests /\ DOMAIN call[s].state = StateFields
              /\ b \in Boxes
            BY <1>1, <2>1 DEF StatesPlanned, Planned, AInv, SessionOK, CallOK, StateOK, Drawn
        <2>3. /\ box' = [box EXCEPT ![b] = r] /\ prov' = [prov EXCEPT ![s] = q]
              /\ call' = [call EXCEPT ![s] = NoCall]
            BY <1>5 DEF HandOut
        <2>4. st.manifest = m /\ q.state = st
            BY <2>2 DEF StateFields, Provider
        <2>5. PlanOK(ManifestPlans[m])
            BY <2>2, PlansOK
        <2> HIDE DEF m, q, st
        <2>6. /\ VersionOK(Version(box[b].tree, box[b].rev))
              /\ DOMAIN box[b] = BoxFields
            BY <2>1, <2>2, WorkspaceOK
        <2>7. Sized(v.tree)
            BY <2>5, <2>6, DirectoriesSized DEF VersionOK
        <2> HIDE DEF v
        <2>8. Sized(r.tree)
            BY <2>6, <2>7 DEF BoxFields
        <2> HIDE DEF r, b
        <2>9. MovesBoxes /\ MovesProvider(s) /\ MovesCall(s)
            BY <2>2, <2>3, <2>4, <2>8 DEF MovesBoxes, MovesProvider, MovesCall, Planned
        <2>10. SnapshotsSized'
            BY <1>1, <1>5, StoreRests DEF HandOut
        <2> QED
            BY <1>5, <2>9, <2>10 DEF HandOut, MovesSized, MovesStop, MovesApplication
    <1>6. ASSUME AllocateFails(s) \/ HandOutFails(s) \/ Forget(s) PROVE MovesSized(s)
        <2>1. SnapshotsSized'
            BY <1>1, <1>6, StoreRests DEF AllocateFails, HandOutFails, Forget
        <2>2. MovesBoxes
            BY <1>6, MadeSized DEF AllocateFails, HandOutFails, Forget, MovesBoxes
        <2> QED
            BY <1>6, <2>1, <2>2 DEF AllocateFails, HandOutFails, Forget, lifecycle, MovesSized,
                    MovesStop, MovesApplication, MovesCall, MovesProvider
    <1> QED
        BY <1>2, <1>3, <1>4, <1>5, <1>6 DEF ClientStep

(* The steps of start, shutdown and delete, and the one in which a stop    *)
(* begins.                                                                 *)
LEMMA LifeStepSized ==
    ASSUME AInv, SizeInv, NEW s \in Sessions, LifeStep(s)
    PROVE  MovesSized(s)
    <1>1. SnapshotsSized /\ StatesPlanned /\ ProviderOK(s)
        BY DEF SizeInv, AInv, SessionOK
    <1>2. Available(s) => /\ Provided(s) /\ prov[s].box \in Boxes /\ Lives(prov[s].box)
        BY <1>1 DEF Available, ProviderOK, Drawn
    <1>3. ASSUME StartRestores(s) PROVE MovesSized(s)
        <2> DEFINE st == prov[s].state
                   archive == snapshots[st.snapshot].draft
                   old == box[prov[s].box]
                   cwd == Context(s).cwd
                   env == Context(s).env
                   work == st.moment.work
                   r == [old EXCEPT !.tree = archive.tree, !.rev = archive.rev, !.work = work,
                                    !.cwd = cwd, !.env = env]
        <2>1. \/ UNCHANGED box
              \/ Restorable(st) /\ Available(s) /\ box' = [box EXCEPT ![prov[s].box] = r]
            BY <1>3 DEF StartRestores, Hydratable, Hydrated
        <2>2. \E l : lock' = [lock EXCEPT ![s] = l] /\ l \notin {"checking", "saving"}
            BY <1>3 DEF StartRestores, SetLock
        <2>3. SnapshotsSized'
            BY <1>1, <1>3, LoadsSized DEF StartRestores
        <2>4. Restorable(st) => Sized(archive.tree)
            BY <1>1 DEF Restorable, Loads, SnapshotsSized
        <2>5. Available(s) => DOMAIN old = BoxFields
            BY <1>2, WorkspaceOK
        <2> HIDE DEF archive, old, cwd, env, work, st
        <2>6. Available(s) => r.tree = archive.tree
            BY <2>5 DEF BoxFields
        <2> HIDE DEF r
        <2>7. MovesBoxes
            BY <2>1, <2>4, <2>6 DEF MovesBoxes
        <2>8. UNCHANGED <<prov, call, captured, applying, saved>>
            BY <1>3 DEF StartRestores, lifecycle
        <2> QED
            BY <2>2, <2>3, <2>7, <2>8 DEF MovesSized, MovesStop, MovesApplication, MovesCall,
                                          MovesProvider
    <1>4. ASSUME StopBegins(s) PROVE MovesSized(s)
        <2> DEFINE m == Moment(prov[s].box)
        <2>1. Sized(m.tree)
            BY <1>2, <1>4, WorkspaceOK DEF StopBegins, Stops, Moment
        <2> HIDE DEF m
        <2>2. captured' = [captured EXCEPT ![s] = m] /\ \E l : lock' = [lock EXCEPT ![s] = l]
            BY <1>4 DEF StopBegins, SetLock, m
        <2>4. MovesStop(s)
            BY <2>1, <2>2 DEF MovesStop
        <2>5. SnapshotsSized'
            BY <1>1, <1>4, StoreRests DEF StopBegins
        <2> QED
            BY <1>4, <2>4, <2>5 DEF StopBegins, MovesSized, MovesBoxes, MovesApplication,
                                    MovesCall, MovesProvider
    <1>5. ASSUME SnapshotLost(s) PROVE MovesSized(s)
        <2>1. /\ Stopping(s) /\ lock' = [lock EXCEPT ![s] = "saving"]
              /\ UNCHANGED <<box, prov, call, captured, applying, saved>>
            BY <1>5 DEF SnapshotLost, SetLock, Holds, Stopping, lifecycle
        <2>2. SnapshotsSized'
            BY <1>1, <1>5, LoadsSized DEF SnapshotLost
        <2> QED
            BY <2>1, <2>2 DEF MovesSized, MovesBoxes, MovesStop, MovesApplication, MovesCall,
                              MovesProvider
    <1>6. ASSUME StartBegins(s) \/ StartPreserved(s) \/ StartChecks(s) \/ StartBreaks(s)
                 \/ DeleteBegins(s) \/ DeleteFails(s)
          PROVE  MovesSized(s)
        <2>1. \E l : lock' = [lock EXCEPT ![s] = l] /\ l \notin {"checking", "saving"}
            BY <1>6 DEF StartBegins, StartPreserved, StartChecks, StartBreaks, DeleteBegins,
                        DeleteFails, SetLock
        <2>2. UNCHANGED <<prov, call, captured, applying, saved>>
            BY <1>6 DEF StartBegins, StartPreserved, StartChecks, StartBreaks, DeleteBegins,
                        DeleteFails, lifecycle
        <2>3. SnapshotsSized'
            BY <1>1, <1>6, LoadsSized, StoreRests
               DEF StartBegins, StartPreserved, StartChecks, StartBreaks, DeleteBegins, DeleteFails
        <2>4. MovesBoxes
            BY <1>6, MadeSized DEF StartBegins, StartPreserved, StartChecks, StartBreaks,
                                   DeleteBegins, DeleteFails, MovesBoxes
        <2> QED
            BY <2>1, <2>2, <2>3, <2>4 DEF MovesSized, MovesStop, MovesApplication, MovesCall,
                                          MovesProvider
    <1>7. ASSUME \/ StartEnds(s) \/ Shutdown(s) \/ DeleteEnds(s)
                 \/ \E done, closed \in BOOLEAN : StartFails(s, done, closed)
          PROVE  MovesSized(s)
        <2>1. Provided(s)
            BY <1>1, <1>7 DEF ProviderOK, StartEnds, Shutdown, DeleteEnds, StartFails, Holds
        <2>2. DOMAIN prov[s] = ProviderFields /\ Planned(prov[s].state)
            BY <1>1, <2>1 DEF ProviderOK, StatesPlanned
        <2> DEFINE Same(q) == q.state = prov[s].state
        <2>3. /\ Same([prov[s] EXCEPT !.cleanup = FALSE, !.started = TRUE])
              /\ Same([prov[s] EXCEPT !.closed = TRUE])
              /\ Same([prov[s] EXCEPT !.deleted = TRUE])
              /\ \A done, closed : Same([prov[s] EXCEPT !.deleted = done, !.closed = closed])
            BY <2>2 DEF ProviderFields
        <2> HIDE DEF Same
        <2>4. UNCHANGED prov \/ \E q : prov' = [prov EXCEPT ![s] = q] /\ Same(q)
            BY <1>7, <2>3, Zenon DEF StartEnds, Shutdown, DeleteEnds, StartFails
        <2>5. MovesProvider(s)
            BY <2>2, <2>4 DEF MovesProvider, Same
        <2>6. \/ UNCHANGED lock
              \/ \E l : lock' = [lock EXCEPT ![s] = l] /\ l \notin {"checking", "saving"}
            BY <1>7 DEF StartEnds, Shutdown, DeleteEnds, StartFails, SetLock
        <2>7. UNCHANGED <<call, captured, applying, saved>>
            BY <1>7 DEF StartEnds, Shutdown, DeleteEnds, StartFails, lifecycle
        <2>8. SnapshotsSized'
            BY <1>1, <1>7, StoreRests DEF StartEnds, Shutdown, DeleteEnds, StartFails
        <2>9. MovesBoxes
            BY <1>7, MadeSized DEF StartEnds, Shutdown, DeleteEnds, StartFails, MovesBoxes
        <2> QED
            BY <2>5, <2>6, <2>7, <2>8, <2>9 DEF MovesSized, MovesStop, MovesApplication, MovesCall
    <1> QED
        BY <1>3, <1>4, <1>5, <1>6, <1>7 DEF LifeStep

(* The steps in which a stop ends.                                         *)
LEMMA StopStepSized ==
    ASSUME AInv, SizeInv, NEW s \in Sessions, StopStep(s)
    PROVE  MovesSized(s)
    <1>1. SnapshotsSized /\ StatesPlanned /\ ProviderOK(s)
        BY DEF SizeInv, AInv, SessionOK
    <1>2. /\ Stopping(s) /\ lock' = [lock EXCEPT ![s] = "free"]
          /\ captured' = [captured EXCEPT ![s] = None] /\ UNCHANGED <<box, call, applying>>
        BY DEF StopStep, PersistContext, PersistSnapshot, PersistUncertain, PersistFails, Holds,
               StopEnds, SetLock, Stopping
    <1>3. MovesBoxes /\ MovesStop(s) /\ MovesApplication(s) /\ MovesCall(s)
        <2>1. MovesBoxes /\ MovesApplication(s) /\ MovesCall(s)
            BY <1>2 DEF MovesBoxes, MovesApplication, MovesCall
        <2>2. \E l, m : /\ lock' = [lock EXCEPT ![s] = l]
                        /\ captured' \in {captured, [captured EXCEPT ![s] = m]}
                        /\ l \in {"checking", "saving"} =>
                               \/ captured' = [captured EXCEPT ![s] = m] /\ Sized(m.tree)
                               \/ Stopping(s) /\ UNCHANGED captured
            <3> WITNESS "free", None
            <3> QED
                BY <1>2
        <2> QED
            BY <2>1, <2>2 DEF MovesStop
    <1>4. Provided(s) /\ DOMAIN prov[s] = ProviderFields /\ DOMAIN prov[s].state = StateFields
          /\ Planned(prov[s].state)
        BY <1>1, <1>2 DEF ProviderOK, StateOK, StatesPlanned, Stopping
    <1>5. Sized(captured[s].tree)
        BY <1>2 DEF SizeInv, StopsSized
    <1>6. Sized(Draft(captured[s]).tree)
        BY <1>5 DEF Draft
    <1>7. ASSUME NEW st, Planned(st), prov' = [prov EXCEPT ![s].state = st] PROVE MovesProvider(s)
        <2> DEFINE q == [prov[s] EXCEPT !.state = st]
        <2>1. q.state = st /\ prov' = [prov EXCEPT ![s] = q]
            BY <1>4, <1>7 DEF ProviderFields
        <2> HIDE DEF q
        <2> QED
            BY <1>7, <2>1 DEF MovesProvider
    <1>8. ASSUME NEW keep, PersistContext(s, keep) PROVE MovesSized(s)
        <2> DEFINE m == captured[s]
                   st == [prov[s].state EXCEPT !.cwd = m.cwd, !.env = m.env, !.moment = m]
        <2>1. Planned(st)
            BY <1>4 DEF Planned, StateFields
        <2>2. prov' = [prov EXCEPT ![s].state = st] /\ (saved' = st \/ saved' = saved)
            BY <1>8 DEF PersistContext, Publish
        <2> HIDE DEF st
        <2>3. SnapshotsSized'
            BY <1>1, <1>8, StoreRests DEF PersistContext
        <2> QED
            BY <1>7, <1>3, <2>1, <2>2, <2>3 DEF MovesSized
    <1>9. ASSUME NEW keep, PersistSnapshot(s, keep) PROVE MovesSized(s)
        <2> DEFINE m == captured[s]
                   id == lastId + 1
                   data == [tree |-> m.tree, rev |-> m.rev]
                   st == [prov[s].state EXCEPT !.snapshot = id, !.metadata = data, !.cwd = m.cwd,
                                               !.env = m.env, !.moment = m]
        <2>1. Planned(st)
            BY <1>4 DEF Planned, StateFields
        <2>2. \/ UNCHANGED <<prov, saved>>
              \/ prov' = [prov EXCEPT ![s].state = st] /\ (saved' = st \/ saved' = saved)
            BY <1>9 DEF PersistSnapshot, Publish
        <2> HIDE DEF st
        <2>3. SnapshotsSized'
            BY <1>1, <1>6, <1>9, SavesSized DEF PersistSnapshot
        <2>4. MovesProvider(s)
            BY <1>7, <2>1, <2>2 DEF MovesProvider
        <2> QED
            BY <1>3, <2>1, <2>2, <2>3, <2>4 DEF MovesSized
    <1>10. ASSUME PersistUncertain(s) \/ PersistFails(s) PROVE MovesSized(s)
        <2>1. SnapshotsSized'
            BY <1>1, <1>6, <1>10, SavesSized, StoreRests DEF PersistUncertain, PersistFails
        <2> QED
            BY <1>10, <1>3, <2>1 DEF PersistUncertain, PersistFails, MovesSized, MovesProvider
    <1> QED
        BY <1>8, <1>9, <1>10 DEF StopStep

(* The operations on a workspace.                                          *)
LEMMA WorkStepSized ==
    ASSUME AInv, SizeInv, NEW s \in Sessions, WorkStep(s)
    PROVE  MovesSized(s)
    <1> DEFINE old == box[prov[s].box]
               cur == Current(s)
    <1>1. /\ Available(s) /\ UNCHANGED <<prov, lock, call, captured, applying, saved, storeVars>>
        BY DEF WorkStep, Write, Mkdir, Rm, Exec, HydrateWorkspace, Hydratable, WorkOn, Work,
               lifecycle
    <1>2. prov[s].box \in Boxes /\ Lives(prov[s].box)
        BY <1>1 DEF Available, AInv, SessionOK, ProviderOK, Drawn
    <1>3. DOMAIN old = BoxFields /\ Sized(old.tree) /\ VersionOK(cur) /\ cur.tree = old.tree
        BY <1>2, WorkspaceOK DEF Current, Version
    <1>4. SnapshotsSized'
        BY <1>1, StoreRests DEF SizeInv
    <1>5. ASSUME NEW r, DOMAIN r = BoxFields, Sized(r.tree), Work(s, r) PROVE MovesBoxes
        <2> DEFINE q == [r EXCEPT !.work = @ + 1]
        <2>1. q.tree = r.tree /\ box' = [box EXCEPT ![prov[s].box] = q]
            BY <1>5 DEF BoxFields, Work
        <2> HIDE DEF q
        <2> QED
            BY <1>5, <2>1 DEF MovesBoxes
    <1>6. ASSUME NEW v, VersionOK(v), WorkOn(s, v) PROVE MovesBoxes
        <2> DEFINE r == [old EXCEPT !.tree = v.tree, !.rev = v.rev]
        <2>1. Work(s, r)
            BY <1>6 DEF WorkOn
        <2> HIDE DEF old
        <2>2. DOMAIN r = BoxFields /\ r.tree = v.tree
            BY <1>3 DEF BoxFields
        <2> HIDE DEF r
        <2> QED
            BY <1>5, <1>6, <2>1, <2>2 DEF VersionOK
    <1> HIDE DEF old, cur
    <1>7. ASSUME NEW p \in Targets PROVE Len(Normalized(p)) \in Nat
        <2>1. Normalized(p) \in Seq(Segments)
            BY CallersAssumption, NormalizedOK
        <2> QED
            BY <2>1
    <1>8. ASSUME NEW p \in Targets, NEW content \in Contents, Write(s, p, content)
          PROVE  MovesBoxes
        <2>1. Len(content) \in Nat
            <3>1. content \in Seq(Bytes)
                BY CallersAssumption
            <3> QED
                BY <3>1
        <2>2. VersionOK(Written(cur, Normalized(p), content))
            BY <1>3, <1>7, <2>1, StepsOK
        <2> QED
            BY <1>6, <1>8, <2>2 DEF Write, cur
    <1>9. ASSUME NEW p \in Targets, NEW flag, Mkdir(s, p, flag) PROVE MovesBoxes
        <2>1. VersionOK(MadeDirectory(cur, Normalized(p)))
            BY <1>3, <1>7, StepsOK
        <2> QED
            BY <1>6, <1>9, <2>1 DEF Mkdir, cur
    <1>10. ASSUME NEW p \in Targets, NEW flag, Rm(s, p, flag) PROVE MovesBoxes
        <2>1. Sized(Prune(cur.tree, Normalized(p)))
            BY <1>3, EditsSized
        <2>2. VersionOK(Committed(cur, TRUE, Prune(cur.tree, Normalized(p))))
            BY <1>3, <2>1, CommittedOK
        <2> QED
            BY <1>6, <1>10, <2>2 DEF Rm, cur
    <1>11. ASSUME NEW p, NEW env, Exec(s, p, env) PROVE MovesBoxes
        <2> DEFINE r == [old EXCEPT !.cwd = p, !.env = env]
        <2>1. Work(s, r)
            BY <1>11 DEF Exec, old
        <2>2. DOMAIN r = BoxFields /\ r.tree = old.tree
            BY <1>3 DEF BoxFields
        <2> HIDE DEF r
        <2> QED
            BY <1>3, <1>5, <2>1, <2>2
    <1>12. ASSUME NEW archive \in Archives, NEW raw, HydrateWorkspace(s, archive, raw)
           PROVE  MovesBoxes
        <2> DEFINE claimed == Claimed(s, archive, raw)
                   rev == claimed.rev
                   cwd == Context(s).cwd
                   env == Context(s).env
                   work == old.work
                   r == [old EXCEPT !.tree = archive.tree, !.rev = rev, !.work = work,
                                    !.cwd = cwd, !.env = env]
        <2>1. Work(s, r)
            <3>1. claimed.tree = archive.tree
                BY DEF Claimed
            <3>2. Work(s, Hydrated(s, claimed, work))
                BY <1>12 DEF HydrateWorkspace, old
            <3> QED
                BY <3>1, <3>2 DEF Hydrated, old
        <2> HIDE DEF claimed, rev, cwd, env, work
        <2>2. DOMAIN r = BoxFields /\ r.tree = archive.tree
            BY <1>3 DEF BoxFields
        <2> HIDE DEF r
        <2>3. Sized(archive.tree)
            <3>1. \A content \in Seq(Bytes) : Len(content) \in Nat
                OBVIOUS
            <3> QED
                BY <3>1, CallersAssumption DEF Sized
        <2> QED
            BY <1>5, <2>1, <2>2, <2>3
    <1>13. MovesBoxes
        BY <1>8, <1>9, <1>10, <1>11, <1>12 DEF WorkStep
    <1> QED
        BY <1>1, <1>4, <1>13 DEF MovesSized, MovesStop, MovesApplication, MovesCall, MovesProvider

(* The steps of the application of a manifest.                             *)
LEMMA ManifestStepSized ==
    ASSUME AInv, SizeInv, NEW s \in Sessions, NEW j \in Tasks, ManifestStep(s, j)
    PROVE  MovesSized(s)
    <1> DEFINE a == applying[s][j]
    <1>1. a # NoApplication => /\ DOMAIN a = ApplicationFields /\ ProviderOK(s) /\ Provided(s)
                               /\ VersionOK(a.base) /\ PlanOK(a.plan)
        BY DEF AInv, SessionOK, ApplyOK, ApplicationOK, SizeInv, AppliesSized
    <1>2. ASSUME UNCHANGED aside, MovesBoxes, MovesApplication(s) PROVE MovesSized(s)
        <2>1. SnapshotsSized'
            BY <1>2, StoreRests DEF SizeInv, aside
        <2> QED
            BY <1>2, <2>1 DEF aside, MovesSized, MovesStop, MovesCall, MovesProvider
    <1>3. ASSUME NEW plan, PlanOK(plan), Available(s), ApplyBegins(s, j, plan) PROVE MovesSized(s)
        <2> DEFINE r == [stage |-> "create", base |-> Current(s), plan |-> plan,
                         box |-> None, result |-> None]
        <2>1. prov[s].box \in Boxes /\ Lives(prov[s].box)
            BY <1>3 DEF Available, AInv, SessionOK, ProviderOK, Drawn
        <2>2. VersionOK(Current(s))
            BY <2>1, WorkspaceOK DEF Current
        <2>3. /\ VersionOK(r.base) /\ PlanOK(r.plan)
              /\ applying' = [applying EXCEPT ![s][j] = r] /\ UNCHANGED <<box, aside>>
            BY <1>3, <2>2 DEF ApplyBegins, SetApplying
        <2> HIDE DEF r
        <2> QED
            BY <1>2, <2>3 DEF MovesBoxes, MovesApplication
    <1>4. ASSUME ApplyManifest(s, j) PROVE MovesSized(s)
        <2>1. Available(s) /\ ApplyBegins(s, j, ManifestPlans[prov[s].state.manifest])
            BY <1>4 DEF ApplyManifest
        <2>2. prov[s].state.manifest \in DOMAIN Manifests
            BY <2>1 DEF Available, SizeInv, StatesPlanned, Planned
        <2> QED
            BY <1>3, <2>1, <2>2, PlansOK
    <1>5. ASSUME NEW batch \in DOMAIN Batches, ApplyEntryBatch(s, j, batch) PROVE MovesSized(s)
        BY <1>3, <1>5, PlansOK DEF ApplyEntryBatch
    <1>6. ASSUME NEW b, ApplyStages(s, j, b) PROVE MovesSized(s)
        <2> DEFINE r == [a EXCEPT !.stage = "build", !.box = b]
        <2>1. NewBox(b, Pristine) /\ UNCHANGED aside /\ a # NoApplication
              /\ applying' = [applying EXCEPT ![s][j] = r]
            BY <1>6 DEF ApplyStages, SetApplying, Applying, NoApplication
        <2>2. r.base = a.base /\ r.plan = a.plan
            BY <1>1, <2>1 DEF ApplicationFields
        <2> HIDE DEF r, a
        <2>3. MovesBoxes
            BY <2>1, PristineOK, MadeSized DEF VersionOK
        <2> QED
            BY <1>1, <1>2, <2>1, <2>2, <2>3 DEF MovesApplication
    <1>7. ASSUME ApplyBuilds(s, j) PROVE MovesSized(s)
        <2> DEFINE v == Materialized(a.base, a.plan)
                   r == [a EXCEPT !.stage = "publish", !.result = v]
        <2>1. Doom(a.box) /\ UNCHANGED aside /\ a # NoApplication
              /\ applying' = [applying EXCEPT ![s][j] = IF v.ok THEN r ELSE NoApplication]
            BY <1>7 DEF ApplyBuilds, SetApplying, Applying, NoApplication
        <2>2. r.base = a.base /\ r.plan = a.plan
            BY <1>1, <2>1 DEF ApplicationFields
        <2> HIDE DEF r, v, a
        <2>3. MovesBoxes
            BY <2>1, MadeSized
        <2>4. CASE v.ok
            BY <1>1, <1>2, <2>1, <2>2, <2>3, <2>4 DEF MovesApplication
        <2>5. CASE ~v.ok
            BY <1>2, <2>1, <2>3, <2>5 DEF MovesApplication
        <2> QED
            BY <2>4, <2>5
    <1>8. ASSUME ApplyRefused(s, j) \/ ApplyBreaks(s, j) \/ ApplyRaises(s, j) PROVE MovesSized(s)
        <2>1. /\ UNCHANGED aside /\ applying' = [applying EXCEPT ![s][j] = NoApplication]
              /\ UNCHANGED box \/ Doom(a.box)
            BY <1>8 DEF ApplyRefused, ApplyBreaks, ApplyRaises, SetApplying
        <2>2. MovesBoxes
            BY <2>1, MadeSized DEF MovesBoxes
        <2> QED
            BY <1>2, <2>1, <2>2 DEF MovesApplication
    <1>9. ASSUME ApplyPublishes(s, j) PROVE MovesSized(s)
        <2> DEFINE b == prov[s].box
                   tree == a.result.tree
                   rev == a.result.rev
                   r == [box[b] EXCEPT !.tree = tree, !.rev = rev]
        <2>1. /\ UNCHANGED aside /\ a # NoApplication /\ a.stage = "publish"
              /\ applying' = [applying EXCEPT ![s][j] = NoApplication]
              /\ UNCHANGED box \/ (Lives(b) /\ box' = [box EXCEPT ![b] = r])
            BY <1>9 DEF ApplyPublishes, SetApplying, Applying, NoApplication
        <2>2. a.result = Materialized(a.base, a.plan)
            BY <2>1 DEF AInv, SessionOK, ApplyOK, ApplicationOK
        <2>3. Sized(tree)
            BY <1>1, <2>1, <2>2, MaterializedOK DEF VersionOK
        <2>4. b \in Boxes
            BY <1>1, <2>1 DEF ProviderOK, Drawn
        <2> HIDE DEF a, b, tree, rev
        <2>5. Lives(b) => Sized(r.tree)
            BY <2>3, <2>4, WorkspaceOK DEF BoxFields
        <2> HIDE DEF r
        <2>6. MovesBoxes
            BY <2>1, <2>5 DEF MovesBoxes
        <2> QED
            BY <1>2, <2>1, <2>6 DEF MovesApplication
    <1> QED
        BY <1>4, <1>5, <1>6, <1>7, <1>8, <1>9 DEF ManifestStep

(* What others do.                                                         *)
LEMMA OthersSized ==
    ASSUME AInv, SizeInv, Others
    PROVE  SizeInv'
    <1>1. MovesBoxes /\ SnapshotsSized' /\ UNCHANGED <<call, prov, lock, captured, applying,
    saved>>
        <2>1. SnapshotsSized
            BY DEF SizeInv
        <2>2. ASSUME NEW b, Evict(b) PROVE MovesBoxes /\ SnapshotsSized'
            BY <2>1, <2>2, MadeSized, StoreRests DEF Evict
        <2>3. ASSUME SaveForeign PROVE SnapshotsSized'
            <3>1. Foreign.format # "portable"
                BY DEF Foreign
            <3> QED
                BY <2>1, <2>3, <3>1, SavesSized DEF SaveForeign
        <2>4. Tick => SnapshotsSized'
            BY <2>1 DEF Tick, SnapshotsSized
        <2>5. PurgeExpired \/ (\E id \in DOMAIN snapshots : DeleteSnapshot(id)) => SnapshotsSized'
            BY <2>1, RemovesSized DEF PurgeExpired, DeleteSnapshot
        <2> QED
            BY <2>2, <2>3, <2>4, <2>5 DEF Others, Evict, SaveForeign, sdk, MovesBoxes
    <1>2. BoxesSized'
        BY <1>1 DEF MovesBoxes, SizeInv, BoxesSized, Lives, AInv, BoxInv
    <1> QED
        BY <1>1, <1>2
           DEF SizeInv, StopsSized, Stopping, AppliesSized, StatesPlanned, Planned, Provided

LEMMA SizeInit ==
    ASSUME Init
    PROVE  SizeInv
    <1>1. BoxesSized
        BY DEF Init, BoxesSized, Lives, NoBox
    <1>2. StopsSized /\ AppliesSized /\ StatesPlanned
        BY DEF Init, StopsSized, Stopping, AppliesSized, StatesPlanned, Provided
    <1>3. SnapshotsSized
        BY DEF Init, StoreInit, SnapshotsSized
    <1> QED
        BY <1>1, <1>2, <1>3 DEF SizeInv

LEMMA SizeStepInv == AInv /\ SizeInv /\ [Next]_vars => SizeInv'
    <1> SUFFICES ASSUME AInv, SizeInv, [Next]_vars PROVE SizeInv'
        OBVIOUS
    <1>1. CASE UNCHANGED vars
        BY <1>1 DEF vars, sdk, storeVars, SizeInv, BoxesSized, Lives, StopsSized, Stopping,
                    AppliesSized, StatesPlanned, Planned, Provided, SnapshotsSized
    <1>2. ASSUME NEW s \in Sessions,
                 \/ ClientStep(s) \/ LifeStep(s) \/ StopStep(s)
                 \/ WorkStep(s) \/ \E j \in Tasks : ManifestStep(s, j)
          PROVE  SizeInv'
        BY <1>2, ClientStepSized, LifeStepSized, StopStepSized, WorkStepSized, ManifestStepSized,
           SizedStep
    <1> QED
        BY <1>1, <1>2, NextCases, OthersSized

(* Every tree the adapter has in hand is finite, and so is every file in   *)
(* it: whatever plans, archives and writes it was made by.                 *)
THEOREM TreesSized == Spec => []SizeInv
    <1>1. Init => SizeInv
        BY SizeInit
    <1>2. Spec => []AInv
        BY AdapterInvariant
    <1> QED
        BY <1>1, <1>2, SizeStepInv, PTL DEF Spec

-----------------------------------------------------------------------------
(* The store in the hands of the adapter.                                  *)

(* What a stop has exported can be accounted for.                          *)
ExportsWeigh ==
    \A s \in Sessions : Stopping(s) => ArchiveBytes(captured[s].tree) \in Nat

LEMMA SizedWeighs == SizeInv => ExportsWeigh
    BY ArchiveWeighs DEF SizeInv, StopsSized, ExportsWeigh

(* A step of the adapter is, for the store, a step of one of its clients.  *)
LEMMA StepUsesStore ==
    ASSUME ExportsWeigh, [Next]_vars
    PROVE  [StoreNext]_storeVars
    <1>1. ASSUME NEW id, Load(id) PROVE StoreNext
        BY <1>1, Zenon DEF StoreNext
    <1>2. ASSUME NEW id, NEW draft, draft.bytes \in Nat, Save(id, draft) PROVE StoreNext
        BY <1>2, Zenon DEF StoreNext
    <1>3. ASSUME UNCHANGED vars PROVE UNCHANGED storeVars
        BY <1>3 DEF vars
    <1>4. CASE Others
        <2>1. Foreign.bytes \in Nat
            BY DEF Foreign
        <2>2. SaveForeign => StoreNext
            BY <1>2, <2>1 DEF SaveForeign
        <2>3. Tick \/ PurgeExpired \/ (\E id \in DOMAIN snapshots : DeleteSnapshot(id)) => StoreNext
            BY Zenon DEF StoreNext
        <2> QED
            BY <1>4, <2>2, <2>3 DEF Others, Evict
    <1>5. ASSUME NEW s \in Sessions, ClientStep(s) PROVE StoreNext \/ UNCHANGED storeVars
        BY <1>1, <1>5 DEF ClientStep, Create, Resume, Allocate, AllocateFails, HandOut,
                          HandOutFails, Forget
    <1>6. ASSUME NEW s \in Sessions, LifeStep(s) PROVE StoreNext \/ UNCHANGED storeVars
        <2>1. StartChecks(s) => StoreNext
            BY <1>1 DEF StartChecks
        <2>2. StartRestores(s) \/ SnapshotLost(s) => StoreNext
            BY <1>1 DEF StartRestores, SnapshotLost
        <2>3. ASSUME NEW done, NEW closed, StartFails(s, done, closed) PROVE UNCHANGED storeVars
            BY <2>3 DEF StartFails
        <2>4. StartBegins(s) \/ StartPreserved(s) \/ StartEnds(s) \/ StartBreaks(s) =>
                  UNCHANGED storeVars
            BY DEF StartBegins, StartPreserved, StartEnds, StartBreaks
        <2>5. StopBegins(s) \/ Shutdown(s) \/ DeleteBegins(s) \/ DeleteEnds(s) \/ DeleteFails(s) =>
                  UNCHANGED storeVars
            BY DEF StopBegins, Shutdown, DeleteBegins, DeleteEnds, DeleteFails
        <2> QED
            BY <1>6, <2>1, <2>2, <2>3, <2>4, <2>5, Zenon DEF LifeStep
    <1>7. ASSUME NEW s \in Sessions, StopStep(s) PROVE StoreNext \/ UNCHANGED storeVars
        <2>1. Stopping(s) => Draft(captured[s]).bytes \in Nat
            BY DEF ExportsWeigh, Draft
        <2>2. ASSUME NEW keep, PersistSnapshot(s, keep) PROVE StoreNext
            BY <1>2, <2>1, <2>2 DEF PersistSnapshot, Holds, Stopping
        <2>3. PersistUncertain(s) => StoreNext
            BY <1>2, <2>1 DEF PersistUncertain, Holds, Stopping
        <2> QED
            BY <1>7, <2>2, <2>3 DEF StopStep, PersistContext, PersistFails
    <1>8. ASSUME NEW s \in Sessions, WorkStep(s) PROVE UNCHANGED storeVars
        BY <1>8 DEF WorkStep, Write, Mkdir, Rm, Exec, HydrateWorkspace, WorkOn, Work
    <1>9. ASSUME NEW s \in Sessions, NEW j \in Tasks, ManifestStep(s, j) PROVE UNCHANGED storeVars
        <2>1. ASSUME NEW plan, ApplyBegins(s, j, plan) PROVE UNCHANGED aside
            BY <2>1 DEF ApplyBegins
        <2>2. ASSUME NEW b, ApplyStages(s, j, b) PROVE UNCHANGED aside
            BY <2>2 DEF ApplyStages
        <2>3. ApplyRefused(s, j) \/ ApplyBuilds(s, j) \/ ApplyBreaks(s, j) => UNCHANGED aside
            BY DEF ApplyRefused, ApplyBuilds, ApplyBreaks
        <2>4. ApplyRaises(s, j) \/ ApplyPublishes(s, j) => UNCHANGED aside
            BY DEF ApplyRaises, ApplyPublishes
        <2>5. UNCHANGED aside
            BY <1>9, <2>1, <2>2, <2>3, <2>4, Zenon
               DEF ManifestStep, ApplyManifest, ApplyEntryBatch
        <2> QED
            BY <2>5 DEF aside
    <1> QED
        BY <1>3, <1>4, <1>5, <1>6, <1>7, <1>8, <1>9, NextCases

(* The adapter keeps the store's account, whatever the host calls, in      *)
(* whatever order, and whatever fails.                                     *)
THEOREM AdapterStoreAccounted == Spec => []StoreAccounting
    <1>1. Init => StoreInit
        BY DEF Init
    <1>2. SizeInv /\ [Next]_vars => [StoreNext]_storeVars
        BY SizedWeighs, StepUsesStore
    <1>3. Spec => StoreInit /\ [][StoreNext]_storeVars
        BY <1>1, <1>2, TreesSized, PTL DEF Spec
    <1> QED
        BY <1>3, StoreAccounted, PTL DEF StoreSpec
=============================================================================
