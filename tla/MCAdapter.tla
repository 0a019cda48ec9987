----------------------------- MODULE MCAdapter -----------------------------
(* The adapter for TLC: two provider sessions over two sandboxes, or one   *)
(* whose two staging sandboxes are there at once.                          *)
EXTENDS AgentsAdapter

CONSTANTS na, nb, x, s1, s2, t1, t2

Dirent(path) == [path |-> path, kind |-> "dir", content |-> <<>>, plain |-> TRUE]
File(path, content) == [path |-> path, kind |-> "file", content |-> content, plain |-> TRUE]
Manifest(entries) == [supported |-> TRUE, entries |-> entries]

OneDirectory == <<Manifest(<<Dirent(<<na>>)>>)>>
OneFile == << <<File(<<Dot, nb>>, <<x>>)>> >>
OnePath == {<<na>>}
Empty == {[tree |-> Pristine.tree, rev |-> 0]}
OneByte == {<<x>>}
Interchangeable == Permutations(Sessions) \cup Permutations(Tasks)

(* The third sandbox is for those who are alone.                           *)
Users == {s \in Sessions : call[s] # NoCall \/ prov[s] # NoProvider}
Bounded == (\E b \in Boxes : b > 2 /\ box[b] # NoBox) => Cardinality(Users) <= 1

-----------------------------------------------------------------------------
(* Manifests of up to two entries of every kind, and of three plain ones.  *)
EntryPaths == {<<na>>, <<Dot, na>>, <<nb>>, <<na, nb>>, <<na, na>>, <<Dot>>, <<na, na, na>>, <<Up, na>>}
AllEntries ==
    {Dirent(p) : p \in EntryPaths}
    \cup {File(p, c) : p \in EntryPaths, c \in {<<>>, <<x>>, <<x, x>>}}
    \cup {[Dirent(<<nb>>) EXCEPT !.plain = FALSE], [Dirent(<<nb>>) EXCEPT !.kind = "mount"]}
FewEntries == {Dirent(<<na>>), Dirent(<<na, nb>>), Dirent(<<nb, nb>>), File(<<na>>, <<x>>),
               File(<<na, nb>>, <<x>>), File(<<nb, na>>, <<>>), File(<<Dot, nb>>, <<x>>)}
ManyManifests ==
    {[supported |-> ok, entries |-> <<e>>] : ok \in BOOLEAN, e \in AllEntries}
    \cup {Manifest(<<e, f>>) : e, f \in AllEntries}
    \cup {Manifest(<<e, f, g>>) : e, f, g \in FewEntries}

(* The workspace a manifest describes: each entry at its path, directories *)
(* above it, and nothing else.                                             *)
Described(m) ==
    LET At(p) == {i \in DOMAIN m.entries : Normalized(m.entries[i].path) = p}
        named == {Normalized(e.path) : e \in Range(m.entries)}
    IN  [p \in {Root} \cup named \cup UNION {Ancestors(q) : q \in named} |->
           IF At(p) = {} THEN Dir
           ELSE LET e == m.entries[CHOOSE i \in At(p) : TRUE]
                IN  IF e.kind = "file" THEN e.content ELSE Dir]

Describes(m) ==
    LET e == m.entries
        t == Described(m)
    IN  /\ m.supported
        /\ \A i, j \in DOMAIN e : Normalized(e[i].path) = Normalized(e[j].path) => i = j
        /\ \A i \in DOMAIN e : /\ e[i].kind \in {"file", "dir"} /\ e[i].plain
                               /\ Up \notin Range(e[i].path)
                               /\ Normalized(e[i].path) # Root
        /\ \A p \in DOMAIN t : \A q \in Ancestors(p) : IsDir(t, q)
        /\ Fits(t)

(* A manifest is planned if and only if it describes a workspace within    *)
(* the limits, and then the plan makes exactly that workspace, the seed    *)
(* files first (create) or the directories first (apply): an allocation    *)
(* never fails half way for what the preflight could have refused.         *)
ManifestExact ==
    calls = 0 /\ mishaps = 0 => \A m \in ManyManifests :
        LET plan == PlanOf(m)
        IN  /\ plan.ok <=> Describes(m)
            /\ plan.ok =>
                  /\ MaterializedDirectories(Seeded(Pristine, plan), plan).tree = Described(m)
                  /\ MaterializedDirectories(Seeded(Pristine, plan), plan).ok
                  /\ Materialized(Pristine, plan).tree = Described(m)
            /\ BatchPlanOf(m.entries).ok <=> Describes([m EXCEPT !.supported = TRUE])
=============================================================================
