---------------------------- MODULE ManifestPlan ----------------------------
(***************************************************************************)
(* How the OpenAI Agents adapter turns a manifest, or a batch of entries,  *)
(* into a plan of seed files and directories, and how a plan becomes a     *)
(* workspace (packages/openai-agents: adapter.py, _manifest_plan to        *)
(* _materialize_directories).                                              *)
(*                                                                         *)
(* A manifest is [supported, entries]: whether version, root, environment, *)
(* users, groups, grants and mount commands are the defaults, and the      *)
(* entries in the order iter_entries gives them, each a path of segments,  *)
(* a kind, a content, and whether its metadata are the defaults.  Dot is a *)
(* segment that normalisation drops, Up one that SandboxPath.resolve       *)
(* refuses.                                                                *)
(***************************************************************************)
EXTENDS WorkspaceTree

CONSTANTS Dot, Up

Segments == Names \cup {Dot, Up}

(* What a manifest, or a batch, names at one of its places.                *)
Entries == [path : Seq(Segments), kind : STRING, content : Seq(Bytes), plain : BOOLEAN]

Normalized(path) ==
    FoldLeft(LAMBDA kept, segment : IF segment = Dot THEN kept ELSE Append(kept, segment),
             <<>>, path)

Resolves(path) == Len(Normalized(path)) <= MaxDepth /\ ~Contains(path, Up)

(* _validate_entry *)
ValidEntry(e) == e.kind \in {"file", "dir"} /\ e.plain

FilesOf(planned) ==
    FoldLeft(LAMBDA files, e : IF e.kind = "file" THEN Append(files, e) ELSE files, <<>>, planned)
PathsOf(entries) == {e.path : e \in Range(entries)}

(* Faulty variant: only the paths that are named are counted.              *)
WithinManifestLimitsNamed(planned) ==
    LET files == FilesOf(planned)
    IN  /\ \A e \in Range(files) : Len(e.content) <= MaxFileBytes
        /\ FoldLeft(LAMBDA sum, e : sum + Len(e.content), 0, files) <= MaxTotalBytes
        /\ Cardinality(PathsOf(planned)) + 1 <= MaxNodes

(* _validate_manifest_limits: the parents a path implies count as nodes,   *)
(* and so does the root.                                                   *)
WithinManifestLimits(planned) ==
    LET files == FilesOf(planned)
        nodes == UNION {Ancestors(p) \cup {p} : p \in PathsOf(planned)} \ {Root}
    IN  /\ \A e \in Range(files) : Len(e.content) <= MaxFileBytes
        /\ FoldLeft(LAMBDA sum, e : sum + Len(e.content), 0, files) <= MaxTotalBytes
        /\ Cardinality(nodes) + 1 <= MaxNodes

(* The directories from the top down; names order those of one depth.      *)
ByDepth(paths) ==
    FoldLeft(\o, <<>>, [depth \in 1..MaxDepth |-> SetToSeq({p \in paths : Len(p) = depth})])

NoPlan == [ok |-> FALSE, files |-> <<>>, directories |-> <<>>]

(* _manifest_plan *)
PlanOf(manifest) ==
    LET planned == [i \in DOMAIN manifest.entries |->
                      [manifest.entries[i] EXCEPT !.path = Normalized(@)]]
        files == FilesOf(planned)
        directories == {e.path : e \in {d \in Range(planned) : d.kind = "dir"}}
    IN  IF /\ manifest.supported
           /\ \A i \in DOMAIN planned :
                 /\ planned[i].path # Root
                 /\ \A j \in 1..(i - 1) : planned[j].path # planned[i].path
                 /\ ValidEntry(planned[i])
                 /\ Resolves(planned[i].path)
           /\ \A p \in PathsOf(planned) : Ancestors(p) \cap PathsOf(files) = {}
           /\ WithinManifestLimits(planned)
        THEN [ok |-> TRUE, files |-> files, directories |-> ByDepth(directories)]
        ELSE NoPlan

(* _entry_batch_plan: the destinations are resolved first.                 *)
BatchPlanOf(entries) ==
    IF \A i \in DOMAIN entries :
          /\ Resolves(entries[i].path)
          /\ Normalized(entries[i].path) # Root
          /\ \A j \in 1..(i - 1) : Normalized(entries[j].path) # Normalized(entries[i].path)
    THEN PlanOf([supported |-> TRUE, entries |-> entries])
    ELSE NoPlan

-----------------------------------------------------------------------------
(* A plan step on a version of a workspace: ok, tree and revision.         *)
Version(tree, rev) == [ok |-> TRUE, tree |-> tree, rev |-> rev]
Committed(v, may, tree) ==
    IF v.ok /\ may /\ Fits(tree) THEN Version(tree, v.rev + 1) ELSE [v EXCEPT !.ok = FALSE]

(* create_directory with create_parents and exist_ok.                      *)
MadeDirectory(v, p) ==
    IF IsDir(v.tree, p) THEN v
    ELSE Committed(v, p \notin DOMAIN v.tree /\ HasParent(v.tree, p, TRUE),
                   Put(WithParents(v.tree, p), p, Dir))

(* write_bytes with create_parents.                                        *)
Written(v, p, content) ==
    Committed(v, p # Root /\ ~IsDir(v.tree, p) /\ HasParent(v.tree, p, TRUE),
              Put(WithParents(v.tree, p), p, content))

MaterializedDirectories(v, plan) == FoldLeft(MadeDirectory, v, plan.directories)
Seeded(v, plan) == FoldLeft(LAMBDA w, e : Written(w, e.path, e.content), v, plan.files)

(* _materialize_plan, on a workspace that is already there.                *)
Materialized(v, plan) == Seeded(MaterializedDirectories(v, plan), plan)

Pristine == Version([p \in {Root} |-> Dir], 0)
=============================================================================
