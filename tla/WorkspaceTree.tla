--------------------------- MODULE WorkspaceTree ---------------------------
(***************************************************************************)
(* The tree of MemoryWorkspace (src/mem_sandbox/workspace/memory.py) as a  *)
(* value: a function from each path that exists, a sequence of names with  *)
(* <<>> for the root, to Dir or to the content of a file.                  *)
(***************************************************************************)
EXTENDS Integers, Sequences, FiniteSets, SequencesExt

CONSTANTS
    Names,          \* path segments
    MaxDepth,       \* WorkspaceLimits.max_path_bytes, as a number of segments
    Bytes,          \* what file content is made of
    MaxFileBytes, MaxTotalBytes, MaxNodes,
    Dir             \* the node of a directory

Root == <<>>
Paths == UNION {[1..n -> Names] : n \in 0..MaxDepth}

(* Every tree of nodes; limits and shape are what the invariants are for.  *)
IsTree(t) ==
    /\ DOMAIN t \subseteq Paths
    /\ \A p \in DOMAIN t : t[p] = Dir \/ t[p] \in Seq(Bytes)

ASSUME LimitsAssumption ==
    /\ MaxDepth \in Nat
    /\ MaxFileBytes \in Nat
    /\ MaxTotalBytes \in Nat
    /\ MaxNodes \in Nat \ {0}
ASSUME DirAssumption == Dir \notin Seq(Bytes)

-----------------------------------------------------------------------------
IsDir(t, p) == p \in DOMAIN t /\ t[p] = Dir
IsFile(t, p) == p \in DOMAIN t /\ t[p] # Dir
Ancestors(p) == {SubSeq(p, 1, n) : n \in 0..(Len(p) - 1)}

(* The root is a directory, and so is everything above a node: no          *)
(* operation, not even a move, a recursive removal or a restore, leaves a  *)
(* node below a file or below nothing, where _try_get_node never finds it. *)
WellFormed(t) ==
    /\ IsDir(t, Root)
    /\ \A p \in DOMAIN t : \A q \in Ancestors(p) : IsDir(t, q)

Subtree(t, p) == {q \in DOMAIN t : IsPrefix(p, q)}
Rest(p, q) == SubSeq(q, Len(p) + 1, Len(q))

(* _ensure_parent: the ancestors are directories, or may be created.       *)
HasParent(t, p, create) ==
    \A q \in Ancestors(p) : IsDir(t, q) \/ (create /\ q \notin DOMAIN t)

WithParents(t, p) ==
    [q \in DOMAIN t \cup Ancestors(p) |-> IF q \in DOMAIN t THEN t[q] ELSE Dir]

Put(t, p, node) == [q \in DOMAIN t \cup {p} |-> IF q = p THEN node ELSE t[q]]

Prune(t, p) == [q \in DOMAIN t \ Subtree(t, p) |-> t[q]]

(* Faulty variant: what the destination held before stays beside it.       *)
GraftMerging(t, p, from, s) ==
    LET new == {p \o Rest(s, q) : q \in Subtree(from, s)}
    IN  [q \in DOMAIN t \cup new |-> IF q \in new THEN from[s \o Rest(p, q)] ELSE t[q]]

(* The node at s of the tree `from` becomes the child p of t.              *)
Graft(t, p, from, s) ==
    LET base == Prune(t, p)
        new == {p \o Rest(s, q) : q \in Subtree(from, s)}
    IN  [q \in DOMAIN base \cup new |-> IF q \in new THEN from[s \o Rest(p, q)] ELSE base[q]]

TotalBytes(t) == SumFunction([p \in {q \in DOMAIN t : t[q] # Dir} |-> Len(t[p])])

(* _state_for_root and _measure_node accept the tree.                      *)
Fits(t) ==
    /\ \A p \in DOMAIN t : /\ Len(p) <= MaxDepth
                           /\ t[p] # Dir => Len(t[p]) <= MaxFileBytes
    /\ TotalBytes(t) <= MaxTotalBytes
    /\ Cardinality(DOMAIN t) <= MaxNodes
=============================================================================
