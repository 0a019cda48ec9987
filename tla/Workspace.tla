----------------------------- MODULE Workspace -----------------------------
(***************************************************************************)
(* MemoryWorkspace (src/mem_sandbox/workspace/memory.py): a bounded        *)
(* in-memory tree behind one asyncio lock.                                 *)
(*                                                                         *)
(* The tree maps each path that exists, a sequence of names with <<>> for  *)
(* the root, to Dir or to the content of a file.  A mutation runs under    *)
(* the lock without awaiting anything, so it is one step; it builds a      *)
(* complete new tree and publishes it only after measuring it against the  *)
(* limits.  A call that raises, or that succeeds without changing anything *)
(* (exist_ok, missing_ok), leaves the state alone and is a stutter.  What  *)
(* does interleave is the restore, prepared by one call and published by   *)
(* another that yields twice, and an editor that writes on the condition   *)
(* that a file still has the content it read.  A content hash stands for   *)
(* the content, a path of too many bytes for one of more than MaxDepth     *)
(* names.                                                                  *)
(***************************************************************************)
EXTENDS WorkspaceTree

CONSTANTS
    Inputs,         \* contents that callers send
    Foreign,        \* [tree, rev] of snapshots taken elsewhere
    Editors,        \* callers that read a file and write it back
    Candidates,     \* PreparedWorkspaceRestore objects
    Committers,     \* callers of commit_restore
    Nothing,        \* absence of an export, a candidate or a read
    MaxRevision     \* bound on the revisions explored

IsVersion(v) == IsTree(v.tree) /\ v.rev \in Nat

ASSUME InputsAssumption == Inputs \subseteq Seq(Bytes)
ASSUME NothingAssumption ==
    /\ Nothing \notin Candidates
    /\ Nothing \notin [path : Paths, content : Seq(Bytes)]
(* A decoder builds its result from nested directories, whatever limits    *)
(* the workspace it was taken from had.                                    *)
ASSUME ForeignAssumption ==
    \A v \in Foreign : /\ v = [tree |-> v.tree, rev |-> v.rev]
                       /\ v.rev \in Nat
                       /\ DOMAIN v.tree \subseteq Seq(Names)
                       /\ \A p \in DOMAIN v.tree : v.tree[p] = Dir \/ v.tree[p] \in Seq(Bytes)
                       /\ WellFormed(v.tree)

VARIABLES
    tree,       \* _state.root
    rev,        \* _state.stats.revision
    exported,   \* the latest export(), as [tree, rev]
    candidate,  \* _restore_candidates: what each capability publishes
    used,       \* capabilities issued so far
    holds,      \* the capability a commit_restore has popped
    seen        \* the file an editor has read, as [path, content]

vars == <<tree, rev, exported, candidate, used, holds, seen>>
restoring == <<exported, candidate, used, holds>>

-----------------------------------------------------------------------------
Commit(t) ==
    /\ Fits(t)
    /\ rev < MaxRevision
    /\ tree' = t
    /\ rev' = rev + 1

Init ==
    /\ tree = [p \in {Root} |-> Dir]
    /\ rev = 0
    /\ exported = Nothing
    /\ candidate = [c \in Candidates |-> Nothing]
    /\ used = {}
    /\ holds = [m \in Committers |-> Nothing]
    /\ seen = [e \in Editors |-> Nothing]

-----------------------------------------------------------------------------
(* Mutations.                                                              *)
Mkdir(p, create) ==
    /\ p \notin DOMAIN tree
    /\ HasParent(tree, p, create)
    /\ Commit(Put(WithParents(tree, p), p, Dir))
    /\ UNCHANGED <<restoring, seen>>

(* WritePrecondition: AnyCurrentState, PathMustNotExist or                 *)
(* ContentHashMustEqual.                                                   *)
Preconditions == [kind : {"any", "absent"}] \cup [kind : {"equal"}, hash : Inputs]

(* Faulty variant: the expected hash is not compared.                      *)
AdmitsIgnoringHash(p, pre) == ~IsDir(tree, p)

Admits(p, pre) ==
    /\ ~IsDir(tree, p)
    /\ pre.kind = "absent" => p \notin DOMAIN tree
    /\ pre.kind = "equal" => p \in DOMAIN tree /\ tree[p] = pre.hash

WriteFile(p, content, pre, create) ==
    /\ p # Root
    /\ Len(content) <= MaxFileBytes
    /\ Admits(p, pre)
    /\ HasParent(tree, p, create)
    /\ Commit(Put(WithParents(tree, p), p, content))

Write(p, content, pre, create) ==
    /\ WriteFile(p, content, pre, create)
    /\ UNCHANGED <<restoring, seen>>

Current(p) == IF IsFile(tree, p) THEN tree[p] ELSE <<>>

AppendTo(p, content, pre, create) ==
    /\ WriteFile(p, Current(p) \o content, pre, create)
    /\ UNCHANGED <<restoring, seen>>

RemovePath(p, recursive) ==
    /\ p # Root
    /\ p \in DOMAIN tree
    /\ recursive \/ Subtree(tree, p) = {p}
    /\ Commit(Prune(tree, p))
    /\ UNCHANGED <<restoring, seen>>

(* Faulty variant: a directory may be moved below itself.                  *)
TransferableOverlapping(s, d, create, overwrite) ==
    /\ s # Root /\ d # Root /\ s # d
    /\ s \in DOMAIN tree
    /\ overwrite \/ d \notin DOMAIN tree
    /\ HasParent(tree, d, create)

(* _validate_transfer_paths and the guards copy and move share.            *)
Transferable(s, d, create, overwrite) ==
    /\ s # Root /\ d # Root
    /\ ~IsPrefix(s, d) /\ ~IsPrefix(d, s)
    /\ s \in DOMAIN tree
    /\ overwrite \/ d \notin DOMAIN tree
    /\ HasParent(tree, d, create)

Copy(s, d, create, overwrite) ==
    /\ Transferable(s, d, create, overwrite)
    /\ Commit(Graft(WithParents(tree, d), d, tree, s))
    /\ UNCHANGED <<restoring, seen>>

Move(s, d, create, overwrite) ==
    /\ Transferable(s, d, create, overwrite)
    /\ Commit(Graft(Prune(WithParents(tree, d), s), d, tree, s))
    /\ UNCHANGED <<restoring, seen>>

-----------------------------------------------------------------------------
(* Editors: read_text or read_bytes, then write or patch with the hash     *)
(* that was read.                                                          *)
Read(e, p) ==
    /\ IsFile(tree, p)
    /\ seen' = [seen EXCEPT ![e] = [path |-> p, content |-> tree[p]]]
    /\ UNCHANGED <<tree, rev, restoring>>

Forget(e) == seen' = [seen EXCEPT ![e] = Nothing]

Edit(e, byte) ==
    /\ seen[e] # Nothing
    /\ WriteFile(seen[e].path, Append(seen[e].content, byte),
                 [kind |-> "equal", hash |-> seen[e].content], FALSE)
    /\ Forget(e)
    /\ UNCHANGED restoring

(* apply_patch: every file is read and checked before any is replaced.     *)
(* Hunks turn the content found into one of Inputs.                        *)
PatchFiles(update) ==
    /\ \A p \in DOMAIN update : IsFile(tree, p) /\ Len(update[p]) <= MaxFileBytes
    /\ Commit([p \in DOMAIN tree |-> IF p \in DOMAIN update THEN update[p] ELSE tree[p]])

Patch(update) ==
    /\ PatchFiles(update)
    /\ UNCHANGED <<restoring, seen>>

(* A patch of the file an editor has read and of another one, with the     *)
(* expected hash of the first.                                             *)
PatchExpecting(e, p, byte, other) ==
    /\ seen[e] # Nothing
    /\ seen[e].path # p
    /\ Admits(seen[e].path, [kind |-> "equal", hash |-> seen[e].content])
    /\ PatchFiles([q \in {seen[e].path, p} |->
                     IF q = p THEN other ELSE Append(seen[e].content, byte)])
    /\ Forget(e)
    /\ UNCHANGED restoring

-----------------------------------------------------------------------------
(* Snapshots and archives.                                                 *)
Export ==
    /\ exported' = [tree |-> tree, rev |-> rev]
    /\ UNCHANGED <<tree, rev, candidate, used, holds, seen>>

(* _prepare_restore_candidate: rebuild, measure, and issue a capability.   *)
Prepare(c, v, required) ==
    /\ c \notin used
    /\ Fits(v.tree)
    /\ IsDir(v.tree, required)
    /\ candidate' = [candidate EXCEPT ![c] = v]
    /\ used' = used \cup {c}
    /\ UNCHANGED <<tree, rev, exported, holds, seen>>

(* Faulty variant: the capability is looked up and not popped.             *)
TakeCandidateKeeping(m, c) ==
    /\ holds[m] = Nothing
    /\ candidate[c] # Nothing
    /\ holds' = [holds EXCEPT ![m] = [cap |-> c, version |-> candidate[c]]]
    /\ UNCHANGED <<tree, rev, exported, candidate, used, seen>>

(* commit_restore between its two yields: pop the capability and rebuild a *)
(* detached state from it, measuring again.                                *)
TakeCandidate(m, c) ==
    /\ holds[m] = Nothing
    /\ candidate[c] # Nothing
    /\ Fits(candidate[c].tree)
    /\ holds' = [holds EXCEPT ![m] = [cap |-> c, version |-> candidate[c]]]
    /\ candidate' = [candidate EXCEPT ![c] = Nothing]
    /\ UNCHANGED <<tree, rev, exported, used, seen>>

(* The caller is cancelled at the second yield or while it waits for the   *)
(* lock: the candidate is spent and nothing is published.                  *)
CommitCancelled(m) ==
    /\ holds[m] # Nothing
    /\ holds' = [holds EXCEPT ![m] = Nothing]
    /\ UNCHANGED <<tree, rev, exported, candidate, used, seen>>

(* Faulty variant: the publication counts as a mutation of its own.        *)
PublishAdvancing(m) ==
    /\ holds[m] # Nothing
    /\ tree' = holds[m].version.tree
    /\ rev' = rev + 1
    /\ holds' = [holds EXCEPT ![m] = Nothing]
    /\ UNCHANGED <<exported, candidate, used, seen>>

Publish(m) ==
    /\ holds[m] # Nothing
    /\ tree' = holds[m].version.tree
    /\ rev' = holds[m].version.rev
    /\ holds' = [holds EXCEPT ![m] = Nothing]
    /\ UNCHANGED <<exported, candidate, used, seen>>

Versions == Foreign \cup ({exported} \ {Nothing})

Next ==
    \/ \E p \in Paths, create \in BOOLEAN :
          \/ Mkdir(p, create)
          \/ RemovePath(p, create)
          \/ \E content \in Inputs, pre \in Preconditions :
                \/ Write(p, content, pre, create)
                \/ AppendTo(p, content, pre, create)
          \/ \E d \in Paths, overwrite \in BOOLEAN :
                \/ Copy(p, d, create, overwrite)
                \/ Move(p, d, create, overwrite)
    \/ \E p, q \in Paths, content, other \in Inputs :
          Patch([x \in {p, q} |-> IF x = p THEN content ELSE other])
    \/ \E e \in Editors : \/ \E p \in Paths : Read(e, p)
                          \/ \E byte \in Bytes : Edit(e, byte)
                          \/ \E p \in Paths, byte \in Bytes, other \in Inputs :
                                PatchExpecting(e, p, byte, other)
    \/ Export
    \/ \E c \in Candidates, v \in Versions, p \in Paths : Prepare(c, v, p)
    \/ \E m \in Committers : \/ \E c \in Candidates : TakeCandidate(m, c)
                             \/ CommitCancelled(m)
                             \/ Publish(m)

Spec == Init /\ [][Next]_vars

-----------------------------------------------------------------------------
(* Every path is within the path limit and maps to a node.                 *)
TypeOK ==
    /\ IsTree(tree) /\ rev \in Nat
    /\ exported # Nothing => IsVersion(exported)
    /\ used \subseteq Candidates
    /\ \A c \in Candidates : candidate[c] # Nothing => IsVersion(candidate[c])
    /\ \A m \in Committers : holds[m] # Nothing => /\ holds[m].cap \in Candidates
                                                   /\ IsVersion(holds[m].version)
    /\ \A e \in Editors : seen[e] # Nothing => /\ seen[e].path \in Paths
                                               /\ seen[e].content \in Seq(Bytes)

Limited(t) ==
    /\ DOMAIN t \subseteq Paths
    /\ \A p \in DOMAIN t : IsFile(t, p) => Len(t[p]) <= MaxFileBytes
    /\ TotalBytes(t) <= MaxTotalBytes
    /\ Cardinality(DOMAIN t) <= MaxNodes

(* After any history of mutations and restores the live tree is a tree     *)
(* within every limit, paths deep below the one that was validated         *)
(* included; and so is a tree that a commit_restore is about to publish.   *)
TreeSound ==
    \A t \in {tree} \cup {holds[m].version.tree : m \in {n \in Committers : holds[n] # Nothing}} :
        WellFormed(t) /\ Limited(t)

(* A prepared restore is published at most once, however many callers race *)
(* to commit it: whoever has popped it is alone, and it cannot be found    *)
(* again.                                                                  *)
RestoreOnce ==
    \A m, n \in Committers : holds[m] # Nothing =>
        /\ candidate[holds[m].cap] = Nothing
        /\ holds[n] # Nothing /\ holds[n].cap = holds[m].cap => n = m

(* A step that changes the tree advances the revision by one; only the     *)
(* publication of a restore does otherwise, and then tree and revision are *)
(* the exported pair, never one without the other.                         *)
RevisionDiscipline ==
    [][\/ tree' = tree /\ rev' = rev
       \/ rev' = rev + 1 /\ holds' = holds
       \/ \E m \in Committers : /\ holds[m] # Nothing
                                /\ holds'[m] = Nothing
                                /\ [tree |-> tree', rev |-> rev'] = holds[m].version]_vars

(* An editor that writes or patches under the hash it read extends the     *)
(* content that is there, whatever was written, moved or restored since it *)
(* read: no update of another is overwritten.                              *)
NoStaleEdit ==
    [][\A e \in Editors : seen[e] # Nothing /\ seen'[e] = Nothing =>
          /\ IsFile(tree, seen[e].path)
          /\ \E byte \in Bytes :
                tree'[seen[e].path] = Append(tree[seen[e].path], byte)]_vars

(* What copy and move promise, path by path: below the destination is the  *)
(* whole source and nothing else, below the source of a move is nothing,   *)
(* and the rest of the tree is as it was but for the directories created   *)
(* on the way to the destination.  With create_parents and overwrite set   *)
(* the two are at their most permissive.                                   *)
Transferred(s, d, moved) ==
    LET Old(p) == IF p \in DOMAIN tree THEN <<tree[p]>> ELSE <<>>
        New(p) == IF p \in DOMAIN tree' THEN <<tree'[p]>> ELSE <<>>
    IN  \A p \in Paths :
          CASE IsPrefix(d, p) -> New(p) = Old(s \o Rest(d, p))
            [] IsPrefix(s, p) -> New(p) = IF moved THEN <<>> ELSE Old(p)
            [] OTHER -> New(p) = Old(p) \/ (p \in Ancestors(d) /\ New(p) = <<Dir>>)

TransferExact ==
    [][\A s \in DOMAIN tree, d \in DOMAIN tree' :
          /\ Copy(s, d, TRUE, TRUE) => Transferred(s, d, FALSE)
          /\ Move(s, d, TRUE, TRUE) => Transferred(s, d, TRUE)]_vars
=============================================================================
