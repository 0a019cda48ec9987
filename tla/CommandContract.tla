-------------------------- MODULE CommandContract --------------------------
(***************************************************************************)
(* What one execute promises, without lexer, commands, output or secrets.  *)
(*                                                                         *)
(* A command line is refused, and then nothing changed, or becomes a plan. *)
(* A unit of the plan runs or is skipped by the exit status before it; a   *)
(* lone command may change the tree, a pipeline may not, and redirection   *)
(* replaces one file.  The working directory and the environment move only *)
(* with a unit that succeeds, and the session sees them when the whole     *)
(* plan has been run, or never.                                            *)
(***************************************************************************)
EXTENDS WorkspaceTree

VARIABLES
    status,         \* "idle", "running" or "over"
    tree,           \* the workspace
    session,        \* what later calls start from: cwd and env
    work,           \* what the next unit starts from
    ok,             \* the last unit that ran exited with zero
    todo,           \* the units to come: connector and form
    grant           \* what the current unit may touch

contractVars == <<status, tree, session, work, ok, todo, grant>>

NoGrant == [k |-> "none", path |-> Root]
Untouched == [k |-> "nothing", path |-> Root]
WholeTree == [k |-> "tree", path |-> Root]
OneFile(p) == [k |-> "file", path |-> p]

ContractInit ==
    /\ status = "idle"
    /\ IsTree(tree)
    /\ work = session
    /\ ok = TRUE
    /\ todo = <<>>
    /\ grant = NoGrant

(* A plan is accepted whole.                                               *)
Accept ==
    /\ status = "idle" /\ status' = "running"
    /\ todo' # <<>>
    /\ UNCHANGED <<tree, session, work, ok, grant>>

Refuse ==
    /\ status = "idle" /\ status' = "over"
    /\ UNCHANGED <<tree, session, work, ok, todo, grant>>

Skip ==
    /\ status = "running" /\ grant = NoGrant /\ todo # <<>>
    /\ Head(todo).connector = "&&" /\ ~ok
    /\ todo' = Tail(todo)
    /\ UNCHANGED <<status, tree, session, work, ok, grant>>

MayGrant(form, g) ==
    \/ g = Untouched
    \/ form = "command" /\ g = WholeTree
    \/ form = "redirected" /\ g = OneFile(g.path)

Enter ==
    /\ status = "running" /\ grant = NoGrant /\ todo # <<>>
    /\ Head(todo).connector = "&&" => ok
    /\ MayGrant(Head(todo).form, grant')
    /\ todo' = Tail(todo)
    /\ UNCHANGED <<status, tree, session, work, ok>>

(* What a unit does to the tree, alone or with the end of the unit: one    *)
(* file is one node that is no directory, in a directory that is there.    *)
Effect ==
    \/ tree' = tree
    \/ grant = WholeTree
    \/ /\ grant.k = "file" /\ grant.path # Root
       /\ ~IsDir(tree, grant.path) /\ HasParent(tree, grant.path, FALSE)
       /\ tree' = Put(tree, grant.path, tree'[grant.path])

Touches ==
    /\ status = "running" /\ grant # NoGrant
    /\ Effect
    /\ UNCHANGED <<status, session, work, ok, todo, grant>>

Leave ==
    /\ status = "running" /\ grant # NoGrant /\ grant' = NoGrant
    /\ Effect
    /\ work' # work => ok'
    /\ UNCHANGED <<status, session, todo>>

Complete ==
    /\ status = "running" /\ status' = "over"
    /\ grant = NoGrant /\ todo = <<>>
    /\ session' = work
    /\ UNCHANGED <<tree, work, ok, todo, grant>>

(* A deadline, a cancellation, a fault or an expired secret.  Redirection  *)
(* may have replaced its file by then: the executor looks for a stop again *)
(* after the write.  docs/components/command-executor/README.md:695        *)
(* promises more, which is WrittenOnlyAtEnd.                               *)
Abort ==
    /\ status = "running" /\ status' = "over"
    /\ Effect
    /\ grant' = NoGrant /\ todo' = <<>>
    /\ UNCHANGED <<session, work, ok>>

ContractNext ==
    Accept \/ Refuse \/ Skip \/ Enter \/ Touches \/ Leave \/ Complete \/ Abort

Contract == ContractInit /\ [][ContractNext]_contractVars

(* What the documentation says beyond the contract: a unit with            *)
(* redirection replaces its file as it ends, and the call goes on; a stop  *)
(* or a fault leaves the file as it was.  The executor breaks this.        *)
WrittenOnlyAtEnd ==
    [][grant.k = "file" /\ tree' # tree => status' = "running" /\ grant' = NoGrant]_contractVars
=============================================================================
