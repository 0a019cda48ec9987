-------------------------- MODULE CommandExecutor --------------------------
(***************************************************************************)
(* One execute of a session: SandboxSession.execute leases the secrets,    *)
(* VirtualCommandExecutor (command_executor/executor.py) runs the plan     *)
(* unit by unit, the leases are closed and the session's working directory *)
(* and environment are replaced.                                           *)
(*                                                                         *)
(* The steps of this module are the stretches between two awaits.  A       *)
(* deadline, a cancelled task or a cancellation signal may arrive between  *)
(* any two of them.  A command that awaits the workspace several times can *)
(* be cut off between two of its mutations; a check after an await raises  *)
(* although the await completed.                                           *)
(***************************************************************************)
EXTENDS CommandProfile, SecretBroker

CONSTANTS
    Scripts,            \* command lines: lexemes, and whether secrets are bound
    Phrases,            \* token sequences that the parser is asked about
    InitialTree, InitialEnv,
    Own,                \* the lessees of the secrets bound, in order
    Binding,            \* overlay name -> lessee
    MaxCommand,         \* CommandLimits.max_command_bytes, in lexemes
    MaxArgument,        \* CommandLimits.max_argument_bytes
    MaxStdout, MaxStderr,
    MaxIntermediate,    \* CommandLimits.max_pipeline_intermediate_bytes
    MaxAggregate,       \* CommandLimits.max_pipeline_aggregate_bytes
    Causes              \* what may stop a call: "timeout", "task", "signal"

ASSUME CommandLimitsAssumption ==
    {MaxCommand, MaxArgument, MaxStdout, MaxStderr, MaxIntermediate, MaxAggregate} \subseteq Nat \ {0}
ASSUME OwnAssumption == \A j \in DOMAIN Own : Own[j] \in Lessees
(* What the session holds before the call does not show the secret.        *)
ASSUME TreeAssumption ==
    /\ IsTree(InitialTree) /\ IsFiniteSet(DOMAIN InitialTree)
    /\ \A p \in DOMAIN InitialTree :
          ~Protected(p) /\ (IsFile(InitialTree, p) => ~Protected(InitialTree[p]))
ASSUME EnvironmentAssumption ==
    /\ IsFiniteSet(DOMAIN InitialEnv) /\ {Lead, Trail} \cap DOMAIN InitialEnv = {}
    /\ \A n \in DOMAIN InitialEnv : IsText(InitialEnv[n]) /\ ~Protected(InitialEnv[n])
ASSUME BindingAssumption ==
    IsFiniteSet(DOMAIN Binding) /\ {Lead, Trail} \cap DOMAIN Binding = {}
(* The parts of a word are texts: a command line is made of characters.    *)
(* Secret stands for what the leases of the call protect, so a call that   *)
(* binds none has it nowhere.                                              *)
ASSUME ScriptsAssumption ==
    \A s \in Scripts :
        /\ s.lexemes \in Seq(Range(s.lexemes))
        /\ \A x \in Range(s.lexemes) :
              /\ x.k \in {"part", "space", "op", "newline", "refused"}
              /\ x.k = "refused" => x.code # "returned"
              /\ x.k = "part" => /\ x.parts \in Seq(Range(x.parts))
                                 /\ \A part \in Range(x.parts) :
                                       /\ IsText(part.text)
                                       /\ s.secrets \/ ~Protected(part.text)
(* The tokens that tokenize makes.                                         *)
ASSUME PhrasesAssumption ==
    \A tokens \in Phrases :
        /\ tokens \in Seq(Range(tokens))
        /\ \A x \in Range(tokens) :
              x.k # "word" => x \in [k : {"op"}, v : {"|"} \cup Redirects \cup Separators]

VARIABLES
    tree, session, pc,
    request,    \* the script of the call
    units,      \* the units that are still to come
    unit,       \* the unit that runs
    prep,       \* _PreparedUnit
    pipe,       \* locals of _execute_unit
    stage,      \* the CommandResult of the unit
    run,        \* locals of _execute_plan
    emitted,    \* history: everything given to the collectors
    stops, outcome

execVars == <<tree, session, pc, request, units, unit, prep, pipe, stage, run, emitted, stops,
              outcome>>
vars == <<execVars, brokerVars>>

NoStage == Success(<<>>)
NoUnit == [connector |-> ";", stages |-> <<>>, mode |-> "none",
           destination |-> [k |-> "word", parts |-> <<>>]]
NoPrep == [stages |-> <<>>, destination |-> <<>>, failure |-> NoStage, admitted |-> FALSE]
NoPipe == [k |-> 1, input |-> <<>>, bytes |-> 0, err |-> <<>>, exit |-> 0, code |-> "none"]

StartOf(s) == [cwd |-> s.cwd, env |-> s.env, changes |-> <<>>, exit |-> 0, code |-> "none",
               out |-> Collector(MaxStdout), err |-> Collector(MaxStderr)]

Init ==
    /\ tree = InitialTree
    /\ session = [cwd |-> Root, env |-> InitialEnv]
    /\ pc = "idle"
    /\ request = [lexemes |-> <<>>, secrets |-> FALSE]
    /\ units = <<>> /\ unit = NoUnit /\ prep = NoPrep /\ pipe = NoPipe /\ stage = NoStage
    /\ run = StartOf(session)
    /\ emitted = [out |-> <<>>, err |-> <<>>]
    /\ stops = {}
    /\ outcome = "none"
    /\ BrokerInit

-----------------------------------------------------------------------------
(* The overlay of secrets.  Reading an entry raises once its lease has     *)
(* expired; what it protects was copied when the call began.               *)
Overlay == IF request.secrets THEN [n \in DOMAIN Binding |-> <<Secret>>]
           ELSE [n \in {} |-> <<>>]
View == [base |-> run.env, overlay |-> Overlay]
Lapsed(names) == \E n \in names : ~Usable(Binding[n])

Raise(code) == pc' = "closing" /\ outcome' = code

(* _check_execution_state: the deadline before the task before the signal. *)
Stopped ==
    IF "timeout" \in stops THEN "timeout" ELSE IF "task" \in stops THEN "cancelled_task"
    ELSE "cancelled"

-----------------------------------------------------------------------------
(* SandboxSession.execute, up to the executor.                             *)
Submit(s) ==
    /\ pc = "idle" /\ pc' = "lease"
    /\ request' = s
    /\ UNCHANGED <<tree, session, units, unit, prep, pipe, stage, run, emitted, stops, outcome,
                   brokerVars>>

Wanted(j) == request.secrets /\ j \in DOMAIN Own /\ \A i \in 1..(j - 1) : lease[Own[i]].at = "held"

AcquireLease ==
    /\ pc = "lease"
    /\ \E j \in DOMAIN Own, d \in Durations :
          /\ Wanted(j)
          /\ Reserve(Own[j], d)
          /\ IF lease'[Own[j]].at = "refused" THEN Raise("secret_limit")
             ELSE UNCHANGED <<pc, outcome>>
    /\ UNCHANGED <<tree, session, request, units, unit, prep, pipe, stage, run, emitted, stops>>

OwnResolved ==
    /\ pc = "lease"
    /\ \E j \in DOMAIN Own : Resolved(Own[j])
    /\ UNCHANGED execVars

(* The source fails, or a stop cancels the task that awaits it.            *)
OwnUnresolved ==
    /\ pc = "lease"
    /\ \E j \in DOMAIN Own : Unresolved(Own[j])
    /\ Raise(IF stops = {} THEN "secret_unavailable" ELSE Stopped)
    /\ UNCHANGED <<tree, session, request, units, unit, prep, pipe, stage, run, emitted, stops>>

(* The redactor copies the values; an expired lease is noticed here.       *)
Protect ==
    /\ pc = "lease"
    /\ request.secrets => \A j \in DOMAIN Own : lease[Own[j]].at = "held"
    /\ IF stops # {} THEN Raise(Stopped)
       ELSE IF request.secrets /\ \E j \in DOMAIN Own : ~Usable(Own[j]) THEN Raise("secret_expired")
       ELSE pc' = "admit" /\ UNCHANGED outcome
    /\ UNCHANGED <<tree, session, request, units, unit, prep, pipe, stage, run, emitted, stops,
                   brokerVars>>

(* execute: the whole plan is parsed and bounded before anything runs.     *)
Admit ==
    LET words == Tokenize(request.lexemes)
        plan == ParseExecutionPlan(words.tokens)
    IN  /\ pc = "admit"
        /\ CASE Len(request.lexemes) > MaxCommand -> Raise("too_long") /\ UNCHANGED units
             [] Len(request.lexemes) <= MaxCommand /\ ~words.ok ->
                   Raise(words.code) /\ UNCHANGED units
             [] Len(request.lexemes) <= MaxCommand /\ words.ok /\ ~plan.ok ->
                   Raise(plan.code) /\ UNCHANGED units
             [] OTHER -> IF WithinStructure(plan.units)
                         THEN pc' = "unit" /\ units' = plan.units /\ UNCHANGED outcome
                         ELSE Raise("invalid") /\ UNCHANGED units
        /\ UNCHANGED <<tree, session, request, unit, prep, pipe, stage, run, emitted, stops,
                       brokerVars>>

-----------------------------------------------------------------------------
(* _prepare_unit.                                                          *)
Argv(u, k) == [j \in DOMAIN u.stages[k] |-> ExpandWord(u.stages[k][j], View, run.cwd)]
Oversized(argv) == \E x \in Range(argv) : Len(x) > MaxArgument

(* The overlay names that preparing a unit reads.                          *)
Revealed(u) ==
    LET words == UNION {Range(u.stages[k]) : k \in DOMAIN u.stages}
                 \cup (IF u.mode = "none" THEN {} ELSE {u.destination})
    IN  UNION {Reveals(w, View) : w \in words}

(* What stage k of n is refused with, and whether output may still be      *)
(* redirected: an unknown command still opens its destination.             *)
Refusal(argv, k, n, destination) ==
    IF AnyProtected(argv) THEN [result |-> ProtectedValue, admitted |-> FALSE]
    ELSE IF Oversized(argv) \/ (k = n /\ Len(destination) > MaxArgument)
         THEN [result |-> Invalid, admitted |-> FALSE]
    ELSE IF ~Known(argv)
         THEN [result |-> Result(127, "command_not_found", <<>>, Note), admitted |-> TRUE]
    ELSE IF n > 1 /\ ~PipelineSafe(argv[1][1]) THEN [result |-> Invalid, admitted |-> FALSE]
    ELSE IF k > 1 /\ ~AcceptsStdin(argv[1][1]) THEN [result |-> Invalid, admitted |-> FALSE]
    ELSE [result |-> NoStage, admitted |-> TRUE]

PrepareUnit(u) ==
    LET n == Len(u.stages)
        argvs == [k \in 1..n |-> Argv(u, k)]
        destination == IF u.mode = "none" THEN <<>> ELSE ExpandWord(u.destination, View, run.cwd)
        refusals == (IF Protected(destination)
                     THEN <<[result |-> ProtectedValue, admitted |-> FALSE]>> ELSE <<>>)
                    \o [k \in 1..n |-> Refusal(argvs[k], k, n, destination)]
        failed == {i \in DOMAIN refusals : refusals[i].result.exit # 0}
        first == IF failed = {} THEN NoStage ELSE refusals[Min(failed)].result
        barred == /\ u.mode # "none" /\ ~AnyProtected(argvs[n])
                  /\ Known(argvs[n]) /\ ~PermitsRedirection(argvs[n][1][1])
    IN  [stages |-> argvs, destination |-> destination,
         failure |-> IF barred /\ first.code # "protected_value_rejected" THEN Invalid ELSE first,
         admitted |-> ~barred /\ \A r \in Range(refusals) : r.admitted]

(* Faulty variant: output is checked for what would be persisted in the    *)
(* session, and not redacted.                                              *)
SanitizeStateOnly(r) ==
    IF \/ r.moves /\ Protected(r.cwd)
       \/ \E c \in Range(r.changes) : c.name \in DOMAIN Overlay \/ Protected(c.value)
    THEN [ProtectedValue EXCEPT !.trees = r.trees]
    ELSE [r EXCEPT !.err = Redact(@)]

(* _sanitize_stage.                                                        *)
Sanitize(r) ==
    IF \/ r.moves /\ Protected(r.cwd)
       \/ \E c \in Range(r.changes) : c.name \in DOMAIN Overlay \/ Protected(c.value)
    THEN [ProtectedValue EXCEPT !.trees = r.trees]
    ELSE [r EXCEPT !.out = Redact(@), !.err = Redact(@)]

-----------------------------------------------------------------------------
(* _execute_plan: the next unit, or none.                                  *)
SkipUnit ==
    /\ pc = "unit" /\ units # <<>>
    /\ units[1].connector = "&&" /\ run.exit # 0
    /\ units' = Tail(units)
    /\ UNCHANGED <<tree, session, pc, request, unit, prep, pipe, stage, run, emitted, stops,
                   outcome, brokerVars>>

BeginUnit ==
    /\ pc = "unit" /\ units # <<>>
    /\ units[1].connector = "&&" => run.exit = 0
    /\ CASE stops # {} -> Raise(Stopped) /\ UNCHANGED <<units, unit, prep, pipe, stage>>
         [] stops = {} /\ Lapsed(Revealed(units[1])) ->
               Raise("secret_expired") /\ UNCHANGED <<units, unit, prep, pipe, stage>>
         [] OTHER -> /\ unit' = units[1] /\ units' = Tail(units)
                     /\ prep' = PrepareUnit(units[1])
                     /\ pipe' = NoPipe
                     /\ stage' = prep'.failure
                     /\ pc' = IF prep'.failure.exit = 0 THEN "run" ELSE "settle"
                     /\ UNCHANGED outcome
    /\ UNCHANGED <<tree, session, request, run, emitted, stops, brokerVars>>

-----------------------------------------------------------------------------
(* _execute_unit and _dispatch.                                            *)
Piped == Len(prep.stages) > 1
StageArgv == prep.stages[pipe.k]
StageResult ==
    Handler(StageArgv, [cwd |-> run.cwd, view |-> View, stdin |-> pipe.input,
                        connected |-> pipe.k > 1], tree)

(* env reads the whole overlay, once it has refused input and operands.    *)
StageLapsed ==
    /\ StageArgv[1] = <<"env">> /\ pipe.k = 1 /\ Tail(StageArgv) \in {<<>>, <<<<"--">>>>}
    /\ Lapsed(DOMAIN Overlay)

After(trees, n) == IF n = 0 THEN tree ELSE trees[n]

(* The end of a stage: a lone command is the unit; the last stage of a     *)
(* pipeline gives its output, the last that failed its exit.               *)
FinishStage(r) ==
    LET s == Sanitize(r)
        p == [pipe EXCEPT !.err = @ \o s.err, !.bytes = @ + Len(s.out),
                          !.exit = IF s.exit # 0 THEN s.exit ELSE @,
                          !.code = IF s.exit # 0 THEN s.code ELSE @]
    IN  CASE ~Piped -> stage' = s /\ pc' = "settle" /\ UNCHANGED <<pipe, outcome>>
          [] Piped /\ stops # {} -> Raise(Stopped) /\ UNCHANGED <<pipe, stage>>
          [] Piped /\ stops = {} /\ (s.moves \/ s.changes # <<>>) ->
                Raise("internal") /\ UNCHANGED <<pipe, stage>>
          [] OTHER ->
                /\ UNCHANGED outcome
                /\ CASE pipe.k = Len(prep.stages) ->
                          /\ stage' = Result(p.exit, p.code, s.out, p.err)
                          /\ pc' = "settle" /\ UNCHANGED pipe
                     [] pipe.k < Len(prep.stages)
                        /\ (Len(s.out) > MaxIntermediate \/ p.bytes > MaxAggregate) ->
                          /\ stage' = Result(1, "pipeline_limit_exceeded", <<>>, p.err \o Note)
                          /\ pc' = "settle" /\ UNCHANGED pipe
                     [] OTHER -> /\ pipe' = [p EXCEPT !.k = @ + 1, !.input = s.out]
                                 /\ UNCHANGED <<pc, stage>>

RunStage ==
    /\ pc = "run"
    /\ IF StageLapsed
       THEN Raise("secret_expired") /\ UNCHANGED <<tree, pipe, stage>>
       ELSE \E r \in {StageResult} :
              /\ tree' = After(r.trees, Len(r.trees))
              /\ FinishStage(r)
    /\ UNCHANGED <<session, request, units, unit, prep, run, emitted, stops, brokerVars>>

(* A stop that cancels the task reaches the command at one of its awaits.  *)
Interrupt ==
    /\ pc = "run" /\ stops # {} /\ ~StageLapsed
    /\ \E trees \in {StageResult.trees} : \E n \in 0..Len(trees) : tree' = After(trees, n)
    /\ Raise(Stopped)
    /\ UNCHANGED <<session, request, units, unit, prep, pipe, stage, run, emitted, stops, brokerVars>>

(* The workspace raises what the command does not expect.                  *)
HandlerFault ==
    /\ pc = "run" /\ ~StageLapsed
    /\ \E trees \in {StageResult.trees} : \E n \in 0..Len(trees) : tree' = After(trees, n)
    /\ Raise("internal")
    /\ UNCHANGED <<session, request, units, unit, prep, pipe, stage, run, emitted, stops, brokerVars>>

-----------------------------------------------------------------------------
(* The end of a unit: output is collected, and cwd and environment follow  *)
(* only a unit that succeeded.                                             *)
Committed(s) ==
    IF s.exit # 0 THEN run
    ELSE [run EXCEPT !.cwd = IF s.moves THEN s.cwd ELSE @,
                     !.env = ApplyChanges(@, s.changes),
                     !.changes = @ \o s.changes]

EndOfUnit(s, out) ==
    /\ run' = [Committed(s) EXCEPT !.exit = s.exit, !.code = s.code,
                                   !.out = Collect(@, out), !.err = Collect(@, s.err)]
    /\ emitted' = [out |-> emitted.out \o out, err |-> emitted.err \o s.err]

RedirectsOutput ==
    unit.mode # "none" /\ prep.admitted /\ stage.code # "pipeline_limit_exceeded"

Settle ==
    /\ pc = "settle"
    /\ \E s \in {Sanitize(stage)} :
         CASE stops # {} -> Raise(Stopped) /\ UNCHANGED <<stage, run, emitted>>
           [] stops = {} /\ RedirectsOutput ->
                 pc' = "redirect" /\ stage' = s /\ UNCHANGED <<run, emitted, outcome>>
           [] OTHER -> /\ EndOfUnit(s, s.out)
                       /\ pc' = "unit" /\ UNCHANGED <<stage, outcome>>
    /\ UNCHANGED <<tree, session, request, units, unit, prep, pipe, stops, brokerVars>>

(* _apply_redirection, and the check that follows it: the file is written  *)
(* when a stop that arrived meanwhile is noticed.                          *)
Redirected ==
    LET p == PathOf(prep.destination, run.cwd)
        r == IF unit.mode = ">" THEN WriteNode(tree, p, stage.out) ELSE AppendNode(tree, p, stage.out)
        failed == [Result(1, "redirection_failure", <<>>, stage.err \o Note) EXCEPT !.trees = <<>>]
    IN  IF Overflows(stage.out, MaxStdout) \/ ~Resolves(prep.destination, run.cwd) \/ ~r.ok
        THEN [tree |-> tree, stage |-> failed]
        ELSE [tree |-> r.tree, stage |-> [stage EXCEPT !.out = <<>>]]

Redirect ==
    /\ pc = "redirect"
    /\ \E r \in {Redirected} :
         /\ tree' = r.tree
         /\ IF stops # {} THEN Raise(Stopped) /\ UNCHANGED <<run, emitted>>
            ELSE EndOfUnit(Sanitize(r.stage), <<>>) /\ pc' = "unit" /\ UNCHANGED outcome
    /\ UNCHANGED <<session, request, units, unit, prep, pipe, stage, stops, brokerVars>>

InterruptRedirect ==
    /\ pc = "redirect" /\ stops # {}
    /\ Raise(Stopped)
    /\ UNCHANGED <<tree, session, request, units, unit, prep, pipe, stage, run, emitted, stops,
                   brokerVars>>

(* The workspace raises what a redirection does not expect.                *)
RedirectFault ==
    /\ pc = "redirect" /\ ~Overflows(stage.out, MaxStdout)
    /\ Raise("internal")
    /\ UNCHANGED <<tree, session, request, units, unit, prep, pipe, stage, run, emitted, stops,
                   brokerVars>>

Return ==
    /\ pc = "unit" /\ units = <<>>
    /\ Raise(IF stops = {} THEN "returned" ELSE Stopped)
    /\ UNCHANGED <<tree, session, request, units, unit, prep, pipe, stage, run, emitted, stops,
                   brokerVars>>

-----------------------------------------------------------------------------
(* SandboxSession.execute, after the executor.                             *)
Open(j) == lease[Own[j]].at = "held" /\ ~lease[Own[j]].closed

(* _close_secret_leases: shielded, last lease first.                       *)
CloseOwn ==
    /\ pc = "closing"
    /\ \E j \in DOMAIN Own : /\ Open(j) /\ \A i \in DOMAIN Own : Open(i) => i <= j
                             /\ CloseLease(Own[j])
    /\ UNCHANGED execVars

(* Faulty variant: what the units before an abort did to cwd and           *)
(* environment is published.                                               *)
PublishPartial ==
    /\ pc = "closing" /\ \A j \in DOMAIN Own : ~Open(j)
    /\ pc' = "done"
    /\ session' = [cwd |-> run.cwd, env |-> ApplyChanges(session.env, run.changes)]
    /\ UNCHANGED <<tree, request, units, unit, prep, pipe, stage, run, emitted, stops, outcome,
                   brokerVars>>

Publish ==
    /\ pc = "closing" /\ \A j \in DOMAIN Own : ~Open(j)
    /\ pc' = "done"
    /\ IF outcome = "returned" /\ stops = {}
       THEN session' = [cwd |-> run.cwd, env |-> ApplyChanges(session.env, run.changes)]
       ELSE UNCHANGED session
    /\ outcome' = IF outcome = "returned" /\ stops # {} THEN Stopped ELSE outcome
    /\ UNCHANGED <<tree, request, units, unit, prep, pipe, stage, run, emitted, stops, brokerVars>>

-----------------------------------------------------------------------------
(* Around the call: something stops it, time passes, another caller of the *)
(* broker comes and goes.  Without secrets the broker is left alone.       *)
Stop(c) ==
    /\ pc \notin {"idle", "done"} /\ stops = {}
    /\ stops' = {c}
    /\ UNCHANGED <<tree, session, pc, request, units, unit, prep, pipe, stage, run, emitted,
                   outcome, brokerVars>>

Elsewhere ==
    /\ pc \notin {"idle", "done"} /\ request.secrets
    /\ \/ Tick
       \/ \E l \in Lessees \ Range(Own) :
             (\E d \in Durations : Reserve(l, d)) \/ Resolved(l) \/ Unresolved(l)
             \/ (~lease[l].closed /\ CloseLease(l))
    /\ UNCHANGED execVars

Next ==
    \/ \E s \in Scripts : Submit(s)
    \/ AcquireLease \/ OwnResolved \/ OwnUnresolved \/ Protect \/ Admit
    \/ SkipUnit \/ BeginUnit \/ RunStage \/ Interrupt \/ HandlerFault
    \/ Settle \/ Redirect \/ InterruptRedirect \/ RedirectFault \/ Return
    \/ CloseOwn \/ Publish
    \/ \E c \in Causes : Stop(c)
    \/ Elsewhere

Spec == Init /\ [][Next]_vars

-----------------------------------------------------------------------------
(* A protected value that commands can read reaches neither the workspace, *)
(* nor the output, nor the state that outlives the call: every expansion,  *)
(* every stage and every redirection goes through the redactor, also after *)
(* the lease has expired.                                                  *)
SecretsContained ==
    /\ \A p \in DOMAIN tree : ~Protected(p) /\ (IsFile(tree, p) => ~Protected(tree[p]))
    /\ ~Protected(run.out.text) /\ ~Protected(run.err.text)
    /\ \A s \in {run, session} : ~Protected(s.cwd) /\ \A n \in DOMAIN s.env : ~Protected(s.env[n])
    /\ \A c \in Range(run.changes) : ~Protected(c.value)

(* What a caller gets of a stream is a prefix of what the units printed    *)
(* there, whole characters up to the limit; the reported size is that of   *)
(* everything printed, and truncated says whether something is missing.    *)
Faithful(c, all) ==
    /\ IsPrefix(c.text, all) /\ Len(c.text) <= c.max
    /\ Decodable(all) => Decodable(c.text)
    /\ c.original = Len(all)
    /\ c.truncated <=> c.text # all

OutputFaithful == Faithful(run.out, emitted.out) /\ Faithful(run.err, emitted.err)

(* The parser accepts exactly the grammar, and the plan it returns has the *)
(* words and operators of the command, all of them and in order.           *)
ParserExact ==
    pc = "idle" => \A tokens \in Phrases :
        LET plan == ParseExecutionPlan(tokens)
        IN  /\ plan.ok <=> Accepts(tokens)
            /\ plan.ok => Rendered(plan.units) = tokens

(* The refinement mapping: the plan is accepted when parsing ends and over *)
(* when something is raised or the result is published.                    *)
Status ==
    CASE pc \in {"idle", "lease", "admit"} -> "idle"
      [] pc = "done" \/ (pc = "closing" /\ outcome # "returned") -> "over"
      [] OTHER -> "running"

Form(u) == IF u.mode # "none" THEN "redirected"
           ELSE IF Len(u.stages) > 1 THEN "pipeline" ELSE "command"
ToDo == IF Status # "running" THEN <<>>
        ELSE [i \in DOMAIN units |-> [connector |-> units[i].connector, form |-> Form(units[i])]]

Granted ==
    LET destination == PathOf(prep.destination, run.cwd)
        kind == IF pc \notin {"run", "settle", "redirect"} THEN "none"
                ELSE CASE Form(unit) = "command" /\ prep.failure.exit = 0 -> "tree"
                       [] Form(unit) = "redirected" /\ prep.admitted
                          /\ Resolves(prep.destination, run.cwd) -> "file"
                       [] OTHER -> "nothing"
    IN  [k |-> kind, path |-> IF kind = "file" THEN destination ELSE Root]

Promise == INSTANCE CommandContract WITH
    status <- Status, work <- [cwd |-> run.cwd, env |-> run.env], ok <- run.exit = 0,
    todo <- ToDo, grant <- Granted

(* Running a plan is what CommandContract promises: && and ; decide what   *)
(* runs, a pipeline leaves the tree alone, redirection replaces one file   *)
(* and nothing else, and cwd and environment are published together, once, *)
(* and only when the whole plan was run.                                   *)
ImplementsContract == Promise!Contract

(* What docs/components/command-executor/README.md:695 says of it besides: *)
(* timeout, cancellation and infrastructure failures leave the destination *)
(* of a redirection unchanged.  The check for a stop that follows the      *)
(* write (executor.py:212) raises when the destination is written.         *)
StopLeavesTarget == Promise!WrittenOnlyAtEnd
=============================================================================
