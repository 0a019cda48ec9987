# TLA+ verification of mem-sandbox

mem-sandbox is an in-process, in-memory sandbox for agents: a service creates
sessions, a session runs operations (commands, file edits, HTTP requests,
snapshots) one at a time against an in-memory workspace, and emits numbered
events; an adapter offers all of it to the OpenAI Agents SDK. It is asyncio
code: nothing is preemptive, but every `await` is a point where another caller,
a deadline, a cancellation or a close may come first. The specifications here
model that control flow; file content, command text and response bodies are
reduced to what the properties tell apart.

## 1. Inventory

| Component | State | Operations | Interacts with | What is hard |
|---|---|---|---|---|
| `SandboxSession` (`session/session.py`) | lifecycle state, operation gate, event sequence, cwd and environment, tasks that outlived their cancellation, the shared close task | `start`, `close`, execute, read, write, patch, list, HTTP, snapshot, restore, portable archive | policy, workspace, executor, secret broker, HTTP gateway, snapshot store, event dispatcher, resource scope | an ownerless lock, deadlines, cooperative and native cancellation at every await, effects that have happened when their caller is cancelled, close racing everything |
| `MemoryWorkspace` (`workspace/memory.py`) | immutable tree with revision, restore candidates | mkdir, write, append, remove, copy, move, patch, read, export, prepare and commit of a restore | the session's collaborator tasks | subtree transfers, limits on the whole tree, two-phase restore with one-shot capabilities, conditional writes |
| Codecs (`workspace/archive_codec.py`, `snapshot_codec.py`, `snapshot_tree.py`) | none | encode and decode of tar archives and JSON snapshots | workspace | names in two places, members in any order, limits while decoding |
| `InMemorySandboxService` (`service/`) | registry of records, reserved identifiers, pending operations, deletion and close tasks | create, resume, get_session, delete, close | session factory, snapshot repository, runtimes | rollback after partial failure, identifiers in use by calls under way, shared deletions, draining on close |
| `EventDispatcher`, `InMemoryEventSink` (`events/`) | bounded queue, worker, close task; stored events | emit (required or best effort), flush, close | called by the session with the gate held | overflow, a timeout that races acceptance, close that must drain |
| `CommandExecutor` (`command_executor/`) | cwd, environment and output of a run | parse, run units, pipelines and redirections of twenty commands | workspace, secret leases | which effects of a failed script remain, where a secret may show |
| `SecretBroker` (`secrets/broker.py`) | capacity records and leases with expiry | acquire, use and close of a lease | the session, for an execute | a slot taken before an await, expiry racing use |
| `HttpGateway` (`network/`) | budget and target of one operation, tasks given up | send, with redirects, policy, resolution and transport | policy, resolver, peers | admission of each hop, one budget over all hops, deadlines and collaborators that misbehave |
| `InMemorySnapshotStore` (`snapshots/store.py`) | records with time to live, payload account | save, load, delete, purge, stats | session, service, adapter | quota and lazy expiry |
| OpenAI Agents adapter (`packages/openai-agents`) | provider sessions with durable state, lifecycle locks | create, resume, start, stop, shutdown, delete, file operations, exec, hydration, manifests | service, session, snapshot store | sandboxes nobody owns any more, a snapshot that expires before it is used, manifests applied around other writes |
| Policy engine, redaction, paths, patching, identifiers | none | pure functions and values | all | text |

What makes each correct:

* session: at most one operation, start or close inside the gate; increasing
  event numbers and a log that tells what happened; a reported outcome that
  matches the effect; no lease left open; no lost update by a restore derived
  from an older workspace; nothing runs with an HTTP task that will not die;
  a closed or failed session stays so; close and every admitted call end;
* workspace: it is always a tree, within its limits; a transfer moves exactly
  what it names; a candidate is published once; a tree and its revision stay a
  pair; a conditional edit never overwrites a newer content; what it exports
  can be restored, and nothing else than a tree can;
* service: no runtime is forgotten, identifiers are unique among live
  sandboxes, a closed service is empty, lookups return live sessions, everyone
  is answered;
* events: an event is delivered in order, raised or reported, and close drains;
* executor: the connectors decide what runs, a pipeline writes nothing, cwd and
  environment move only with a plan that was run to its end, output is a
  faithful prefix, secrets stay inside, every lease is given back;
* gateway: only admitted public addresses are dialled, one budget bounds all
  hops, the outcome reported is the one that happened, and `send` returns;
* adapter and store: no sandbox without an owner, a resumed session has the
  work that was saved, a manifest is applied to the current workspace or not at
  all, the payload account is the sum of what is stored.

The hazards behind these properties are listed, each at its line, in
`PROJECT.json`.

## 2. Modules

| Module | Models | Used by |
|---|---|---|
| `Session` | one `SandboxSession` and its callers | `MCSession`, `SessionProofs` |
| `WorkspaceTree` | the tree as a value: paths, grafts, limits | the next three, `CommandLanguage`, `ManifestPlan` |
| `Workspace` | one `MemoryWorkspace` and its callers | `MCWorkspace`, `WorkspaceProofs` |
| `WorkspaceCodecs` | tar archive and JSON snapshot, as operators | `MCWorkspace` |
| `Service` | `InMemorySandboxService` and its runtimes | `MCService`, `ServiceProofs` |
| `EventDispatch` | `EventDispatcher` with an `InMemoryEventSink` | `MCEventDispatch`, `EventDispatchProofs` |
| `HttpModels` | limits, grants, URLs, addresses, policies, evidence | `HttpTransport` |
| `HttpTransport` | one attempt of `AsyncioHttpTransport` | `HttpGateway` |
| `HttpGateway` | `BoundedOutboundHttpGateway.send` composed with policy, resolver and transport | `MCHttp`, `HttpGatewayProofs` |
| `CommandLanguage` | lexer, parser, expansion, output collection | `CommandProfile` |
| `CommandProfile` | the twenty commands | `CommandExecutor` |
| `SecretBroker` | broker and leases | `CommandExecutor` |
| `CommandExecutor` | an execute: leases, plan, cleanup, new context | `MCExecutor`, `CommandExecutorProofs`, `CommandOutputProofs` |
| `CommandContract` | what an execute promises | refined by `CommandExecutor` |
| `SnapshotStore` | `InMemorySnapshotStore` | `AgentsAdapter` |
| `ManifestPlan` | planning and materialising a manifest | `AgentsAdapter` |
| `AgentsAdapter` | client, provider sessions and snapshot bridge over service and store | `MCAdapter`, `AgentsAdapterProofs` |
| the modules named `...Proofs` | theorems, see section 4 | TLAPS |

Definitions named as faulty variants (`StartLostKeepsGate`, `GraftMerging`, ...)
are no part of any specification: each is a plausible bug that a property is
shown to detect, and `PROJECT.json` pairs them under "mutants". `TypeOK` of a
module is a definition for its proofs and is not checked where the run's other
invariants already say more.

### Session

A call of an operation is a member of `Ops` with a `Kind`. It queues for the
gate (`Call`, `GateRefuses`, `Acquire`), delivers `operation.started`, runs its
collaborator steps, delivers `snapshot` events where the operation has one, and
delivers its terminal event (`BeginTerminal`, `TerminalDelivered`,
`TerminalLost`). A collaborator call is a task: `TaskReturns` or `TaskRaises`
is the moment it takes effect, `CollabReturns`, `CollabRaises` or
`CollabInterrupted` the moment the session sees it, so a cancellation or a
deadline can fall between (`_await_collaborator`). A cancelled task is waited
for (`settle`); an HTTP task that does not settle in time is tracked in
`unsettled` and the session fails closed. An execute closes its leases on every
way out. A restore publishes through a task of its own
(`_publish_restore_action`), which may be cancelled at the deadline, after
which it is uncertain whether it committed.

The workspace and the pair (cwd, environment) are named by the last call that
wrote them; that is all the properties about effects and lost updates need.
Time is nondeterministic: any check of a deadline may find it expired, any
check of a cooperative signal may find it set, and a native cancellation may
arrive at any await, any number of times.

### Workspace and its codecs

The tree is a function from the paths that exist (sequences of names) to `Dir`
or a content. Mutations hold the lock without awaiting, so each is one step:
it builds the whole new tree and `Commit` publishes it only if it `Fits`.
Calls that raise change nothing and are stutters. `Prepare`, `TakeCandidate`,
`Publish` and `CommitCancelled` are the steps of a restore between which
`commit_restore` yields. `Editors` read a file and later write or patch it
under the content they read. A snapshot of another workspace (`Foreign`) need
not fit this one's limits.

`WorkspaceCodecs` has both formats as operators. A raw name is a sequence of
segments in which `.`, `..`, the empty segment and a segment with a drive or a
backslash are values of their own; a tar archive is its sequence of physical
records. `Scan` is the pass over the physical headers (PAX overrides, stacked
and global headers, fallback names), `Decode` the pass over the members
(synthesized parents, duplicates, limits as they are met). Two orders of paths
are told apart, by segments and by strings ("n-" comes before "n/"), because
the tree gives its nodes in the first and both formats want the second.

### Service

Every body under the service lock is free of awaits, so a body is one step with
the code around it, and the steps are separated at the snapshot load, the
factory, `start()`, the runtime's close and the shared tasks. `patience` counts
how many cancellations a rollback absorbs: `_await_shared` absorbs one, and a
failed `start()` in `create()` passes it twice with another in between.
Identifiers come from generators that may repeat.

### EventDispatch

An event is its number. The mode is chosen in `Init`. A sink call takes effect
(`SinkStores`, `SinkRefuses`) and ends (`CallEnds`) in separate steps, so that
the worker's timeout may cut off a call whose event the sink has stored.

### HttpGateway

One operation, from the validation of its request to the published response.
Each hop normalises the target, asks the policy, resolves, classifies every
address, asks the policy again for the address, and sends what is left of the
budgets. Each collaborator runs in a task; it may answer, raise, be cancelled
by itself, or never answer, and the gateway may stop waiting for it at the
deadline or at one of two kinds of cancellation. The transport is either the
shipped one, against a peer that sends any of a set of heads, chunk lines,
trailers and pieces, or a foreign one that returns any evidence. What a host,
a URL or a field looks like is reduced to what the checks tell apart; the
length of a chunk size is that of its hexadecimal numeral, up to
`MaxHexDigits`.

### CommandExecutor, SecretBroker and the contract

The input is a sequence of lexemes. `Tokenize`, `Parse` and the expansion are
operators; the twenty commands are functions from arguments, input, context and
tree to a result that lists every tree the command publishes on the way, so a
stop may fall between two of its mutations. The steps of `CommandExecutor` are
the stretches between awaits, together with the broker's: slots are reserved
before the source answers, and the source may answer after the expiry, or after
the slot was purged and given to somebody else (`theirs`).

`CommandContract` says the same without any of it: a plan is refused or
accepted whole; a unit is skipped or entered by the exit status before it; what
it may touch is nothing, one file or the tree; cwd and environment move with a
unit that succeeds and are published with the whole plan or never. `Abort` says
what holds of the code: a stop may leave the effect of the unit it interrupts,
a redirection written as the deadline passed included. The documentation
promises more for redirections, that a stop leaves the destination unchanged:
that is `WrittenOnlyAtEnd`, stated apart, and the executor breaks it (run
`executor_stopped_redirect`).
`CommandExecutor` implements it under the mapping `Promise` (`INSTANCE
CommandContract WITH ...`): the contract's `grant` is computed from the stage
the unit is in, `todo` from the rest of the plan.

The commands, the parser and the output collector were compared with the
implementation on 108 command lines while they were written, and the archive
decoder on 14,539 archives built with the same records: model and code accept
the same ones.

### AgentsAdapter

Client calls allocate a sandbox and hand out a provider session; its lifecycle
calls exclude each other by a lock, its file operations, exec and manifest
applications do not: `Tasks` are the host's tasks that may each have an
application under way in the same session. Operations of the core session are atomic steps here
(that is what `Session` is about). Others may take a sandbox away at any time,
snapshots expire, the store fills. `work` counts what was done in a sandbox and
travels with a saved state: it is what `DurableState` and `ResumedHasItsWork`
compare. A stop has two awaits after its export, and others come in at each:
from "checking" the snapshot of before is found good (`PersistContext`) or
expired (`SnapshotLost`), from "saving" a new one is saved, refused or left
uncertain. `HydrateWorkspace` is given a stream that knows its revision, or
bare bytes, which are taken for what the state describes (`Claimed`). Some
simplifications: a session with a `NoopSnapshot` is one that is
never stopped; a deletion is effective when it begins; `closed` stands for both
flags every method tests; the SDK's base class is external (`start` runs
`_start_workspace`, `stop` runs `_persist_snapshot`); other snapshot providers
are the store that fails without saying whether it kept the snapshot
(`PersistUncertain`); `persist_workspace` and reads change nothing.

The actions of `SnapshotStore` take the store's variables alone, and every
action of the adapter that calls the store is built from one of them;
`StoreSpec` puts the same actions in the hands of any client.

## 3. Runs

| Run | Instance | Shows |
|---|---|---|
| `session` | seven pairs of a snapshot, an HTTP call, an execute with a secret, a portable restore, a snapshot restore and a write; one starter, one closer | `GateExclusion`, `EventOrder`, `EventStory`, `UnsettledFailsClosed`, `NoRevival`, `OutcomeMatchesEffect`, `LeasesReleased`, `NoLostUpdate`, `QuietAfterClose`, `EveryoneAnswered` |
| `session_close_doc` | one listing, one starter, one closer | violation of `CloseBeforeCancellation` |
| `workspace` | two names, paths of two, four mutations; two candidates, two committers, an editor, a foreign snapshot that fits and one that does not; 14,500 archives, 24,700 JSON documents | `TreeSound`, `TransferExact`, `CodecsExact`, `RestoreOnce`, `RevisionDiscipline`, `NoStaleEdit` |
| `workspace_round_trip` | the same trees | violation of `EveryTreeRestores` |
| `service` | a create, a resume, two users, one closer, two identifiers of each kind | `NoOrphanRuntime`, `IdentityUnique`, `ClosedIsEmpty`, `LookupIsLive`, `EverythingEnds` |
| `events` | five events, a queue of two, a sink of three, two closers | `AccountedOnce`, `DeliveredInOrder`, `DrainedAtClose`, `CloseCompletes` |
| `http` | requests, policies, DNS answers and peers of `MCHttp` | `AdmittedOnly`, `CumulativeBudget`, `EvidenceAccepted`, `HonestOutcome`, `SendReturns` |
| `http_compact_fields` | the same | violation of `OwnEvidenceConsistent` |
| `executor` | the command lines of `MCExecutor`; every sequence of up to five tokens | `SecretsContained`, `OutputFaithful`, `LeaseAccounting`, `ParserExact`, `ImplementsContract` |
| `executor_stopped_redirect` | the same command lines | violation of `StopLeavesTarget` |
| `adapter` | two provider sessions with a sandbox each, or one to which two tasks apply; three snapshots in a store of two, five calls, one mishap; 2,000 manifests | `NoOrphanSandbox`, `StoreAccounting`, `ManifestExact`, `DurableState`, `ApplyAtomic` |
| `adapter_resume` | two provider sessions, two sandboxes, one snapshot | violation of `ResumedHasItsWork` |

**Bounds.** A call, starter, closer or user acts once; callers that come again
are other members of the set. In `Session` two calls already contend for the
gate, and the third and fourth party are start() and the close task; a portable
restore is overtaken by one write. Which two meet is the CONSTRAINT `OneCast`
of `MCSession`: it keeps others from calling, and nobody has to call, so it
takes nothing from the fairness of those who did. The theorems of
`SessionProofs` have no such bound. `MaxRevision` bounds the history of a
workspace and `MaxDepth` stands for the path limit: two levels suffice for
parents, children, overlapping transfers and a graft that is itself too deep.
In `MCWorkspace` restores and editors meet on trees of up to three nodes, two
restores without an editor on two (`Bounded`); mutations alone, and the codecs,
have all trees.
In `WorkspaceCodecs` `MaxSnapshotBytes` lies between the archives of small and
of large trees, so that export is refused for some; archives have up to two
records of every kind and up to four of the eight that can conflict. In
`EventDispatch` `MaxEvents` exceeds `Capacity` plus the event in flight and
`SinkLimit`, so both overflow. In `HttpGateway` two hops, one informational
response and budgets of a few bytes put the limit between two hops. In
`CommandExecutor` three lessees contend for two slots, and output, argument and
plan limits are below what the longest lines need. In `AgentsAdapter`
`MaxCalls` counts what the host calls, start apart, `MaxMishaps` failures,
cancellations and acts of others, `MaxBoxes` and `MaxSaves` the identifiers
drawn: create, write, stop and resume after the sandbox was lost, and one call
more, fit, and so do three saves, the last of which a store of two refuses.
A third sandbox is drawn while there is one provider session (`Bounded` of
`MCAdapter`): its own and two for staging, so that two applications can be
ready to publish at once. Symmetry is used only in runs without liveness
properties. `session` uses a VIEW that leaves out the locals of finished calls
and, of the event history, what its future cannot tell apart: the actions do
not read it, and the view keeps whether `EventOrder` and `EventStory` hold and
all that decides whether the next event breaks them. `workspace_round_trip`
has a VIEW of tree and revision.

**Deadlock** is not checked: every system here may stop when its callers do.

**Fairness.** Only what the event loop does by itself is fair: tasks that are
ready run, deliveries and scope closes have deadlines, and collaborators other
than the HTTP gateway end once cancelled. No caller has to act, nothing makes a
collaborator return on its own, no HTTP task has to settle
(`_settle_cancelled_collaborator` gives up after its grace period instead), and
a required event delivery has no deadline inside the dispatcher. In `Session`
the gate itself needs no strong fairness: a queued operation has a timeout, and
the close task competes only with calls that run once. In `Service` one weak
fairness condition covers all tasks that can go on: each call is made once, so
every behaviour is finite and none can be starved. In `HttpGateway` the clock
reaches the deadline, the gateway's own code runs, and a transport that was
told to stop and is not stuck stops; peers, resolvers and policies need not
answer.

**Findings.** Five runs record a disagreement.

* `session_close_doc`: `close()` waits for the shared close task through a
  shield; after a first cancellation it waits once more, and a second one in
  that wait leaves while the task is still at work
  (`docs/components/sandbox-session/README.md:468` promises that cancellation
  propagates after the cleanup). The task itself goes on: `EveryoneAnswered`
  holds with any number of cancellations. `delete()` of the service waits in
  the same way (`docs/components/sandbox-service/README.md:383`).
* `workspace_round_trip`: a path of more than 100 bytes whose header tarfile
  cuts off behind `/.` or `/..` (a dot file 98 or 97 bytes down) is exported and
  then refused by `_validate_raw_header_name` when it is restored; the
  implementation raises `SnapshotCorruptError` for an archive with
  `<98 characters>/.gitignore`. `docs/components/workspace/README.md:368` says
  PAX records support paths beyond USTAR limits. `CodecsExact` of
  `workspace` asks the round trip of every other tree (`CutBehindDots` are
  the exception, as long as the code has it).
* `executor_stopped_redirect`: `_execute_plan` checks for a stop once more after
  a redirection has written its destination (`executor.py:212`), so a call that
  ends by timeout or cancellation may leave it changed, against
  `docs/components/command-executor/README.md:695` (and `:344`, `:785`).
* `http_compact_fields`: a field without the optional space after its colon
  makes the transport count one byte less than its own evidence object demands,
  and a well-formed response is reported as a failed attempt.
* `adapter_resume`: the state of a replacement that was resumed and not yet
  started, resumed again, reattaches to the bare replacement, works on the
  manifest alone and persists that over the durable state.

Further observations that no run is about:

* a working directory that was removed is persisted with the session's state
  and then refused at every resume;
* a failed start of a session that was created and never started deletes its
  sandbox although another session may have reattached to it.

## 4. Proofs

Eight modules prove what the runs check, for every value of the constants. Each
has its inductive invariant (two of them one on top of another), a lemma per
action (or per group of actions with
one shape) that the step keeps it, and short theorems that draw the checked
property from it. Every inductive invariant was model-checked on the instance
of its component's run before it was proved.

**Assumptions.** They are the named `ASSUME`s of the component's module, which
TLC evaluates on every run: sets of actors are disjoint and sentinels are no
members of them; limits are natural numbers; in the HTTP modules requests,
grants, policies, resolver answers and what a peer sends have the types that
the frozen dataclasses enforce (`GrantsAreValid`, `RulesAreValid`,
`RequestsAreTyped`, `AnswersAreAddresses`, `ForeignResponsesAreTyped`,
`FaultsAreNoAnswers`, `PeerSendsBytes`); a foreign snapshot is a tree
(`ForeignAssumption`); an execute's own lessees are lessees (`OwnAssumption`);
the limits of a command are positive (`CommandLimitsAssumption`, which
`CommandLimits.__post_init__` enforces), as are those of the snapshot store
(`StoreAssumption`, from `SnapshotStoreLimits` and the check of `default_ttl`);
the two bytes of a character differ (`CharacterAssumption`) and are no symbol
of any other kind, and no diagnostic of the code shows the secret
(`SymbolAssumption`); a command line is made of characters
(`ScriptsAssumption`); what the session holds before the call does not show
the secret (`TreeAssumption`, `EnvironmentAssumption`), although the secret
itself and the commands that read it are any.

**`SessionProofs`**: `GateExcludes`, `EventsInOrder`, `FailsClosed`,
`NeverRevived` and `TypeCorrect`, from `IInv`. `TypeOK` is inductive, and
`GateExclusion` needs nothing else, once every release is shown to be by the
holder. The others are not inductive alone. `EventOrder` needs `EventInv`:
nothing in the log is above the sequence counter, and whoever is delivering has
the newest number, which no delivered event has; that the emitter is alone
comes from `GateExclusion`. `UnsettledFailsClosed` needs `UnsettledInv` (an
unsettled task's call is still settling, is reporting or has gone, and only in
the first case may the session be running), which in turn needs `LifecycleInv`
and `LeaseInv`: a call on its way out through its leases is an execute and has
no HTTP task.

It goes on to `OutcomesMatch`, `StoryTold`, `NoLeaseLeft`,
`NoUpdateLost` and `QuietOnceClosed`, which need `OInv` on top of `IInv`. A reported
outcome matches the effect because `PhaseInv` says, for every place a call can
be, which collaborator steps it can be at and what has become of its task; a
lost update is excluded by `SourceInv`, that between the comparison and the
replacement the workspace is still the one compared, which holds because only
the holder of the gate writes (`Writer`); the events tell a story because the
log ends in the events of the call under way (`Telling`).

**`WorkspaceProofs`**: `TreesSound`, `RestoredOnce`, `RevisionsDisciplined`,
`EditsCurrent` and `TransfersExact`, from lemmas on paths (`PrefixOrder`,
`Rebase`, `RebaseMonotone`) and trees (`PutShaped`, `PruneShaped`,
`GraftShaped`): grafting a subtree elsewhere keeps every node below
directories, and the paths it is moved to are exactly those below the
destination. Sizes are only ever measured by `Fits` before a commit, so no sum
has to be computed.

**`ServiceProofs`**: `RuntimesOwned`, `IdentitiesUnique`,
`ClosedServiceIsEmpty` and `LookupsLive`. The invariant says who holds which
reservation (`CallInv`), what a record stands for (`RecordInv`), how far each
runtime is (`RuntimeInv`) and what a close that has begun waits for
(`CloseInv`): everything registered or pending when it began, and nothing new
comes in afterwards.

**`EventDispatchProofs`**: `EventsAccounted`, `EventsOrdered` and
`CloseDrains`. `DrainedAtClose` needs `QueueInv`, that the join counter equals
the items queued plus the one in the worker's hands, and `CloseInv`, that after
the join only the stop marker is queued. `AccountedOnce` and `DeliveredInOrder`
need `OrderInv`: what is stored, in flight, queued and yet to come are numbered
in that order, so an event that is reported is in none of the other places, and
one whose call has been stored is in the sink.

**`HttpGatewayProofs`**: `AdmittedTargetsOnly`, `OneBudget`, `EvidenceAgrees`
and `OutcomeHonest`, from `HInv`. It follows the transport's accounting through
the phases of an attempt (`SpendInv`: every byte taken from the stream is in
exactly one account, within the limits of the attempt; `FramingInv`: the
framing chosen from the head is the one the gateway will expect) and the gateway
through a hop (`HopInv`, `DialInv`); `AttemptInv` ties the attempt's limits to
what the budgets have left, which is why the attempts together stay within one
budget. A first group of lemmas (`...Codes`) says which error codes each
validation can give, so that a published outcome is never one of them.

**`CommandExecutorProofs`**: `LeasesAccounted`, `ContractImplemented`,
`CollectorFaithful` and `ParserAgrees`. The first follows from `BrokerInv`: the tokens of
open leases are distinct and below the next one, a record belongs to an open
lease, and a lease that can still be read has its record. The number of readable
leases is bounded through the injection of leases into records; a purge that
gives the slot of an expired lease to somebody else is why "readable" and "open"
have to be kept apart.

`ContractImplemented` is the refinement: `Spec => Promise!ContractSpec` under
the mapping of `CommandExecutor`, one `...Maps` lemma per action. It needs
`PlanInvariant`: what the parser hands over is a well-formed plan; the
environment of a unit is the session's with the changes committed so far; and a
stage or a redirection that runs was prepared and not refused. For that every
command of the profile has to be looked at: one that only prints leaves trees,
directory and environment alone, and one that moves or assigns writes nothing.
The lexer, the parser, `cat`, `ls` and the changes of the environment are folds.
That a fold ends in the last of a sequence of states, each from the one before,
is proved for each of them (`...Fold`), from a least counterexample
(`LeastFailure`, over the well-founded order of the naturals) and not by an
induction theorem, which this prover cannot instantiate; the type of the state
is then kept along that sequence in the same way.

`CollectorFaithful` is the lemma behind `OutputFaithful`: of any texts of whole
characters a `BoundedOutputCollector` keeps a prefix in whole characters, counts
all of them and says whether something is missing.

`ParserAgrees` is proved along the states of the parser, token by token
(`Follows`): it has an error exactly when the tokens read so far cannot begin a
command line (`Begins`), it otherwise stands where the last two tokens put it
(`Place`), and rendering the units, stages and words it has collected, with
what is pending behind them, gives those tokens (`Said`). `ParserGrammar` says it
of any sequence of tokens; the theorem is about `Phrases`, whose tokens are
assumed to be words and the operators that `tokenize` knows
(`PhrasesAssumption`).

Where conditions overlap and the first that holds decides, the model says
`IF ... ELSE IF` in the code's order: a `CASE` leaves the choice between
overlapping guards open, to TLAPS as to a reader. A `CASE` here has guards that
exclude each other.

**`CommandOutputProofs`**: `ValuesContained` and `StreamsFaithful`, the theorems
about what an execute prints and leaves behind, from `TextInv` on top of the
`PlanInv` of `CommandExecutorProofs`. `PlaceInv` says that tree, working
directory and environment do not show the secret and that the environment is in
whole characters; `StreamInv` that each collector holds what was emitted so far,
cut between characters; `StepInv` what the arguments, the pipe and the result of
the stage at hand are: whole characters, with the secret in them or not.

Most of the module is about the commands. `HandlerNeat` says of every handler
that its result is in whole characters whatever files, input and arguments are,
with a lemma per command: a file is any bytes, but `read_text` refuses what is
not whole; records, matches, runs of equal lines, sections and counts are pieces
of texts cut at symbols that are no bytes of a character, and pieces put
together again (`FlattenTexts`, `SubText`). Only `sort` and the listings reorder,
and what they build by insertion holds the elements it was given. A second group
of lemmas (`...Tidy`) follows the mutating commands through the tree: they are
refused when an operand shows the secret, and copy, move, append and remove put
nothing in a tree that was not in it or in the operands. That `grep` or `cat`
print the secret is no exception: `_sanitize_stage` rewrites what a stage leaves
before it is collected, redirected or committed, and `Redact` keeps texts whole.
The protection is that of the redactor, whether or not the lease is still open,
so that an expiry in the middle of a plan changes nothing. The secret is one
symbol, the value of the call's leases: a call that binds none has nothing to
protect in it (`ScriptsAssumption`), and other pieces of text that together
happen to spell the secret are not told from it by this model.

A number that no symbol of the instance names prints as `Many`; the theorems say
nothing of which numeral it is.

**`AgentsAdapterProofs`**: `NoSandboxOrphaned`, `DurableStateKept`,
`AppliedAtomically` and, for the store, `StoreAccounted`, `TreesSized` and
`AdapterStoreAccounted`. The first three follow from `AInv`. A sandbox that a
session allocated is its own (`Distinct`), which makes the steps of one session invisible to the invariant of
another (`RestsGoOn`, `OneGoesOn`); `WorkOK` says that a workspace has all the
work of the durable state made from it, from the moment it was restored, and
`ApplyOK` follows each manifest application from its export to its publication,
whatever the session's other applications do (`OthersApply`).

`StoreAccounted` is about `StoreSpec`, the store in the hands of any clients and
with drafts of any size. `Payload` is a fold over a set that picks its elements
by `CHOOSE`; the `Total...` lemmas show that such a sum exists for every finite
set, that any element, and then any subset, may be the one that is taken out,
and that it is never negative, each by a least counterexample among the finite
subsets (`SubsetInduction`). `AdapterStoreAccounted` carries the result over to
the adapter: each of its steps is a step of `StoreNext` or none. A step of
`StoreNext` saves a draft whose size is a natural number, so the trees of the
adapter have to be finite. `TreesSized` proves that: by `SizeInv` every tree in
the adapter's hands, of a running sandbox, of what a stop has exported, of what
a manifest is being applied to and of a portable snapshot, has finitely many
paths and contents with a length. It rests on two things. `CallersAssumption`
says that manifests, batches, streams, paths and contents that callers name are
finite. And the folds of the model (`Normalized`, `FilesOf`, `ByDepth`, the
materialisation, `TotalBytes`) are followed by one scheme: a fold over a finite
set that takes its elements in a fixed way has a value (`RecursionExists`), and
what every step keeps, the value has (`RecursionKeeps`). `ByDepth` gathers the
directories depth by depth, where the code sorts by depth and then by name; the
names of one depth may come in any order, since none of them is above another.

**Only model-checked.** Liveness (`EveryoneAnswered`, `EverythingEnds`,
`CloseCompletes`, `SendReturns`): the prover has no rules for fairness.
`CodecsExact` and `ManifestExact` compare operators with a reference on every
input up to a bound. For all inputs each of them is an induction over data of
its own, through sorted listings and sums. Of the safety properties the runs
check, these two are the only ones without a theorem.

## 5. Not modelled

* Request validation of the session, response snapshots, redaction, diagnostics
  text, identifiers, clocks: no state.
* The policy engine: a stateless port; where it is asked it may deny.
* Hashes, base64, JSON text and gzip as bytes, the envelope of a session
  snapshot (`snapshots/codec.py`), hunk matching of patches, sockets and TLS:
  data transformation and I/O.
* The adapter's tool definitions (`capability.py`), which only call the
  operations that are modelled.
* Samples, benchmarks and evaluations: programs that use the library.
* `InMemoryEventSink.close` and `query`; the dispatcher's worker-failure path,
  which is reached only if the loop's exception handler itself raises.

## 6. What is left

1. The session envelope of `snapshots/codec.py` as operators.
2. The validation of requests and the rendering of responses in `session.py`,
   where it decides an outcome.
