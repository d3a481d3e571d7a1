# A2W in TLA+

A2W stores automation workflows (graphs of nodes), validates them, and executes
them on behalf of agents that reach it over REST or MCP. This directory holds
TLA+ modules for the parts of it whose correctness depends on the order of
events or on many inputs at once, the TLC configurations that check them on small
instances, and TLAPS proofs, for every size of instance: of its protocols (the
engine, resumption, idempotency, approvals, references and nesting, credentials,
calling nodes, migrations) and of its tools (validation and rewriting, authoring,
search, the skill library).

Paths below are relative to the repository (`src/`); `engine.rs` and so on live
under `src/crates/`.

## 1. The system

| Component (crate) | State | Operations | Talks to | What is hard | What makes it correct |
|---|---|---|---|---|---|
| Engine (`a2w-engine`) | per run: `done`, `outputs`, the node futures of a wave; per engine: one semaphore; an event log | `run`, `run_with_id`, the wave loop, `execute_with_retry` | executors (callbacks), step source, validator | nodes of a wave and several runs interleave; retries; a node fails while its siblings run; the run is dropped at any await | nodes fire after their producers and only on routed input; no permit is lost; committed outputs are final; every run ends |
| Validator (`a2w-validator`) | none | `validate` | IR, `petgraph` | cycles, reachability, ports and parameters of any graph | accepted workflows never stall the engine; what it says of parameters agrees with what the nodes do |
| IR (`a2w-ir`) | none | serde types, JSON schema | everyone | – | – |
| Store (`a2w-store`) | SQLite tables: workflows, references, runs, step records, idempotency keys, approvals, skills, credentials | one method per statement or transaction; migrations at start | server, nodes, MCP | nothing spans two statements unless it is a transaction; crashes | each table's protocol, below |
| – idempotency keys | a row per (workflow, key): run id, `in_progress`/`completed`, expiry | `claim`, `complete`, `release`, `reap` | `run_workflow` handler, reapers in `main.rs` | check-then-act across statements, expiry, a handler dropped between steps, lost commits, crash and restart | one canonical run per key; no row stuck for ever; replays find their run |
| – runs and step records | a row per run, a row per step event | `save_run_full`, `save_run_with_steps`, `get_run`, `hydrate` | engine (as step source), `resume_run` | resumes that run concurrently, or on another version of the workflow | nothing that finished fires again; records survive |
| – workflows and references | workflow rows, edges between workflows | PUT with cycle check, DELETE with referrer check | handlers, sub-workflow node | checks and writes are separate statements | no cycle unless raced, no dangling reference unless raced |
| – approvals | a row per (run, node, item index): pending, approved, rejected | insert, decide, poll | approval node, `decide_approval` | the decision races the timeout; polling holds a permit | a decision is final and acted on once |
| – credentials (vault) | a row per id: nonce and ciphertext; per process: the master key | `store_secret`, `get_secret`, `list`, `delete` | MCP tools, the resolver of a run | the key changes between starts, two servers share the table, the key may be missing or unusable | what is stored is readable under its key; no silent operation without a vault |
| – skills | a row per skill id | `save_skill`, `get`, `search` | MCP | clients promote and look up at once | a row is one promotion |
| – migrations | `schema_version` | `init`, `run_migrations` | – | crash between DDL and version bump; statements whose result is discarded | restart converges to the last version without losing keys |
| Server (`a2w-server`) | metrics, shutdown token, background task tracker | REST handlers, request timeout, graceful shutdown | store, engine | futures dropped by the timeout, drain budget | every request is answered or dropped cleanly |
| Nodes: routing and data (`a2w-nodes`) | none | branch, switch, loop, merge, wait, transform | engine, expressions | parameters of any shape, empty lists, items that match nothing | every item leaves once, on a port there is |
| Nodes: calls (`a2w-nodes`, `a2w-llm`) | a child process, a sandbox thread, a pinned client | `http_request`, `mcp_tool_call`, `llm_call`, `code_step` | the network, processes | redirects, DNS that changes, silent peers, retries, cancellation | what is sent was checked; nothing is left running |
| Nodes: sub-workflow | a stack of engines | `execute` | store, engine | recursion over workflows that change | the depth cap; credentials only by opt-in |
| Expressions (`a2w-expr`) | lexer position, parser depth | `eval`, `render` | transform | caps, laziness, two template languages | texts mean what the grammar says, data is not read as text |
| Authoring (`a2w-author`) | attempt, message, iterations | generate, validate, dry-run, repair | engine, validator, LLM | loop bound, what is reported at the bound | success only for an answer that passed every check |
| Search (`a2w-search`) | beam, seen set, best | `evolve`, mutations | verify | ties, caps, holdout hygiene | the best of all that were scored; an independent certificate |
| Verification (`a2w-verify`) | none | run a plan, score, threshold | engine | vacuous checks | evidence that could have failed |
| Skills (`a2w-skills`) | library of promoted workflows | promote, find, compose | store, verify | several clients | what is promoted meets its plan |
| Optimizer (`a2w-optimizer`) | none | analyse, rewrite, profile | IR | rewrites over ports and fan-in | the dataflow outside a rewrite is unchanged |
| MCP (`a2w-mcp`) | policy, an engine, a store if there is a vault | tools | the crates above | each tool gates itself | no write without leave |
| Import, OpenAPI, templates | none | conversion, fixed data | – | – | – |
| Test kit, acceptance, bench, dashboard | none | drive the above | – | – | – |

`PROJECT.json` lists every component with its status and every hazard at its line.

## 2. The modules

| Module | Lines of code it stands for | What it is |
|---|---|---|
| `Engine` | `a2w-engine/src/engine.rs`, the graph checks of the validator | the wave scheduler, several runs on one engine |
| `Dataflow` | – | the abstract promise of an execution: no waves, permits, retries or events |
| `EngineProofs`, `IdempotencyProofs`, `ApprovalProofs`, `SubWorkflowProofs`, `NodeCallsProofs`, `MigrationsProofs` | – | the TLAPS proofs about the module they are named for; `EngineProofs` is also about `Resume`, `SubWorkflowProofs` about `WorkflowRefs` |
| `ToolProofs` | – | the proofs about `Search`, `Skills`, `Vault` and `NodeParams` |
| `AuthoringProofs` | – | the proofs about `Validation`, `Rewrites` and `Author` |
| `Idempotency` | `run_workflow`, the idempotency methods of the store, reapers and shutdown of `main.rs` | the two-phase claim on one (workflow, key) |
| `Resume` | `resume_run`, `save_run_*`, `hydrate`, the hydration part of `run_with_id` | EXTENDS `Engine`: several executions of one run id over one set of records |
| `WorkflowRefs` | `put_workflow`, `delete_workflow`, `check_sub_workflow_cycle`, the reference index of the store | PUTs and DELETEs that overlap |
| `SubWorkflow` | `sub_workflow.rs`, the resolver of `state.rs` | EXTENDS `WorkflowRefs`: a run that calls stored and inlined workflows while they change |
| `Approval` | `approval.rs`, `StoreApprovalGate`, `decide_approval` | executions of one approval node, and people who decide |
| `Migrations` | `init`, `run_migrations` | every statement of a boot, with crashes and failures between them |
| `NodeParams` | `check_node_params`, the parsers of every node, branch, switch, loop, merge, wait | the three readers of parameters, and where items go |
| `Expr` | `a2w-expr`, the templates of `transform.rs` and `template.rs` | lexer, parser, evaluator and templates, against a grammar |
| `Vault` | `vault.rs`, `resolver.rs`, the credential tools and policy of MCP, both `main.rs` | starts of two servers over one table of credentials |
| `NodeCalls` | `http_request.rs`, `mcp_tool_call.rs`, `llm_call.rs`, `code_step.rs`, `execute_with_retry` | one execution of a calling node, await by await |
| `Validation` | `validate` | the checks of the graph with the algorithms that the code uses |
| `Rewrites` | `operators.rs`, `compose.rs`, `optimize.rs`, `graph.rs` | EXTENDS `Validation`: what rewrites do to a workflow and to what it computes |
| `Author` | `generate_workflow_from_prompt` | the repair loop |
| `Verification` | `a2w-verify` | checks, report, score and thresholds, as operators |
| `Skills` | `library.rs`, `persist.rs`, the skill tools of MCP, the skill methods of the store | EXTENDS `Verification`: clients that promote and look up |
| `Search` | `evolve`, `disjoint.rs` | EXTENDS `Verification`: the generations of a search |
| `MCEngine`, `MCIdempotency`, `MCResume`, `MCSubWorkflow`, `MCApproval`, `MCMigrations`, `MCNodeParams`, `MCNodeCalls`, `MCRewrites`, `MCSkills` | – | their instances |

`MCNodeParams`, `MCRewrites` and `MCSkills` hold several modules that share no state:
a variable `side` says which one a behaviour is about, and the others do not move.

### Engine

`stage[r][n]` merges what the code keeps in `done`, `outputs` and the state of
the node's future: `pending` is not done and not in the wave, `waiting` is at
`semaphore.acquire`, `running` holds the permit (the executor or a retry backoff
runs), `produced`/`failed` is the `NodeOutcome` that `join_all` has not handed
over yet, `done` is committed, `orphaned` is done because the BFS from the
trigger did not find it, `dropped` is a future dropped with its run. `status[r]`
is the place of `run_with_id` between awaits, or its result. Planning a wave has
no await and is one action (`PlanWave`), which also marks runnable nodes without
routed input as done; `Start`, `Retry`, `Succeed` and `Fail` are the await
points of a node future; `CommitWave` and `Abort` follow `join_all`; `Cancel`
is the caller dropping the future (request timeout, disconnect). A workflow has its
own nodes among `Nodes`; those in `untimed` call a peer without a timeout.

Executors are external: one may return any sequence of at most `MaxItems` items
on any ports, or an error. Payloads are reduced to lineage and port. The order of
items within an input is not modelled. Acyclicity and reachability are written by
their definitions (over subsets of nodes), not by the traversals that compute
them, so that they can be proved about. The module ends with the mapping of its state to
`Dataflow`'s (`TurnOf`, `VerdictOf`): there a run has turns and a verdict, and waves,
permits, retries and events are gone.

### Idempotency

All statements are scoped by the primary key, so one key is all the module needs.
Each action is one SQL statement or one await of the handler: the claim is
`Insert` (INSERT OR IGNORE), `Select`, and, by what it found, `Fetch`, `Adopt`,
or a second `Insert`; then `Fire`, `Return`, `Save`, `Commit` or `Release`, with
`Error` for any statement that fails. `Settle` and `Defer` are the background
commit. `Drop` is the timeout layer or a disconnect at any await; `Crash`,
`Shutdown`, `Exit`, `Boot`, `PeriodicReap` are the process. The run itself is
reduced to whether executors were called and how it ended.

### Resume

The `Runs` of `Engine` become executions of one run id: `Original` mints it, the
others are resume requests. `Save` is the transaction that replaces all rows of
the run id; `Load` the two reads of the handler with the fingerprint check;
`Probe` and the `Hydrate…` actions one step-record read each, `Rejoin` what
`run_with_id` does after the last probe. `HydrateCorrupt` is enabled for every
node, since a row may fail to read or to parse, or belong to a node whose kind
changed, and node kinds and payloads are not modelled. Refused resumes
(404, 409) change nothing and are disabled actions. The original may be a dry
run: it is saved without fingerprint, and no later save gives it one, so its workflow
may be replaced before each resume, which always runs for real. The versions may
have different nodes: a save writes rows for the nodes of its own version only, and deletes
all others. `Lost(n)` says that this has happened to node n.

### WorkflowRefs

A workflow is its id and the set of ids its `sub_workflow` nodes name. The walk of
a PUT reads the references of one workflow per statement (`Read`) and caches them
(`known`); `Cyclic` and `Unread` are what its depth-first search computes from the
cache: it ends in a refusal exactly when the cache holds a path beyond the cap
(a cycle is one), and goes on exactly while something it has come across is
unread. The order of the reads is left open. `Save` and `Remove` are transactions.
`stale` is a history variable: the requests that another request's save overtook.

### Approval

Each action is one statement or one sleep: `Look` and `Create` are the two halves
of `StoreApprovalGate::request`, `Decided`, `Pending` and `TimeOut` the outcomes of
a poll, `Fail` a statement that fails, after which the engine may try the node
again from the first item. `Decide` is the guarded UPDATE of the endpoint. Several
executions of one run share the rows, since ids consist of run, node and index;
their inputs are chosen independently of each other because a resumption may get
items from producers that had failed before. The dry run of the node touches no
state.

### SubWorkflow

`frames` is the stack of engines that one run has built, the outermost first; a
frame holds the nodes that are left to call, the failed attempts of the one that
executes and whether the engine has a credential resolver. `Call` reads the
sub-workflow at that moment (`StoreSubWorkflowResolver`) and pushes a frame,
`CallFails` is the depth gate or a workflow that is not there, `Return` and
`HandleError` are what the engine of the caller does with the result. The requests
of `WorkflowRefs` go on all the time. The nodes of one wave would hold stacks of
their own that share nothing, so one stack is enough. `edited` is a history
variable: a PUT was saved since the run began.

### Migrations

A migration is a script of statements: CREATE, ALTER, probe, rebuild, backfill,
version bump. `objects` is the set of tables, columns and indexes there are.
Each statement is an action, and so is its failure; statements whose result the
code discards fail into `skipped` and `lost` (history variables) and the boot
goes on. The rebuild of the key table is a transaction, hence one action.
Databases start at any version the program has ever written, older key tables
included.

### NodeParams

A parameter is reduced to the shapes that one of its readers tells apart: absent,
of the right type, of a wrong one, blank, a template. `Validate` collects what
`check_node_params` reports, `BadInDryRun` and `BadAtRun` are the errors of the
executor. Where it does more in the run than parse, there are two
definitions: `BadMcpSpec` and `BadCode` are what dry run and run both reject, `BadMcpCall`
and `BadModule` what the run rejects once it starts the server (transport, command, environment,
arguments) or loads the module (base64, path, function). Items are numbered, and carry
what routing looks at.

### Expr

A text is a sequence of lexemes from a family (logic, arithmetic, numbers, strings,
paths, lazy functions, other functions, templates); TLC chooses all texts of a
family up to its length. The parser has the state of the code's: tokens, position, depth.
`ParsedAsGrammar` compares it with the grammar in the crate's comment. Values are JSON types; a float is a fraction.

### Vault

`credentials` is the table, `servers` the processes (REST and MCP) with the key
they read from the environment at their start. The cipher is external: a
ciphertext is the record of key, nonce and secret, and opens under that key and
nonce only. A nonce is fresh for each write. `stored` is a history variable: what
was last stored under an id and with which key.

### NodeCalls

One execution of a calling node over its items. Every await is an action with the
answers that peer can give; `Prompt` bundles the steps that end by themselves
(timeouts of DNS and HTTP, local work), `Patient` those that wait for a peer without
timeout (MCP handshake and call, LLM completion). `Cancel` drops the run at any
await; the sandbox thread and the child process then end on their own
(`SandboxEnds`, `ChildKilled`). Addresses are public or private; a name may
resolve differently at each look-up.

### Validation and Rewrites

`Validation` has the algorithms: the graph of usable edges, the cycle check, the
breadth-first search. `Rewrites` starts from any workflow, validates it, and applies
the mutations of the search, a composition or a suggestion of the optimizer;
`Outcome` evaluates a workflow: the multiset of items that each node emits, with what
transforms do to them, and whether it fails. Items are objects or not: a Transform without a `set` (mark
`empty`) passes on both, one with `{"set":{}}` (mark `blank`) fails on what is no
object, as one with entries does. Every comparison of two workflows is over the
trigger inputs of `SeedLists`, with and without an item that is no object.

### Author

Answers are a document in a wrapper (prose, fences, both) with a quality: no
workflow, not sound, fails its dry run, good. Each of completion, parse,
validation and dry run is an action. `Width` is 2^32 scaled down.

### Verification, Skills, Search

A workflow is reduced to what its observed node emits: which field it reads, which
items it lets through, along how many paths, whether it fails on one.
`Verification` runs each check of a plan on it. `Skills` has one action per await
of the promotion and look-up tools; a promotion may replace the whole row of another client,
since the last one to save wins. `Search` has one action per scored
candidate; `Derived` says what operators make of a candidate, and what
they really make is the business of `Rewrites`.

## 3. What the runs check

`Four`, `Three` etc. are defined in the MC modules.

| Run | Instance | Checks |
|---|---|---|
| `engine_graphs` | one run; every DAG on 4 nodes with a two-port node, tolerated errors on one node, a retry on another; six workflows that must be refused; 2 permits | `TypeOK`, `ScheduleInv`, `FiredOnInput`, `NeverStalled`, `LedgerAccounts`, `CommittedOnce`, refinement `KeepsPromise` |
| `engine_shared` | two runs on one engine with a single permit (`with_max_concurrency(0)`), 3 nodes, one of which may call a silent peer | `PermitsConserved`, `EndedIsFinal`, liveness `EveryRunEnds` |
| `claims` | three requests, two seconds of TTL clamp, one restart, one commit retry | `OneRunPerKey`, `AdoptionExplained`, `ReleasedByOwner` |
| `recovery` | two requests, two background attempts, one restart | liveness `StrandedFinalized`, `EveryRequestEnds` |
| `resume` | original (run or dry run) and two concurrent resumes, three graphs on three nodes and two on two of them that replace one another, a cyclic one and one with an unknown kind, tolerated errors | `ResumesTheRest`, `RecordKept` |
| `references` | three PUTs and DELETEs on three ids without a run; two PUTs and a DELETE on two ids during a run; depth caps 3 | `ReferencesSound`, `NestingSound`, `DeletesUnreferenced`, liveness `EverythingEnds` |
| `approvals` | two executions with one or two items, two decisions, one retry | `GateKept`, liveness `EveryExecutionEnds` |
| `migrations` | any database of versions 0 to 7 with two workflows and rows of one key; one crash, two failing statements | `SchemaSound`, `KeysKept`, liveness `ComesUp` |
| `node_params` | parameters of every shape for every kind of node, up to two items; all texts of up to four or five lexemes of eight families; three starts of two servers with two keys, secrets and ids | `ReadersOfParamsAgree`, `RoutingSound`; `TemplatesSound`; `SecretsKept`, `SecretsHandled` |
| `node_calls` | two items, two attempts, every egress policy, one public and one private address, bodies at the cap | `CallsSound`, `SentAsChecked`, liveness `CallsEnd` |
| `rewrites` | every graph of up to three connections on three nodes (dangling and bad ports included), diamonds, transforms with no, an empty, a constant or an evaluated `set`, composed skills, two rewrites in a row, inputs with and without an item that is no object; up to eight answers of a model | `WorkflowsSound`, `RewritesHonest`; `AuthorSound` |
| `library` | three clients, plans for five intents with workflows that do what was meant or anything else; searches of up to four generations over six candidates | `LibrarySound`, `RightIsPromoted`; `SearchSound` |

Many of these are conjunctions of parts, each with a name and a comment of its
own in its module. What they consist of, besides the type invariant:

| Property | Parts |
|---|---|
| `LedgerAccounts` | `LedgerComplete`: the events of a completed run account for every node once; `CallsAccounted`: no more calls than the retry policy allows, each failed one with its event |
| `OneRunPerKey` | `FiresOnce`: apart from runs that failed and were never saved, one run fires, and at most one more for each adoption of an expired claim; `ReplaysSavedRun`: a completed row names a saved run |
| `AdoptionExplained` | `ReadLate`: the claim that an adopter has read was at least the least TTL old when it came; `OverwritesExplained`: the claim it overwrites is a younger one only if another adopter, or a release and a new insert, came between its SELECT and its UPDATE; `ConflictExplained`: conflicts come from adoptions, or from a reaper that was faster |
| `ResumesTheRest` | `NotRefired`: what the original run settled is not executed again, unless a save has `Lost` it; `ResumedOnInput`: the rest gets the input its producers settled on |
| `ReferencesSound` | `AcyclicUnlessRaced`, `IndexOfStored` |
| `NestingSound` | `DepthBounded`, `CredentialsAsOptedIn`, `NoRunInsideItself` |
| `EverythingEnds` | `EveryRequestEnds`, `RunEnds` |
| `GateKept` | `RoutedAsDecided`, `FirstDecisionWins` |
| `SchemaSound` | `SchemaAtVersion`, `IndexBackfilled` |
| `ReadersOfParamsAgree` | `NoFalseAlarm`, `DryRunFindsBadParams` |
| `RoutingSound` | `EveryItemLeavesOnce`, `NoCaseNoPort`, `OneSummaryPerList` |
| `TemplatesSound` | `ReadAsWritten` (`ParsedAsGrammar`, `BlanksChangeNothing`, `UnreadMayFail`), `ReadersAgree`, `FieldIsData`, `ReadsTheSnapshot` |
| `SecretsKept` | `NoSilentFallback`, `StoredIsReadable` |
| `SecretsHandled` | steps: `ResolvesTheCurrent`, `WrittenWithLeave` |
| `CallsSound` | `RepeatsThePrefix`, `CallsReported`, `PrivateNotReached`, `NothingLeftRunning`, `DryRunCallsNobody` |
| `CallsEnd` | `Ends`, `LeftoversEnd` |
| `WorkflowsSound` | `AcceptedIsRunnable`, `StaysValid`, `WarnedIfNeverFed` |
| `RewritesHonest` | steps: `PassthroughsChangeNothing`, `ObservedStays`, `ComposedRunsInTurn`, `CriticalPathIsLongest`, `GainIsHonest`, `ParallelizeIsLocal` |
| `AuthorSound` | `DocumentFound`, `SuccessIsGood`, `GivesUpInTime`, `RepairsTheLast` |
| `LibrarySound` | `EvidenceTells`, `WrongFieldCaught`, `RowIsOnePromotion`, `FoundInOrder` |
| `SearchSound` | `BestOfAll`, `BudgetKept`, `ConvergedIsExhausted`, `CertifiedApart` |

### Bounds, and why they are enough

- *Workflows.* Three nodes are the least with a branch whose arms meet again;
  four add a fan-out with a fan-in behind it, arms of different length, and an
  orphan that feeds a reachable node. Edges go from lower to higher numbers,
  which leaves every DAG up to renaming; cycles occur among the refused ones.
  One trigger, one two-port node: a second branch adds no new kind of guard.
- `MaxItems = 1`. A node routes to no port, to one or the other. What is
  routed to both ports at once behaves, for the scheduler, as two connections
  from one port, which the edge sets contain.
- *Permits.* 1 makes nodes of different runs wait for one another, 2 lets nodes
  of one wave overlap; the permit arithmetic is proved for every value.
- *Requests.* Two race for a row; the third may come between the owner and its
  adopter, or adopt from the adopter. TTL bounds are scaled to one and two
  seconds, and the clock runs one past expiry; only the order of the reads and the
  expiry matters. Attempts are scaled to 2 (one failure tolerated, one not).
- *Silent peers.* With a single permit one silent peer stops the other run too, which is
  the third case of `EveryRunEnds`; with more, several must be silent at once.
- *Resumes.* Two concurrent ones, so that each may save over the other. One node
  less, and then the other one, is what a version can lose and the next one look for.
- *References.* Three ids make cycles of two and three and a walk that reads twice;
  three requests put one reference in place before a DELETE and a PUT race. The cap
  of 20 is scaled to 3, which on three ids refuses exactly the cycles. The run starts
  from the requests in which something can happen to it: two PUTs that may race to a
  cycle, and a DELETE of what they refer to. Of the three requests without a run one may
  refer to more than one workflow (`OneBranches`).
- *Approvals.* Two executions race for a row or follow each other; two items make
  an index that shifts; two decisions race.
- *Migrations.* Two workflows may use one key once the key table is rebuilt, and only
  then. One crash after one or two failed statements reaches every half-made schema;
  crashes that follow on a boot that got further are the start of another version.
- *Texts.* The caps of the crate are scaled so that texts of five lexemes pass them:
  depth 3 for 64, and so on. Each family holds the lexemes that compete with each other.
- *Vault.* Two writes by two servers over two ids, and a third start with another key,
  are the least with an overwrite, a rotation and a reader with the old key.
- *Calls.* The second item is what a failure of the first leaves out, and what a retry
  reaches after sending the first again. The redirect limit is scaled with the chain.
- *Graphs of rewrites.* Three nodes and four connections hold every fan-in, fan-out,
  self-loop, cycle and dangling edge that a rewrite looks at; `Larger` adds diamonds.
- *Answers.* `Width = 8` makes `max_repairs + 1` wrap, as it does at 2^32.
- *Searches.* Six candidates that operators derive from each other in both directions,
  one of them invalid; four generations are enough to converge and to run out.
- *Symmetry.* Requests under one key are interchangeable, and so are master keys,
  secrets and ids of credentials (SYMMETRY, in runs without liveness). Where liveness is checked, `Sorted` and `SortedRequests` pick
  one representative of the initial states instead.
- `MaxClock` and `MaxBoots` only end the clock and the restarts. Since
  `StrandedFinalized` allows a process that stays down, the bound on restarts
  does not make it hold.

Deadlock checking is off in every configuration because runs and requests end.

### Fairness

`Engine`: weak fairness of each run's scheduling steps, of `Start`, and of the return of
each executor that ends by itself (`TimedReturn`). Tokio polls every ready task and the
semaphore is FIFO. HTTP requests, approvals, waits and sandboxed code are bounded by a timeout,
and mocks return at once; MCP calls, LLM completions and sub-workflows
that make such calls are not, so their return is owed to nobody (`Untimed`). `EveryRunEnds` therefore
has three cases: the run ends; one of its own nodes waits for ever for a silent peer; or
such nodes, of any runs, hold every permit for ever. `Return` bundles the outcomes of an
executor, so that a node may fail again and again as far as its policy allows; attempts are bounded. Weak fairness of
`Start` suffices only because nodes that hold permits give them back
and do not take them again: a FIFO queue would give strong fairness. `Cancel` is
owed to nobody: runs over REST have the request timeout, runs over MCP have none.

`Idempotency`: statements return (with a result or an error), and the run returns or
`TimeoutLayer`, which is always installed, drops its handler (`Handle(q) \/ Drop(q)`); background
backoffs are finite, the reaper is a timer loop as long as there is no shutdown,
the drain has a deadline, and someone restarts the process. Errors, early drops,
crashes, shutdowns, arrivals and the clock are not fair.

`WorkflowRefs`, `Approval`: statements return and sleeps end. Nobody owes a
decision or a request.

`SubWorkflow`: the steps of the run, whose nodes only call sub-workflows (a silent
peer below them is `Engine`'s business). `RunEnds` needs the depth cap and bounded
attempts, not the good will of the requests. `Migrations`: statements return, the
process is started again after a crash. `NodeCalls`: `Prompt` steps, which the code bounds
by timeouts or which are local, and the ends of sandbox and child. `Patient` steps are
not fair: `Ends` says that an execution ends unless it waits for a peer that has no
timeout. `Vault`, `NodeParams`, `Expr`, `Rewrites`,
`Author`, `Skills` and `Search` have no liveness: they are finite by construction.

## 4. What is proved

Every theorem is about any values of the constants that the module's assumption
admits, and about any interleaving. The assumptions say that sets of actors are
finite, that bounds and caps are numbers, and that distinguished values differ
(`NoKey` is no key, public addresses are not private); none of them bounds
anything. Of the tools they say that what is submitted has the type of the code's structs: workflows to
rewrite or to compose (`RewritesAssumption`), plans and what clients promote (`SkillsAssumption`),
candidates, plans and budgets (`SearchAssumption`), and that a JSON document begins and ends with
a brace (`AuthorAssumption`). Next to the theorems, each module proves its inductive invariant, which
TLC checked on the run's instance before it was proved.

### Engine

- `TypeCorrect`: `Spec => []TypeOK`.
- `ScheduleCorrect`: `Spec => []ScheduleInv`. This is the inductive invariant.
  `FiredOnInput` alone is not inductive: to know that a running node's producers
  are done one needs to know it of waiting nodes; that the set of done nodes
  does not shrink in a wave; that orphans are exactly the unreachable nodes; and
  that no node is in a wave unless its run is running. `RunInv` collects what a
  status says about stages, `NodeInv` what a stage says about producers and input.
- `FiresOnInput`, from `ScheduleInv` and `ReachedIsFed`: a node
  that the trigger reaches, and is not the trigger, has a producer, so that it was
  scheduled on routed input and not for want of any connection.
- `NoStall`, from `ScheduleInv` and `SomeRunnable`: in an acyclic graph the set
  of nodes that are not done has a member without producers in the set, and that
  member is runnable. This is the only place where `Acyclic` is used, and shows
  that the engine's stall error cannot be reached.
- `PermitsKept` and `BoundedFanOut`: free and held permits add up to `Permits`, so
  at most `Permits` executors run at a time over all runs. The argument counts the
  pairs (run, node) that are running (`PermitStep`), by the finite-set theorems
  of the library.
- `EndedStaysEnded`, `OutputsCommittedOnce`: two action properties.
- `LedgerCorrect`, `LogAccounted`: `LedgerInv` says for each stage which events and how many calls
  a node has; that a completed run's log is complete follows from the stages
  that its nodes are left in.
- `DataflowRefined`: `Spec => KeepsPromise`. Initial states map to initial states and each
  action to a step of `Dataflow` or to none: `Succeed` and the last `Fail` end a
  turn, `PlanWave` may begin several at once, and the verdict is that of the nodes.

### Resumption

`ResumeCorrect`, `ResumesOnlyTheRest`, `RecordsNotLost`. An execution takes the engine's steps, so types and
`LedgerInv` are inherited from the lemmas of `EngineProofs`. The scheduler's books are
not: a hydrated node is done before its producers are, and `ScheduleInv` is false here.
`ExecutionInv` and `ExecutedInv` say what is left of it for the nodes that are executed.
`RecordsInv` says that the records lose what the original finished only to a version without the
node, and only after a dry run (`Lost`), `ProbesInv` that a resumption which has read them holds it. Each needs the other: a resumption saves its
own outputs over the records, and they are as good as what it read.

### Idempotency

`ClaimCorrect`, and from it `OneRun`, `AdoptionsExplained` and the action property `FreedByOwner`. `ClaimInv` says of each await
of a request what its last read still means, since the row may have been adopted, completed,
released or reaped in between: `ReadsKept` that an adopter has seen a claim which had expired
and that a replay has seen a saved run, `OverwriteKept` that the row it is about to overwrite is
that claim, or another adopter's, or was claimed after a release, `HoldersKept` that until there is an adoption
the row belongs to whoever executes, saves or commits. `CountInv` (`PlacesCounted`) counts the requests that stand for the
key: with its free place they are at most one more than the adoptions, from which `FiresOnce` follows.

### Approvals

`GateCorrect`, `ApprovalsKept`. `AttemptKept` ties the place of an execution in its input to the
number of items it has routed, which is what tells to whom the row polled for belongs.

### References and nesting

- `ReferencesKept`, `NothingDangles`: `WalkKept` says that what a PUT has cached of a workflow
  covers what is stored, unless another request saved meanwhile (`stale`). A walk that ends
  without refusal has then seen every level of the graph that its workflow reaches, so
  that the workflow does not reach itself. The levels are a recursive function on the naturals; what is
  needed of it comes from the least counterexample (`LeastNumber`, from the library's
  theorem on well-founded relations), as the induction rules cannot be instantiated.
- `NestingCorrect`, `NestingKept`: the stack follows references that were stored together and without
  a cycle when the run began (`RunFollows`), as long as nothing was saved since. Two engines of one
  workflow would enclose a set that no reference leaves (`NoSelfNesting`).
- `RequestsRefined`: the composition of requests and a run implements `WorkflowRefs`.

### Credentials

`VaultCorrect`, `SecretsAreKept`, `SecretsAreHandled`: `RowsKept` says that a row is the ciphertext, under a nonce drawn before, of what was last
stored under its id, whatever servers with whatever keys came and went.

### Parameters and routing

`ParamsCorrect`, `ReadersAgreeOnParams`, `RoutingIsSound`: `ReadersKept` says that the verdicts of validator, dry run and
run are what the readers make of the parameters, `DeliveryKept` that what leaves a node is what its kind
makes of its input. That the readers agree is then a comparison of them for each kind
(`AlarmsAreTrue`, `DryRunTells`), and it is there that the exceptions of section 6 come from: `Insisted`, what
the validator asks for although there is a default, and `OnlyTried`, what only an execution finds out. For routing, inputs may have any
length. A loop joins what it makes of each item: `FlattenIs` says what such a join is, step by
step, and `SentOn` what has been sent on after so many items: of each item so far, all
elements and then its summary (`ClosedOnce`). A next item adds to the end (`NextIsSentOn`), and were there an item by
which this fails, the first one would refute that.

### Calling nodes

`CallsCorrect`, `CallsAreSound`, `RequestsChecked`. Every step is one of five moves (`MovesOnly`) as far as
calls are concerned. `PrefixInv` says that the calls of all earlier attempts together are those
of prefixes of the items; `ReportInv` counts the calls whose answer never came, one per attempt.
`CheckedInv` carries what the address and URL checks established to the request that relies on it.

### Migrations

`MigrationsCorrect`, `SchemaIsSound`, `KeysNotLost`. The scripts are the ones in the code, and lemmas read off them
which statement makes what. `BootInv` says that a boot has dealt with all statements
before the one it is at and with all scripts before it; `VersionInv` that the recorded version is
not ahead of the schema; `RowsInv` is why the rebuild of the key table, which ignores rows that
conflict, drops none.
The proofs are for any number of crashes and failed statements.

### Validation and rewriting

`RewritesCorrect`, `RewritesAreSound`, `ObservedIsKept`, for workflows of any size. The
validator's verdict is what its algorithms compute: nodes are taken away until none is left
without a predecessor, and nodes are added to those reached from the trigger. `Iterates` says how
such a recursive function on `0..n` goes on, `UntakenIs` that the first ends in a set every
member of which has a predecessor in it, hence (`SortedIfAcyclic`) empty if
and only if the graph has no cycle, and `ReachedOnly` that the second ends in what the trigger
reaches. From these, `ValidMeans`: the report is free of errors if and only if the workflow is
`Runnable`, which speaks of ids, ports and cycles only. So the invariant has to be shown of
`Runnable`, and what has to be shown of a rewrite is that it closes no cycle. There are two reasons for
that: an edge that is added where there was a path already closes none
(`ShortcutsCloseNoCycle`: removing a passthrough, making two nodes parallel), nor does a new node in the
middle of an edge (`MiddlesCloseNoCycle`: inserting a passthrough); a composition joins two graphs in one
direction only (`ComposedIs`).

### Authoring

`AuthorCorrect`, `AuthorIsSound`: `AnswerKept` says what the answer at hand has passed so far, `RecordKept` that each
repair is about the answer before it, `AttemptsKept` counts modulo `Width`. That the document is found in each
wrapping is a calculation with the first and last positions of braces and fences, for documents of
any length and with any braces and fences inside.

### Search

`SearchCorrect`, `SearchIsSound`: `BestKept` says that the best is better than everything seen, but for the
generation that is being scored; `PoolKept` relates the beam, what is scored and what is left to what was seen,
`BudgetHeld` counts them, and `ExpandedKept` says whose derivatives have all been seen. The order by score, size and
form is total on finite sets of candidates, so that there is a first one, and the beam is never
empty. `CertifiedApart` follows from what is checked before the first generation, as plans do not change.

### Skill library

`LibraryCorrect`, `LibraryIsSound`, `TheRightOneIsPromoted`: `ReportsKept` says that a report is of the workflow and plan of its client's request,
`TableKept` that a row is what one promotion wrote, `SearchesKept` that an answer is what the look-up makes of
the rows that were listed for it. `EvidenceTells` and `WrongFieldCaught` are about the checks themselves, for inputs
of any length: every plan that says something rejects some workflow, and a promoted workflow reads
the field that a scaling relation of its plan scales. The first takes a workflow for each kind of check that
must fail it; the second follows the sum of the outputs from item to item (by a least counterexample).

`RightIsPromoted` needs that the engine's own relations never turn a workflow down that handles
its items one by one, whatever the seed and the factor. What is observed of an input occurs as often as the
items it is made of (`ObservedFromItems`), and how often something occurs adds up over concatenations
(`OccursJoined`), does not change by reversal, is multiplied by repetition and passes through filters
(`OccursReversed`, `OccursRepeated`, `OccursFiltered`): permutation, duplication and additivity compare
sequences in which everything occurs as often (`SameMultiset`). `SuiteChangesNothing` is that the
score does not count these relations. What a plan has to say of the intent otherwise is a premise:
a request that is marked `enough` meets the threshold without them (`SkillsAssumption`).

### What stays with TLC

- *Liveness*: `EveryRunEnds`, `StrandedFinalized`, `EveryRequestEnds`, `EveryExecutionEnds`, `EverythingEnds`, `ComesUp`, `CallsEnd`. Fairness and ENABLED are
  outside what the proof system does.
- *Properties of expressions*: `TemplatesSound`. `Expr` has RECURSIVE operators, about which
  nothing can be proved, and the claims are inductions over texts.
- *What rewritten workflows compute*: the parts of `RewritesHonest` except `ObservedStays`. They
  compare what flows through two graphs, and the lengths of paths: inductions over graphs.

## 5. Not modelled

- Importers (`a2w-import`), OpenAPI (`a2w-openapi`) and templates: conversions of documents
  and fixed data, without state. A model would repeat the tables they consist of.
- The test kit, acceptance tests, benchmarks and the dashboard: they drive the rest.
- The IR beyond what others read of it: serde types and the JSON schema.
- Authentication, routing of requests, the mapping of errors to HTTP status codes,
  metrics, logging.
- MCP tools that only call one function of another crate, and the best-effort
  `save_run` after an MCP run (its failure is only logged; nothing reads the result).
- The cipher of the vault, DNS, TLS, the WASM runtime, `petgraph` and SQLite itself.
- Floats beyond their being fractions, Unicode case folding, and the text of messages.
- Requests without an idempotency key, or with one the handler refuses: they
  do not touch the table.
- Failing reads and writes in `Resume` other than corrupt records: they change
  nothing and answer with an error.

## 6. Where code and documentation disagree

Found while modelling. The properties in brackets state what does hold.

*State*

1. An expired idempotency claim is adopted by a SELECT and then an UPDATE guarded by
   the key alone (`a2w-store/src/lib.rs:1177`). If the owner completes the row between
   the two, its committed binding is overwritten and the adopter fires again. Nor is the
   claim that is overwritten always an old one: two requests that read the same expired row
   both adopt it, the second one from the first, seconds after it (`OverwritesExplained`; what
   is old is the claim that was read, `ReadLate`). Each adoption may thus fire once more
   (`FiresOnce`). "First writer wins" is guaranteed by `complete`, not by the adoption
   (`ConflictExplained`).
2. The Finished event of an unreachable node has no output (`engine.rs:447`), so its
   row has `output_json = NULL`, and every resume of the run ends as corrupt
   (`a2w-store/src/lib.rs:1763`).
3. Runs are saved only when they complete (`handlers.rs:356`); one that crashed or
   failed has nothing to resume from, unlike PRODUCTION.md says.
4. Two PUTs that refer to each other both pass the cycle check (`handlers.rs:134`).
   `AcyclicUnlessRaced` is what holds; at run time the depth cap remains
   (`DepthBounded`, `RunEnds`).
5. Approvals are bound to item indices, not to payloads (`a2w-store/src/lib.rs:1665`), so
   that a resumption may pass an item on the decision made for another one.
6. The reaper may complete a row between the save and the commit of its own run;
   the handler's `Ok(false)` is then reported as an adoption by somebody else
   (`ConflictExplained`).
7. A node that a resume executes again may route items to a node that is hydrated
   as finished and stays so (`NotRefired`); concurrent resumes of one run may both
   execute the nodes that are left (`RecordKept`).
8. A PUT may add a reference between the two statements of the DELETE of its target
   (`DeletesUnreferenced`).
9. Two executions of one run may race between the look-up and the INSERT of an
   approval; the second one fails instead of finding the row. An approval that timed
   out stays pending and can still be decided, which nobody notices
   (`RoutedAsDecided`).
10. The probe for the old key table, the ALTERs and the rows of the backfill discard
    their errors: a probe that fails makes version 2 be recorded over a table of
    version 1 (`SchemaAtVersion`, `IndexBackfilled`, `ComesUp` name the exceptions).
11. The comment of the server's start says that a misconfigured master key is fatal
    (`a2w-server/src/main.rs:42-60`); a value of `A2W_MASTER_KEY` that is not UTF-8 starts
    it without a vault (`NoSilentFallback`).
12. MCP's default policy is called read-only, yet promoting a skill and saving a dry run
    write rows; the gates are about running, and about credentials (`WrittenWithLeave`).
13. Saving a run deletes the step records of its run id and writes those of the nodes of its
    own version (`a2w-store/src/lib.rs:929-973`). A dry run is saved without fingerprint, and
    no later save gives it one (`a2w-store/src/lib.rs:907-913`), so that a version without
    a node may be resumed. Its save loses the node's record, and a later resume of a version with
    the node executes it, though "side-effecting nodes won't re-fire on a resume" (`engine.rs:348`).
    `NotRefired` and `RecordKept` name this case as `Lost`; for real runs the fingerprint excludes it.

*Nodes and parameters*

14. The parameter checks promise "only unambiguous violations" (`a2w-validator/src/lib.rs:401-405`),
    but flag some parameters that run (`NoFalseAlarm` leaves these out, as `Insisted`);
    an MCP `command` without `server` is accepted and fails.
15. `mcp_tool_call` validates its arguments only after it has spawned the server and shaken
    hands (`mcp_tool_call.rs:363-375`), though its comment says up front.
16. Some parameters are wrong only in the run, after the validator and a dry run have passed them
    and nodes before may have had their effects: that a module is no base64, that its path is disabled
    or leads out of its directory (`code_step.rs:128-169`); that an MCP server is reached over http, or its command or
    environment is not allowed (`mcp_tool_call.rs:312-354`); all of a request but its url
    (`DryRunFindsBadParams` names them as `OnlyTried`).
17. Calls of a failed attempt are not counted (`CallsReported`).
18. Neither MCP nor LLM calls have a timeout (`Ends`); a silent peer keeps its permit, and as many of
    them as there are permits stop every run of the engine (`EveryRunEnds`).
19. The documentation of `a2w-expr` and of `llm_call.rs:25` names nodes that use it; only `transform`
    does. The others read `{{json.field}}`, and leave `$` and the value for `${{json.field}}`.
20. `==` never holds between a JSON integer and a float literal; arithmetic that
    overflows is null; text outside of an expression is copied byte by byte, which
    damages non-ASCII text; `unary` accepts chains of signs that its grammar
    does not; `}}` in a string literal ends the expression; whole-value templates are
    not capped in size as mixed ones are.
21. The documentation of the approval node says what its dry run does; the code
    lets items through alternately (`Verification`, `keep = "alternate"`).

*Workflows that change workflows*

22. `InsertPassthrough` is "functionally a no-op" (`operators.rs:63-64`), but changes the order in which
    a fan-in receives its items (`PassthroughsChangeNothing` compares multisets);
    `canonical_of` ignores the order of connections, which decides that order.
23. `RemovePassthrough` takes a Transform with `{"set":{}}` for "a pure passthrough"
    (`operators.rs:164-171`), but that one fails on items that are no objects
    (`transform.rs:63-67`): where it failed, its removal lets the items through
    (`PassthroughsChangeNothing` excepts a removed `blank` node that failed).
24. The optimizer moves a node past a Branch or an Approval whose decision it then no
    longer waits for (`ParallelizeIsLocal` says what stays).
25. The observed node of a composition is missing when the second skill observes its
    trigger (`ObservedStays` leaves compositions out).
26. `max_repairs + 1` wraps to 0 at the end of u32: no attempt is made (`GivesUpInTime`).
27. An append relation with nothing to append, and a conservation relation on an empty
    input, pass for any workflow (`EvidenceTells` excludes them); "engine invariants
    hold for any valid workflow" fails for the dry runs of approvals and sub-workflows.
28. Derived inputs of semantic relations and of the metamorphic suite are not part of the
    evidence that must be disjoint (`CertifiedApart` is about stated inputs).
29. A perfect seed still runs a generation; GET of skills says "when absent, all" where
    the default is 20; one unreadable skill row fails every search for skills.

## 7. Plan

Done: all modules of section 2, and the proofs of section 4. What could come next:

1. An abstract specification of the idempotency slot, which the race of section 6.1 has
   to be an explicit step of, and the proof that `Idempotency` implements it.
