------------------------------- MODULE Engine -------------------------------
(***************************************************************************)
(* The workflow engine (crates/a2w-engine/src/engine.rs): one Engine value *)
(* executes several runs at once.  A run validates its workflow, marks the *)
(* nodes that the trigger cannot reach as done, and then repeats: plan a   *)
(* wave of all runnable nodes, drive their futures concurrently behind a   *)
(* semaphore shared by every run of the engine, and commit the results of  *)
(* the whole wave once the last of them is in (futures::join_all).         *)
(*                                                                         *)
(* Payloads are abstracted: an item is the (node, index) lineage that the  *)
(* engine stamps on it and the output port its producer chose.  What an    *)
(* executor returns is any sequence of at most MaxItems items, on any      *)
(* ports, or an error.  The order of the items inside one input is left    *)
(* out: an input is the set of the items gathered.                         *)
(***************************************************************************)
EXTENDS Integers, Sequences, FiniteSets

CONSTANTS
    Nodes,          \* node ids, of all workflows together
    Ports,          \* output port indices
    Runs,           \* the runs submitted to this engine
    Workflows,      \* the workflows that may be submitted, valid or not
    MaxConcurrency, \* the argument of with_max_concurrency
    MaxItems        \* bound: items one executor call may return

Edge == [from : Nodes, port : Ports, to : Nodes]

\* The parts of a Workflow the scheduler reads.  nodes: its own node ids;
\* ports[n]: the ports that the kind of n exposes (every port for switch);
\* registered: every node kind has an executor in the registry; untimed: the
\* nodes whose executor waits for an answer without a timeout (mcp_tool_call,
\* llm_call, and a sub_workflow with such a node in it).
WorkflowType ==
    [nodes        : SUBSET Nodes,
     triggers     : SUBSET Nodes,
     untimed      : SUBSET Nodes,
     edges        : SUBSET Edge,
     ports        : [Nodes -> SUBSET Ports],
     registered   : BOOLEAN,
     on_error     : [Nodes -> {"stop", "continue", "route"}],
     max_attempts : [Nodes -> Nat]]

ASSUME EngineAssumption ==
    /\ IsFiniteSet(Nodes)
    /\ IsFiniteSet(Runs)
    /\ Workflows \subseteq WorkflowType
    /\ MaxConcurrency \in Nat
    /\ MaxItems \in Nat

Item == [node : Nodes, index : 1..MaxItems, port : Ports]

Modes == {"run", "dry_run"}

-----------------------------------------------------------------------------
(* The graph of a workflow. *)

Incoming(w, n) == {e \in w.edges : e.to = n}

\* toposort succeeds iff every nonempty set of nodes has a member none of
\* whose producers is in the set.
Acyclic(w) ==
    \A S \in SUBSET Nodes :
        S # {} => \E n \in S : \A e \in Incoming(w, n) : e.from \notin S

\* Mutant: the cycle check of the validator is missing.
ValidUnlessCyclic(w) ==
    /\ \E t \in w.nodes : w.triggers = {t}
    /\ \A e \in w.edges :
          /\ {e.from, e.to} \subseteq w.nodes
          /\ e.port \in w.ports[e.from]
          /\ e.to \notin w.triggers

\* The validator's graph checks: one trigger, which has no incoming
\* connection; both ends of every connection exist; ports in range; no cycle.
ValidWorkflow(w) ==
    /\ \E t \in w.nodes : w.triggers = {t}
    /\ \A e \in w.edges :
          /\ {e.from, e.to} \subseteq w.nodes
          /\ e.port \in w.ports[e.from]
          /\ e.to \notin w.triggers
    /\ Acyclic(w)

\* The nodes the BFS from the trigger visits: those in every set that
\* contains the trigger and is closed under connections.
Reachable(w) ==
    {n \in Nodes :
        \A S \in SUBSET Nodes :
            /\ w.triggers \subseteq S
            /\ \A e \in w.edges : e.from \in S => e.to \in S
            => n \in S}

-----------------------------------------------------------------------------
VARIABLES
    wf,       \* wf[r]: the workflow of run r
    mode,     \* mode[r]: ExecutionMode
    status,   \* status[r]: where run_with_id is, or what it returned
    stage,    \* stage[r][n]: what the scheduler knows of node n
    calls,    \* calls[r][n]: executor calls made so far
    outputs,  \* outputs[r][n]: the items n produced ({} without an entry)
    events,   \* events[r][n]: kinds of the step events of n, oldest first
    permits   \* available permits of the engine's semaphore

vars == <<wf, mode, status, stage, calls, outputs, events, permits>>

Stages ==
    {"pending",   \* not done, not in the current wave
     "waiting",   \* its future waits for a permit
     "running",   \* holds a permit; its executor, or a retry backoff, runs
     "produced",  \* result Produced, not committed yet
     "failed",    \* result Fail
     "done",      \* in `done`, with an entry in `outputs`
     "orphaned",  \* in `done` because the trigger cannot reach it, or not
                  \* a node of the run's workflow at all
     "dropped"}   \* its future was dropped with the run

\* "corrupt": a resumed run met a record it cannot use (module Resume).
Ended == {"invalid", "no_executor", "corrupt", "stalled",
          "failed", "completed", "cancelled"}
Statuses == {"requested", "planning", "running"} \cup Ended

EventKinds == {"started", "finished", "failed"}

\* Mutant: with_max_concurrency without the clamp to 1.
PermitsUnclamped == MaxConcurrency

Permits == IF MaxConcurrency < 1 THEN 1 ELSE MaxConcurrency

\* The type invariant: every run has a known status and every node a known
\* stage, and the semaphore never goes below zero.
TypeOK ==
    /\ wf \in [Runs -> Workflows]
    /\ mode \in [Runs -> Modes]
    /\ status \in [Runs -> Statuses]
    /\ stage \in [Runs -> [Nodes -> Stages]]
    /\ calls \in [Runs -> [Nodes -> Nat]]
    /\ outputs \in [Runs -> [Nodes -> SUBSET Item]]
    /\ events \in [Runs -> [Nodes -> Seq(EventKinds)]]
    /\ permits \in Nat

Init ==
    /\ wf \in [Runs -> Workflows]
    /\ mode \in [Runs -> Modes]
    /\ status = [r \in Runs |-> "requested"]
    /\ stage = [r \in Runs |-> [n \in Nodes |-> "pending"]]
    /\ calls = [r \in Runs |-> [n \in Nodes |-> 0]]
    /\ outputs = [r \in Runs |-> [n \in Nodes |-> {}]]
    /\ events = [r \in Runs |-> [n \in Nodes |-> <<>>]]
    /\ permits = Permits

-----------------------------------------------------------------------------
IsDone(r, n) == stage[r][n] \in {"done", "orphaned"}

InStage(r, s) == {n \in Nodes : stage[r][n] = s}

\* Mutant: the source port of a connection is ignored.
InputOfAnyPort(r, n) == UNION {outputs[r][e.from] : e \in Incoming(wf[r], n)}

\* gather_input of a node that is not the trigger: the items its producers
\* emitted on the connected ports.
Input(r, n) ==
    UNION {{i \in outputs[r][e.from] : i.port = e.port} : e \in Incoming(wf[r], n)}

\* Mutants: a node is runnable after any of its producers; or though done.
RunnableEarly(r) ==
    {n \in Nodes : /\ ~IsDone(r, n)
                   /\ Incoming(wf[r], n) = {} \/
                         \E e \in Incoming(wf[r], n) : IsDone(r, e.from)}

RunnableAgain(r) == {n \in Nodes : \A e \in Incoming(wf[r], n) : IsDone(r, e.from)}

Runnable(r) ==
    {n \in Nodes : /\ ~IsDone(r, n)
                   /\ \A e \in Incoming(wf[r], n) : IsDone(r, e.from)}

\* Mutant: unselected arms run on an empty input.
StarvedNever(r) == {}

\* Runnable nodes that have an upstream but received nothing from it.
Starved(r) == {n \in Runnable(r) : Incoming(wf[r], n) # {} /\ Input(r, n) = {}}

\* The attempts execute_with_retry makes: one in a dry run and without a
\* policy of at least two.
AttemptLimit(r, n) ==
    IF mode[r] = "dry_run" \/ wf[r].max_attempts[n] < 2
    THEN 1 ELSE wf[r].max_attempts[n]

\* An executor's answer, with the lineage run_one_node stamps on it.
Stamped(n, ports) == {[node |-> n, index |-> i, port |-> ports[i]] : i \in DOMAIN ports}

Emissions == UNION {[1..k -> Ports] : k \in 0..MaxItems}

\* Mutant: a node that already has an event gets no second one.
RecordFirst(r, ns, kinds) ==
    events' = [events EXCEPT ![r] =
                  [n \in Nodes |-> IF n \in ns /\ @[n] = <<>> THEN kinds ELSE @[n]]]

Record(r, ns, kinds) ==
    events' = [events EXCEPT ![r] =
                  [n \in Nodes |-> IF n \in ns THEN @[n] \o kinds ELSE @[n]]]

-----------------------------------------------------------------------------
(* run_with_id up to the scheduling loop, for a run without resume source. *)

Reject(r) ==
    /\ status[r] = "requested"
    /\ ~ValidWorkflow(wf[r])
    /\ status' = [status EXCEPT ![r] = "invalid"]
    /\ UNCHANGED <<wf, mode, stage, calls, outputs, events, permits>>

RejectKind(r) ==
    /\ status[r] = "requested"
    /\ ValidWorkflow(wf[r])
    /\ ~wf[r].registered
    /\ status' = [status EXCEPT ![r] = "no_executor"]
    /\ UNCHANGED <<wf, mode, stage, calls, outputs, events, permits>>

\* A node that the workflow does not have is set aside with the orphans, but
\* leaves no event.
Begin(r) ==
    /\ status[r] = "requested"
    /\ ValidWorkflow(wf[r])
    /\ wf[r].registered
    /\ LET orphans == Nodes \ Reachable(wf[r]) IN
       /\ stage' = [stage EXCEPT ![r] =
                       [n \in Nodes |-> IF n \in orphans THEN "orphaned" ELSE @[n]]]
       /\ Record(r, orphans \cap wf[r].nodes, <<"finished">>)
    /\ status' = [status EXCEPT ![r] = "planning"]
    /\ UNCHANGED <<wf, mode, calls, outputs, permits>>

-----------------------------------------------------------------------------
(* The wave loop.  Planning has no await: it is one step. *)

Complete(r) ==
    /\ status[r] = "planning"
    /\ \A n \in Nodes : IsDone(r, n)
    /\ status' = [status EXCEPT ![r] = "completed"]
    /\ UNCHANGED <<wf, mode, stage, calls, outputs, events, permits>>

\* With work left and nothing runnable the loop returns an error instead of
\* spinning: "no runnable nodes but work remains (possible cycle)".
PlanWave(r) ==
    /\ status[r] = "planning"
    /\ \E n \in Nodes : ~IsDone(r, n)
    /\ LET skipped == Starved(r) IN
       /\ stage' = [stage EXCEPT ![r] =
                       [n \in Nodes |-> IF n \in skipped THEN "done"
                                        ELSE IF n \in Runnable(r) THEN "waiting"
                                        ELSE @[n]]]
       /\ Record(r, skipped, <<"finished">>)
    /\ status' = [status EXCEPT ![r] =
                     IF Runnable(r) = {} THEN "stalled" ELSE "running"]
    /\ UNCHANGED <<wf, mode, calls, outputs, permits>>

-----------------------------------------------------------------------------
(* One node's future. *)

\* Mutant: the node does not wait for a permit.
StartUnpermitted(r, n) ==
    /\ stage[r][n] = "waiting"
    /\ permits' = permits - 1
    /\ stage' = [stage EXCEPT ![r][n] = "running"]
    /\ calls' = [calls EXCEPT ![r][n] = 1]
    /\ Record(r, {n}, <<"started">>)
    /\ UNCHANGED <<wf, mode, status, outputs>>

\* The permit arrives: run_one_node records Started and calls the executor.
Start(r, n) ==
    /\ stage[r][n] = "waiting"
    /\ permits > 0
    /\ permits' = permits - 1
    /\ stage' = [stage EXCEPT ![r][n] = "running"]
    /\ calls' = [calls EXCEPT ![r][n] = 1]
    /\ Record(r, {n}, <<"started">>)
    /\ UNCHANGED <<wf, mode, status, outputs>>

\* Mutants: one attempt too many; the permit is returned for the backoff.
RetryOnceMore(r, n) ==
    /\ stage[r][n] = "running"
    /\ calls[r][n] <= AttemptLimit(r, n)
    /\ calls' = [calls EXCEPT ![r][n] = @ + 1]
    /\ Record(r, {n}, <<"failed">>)
    /\ UNCHANGED <<wf, mode, status, stage, outputs, permits>>

RetryUnpermitted(r, n) ==
    /\ stage[r][n] = "running"
    /\ calls[r][n] < AttemptLimit(r, n)
    /\ calls' = [calls EXCEPT ![r][n] = @ + 1]
    /\ permits' = permits + 1
    /\ Record(r, {n}, <<"failed">>)
    /\ UNCHANGED <<wf, mode, status, stage, outputs>>

\* An attempt fails and another is left: Failed event, backoff, next call.
\* The permit is held throughout.
Retry(r, n) ==
    /\ stage[r][n] = "running"
    /\ calls[r][n] < AttemptLimit(r, n)
    /\ calls' = [calls EXCEPT ![r][n] = @ + 1]
    /\ Record(r, {n}, <<"failed">>)
    /\ UNCHANGED <<wf, mode, status, stage, outputs, permits>>

Succeed(r, n, ports) ==
    /\ stage[r][n] = "running"
    /\ stage' = [stage EXCEPT ![r][n] = "produced"]
    /\ outputs' = [outputs EXCEPT ![r][n] = Stamped(n, ports)]
    /\ Record(r, {n}, <<"finished">>)
    /\ permits' = permits + 1
    /\ UNCHANGED <<wf, mode, status, calls>>

\* Mutant: a failed node keeps its permit.
FailHolding(r, n) ==
    /\ stage[r][n] = "running"
    /\ calls[r][n] = AttemptLimit(r, n)
    /\ stage' = [stage EXCEPT ![r][n] =
                    IF wf[r].on_error[n] = "continue" THEN "produced" ELSE "failed"]
    /\ Record(r, {n}, <<"failed">>)
    /\ UNCHANGED <<wf, mode, status, calls, outputs, permits>>

\* The last attempt fails.  Under a retry policy its own Failed event comes
\* before that of the whole step.
Fail(r, n) ==
    /\ stage[r][n] = "running"
    /\ calls[r][n] = AttemptLimit(r, n)
    /\ stage' = [stage EXCEPT ![r][n] =
                    IF wf[r].on_error[n] = "continue" THEN "produced" ELSE "failed"]
    /\ Record(r, {n}, IF AttemptLimit(r, n) > 1 THEN <<"failed", "failed">>
                                                ELSE <<"failed">>)
    /\ permits' = permits + 1
    /\ UNCHANGED <<wf, mode, status, calls, outputs>>

-----------------------------------------------------------------------------
(* join_all returns when every future of the wave has. *)

\* Mutant: the first failure ends the wave (try_join_all).
WaveFailedFast(r) ==
    /\ status[r] = "running"
    /\ \/ \A n \in Nodes : stage[r][n] \notin {"waiting", "running"}
       \/ InStage(r, "failed") # {}

WaveDriven(r) ==
    /\ status[r] = "running"
    /\ \A n \in Nodes : stage[r][n] \notin {"waiting", "running"}

CommitWave(r) ==
    /\ WaveDriven(r)
    /\ InStage(r, "failed") = {}
    /\ stage' = [stage EXCEPT ![r] =
                    [n \in Nodes |-> IF @[n] = "produced" THEN "done" ELSE @[n]]]
    /\ status' = [status EXCEPT ![r] = "planning"]
    /\ UNCHANGED <<wf, mode, calls, outputs, events, permits>>

Abort(r) ==
    /\ WaveDriven(r)
    /\ InStage(r, "failed") # {}
    /\ status' = [status EXCEPT ![r] = "failed"]
    /\ UNCHANGED <<wf, mode, stage, calls, outputs, events, permits>>

\* The caller drops the run's future at an await (request timeout, client
\* gone, executor panic): the futures of the wave go with it, and the permits
\* they hold are returned.
Cancel(r) ==
    /\ status[r] = "running"
    /\ ~WaveDriven(r)
    /\ permits' = permits + Cardinality(InStage(r, "running"))
    /\ stage' = [stage EXCEPT ![r] =
                    [n \in Nodes |-> IF @[n] \in {"waiting", "running"}
                                     THEN "dropped" ELSE @[n]]]
    /\ status' = [status EXCEPT ![r] = "cancelled"]
    /\ UNCHANGED <<wf, mode, calls, outputs, events>>

-----------------------------------------------------------------------------
\* The executor returns.
Return(r, n) ==
    \/ Retry(r, n)
    \/ \E ports \in Emissions : Succeed(r, n, ports)
    \/ Fail(r, n)

Drive(r, n) == Start(r, n) \/ Return(r, n)

Schedule(r) ==
    \/ Reject(r) \/ RejectKind(r) \/ Begin(r)
    \/ Complete(r) \/ PlanWave(r)
    \/ CommitWave(r) \/ Abort(r)

Next ==
    \E r \in Runs :
        \/ Schedule(r)
        \/ \E n \in Nodes : Drive(r, n)
        \/ Cancel(r)

Spec == Init /\ [][Next]_vars

\* In a dry run the untimed nodes are mocked.
Untimed(r, n) == mode[r] = "run" /\ n \in wf[r].untimed

TimedReturn(r, n) == ~Untimed(r, n) /\ Return(r, n)

\* The runtime polls every task that is ready, and the semaphore hands a free
\* permit to a waiter.  HTTP requests, approvals, waits and sandboxed code end
\* by a timeout, so their executors return; an MCP server or a model may keep
\* its caller waiting for ever, and nobody owes a run that it is dropped: runs
\* that are started over MCP have no request timeout.
Fairness ==
    \A r \in Runs :
        /\ WF_vars(Schedule(r))
        /\ \A n \in Nodes : WF_vars(Start(r, n)) /\ WF_vars(TimedReturn(r, n))

FairSpec == Spec /\ Fairness

-----------------------------------------------------------------------------
(* Safety. *)

Fired(r, n) == calls[r][n] > 0

RunningTasks == {t \in Runs \X Nodes : stage[t[1]][t[2]] = "running"}

\* Every permit of the shared semaphore is either free or held by exactly one
\* running node, of whatever run, and none is lost when a run fails, retries
\* or is dropped in the middle of a wave: so at most Permits executors run.
PermitsConserved == permits + Cardinality(RunningTasks) = Permits

\* An executor is called only for a node that the trigger reaches and whose
\* producers all have committed outcomes, and, the trigger apart, only on
\* input that some producer routed to it: orphans and unselected branch arms
\* cause no side effect, nor does anything downstream of a failed node.
FiredOnInput ==
    \A r \in Runs, n \in Nodes :
        Fired(r, n) =>
            /\ n \in Reachable(wf[r])
            /\ \A e \in Incoming(wf[r], n) : IsDone(r, e.from)
            /\ n \notin wf[r].triggers => Input(r, n) # {}

\* The scheduler never gives up on an accepted workflow: as long as nodes are
\* left after a wave, one of them is runnable.
NeverStalled == \A r \in Runs : status[r] # "stalled"

\* The number of Finished events of a node.
Finishes(r, n) == Cardinality({i \in DOMAIN events[r][n] : events[r][n][i] = "finished"})

\* The event log of a completed run accounts for every node of its workflow once: one
\* Finished event, or, under on_error = continue, a failure of all attempts
\* and no Finished event; and no output without a Finished event.
LedgerComplete ==
    \A r \in Runs : status[r] = "completed" =>
        \A n \in wf[r].nodes :
            \/ Finishes(r, n) = 1
            \/ /\ Finishes(r, n) = 0
               /\ wf[r].on_error[n] = "continue"
               /\ calls[r][n] = AttemptLimit(r, n)
               /\ outputs[r][n] = {}

\* A node's executor is called at most as often as its retry policy allows,
\* whatever the other nodes of the wave do, and in a completed run every
\* failed call left its own Failed event before the outcome.
CallsAccounted ==
    \A r \in Runs, n \in Nodes :
        /\ calls[r][n] <= AttemptLimit(r, n)
        /\ stage[r][n] \in {"produced", "done"} /\ Finishes(r, n) = 1 =>
               Len(events[r][n]) = IF Fired(r, n) THEN calls[r][n] + 1 ELSE 1

\* What is left of a run in its event log is what happened in it: no outcome is
\* missing, none is there twice, and every call of an executor has its event.
LedgerAccounts == LedgerComplete /\ CallsAccounted

\* The inductive invariant behind FiredOnInput, NeverStalled and the action
\* properties.  Per run: what each status says of the workflow and of the
\* stages its nodes may be in.
RunInv(r) ==
    /\ status[r] \in {"requested", "invalid", "no_executor"} =>
           \A n \in Nodes : stage[r][n] = "pending" /\ calls[r][n] = 0
    /\ status[r] \notin {"requested", "invalid", "no_executor"} =>
           /\ ValidWorkflow(wf[r])
           /\ \A n \in Nodes : stage[r][n] = "orphaned" <=> n \notin Reachable(wf[r])
    /\ status[r] \in {"planning", "completed"} =>
           \A n \in Nodes : stage[r][n] \in {"pending", "done", "orphaned"}
    /\ status[r] = "completed" => \A n \in Nodes : IsDone(r, n)
    /\ status[r] # "running" =>
           \A n \in Nodes : stage[r][n] \notin {"waiting", "running"}
    /\ status[r] # "cancelled" => \A n \in Nodes : stage[r][n] # "dropped"
    /\ status[r] # "stalled"

\* Per node: who was scheduled had only committed producers; who is in a wave
\* or was executed had input, or is fed by no connection; and only nodes that
\* got past waiting were executed.
NodeInv(r, n) ==
    /\ stage[r][n] \notin {"pending", "orphaned"} =>
           \A e \in Incoming(wf[r], n) : IsDone(r, e.from)
    /\ stage[r][n] \in {"waiting", "running", "produced", "failed"} \/ Fired(r, n) =>
           Incoming(wf[r], n) = {} \/ Input(r, n) # {}
    /\ Fired(r, n) => stage[r][n] \in {"running", "produced", "failed", "done", "dropped"}

\* Restated as a property of its own, ScheduleInv says that the scheduler's
\* books agree at every await: no node is in a wave of a run that is not
\* running, orphans are exactly the nodes out of the trigger's reach, and the
\* input of whatever fires was settled before its wave was planned.
ScheduleInv ==
    /\ \A r \in Runs : RunInv(r)
    /\ \A r \in Runs, n \in Nodes : NodeInv(r, n)

-----------------------------------------------------------------------------
(* Actions. *)

\* Once run_with_id has returned, or was dropped, nothing of the run goes on:
\* no node starts or finishes and no event is recorded, not even in sibling
\* nodes of the wave that failed.
EndedIsFinal ==
    [][\A r \in Runs : status[r] \in Ended =>
          /\ status'[r] = status[r]
          /\ stage'[r] = stage[r]
          /\ calls'[r] = calls[r]
          /\ events'[r] = events[r]]_vars

\* What a node handed to its consumers never changes: a committed output is
\* written once, and a node that is done stays done.
CommittedOnce ==
    [][\A r \in Runs, n \in Nodes : IsDone(r, n) =>
          /\ IsDone(r, n)'
          /\ outputs'[r][n] = outputs[r][n]]_vars

-----------------------------------------------------------------------------
(* Liveness, under FairSpec. *)

\* An executor waits for a peer that may never answer.
Silent(r, n) == Untimed(r, n) /\ stage[r][n] = "running"

\* Every permit of the engine is in the hands of a task with a silent peer.
AllPermitsSilent ==
    /\ permits = 0
    /\ RunningTasks # {}
    /\ \A t \in RunningTasks : Silent(t[1], t[2])

\* Every submitted run comes to an end, also when runs with more nodes than
\* there are permits compete for the semaphore, unless one of its own nodes
\* waits for ever for a peer without a timeout, or such nodes, of whatever
\* runs, keep every permit of the shared semaphore.
EveryRunEnds ==
    \A r \in Runs :
        \/ <>[](status[r] \in Ended)
        \/ \E n \in Nodes : <>[]Silent(r, n)
        \/ <>[]AllPermitsSilent

-----------------------------------------------------------------------------
(* The promise of Dataflow, seen through the engine's state. *)

TurnOf(r, n) ==
    CASE stage[r][n] \in {"pending", "waiting"} -> "due"
      [] stage[r][n] = "running" -> "taken"
      [] stage[r][n] = "produced" -> "over"
      [] stage[r][n] = "failed" -> "failed"
      [] stage[r][n] = "orphaned" -> "passed"
      [] stage[r][n] = "done" -> IF Fired(r, n) THEN "over" ELSE "passed"
      [] stage[r][n] = "dropped" -> IF Fired(r, n) THEN "taken" ELSE "due"

VerdictOf(r) ==
    CASE status[r] \in {"requested", "planning", "running"} -> "open"
      [] status[r] \in {"invalid", "no_executor"} -> "refused"
      [] status[r] = "cancelled" -> "dropped"
      [] OTHER -> status[r]

Turn == [r \in Runs |-> [n \in Nodes |-> TurnOf(r, n)]]
Verdict == [r \in Runs |-> VerdictOf(r)]

Promise == INSTANCE Dataflow WITH
    Items <- Item, flow <- wf, output <- outputs, turn <- Turn, verdict <- Verdict

\* The engine keeps the promise of Dataflow: its waves, permits, retries and
\* barriers only narrow what a plain dataflow execution may do.
KeepsPromise == Promise!Spec
=============================================================================
