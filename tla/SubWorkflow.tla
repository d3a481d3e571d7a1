----------------------------- MODULE SubWorkflow -----------------------------
(***************************************************************************)
(* The run of a stored workflow whose sub_workflow nodes run other stored  *)
(* workflows, each read when it is called                                  *)
(* (crates/a2w-nodes/src/sub_workflow.rs with StoreSubWorkflowResolver),   *)
(* while requests go on changing what is stored (module WorkflowRefs).     *)
(*                                                                         *)
(* The nodes of one workflow are called one after the other; the engine    *)
(* may run those of one wave together, each with frames of its own, which  *)
(* have nothing in common.                                                 *)
(***************************************************************************)
EXTENDS WorkflowRefs, Sequences

CONSTANTS
    Cap,       \* DEFAULT_MAX_SUB_WORKFLOW_DEPTH
    Inlined,   \* pairs of ids: the reference is made from an inline workflow
    OptedIn,   \* pairs of ids: the call says propagate_credentials
    Tolerant,  \* ids: a failed sub_workflow node does not fail the run
    Attempts   \* bound: how often a node is tried

ASSUME SubWorkflowAssumption ==
    /\ Cap \in Nat /\ Attempts \in Nat \ {0}
    /\ Inlined \subseteq Ids \X Ids /\ OptedIn \subseteq Ids \X Ids
    /\ Tolerant \subseteq Ids

VARIABLES
    run,     \* "none", "running", "finished" or "failed"
    frames,  \* the engines of the run, the outermost first
    error,   \* the node that the innermost engine executes has failed
    edited   \* history: a PUT was saved since the run began

subVars == <<run, frames, error, edited>>
allVars == <<stored, refs, op, pc, read, known, stale, run, frames, error, edited>>

-----------------------------------------------------------------------------
\* An engine that executes workflow `id`, or a workflow inlined in it: the nodes
\* that have not succeeded, by the workflow they call; the node that executes
\* and its failed attempts; and whether there is a credential resolver.
Frame(id, inline, todo, creds) ==
    [id |-> id, inline |-> inline, todo |-> todo, now |-> {}, failures |-> 0, creds |-> creds]

SubTypeOK ==
    /\ run \in {"none", "running", "finished", "failed"}
    /\ error \in BOOLEAN /\ edited \in BOOLEAN
    /\ \A k \in DOMAIN frames :
          /\ frames[k].id \in Ids /\ frames[k].now \subseteq frames[k].todo
          /\ frames[k].todo \subseteq Ids
          /\ frames[k].failures \in 0..(Attempts - 1)
    /\ run = "running" <=> frames # <<>>

SubInit == Init /\ run = "none" /\ frames = <<>> /\ error = FALSE /\ edited = FALSE

Innermost == frames[Len(frames)]
Outer == SubSeq(frames, 1, Len(frames) - 1)
Inner(frame) == [frames EXCEPT ![Len(frames)] = frame]

\* The handler loads the workflow and runs it with the server's resolvers.
StartRun(i) ==
    /\ run = "none" /\ i \in stored
    /\ run' = "running"
    /\ frames' = <<Frame(i, FALSE, refs[i], TRUE)>>
    /\ edited' = FALSE
    /\ UNCHANGED <<vars, error>>

\* The node to execute: the one that is to be tried again, or another one.
Ready(t) ==
    /\ run = "running" /\ ~error
    /\ t \in Innermost.todo
    /\ Innermost.now \in {{}, {t}}

\* Mutant: the depth of a sub-engine starts at 0 again.
TooDeepHere == Cap = 0

TooDeep == Len(frames) - 1 >= Cap

\* Mutant: the sub-engine has the resolver that its parent has.
CredsOfParent(t) == Innermost.creds

Creds(t) == Innermost.creds /\ <<Innermost.id, t>> \in OptedIn

IsInlined(t) == ~Innermost.inline /\ <<Innermost.id, t>> \in Inlined

\* The sub-engine one level down, on an inline workflow or on what is stored now.
Call(t) ==
    /\ Ready(t)
    /\ ~TooDeep
    /\ IsInlined(t) \/ t \in stored
    /\ frames' = Append(Inner([Innermost EXCEPT !.now = {t}]),
                        IF IsInlined(t) THEN Frame(Innermost.id, TRUE, {t}, Creds(t))
                        ELSE Frame(t, FALSE, refs[t], Creds(t)))
    /\ UNCHANGED <<vars, run, error, edited>>

\* Too deep, not stored, or the read failed.
CallFails(t) ==
    /\ Ready(t)
    /\ TooDeep \/ ~IsInlined(t)
    /\ frames' = Inner([Innermost EXCEPT !.now = {t}])
    /\ error' = TRUE
    /\ UNCHANGED <<vars, run, edited>>

\* Mutant: the node that is done stays under execution.
LeftExecuting(frame) == [frame EXCEPT !.todo = @ \ frame.now, !.failures = 0]

\* What the node under execution becomes when it is done, one way or the other.
Left(frame) == [frame EXCEPT !.todo = @ \ frame.now, !.now = {}, !.failures = 0]

Caller == [Outer EXCEPT ![Len(frames) - 1] = Left(@)]

Return ==
    /\ run = "running" /\ ~error
    /\ Innermost.todo = {}
    /\ IF Len(frames) = 1 THEN run' = "finished" /\ frames' = <<>>
       ELSE frames' = Caller /\ UNCHANGED run
    /\ UNCHANGED <<vars, error, edited>>

\* Mutant: the node is tried again without counting.
RetryForever ==
    /\ run = "running" /\ error
    /\ frames' = frames
    /\ error' = FALSE
    /\ UNCHANGED <<vars, run, edited>>

\* Retried, put up with, or the end of this engine's run and so a failure of the
\* node that called it.
HandleError ==
    /\ run = "running" /\ error
    /\ IF Innermost.failures + 1 < Attempts
       THEN /\ frames' = Inner([Innermost EXCEPT !.failures = @ + 1])
            /\ error' = FALSE
            /\ UNCHANGED run
       ELSE IF Innermost.id \in Tolerant
       THEN /\ frames' = Inner(Left(Innermost))
            /\ error' = FALSE
            /\ UNCHANGED run
       ELSE /\ frames' = Outer
            /\ error' = (Len(frames) > 1)
            /\ run' = IF Len(frames) > 1 THEN run ELSE "failed"
    /\ UNCHANGED <<vars, edited>>

RunStep == (\E t \in Ids : Call(t) \/ CallFails(t)) \/ Return \/ HandleError

\* The requests of WorkflowRefs go on meanwhile.
Meanwhile ==
    /\ edited' = (edited \/ \E q \in Requests : pc[q] # "saved" /\ pc'[q] = "saved")
    /\ UNCHANGED <<run, frames, error>>

SubNext == (Next /\ Meanwhile) \/ (\E i \in Ids : StartRun(i)) \/ RunStep

SubSpec == SubInit /\ [][SubNext]_allVars

\* Statements return, and a frame does nothing but call sub-workflows: runs whose
\* other nodes wait for a silent peer (Silent in Engine) are left out here.
SubFairness ==
    /\ \A q \in Requests : WF_allVars(Handle(q) /\ Meanwhile)
    /\ WF_allVars(RunStep)

-----------------------------------------------------------------------------
\* However the stored workflows call each other, no more than Cap sub-engines are
\* nested, inline ones included (with_initial_sub_workflow_depth).
DepthBounded == Len(frames) <= Cap + 1

\* An engine below the outermost has the credentials only if every call on the
\* way to it opted in.
CredentialsAsOptedIn ==
    \A k \in 2..Len(frames) :
        frames[k].creds => \A j \in 1..(k - 1) : \A t \in frames[j].now : <<frames[j].id, t>> \in OptedIn

\* No workflow runs inside itself, unless one was saved while the run went on or
\* two PUTs raced: what PUT refuses is what a run would have to survive.
NoRunInsideItself ==
    ~edited /\ (\A q \in stale : pc[q] # "saved") =>
        \A j, k \in DOMAIN frames :
            j < k /\ ~frames[j].inline /\ ~frames[k].inline => frames[j].id # frames[k].id

\* A run ends, also one over a stored cycle, with every failure retried at every
\* level.
RunEnds == run = "running" ~> run \in {"finished", "failed"}

\* Calls nest as far as the cap and no further, on the credentials that were
\* passed on, and never into themselves unless an edit or a race let them.
NestingSound == SubTypeOK /\ DepthBounded /\ CredentialsAsOptedIn /\ NoRunInsideItself

\* Walks and runs end, over whatever cycle a race has stored.
EverythingEnds == EveryRequestEnds /\ RunEnds
=============================================================================
