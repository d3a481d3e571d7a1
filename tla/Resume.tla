------------------------------- MODULE Resume -------------------------------
(***************************************************************************)
(* POST /runs/{run_id}/resume (crates/a2w-server/src/handlers.rs): another *)
(* execution under the id of a stored run, for which run_with_id hydrates  *)
(* the nodes that have a `finished` step record instead of executing them. *)
(*                                                                         *)
(* The Runs of Engine are here the executions of one run id: Original is   *)
(* the run or dry run that minted it, the others are resume requests, also *)
(* concurrent ones.  wf[r] is the workflow stored when r loads it, which   *)
(* may have other nodes than that of the original run.                     *)
(***************************************************************************)
EXTENDS Engine

CONSTANT Original

ASSUME ResumeAssumption == Original \in Runs

Resumptions == Runs \ {Original}

VARIABLES
    saved,   \* the executions whose result was saved
    record,  \* record[n]: what step_records has of node n: no finished row, one
             \* whose output_json is NULL, or one with an output ...
    kept,    \* ... and kept[n]: that output
    loaded,  \* the resumptions whose handler has loaded run and workflow
    unread   \* unread[r]: the nodes that resumption r has not probed yet

resumeVars == <<saved, record, kept, loaded, unread>>
allVars == <<vars, resumeVars>>

\* The type invariant of executions and stored records together.
ResumeTypeOK ==
    /\ TypeOK
    /\ saved \subseteq Runs
    /\ record \in [Nodes -> {"missing", "null", "found"}]
    /\ kept \in [Nodes -> SUBSET Item]
    /\ loaded \subseteq Resumptions
    /\ unread \in [Resumptions -> SUBSET Nodes]

\* A resumption always runs for real, whatever the original mode was.
ResumeInit ==
    /\ Init
    /\ \A r \in Resumptions : mode[r] = "run"
    /\ saved = {}
    /\ record = [n \in Nodes |-> "missing"]
    /\ kept = [n \in Nodes |-> {}]
    /\ loaded = {}
    /\ unread = [r \in Resumptions |-> wf[r].nodes]

-----------------------------------------------------------------------------
\* Mutant: only nodes that this execution executed are saved.
RowOfExecuted(r, n) == IF Fired(r, n) /\ Finishes(r, n) > 0 THEN "found" ELSE "missing"

\* What save_run_inner writes for node n: one row per event, and on Finished
\* events the node's entry in `outputs`, which orphans do not have.  A node
\* that the workflow of r does not have left no event and gets no row.
RowOf(r, n) ==
    IF Finishes(r, n) = 0 THEN "missing"
    ELSE IF stage[r][n] = "orphaned" THEN "null" ELSE "found"

\* save_run (after a dry run) or save_run_full: one transaction that deletes
\* all step records of the run id and writes those of this execution.  Only a
\* completed run gets here.
Save(r) ==
    /\ status[r] = "completed"
    /\ r \notin saved
    /\ saved' = saved \cup {r}
    /\ record' = [n \in Nodes |-> RowOf(r, n)]
    /\ kept' = [n \in Nodes |-> IF RowOf(r, n) = "found" THEN outputs[r][n] ELSE {}]
    /\ UNCHANGED <<vars, loaded, unread>>

\* The stored run and the workflow are loaded.  The fingerprint refuses a
\* workflow that changed; a dry run is saved without one, and no later save
\* gives it one.
Load(r) ==
    /\ r \notin loaded
    /\ saved # {}
    /\ mode[Original] = "run" => wf[r] = wf[Original]
    /\ loaded' = loaded \cup {r}
    /\ UNCHANGED <<vars, saved, record, kept, unread>>

Loaded(r) == r \in loaded /\ status[r] = "requested"

Hydrating(r) == Loaded(r) /\ ValidWorkflow(wf[r]) /\ wf[r].registered

Probe(r, n) ==
    /\ Hydrating(r)
    /\ n \in unread[r]
    /\ unread' = [unread EXCEPT ![r] = @ \ {n}]

\* Found: the output is re-stamped and the node is done.
HydrateFound(r, n) ==
    /\ Probe(r, n)
    /\ record[n] = "found"
    /\ outputs' = [outputs EXCEPT ![r][n] = kept[n]]
    /\ stage' = [stage EXCEPT ![r][n] = "done"]
    /\ Record(r, {n}, <<"finished">>)
    /\ UNCHANGED <<wf, mode, status, calls, permits, saved, record, kept, loaded>>

\* Mutant: a record that cannot be used counts as missing.
HydrateBlind(r, n) ==
    /\ Probe(r, n)
    /\ UNCHANGED <<vars, saved, record, kept, loaded>>

HydrateMissing(r, n) ==
    /\ Probe(r, n)
    /\ record[n] = "missing"
    /\ UNCHANGED <<vars, saved, record, kept, loaded>>

\* Corrupt: no output in the row, or a read that fails, a payload that does
\* not parse or a node whose kind changed.  The resume is aborted.
HydrateCorrupt(r, n) ==
    /\ Probe(r, n)
    /\ status' = [status EXCEPT ![r] = "corrupt"]
    /\ UNCHANGED <<wf, mode, stage, calls, outputs, events, permits,
                   saved, record, kept, loaded>>

\* Mutant: the reachability guard is left to fresh runs.
RejoinAll(r) ==
    /\ Hydrating(r)
    /\ unread[r] = {}
    /\ status' = [status EXCEPT ![r] = "planning"]
    /\ UNCHANGED <<wf, mode, stage, calls, outputs, events, permits, resumeVars>>

\* After the last probe, which every node of the workflow has had: like
\* Begin, for the nodes that are not done.
Rejoin(r) ==
    /\ Hydrating(r)
    /\ unread[r] = {}
    /\ LET orphans == {n \in Nodes \ Reachable(wf[r]) : ~IsDone(r, n)} IN
       /\ stage' = [stage EXCEPT ![r] =
                       [n \in Nodes |-> IF n \in orphans THEN "orphaned" ELSE @[n]]]
       /\ Record(r, orphans \cap wf[r].nodes, <<"finished">>)
    /\ status' = [status EXCEPT ![r] = "planning"]
    /\ UNCHANGED <<wf, mode, calls, outputs, permits, resumeVars>>

-----------------------------------------------------------------------------
Launch(r) ==
    \/ r = Original /\ (Reject(r) \/ RejectKind(r) \/ Begin(r))
    \/ r # Original /\ Loaded(r) /\ (Reject(r) \/ RejectKind(r))

Execute(r) ==
    \/ Complete(r) \/ PlanWave(r) \/ CommitWave(r) \/ Abort(r) \/ Cancel(r)
    \/ \E n \in Nodes : Drive(r, n)

ResumeNext ==
    \/ \E r \in Runs : (Launch(r) \/ Execute(r)) /\ UNCHANGED resumeVars
    \/ \E r \in Runs : Save(r)
    \/ \E r \in Resumptions :
           \/ Load(r) \/ Rejoin(r)
           \/ \E n \in Nodes : HydrateFound(r, n) \/ HydrateMissing(r, n)
                                  \/ HydrateCorrupt(r, n)

ResumeSpec == ResumeInit /\ [][ResumeNext]_allVars

-----------------------------------------------------------------------------
\* A dry run, which has no fingerprint, was resumed on a workflow without node
\* n, and that resumption was saved.
Lost(n) == mode[Original] = "dry_run" /\ \E q \in saved : n \notin wf[q].nodes

\* A resumption, of whatever version of the workflow, executes nothing that the
\* original run finished, routed nothing to, or could not reach, and of the
\* original's nodes only those whose last attempt had failed under on_error =
\* continue; except, after a dry run, nodes that an earlier resumption lost.
NotRefired ==
    \A r \in Resumptions, n \in Nodes :
        Fired(r, n) /\ ~Lost(n) =>
            /\ Finishes(Original, n) = 0
            /\ n \in wf[Original].nodes =>
                   calls[Original][n] = AttemptLimit(Original, n)

\* What a resumption does execute has the input its producers settled on,
\* hydrated or new, like in any run.
ResumedOnInput == FiredOnInput

\* A resumption executes the rest of its run: nothing that is done, and what it
\* executes on its input.
ResumesTheRest == ResumeTypeOK /\ NotRefired /\ ResumedOnInput

\* The output of a node that the original run finished stays in the records,
\* however many resumptions save their results over them: for a real run
\* always, for a dry run until a version of the workflow without the node is
\* resumed, whose save deletes the record.
RecordKept ==
    [][\A n \in Nodes :
          record[n] = "found" /\ Finishes(Original, n) = 1 =>
              \/ record'[n] = "found" /\ kept'[n] = kept[n]
              \/ Lost(n)']_allVars
=============================================================================
