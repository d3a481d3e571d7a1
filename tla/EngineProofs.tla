---------------------------- MODULE EngineProofs ----------------------------
(***************************************************************************)
(* Proofs about the engine, for every set of nodes, ports, runs and        *)
(* workflows and every concurrency cap: type correctness, the conservation *)
(* of permits, the inductive invariant of the scheduler, and from it that  *)
(* executors fire only on committed input, that the scheduler never stalls *)
(* and that ended runs and committed outputs do not change.                *)
(*                                                                         *)
(* Then proofs about resumed runs, for every set of nodes and resumptions, *)
(* all versions of the workflow and every order of saves, loads and        *)
(* probes: what a resumption finds in the step records is what the         *)
(* original run finished, it executes only the rest, and it saves what it  *)
(* found again.  The steps of a single execution are the engine's, so the  *)
(* types and the event log are those of the first part.  The scheduler's   *)
(* books are not: a hydrated node is done before its producers are, and    *)
(* stays done when the workflow no longer reaches it.                      *)
(***************************************************************************)
EXTENDS Resume, FiniteSetTheorems, TLAPS

-----------------------------------------------------------------------------
(* The data the engine handles. *)

\* What run_one_node stamps on an executor's answer are items.
LEMMA StampedType ==
    ASSUME NEW n \in Nodes, NEW ports \in Emissions
    PROVE  Stamped(n, ports) \in SUBSET Item
<1>1. PICK k \in 0..MaxItems : ports \in [1..k -> Ports]
  BY DEF Emissions
<1>2. ASSUME NEW i \in DOMAIN ports
      PROVE  [node |-> n, index |-> i, port |-> ports[i]] \in Item
  BY <1>1, <1>2, EngineAssumption DEF Item, EngineAssumption
<1> QED
  BY <1>2 DEF Stamped

\* Appending the same event kinds to some nodes keeps the log well typed.
LEMMA RecordType ==
    ASSUME events \in [Runs -> [Nodes -> Seq(EventKinds)]],
           NEW r \in Runs, NEW ns, NEW kinds \in Seq(EventKinds),
           Record(r, ns, kinds)
    PROVE  events' \in [Runs -> [Nodes -> Seq(EventKinds)]]
<1>1. \A n \in Nodes : events[r][n] \o kinds \in Seq(EventKinds)
  OBVIOUS
<1> QED
  BY <1>1 DEF Record

\* with_max_concurrency always leaves at least one permit.
LEMMA PermitsType == Permits \in Nat /\ Permits >= 1
  BY EngineAssumption DEF Permits, EngineAssumption

\* The nodes in one stage can be counted, which Cancel does.
LEMMA StageFinite ==
    ASSUME NEW r \in Runs, NEW s
    PROVE  IsFiniteSet(InStage(r, s)) /\ Cardinality(InStage(r, s)) \in Nat
<1>1. InStage(r, s) \in SUBSET Nodes
  BY DEF InStage
<1> QED
  BY <1>1, EngineAssumption, FS_Subset, FS_CardinalityType DEF EngineAssumption

-----------------------------------------------------------------------------
(* Type correctness. *)

\* No step of the engine breaks the types.
LEMMA TypeStep ==
    ASSUME TypeOK, [Next]_vars
    PROVE  TypeOK'
<1> USE DEF TypeOK
<1>0. CASE UNCHANGED vars
  BY <1>0 DEF vars
<1>1. ASSUME NEW r \in Runs, Reject(r) PROVE TypeOK'
  BY <1>1 DEF Reject, Statuses, Ended
<1>2. ASSUME NEW r \in Runs, RejectKind(r) PROVE TypeOK'
  BY <1>2 DEF RejectKind, Statuses, Ended
<1>3. ASSUME NEW r \in Runs, Begin(r) PROVE TypeOK'
  <2>1. <<"finished">> \in Seq(EventKinds)
    BY DEF EventKinds
  <2>2. events' \in [Runs -> [Nodes -> Seq(EventKinds)]]
    BY <1>3, <2>1, RecordType DEF Begin
  <2>3. stage' \in [Runs -> [Nodes -> Stages]] /\ status' \in [Runs -> Statuses]
    BY <1>3 DEF Begin, Stages, Statuses
  <2> QED
    BY <1>3, <2>2, <2>3 DEF Begin
<1>4. ASSUME NEW r \in Runs, Complete(r) PROVE TypeOK'
  BY <1>4 DEF Complete, Statuses, Ended
<1>5. ASSUME NEW r \in Runs, PlanWave(r) PROVE TypeOK'
  <2>1. <<"finished">> \in Seq(EventKinds)
    BY DEF EventKinds
  <2>2. events' \in [Runs -> [Nodes -> Seq(EventKinds)]]
    BY <1>5, <2>1, RecordType DEF PlanWave
  <2>3. stage' \in [Runs -> [Nodes -> Stages]] /\ status' \in [Runs -> Statuses]
    BY <1>5 DEF PlanWave, Stages, Statuses, Ended
  <2> QED
    BY <1>5, <2>2, <2>3 DEF PlanWave
<1>6. ASSUME NEW r \in Runs, CommitWave(r) PROVE TypeOK'
  BY <1>6 DEF CommitWave, Stages, Statuses
<1>7. ASSUME NEW r \in Runs, Abort(r) PROVE TypeOK'
  BY <1>7 DEF Abort, Statuses, Ended
<1>8. ASSUME NEW r \in Runs, Cancel(r) PROVE TypeOK'
  <2>1. stage' \in [Runs -> [Nodes -> Stages]] /\ status' \in [Runs -> Statuses]
    BY <1>8 DEF Cancel, Stages, Statuses, Ended
  <2>2. permits' \in Nat
    BY <1>8, StageFinite DEF Cancel
  <2> QED
    BY <1>8, <2>1, <2>2 DEF Cancel
<1>9. ASSUME NEW r \in Runs, NEW n \in Nodes, Start(r, n) PROVE TypeOK'
  <2>1. <<"started">> \in Seq(EventKinds)
    BY DEF EventKinds
  <2>2. events' \in [Runs -> [Nodes -> Seq(EventKinds)]]
    BY <1>9, <2>1, RecordType DEF Start
  <2>3. stage' \in [Runs -> [Nodes -> Stages]]
    BY <1>9 DEF Start, Stages
  <2>4. calls' \in [Runs -> [Nodes -> Nat]] /\ permits' \in Nat
    BY <1>9 DEF Start
  <2> QED
    BY <1>9, <2>2, <2>3, <2>4 DEF Start
<1>10. ASSUME NEW r \in Runs, NEW n \in Nodes, Retry(r, n) PROVE TypeOK'
  <2>1. <<"failed">> \in Seq(EventKinds)
    BY DEF EventKinds
  <2>2. events' \in [Runs -> [Nodes -> Seq(EventKinds)]]
    BY <1>10, <2>1, RecordType DEF Retry
  <2>3. calls' \in [Runs -> [Nodes -> Nat]]
    BY <1>10 DEF Retry
  <2> QED
    BY <1>10, <2>2, <2>3 DEF Retry
<1>11. ASSUME NEW r \in Runs, NEW n \in Nodes, NEW ports \in Emissions,
              Succeed(r, n, ports)
       PROVE  TypeOK'
  <2>1. <<"finished">> \in Seq(EventKinds)
    BY DEF EventKinds
  <2>2. events' \in [Runs -> [Nodes -> Seq(EventKinds)]]
    BY <1>11, <2>1, RecordType DEF Succeed
  <2>3. outputs' \in [Runs -> [Nodes -> SUBSET Item]]
    BY <1>11, StampedType DEF Succeed
  <2> QED
    BY <1>11, <2>2, <2>3 DEF Succeed, Stages
<1>12. ASSUME NEW r \in Runs, NEW n \in Nodes, Fail(r, n) PROVE TypeOK'
  <2>1. <<"failed">> \in Seq(EventKinds) /\ <<"failed", "failed">> \in Seq(EventKinds)
    BY DEF EventKinds
  <2>2. events' \in [Runs -> [Nodes -> Seq(EventKinds)]]
    BY <1>12, <2>1, RecordType DEF Fail
  <2>3. stage' \in [Runs -> [Nodes -> Stages]]
    BY <1>12 DEF Fail, Stages
  <2>4. permits' \in Nat
    BY <1>12 DEF Fail
  <2> QED
    BY <1>12, <2>2, <2>3, <2>4 DEF Fail
<1> QED
  BY <1>0, <1>1, <1>2, <1>3, <1>4, <1>5, <1>6, <1>7, <1>8, <1>9, <1>10,
     <1>11, <1>12 DEF Next, Schedule, Drive, Return

\* Every variable of the engine keeps its type: in particular run results
\* are items stamped with a node of the workflow, and the permits of the
\* semaphore never become negative.
THEOREM TypeCorrect == Spec => []TypeOK
<1>1. Init => TypeOK
  BY PermitsType DEF Init, TypeOK, Statuses, Stages
<1>2. TypeOK /\ [Next]_vars => TypeOK'
  BY TypeStep
<1> QED
  BY <1>1, <1>2, PTL DEF Spec

-----------------------------------------------------------------------------
(* The inductive invariant of the scheduler. *)

\* The workflow of a run is one of Workflows, so its edges join nodes.
LEMMA EdgeType ==
    ASSUME TypeOK, NEW r \in Runs
    PROVE  /\ wf[r].edges \subseteq Edge
           /\ \A n \in Nodes : \A e \in Incoming(wf[r], n) : e.from \in Nodes
  BY EngineAssumption DEF TypeOK, EngineAssumption, WorkflowType, Edge, Incoming

\* The nodes of a workflow are nodes, and in a valid one the trigger reaches no
\* others: they are a closed set.
LEMMA ReachedWithin ==
    ASSUME TypeOK, NEW r \in Runs
    PROVE  /\ wf[r].nodes \subseteq Nodes
           /\ ValidWorkflow(wf[r]) => Reachable(wf[r]) \subseteq wf[r].nodes
<1>1. wf[r].nodes \subseteq Nodes
  BY EngineAssumption DEF TypeOK, EngineAssumption, WorkflowType
<1>2. ASSUME ValidWorkflow(wf[r]), NEW n \in Reachable(wf[r]) PROVE n \in wf[r].nodes
  <2>1. wf[r].triggers \subseteq wf[r].nodes
    BY <1>2 DEF ValidWorkflow
  <2>2. \A e \in wf[r].edges : e.from \in wf[r].nodes => e.to \in wf[r].nodes
    BY <1>2 DEF ValidWorkflow
  <2> QED
    BY <1>1, <2>1, <2>2 DEF Reachable
<1> QED
  BY <1>1, <1>2

\* A node the trigger reaches, other than the trigger, is fed by some
\* connection: without one, all the other nodes would be a closed set.
LEMMA ReachedIsFed ==
    ASSUME TypeOK, NEW r \in Runs, NEW n \in Reachable(wf[r]),
           n \notin wf[r].triggers
    PROVE  Incoming(wf[r], n) # {}
<1> SUFFICES ASSUME Incoming(wf[r], n) = {} PROVE FALSE
  OBVIOUS
<1> DEFINE S == Nodes \ {n}
<1>1. wf[r].triggers \subseteq S
  BY EngineAssumption DEF TypeOK, EngineAssumption, WorkflowType
<1>2. \A e \in wf[r].edges : e.from \in S => e.to \in S
  BY EdgeType DEF Incoming, Edge
<1>3. n \in S
  BY <1>1, <1>2 DEF Reachable
<1> QED
  BY <1>3

\* In an acyclic workflow, among the nodes that are left one is runnable.
LEMMA SomeRunnable ==
    ASSUME TypeOK, NEW r \in Runs, ValidWorkflow(wf[r]),
           NEW m \in Nodes, ~IsDone(r, m)
    PROVE  Runnable(r) # {}
<1> DEFINE Left == {n \in Nodes : ~IsDone(r, n)}
<1>1. Left \in SUBSET Nodes /\ Left # {}
  OBVIOUS
<1>2. PICK n \in Left : \A e \in Incoming(wf[r], n) : e.from \notin Left
  BY <1>1 DEF ValidWorkflow, Acyclic
<1>3. \A e \in Incoming(wf[r], n) : IsDone(r, e.from)
  BY <1>2, EdgeType
<1> QED
  BY <1>2, <1>3 DEF Runnable

\* A step in which what is done stays done, with the same outputs.
Keeps(r) ==
    /\ wf' = wf
    /\ \A m \in Nodes : IsDone(r, m) =>
           IsDone(r, m)' /\ outputs'[r][m] = outputs[r][m]

\* Such a step leaves the input of a node whose producers are done alone.
LEMMA InputKept ==
    ASSUME TypeOK, NEW r \in Runs, NEW n \in Nodes, Keeps(r),
           \A e \in Incoming(wf[r], n) : IsDone(r, e.from)
    PROVE  /\ Input(r, n)' = Input(r, n)
           /\ \A e \in Incoming(wf[r], n)' : IsDone(r, e.from)'
<1>1. wf' = wf /\ Incoming(wf[r], n)' = Incoming(wf[r], n)
  BY DEF Keeps, Incoming
<1>2. \A e \in Incoming(wf[r], n) : /\ IsDone(r, e.from)'
                                    /\ outputs'[r][e.from] = outputs[r][e.from]
  BY EdgeType DEF Keeps
<1>3. {{i \in outputs'[r][e.from] : i.port = e.port} : e \in Incoming(wf[r], n)}
        = {{i \in outputs[r][e.from] : i.port = e.port} : e \in Incoming(wf[r], n)}
  BY <1>2
<1> QED
  BY <1>1, <1>2, <1>3 DEF Input

\* Such a step keeps NodeInv of every node it does not touch.
LEMMA NodeKept ==
    ASSUME TypeOK, NEW r \in Runs, NEW n \in Nodes, NodeInv(r, n), Keeps(r),
           stage'[r][n] = stage[r][n], calls'[r][n] = calls[r][n]
    PROVE  NodeInv(r, n)'
<1>1. CASE stage[r][n] \in {"pending", "orphaned"}
  BY <1>1 DEF NodeInv, Fired
<1>2. CASE stage[r][n] \notin {"pending", "orphaned"}
  <2>1. \A e \in Incoming(wf[r], n) : IsDone(r, e.from)
    BY <1>2 DEF NodeInv
  <2>2. /\ Input(r, n)' = Input(r, n)
        /\ \A e \in Incoming(wf[r], n)' : IsDone(r, e.from)'
    BY <2>1, InputKept
  <2>3. Incoming(wf[r], n)' = Incoming(wf[r], n)
    BY DEF Keeps, Incoming
  <2> QED
    BY <2>2, <2>3 DEF NodeInv, Fired
<1> QED
  BY <1>1, <1>2

Inv(r) == RunInv(r) /\ \A n \in Nodes : NodeInv(r, n)

\* A run that a step does not touch keeps its invariant.
LEMMA OtherRun ==
    ASSUME TypeOK, NEW q \in Runs, Inv(q), wf' = wf,
           status'[q] = status[q], stage'[q] = stage[q],
           calls'[q] = calls[q], outputs'[q] = outputs[q]
    PROVE  Inv(q)'
<1>1. Keeps(q)
  BY DEF Keeps, IsDone
<1>2. \A n \in Nodes : NodeInv(q, n)'
  BY <1>1, NodeKept DEF Inv
<1>3. RunInv(q)'
  BY DEF Inv, RunInv, IsDone
<1> QED
  BY <1>2, <1>3 DEF Inv

\* Steps that change the status of a run and none of its nodes.
LEMMA ReturnStep ==
    ASSUME TypeOK, NEW r \in Runs, Inv(r),
           Reject(r) \/ RejectKind(r) \/ Complete(r) \/ Abort(r)
    PROVE  Inv(r)'
<1>1. UNCHANGED <<wf, stage, calls, outputs>>
  BY DEF Reject, RejectKind, Complete, Abort
<1>2. \A n \in Nodes : NodeInv(r, n)'
  BY <1>1, NodeKept DEF Keeps, IsDone, Inv
<1>3. RunInv(r)'
  <2>1. CASE Reject(r) \/ RejectKind(r)
    BY <2>1 DEF Reject, RejectKind, Inv, RunInv, TypeOK
  <2>2. CASE Complete(r)
    BY <2>2 DEF Complete, Inv, RunInv, TypeOK, IsDone
  <2>3. CASE Abort(r)
    BY <2>3 DEF Abort, WaveDriven, Inv, RunInv, TypeOK
  <2> QED
    BY <2>1, <2>2, <2>3
<1> QED
  BY <1>2, <1>3 DEF Inv

\* Marking the orphans establishes what a running workflow relies on.
LEMMA BeginStep ==
    ASSUME TypeOK, NEW r \in Runs, Inv(r), Begin(r)
    PROVE  Inv(r)'
<1>1. /\ UNCHANGED <<wf, calls, outputs>>
      /\ status'[r] = "planning"
      /\ \A n \in Nodes : stage[r][n] = "pending" /\ calls[r][n] = 0
      /\ \A n \in Nodes : stage'[r][n] = IF n \in Nodes \ Reachable(wf[r])
                                         THEN "orphaned" ELSE "pending"
  BY DEF Begin, Inv, RunInv, TypeOK
<1>2. \A n \in Nodes : NodeInv(r, n)'
  BY <1>1 DEF NodeInv, Fired
<1>3. ValidWorkflow(wf[r])' /\ Reachable(wf[r])' = Reachable(wf[r])
  BY <1>1 DEF Begin
<1>4. RunInv(r)'
  BY <1>1, <1>3 DEF RunInv
<1> QED
  BY <1>2, <1>4 DEF Inv

\* Planning a wave keeps the books and never stalls: SomeRunnable is used here.
LEMMA PlanStep ==
    ASSUME TypeOK, NEW r \in Runs, Inv(r), PlanWave(r)
    PROVE  Inv(r)'
<1>1. /\ UNCHANGED <<wf, calls, outputs>>
      /\ status[r] = "planning"
      /\ ValidWorkflow(wf[r])
      /\ \A n \in Nodes : stage[r][n] \in {"pending", "done", "orphaned"}
  BY DEF PlanWave, Inv, RunInv
<1>2. Runnable(r) # {} /\ status'[r] = "running"
  BY <1>1, SomeRunnable DEF PlanWave, TypeOK
<1>3. \A n \in Nodes : stage'[r][n] = IF n \in Starved(r) THEN "done"
                                      ELSE IF n \in Runnable(r) THEN "waiting"
                                      ELSE stage[r][n]
  BY DEF PlanWave, TypeOK
<1>4. \A n \in Nodes : IsDone(r, n) => n \notin Runnable(r) /\ n \notin Starved(r)
  BY DEF Runnable, Starved
<1>5. Keeps(r)
  BY <1>1, <1>3, <1>4 DEF Keeps, IsDone
<1>6. ASSUME NEW n \in Nodes PROVE NodeInv(r, n)'
  <2>1. CASE n \in Runnable(r)
    <3>1. stage'[r][n] \in {"done", "waiting"} /\ stage[r][n] = "pending"
      BY <1>1, <1>3, <2>1 DEF Runnable, IsDone
    <3>2. ~Fired(r, n)'
      BY <1>1, <3>1 DEF Inv, NodeInv, Fired
    <3>3. \A e \in Incoming(wf[r], n) : IsDone(r, e.from)
      BY <2>1 DEF Runnable
    <3>4. /\ Input(r, n)' = Input(r, n)
          /\ \A e \in Incoming(wf[r], n)' : IsDone(r, e.from)'
      BY <1>5, <3>3, InputKept
    <3>5. stage'[r][n] = "waiting" => Incoming(wf[r], n) = {} \/ Input(r, n) # {}
      BY <1>3, <2>1, <3>1 DEF Starved
    <3>6. Incoming(wf[r], n)' = Incoming(wf[r], n)
      BY <1>1 DEF Incoming
    <3> QED
      BY <3>1, <3>2, <3>4, <3>5, <3>6 DEF NodeInv
  <2>2. CASE n \notin Runnable(r)
    BY <1>1, <1>3, <1>5, <2>2, NodeKept DEF Starved, Inv
  <2> QED
    BY <2>1, <2>2
<1>7. RunInv(r)'
  <2>1. ValidWorkflow(wf[r])' /\ Reachable(wf[r])' = Reachable(wf[r])
    BY <1>1
  <2>2. \A n \in Nodes : stage'[r][n] = "orphaned" <=> stage[r][n] = "orphaned"
    BY <1>3, <1>4 DEF IsDone, Starved
  <2>3. \A n \in Nodes : stage'[r][n] # "dropped"
    BY <1>1, <1>3
  <2>4. \A n \in Nodes : stage[r][n] = "orphaned" <=> n \notin Reachable(wf[r])
    BY <1>1 DEF Inv, RunInv
  <2> QED
    BY <1>1, <1>2, <2>1, <2>2, <2>3, <2>4 DEF RunInv
<1> QED
  BY <1>6, <1>7 DEF Inv

\* What every step of one node's future does to the nodes of its run.
FutureMoves(r, n) ==
    /\ UNCHANGED <<wf, status>>
    /\ stage[r][n] \in {"waiting", "running"}
    /\ stage'[r][n] \in {"running", "produced", "failed"}
    /\ \A m \in Nodes \ {n} : /\ stage'[r][m] = stage[r][m]
                              /\ calls'[r][m] = calls[r][m]
                              /\ outputs'[r][m] = outputs[r][m]

\* A step of one node's future moves no other node.
LEMMA FutureMoved ==
    ASSUME TypeOK, NEW r \in Runs, NEW n \in Nodes, Drive(r, n)
    PROVE  FutureMoves(r, n)
<1> USE DEF FutureMoves
<1>1. CASE Start(r, n)
  BY <1>1 DEF Start, TypeOK
<1>2. CASE Retry(r, n)
  BY <1>2 DEF Retry, TypeOK
<1>3. ASSUME NEW ports \in Emissions, Succeed(r, n, ports)
      PROVE  FutureMoves(r, n)
  BY <1>3 DEF Succeed, TypeOK
<1>4. CASE Fail(r, n)
  BY <1>4 DEF Fail, TypeOK
<1> QED
  BY <1>1, <1>2, <1>3, <1>4 DEF Drive, Return

\* A step of one node's future, between waiting and its outcome.
LEMMA FutureStep ==
    ASSUME TypeOK, NEW r \in Runs, NEW n \in Nodes, Inv(r), Drive(r, n)
    PROVE  Inv(r)'
<1>1. FutureMoves(r, n)
  BY FutureMoved
<1>2. Keeps(r)
  BY <1>1 DEF FutureMoves, Keeps, IsDone
<1>3. NodeInv(r, n)'
  <2>1. /\ \A e \in Incoming(wf[r], n) : IsDone(r, e.from)
        /\ Incoming(wf[r], n) = {} \/ Input(r, n) # {}
    BY <1>1 DEF FutureMoves, Inv, NodeInv
  <2>2. /\ Input(r, n)' = Input(r, n)
        /\ \A e \in Incoming(wf[r], n)' : IsDone(r, e.from)'
    BY <1>2, <2>1, InputKept
  <2>3. Incoming(wf[r], n)' = Incoming(wf[r], n)
    BY <1>1 DEF FutureMoves, Incoming
  <2> QED
    BY <1>1, <2>1, <2>2, <2>3 DEF FutureMoves, NodeInv
<1>4. \A m \in Nodes : NodeInv(r, m)'
  BY <1>1, <1>2, <1>3, NodeKept DEF FutureMoves, Inv
<1>5. RunInv(r)'
  <2>1. ValidWorkflow(wf[r])' /\ Reachable(wf[r])' = Reachable(wf[r])
    BY <1>1 DEF FutureMoves, Inv, RunInv
  <2>2. status[r] = "running" /\ status'[r] = "running"
    BY <1>1 DEF FutureMoves, Inv, RunInv
  <2>3. \A m \in Nodes : stage'[r][m] = "orphaned" <=> stage[r][m] = "orphaned"
    BY <1>1 DEF FutureMoves
  <2>4. \A m \in Nodes : stage'[r][m] # "dropped"
    BY <1>1, <2>2 DEF FutureMoves, Inv, RunInv
  <2>5. \A m \in Nodes : stage[r][m] = "orphaned" <=> m \notin Reachable(wf[r])
    BY <2>2 DEF Inv, RunInv
  <2> QED
    BY <2>1, <2>2, <2>3, <2>4, <2>5 DEF RunInv
<1> QED
  BY <1>4, <1>5 DEF Inv

\* The wave is over, or given up, or its run is dropped: nodes of the wave
\* change stage, nodes that are done and all outputs stay.
LEMMA WaveEndStep ==
    ASSUME TypeOK, NEW r \in Runs, Inv(r), CommitWave(r) \/ Cancel(r)
    PROVE  Inv(r)'
<1>1. /\ UNCHANGED <<wf, calls, outputs>>
      /\ status[r] = "running"
  BY DEF CommitWave, Cancel, WaveDriven
<1>2. \A n \in Nodes :
          \/ stage'[r][n] = stage[r][n]
          \/ /\ stage[r][n] = "produced"
             /\ stage'[r][n] = "done"
          \/ /\ stage[r][n] \in {"waiting", "running"}
             /\ stage'[r][n] = "dropped"
  BY DEF CommitWave, Cancel, TypeOK
<1>3. Keeps(r)
  BY <1>1, <1>2 DEF Keeps, IsDone
<1>4. ASSUME NEW n \in Nodes PROVE NodeInv(r, n)'
  <2>1. CASE stage'[r][n] = stage[r][n]
    BY <1>1, <1>3, <2>1, NodeKept DEF Inv
  <2>2. CASE /\ stage[r][n] \in {"produced", "waiting", "running"}
             /\ stage'[r][n] \in {"done", "dropped"}
    <3>1. /\ \A e \in Incoming(wf[r], n) : IsDone(r, e.from)
          /\ Incoming(wf[r], n) = {} \/ Input(r, n) # {}
      BY <2>2 DEF Inv, NodeInv
    <3>2. /\ Input(r, n)' = Input(r, n)
          /\ \A e \in Incoming(wf[r], n)' : IsDone(r, e.from)'
      BY <1>3, <3>1, InputKept
    <3>3. Incoming(wf[r], n)' = Incoming(wf[r], n)
      BY <1>1 DEF Incoming
    <3> QED
      BY <2>2, <3>1, <3>2, <3>3 DEF NodeInv
  <2> QED
    BY <1>2, <2>1, <2>2
<1>5. RunInv(r)'
  <2>1. ValidWorkflow(wf[r])' /\ Reachable(wf[r])' = Reachable(wf[r])
    BY <1>1 DEF Inv, RunInv
  <2>2. \A n \in Nodes : stage'[r][n] = "orphaned" <=> stage[r][n] = "orphaned"
    BY <1>2
  <2>3. CASE CommitWave(r)
    <3>1. \A n \in Nodes : stage'[r][n] \notin {"waiting", "running"}
      BY <1>2, <2>3 DEF CommitWave, WaveDriven
    <3>2. \A n \in Nodes : stage'[r][n] \in {"pending", "done", "orphaned"}
      <4>1. \A n \in Nodes : stage[r][n] # "dropped"
        BY <1>1 DEF Inv, RunInv
      <4>2. \A n \in Nodes : stage'[r][n] # "produced" /\ stage'[r][n] # "failed"
        BY <2>3 DEF CommitWave, InStage, TypeOK
      <4>3. \A n \in Nodes : /\ stage[r][n] \in Stages
                             /\ stage[r][n] \notin {"waiting", "running"}
        BY <2>3 DEF TypeOK, CommitWave, WaveDriven
      <4> QED
        BY <1>2, <3>1, <4>1, <4>2, <4>3 DEF Stages
    <3>3. status'[r] = "planning"
      BY <2>3 DEF CommitWave, TypeOK
    <3> QED
      BY <1>1, <2>1, <2>2, <3>1, <3>2, <3>3 DEF RunInv, Inv
  <2>4. CASE Cancel(r)
    <3>1. \A n \in Nodes : stage'[r][n] \notin {"waiting", "running"}
      BY <2>4 DEF Cancel, TypeOK
    <3>2. status'[r] = "cancelled"
      BY <2>4 DEF Cancel, TypeOK
    <3> QED
      BY <1>1, <2>1, <2>2, <3>1, <3>2 DEF RunInv, Inv
  <2> QED
    BY <2>3, <2>4
<1> QED
  BY <1>4, <1>5 DEF Inv

\* One step of the engine keeps the invariant: the run that moves by the
\* lemma of its action, every other run because nothing of it changes.
LEMMA ScheduleStep ==
    ASSUME TypeOK, ScheduleInv, [Next]_vars
    PROVE  ScheduleInv'
<1>1. \A q \in Runs : Inv(q)
  BY DEF ScheduleInv, Inv
<1>2. ASSUME UNCHANGED vars, NEW q \in Runs PROVE Inv(q)'
  BY <1>1, <1>2, OtherRun DEF vars
<1>3. ASSUME NEW r \in Runs, NEW q \in Runs,
             Schedule(r) \/ (\E n \in Nodes : Drive(r, n)) \/ Cancel(r)
      PROVE  Inv(q)'
  <2>1. CASE q = r
    <3>1. CASE Reject(r) \/ RejectKind(r) \/ Complete(r) \/ Abort(r)
      BY <1>1, <2>1, <3>1, ReturnStep
    <3>2. CASE Begin(r)
      BY <1>1, <2>1, <3>2, BeginStep
    <3>3. CASE PlanWave(r)
      BY <1>1, <2>1, <3>3, PlanStep
    <3>4. CASE CommitWave(r) \/ Cancel(r)
      BY <1>1, <2>1, <3>4, WaveEndStep
    <3>5. ASSUME NEW n \in Nodes, Drive(r, n) PROVE Inv(r)'
      BY <1>1, <3>5, FutureStep
    <3> QED
      BY <1>3, <2>1, <3>1, <3>2, <3>3, <3>4, <3>5 DEF Schedule
  <2>2. CASE q # r
    <3>1. /\ wf' = wf
          /\ status'[q] = status[q] /\ stage'[q] = stage[q]
          /\ calls'[q] = calls[q] /\ outputs'[q] = outputs[q]
      <4>1. CASE Schedule(r)
        BY <2>2, <4>1 DEF Schedule, Reject, RejectKind, Begin, Complete,
           PlanWave, CommitWave, Abort, TypeOK
      <4>2. ASSUME NEW n \in Nodes, Drive(r, n) PROVE <3>1
        BY <2>2, <4>2 DEF Drive, Return, Start, Retry, Succeed, Fail, TypeOK
      <4>3. CASE Cancel(r)
        BY <2>2, <4>3 DEF Cancel, TypeOK
      <4> QED
        BY <1>3, <4>1, <4>2, <4>3
    <3> QED
      BY <1>1, <3>1, OtherRun
  <2> QED
    BY <2>1, <2>2
<1>4. \A q \in Runs : Inv(q)'
  BY <1>2, <1>3 DEF Next
<1> QED
  BY <1>4 DEF ScheduleInv, Inv

\* The books of the scheduler agree in every reachable state: orphans are the
\* nodes out of reach, a wave belongs to a running run, and what a node in a
\* wave will consume was settled before the wave was planned.
THEOREM ScheduleCorrect == Spec => []ScheduleInv
<1>1. Init => ScheduleInv
  BY DEF Init, ScheduleInv, RunInv, NodeInv, Fired
<1>2. TypeOK /\ ScheduleInv /\ [Next]_vars => ScheduleInv'
  BY ScheduleStep
<1> QED
  BY <1>1, <1>2, TypeCorrect, PTL DEF Spec

\* Executors fire only for nodes the trigger reaches, after all of their
\* producers committed, and, the trigger apart, on input routed to them.
THEOREM FiresOnInput == Spec => []FiredOnInput
<1>1. TypeOK /\ ScheduleInv => FiredOnInput
  <2> SUFFICES ASSUME TypeOK, ScheduleInv, NEW r \in Runs, NEW n \in Nodes, Fired(r, n)
               PROVE  /\ n \in Reachable(wf[r])
                      /\ \A e \in Incoming(wf[r], n) : IsDone(r, e.from)
                      /\ n \notin wf[r].triggers => Input(r, n) # {}
    BY DEF FiredOnInput
  <2>1. stage[r][n] \in {"running", "produced", "failed", "done", "dropped"}
    BY DEF ScheduleInv, NodeInv
  <2>2. n \in Reachable(wf[r])
    BY <2>1 DEF ScheduleInv, RunInv
  <2>3. /\ \A e \in Incoming(wf[r], n) : IsDone(r, e.from)
        /\ Incoming(wf[r], n) = {} \/ Input(r, n) # {}
    BY <2>1 DEF ScheduleInv, NodeInv
  <2>4. n \notin wf[r].triggers => Incoming(wf[r], n) # {}
    BY <2>2, ReachedIsFed
  <2> QED
    BY <2>2, <2>3, <2>4
<1> QED
  BY <1>1, TypeCorrect, ScheduleCorrect, PTL

\* The "possible cycle" error is unreachable for a validated workflow.
THEOREM NoStall == Spec => []NeverStalled
<1>1. ScheduleInv => NeverStalled
  BY DEF ScheduleInv, RunInv, NeverStalled
<1> QED
  BY <1>1, ScheduleCorrect, PTL

-----------------------------------------------------------------------------
(* The semaphore. *)

\* The running nodes of all runs can be counted.
LEMMA TasksFinite == IsFiniteSet(RunningTasks) /\ Cardinality(RunningTasks) \in Nat
<1>1. IsFiniteSet(Runs \X Nodes)
  BY EngineAssumption, FS_Product DEF EngineAssumption
<1>2. RunningTasks \in SUBSET (Runs \X Nodes)
  BY DEF RunningTasks
<1> QED
  BY <1>1, <1>2, FS_Subset, FS_CardinalityType

\* A step in which the same nodes run before and after.
LEMMA SameTasks ==
    ASSUME \A q \in Runs, m \in Nodes :
               stage'[q][m] = "running" <=> stage[q][m] = "running"
    PROVE  RunningTasks' = RunningTasks
  BY DEF RunningTasks

\* Dropping a run returns one permit for each of its running nodes.
LEMMA CancelTasks ==
    ASSUME TypeOK, NEW r \in Runs, Cancel(r)
    PROVE  Cardinality(RunningTasks')
             = Cardinality(RunningTasks) - Cardinality(InStage(r, "running"))
<1> DEFINE Mine == {r} \X InStage(r, "running")
<1>1. RunningTasks' = RunningTasks \ Mine
  <2>1. \A q \in Runs, m \in Nodes :
            stage'[q][m] = "running" <=> stage[q][m] = "running" /\ q # r
    BY DEF Cancel, TypeOK
  <2> QED
    BY <2>1 DEF RunningTasks, InStage
<1>2. RunningTasks \cap Mine = Mine
  BY DEF RunningTasks, InStage
<1>3. Cardinality(Mine) = Cardinality(InStage(r, "running"))
  <2>1. IsFiniteSet({r}) /\ Cardinality({r}) = 1
    BY FS_Singleton
  <2>2. Cardinality(Mine) = Cardinality({r}) * Cardinality(InStage(r, "running"))
    BY <2>1, StageFinite, FS_Product
  <2> QED
    BY <2>1, <2>2, StageFinite
<1>4. Cardinality(RunningTasks \ Mine)
        = Cardinality(RunningTasks) - Cardinality(RunningTasks \cap Mine)
  BY TasksFinite, FS_Difference
<1> QED
  BY <1>1, <1>2, <1>3, <1>4

\* No step loses or duplicates a permit.
LEMMA PermitStep ==
    ASSUME TypeOK, ScheduleInv, PermitsConserved, [Next]_vars
    PROVE  PermitsConserved'
<1> USE DEF PermitsConserved
<1>0. Permits' = Permits
  BY DEF Permits
<1>1. CASE UNCHANGED vars
  BY <1>0, <1>1, SameTasks DEF vars
<1>2. ASSUME NEW r \in Runs, Schedule(r) PROVE PermitsConserved'
  <2>1. \A m \in Nodes : status[r] # "running" => stage[r][m] # "running"
    BY DEF ScheduleInv, RunInv
  <2>2. \A q \in Runs, m \in Nodes :
            stage'[q][m] = "running" <=> stage[q][m] = "running"
    <3>1. CASE Reject(r) \/ RejectKind(r) \/ Complete(r) \/ Abort(r)
      BY <3>1 DEF Reject, RejectKind, Complete, Abort
    <3>2. CASE Begin(r)
      BY <2>1, <3>2 DEF Begin, TypeOK
    <3>3. CASE PlanWave(r)
      BY <2>1, <3>3 DEF PlanWave, TypeOK
    <3>4. CASE CommitWave(r)
      BY <3>4 DEF CommitWave, WaveDriven, TypeOK
    <3> QED
      BY <1>2, <3>1, <3>2, <3>3, <3>4 DEF Schedule
  <2>3. permits' = permits
    BY <1>2 DEF Schedule, Reject, RejectKind, Begin, Complete, PlanWave,
       CommitWave, Abort
  <2> QED
    BY <1>0, <2>2, <2>3, SameTasks
<1>3. ASSUME NEW r \in Runs, NEW n \in Nodes, Drive(r, n) PROVE PermitsConserved'
  <2>1. CASE Start(r, n)
    <3>1. RunningTasks' = RunningTasks \cup {<<r, n>>} /\ <<r, n>> \notin RunningTasks
      BY <2>1 DEF Start, RunningTasks, TypeOK
    <3>2. Cardinality(RunningTasks') = Cardinality(RunningTasks) + 1
      BY <3>1, TasksFinite, FS_AddElement
    <3>3. permits' = permits - 1
      BY <2>1 DEF Start
    <3> QED
      BY <1>0, <3>2, <3>3, TasksFinite, PermitsType DEF TypeOK
  <2>2. CASE Retry(r, n)
    BY <1>0, <2>2, SameTasks DEF Retry
  <2>3. CASE Fail(r, n) \/ \E ports \in Emissions : Succeed(r, n, ports)
    <3>1. RunningTasks' = RunningTasks \ {<<r, n>>} /\ <<r, n>> \in RunningTasks
      BY <2>3 DEF Fail, Succeed, RunningTasks, TypeOK
    <3>2. Cardinality(RunningTasks') = Cardinality(RunningTasks) - 1
      BY <3>1, TasksFinite, FS_RemoveElement
    <3>3. permits' = permits + 1
      BY <2>3 DEF Fail, Succeed
    <3> QED
      BY <1>0, <3>2, <3>3, TasksFinite, PermitsType DEF TypeOK
  <2> QED
    BY <1>3, <2>1, <2>2, <2>3 DEF Drive, Return
<1>4. ASSUME NEW r \in Runs, Cancel(r) PROVE PermitsConserved'
  <2>1. permits' = permits + Cardinality(InStage(r, "running"))
    BY <1>4 DEF Cancel
  <2> QED
    BY <1>0, <1>4, <2>1, CancelTasks, StageFinite, TasksFinite, PermitsType DEF TypeOK
<1> QED
  BY <1>1, <1>2, <1>3, <1>4 DEF Next

\* Permits are never lost or handed out twice, whatever the interleaving of
\* the runs that share the semaphore and wherever a run is dropped.
THEOREM PermitsKept == Spec => []PermitsConserved
<1>1. Init => PermitsConserved
  <2> SUFFICES ASSUME Init PROVE PermitsConserved
    OBVIOUS
  <2>1. RunningTasks = {}
    BY DEF Init, RunningTasks
  <2> QED
    BY <2>1, PermitsType, FS_EmptySet DEF Init, PermitsConserved
<1>2. TypeOK /\ ScheduleInv /\ PermitsConserved /\ [Next]_vars => PermitsConserved'
  BY PermitStep
<1> QED
  BY <1>1, <1>2, TypeCorrect, ScheduleCorrect, PTL DEF Spec

\* At most Permits executors run at the same time, over all runs together:
\* the bounded fan-out the engine documents.
COROLLARY BoundedFanOut == Spec => [](Cardinality(RunningTasks) <= Permits)
<1>1. TypeOK /\ PermitsConserved => Cardinality(RunningTasks) <= Permits
  BY TasksFinite, PermitsType DEF PermitsConserved, TypeOK
<1> QED
  BY <1>1, TypeCorrect, PermitsKept, PTL

-----------------------------------------------------------------------------
(* Action properties. *)

\* After run_with_id has returned or was dropped nothing of the run moves.
THEOREM EndedStaysEnded == Spec => EndedIsFinal
<1> DEFINE Step == \A r \in Runs : status[r] \in Ended =>
          /\ status'[r] = status[r]
          /\ stage'[r] = stage[r]
          /\ calls'[r] = calls[r]
          /\ events'[r] = events[r]
<1>1. TypeOK /\ ScheduleInv /\ [Next]_vars => [Step]_vars
  <2> SUFFICES ASSUME TypeOK, ScheduleInv, Next, NEW q \in Runs, status[q] \in Ended
               PROVE  /\ status'[q] = status[q] /\ stage'[q] = stage[q]
                      /\ calls'[q] = calls[q] /\ events'[q] = events[q]
    OBVIOUS
  <2>1. PICK r \in Runs : \/ Schedule(r)
                          \/ \E n \in Nodes : Drive(r, n)
                          \/ Cancel(r)
    BY DEF Next
  <2>2. r # q
    <3>1. \A n \in Nodes : stage[q][n] \notin {"waiting", "running"}
      BY DEF ScheduleInv, RunInv, Ended
    <3>2. status[q] \notin {"requested", "planning", "running"}
      BY DEF Ended
    <3>3. ~ \E n \in Nodes : Drive(q, n)
      BY <3>1 DEF Drive, Return, Start, Retry, Succeed, Fail
    <3>4. ~Schedule(q) /\ ~Cancel(q)
      BY <3>2 DEF Schedule, Reject, RejectKind, Begin, Complete, PlanWave,
         CommitWave, Abort, WaveDriven, Cancel
    <3> QED
      BY <2>1, <3>3, <3>4
  <2>3. CASE Schedule(r)
    BY <2>2, <2>3 DEF Schedule, Reject, RejectKind, Begin, Complete, PlanWave,
       CommitWave, Abort, Record, TypeOK
  <2>4. ASSUME NEW n \in Nodes, Drive(r, n)
        PROVE  /\ status'[q] = status[q] /\ stage'[q] = stage[q]
               /\ calls'[q] = calls[q] /\ events'[q] = events[q]
    BY <2>2, <2>4 DEF Drive, Return, Start, Retry, Succeed, Fail, Record, TypeOK
  <2>5. CASE Cancel(r)
    BY <2>2, <2>5 DEF Cancel, TypeOK
  <2> QED
    BY <2>1, <2>3, <2>4, <2>5
<1> QED
  BY <1>1, TypeCorrect, ScheduleCorrect, PTL DEF Spec, EndedIsFinal

\* What a node handed to its consumers never changes.
THEOREM OutputsCommittedOnce == Spec => CommittedOnce
<1> DEFINE Step == \A r \in Runs, n \in Nodes : IsDone(r, n) =>
          /\ IsDone(r, n)'
          /\ outputs'[r][n] = outputs[r][n]
<1>1. TypeOK /\ [Next]_vars => [Step]_vars
  <2> SUFFICES ASSUME TypeOK, Next, NEW q \in Runs, NEW m \in Nodes, IsDone(q, m)
               PROVE  IsDone(q, m)' /\ outputs'[q][m] = outputs[q][m]
    OBVIOUS
  <2>1. ASSUME NEW r \in Runs, Schedule(r)
        PROVE  IsDone(q, m)' /\ outputs'[q][m] = outputs[q][m]
    <3>1. CASE Reject(r) \/ RejectKind(r) \/ Complete(r) \/ Abort(r)
      BY <3>1 DEF Reject, RejectKind, Complete, Abort, IsDone
    <3>2. CASE Begin(r)
      BY <3>2 DEF Begin, IsDone, TypeOK
    <3>3. CASE PlanWave(r)
      BY <3>3 DEF PlanWave, IsDone, TypeOK, Runnable, Starved
    <3>4. CASE CommitWave(r)
      BY <3>4 DEF CommitWave, IsDone, TypeOK
    <3> QED
      BY <2>1, <3>1, <3>2, <3>3, <3>4 DEF Schedule
  <2>2. ASSUME NEW r \in Runs, NEW n \in Nodes, Drive(r, n)
        PROVE  IsDone(q, m)' /\ outputs'[q][m] = outputs[q][m]
    <3>1. CASE Start(r, n) \/ Retry(r, n) \/ Fail(r, n)
      BY <3>1 DEF Start, Retry, Fail, IsDone, TypeOK
    <3>2. ASSUME NEW ports \in Emissions, Succeed(r, n, ports)
          PROVE  IsDone(q, m)' /\ outputs'[q][m] = outputs[q][m]
      BY <3>2 DEF Succeed, IsDone, TypeOK
    <3> QED
      BY <2>2, <3>1, <3>2 DEF Drive, Return
  <2>3. ASSUME NEW r \in Runs, Cancel(r)
        PROVE  IsDone(q, m)' /\ outputs'[q][m] = outputs[q][m]
    BY <2>3 DEF Cancel, IsDone, TypeOK
  <2> QED
    BY <2>1, <2>2, <2>3 DEF Next
<1> QED
  BY <1>1, TypeCorrect, PTL DEF Spec, CommittedOnce

-----------------------------------------------------------------------------
(* The event log. *)

NoFinish(log) == \A i \in DOMAIN log : log[i] # "finished"

\* The last event, and no other, is the Finished event.
FinishedLast(log) ==
    /\ log # <<>>
    /\ \A i \in DOMAIN log : log[i] = "finished" <=> i = Len(log)

\* What the log of one node says at each stage of it: nothing before the
\* permit arrives; one event per call while it runs, none of them Finished;
\* then either a Finished event after those of the calls, or the failure of
\* every attempt under on_error = continue, which leaves no output.
NodeLedger(r, n) ==
    /\ calls[r][n] <= AttemptLimit(r, n)
    /\ stage[r][n] \in {"pending", "waiting"} =>
           events[r][n] = <<>> /\ calls[r][n] = 0
    /\ stage[r][n] \in {"pending", "waiting", "running"} => outputs[r][n] = {}
    /\ stage[r][n] \in {"running", "produced"} => calls[r][n] >= 1
    /\ stage[r][n] = "running" =>
           /\ Len(events[r][n]) = calls[r][n]
           /\ NoFinish(events[r][n])
    /\ stage[r][n] = "orphaned" =>
           /\ events[r][n] = IF n \in wf[r].nodes THEN <<"finished">> ELSE <<>>
           /\ calls[r][n] = 0
    /\ stage[r][n] \in {"produced", "done"} =>
           \/ /\ FinishedLast(events[r][n])
              /\ Len(events[r][n]) = IF calls[r][n] > 0 THEN calls[r][n] + 1 ELSE 1
           \/ /\ NoFinish(events[r][n])
              /\ wf[r].on_error[n] = "continue"
              /\ calls[r][n] = AttemptLimit(r, n)
              /\ outputs[r][n] = {}

LedgerInv == \A r \in Runs, n \in Nodes : NodeLedger(r, n)

\* An executor is called at least once before its attempts are used up.
LEMMA LimitType ==
    ASSUME TypeOK, NEW r \in Runs, NEW n \in Nodes
    PROVE  AttemptLimit(r, n) \in Nat /\ AttemptLimit(r, n) >= 1
  BY EngineAssumption DEF TypeOK, EngineAssumption, WorkflowType, AttemptLimit

\* A log without a Finished event stays so when failures are appended to it,
\* and ends in its only one when that is appended.
LEMMA LogGrows ==
    ASSUME NEW log \in Seq(EventKinds), NoFinish(log)
    PROVE  /\ NoFinish(log \o <<"failed">>)
           /\ NoFinish(log \o <<"failed", "failed">>)
           /\ NoFinish(log \o <<"started">>)
           /\ FinishedLast(log \o <<"finished">>)
           /\ Len(log \o <<"failed">>) = Len(log) + 1
           /\ Len(log \o <<"started">>) = Len(log) + 1
           /\ Len(log \o <<"finished">>) = Len(log) + 1
<1> USE DEF NoFinish, FinishedLast
<1>0. Len(log) \in Nat
  OBVIOUS
<1>1. /\ NoFinish(log \o <<"failed">>)
      /\ NoFinish(log \o <<"started">>)
  BY <1>0
<1>2. NoFinish(log \o <<"failed", "failed">>)
  BY <1>0
<1>3. FinishedLast(log \o <<"finished">>)
  BY <1>0
<1> QED
  BY <1>0, <1>1, <1>2, <1>3

\* The log of a node that a step does not touch.
LEMMA LedgerKept ==
    ASSUME TypeOK, NEW q \in Runs, NEW m \in Nodes, NodeLedger(q, m),
           wf' = wf, mode' = mode, stage'[q][m] = stage[q][m],
           calls'[q][m] = calls[q][m], outputs'[q][m] = outputs[q][m],
           events'[q][m] = events[q][m]
    PROVE  NodeLedger(q, m)'
<1>1. AttemptLimit(q, m)' = AttemptLimit(q, m)
  BY DEF AttemptLimit
<1> QED
  BY <1>1 DEF NodeLedger

\* A node that is skipped, because nothing can or does reach it, gets a
\* Finished event and nothing else.
LEMMA SkipLogged ==
    ASSUME TypeOK, NEW r \in Runs, NEW ns \in SUBSET Nodes,
           Record(r, ns, <<"finished">>)
    PROVE  \A q \in Runs, m \in Nodes :
               /\ events[q][m] = <<>> /\ q = r /\ m \in ns =>
                      events'[q][m] = <<"finished">>
               /\ q # r \/ m \notin ns => events'[q][m] = events[q][m]
<1>1. <<>> \o <<"finished">> = <<"finished">>
  OBVIOUS
<1> QED
  BY <1>1 DEF Record, TypeOK

\* Steps of run_with_id and of the wave loop.
LEMMA ScheduleLedger ==
    ASSUME TypeOK, LedgerInv, NEW r \in Runs, Schedule(r) \/ Cancel(r),
           Begin(r) => \A n \in Nodes : stage[r][n] = "pending",
           status[r] = "planning" =>
               \A n \in Nodes : stage[r][n] \in {"pending", "done", "orphaned"},
           NEW q \in Runs, NEW m \in Nodes
    PROVE  NodeLedger(q, m)'
<1> USE DEF LedgerInv
<1>0. ASSUME wf' = wf, mode' = mode PROVE AttemptLimit(q, m)' = AttemptLimit(q, m)
  BY <1>0 DEF AttemptLimit
<1>1. CASE Reject(r) \/ RejectKind(r) \/ Complete(r) \/ Abort(r)
  BY <1>1, LedgerKept DEF Reject, RejectKind, Complete, Abort
<1>2. CASE Begin(r)
  <2> DEFINE orphans == Nodes \ Reachable(wf[r])
  <2>1. /\ Record(r, orphans \cap wf[r].nodes, <<"finished">>)
        /\ orphans \cap wf[r].nodes \in SUBSET Nodes
    BY <1>2 DEF Begin
  <2>2. \A n \in Nodes : stage[r][n] = "pending" /\ calls[r][n] = 0
    BY <1>2 DEF NodeLedger
  <2>3. /\ UNCHANGED <<wf, mode, calls, outputs>>
        /\ stage'[q][m] = IF q = r /\ m \in orphans THEN "orphaned" ELSE stage[q][m]
    BY <1>2 DEF Begin, TypeOK
  <2>4. CASE q = r /\ m \in orphans
    <3>1. events'[q][m] = IF m \in wf[q].nodes THEN <<"finished">> ELSE <<>>
      BY <2>1, <2>2, <2>4, SkipLogged DEF NodeLedger
    <3> QED
      BY <1>0, <2>2, <2>3, <2>4, <3>1 DEF NodeLedger
  <2>5. CASE q # r \/ m \notin orphans
    BY <2>1, <2>3, <2>5, SkipLogged, LedgerKept
  <2> QED
    BY <2>4, <2>5
<1>3. CASE PlanWave(r)
  <2>1. /\ Record(r, Starved(r), <<"finished">>)
        /\ Starved(r) \in SUBSET Nodes
    BY <1>3 DEF PlanWave, Starved, Runnable
  <2>2. \A n \in Runnable(r) : n \in Nodes /\ stage[r][n] = "pending"
    BY <1>3 DEF PlanWave, Runnable, IsDone
  <2>3. /\ UNCHANGED <<wf, mode, calls, outputs>>
        /\ stage'[q][m] = IF q = r /\ m \in Starved(r) THEN "done"
                          ELSE IF q = r /\ m \in Runnable(r) THEN "waiting"
                          ELSE stage[q][m]
    BY <1>3 DEF PlanWave, TypeOK
  <2>4. CASE q = r /\ m \in Starved(r)
    <3>0. stage[q][m] = "pending"
      BY <2>2, <2>4 DEF Starved
    <3>1. events'[q][m] = <<"finished">>
      BY <2>1, <2>4, <3>0, SkipLogged DEF NodeLedger
    <3>2. FinishedLast(<<"finished">>) /\ Len(<<"finished">>) = 1
      BY DEF FinishedLast
    <3> QED
      BY <1>0, <2>3, <2>4, <3>0, <3>1, <3>2 DEF NodeLedger
  <2>5. CASE q = r /\ m \in Runnable(r) \ Starved(r)
    <3>1. events'[q][m] = events[q][m]
      BY <2>1, <2>5, SkipLogged
    <3> QED
      BY <1>0, <2>2, <2>3, <2>5, <3>1 DEF NodeLedger
  <2>6. CASE q # r \/ m \notin Runnable(r)
    BY <2>1, <2>3, <2>6, SkipLogged, LedgerKept DEF Starved
  <2> QED
    BY <2>4, <2>5, <2>6
<1>4. CASE CommitWave(r)
  <2>1. /\ UNCHANGED <<wf, mode, calls, outputs, events>>
        /\ stage'[q][m] = IF q = r /\ stage[q][m] = "produced" THEN "done"
                          ELSE stage[q][m]
    BY <1>4 DEF CommitWave, TypeOK
  <2> QED
    BY <1>0, <2>1 DEF NodeLedger
<1>5. CASE Cancel(r)
  <2>1. /\ UNCHANGED <<wf, mode, calls, outputs, events>>
        /\ stage'[q][m] = IF q = r /\ stage[q][m] \in {"waiting", "running"}
                          THEN "dropped" ELSE stage[q][m]
    BY <1>5 DEF Cancel, TypeOK
  <2> QED
    BY <1>0, <2>1 DEF NodeLedger
<1> QED
  BY <1>1, <1>2, <1>3, <1>4, <1>5 DEF Schedule

\* Steps of one node's future.
LEMMA FutureLedger ==
    ASSUME TypeOK, LedgerInv, NEW r \in Runs, NEW n \in Nodes, Drive(r, n),
           NEW q \in Runs, NEW m \in Nodes
    PROVE  NodeLedger(q, m)'
<1> USE DEF LedgerInv
<1>1. wf' = wf /\ mode' = mode
  BY DEF Drive, Return, Start, Retry, Succeed, Fail
<1>2. CASE q # r \/ m # n
  <2>1. /\ stage'[q][m] = stage[q][m] /\ calls'[q][m] = calls[q][m]
        /\ outputs'[q][m] = outputs[q][m] /\ events'[q][m] = events[q][m]
    <3>1. CASE Start(r, n) \/ Retry(r, n)
      BY <1>2, <3>1 DEF Start, Retry, Record, TypeOK
    <3>2. ASSUME NEW ports \in Emissions, Succeed(r, n, ports) PROVE <2>1
      BY <1>2, <3>2 DEF Succeed, Record, TypeOK
    <3>3. CASE Fail(r, n)
      BY <1>2, <3>3 DEF Fail, Record, TypeOK
    <3> QED
      BY <3>1, <3>2, <3>3 DEF Drive, Return
  <2> QED
    BY <1>1, <2>1, LedgerKept
<1>3. CASE q = r /\ m = n
  <2>0. AttemptLimit(r, n)' = AttemptLimit(r, n)
    BY <1>1 DEF AttemptLimit
  <2>1. AttemptLimit(r, n) \in Nat /\ AttemptLimit(r, n) >= 1
    BY LimitType
  <2>2. events[r][n] \in Seq(EventKinds) /\ calls[r][n] \in Nat
    BY DEF TypeOK
  <2>3. NodeLedger(r, n)
    OBVIOUS
  <2>4. CASE Start(r, n)
    <3>1. /\ stage[r][n] = "waiting" /\ stage'[r][n] = "running"
          /\ calls'[r][n] = 1 /\ outputs'[r][n] = outputs[r][n]
          /\ events'[r][n] = events[r][n] \o <<"started">>
      BY <2>4 DEF Start, Record, TypeOK
    <3>2. events[r][n] = <<>>
      BY <2>3, <3>1 DEF NodeLedger
    <3>3. events'[r][n] = <<"started">>
      BY <3>1, <3>2
    <3>4. NoFinish(<<"started">>) /\ Len(<<"started">>) = 1
      BY DEF NoFinish
    <3>5. outputs'[r][n] = {}
      BY <2>3, <3>1 DEF NodeLedger
    <3>6. NoFinish(events'[r][n]) /\ Len(events'[r][n]) = 1
      BY <3>3, <3>4
    <3>7. calls'[r][n] <= AttemptLimit(r, n)' /\ calls'[r][n] >= 1
      BY <2>0, <2>1, <3>1
    <3> QED
      BY <1>3, <3>1, <3>5, <3>6, <3>7 DEF NodeLedger
  <2>5. CASE Retry(r, n)
    <3>1. /\ stage[r][n] = "running" /\ stage'[r][n] = "running"
          /\ calls[r][n] < AttemptLimit(r, n)
          /\ calls'[r][n] = calls[r][n] + 1 /\ outputs'[r][n] = outputs[r][n]
          /\ events'[r][n] = events[r][n] \o <<"failed">>
      BY <2>5 DEF Retry, Record, TypeOK
    <3>2. /\ NoFinish(events[r][n] \o <<"failed">>)
          /\ Len(events[r][n] \o <<"failed">>) = Len(events[r][n]) + 1
      BY <2>2, <2>3, <3>1, LogGrows DEF NodeLedger
    <3>3. calls'[r][n] <= AttemptLimit(r, n) /\ calls'[r][n] >= 1
      BY <2>1, <2>2, <3>1
    <3> QED
      BY <1>3, <2>0, <2>3, <3>1, <3>2, <3>3 DEF NodeLedger
  <2>6. ASSUME NEW ports \in Emissions, Succeed(r, n, ports)
        PROVE  NodeLedger(r, n)'
    <3>1. /\ stage[r][n] = "running" /\ stage'[r][n] = "produced"
          /\ calls'[r][n] = calls[r][n]
          /\ events'[r][n] = events[r][n] \o <<"finished">>
      BY <2>6 DEF Succeed, Record, TypeOK
    <3>2. /\ FinishedLast(events[r][n] \o <<"finished">>)
          /\ Len(events[r][n] \o <<"finished">>) = Len(events[r][n]) + 1
      BY <2>2, <2>3, <3>1, LogGrows DEF NodeLedger
    <3> QED
      BY <2>0, <2>2, <2>3, <3>1, <3>2 DEF NodeLedger
  <2>7. CASE Fail(r, n)
    <3>1. /\ stage[r][n] = "running" /\ calls[r][n] = AttemptLimit(r, n)
          /\ stage'[r][n] = IF wf[r].on_error[n] = "continue" THEN "produced" ELSE "failed"
          /\ calls'[r][n] = calls[r][n] /\ outputs'[r][n] = outputs[r][n]
      BY <2>7 DEF Fail, TypeOK
    <3>2. events'[r][n] \in {events[r][n] \o <<"failed", "failed">>,
                             events[r][n] \o <<"failed">>}
      BY <2>7 DEF Fail, Record, TypeOK
    <3>3. NoFinish(events'[r][n])
      BY <2>2, <2>3, <3>1, <3>2, LogGrows DEF NodeLedger
    <3> QED
      BY <1>1, <1>3, <2>0, <2>3, <3>1, <3>3 DEF NodeLedger
  <2> QED
    BY <1>3, <2>4, <2>5, <2>6, <2>7 DEF Drive, Return
<1> QED
  BY <1>2, <1>3

\* How many Finished events such logs hold.
LEMMA FinishesCounted ==
    ASSUME TypeOK, NEW r \in Runs, NEW n \in Nodes
    PROVE  /\ FinishedLast(events[r][n]) => Finishes(r, n) = 1
           /\ NoFinish(events[r][n]) => Finishes(r, n) = 0
<1> DEFINE log == events[r][n]
           at == {i \in DOMAIN log : log[i] = "finished"}
<1>0. log \in Seq(EventKinds) /\ Len(log) \in Nat /\ DOMAIN log = 1..Len(log)
  BY DEF TypeOK
<1>1. ASSUME FinishedLast(log) PROVE Cardinality(at) = 1
  <2>1. Len(log) # 0
    BY <1>0, <1>1 DEF FinishedLast
  <2>2. at = {Len(log)}
    BY <1>0, <1>1, <2>1 DEF FinishedLast
  <2> QED
    BY <2>2, FS_Singleton
<1>2. ASSUME NoFinish(log) PROVE Cardinality(at) = 0
  <2>1. at = {}
    BY <1>2 DEF NoFinish
  <2> QED
    BY <2>1, FS_EmptySet
<1> QED
  BY <1>1, <1>2 DEF Finishes

\* At every moment the log of a node is what its stage says it must be.
THEOREM LedgerCorrect == Spec => []LedgerInv
<1>1. Init => LedgerInv
  <2> SUFFICES ASSUME Init, NEW r \in Runs, NEW n \in Nodes PROVE NodeLedger(r, n)
    BY DEF LedgerInv
  <2>1. TypeOK
    BY PermitsType DEF Init, TypeOK, Statuses, Stages
  <2> QED
    BY <2>1, LimitType DEF Init, NodeLedger
<1>2. TypeOK /\ ScheduleInv /\ LedgerInv /\ [Next]_vars => LedgerInv'
  <2> SUFFICES ASSUME TypeOK, ScheduleInv, LedgerInv, [Next]_vars,
                      NEW q \in Runs, NEW m \in Nodes
               PROVE  NodeLedger(q, m)'
    BY DEF LedgerInv
  <2>1. CASE UNCHANGED vars
    BY <2>1, LedgerKept DEF vars, LedgerInv
  <2>2. ASSUME NEW r \in Runs, Schedule(r) \/ Cancel(r) PROVE NodeLedger(q, m)'
    <3>1. /\ Begin(r) => \A n \in Nodes : stage[r][n] = "pending"
          /\ status[r] = "planning" =>
                 \A n \in Nodes : stage[r][n] \in {"pending", "done", "orphaned"}
      BY DEF ScheduleInv, RunInv, Begin
    <3> QED
      BY <2>2, <3>1, ScheduleLedger
  <2> QED
    BY <2>1, <2>2, FutureLedger DEF Next
<1> QED
  BY <1>1, <1>2, TypeCorrect, ScheduleCorrect, PTL DEF Spec

\* A completed run's log accounts for every node once, and for every call:
\* no executor is called more often than its policy allows.
THEOREM LogAccounted == Spec => []LedgerAccounts
<1>1. TypeOK /\ ScheduleInv /\ LedgerInv => LedgerAccounts
  <2> SUFFICES ASSUME TypeOK, ScheduleInv, LedgerInv PROVE LedgerAccounts
    OBVIOUS
  <2> USE DEF LedgerInv
  <2>0. \A r \in Runs : wf[r].nodes \subseteq Nodes
    BY EngineAssumption DEF TypeOK, EngineAssumption, WorkflowType
  <2>1. ASSUME NEW r \in Runs, status[r] = "completed", NEW n \in Nodes,
               n \in wf[r].nodes
        PROVE  \/ Finishes(r, n) = 1
               \/ /\ Finishes(r, n) = 0
                  /\ wf[r].on_error[n] = "continue"
                  /\ calls[r][n] = AttemptLimit(r, n)
                  /\ outputs[r][n] = {}
    <3>1. stage[r][n] \in {"done", "orphaned"}
      BY <2>1 DEF ScheduleInv, RunInv, IsDone
    <3>2. FinishedLast(<<"finished">>)
      BY DEF FinishedLast
    <3> QED
      BY <2>1, <3>1, <3>2, FinishesCounted DEF NodeLedger
  <2>2. ASSUME NEW r \in Runs, NEW n \in Nodes,
               stage[r][n] \in {"produced", "done"}, Finishes(r, n) = 1
        PROVE  Len(events[r][n]) = IF Fired(r, n) THEN calls[r][n] + 1 ELSE 1
    <3>1. ~NoFinish(events[r][n])
      BY <2>2, FinishesCounted
    <3> QED
      BY <2>2, <3>1 DEF NodeLedger, Fired
  <2> QED
    BY <2>0, <2>1, <2>2 DEF LedgerAccounts, LedgerComplete, CallsAccounted, NodeLedger
<1> QED
  BY <1>1, TypeCorrect, ScheduleCorrect, LedgerCorrect, PTL

-----------------------------------------------------------------------------
(* Refinement: the engine implements Dataflow. *)

\* Every engine state has a turn for each node.
LEMMA TurnType ==
    ASSUME TypeOK, NEW r \in Runs, NEW n \in Nodes
    PROVE  /\ Turn[r][n] = TurnOf(r, n)
           /\ stage[r][n] \in {"pending", "waiting"} <=> 
                  (TurnOf(r, n) = "due" /\ stage[r][n] # "dropped")
           /\ IsDone(r, n) => TurnOf(r, n) \in {"over", "passed"}
  BY DEF TypeOK, Stages, Turn, TurnOf, IsDone

\* A step in which no turn and no verdict but those named changes.
LEMMA OneTurn ==
    ASSUME TypeOK, NEW r \in Runs, NEW n \in Nodes, NEW t,
           TurnOf(r, n)' = t,
           \A q \in Runs, m \in Nodes : q # r \/ m # n => TurnOf(q, m)' = TurnOf(q, m)
    PROVE  Turn' = [Turn EXCEPT ![r][n] = t]
  BY DEF Turn

LEMMA SameTurns ==
    ASSUME \A q \in Runs, m \in Nodes : TurnOf(q, m)' = TurnOf(q, m)
    PROVE  Turn' = Turn
  BY DEF Turn

LEMMA OneVerdict ==
    ASSUME TypeOK, NEW r \in Runs, NEW s \in Statuses,
           status' = [status EXCEPT ![r] = s]
    PROVE  /\ Verdict' = [Verdict EXCEPT ![r] = VerdictOf(r)']
           /\ VerdictOf(r)' = VerdictOf(r) => Verdict' = Verdict
  BY DEF Verdict, VerdictOf, TypeOK

\* Something is routed to a node exactly if its input is not empty.
LEMMA RoutedIsInput ==
    ASSUME TypeOK, NEW r \in Runs, NEW n \in Nodes
    PROVE  Promise!Routed(r, n) <=> Input(r, n) # {}
  BY DEF Promise!Routed, Input, Incoming

\* Returning from run_with_id, or dropping it, closes the run.
LEMMA ReturnCloses ==
    ASSUME TypeOK, ScheduleInv, LedgerInv, NEW r \in Runs,
           Reject(r) \/ RejectKind(r) \/ Complete(r) \/ Abort(r) \/ Cancel(r)
    PROVE  Promise!Close(r)
<1>1. wf' = wf /\ outputs' = outputs
  BY DEF Reject, RejectKind, Complete, Abort, Cancel
<1>2. Turn' = Turn
  <2>1. CASE Reject(r) \/ RejectKind(r) \/ Complete(r) \/ Abort(r)
    <3>1. stage' = stage /\ calls' = calls
      BY <2>1 DEF Reject, RejectKind, Complete, Abort
    <3> QED
      BY <3>1, SameTurns DEF TurnOf, Fired
  <2>2. CASE Cancel(r)
    <3>1. /\ calls' = calls
          /\ \A q \in Runs, m \in Nodes :
                 stage'[q][m] = IF q = r /\ stage[q][m] \in {"waiting", "running"}
                                THEN "dropped" ELSE stage[q][m]
      BY <2>2 DEF Cancel, TypeOK
    <3>2. ASSUME NEW q \in Runs, NEW m \in Nodes PROVE TurnOf(q, m)' = TurnOf(q, m)
      <4>1. CASE q = r /\ stage[q][m] = "waiting"
        BY <3>1, <4>1 DEF LedgerInv, NodeLedger, TurnOf, Fired, TypeOK
      <4>2. CASE q = r /\ stage[q][m] = "running"
        BY <3>1, <4>2 DEF LedgerInv, NodeLedger, TurnOf, Fired, TypeOK
      <4>3. CASE q # r \/ stage[q][m] \notin {"waiting", "running"}
        <5>1. stage'[q][m] = stage[q][m] /\ calls'[q][m] = calls[q][m]
          BY <3>1, <4>3
        <5> QED
          BY <5>1 DEF TurnOf, Fired
      <4> QED
        BY <4>1, <4>2, <4>3
    <3> QED
      BY <3>2, SameTurns
  <2> QED
    BY <2>1, <2>2
<1>3. \A n \in Nodes : Turn[r][n] = TurnOf(r, n)
  BY TurnType
<1>4. ASSUME NEW s \in {"invalid", "no_executor", "completed", "failed", "cancelled"},
             NEW v \in {"completed", "failed", "refused", "dropped"},
             status[r] \in {"requested", "planning", "running"},
             status' = [status EXCEPT ![r] = s],
             v = IF s \in {"invalid", "no_executor"} THEN "refused"
                 ELSE IF s = "cancelled" THEN "dropped" ELSE s,
             v = "completed" => \A n \in Nodes : TurnOf(r, n) \in {"over", "passed"},
             v = "failed" => \E n \in Nodes : TurnOf(r, n) = "failed",
             v = "refused" => \A n \in Nodes : TurnOf(r, n) = "due"
      PROVE  Promise!Close(r)
  <2>1. s \in Statuses
    BY DEF Statuses, Ended
  <2>2. VerdictOf(r)' = v
    BY <1>4 DEF VerdictOf, TypeOK
  <2>3. Verdict[r] = "open"
    BY <1>4 DEF Verdict, VerdictOf
  <2>4. Verdict' = [Verdict EXCEPT ![r] = v]
    BY <1>4, <2>1, <2>2, OneVerdict
  <2> QED
    BY <1>1, <1>2, <1>3, <1>4, <2>3, <2>4 DEF Promise!Close, Promise!Settled
<1>5. CASE Reject(r) \/ RejectKind(r)
  <2>1. \A n \in Nodes : TurnOf(r, n) = "due"
    BY <1>5 DEF Reject, RejectKind, ScheduleInv, RunInv, TurnOf
  <2> QED
    BY <1>4, <1>5, <2>1 DEF Reject, RejectKind
<1>6. CASE Complete(r)
  BY <1>4, <1>6, TurnType DEF Complete
<1>7. CASE Abort(r)
  <2>1. \E n \in Nodes : TurnOf(r, n) = "failed"
    BY <1>7 DEF Abort, InStage, TurnOf
  <2> QED
    BY <1>4, <1>7, <2>1 DEF Abort, WaveDriven
<1>8. CASE Cancel(r)
  BY <1>4, <1>8 DEF Cancel
<1> QED
  BY <1>5, <1>6, <1>7, <1>8

\* Orphans are passed over: nothing that the trigger cannot reach is fed by
\* something it can.
LEMMA BeginPasses ==
    ASSUME TypeOK, ScheduleInv, LedgerInv, NEW r \in Runs, Begin(r)
    PROVE  [Promise!Next]_(Promise!vars)
<1> DEFINE S == Nodes \ Reachable(wf[r])
<1>1. /\ UNCHANGED <<wf, calls, outputs>>
      /\ \A n \in Nodes : stage[r][n] = "pending" /\ calls[r][n] = 0
      /\ \A n \in Nodes : outputs[r][n] = {}
  BY DEF Begin, ScheduleInv, RunInv, LedgerInv, NodeLedger
<1>2. /\ status[r] = "requested"
      /\ status' = [status EXCEPT ![r] = "planning"]
      /\ \A q \in Runs, n \in Nodes :
             stage'[q][n] = IF q = r /\ n \in S THEN "orphaned" ELSE stage[q][n]
  BY DEF Begin, TypeOK
<1>3. Verdict' = Verdict /\ Verdict[r] = "open"
  <2>1. VerdictOf(r)' = "open" /\ VerdictOf(r) = "open"
    BY <1>2 DEF VerdictOf, TypeOK
  <2>2. Verdict' = Verdict
    BY <1>2, <2>1, OneVerdict DEF Statuses
  <2>3. Verdict[r] = "open"
    BY <2>1 DEF Verdict
  <2> QED
    BY <2>2, <2>3
<1>4. \A q \in Runs, n \in Nodes :
          TurnOf(q, n)' = IF q = r /\ n \in S THEN "passed" ELSE TurnOf(q, n)
  <2>1. ASSUME NEW n \in S PROVE TurnOf(r, n)' = "passed"
    BY <1>1, <1>2, <2>1 DEF TurnOf, Fired
  <2>2. ASSUME NEW q \in Runs, NEW n \in Nodes, q # r \/ n \notin S
        PROVE  TurnOf(q, n)' = TurnOf(q, n)
    <3>1. stage'[q][n] = stage[q][n] /\ calls'[q][n] = calls[q][n]
      BY <1>1, <1>2, <2>2
    <3> QED
      BY <3>1 DEF TurnOf, Fired
  <2> QED
    BY <2>1, <2>2
<1>5. Turn' = [Turn EXCEPT ![r] = [n \in Nodes |-> IF n \in S THEN "passed" ELSE @[n]]]
  BY <1>4 DEF Turn
<1>6. CASE S = {}
  <2>1. Turn' = Turn
    BY <1>4, <1>6, SameTurns
  <2> QED
    BY <1>1, <1>3, <2>1 DEF Promise!vars
<1>7. CASE S # {}
  <2>1. ASSUME NEW n \in S
        PROVE  /\ Turn[r][n] = "due"
               /\ n \notin wf[r].triggers
               /\ ~Promise!Routed(r, n)
               /\ \A p \in Promise!Producers(r, n) : p \in S
    <3>1. Turn[r][n] = "due"
      BY <1>1, TurnType DEF TurnOf
    <3>2. n \notin wf[r].triggers
      BY DEF Reachable
    <3>3. ~Promise!Routed(r, n)
      BY <1>1, EdgeType DEF Promise!Routed, Incoming
    <3>4. \A e \in wf[r].edges : e.to = n => e.from \in S
      BY EdgeType DEF Reachable, Edge
    <3> QED
      BY <3>1, <3>2, <3>3, <3>4 DEF Promise!Producers
  <2>2. Promise!PassOver(r, S)
    BY <1>1, <1>3, <1>5, <2>1 DEF Promise!PassOver
  <2>3. S \in (SUBSET Nodes) \ {{}}
    BY <1>7
  <2> QED
    BY <2>2, <2>3 DEF Promise!Next
<1> QED
  BY <1>6, <1>7

\* So are the nodes a wave skips because nothing was routed to them.
LEMMA PlanPasses ==
    ASSUME TypeOK, ScheduleInv, LedgerInv, NEW r \in Runs, PlanWave(r)
    PROVE  [Promise!Next]_(Promise!vars)
<1> DEFINE S == Starved(r)
<1>1. /\ UNCHANGED <<wf, calls, outputs>>
      /\ status[r] = "planning"
      /\ ValidWorkflow(wf[r])
      /\ \A n \in Runnable(r) : n \in Nodes /\ stage[r][n] = "pending" /\ calls[r][n] = 0
  BY DEF PlanWave, ScheduleInv, RunInv, LedgerInv, NodeLedger, Runnable, IsDone
<1>2. /\ status'[r] \in {"running", "stalled"}
      /\ status' = [status EXCEPT ![r] = status'[r]]
      /\ \A q \in Runs, n \in Nodes :
             stage'[q][n] = IF q = r /\ n \in S THEN "done"
                            ELSE IF q = r /\ n \in Runnable(r) THEN "waiting"
                            ELSE stage[q][n]
  BY DEF PlanWave, TypeOK
<1>3. status'[r] = "running"
  BY <1>1, SomeRunnable DEF PlanWave, TypeOK
<1>4. Verdict' = Verdict /\ Verdict[r] = "open"
  <2>1. VerdictOf(r)' = "open" /\ VerdictOf(r) = "open"
    BY <1>1, <1>3 DEF VerdictOf
  <2> QED
    BY <1>2, <1>3, <2>1, OneVerdict DEF Statuses, Verdict
<1>5. S \subseteq Runnable(r)
  BY DEF Starved
<1>6. \A q \in Runs, n \in Nodes :
          TurnOf(q, n)' = IF q = r /\ n \in S THEN "passed" ELSE TurnOf(q, n)
  <2>1. ASSUME NEW n \in S PROVE TurnOf(r, n)' = "passed"
    BY <1>1, <1>2, <1>5, <2>1 DEF TurnOf, Fired
  <2>2. ASSUME NEW n \in Runnable(r) \ S PROVE TurnOf(r, n)' = TurnOf(r, n)
    BY <1>1, <1>2, <2>2 DEF TurnOf, Fired
  <2>3. ASSUME NEW q \in Runs, NEW n \in Nodes, q # r \/ n \notin Runnable(r)
        PROVE  TurnOf(q, n)' = TurnOf(q, n)
    <3>1. stage'[q][n] = stage[q][n] /\ calls'[q][n] = calls[q][n]
      BY <1>1, <1>2, <1>5, <2>3
    <3> QED
      BY <3>1 DEF TurnOf, Fired
  <2> QED
    BY <1>5, <2>1, <2>2, <2>3
<1>7. Turn' = [Turn EXCEPT ![r] = [n \in Nodes |-> IF n \in S THEN "passed" ELSE @[n]]]
  BY <1>6 DEF Turn
<1>8. CASE S = {}
  <2>1. Turn' = Turn
    BY <1>6, <1>8, SameTurns
  <2> QED
    BY <1>1, <1>4, <2>1 DEF Promise!vars
<1>9. CASE S # {}
  <2>1. ASSUME NEW n \in S
        PROVE  /\ Turn[r][n] = "due"
               /\ n \notin wf[r].triggers
               /\ ~Promise!Routed(r, n)
               /\ \A p \in Promise!Producers(r, n) : Promise!Settled(r, p)
    <3>0. n \in Nodes
      BY <1>1, <1>5
    <3>1. Turn[r][n] = "due"
      BY <1>1, <1>5, <3>0, TurnType DEF TurnOf
    <3>2. n \notin wf[r].triggers
      BY <1>1 DEF Starved, Incoming, ValidWorkflow
    <3>3. ~Promise!Routed(r, n)
      BY <3>0, RoutedIsInput DEF Starved
    <3>4. \A e \in Incoming(wf[r], n) : IsDone(r, e.from) /\ e.from \in Nodes
      BY <1>5, <3>0, EdgeType DEF Runnable
    <3> QED
      BY <3>1, <3>2, <3>3, <3>4, TurnType DEF Promise!Producers, Promise!Settled, Incoming
  <2>2. Promise!PassOver(r, S)
    BY <1>1, <1>4, <1>7, <2>1 DEF Promise!PassOver
  <2>3. S \in (SUBSET Nodes) \ {{}}
    BY <1>1, <1>5, <1>9
  <2> QED
    BY <2>2, <2>3 DEF Promise!Next
<1> QED
  BY <1>8, <1>9

\* A node's future takes the node's turn, retries within it, and ends it with
\* what the node emitted, with nothing, or with a failure.
LEMMA FuturePromise ==
    ASSUME TypeOK, ScheduleInv, LedgerInv, NEW r \in Runs, NEW n \in Nodes, Drive(r, n)
    PROVE  [Promise!Next]_(Promise!vars)
<1>1. /\ UNCHANGED <<wf, status>>
      /\ stage[r][n] \in {"waiting", "running"}
      /\ \A q \in Runs, m \in Nodes : q # r \/ m # n =>
             stage'[q][m] = stage[q][m] /\ calls'[q][m] = calls[q][m]
  <2>1. CASE Start(r, n) \/ Retry(r, n)
    BY <2>1 DEF Start, Retry, TypeOK
  <2>2. ASSUME NEW ports \in Emissions, Succeed(r, n, ports) PROVE <1>1
    BY <2>2 DEF Succeed, TypeOK
  <2>3. CASE Fail(r, n)
    BY <2>3 DEF Fail, TypeOK
  <2> QED
    BY <2>1, <2>2, <2>3 DEF Drive, Return
<1>2. status[r] = "running"
  BY <1>1 DEF ScheduleInv, RunInv
<1>3. Verdict' = Verdict /\ Verdict[r] = "open"
  BY <1>1, <1>2 DEF Verdict, VerdictOf
<1>4. \A q \in Runs, m \in Nodes : q # r \/ m # n => TurnOf(q, m)' = TurnOf(q, m)
  BY <1>1 DEF TurnOf, Fired
<1>5. Turn[r][n] = TurnOf(r, n)
  BY TurnType
<1>6. CASE Start(r, n)
  <2>1. /\ stage[r][n] = "waiting" /\ stage'[r][n] = "running"
        /\ outputs' = outputs
    BY <1>6 DEF Start, TypeOK
  <2>2. TurnOf(r, n) = "due" /\ TurnOf(r, n)' = "taken"
    BY <2>1 DEF TurnOf
  <2>3. Turn' = [Turn EXCEPT ![r][n] = "taken"]
    BY <1>4, <2>2, OneTurn
  <2>4. \A e \in Incoming(wf[r], n) : IsDone(r, e.from) /\ e.from \in Nodes
    BY <2>1, EdgeType DEF ScheduleInv, NodeInv
  <2>5. \A p \in Promise!Producers(r, n) : Promise!Settled(r, p)
    BY <2>4, TurnType DEF Promise!Producers, Promise!Settled, Incoming
  <2>6. Incoming(wf[r], n) = {} \/ Input(r, n) # {}
    BY <2>1 DEF ScheduleInv, NodeInv
  <2>7. n \in Reachable(wf[r])
    BY <1>2, <2>1 DEF ScheduleInv, RunInv
  <2>8. n \in wf[r].triggers \/ Promise!Routed(r, n)
    BY <2>6, <2>7, ReachedIsFed, RoutedIsInput
  <2>9. Promise!Take(r, n)
    BY <1>1, <1>3, <1>5, <2>1, <2>2, <2>3, <2>5, <2>8 DEF Promise!Take
  <2> QED
    BY <2>9 DEF Promise!Next
<1>7. CASE Retry(r, n)
  <2>1. stage' = stage /\ outputs' = outputs /\ stage[r][n] = "running"
    BY <1>7 DEF Retry
  <2>2. TurnOf(r, n)' = TurnOf(r, n)
    BY <2>1 DEF TurnOf
  <2>3. Turn' = Turn
    BY <1>4, <2>2, SameTurns
  <2> QED
    BY <1>1, <1>3, <2>1, <2>3 DEF Promise!vars
<1>8. ASSUME NEW items \in SUBSET {i \in Item : i.node = n},
             stage[r][n] = "running", stage'[r][n] = "produced",
             outputs' = [outputs EXCEPT ![r][n] = items]
      PROVE  [Promise!Next]_(Promise!vars)
  <2>1. TurnOf(r, n) = "taken" /\ TurnOf(r, n)' = "over"
    BY <1>8 DEF TurnOf
  <2>2. Turn' = [Turn EXCEPT ![r][n] = "over"]
    BY <1>4, <2>1, OneTurn
  <2>3. Promise!Emit(r, n)
    BY <1>1, <1>3, <1>5, <1>8, <2>1, <2>2 DEF Promise!Emit
  <2> QED
    BY <2>3 DEF Promise!Next
<1>9. ASSUME NEW ports \in Emissions, Succeed(r, n, ports)
      PROVE  [Promise!Next]_(Promise!vars)
  <2>1. /\ stage[r][n] = "running" /\ stage'[r][n] = "produced"
        /\ outputs' = [outputs EXCEPT ![r][n] = Stamped(n, ports)]
    BY <1>9 DEF Succeed, TypeOK
  <2>2. Stamped(n, ports) \in SUBSET Item
    BY StampedType
  <2>3. \A i \in Stamped(n, ports) : i.node = n
    BY DEF Stamped
  <2>4. Stamped(n, ports) \in SUBSET {i \in Item : i.node = n}
    BY <2>2, <2>3
  <2> QED
    BY <1>8, <2>1, <2>4
<1>10. CASE Fail(r, n)
  <2>1. /\ stage[r][n] = "running" /\ outputs' = outputs
        /\ stage'[r][n] = IF wf[r].on_error[n] = "continue" THEN "produced" ELSE "failed"
    BY <1>10 DEF Fail, TypeOK
  <2>2. CASE stage'[r][n] = "produced"
    <3>1. outputs[r][n] = {}
      BY <2>1 DEF LedgerInv, NodeLedger
    <3>2. outputs' = [outputs EXCEPT ![r][n] = {}]
      BY <2>1, <3>1 DEF TypeOK
    <3>3. {} \in SUBSET {i \in Item : i.node = n}
      OBVIOUS
    <3> QED
      BY <1>8, <2>1, <2>2, <3>2, <3>3
  <2>3. CASE stage'[r][n] = "failed"
    <3>1. TurnOf(r, n) = "taken" /\ TurnOf(r, n)' = "failed"
      BY <2>1, <2>3 DEF TurnOf
    <3>2. Turn' = [Turn EXCEPT ![r][n] = "failed"]
      BY <1>4, <3>1, OneTurn
    <3>3. Promise!Break(r, n)
      BY <1>1, <1>3, <1>5, <2>1, <3>1, <3>2 DEF Promise!Break
    <3> QED
      BY <3>3 DEF Promise!Next
  <2> QED
    BY <2>1, <2>2, <2>3
<1> QED
  BY <1>6, <1>7, <1>9, <1>10 DEF Drive, Return

\* Committing a wave is invisible: its nodes have had their turns.
LEMMA CommitHidden ==
    ASSUME TypeOK, LedgerInv, NEW r \in Runs, CommitWave(r)
    PROVE  UNCHANGED Promise!vars
<1>1. /\ UNCHANGED <<wf, calls, outputs>>
      /\ status[r] = "running" /\ status' = [status EXCEPT ![r] = "planning"]
      /\ \A q \in Runs, n \in Nodes :
             stage'[q][n] = IF q = r /\ stage[q][n] = "produced" THEN "done"
                            ELSE stage[q][n]
  BY DEF CommitWave, WaveDriven, TypeOK
<1>2. ASSUME NEW q \in Runs, NEW n \in Nodes PROVE TurnOf(q, n)' = TurnOf(q, n)
  <2>1. CASE q = r /\ stage[q][n] = "produced"
    BY <1>1, <2>1 DEF LedgerInv, NodeLedger, TurnOf, Fired, TypeOK
  <2>2. CASE q # r \/ stage[q][n] # "produced"
    <3>1. stage'[q][n] = stage[q][n] /\ calls'[q][n] = calls[q][n]
      BY <1>1, <2>2
    <3> QED
      BY <3>1 DEF TurnOf, Fired
  <2> QED
    BY <2>1, <2>2
<1>3. Turn' = Turn
  BY <1>2, SameTurns
<1>4. Verdict' = Verdict
  <2>1. VerdictOf(r)' = VerdictOf(r)
    BY <1>1 DEF VerdictOf, TypeOK
  <2>2. "planning" \in Statuses
    BY DEF Statuses
  <2> QED
    BY <1>1, <2>1, <2>2, OneVerdict
<1> QED
  BY <1>1, <1>3, <1>4 DEF Promise!vars

\* The engine implements Dataflow, whatever the workflows, the number of
\* runs and of permits: its waves, retries and barriers let no node take two
\* turns, none take one before its producers, and no run end with a verdict
\* its nodes do not bear out.
THEOREM DataflowRefined == Spec => KeepsPromise
<1>1. Init => Promise!Init
  <2> SUFFICES ASSUME Init PROVE Promise!Init
    OBVIOUS
  <2>1. Turn = [q \in Runs |-> [m \in Nodes |-> "due"]]
    BY DEF Init, Turn, TurnOf
  <2>2. Verdict = [q \in Runs |-> "open"]
    BY DEF Init, Verdict, VerdictOf
  <2> QED
    BY <2>1, <2>2 DEF Init, Promise!Init
<1>2. TypeOK /\ ScheduleInv /\ LedgerInv /\ [Next]_vars
        => [Promise!Next]_(Promise!vars)
  <2> SUFFICES ASSUME TypeOK, ScheduleInv, LedgerInv, [Next]_vars
               PROVE  [Promise!Next]_(Promise!vars)
    OBVIOUS
  <2>1. CASE UNCHANGED vars
    <3>1. Turn' = Turn /\ Verdict' = Verdict
      BY <2>1 DEF vars, Turn, TurnOf, Fired, Verdict, VerdictOf
    <3> QED
      BY <2>1, <3>1 DEF vars, Promise!vars
  <2>2. ASSUME NEW r \in Runs,
               Schedule(r) \/ (\E n \in Nodes : Drive(r, n)) \/ Cancel(r)
        PROVE  [Promise!Next]_(Promise!vars)
    <3>1. CASE Reject(r) \/ RejectKind(r) \/ Complete(r) \/ Abort(r) \/ Cancel(r)
      BY <3>1, ReturnCloses DEF Promise!Next
    <3>2. CASE Begin(r)
      BY <3>2, BeginPasses
    <3>3. CASE PlanWave(r)
      BY <3>3, PlanPasses
    <3>4. CASE CommitWave(r)
      BY <3>4, CommitHidden
    <3>5. ASSUME NEW n \in Nodes, Drive(r, n) PROVE [Promise!Next]_(Promise!vars)
      BY <3>5, FuturePromise
    <3> QED
      BY <2>2, <3>1, <3>2, <3>3, <3>4, <3>5 DEF Schedule
  <2> QED
    BY <2>1, <2>2 DEF Next
<1> QED
  BY <1>1, <1>2, TypeCorrect, ScheduleCorrect, LedgerCorrect, PTL
     DEF Spec, KeepsPromise, Promise!Spec

-----------------------------------------------------------------------------
(* Resumed runs: the inductive invariant. *)

\* The states in which an execution has no wave yet and never gets one.
NotStarted == {"requested", "invalid", "no_executor", "corrupt"}

\* What the status of an execution says of its nodes.  An original run has
\* done nothing before it begins; a resumption has hydrated nodes.
ExecutionInv(r) ==
    /\ status[r] \in NotStarted =>
           \A n \in Nodes :
               /\ calls[r][n] = 0
               /\ stage[r][n] \in {"pending", "done"}
               /\ n \notin wf[r].nodes => stage[r][n] = "pending"
    /\ status[r] \notin NotStarted =>
           /\ ValidWorkflow(wf[r])
           /\ \A n \in Nodes \ wf[r].nodes : stage[r][n] = "orphaned"
           /\ \A n \in Nodes \ Reachable(wf[r]) :
                  stage[r][n] \in {"done", "orphaned"} /\ calls[r][n] = 0
    /\ status[r] \in {"planning", "completed"} =>
           \A n \in Nodes : stage[r][n] \in {"pending", "done", "orphaned"}
    /\ status[r] = "completed" => \A n \in Nodes : IsDone(r, n)
    /\ status[r] # "running" =>
           \A n \in Nodes : stage[r][n] \notin {"waiting", "running"}
    /\ status[r] # "cancelled" => \A n \in Nodes : stage[r][n] # "dropped"

\* As in NodeInv, but for the nodes of a wave and those that were executed:
\* their producers are done, and something was routed to them.
ExecutedInv(r, n) ==
    /\ stage[r][n] \in {"waiting", "running", "produced", "failed"} \/ Fired(r, n) =>
           /\ \A e \in Incoming(wf[r], n) : IsDone(r, e.from)
           /\ Incoming(wf[r], n) = {} \/ Input(r, n) # {}
    /\ Fired(r, n) => stage[r][n] \in {"running", "produced", "failed", "done", "dropped"}

\* The original run finished n.
FinishedFirst(n) == ~NoFinish(events[Original][n])

\* A version of the workflow without n had its result saved.
Gone(n) == \E q \in saved : n \notin wf[q].nodes

\* The records are of executions that completed, the original one first, and
\* hold what it finished, but for nodes that a version did not have.
RecordsInv ==
    /\ saved = {} => \A n \in Nodes : record[n] = "missing"
    /\ saved # {} =>
           /\ Original \in saved
           /\ status[Original] = "completed"
           /\ \A n \in Nodes : FinishedFirst(n) /\ ~Gone(n) => record[n] # "missing"
    /\ saved \subseteq {Original} \cup loaded
    /\ status[Original] \in NotStarted => \A n \in Nodes : stage[Original][n] = "pending"

\* A resumption probes the records after it loaded the stored run and before
\* it starts; a node it has probed is hydrated if the original run finished
\* it, with what the records still hold, unless they lost it.  The resumptions
\* of a real run have its workflow.
ProbesInv(r) ==
    /\ r \in loaded => saved # {}
    /\ r \in loaded /\ mode[Original] = "run" => wf[r] = wf[Original]
    /\ r \notin loaded => status[r] = "requested" /\ unread[r] = wf[r].nodes
    /\ unread[r] \subseteq wf[r].nodes
    /\ status[r] \notin NotStarted => unread[r] = {}
    /\ \A n \in unread[r] : stage[r][n] = "pending"
    /\ status[r] # "corrupt" =>
           \A n \in wf[r].nodes \ unread[r] : FinishedFirst(n) /\ ~Gone(n) =>
               /\ record[n] = "found"
               /\ stage[r][n] = "done"
               /\ calls[r][n] = 0
               /\ outputs[r][n] = kept[n]

ResumeInv ==
    /\ \A r \in Runs : ExecutionInv(r)
    /\ \A r \in Runs, n \in Nodes : ExecutedInv(r, n)
    /\ RecordsInv
    /\ \A r \in Resumptions : ProbesInv(r)

-----------------------------------------------------------------------------
(* Types. *)

\* The step records keep outputs of the kind the engine produces.
LEMMA ResumeTypeStep ==
    ASSUME ResumeTypeOK, [ResumeNext]_allVars
    PROVE  ResumeTypeOK'
<1> USE DEF ResumeTypeOK
<1>1. CASE UNCHANGED allVars
  <2>1. TypeOK'
    BY <1>1, TypeStep DEF allVars
  <2> QED
    BY <1>1, <2>1 DEF allVars, resumeVars
<1>2. ASSUME NEW r \in Runs, Launch(r) \/ Execute(r), UNCHANGED resumeVars
      PROVE  ResumeTypeOK'
  <2>1. Next
    BY <1>2 DEF Launch, Execute, Next, Schedule
  <2>2. TypeOK'
    BY <2>1, TypeStep
  <2> QED
    BY <1>2, <2>2 DEF resumeVars
<1>3. ASSUME NEW r \in Runs, Save(r) PROVE ResumeTypeOK'
  <2>1. TypeOK'
    BY <1>3, TypeStep DEF Save
  <2>2. \A n \in Nodes : RowOf(r, n) \in {"missing", "null", "found"}
    BY DEF RowOf
  <2>3. \A n \in Nodes : outputs[r][n] \in SUBSET Item
    BY DEF TypeOK
  <2> QED
    BY <1>3, <2>1, <2>2, <2>3 DEF Save
<1>4. ASSUME NEW r \in Resumptions, Load(r) PROVE ResumeTypeOK'
  <2>1. TypeOK'
    BY <1>4, TypeStep DEF Load
  <2> QED
    BY <1>4, <2>1 DEF Load
<1>5. ASSUME NEW r \in Resumptions, NEW n \in Nodes, Probe(r, n)
      PROVE  unread' \in [Resumptions -> SUBSET Nodes]
  BY <1>5 DEF Probe
<1>6. ASSUME NEW r \in Resumptions, NEW n \in Nodes, HydrateFound(r, n)
      PROVE  ResumeTypeOK'
  <2>0. r \in Runs
    BY DEF Resumptions
  <2>1. <<"finished">> \in Seq(EventKinds)
    BY DEF EventKinds
  <2>2. events' \in [Runs -> [Nodes -> Seq(EventKinds)]]
    BY <1>6, <2>0, <2>1, RecordType DEF HydrateFound, TypeOK
  <2>3. outputs' \in [Runs -> [Nodes -> SUBSET Item]]
    BY <1>6, <2>0 DEF HydrateFound, TypeOK
  <2>4. stage' \in [Runs -> [Nodes -> Stages]]
    BY <1>6, <2>0 DEF HydrateFound, TypeOK, Stages
  <2>5. TypeOK'
    BY <1>6, <2>2, <2>3, <2>4 DEF HydrateFound, TypeOK
  <2> QED
    BY <1>5, <1>6, <2>5 DEF HydrateFound
<1>7. ASSUME NEW r \in Resumptions, NEW n \in Nodes, HydrateMissing(r, n)
      PROVE  ResumeTypeOK'
  <2>1. TypeOK'
    BY <1>7, TypeStep DEF HydrateMissing
  <2> QED
    BY <1>5, <1>7, <2>1 DEF HydrateMissing
<1>8. ASSUME NEW r \in Resumptions, NEW n \in Nodes, HydrateCorrupt(r, n)
      PROVE  ResumeTypeOK'
  <2>1. TypeOK'
    BY <1>8 DEF HydrateCorrupt, TypeOK, Statuses, Ended
  <2> QED
    BY <1>5, <1>8, <2>1 DEF HydrateCorrupt
<1>9. ASSUME NEW r \in Resumptions, Rejoin(r) PROVE ResumeTypeOK'
  <2>0. r \in Runs
    BY DEF Resumptions
  <2>1. <<"finished">> \in Seq(EventKinds)
    BY DEF EventKinds
  <2>2. events' \in [Runs -> [Nodes -> Seq(EventKinds)]]
    BY <1>9, <2>0, <2>1, RecordType DEF Rejoin, TypeOK
  <2>3. stage' \in [Runs -> [Nodes -> Stages]] /\ status' \in [Runs -> Statuses]
    BY <1>9, <2>0 DEF Rejoin, TypeOK, Stages, Statuses
  <2>4. TypeOK'
    BY <1>9, <2>2, <2>3 DEF Rejoin, TypeOK
  <2> QED
    BY <1>9, <2>4 DEF Rejoin, resumeVars
<1> QED
  BY <1>1, <1>2, <1>3, <1>4, <1>6, <1>7, <1>8, <1>9 DEF ResumeNext

-----------------------------------------------------------------------------
(* One execution. *)

Own(r) == ExecutionInv(r) /\ \A n \in Nodes : ExecutedInv(r, n)

\* Where done nodes stay as they are, a node that is not touched keeps its
\* invariant.
LEMMA ExecutedKept ==
    ASSUME TypeOK, NEW r \in Runs, NEW n \in Nodes, ExecutedInv(r, n), Keeps(r),
           stage'[r][n] = stage[r][n], calls'[r][n] = calls[r][n]
    PROVE  ExecutedInv(r, n)'
<1>1. Incoming(wf[r], n)' = Incoming(wf[r], n)
  BY DEF Keeps, Incoming
<1>2. CASE \A e \in Incoming(wf[r], n) : IsDone(r, e.from)
  BY <1>1, <1>2, InputKept DEF ExecutedInv, Fired
<1>3. CASE ~ \A e \in Incoming(wf[r], n) : IsDone(r, e.from)
  BY <1>3 DEF ExecutedInv, Fired
<1> QED
  BY <1>2, <1>3

\* An execution that a step does not touch.
LEMMA OwnKept ==
    ASSUME TypeOK, NEW q \in Runs, Own(q), wf' = wf,
           status'[q] = status[q], stage'[q] = stage[q],
           calls'[q] = calls[q], outputs'[q] = outputs[q]
    PROVE  Own(q)'
<1>1. Keeps(q)
  BY DEF Keeps, IsDone
<1>2. \A n \in Nodes : ExecutedInv(q, n)'
  BY <1>1, ExecutedKept DEF Own
<1>3. ExecutionInv(q)'
  BY DEF Own, ExecutionInv, IsDone
<1> QED
  BY <1>2, <1>3 DEF Own

\* Returning, without a wave or after the last.
LEMMA OwnReturn ==
    ASSUME TypeOK, NEW r \in Runs, Own(r),
           Reject(r) \/ RejectKind(r) \/ Complete(r) \/ Abort(r)
    PROVE  Own(r)'
<1>1. UNCHANGED <<wf, stage, calls, outputs>>
  BY DEF Reject, RejectKind, Complete, Abort
<1>2. \A n \in Nodes : ExecutedInv(r, n)'
  BY <1>1, ExecutedKept DEF Keeps, IsDone, Own
<1>3. ExecutionInv(r)'
  <2>1. CASE Reject(r) \/ RejectKind(r)
    BY <2>1 DEF Reject, RejectKind, Own, ExecutionInv, NotStarted, TypeOK
  <2>2. CASE Complete(r)
    BY <2>2 DEF Complete, Own, ExecutionInv, NotStarted, TypeOK, IsDone
  <2>3. CASE Abort(r)
    BY <2>3 DEF Abort, WaveDriven, Own, ExecutionInv, NotStarted, TypeOK
  <2> QED
    BY <2>1, <2>2, <2>3
<1> QED
  BY <1>2, <1>3 DEF Own

\* Beginning, and rejoining after the probes, differ only in the nodes that
\* are done already: hydrated nodes stay done, also out of the trigger's reach.
LEMMA OwnBegins ==
    ASSUME TypeOK, NEW r \in Runs, Own(r), status[r] = "requested",
           ValidWorkflow(wf[r]), NEW orphans,
           orphans = {n \in Nodes \ Reachable(wf[r]) : ~IsDone(r, n)},
           UNCHANGED <<wf, calls, outputs>>,
           status'[r] = "planning",
           \A n \in Nodes : stage'[r][n] = IF n \in orphans THEN "orphaned" ELSE stage[r][n]
    PROVE  Own(r)'
<1>0. \A n \in Nodes : n \notin wf[r].nodes => stage[r][n] = "pending"
  BY DEF Own, ExecutionInv, NotStarted
<1>1. \A n \in Nodes : calls[r][n] = 0 /\ stage[r][n] \in {"pending", "done"}
  BY DEF Own, ExecutionInv, NotStarted
<1>2. \A n \in Nodes : ExecutedInv(r, n)'
  BY <1>1 DEF ExecutedInv, Fired
<1>3. ValidWorkflow(wf[r])' /\ Reachable(wf[r])' = Reachable(wf[r])
  OBVIOUS
<1>4. \A n \in Nodes \ Reachable(wf[r]) :
          stage'[r][n] \in {"done", "orphaned"} /\ calls'[r][n] = 0
  BY <1>1 DEF IsDone
<1>5. \A n \in Nodes \ wf[r].nodes : stage'[r][n] = "orphaned"
  BY <1>0, ReachedWithin DEF IsDone
<1>6. ExecutionInv(r)'
  BY <1>1, <1>3, <1>4, <1>5 DEF ExecutionInv, NotStarted
<1> QED
  BY <1>2, <1>6 DEF Own

\* Planning a wave; SomeRunnable, as in a fresh run, excludes the stall.
LEMMA OwnPlans ==
    ASSUME TypeOK, NEW r \in Runs, Own(r), PlanWave(r)
    PROVE  Own(r)'
<1>1. /\ UNCHANGED <<wf, calls, outputs>>
      /\ status[r] = "planning"
      /\ ValidWorkflow(wf[r])
      /\ \A n \in Nodes : stage[r][n] \in {"pending", "done", "orphaned"}
      /\ \A n \in Nodes \ Reachable(wf[r]) :
             stage[r][n] \in {"done", "orphaned"} /\ calls[r][n] = 0
      /\ \A n \in Nodes \ wf[r].nodes : stage[r][n] = "orphaned"
  BY DEF PlanWave, Own, ExecutionInv, NotStarted
<1>2. Runnable(r) # {} /\ status'[r] = "running"
  BY <1>1, SomeRunnable DEF PlanWave, TypeOK
<1>3. \A n \in Nodes : stage'[r][n] = IF n \in Starved(r) THEN "done"
                                      ELSE IF n \in Runnable(r) THEN "waiting"
                                      ELSE stage[r][n]
  BY DEF PlanWave, TypeOK
<1>4. \A n \in Nodes : IsDone(r, n) => n \notin Runnable(r) /\ n \notin Starved(r)
  BY DEF Runnable, Starved
<1>5. Keeps(r)
  BY <1>1, <1>3, <1>4 DEF Keeps, IsDone
<1>6. ASSUME NEW n \in Nodes PROVE ExecutedInv(r, n)'
  <2>1. CASE n \in Runnable(r)
    <3>1. stage'[r][n] \in {"done", "waiting"} /\ stage[r][n] = "pending"
      BY <1>1, <1>3, <2>1 DEF Runnable, IsDone
    <3>2. ~Fired(r, n)'
      BY <1>1, <3>1 DEF Own, ExecutedInv, Fired
    <3>3. \A e \in Incoming(wf[r], n) : IsDone(r, e.from)
      BY <2>1 DEF Runnable
    <3>4. /\ Input(r, n)' = Input(r, n)
          /\ \A e \in Incoming(wf[r], n)' : IsDone(r, e.from)'
      BY <1>5, <3>3, InputKept
    <3>5. stage'[r][n] = "waiting" => Incoming(wf[r], n) = {} \/ Input(r, n) # {}
      BY <1>3, <2>1, <3>1 DEF Starved
    <3>6. Incoming(wf[r], n)' = Incoming(wf[r], n)
      BY <1>1 DEF Incoming
    <3> QED
      BY <3>1, <3>2, <3>4, <3>5, <3>6 DEF ExecutedInv
  <2>2. CASE n \notin Runnable(r)
    BY <1>1, <1>3, <1>5, <2>2, ExecutedKept DEF Starved, Own
  <2> QED
    BY <2>1, <2>2
<1>7. ExecutionInv(r)'
  <2>1. ValidWorkflow(wf[r])' /\ Reachable(wf[r])' = Reachable(wf[r])
    BY <1>1
  <2>2. /\ \A n \in Nodes \ Reachable(wf[r]) : stage'[r][n] = stage[r][n]
        /\ \A n \in Nodes \ wf[r].nodes : stage'[r][n] = stage[r][n]
    BY <1>1, <1>3, <1>4 DEF IsDone
  <2>3. \A n \in Nodes : stage'[r][n] # "dropped"
    BY <1>1, <1>3
  <2> QED
    BY <1>1, <1>2, <2>1, <2>2, <2>3 DEF ExecutionInv, NotStarted
<1> QED
  BY <1>6, <1>7 DEF Own

\* A step of one node's future.
LEMMA OwnMoves ==
    ASSUME TypeOK, NEW r \in Runs, NEW n \in Nodes, Own(r), Drive(r, n)
    PROVE  Own(r)'
<1>1. FutureMoves(r, n)
  BY FutureMoved
<1>2. Keeps(r)
  BY <1>1 DEF FutureMoves, Keeps, IsDone
<1>3. ExecutedInv(r, n)'
  <2>1. /\ \A e \in Incoming(wf[r], n) : IsDone(r, e.from)
        /\ Incoming(wf[r], n) = {} \/ Input(r, n) # {}
    BY <1>1 DEF FutureMoves, Own, ExecutedInv
  <2>2. /\ Input(r, n)' = Input(r, n)
        /\ \A e \in Incoming(wf[r], n)' : IsDone(r, e.from)'
    BY <1>2, <2>1, InputKept
  <2>3. Incoming(wf[r], n)' = Incoming(wf[r], n)
    BY <1>1 DEF FutureMoves, Incoming
  <2> QED
    BY <1>1, <2>1, <2>2, <2>3 DEF FutureMoves, ExecutedInv
<1>4. \A m \in Nodes : ExecutedInv(r, m)'
  BY <1>1, <1>2, <1>3, ExecutedKept DEF FutureMoves, Own
<1>5. ExecutionInv(r)'
  <2>1. status[r] = "running" /\ status'[r] = "running"
    BY <1>1 DEF FutureMoves, Own, ExecutionInv
  <2>2. ValidWorkflow(wf[r])' /\ Reachable(wf[r])' = Reachable(wf[r])
    BY <1>1, <2>1 DEF FutureMoves, Own, ExecutionInv, NotStarted
  <2>3. n \in Reachable(wf[r])
    BY <1>1, <2>1 DEF FutureMoves, Own, ExecutionInv, NotStarted
  <2>4. \A m \in Nodes \ Reachable(wf[r]) :
            /\ stage'[r][m] \in {"done", "orphaned"}
            /\ calls'[r][m] = 0
    BY <1>1, <2>1, <2>3 DEF FutureMoves, Own, ExecutionInv, NotStarted
  <2>6. \A m \in Nodes \ wf[r].nodes : stage'[r][m] = "orphaned"
    BY <1>1, <2>1 DEF FutureMoves, Own, ExecutionInv, NotStarted
  <2>5. \A m \in Nodes : stage'[r][m] # "dropped"
    BY <1>1, <2>1 DEF FutureMoves, Own, ExecutionInv
  <2> QED
    BY <1>1, <2>1, <2>2, <2>4, <2>5, <2>6 DEF FutureMoves, ExecutionInv, NotStarted
<1> QED
  BY <1>4, <1>5 DEF Own

\* A wave is committed, or dropped with its run.
LEMMA OwnWaveEnds ==
    ASSUME TypeOK, NEW r \in Runs, Own(r), CommitWave(r) \/ Cancel(r)
    PROVE  Own(r)'
<1>1. /\ UNCHANGED <<wf, calls, outputs>>
      /\ status[r] = "running"
  BY DEF CommitWave, Cancel, WaveDriven
<1>2. \A n \in Nodes :
          \/ stage'[r][n] = stage[r][n]
          \/ /\ stage[r][n] = "produced"
             /\ stage'[r][n] = "done"
          \/ /\ stage[r][n] \in {"waiting", "running"}
             /\ stage'[r][n] = "dropped"
  BY DEF CommitWave, Cancel, TypeOK
<1>3. Keeps(r)
  BY <1>1, <1>2 DEF Keeps, IsDone
<1>4. ASSUME NEW n \in Nodes PROVE ExecutedInv(r, n)'
  <2>1. CASE stage'[r][n] = stage[r][n]
    BY <1>1, <1>3, <2>1, ExecutedKept DEF Own
  <2>2. CASE /\ stage[r][n] \in {"produced", "waiting", "running"}
             /\ stage'[r][n] \in {"done", "dropped"}
    <3>1. /\ \A e \in Incoming(wf[r], n) : IsDone(r, e.from)
          /\ Incoming(wf[r], n) = {} \/ Input(r, n) # {}
      BY <2>2 DEF Own, ExecutedInv
    <3>2. /\ Input(r, n)' = Input(r, n)
          /\ \A e \in Incoming(wf[r], n)' : IsDone(r, e.from)'
      BY <1>3, <3>1, InputKept
    <3>3. Incoming(wf[r], n)' = Incoming(wf[r], n)
      BY <1>1 DEF Incoming
    <3> QED
      BY <2>2, <3>1, <3>2, <3>3 DEF ExecutedInv
  <2> QED
    BY <1>2, <2>1, <2>2
<1>5. ExecutionInv(r)'
  <2>1. /\ ValidWorkflow(wf[r])' /\ Reachable(wf[r])' = Reachable(wf[r])
        /\ \A n \in Nodes \ Reachable(wf[r]) :
               stage'[r][n] \in {"done", "orphaned"} /\ calls'[r][n] = 0
        /\ \A n \in Nodes \ wf'[r].nodes : stage'[r][n] = "orphaned"
    BY <1>1, <1>2 DEF Own, ExecutionInv, NotStarted
  <2>2. CASE CommitWave(r)
    <3>1. \A n \in Nodes : /\ stage[r][n] \in Stages \ {"waiting", "running", "failed"}
                           /\ stage'[r][n] = IF stage[r][n] = "produced" THEN "done"
                                             ELSE stage[r][n]
      BY <2>2 DEF CommitWave, WaveDriven, InStage, TypeOK
    <3>2. \A n \in Nodes : stage[r][n] # "dropped"
      BY <1>1 DEF Own, ExecutionInv
    <3>3. \A n \in Nodes : stage'[r][n] \in {"pending", "done", "orphaned"}
      BY <3>1, <3>2 DEF Stages
    <3>4. status'[r] = "planning"
      BY <2>2 DEF CommitWave, TypeOK
    <3> QED
      BY <2>1, <3>3, <3>4 DEF ExecutionInv, NotStarted
  <2>3. CASE Cancel(r)
    <3>1. /\ \A n \in Nodes : stage'[r][n] \notin {"waiting", "running"}
          /\ status'[r] = "cancelled"
      BY <2>3 DEF Cancel, TypeOK
    <3> QED
      BY <2>1, <3>1 DEF ExecutionInv, NotStarted
  <2> QED
    BY <2>2, <2>3
<1> QED
  BY <1>4, <1>5 DEF Own

-----------------------------------------------------------------------------
(* All executions of the run id, and the records. *)

\* A step of one execution leaves the others alone.
LEMMA OthersRest ==
    ASSUME TypeOK, NEW r \in Runs, Launch(r) \/ Execute(r), NEW q \in Runs, q # r
    PROVE  /\ wf' = wf /\ mode' = mode
           /\ status'[q] = status[q] /\ stage'[q] = stage[q] /\ calls'[q] = calls[q]
           /\ outputs'[q] = outputs[q] /\ events'[q] = events[q]
<1>1. CASE Launch(r)
  BY <1>1 DEF Launch, Reject, RejectKind, Begin, Record, TypeOK
<1>2. CASE Complete(r) \/ PlanWave(r) \/ CommitWave(r) \/ Abort(r) \/ Cancel(r)
  BY <1>2 DEF Complete, PlanWave, CommitWave, Abort, Cancel, Record, TypeOK
<1>3. ASSUME NEW n \in Nodes, Start(r, n) \/ Retry(r, n) \/ Fail(r, n)
      PROVE  /\ wf' = wf /\ mode' = mode
             /\ status'[q] = status[q] /\ stage'[q] = stage[q] /\ calls'[q] = calls[q]
             /\ outputs'[q] = outputs[q] /\ events'[q] = events[q]
  BY <1>3 DEF Start, Retry, Fail, Record, TypeOK
<1>4. ASSUME NEW n \in Nodes, NEW ports \in Emissions, Succeed(r, n, ports)
      PROVE  /\ wf' = wf /\ mode' = mode
             /\ status'[q] = status[q] /\ stage'[q] = stage[q] /\ calls'[q] = calls[q]
             /\ outputs'[q] = outputs[q] /\ events'[q] = events[q]
  BY <1>4 DEF Succeed, Record, TypeOK
<1> QED
  BY <1>1, <1>2, <1>3, <1>4 DEF Execute, Drive, Return

\* No step replaces the workflow or the mode of an execution.
LEMMA StepsKeepFlow ==
    ASSUME NEW r \in Runs, Launch(r) \/ Execute(r)
    PROVE  UNCHANGED <<wf, mode>>
<1>1. CASE Launch(r)
  BY <1>1 DEF Launch, Reject, RejectKind, Begin
<1>2. CASE Complete(r) \/ PlanWave(r) \/ CommitWave(r) \/ Abort(r) \/ Cancel(r)
  BY <1>2 DEF Complete, PlanWave, CommitWave, Abort, Cancel
<1>3. ASSUME NEW n \in Nodes, Drive(r, n) PROVE UNCHANGED <<wf, mode>>
  BY <1>3 DEF Drive, Return, Start, Retry, Succeed, Fail
<1> QED
  BY <1>1, <1>2, <1>3 DEF Execute

\* Once it completed, an execution takes no further step.
LEMMA CompletedRests ==
    ASSUME NEW r \in Runs, ExecutionInv(r), status[r] = "completed"
    PROVE  ~Launch(r) /\ ~Execute(r)
<1>1. \A n \in Nodes : stage[r][n] \notin {"waiting", "running"}
  BY DEF ExecutionInv
<1>2. \A n \in Nodes : ~Drive(r, n)
  BY <1>1 DEF Drive, Return, Start, Retry, Succeed, Fail
<1> QED
  BY <1>2 DEF Launch, Execute, Reject, RejectKind, Begin, Complete, PlanWave,
     CommitWave, Abort, WaveDriven, Cancel

\* Waves are planned and driven only while the execution runs.
LEMMA ExecutesAwake ==
    ASSUME TypeOK, NEW r \in Runs, ExecutionInv(r), Execute(r)
    PROVE  status[r] \in {"planning", "running"}
<1>1. ASSUME NEW n \in Nodes, Drive(r, n) PROVE status[r] = "running"
  BY <1>1, FutureMoved DEF FutureMoves, ExecutionInv
<1> QED
  BY <1>1 DEF Execute, Complete, PlanWave, CommitWave, Abort, WaveDriven, Cancel

\* A step of an execution keeps its own invariant.
LEMMA OwnStep ==
    ASSUME TypeOK, RecordsInv, NEW r \in Runs, Own(r), Launch(r) \/ Execute(r)
    PROVE  Own(r)'
<1>1. CASE Begin(r) /\ r = Original
  <2> DEFINE orphans == {n \in Nodes \ Reachable(wf[r]) : ~IsDone(r, n)}
  <2>1. \A n \in Nodes : stage[r][n] = "pending"
    BY <1>1 DEF RecordsInv, Begin, NotStarted
  <2>2. \A n \in Nodes : stage'[r][n] = IF n \in orphans THEN "orphaned" ELSE stage[r][n]
    BY <1>1, <2>1 DEF Begin, IsDone, TypeOK
  <2> HIDE DEF orphans
  <2>3. orphans = {n \in Nodes \ Reachable(wf[r]) : ~IsDone(r, n)}
    BY DEF orphans
  <2> QED
    BY <1>1, <2>2, <2>3, OwnBegins DEF Begin, TypeOK
<1>2. CASE Reject(r) \/ RejectKind(r) \/ Complete(r) \/ Abort(r)
  BY <1>2, OwnReturn
<1>3. CASE PlanWave(r)
  BY <1>3, OwnPlans
<1>4. CASE CommitWave(r) \/ Cancel(r)
  BY <1>4, OwnWaveEnds
<1>5. ASSUME NEW n \in Nodes, Drive(r, n) PROVE Own(r)'
  BY <1>5, OwnMoves
<1> QED
  BY <1>1, <1>2, <1>3, <1>4, <1>5 DEF Launch, Execute

\* What an execution hydrated, it keeps: its steps touch no node that is done.
LEMMA HydratedKept ==
    ASSUME TypeOK, NEW r \in Resumptions, Own(r), Launch(r) \/ Execute(r)
    PROVE  \A n \in Nodes : stage[r][n] = "done" =>
               /\ stage'[r][n] = "done"
               /\ calls'[r][n] = calls[r][n]
               /\ outputs'[r][n] = outputs[r][n]
<1>0. r \in Runs /\ r # Original
  BY DEF Resumptions
<1>1. CASE Reject(r) \/ RejectKind(r) \/ Complete(r) \/ Abort(r)
  BY <1>1 DEF Reject, RejectKind, Complete, Abort
<1>2. CASE PlanWave(r)
  <2>1. \A n \in Nodes : stage'[r][n] = IF n \in Starved(r) THEN "done"
                                        ELSE IF n \in Runnable(r) THEN "waiting"
                                        ELSE stage[r][n]
    BY <1>0, <1>2 DEF PlanWave, TypeOK
  <2>2. \A n \in Nodes : stage[r][n] = "done" => n \notin Runnable(r)
    BY DEF Runnable, IsDone
  <2>3. calls' = calls /\ outputs' = outputs
    BY <1>2 DEF PlanWave
  <2>4. Starved(r) \subseteq Runnable(r)
    BY DEF Starved
  <2>5. \A n \in Nodes : stage[r][n] = "done" => stage'[r][n] = "done"
    BY <2>1, <2>2, <2>4
  <2> QED
    BY <2>3, <2>5
<1>3. CASE CommitWave(r) \/ Cancel(r)
  <2>1. calls' = calls /\ outputs' = outputs
    BY <1>3 DEF CommitWave, Cancel
  <2>2. \A n \in Nodes : stage[r][n] = "done" => stage'[r][n] = "done"
    <3>1. CASE CommitWave(r)
      <4>1. \A n \in Nodes : stage'[r][n] = IF stage[r][n] = "produced" THEN "done"
                                            ELSE stage[r][n]
        BY <1>0, <3>1 DEF CommitWave, TypeOK
      <4> QED
        BY <4>1
    <3>2. CASE Cancel(r)
      <4>1. \A n \in Nodes :
                stage'[r][n] = IF stage[r][n] \in {"waiting", "running"} THEN "dropped"
                               ELSE stage[r][n]
        BY <1>0, <3>2 DEF Cancel, TypeOK
      <4> QED
        BY <4>1
    <3> QED
      BY <1>3, <3>1, <3>2
  <2> QED
    BY <2>1, <2>2
<1>4. ASSUME NEW n \in Nodes, Drive(r, n), NEW m \in Nodes, stage[r][m] = "done"
      PROVE  /\ stage'[r][m] = "done"
             /\ calls'[r][m] = calls[r][m]
             /\ outputs'[r][m] = outputs[r][m]
  <2>1. FutureMoves(r, n)
    BY <1>0, <1>4, FutureMoved
  <2> QED
    BY <1>4, <2>1 DEF FutureMoves
<1> QED
  BY <1>0, <1>1, <1>2, <1>3, <1>4 DEF Launch, Execute

\* A step of any execution leaves the records and what was read of them in
\* order: once there are records, the original run does not move.
LEMMA RecordsKept ==
    ASSUME ResumeTypeOK, ResumeInv, NEW r \in Runs, Launch(r) \/ Execute(r),
           UNCHANGED resumeVars
    PROVE  RecordsInv' /\ \A q \in Resumptions : ProbesInv(q)'
<1> USE DEF ResumeTypeOK
<1>1. UNCHANGED <<saved, record, kept, loaded, unread>>
  BY DEF resumeVars
<1>2. Original \in Runs /\ \A q \in Resumptions : q \in Runs /\ q # Original
  BY ResumeAssumption DEF ResumeAssumption, Resumptions
<1>3. saved # {} => r # Original
  BY <1>2, CompletedRests DEF ResumeInv, RecordsInv
<1>4. r # Original => /\ status'[Original] = status[Original]
                      /\ stage'[Original] = stage[Original]
                      /\ events'[Original] = events[Original]
  BY <1>2, OthersRest
<1>7. UNCHANGED <<wf, mode>> /\ \A n \in Nodes : Gone(n)' <=> Gone(n)
  BY <1>1, StepsKeepFlow DEF Gone
<1>5. RecordsInv'
  <2>1. CASE r = Original
    <3>1. Launch(r) /\ status'[r] \in NotStarted => stage' = stage /\ status[r] = "requested"
      BY <1>2, <2>1 DEF Launch, Reject, RejectKind, Begin, NotStarted, TypeOK
    <3>2. Execute(r) => status'[r] \notin NotStarted \/ status[r] \in NotStarted
      <4>1. CASE Complete(r) \/ PlanWave(r) \/ CommitWave(r) \/ Abort(r) \/ Cancel(r)
        BY <4>1 DEF Complete, PlanWave, CommitWave, Abort, Cancel, NotStarted, TypeOK
      <4>2. ASSUME NEW n \in Nodes, Drive(r, n) PROVE status' = status
        BY <4>2, FutureMoved DEF FutureMoves
      <4> QED
        BY <4>1, <4>2 DEF Execute
    <3>3. Execute(r) => status[r] \notin NotStarted
      BY ExecutesAwake DEF ResumeInv, NotStarted
    <3>4. status'[Original] \in NotStarted =>
              \A n \in Nodes : stage'[Original][n] = "pending"
      BY <2>1, <3>1, <3>2, <3>3 DEF ResumeInv, RecordsInv, NotStarted
    <3> QED
      BY <1>1, <1>3, <2>1, <3>4 DEF ResumeInv, RecordsInv
  <2>2. CASE r # Original
    BY <1>1, <1>4, <1>7, <2>2 DEF ResumeInv, RecordsInv, FinishedFirst, NoFinish
  <2> QED
    BY <2>1, <2>2
<1>6. ASSUME NEW q \in Resumptions PROVE ProbesInv(q)'
  <2>1. ProbesInv(q)
    BY DEF ResumeInv
  <2>0. wf[q].nodes \subseteq Nodes
    BY <1>2, ReachedWithin
  <2>2. \A n \in wf[q].nodes \ unread[q] : FinishedFirst(n)' <=> FinishedFirst(n)
    <3>1. CASE r # Original
      BY <1>4, <3>1 DEF FinishedFirst, NoFinish
    <3>2. CASE r = Original
      BY <1>3, <2>1, <3>2 DEF ProbesInv
    <3> QED
      BY <3>1, <3>2
  <2>3. CASE q # r
    <3>1. status'[q] = status[q] /\ stage'[q] = stage[q]
          /\ calls'[q] = calls[q] /\ outputs'[q] = outputs[q]
      BY <1>2, <2>3, OthersRest
    <3> QED
      BY <1>1, <1>7, <2>0, <2>1, <2>2, <3>1 DEF ProbesInv
  <2>4. CASE q = r
    <3>0. Own(r)
      BY DEF ResumeInv, Own
    <3>1. \A n \in Nodes : stage[r][n] = "done" =>
               /\ stage'[r][n] = "done"
               /\ calls'[r][n] = calls[r][n]
               /\ outputs'[r][n] = outputs[r][n]
      BY <2>4, <3>0, HydratedKept
    <3>2. r \in loaded /\ status[r] # "corrupt"
      <4>1. CASE Launch(r)
        BY <1>2, <2>4, <4>1 DEF Launch, Loaded
      <4>2. CASE Execute(r)
        BY <2>1, <2>4, <4>2, ExecutesAwake DEF ResumeInv, ProbesInv
      <4> QED
        BY <4>1, <4>2
    <3>3. \/ stage' = stage /\ status'[r] \in {"invalid", "no_executor"}
          \/ unread[r] = {}
      <4>1. CASE Launch(r)
        BY <1>2, <2>4, <4>1 DEF Launch, Reject, RejectKind, TypeOK
      <4>2. CASE Execute(r)
        BY <2>1, <2>4, <4>2, ExecutesAwake DEF ResumeInv, ProbesInv, NotStarted
      <4> QED
        BY <4>1, <4>2
    <3> QED
      BY <1>1, <1>7, <2>0, <2>1, <2>2, <2>4, <3>1, <3>2, <3>3 DEF ProbesInv, NotStarted
  <2> QED
    BY <2>3, <2>4
<1> QED
  BY <1>5, <1>6

-----------------------------------------------------------------------------
(* Saving, loading and hydrating. *)

\* What was hydrated counts as finished in the log of the resumption too.
LEMMA FinishCounted ==
    ASSUME TypeOK, LedgerInv, NEW r \in Runs, NEW n \in Nodes
    PROVE  /\ stage[r][n] = "done" /\ calls[r][n] = 0 => Finishes(r, n) = 1
           /\ stage[r][n] \in {"done", "orphaned"} =>
                  /\ Finishes(r, n) = IF NoFinish(events[r][n]) THEN 0 ELSE 1
                  /\ Finishes(r, n) = 0 /\ n \in wf[r].nodes =>
                         calls[r][n] = AttemptLimit(r, n)
<1>1. FinishedLast(<<"finished">>) /\ ~NoFinish(<<"finished">>) /\ NoFinish(<<>>)
  BY DEF FinishedLast, NoFinish
<1>2. NodeLedger(r, n)
  BY DEF LedgerInv
<1>3. AttemptLimit(r, n) >= 1
  BY LimitType
<1>4. FinishedLast(events[r][n]) => ~NoFinish(events[r][n])
  <2>1. events[r][n] \in Seq(EventKinds) /\ Len(events[r][n]) \in Nat
    BY DEF TypeOK
  <2> QED
    BY <2>1 DEF FinishedLast, NoFinish
<1>5. /\ FinishedLast(events[r][n]) => Finishes(r, n) = 1
      /\ NoFinish(events[r][n]) => Finishes(r, n) = 0
  BY FinishesCounted
<1>6. CASE stage[r][n] = "orphaned"
  <2>1. IF n \in wf[r].nodes
        THEN ~NoFinish(events[r][n]) /\ FinishedLast(events[r][n])
        ELSE NoFinish(events[r][n])
    BY <1>1, <1>2, <1>6 DEF NodeLedger
  <2> QED
    BY <1>5, <1>6, <2>1
<1>7. CASE stage[r][n] = "done"
  <2>1. \/ FinishedLast(events[r][n])
        \/ NoFinish(events[r][n]) /\ calls[r][n] = AttemptLimit(r, n)
    BY <1>2, <1>7 DEF NodeLedger
  <2> QED
    BY <1>3, <1>4, <1>5, <1>7, <2>1
<1> QED
  BY <1>6, <1>7

\* The first result that is saved is that of the original run.
LEMMA FirstSaved ==
    ASSUME ResumeInv, NEW r \in Runs, Save(r), saved = {}
    PROVE  r = Original
<1> SUFFICES ASSUME r # Original PROVE FALSE
  OBVIOUS
<1> QED
  BY DEF Save, ResumeInv, ProbesInv, Resumptions

\* A later one holds what the records held of the nodes the original run
\* finished and no version lacked, so that saving it over them changes none of
\* those.
LEMMA SavedAgain ==
    ASSUME ResumeTypeOK, ResumeInv, LedgerInv, NEW r \in Runs, Save(r), saved # {},
           NEW n \in Nodes, FinishedFirst(n), ~Gone(n)'
    PROVE  /\ record[n] = "found" /\ record'[n] = "found"
           /\ kept'[n] = kept[n]
<1>1. r \in Resumptions
  BY DEF Save, ResumeInv, RecordsInv, Resumptions
<1>0. n \in wf[r].nodes /\ ~Gone(n)
  BY DEF Save, Gone, vars
<1>2. /\ record[n] = "found" /\ stage[r][n] = "done"
      /\ calls[r][n] = 0 /\ outputs[r][n] = kept[n]
  BY <1>0, <1>1 DEF Save, ResumeInv, ProbesInv, NotStarted
<1>3. Finishes(r, n) = 1
  BY <1>2, FinishCounted DEF ResumeTypeOK
<1>4. RowOf(r, n) = "found"
  BY <1>2, <1>3 DEF RowOf
<1> QED
  BY <1>2, <1>4 DEF Save

\* Saving a result keeps the invariant.
LEMMA SaveKeeps ==
    ASSUME ResumeTypeOK, ResumeInv, LedgerInv, NEW r \in Runs, Save(r)
    PROVE  ResumeInv'
<1>1. /\ UNCHANGED <<wf, mode, status, stage, calls, outputs, events, loaded, unread>>
      /\ saved' = saved \cup {r}
  BY DEF Save, vars
<1>8. \A n \in Nodes : Gone(n) => Gone(n)'
  BY <1>1 DEF Gone
<1>9. r \in {Original} \cup loaded
  BY DEF Save, ResumeInv, ProbesInv, Resumptions
<1>2. \A q \in Runs : Own(q)'
  BY <1>1, OwnKept DEF ResumeInv, Own, ResumeTypeOK
<1>3. \A n \in Nodes : FinishedFirst(n)' <=> FinishedFirst(n)
  BY <1>1 DEF FinishedFirst, NoFinish
<1>4. saved' # {} /\ Original \in saved' /\ status[Original] = "completed"
  BY FirstSaved DEF Save, ResumeInv, RecordsInv
<1>5. \A n \in Nodes : FinishedFirst(n) /\ ~Gone(n)' => record'[n] # "missing"
  <2>1. CASE saved = {}
    <3>1. ASSUME NEW n \in Nodes, FinishedFirst(n) PROVE RowOf(Original, n) # "missing"
      <4>1. stage[Original][n] \in {"done", "orphaned"}
        BY <1>4, ResumeAssumption DEF ResumeInv, ExecutionInv, IsDone, ResumeAssumption
      <4>2. Finishes(Original, n) = 1
        BY <3>1, <4>1, FinishCounted, ResumeAssumption
           DEF FinishedFirst, ResumeTypeOK, ResumeAssumption
      <4> QED
        BY <4>2 DEF RowOf
    <3> QED
      BY <2>1, <3>1, FirstSaved DEF Save
  <2>2. CASE saved # {}
    BY <2>2, SavedAgain
  <2> QED
    BY <2>1, <2>2
<1>6. RecordsInv'
  BY <1>1, <1>3, <1>4, <1>5, <1>9 DEF RecordsInv, ResumeInv
<1>7. ASSUME NEW q \in Resumptions PROVE ProbesInv(q)'
  <2>1. ProbesInv(q)
    BY DEF ResumeInv
  <2>2. CASE saved = {}
    BY <1>1, <1>4, <2>1, <2>2 DEF ProbesInv
  <2>3. CASE saved # {}
    <3>1. \A n \in Nodes : FinishedFirst(n) /\ ~Gone(n)' =>
              record'[n] = record[n] /\ kept'[n] = kept[n]
      BY <2>3, SavedAgain
    <3>2. wf[q].nodes \subseteq Nodes
      BY ReachedWithin DEF ResumeTypeOK, Resumptions
    <3> QED
      BY <1>1, <1>3, <1>4, <1>8, <2>1, <3>1, <3>2 DEF ProbesInv
  <2> QED
    BY <2>2, <2>3
<1> QED
  BY <1>2, <1>6, <1>7 DEF ResumeInv, Own

\* A step of a resumption before it starts its first wave, in which the other
\* executions and the records stay as they are.
LEMMA OneResumes ==
    ASSUME ResumeTypeOK, ResumeInv, NEW r \in Resumptions, Own(r)', ProbesInv(r)',
           UNCHANGED <<wf, mode, saved, record, kept>>,
           loaded' \ {r} = loaded \ {r}, loaded \subseteq loaded',
           \A q \in Runs : q # r =>
               /\ status'[q] = status[q] /\ stage'[q] = stage[q]
               /\ calls'[q] = calls[q] /\ outputs'[q] = outputs[q]
               /\ events'[q] = events[q]
               /\ q \in Resumptions => unread'[q] = unread[q]
    PROVE  ResumeInv'
<1>0. Original \in Runs /\ Original # r
  BY ResumeAssumption DEF ResumeAssumption, Resumptions
<1>1. ASSUME NEW q \in Runs PROVE Own(q)'
  BY OwnKept DEF ResumeInv, Own, ResumeTypeOK
<1>2. \A n \in Nodes : FinishedFirst(n)' <=> FinishedFirst(n)
  BY <1>0 DEF FinishedFirst, NoFinish
<1>5. \A n \in Nodes : Gone(n)' <=> Gone(n)
  BY DEF Gone
<1>3. RecordsInv'
  BY <1>0, <1>2, <1>5 DEF ResumeInv, RecordsInv
<1>4. ASSUME NEW q \in Resumptions, q # r PROVE ProbesInv(q)'
  <2>1. q \in Runs /\ (q \in loaded' <=> q \in loaded)
    BY <1>4 DEF Resumptions
  <2>2. ProbesInv(q)
    BY DEF ResumeInv
  <2> QED
    BY <1>2, <1>4, <1>5, <2>1, <2>2, ReachedWithin DEF ProbesInv, ResumeTypeOK
<1> QED
  BY <1>1, <1>3, <1>4 DEF ResumeInv, Own

\* Loading the stored run, and each probe of a record.
LEMMA LoadKeeps ==
    ASSUME ResumeTypeOK, ResumeInv, NEW r \in Resumptions, Load(r)
    PROVE  ResumeInv'
<1>0. r \in Runs
  BY DEF Resumptions
<1>1. /\ UNCHANGED <<wf, mode, status, stage, calls, outputs, events,
                     saved, record, kept, unread>>
      /\ saved # {} /\ r \notin loaded /\ loaded' = loaded \cup {r}
      /\ mode[Original] = "run" => wf[r] = wf[Original]
  BY DEF Load, vars
<1>2. Own(r)'
  BY <1>0, <1>1, OwnKept DEF ResumeInv, Own, ResumeTypeOK
<1>3. ProbesInv(r)'
  <2>1. ProbesInv(r)
    BY DEF ResumeInv
  <2> QED
    BY <1>1, <2>1 DEF ProbesInv, NotStarted
<1> QED
  BY <1>1, <1>2, <1>3, OneResumes

LEMMA ProbeKeeps ==
    ASSUME ResumeTypeOK, ResumeInv, NEW r \in Resumptions, NEW n \in Nodes,
           HydrateFound(r, n) \/ HydrateMissing(r, n) \/ HydrateCorrupt(r, n)
    PROVE  ResumeInv'
<1> USE DEF ResumeTypeOK
<1>0. r \in Runs /\ r # Original
  BY DEF Resumptions
<1>1. /\ status[r] = "requested" /\ r \in loaded /\ n \in unread[r]
      /\ stage[r][n] = "pending"
      /\ \A m \in Nodes : calls[r][m] = 0 /\ stage[r][m] \in {"pending", "done"}
      /\ saved # {}
  BY <1>0 DEF HydrateFound, HydrateMissing, HydrateCorrupt, Probe, Hydrating, Loaded,
     ResumeInv, ProbesInv, ExecutionInv, NotStarted
<1>2. /\ UNCHANGED <<wf, mode, calls, permits, saved, record, kept, loaded>>
      /\ unread' = [unread EXCEPT ![r] = unread[r] \ {n}]
  BY DEF HydrateFound, HydrateMissing, HydrateCorrupt, Probe, vars
<1>3. \A q \in Runs : q # r =>
          /\ status'[q] = status[q] /\ stage'[q] = stage[q]
          /\ outputs'[q] = outputs[q] /\ events'[q] = events[q]
          /\ q \in Resumptions => unread'[q] = unread[q]
  <2>1. CASE HydrateFound(r, n)
    BY <1>0, <1>2, <2>1 DEF HydrateFound, Record, TypeOK
  <2>2. CASE HydrateMissing(r, n)
    BY <1>2, <2>2 DEF HydrateMissing, vars
  <2>3. CASE HydrateCorrupt(r, n)
    BY <1>0, <1>2, <2>3 DEF HydrateCorrupt, TypeOK
  <2> QED
    BY <2>1, <2>2, <2>3
<1>4. /\ status'[r] \in {"requested", "corrupt"}
      /\ \A m \in Nodes : m # n => /\ stage'[r][m] = stage[r][m]
                                   /\ outputs'[r][m] = outputs[r][m]
      /\ \/ status'[r] = "corrupt" /\ stage'[r][n] = stage[r][n]
         \/ record[n] = "missing" /\ stage'[r][n] = stage[r][n]
         \/ /\ record[n] = "found" /\ stage'[r][n] = "done"
            /\ outputs'[r][n] = kept[n]
  <2>1. CASE HydrateFound(r, n)
    BY <1>0, <1>1, <2>1 DEF HydrateFound, TypeOK
  <2>2. CASE HydrateMissing(r, n)
    BY <1>1, <2>2 DEF HydrateMissing, vars
  <2>3. CASE HydrateCorrupt(r, n)
    BY <1>0, <1>1, <2>3 DEF HydrateCorrupt, TypeOK
  <2> QED
    BY <2>1, <2>2, <2>3
<1>5. Own(r)'
  <2>1. \A m \in Nodes : calls'[r][m] = 0 /\ stage'[r][m] \in {"pending", "done"}
    BY <1>1, <1>2, <1>4
  <2>4. \A m \in Nodes : m \notin wf'[r].nodes => stage'[r][m] = "pending"
    <3>1. n \in wf[r].nodes
      BY <1>1 DEF ResumeInv, ProbesInv
    <3>2. \A m \in Nodes : m \notin wf[r].nodes => stage[r][m] = "pending"
      BY <1>0, <1>1 DEF ResumeInv, ExecutionInv, NotStarted
    <3> QED
      BY <1>2, <1>4, <3>1, <3>2
  <2>2. \A m \in Nodes : ExecutedInv(r, m)'
    BY <2>1 DEF ExecutedInv, Fired
  <2>3. ExecutionInv(r)'
    BY <1>4, <2>1, <2>4 DEF ExecutionInv, NotStarted
  <2> QED
    BY <2>2, <2>3 DEF Own
<1>6. ProbesInv(r)'
  <2>1. ProbesInv(r) /\ RecordsInv
    BY DEF ResumeInv
  <2>2. \A m \in Nodes : FinishedFirst(m)' <=> FinishedFirst(m)
    BY <1>0, <1>3, ResumeAssumption DEF FinishedFirst, NoFinish, ResumeAssumption
  <2>3. record[n] = "missing" => ~FinishedFirst(n) \/ Gone(n)
    BY <1>1, <2>1 DEF RecordsInv
  <2>7. wf[r].nodes \subseteq Nodes /\ \A m \in Nodes : Gone(m)' <=> Gone(m)
    BY <1>0, <1>2, ReachedWithin DEF Gone
  <2>4. unread'[r] = unread[r] \ {n}
    BY <1>2
  <2>5. \A m \in unread'[r] : stage'[r][m] = "pending"
    BY <1>4, <2>1, <2>4 DEF ProbesInv
  <2>6. status'[r] # "corrupt" =>
            \A m \in wf[r].nodes \ unread'[r] : FinishedFirst(m) /\ ~Gone(m) =>
                /\ record[m] = "found" /\ stage'[r][m] = "done"
                /\ calls[r][m] = 0 /\ outputs'[r][m] = kept[m]
    BY <1>1, <1>4, <2>1, <2>3, <2>4, <2>7 DEF ProbesInv
  <2>8. unread'[r] \subseteq wf[r].nodes
    BY <2>1, <2>4 DEF ProbesInv
  <2> QED
    BY <1>1, <1>2, <1>4, <2>1, <2>2, <2>5, <2>6, <2>7, <2>8 DEF ProbesInv, NotStarted
<1> QED
  BY <1>2, <1>3, <1>5, <1>6, OneResumes

\* After its last probe a resumption starts like a fresh run.
LEMMA RejoinKeeps ==
    ASSUME ResumeTypeOK, ResumeInv, NEW r \in Resumptions, Rejoin(r)
    PROVE  ResumeInv'
<1> USE DEF ResumeTypeOK
<1>0. r \in Runs /\ r # Original
  BY DEF Resumptions
<1> DEFINE orphans == {n \in Nodes \ Reachable(wf[r]) : ~IsDone(r, n)}
<1>1. /\ UNCHANGED <<wf, mode, calls, outputs, permits, saved, record, kept, loaded, unread>>
      /\ status[r] = "requested" /\ ValidWorkflow(wf[r]) /\ r \in loaded
      /\ unread[r] = {}
      /\ Record(r, orphans \cap wf[r].nodes, <<"finished">>)
  BY DEF Rejoin, Hydrating, Loaded, resumeVars
<1>2. /\ status'[r] = "planning"
      /\ \A n \in Nodes : stage'[r][n] = IF n \in orphans THEN "orphaned" ELSE stage[r][n]
  BY <1>0 DEF Rejoin, TypeOK
<1>3. \A q \in Runs : q # r =>
          /\ status'[q] = status[q] /\ stage'[q] = stage[q] /\ events'[q] = events[q]
  BY <1>0, <1>1 DEF Rejoin, Record, TypeOK
<1>4. \A n \in Nodes : IsDone(r, n) => n \notin orphans
  OBVIOUS
<1>5. orphans = {n \in Nodes \ Reachable(wf[r]) : ~IsDone(r, n)}
  OBVIOUS
<1> HIDE DEF orphans
<1>6. Own(r)'
  BY <1>0, <1>1, <1>2, <1>5, OwnBegins DEF ResumeInv, Own
<1>7. ProbesInv(r)'
  <2>1. ProbesInv(r)
    BY DEF ResumeInv
  <2>2. \A n \in Nodes : FinishedFirst(n)' <=> FinishedFirst(n)
    BY <1>0, <1>3, ResumeAssumption DEF FinishedFirst, NoFinish, ResumeAssumption
  <2>3. \A n \in Nodes : stage[r][n] = "done" => stage'[r][n] = "done"
    BY <1>2, <1>4 DEF IsDone
  <2>4. wf[r].nodes \subseteq Nodes /\ \A n \in Nodes : Gone(n)' <=> Gone(n)
    BY <1>0, <1>1, ReachedWithin DEF Gone
  <2> QED
    BY <1>1, <1>2, <2>1, <2>2, <2>3, <2>4 DEF ProbesInv
<1> QED
  BY <1>1, <1>3, <1>6, <1>7, OneResumes

-----------------------------------------------------------------------------
(* The event log of resumed runs. *)

\* A hydrated node has its Finished event, and no call, like a skipped one.
LEMMA ResumeLedgerStep ==
    ASSUME ResumeTypeOK, ResumeInv, LedgerInv, [ResumeNext]_allVars
    PROVE  LedgerInv'
<1> USE DEF ResumeTypeOK
<1> SUFFICES ASSUME NEW q \in Runs, NEW m \in Nodes
             PROVE  NodeLedger(q, m)'
  BY DEF LedgerInv
<1>0. NodeLedger(q, m)
  BY DEF LedgerInv
<1>1. CASE UNCHANGED vars
  BY <1>0, <1>1, LedgerKept DEF vars
<1>2. ASSUME NEW r \in Runs, Launch(r) \/ Execute(r) PROVE NodeLedger(q, m)'
  <2>1. ASSUME NEW n \in Nodes, Drive(r, n) PROVE NodeLedger(q, m)'
    BY <2>1, FutureLedger
  <2>2. status[r] = "planning" =>
            \A n \in Nodes : stage[r][n] \in {"pending", "done", "orphaned"}
    BY DEF ResumeInv, ExecutionInv
  <2>3. ASSUME Begin(r), r = Original PROVE \A n \in Nodes : stage[r][n] = "pending"
    BY <2>3 DEF Begin, ResumeInv, RecordsInv, NotStarted
  <2>4. CASE Begin(r) /\ r = Original
    BY <2>2, <2>3, <2>4, ScheduleLedger DEF Schedule
  <2>5. CASE \/ Reject(r) \/ RejectKind(r) \/ Complete(r) \/ PlanWave(r)
             \/ CommitWave(r) \/ Abort(r) \/ Cancel(r)
    <3>2. Schedule(r) \/ Cancel(r)
      BY <2>5 DEF Schedule
    <3>3. ~Begin(r)
      <4>1. CASE Reject(r) \/ RejectKind(r)
        BY <4>1 DEF Reject, RejectKind, Begin
      <4>2. CASE Complete(r) \/ PlanWave(r) \/ CommitWave(r) \/ Abort(r) \/ Cancel(r)
        BY <4>2 DEF Complete, PlanWave, CommitWave, Abort, WaveDriven, Cancel, Begin
      <4> QED
        BY <2>5, <4>1, <4>2
    <3> QED
      BY <2>2, <3>2, <3>3, ScheduleLedger
  <2> QED
    BY <1>2, <2>1, <2>4, <2>5 DEF Launch, Execute
<1>3. ASSUME NEW r \in Runs, Save(r) PROVE NodeLedger(q, m)'
  BY <1>0, <1>3, LedgerKept DEF Save, vars
<1>4. ASSUME NEW r \in Resumptions, Load(r) PROVE NodeLedger(q, m)'
  BY <1>0, <1>4, LedgerKept DEF Load, vars
<1>5. ASSUME NEW r \in Resumptions, NEW n \in Nodes,
             HydrateMissing(r, n) \/ HydrateCorrupt(r, n)
      PROVE  NodeLedger(q, m)'
  BY <1>0, <1>5, LedgerKept DEF HydrateMissing, HydrateCorrupt, vars
<1>6. ASSUME NEW r \in Resumptions, NEW n \in Nodes, HydrateFound(r, n)
      PROVE  NodeLedger(q, m)'
  <2>0. r \in Runs
    BY DEF Resumptions
  <2>1. Record(r, {n}, <<"finished">>) /\ UNCHANGED <<wf, mode, calls>>
    BY <1>6 DEF HydrateFound
  <2>2. CASE q = r /\ m = n
    <3>1. stage[q][m] = "pending"
      BY <1>6, <2>2 DEF HydrateFound, Probe, ResumeInv, ProbesInv
    <3>2. events[q][m] = <<>> /\ calls[q][m] = 0
      BY <1>0, <3>1 DEF NodeLedger
    <3>3. events'[q][m] = <<"finished">>
      BY <2>0, <2>1, <2>2, <3>2, SkipLogged
    <3>4. stage'[q][m] = "done" /\ calls'[q][m] = 0
      BY <1>6, <2>0, <2>1, <2>2, <3>2 DEF HydrateFound, TypeOK
    <3>5. FinishedLast(<<"finished">>) /\ Len(<<"finished">>) = 1
      BY DEF FinishedLast
    <3>6. AttemptLimit(q, m)' = AttemptLimit(q, m)
      BY <2>1 DEF AttemptLimit
    <3> QED
      BY <1>0, <3>2, <3>3, <3>4, <3>5, <3>6 DEF NodeLedger
  <2>3. CASE q # r \/ m # n
    <3>1. events'[q][m] = events[q][m]
      BY <2>0, <2>1, <2>3, SkipLogged
    <3>2. stage'[q][m] = stage[q][m] /\ outputs'[q][m] = outputs[q][m]
      BY <1>6, <2>0, <2>3 DEF HydrateFound, TypeOK
    <3> QED
      BY <1>0, <2>1, <3>1, <3>2, LedgerKept
  <2> QED
    BY <2>2, <2>3
<1>7. ASSUME NEW r \in Resumptions, Rejoin(r) PROVE NodeLedger(q, m)'
  <2>0. r \in Runs
    BY DEF Resumptions
  <2> DEFINE orphans == {n \in Nodes \ Reachable(wf[r]) : ~IsDone(r, n)}
  <2>1. /\ Record(r, orphans \cap wf[r].nodes, <<"finished">>)
        /\ UNCHANGED <<wf, mode, calls, outputs>>
        /\ status[r] = "requested"
        /\ stage'[q][m] = IF q = r /\ m \in orphans THEN "orphaned" ELSE stage[q][m]
    BY <1>7, <2>0 DEF Rejoin, Hydrating, Loaded, TypeOK
  <2>2. orphans \cap wf[r].nodes \in SUBSET Nodes
    OBVIOUS
  <2>3. m \in orphans => ~IsDone(r, m)
    OBVIOUS
  <2> HIDE DEF orphans
  <2>4. CASE q = r /\ m \in orphans
    <3>1. stage[q][m] = "pending"
      BY <2>1, <2>3, <2>4 DEF ResumeInv, ExecutionInv, NotStarted, IsDone
    <3>2. events[q][m] = <<>> /\ calls[q][m] = 0
      BY <1>0, <3>1 DEF NodeLedger
    <3>3. events'[q][m] = IF m \in wf[q].nodes THEN <<"finished">> ELSE <<>>
      BY <2>0, <2>1, <2>2, <2>4, <3>2, SkipLogged
    <3>4. AttemptLimit(q, m)' = AttemptLimit(q, m)
      BY <2>1 DEF AttemptLimit
    <3> QED
      BY <1>0, <2>1, <2>4, <3>2, <3>3, <3>4 DEF NodeLedger
  <2>5. CASE q # r \/ m \notin orphans
    <3>1. events'[q][m] = events[q][m]
      BY <2>0, <2>1, <2>2, <2>5, SkipLogged
    <3> QED
      BY <1>0, <2>1, <2>5, <3>1, LedgerKept
  <2> QED
    BY <2>4, <2>5
<1> QED
  BY <1>1, <1>2, <1>3, <1>4, <1>5, <1>6, <1>7 DEF ResumeNext, allVars

\* A real run has the same nodes in all its resumptions, so only a dry run can
\* have lost what it finished.
LEMMA GoneIsLost ==
    ASSUME ResumeTypeOK, ResumeInv, LedgerInv, NEW n \in Nodes,
           FinishedFirst(n), Gone(n)
    PROVE  Lost(n)
<1>0. Original \in Runs /\ TypeOK
  BY ResumeAssumption DEF ResumeAssumption, ResumeTypeOK
<1> SUFFICES ASSUME mode[Original] = "run" PROVE FALSE
  BY <1>0 DEF TypeOK, Modes, Lost, Gone
<1>1. PICK q \in saved : n \notin wf[q].nodes
  BY DEF Gone
<1>2. wf[q] = wf[Original]
  <2>1. saved \subseteq {Original} \cup loaded /\ loaded \subseteq Resumptions
    BY DEF ResumeInv, RecordsInv, ResumeTypeOK
  <2>2. CASE q = Original
    BY <2>2
  <2>3. CASE q \in loaded /\ q \in Resumptions
    BY <2>3 DEF ResumeInv, ProbesInv
  <2> QED
    BY <1>1, <2>1, <2>2, <2>3
<1>3. stage[Original][n] = "orphaned"
  BY <1>0, <1>1, <1>2 DEF ResumeInv, RecordsInv, ExecutionInv, NotStarted
<1>4. events[Original][n] = <<>>
  BY <1>0, <1>1, <1>2, <1>3 DEF LedgerInv, NodeLedger
<1> QED
  BY <1>4 DEF FinishedFirst, NoFinish

-----------------------------------------------------------------------------
(* The theorems. *)

\* One step of whatever execution keeps the invariant.
LEMMA ResumeStep ==
    ASSUME ResumeTypeOK, ResumeInv, LedgerInv, [ResumeNext]_allVars
    PROVE  ResumeInv'
<1>1. CASE UNCHANGED allVars
  <2>1. UNCHANGED <<wf, mode, status, stage, calls, outputs, events,
                    saved, record, kept, loaded, unread>>
    BY <1>1 DEF allVars, vars, resumeVars
  <2>2. \A q \in Runs : Own(q)'
    BY <2>1, OwnKept DEF ResumeInv, Own, ResumeTypeOK
  <2>3. RecordsInv'
    BY <2>1 DEF ResumeInv, RecordsInv, FinishedFirst, NoFinish, Gone
  <2>4. \A q \in Resumptions : ProbesInv(q)'
    BY <2>1 DEF ResumeInv, ProbesInv, FinishedFirst, NoFinish, Gone
  <2> QED
    BY <2>2, <2>3, <2>4 DEF ResumeInv, Own
<1>2. ASSUME NEW r \in Runs, Launch(r) \/ Execute(r), UNCHANGED resumeVars
      PROVE  ResumeInv'
  <2>1. \A q \in Runs : q # r => Own(q)'
    BY <1>2, OthersRest, OwnKept DEF ResumeInv, Own, ResumeTypeOK
  <2>2. Own(r)'
    BY <1>2, OwnStep DEF ResumeInv, Own, ResumeTypeOK
  <2>3. RecordsInv' /\ \A q \in Resumptions : ProbesInv(q)'
    BY <1>2, RecordsKept
  <2> QED
    BY <2>1, <2>2, <2>3 DEF ResumeInv, Own
<1> QED
  BY <1>1, <1>2, SaveKeeps, LoadKeeps, ProbeKeeps, RejoinKeeps DEF ResumeNext

\* Stored runs, records and resumptions agree in every reachable state: the
\* records lose a node that the original run finished only when a version of
\* the workflow without that node is saved, and a resumption that has probed
\* the node before holds its output.
THEOREM ResumeCorrect == ResumeSpec => [](ResumeTypeOK /\ LedgerInv /\ ResumeInv)
<1>1. ResumeInit => ResumeTypeOK /\ LedgerInv /\ ResumeInv
  <2> SUFFICES ASSUME ResumeInit PROVE ResumeTypeOK /\ LedgerInv /\ ResumeInv
    OBVIOUS
  <2>0. Init
    BY DEF ResumeInit
  <2>1. TypeOK
    BY <2>0, PermitsType DEF Init, TypeOK, Statuses, Stages
  <2>2. ResumeTypeOK
    <3>1. \A r \in Resumptions : wf[r].nodes \subseteq Nodes
      BY <2>1, ReachedWithin DEF Resumptions
    <3> QED
      BY <2>1, <3>1 DEF ResumeInit, ResumeTypeOK
  <2>3. ASSUME NEW r \in Runs, NEW n \in Nodes PROVE NodeLedger(r, n)
    BY <2>0, <2>1, LimitType DEF Init, NodeLedger
  <2>4. ASSUME NEW r \in Runs PROVE Own(r)
    BY <2>0 DEF Init, Own, ExecutionInv, ExecutedInv, NotStarted, Fired
  <2>5. RecordsInv
    BY <2>0, ResumeAssumption DEF ResumeInit, Init, RecordsInv, ResumeAssumption
  <2>6. ASSUME NEW r \in Resumptions PROVE ProbesInv(r)
    <3>1. r \in Runs /\ wf[r].nodes \subseteq Nodes
      BY <2>1, ReachedWithin DEF Resumptions
    <3> QED
      BY <2>0, <3>1 DEF ResumeInit, Init, ProbesInv, NotStarted
  <2> QED
    BY <2>2, <2>3, <2>4, <2>5, <2>6 DEF LedgerInv, ResumeInv, Own
<1>2. ResumeTypeOK /\ LedgerInv /\ ResumeInv /\ [ResumeNext]_allVars
        => (ResumeTypeOK /\ LedgerInv /\ ResumeInv)'
  BY ResumeTypeStep, ResumeLedgerStep, ResumeStep
<1> QED
  BY <1>1, <1>2, PTL DEF ResumeSpec

\* A resumption executes only what its run had not finished, and only what
\* the trigger reaches and something was routed to; what a real run finished is
\* never executed again, and what a dry run finished only after a version of
\* the workflow without the node was resumed.
THEOREM ResumesOnlyTheRest == ResumeSpec => []ResumesTheRest
<1>1. ResumeTypeOK /\ LedgerInv /\ ResumeInv => ResumesTheRest
  <2> SUFFICES ASSUME ResumeTypeOK, LedgerInv, ResumeInv PROVE ResumesTheRest
    OBVIOUS
  <2> USE DEF ResumeTypeOK
  <2>1. ASSUME NEW r \in Resumptions, NEW n \in Nodes, Fired(r, n), ~Lost(n)
        PROVE  /\ Finishes(Original, n) = 0
               /\ n \in wf[Original].nodes =>
                      calls[Original][n] = AttemptLimit(Original, n)
    <3>0. r \in Runs /\ Original \in Runs
      BY ResumeAssumption DEF Resumptions, ResumeAssumption
    <3>1. status[r] \notin NotStarted
      BY <2>1, <3>0 DEF Fired, ResumeInv, ExecutionInv
    <3>2. n \in wf[r].nodes
      <4>1. ValidWorkflow(wf[r]) /\ n \in Reachable(wf[r])
        BY <2>1, <3>0, <3>1 DEF Fired, ResumeInv, ExecutionInv
      <4> QED
        BY <3>0, <4>1, ReachedWithin
    <3>3. ~FinishedFirst(n)
      <4> SUFFICES ASSUME FinishedFirst(n) PROVE FALSE
        OBVIOUS
      <4>1. ~Gone(n)
        BY <2>1, GoneIsLost
      <4> QED
        BY <2>1, <3>1, <3>2, <4>1 DEF ResumeInv, ProbesInv, Fired, NotStarted
    <3>4. status[Original] = "completed"
      BY <3>1 DEF ResumeInv, ProbesInv, RecordsInv, NotStarted
    <3>5. stage[Original][n] \in {"done", "orphaned"}
      BY <3>0, <3>4 DEF ResumeInv, ExecutionInv, IsDone
    <3> QED
      BY <3>0, <3>3, <3>5, FinishCounted DEF FinishedFirst
  <2>2. ASSUME NEW r \in Runs, NEW n \in Nodes, Fired(r, n)
        PROVE  /\ n \in Reachable(wf[r])
               /\ \A e \in Incoming(wf[r], n) : IsDone(r, e.from)
               /\ n \notin wf[r].triggers => Input(r, n) # {}
    <3>1. status[r] \notin NotStarted
      BY <2>2 DEF Fired, ResumeInv, ExecutionInv
    <3>2. n \in Reachable(wf[r])
      BY <2>2, <3>1 DEF Fired, ResumeInv, ExecutionInv
    <3>3. /\ \A e \in Incoming(wf[r], n) : IsDone(r, e.from)
          /\ Incoming(wf[r], n) = {} \/ Input(r, n) # {}
      BY <2>2 DEF ResumeInv, ExecutedInv
    <3>4. n \notin wf[r].triggers => Incoming(wf[r], n) # {}
      BY <3>2, ReachedIsFed
    <3> QED
      BY <3>2, <3>3, <3>4
  <2> QED
    BY <2>1, <2>2 DEF ResumesTheRest, NotRefired, ResumedOnInput, FiredOnInput
<1> QED
  BY <1>1, ResumeCorrect, PTL

\* Resumptions never replace the output of a node that the original run
\* finished; only after a dry run may one on a workflow without the node delete
\* it.
THEOREM RecordsNotLost == ResumeSpec => RecordKept
<1>1. ResumeTypeOK /\ LedgerInv /\ ResumeInv /\ [ResumeNext]_allVars
        => [\A n \in Nodes :
               record[n] = "found" /\ Finishes(Original, n) = 1 =>
                   \/ record'[n] = "found" /\ kept'[n] = kept[n]
                   \/ Lost(n)']_allVars
  <2> SUFFICES ASSUME ResumeTypeOK, LedgerInv, ResumeInv, ResumeNext,
                      NEW n \in Nodes, record[n] = "found", Finishes(Original, n) = 1,
                      ~Lost(n)'
               PROVE  record'[n] = "found" /\ kept'[n] = kept[n]
    OBVIOUS
  <2>1. ASSUME NEW r \in Runs, Save(r)
        PROVE  record'[n] = "found" /\ kept'[n] = kept[n]
    <3>1. saved # {}
      BY DEF ResumeInv, RecordsInv
    <3>2. FinishedFirst(n)
      <4>1. NoFinish(events[Original][n]) => Finishes(Original, n) = 0
        BY FinishesCounted, ResumeAssumption DEF ResumeTypeOK, ResumeAssumption
      <4> QED
        BY <4>1 DEF FinishedFirst
    <3>3. ~Gone(n)'
      <4>1. mode' = mode /\ saved' = saved \cup {r} /\ wf' = wf
        BY <2>1 DEF Save, vars
      <4>2. ASSUME mode[Original] = "run", Gone(n)' PROVE FALSE
        <5>1. ASSUME r # Original PROVE r \in Resumptions /\ r \in loaded
          BY <2>1, <5>1 DEF Save, ResumeInv, ProbesInv, Resumptions
        <5>2. wf[r] = wf[Original]
          BY <4>2, <5>1 DEF ResumeInv, ProbesInv
        <5>3. Original \in saved
          BY <3>1 DEF ResumeInv, RecordsInv
        <5>4. Gone(n)
          BY <4>1, <4>2, <5>2, <5>3 DEF Gone
        <5>5. Lost(n)
          BY <3>2, <5>4, GoneIsLost
        <5> QED
          BY <4>2, <5>5 DEF Lost
      <4>3. mode[Original] \in Modes
        BY ResumeAssumption DEF ResumeTypeOK, TypeOK, ResumeAssumption
      <4> QED
        BY <4>1, <4>2, <4>3 DEF Lost, Gone, Modes
    <3> QED
      BY <2>1, <3>1, <3>2, <3>3, SavedAgain
  <2>2. CASE record' = record /\ kept' = kept
    BY <2>2
  <2> QED
    BY <2>1, <2>2 DEF ResumeNext, resumeVars, Load, Rejoin, HydrateFound,
       HydrateMissing, HydrateCorrupt
<1> QED
  BY <1>1, ResumeCorrect, PTL DEF ResumeSpec, RecordKept
=============================================================================
