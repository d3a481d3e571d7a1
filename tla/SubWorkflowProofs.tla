------------------------- MODULE SubWorkflowProofs -------------------------
(***************************************************************************)
(* Proofs about stored workflows that call each other, for any number of   *)
(* workflows and requests and every depth of the walk and of the nesting:  *)
(* without a race no cycle is stored, a DELETE leaves no reference behind, *)
(* and a run nests as far as the cap, never a workflow in itself, on the   *)
(* credentials that were passed on.                                        *)
(***************************************************************************)
EXTENDS SubWorkflow, WellFoundedInduction, TLAPS

-----------------------------------------------------------------------------
(* The levels of the walk are a recursive function.  What is needed of it   *)
(* is proved from the least counterexample, and so without an induction     *)
(* rule.                                                                    *)

\* Every nonempty set of natural numbers has a least element.
LEMMA LeastNumber ==
    ASSUME NEW T, T \subseteq Nat, T # {}
    PROVE  \E n \in T : \A m \in T : n <= m
<1> DEFINE Less == {p \in Nat \X Nat : p[1] < p[2]}
<1>1. IsWellFoundedOn(Less, Nat)
  BY NatLessThanWellFounded, Zenon DEF OpToRel
<1>2. \E n \in T : \A m \in T : <<m, n>> \notin Less
  BY <1>1, WFMin, Zenon
<1>3. ASSUME NEW m \in Nat, NEW n \in Nat, <<m, n>> \notin Less
      PROVE  n <= m
  BY <1>3
<1> QED
  BY <1>2, <1>3

\* What q knows a set of workflows to refer to, and the first levels of its walk.
Referenced(q, S) == UNION {known[q][i] : i \in S}
LevelsTo(q, n, f) ==
    f = [k \in 0..n |-> IF k = 0 THEN {Id(q)} ELSE Referenced(q, f[k - 1])]

\* One more level.
LEMMA OneMoreLevel ==
    ASSUME NEW q, NEW n \in Nat, NEW f, LevelsTo(q, n, f)
    PROVE  \E g : LevelsTo(q, n + 1, g)
<1> DEFINE g == [k \in 0..(n + 1) |-> IF k = n + 1 THEN Referenced(q, f[n]) ELSE f[k]]
<1>1. \A k \in 0..(n + 1) : g[k] = IF k = 0 THEN {Id(q)} ELSE Referenced(q, g[k - 1])
  <2> TAKE k \in 0..(n + 1)
  <2>1. \A j \in 0..n : f[j] = IF j = 0 THEN {Id(q)} ELSE Referenced(q, f[j - 1])
    BY DEF LevelsTo
  <2>2. CASE k = n + 1
    <3>1. g[k] = Referenced(q, f[n]) /\ g[k - 1] = f[n]
      BY <2>2
    <3> QED
      BY <2>2, <3>1
  <2>3. CASE k \in 0..n
    <3>1. g[k] = f[k] /\ (k # 0 => g[k - 1] = f[k - 1])
      BY <2>3
    <3> HIDE DEF g
    <3> QED
      BY <2>1, <2>3, <3>1
  <2> QED
    BY <2>2, <2>3
<1>2. g = [k \in 0..(n + 1) |-> g[k]]
  OBVIOUS
<1> HIDE DEF g
<1>3. g = [k \in 0..(n + 1) |-> IF k = 0 THEN {Id(q)} ELSE Referenced(q, g[k - 1])]
  BY <1>1, <1>2, Zenon
<1> QED
  BY <1>3 DEF LevelsTo

\* The equation of the levels has a solution for every depth.
LEMMA LevelsExist == \A q : \A n \in Nat : \E f : LevelsTo(q, n, f)
<1> SUFFICES ASSUME NEW q PROVE \A n \in Nat : \E f : LevelsTo(q, n, f)
  OBVIOUS
<1> DEFINE Missing == {n \in Nat : ~ \E f : LevelsTo(q, n, f)}
<1>1. 0 \notin Missing
  <2> DEFINE f == [k \in 0..0 |-> {Id(q)}]
  <2>1. LevelsTo(q, 0, f)
    BY DEF LevelsTo
  <2> QED
    BY <2>1
<1>2. ASSUME Missing # {} PROVE FALSE
  <2>1. PICK n \in Missing : \A m \in Missing : n <= m
    BY <1>2, LeastNumber
  <2>2. n - 1 \in Nat /\ n - 1 \notin Missing
    BY <1>1, <2>1
  <2>3. \E f : LevelsTo(q, (n - 1) + 1, f)
    BY <2>2, OneMoreLevel
  <2> QED
    BY <2>1, <2>3
<1> QED
  BY <1>2

\* The walk begins at its root, and each level holds the references of the one
\* before (check_sub_workflow_cycle).
LEMMA LevelUnfolds ==
    ASSUME NEW q
    PROVE  \A k \in 0..MaxDepth :
               Level(q)[k] = IF k = 0 THEN {Id(q)} ELSE Referenced(q, Level(q)[k - 1])
<1>1. \E f : LevelsTo(q, MaxDepth, f)
  BY LevelsExist, WorkflowRefsAssumption DEF WorkflowRefsAssumption
<1>2. Level(q) = CHOOSE f : LevelsTo(q, MaxDepth, f)
  BY Zenon DEF Level, LevelsTo, Referenced
<1>3. LevelsTo(q, MaxDepth, Level(q))
  BY <1>1, <1>2, Zenon
<1> QED
  BY <1>3 DEF LevelsTo

-----------------------------------------------------------------------------
(* Requests. *)

\* A relation with a way out of every nonempty set of workflows.
AcyclicOver(R) == \A S \in (SUBSET Ids) \ {{}} : \E i \in S : R[i] \cap S = {}

\* No two PUTs were in flight together.
Unraced == \A q \in stale : pc[q] # "saved"

\* What a walk knows: its own references, and of the others no less than is
\* stored, as long as no other PUT was saved.
WalkKept ==
    \A q \in Requests : pc[q] = "walking" =>
        /\ Id(q) \in read[q] /\ known[q][Id(q)] = op[q].targets
        /\ q \notin stale => \A i \in read[q] \ {Id(q)} : refs[i] \subseteq known[q][i]

\* What a DELETE has checked still holds, as long as no PUT was saved.
CheckKept ==
    \A q \in Requests \ stale : pc[q] = "checked" =>
        \A i \in Ids \ {Id(q)} : Id(q) \notin refs[i]

\* A request that has not arrived has read nothing.
IdleKept == \A q \in Requests : pc[q] = "idle" => read[q] = {}

RefsInv == TypeOK /\ IdleKept /\ WalkKept /\ CheckKept /\ AcyclicUnlessRaced /\ IndexOfStored

\* Requests name an id, and targets that are ids.
LEMMA OpTypes ==
    ASSUME TypeOK, NEW q \in Requests
    PROVE  Id(q) \in Ids /\ op[q].targets \subseteq Ids
BY DEF TypeOK, Ops, Id

\* A walk that has read all it could reach and found no cycle knows a way out of
\* every set of workflows that it has been to: take the last level with a member
\* of the set.
LEMMA WalkIsAcyclic ==
    ASSUME NEW q, ~Cyclic(q), Unread(q) = {},
           NEW S, S \cap UNION {Level(q)[k] : k \in 0..MaxDepth} # {}
    PROVE  \E i \in S \cap read[q] : known[q][i] \cap S = {}
<1> DEFINE Below == {k \in 0..MaxDepth : \A j \in k..MaxDepth : Level(q)[j] \cap S = {}}
<1>1. MaxDepth \in Below /\ MaxDepth \in Nat
  BY WorkflowRefsAssumption DEF Cyclic, WorkflowRefsAssumption
<1>2. PICK k \in Below : \A j \in Below : k <= j
  <2>1. Below \subseteq Nat /\ Below # {}
    BY <1>1
  <2> HIDE DEF Below
  <2> QED
    BY <2>1, LeastNumber
<1>3. k \in 1..MaxDepth
  <2>1. \E j \in 0..MaxDepth : Level(q)[j] \cap S # {}
    OBVIOUS
  <2>2. 0 \notin Below
    BY <2>1
  <2>3. k \in 0..MaxDepth /\ k # 0
    BY <1>2, <2>2
  <2> HIDE DEF Below
  <2> QED
    BY <1>1, <2>3
<1>4. k - 1 \in 0..MaxDepth /\ k - 1 \notin Below
  <2>1. k - 1 \in 0..MaxDepth /\ ~(k <= k - 1)
    BY <1>1, <1>3
  <2> QED
    BY <1>2, <2>1
<1>5. Level(q)[k - 1] \cap S # {}
  <2>1. \A j \in (k - 1)..MaxDepth : j = k - 1 \/ j \in k..MaxDepth
    BY <1>1, <1>3
  <2> QED
    BY <1>2, <1>4, <2>1
<1>6. PICK i \in S : i \in Level(q)[k - 1]
  BY <1>5
<1>7. i \in read[q]
  BY <1>4, <1>6 DEF Unread
<1>8. known[q][i] \subseteq Level(q)[k]
  <2>1. k \in 0..MaxDepth /\ k # 0
    BY <1>1, <1>3
  <2>2. Level(q)[k] = Referenced(q, Level(q)[k - 1])
    BY <2>1, LevelUnfolds, Zenon
  <2> QED
    BY <1>6, <2>2 DEF Referenced
<1>9. Level(q)[k] \cap S = {}
  BY <1>1, <1>2, <1>3
<1> QED
  BY <1>7, <1>8, <1>9

\* What such a walk reaches it has reached whole.
LEMMA RootReached ==
    ASSUME NEW q
    PROVE  Id(q) \in UNION {Level(q)[k] : k \in 0..MaxDepth}
<1>1. 0 \in 0..MaxDepth
  BY WorkflowRefsAssumption DEF WorkflowRefsAssumption
<1>2. Level(q)[0] = {Id(q)}
  BY <1>1, LevelUnfolds
<1> QED
  BY <1>1, <1>2

\* The save of a PUT that no other PUT overlapped keeps the stored workflows
\* acyclic, although the walk read them one at a time.
LEMMA SaveKeepsAcyclic ==
    ASSUME RefsInv, NEW q \in Requests \ stale, Save(q), AcyclicOver(refs)
    PROVE  AcyclicOver(refs')
<1> SUFFICES ASSUME NEW S \in (SUBSET Ids) \ {{}}
             PROVE  \E i \in S : refs'[i] \cap S = {}
  BY DEF AcyclicOver
<1>1. Id(q) \in Ids /\ refs \in [Ids -> SUBSET Ids]
  BY OpTypes DEF RefsInv, TypeOK
<1>2. \A i \in read[q] : i \in Ids => refs'[i] \subseteq known[q][i]
  BY <1>1 DEF Save, RefsInv, WalkKept
<1>3. CASE S \cap UNION {Level(q)[k] : k \in 0..MaxDepth} # {}
  <2>1. PICK i \in S \cap read[q] : known[q][i] \cap S = {}
    BY <1>3, WalkIsAcyclic DEF Save
  <2> QED
    BY <1>2, <2>1
<1>4. CASE S \cap UNION {Level(q)[k] : k \in 0..MaxDepth} = {}
  <2>1. Id(q) \notin S
    BY <1>4, RootReached
  <2>2. \A i \in S : refs'[i] = refs[i]
    BY <1>1, <2>1 DEF Save
  <2> QED
    BY <2>2 DEF AcyclicOver
<1> QED
  BY <1>3, <1>4

\* Races are not forgotten, and an answer is not taken back.
LEMMA RacesRemain ==
    ASSUME TypeOK, [Next]_vars
    PROVE  /\ stale \subseteq stale'
           /\ \A q \in Requests : pc[q] = "saved" => pc'[q] = "saved"
<1>1. ASSUME NEW q \in Requests, Arrive(q) \/ Handle(q) \/ Drop(q)
      PROVE  stale \subseteq stale' /\ \A p \in Requests : pc[p] = "saved" => pc'[p] = "saved"
  BY <1>1 DEF TypeOK, Arrive, Handle, Read, Refuse, Save, Check, Remove, Drop, Goto, Awaiting
<1> QED
  BY <1>1 DEF Next, vars

\* Requests keep the type of the tables, their index and what they know.
LEMMA RequestsTyped == TypeOK /\ IdleKept /\ [Next]_vars => TypeOK' /\ IdleKept'
<1> SUFFICES ASSUME TypeOK, IdleKept, [Next]_vars PROVE TypeOK' /\ IdleKept'
  OBVIOUS
<1>1. ASSUME NEW q \in Requests, Arrive(q) PROVE TypeOK'
  <2>1. pc' \in [Requests -> {"idle"} \cup Awaiting \cup Answered]
    BY <1>1 DEF TypeOK, Arrive, Goto, Awaiting
  <2>2. read[q] = {} /\ \A i \in Ids : known[q][i] = {}
    BY <1>1 DEF TypeOK, Arrive, IdleKept
  <2>3. /\ read' \in [Requests -> SUBSET Ids]
        /\ known' \in [Requests -> [Ids -> SUBSET Ids]]
    <3>1. CASE op[q].kind = "put"
      <4>1. {Id(q)} \subseteq Ids /\ [known[q] EXCEPT ![Id(q)] = op[q].targets] \in [Ids -> SUBSET Ids]
        BY OpTypes DEF TypeOK
      <4>2. known' = [known EXCEPT ![q] = [known[q] EXCEPT ![Id(q)] = op[q].targets]]
        BY <1>1, <3>1 DEF Arrive, TypeOK
      <4> QED
        BY <1>1, <3>1, <4>1, <4>2 DEF TypeOK, Arrive
    <3> QED
      BY <1>1, <3>1 DEF TypeOK, Arrive
  <2>4. \A i \in Ids : i \notin read'[q] => known'[q][i] = {}
    BY <1>1, <2>2, OpTypes DEF TypeOK, Arrive
  <2>5. \A p \in Requests \ {q} : read'[p] = read[p] /\ known'[p] = known[p]
    BY <1>1 DEF TypeOK, Arrive
  <2> QED
    BY <1>1, <2>1, <2>3, <2>4, <2>5 DEF TypeOK, Arrive
<1>2. ASSUME NEW q \in Requests, Handle(q) PROVE TypeOK'
  <2>1. CASE \E i \in Ids : Read(q, i)
    BY <2>1 DEF TypeOK, Read
  <2>2. CASE Save(q)
    <3>1. stored' \subseteq Ids /\ refs' \in [Ids -> SUBSET Ids] /\ stale' \subseteq Requests
      BY <2>2, OpTypes DEF TypeOK, Save
    <3>2. pc' \in [Requests -> {"idle"} \cup Awaiting \cup Answered]
      BY <2>2 DEF TypeOK, Save, Goto, Answered
    <3> QED
      BY <2>2, <3>1, <3>2 DEF TypeOK, Save
  <2>3. CASE Refuse(q) \/ Check(q) \/ Remove(q)
    BY <2>3, OpTypes DEF TypeOK, Refuse, Check, Remove, Goto, Awaiting, Answered
  <2> QED
    BY <1>2, <2>1, <2>2, <2>3 DEF Handle
<1>3. ASSUME NEW q \in Requests, Drop(q) PROVE TypeOK'
  BY <1>3 DEF TypeOK, Drop, Goto, Answered
<1>4. CASE UNCHANGED vars
  BY <1>4 DEF TypeOK, IdleKept, vars
<1>5. IdleKept'
  <2>1. ASSUME NEW q \in Requests, Arrive(q) \/ Handle(q) \/ Drop(q) PROVE IdleKept'
    <3>1. \A p \in Requests : pc'[p] = "idle" => pc[p] = "idle" /\ read'[p] = read[p]
      BY <2>1 DEF TypeOK, Arrive, Handle, Read, Refuse, Save, Check, Remove, Drop, Goto
    <3> QED
      BY <3>1 DEF IdleKept
  <2>2. CASE UNCHANGED vars
    BY <2>2 DEF vars, IdleKept
  <2> QED
    BY <2>1, <2>2 DEF Next
<1> QED
  BY <1>1, <1>2, <1>3, <1>4, <1>5 DEF Next

\* Each statement of a request keeps the invariant.
LEMMA RequestsKeep == RefsInv /\ [Next]_vars => RefsInv'
<1> SUFFICES ASSUME RefsInv, [Next]_vars PROVE RefsInv'
  OBVIOUS
<1> USE DEF RefsInv
<1>t. TypeOK /\ TypeOK' /\ IdleKept'
  BY RequestsTyped
<1>r. Unraced' => Unraced
  BY RacesRemain DEF Unraced, TypeOK
<1>a. AcyclicUnlessRaced <=> (Unraced => AcyclicOver(refs))
  BY DEF AcyclicUnlessRaced, Unraced, Acyclic, AcyclicOver
<1>b. AcyclicUnlessRaced' <=> (Unraced' => AcyclicOver(refs'))
  BY DEF AcyclicUnlessRaced, Unraced, Acyclic, AcyclicOver
<1>1. ASSUME NEW q \in Requests, Arrive(q) PROVE RefsInv'
  <2>1. WalkKept'
    BY <1>t, <1>1, OpTypes DEF WalkKept, Arrive, Goto, TypeOK, Ops, Id
  <2>2. CheckKept'
    BY <1>t, <1>1 DEF CheckKept, Arrive, Goto, TypeOK, Id
  <2>3. AcyclicUnlessRaced' /\ IndexOfStored'
    BY <1>a, <1>b, <1>r, <1>1 DEF Arrive, IndexOfStored
  <2> QED
    BY <1>t, <2>1, <2>2, <2>3
<1>2. ASSUME NEW q \in Requests, Handle(q) PROVE RefsInv'
  <2>1. ASSUME NEW i \in Ids, Read(q, i) PROVE RefsInv'
    <3>1. WalkKept'
      <4>1. i \notin read[q]
        BY <2>1 DEF Read, Unread
      <4> QED
        BY <1>t, <2>1, <4>1 DEF WalkKept, Read, TypeOK, Id
    <3>2. CheckKept'
      BY <2>1 DEF CheckKept, Read, Id
    <3>3. AcyclicUnlessRaced' /\ IndexOfStored'
      BY <1>a, <1>b, <1>r, <2>1 DEF Read, IndexOfStored
    <3> QED
      BY <1>t, <3>1, <3>2, <3>3
  <2>2. CASE Save(q)
    <3>1. WalkKept'
      BY <1>t, <2>2 DEF WalkKept, Save, Goto, TypeOK, Id, Awaiting
    <3>2. CheckKept'
      BY <1>t, <2>2 DEF CheckKept, Save, Goto, TypeOK, Id, Awaiting
    <3>3. AcyclicUnlessRaced'
      <4> SUFFICES ASSUME Unraced' PROVE AcyclicOver(refs')
        BY <1>b
      <4>1. q \notin stale
        BY <1>t, <2>2, RacesRemain DEF Unraced, Save, Goto, TypeOK
      <4> QED
        BY <1>a, <1>r, <2>2, <4>1, SaveKeepsAcyclic
    <3>4. IndexOfStored'
      BY <1>t, <2>2, OpTypes DEF IndexOfStored, Save, TypeOK
    <3> QED
      BY <1>t, <3>1, <3>2, <3>3, <3>4
  <2>3. CASE Remove(q)
    <3>1. \A i \in Ids : refs'[i] \subseteq refs[i]
      BY <1>t, <2>3 DEF Remove, TypeOK
    <3>2. WalkKept'
      BY <1>t, <2>3, <3>1 DEF WalkKept, Remove, Goto, TypeOK, Id
    <3>3. CheckKept'
      BY <1>t, <2>3, <3>1 DEF CheckKept, Remove, Goto, TypeOK, Id
    <3>4. AcyclicUnlessRaced'
      BY <1>a, <1>b, <1>r, <3>1 DEF AcyclicOver
    <3>5. IndexOfStored'
      BY <1>t, <2>3 DEF IndexOfStored, Remove, TypeOK, Id
    <3> QED
      BY <1>t, <3>2, <3>3, <3>4, <3>5
  <2>4. CASE Refuse(q)
    BY <1>t, <1>a, <1>b, <1>r, <2>4
       DEF Refuse, WalkKept, CheckKept, IndexOfStored, Goto, TypeOK, Id
  <2>5. CASE Check(q)
    BY <1>t, <1>a, <1>b, <1>r, <2>5
       DEF Check, Referrers, WalkKept, CheckKept, IndexOfStored, Goto, TypeOK, Id
  <2> QED
    BY <1>2, <2>1, <2>2, <2>3, <2>4, <2>5 DEF Handle
<1>3. ASSUME NEW q \in Requests, Drop(q) PROVE RefsInv'
  BY <1>t, <1>a, <1>b, <1>r, <1>3
     DEF Drop, WalkKept, CheckKept, IndexOfStored, Goto, TypeOK, Id
<1>4. CASE UNCHANGED vars
  BY <1>t, <1>a, <1>b, <1>r, <1>4 DEF vars, WalkKept, CheckKept, IndexOfStored, Id
<1> QED
  BY <1>1, <1>2, <1>3, <1>4 DEF Next

\* Nothing is stored at first.
LEMMA RequestsStart == Init => RefsInv
<1> SUFFICES ASSUME Init PROVE RefsInv
  OBVIOUS
<1>1. TypeOK
  BY DEF Init, TypeOK, Nothing
<1>2. IdleKept /\ WalkKept /\ CheckKept
  BY DEF Init, IdleKept, WalkKept, CheckKept
<1>3. AcyclicUnlessRaced /\ IndexOfStored
  BY DEF Init, AcyclicUnlessRaced, Acyclic, IndexOfStored, Nothing
<1> QED
  BY <1>1, <1>2, <1>3 DEF RefsInv

\* Workflows that are stored without a race never call each other in a circle,
\* although each PUT walks over what others may change, and the index names only
\* what is stored (check_sub_workflow_cycle, save_workflow, delete_workflow).
THEOREM ReferencesKept == Spec => []ReferencesSound
<1>1. Spec => []RefsInv
  BY RequestsStart, RequestsKeep, PTL DEF Spec
<1>2. RefsInv => ReferencesSound
  BY DEF RefsInv, ReferencesSound
<1> QED
  BY <1>1, <1>2, PTL

\* A DELETE that no PUT overlapped leaves no reference to the workflow behind.
THEOREM NothingDangles == Spec => DeletesUnreferenced
<1>1. Spec => []RefsInv
  BY RequestsStart, RequestsKeep, PTL DEF Spec
<1>2. RefsInv /\ [Next]_vars =>
        [\A q \in Requests \ stale : pc[q] = "checked" /\ pc'[q] = "deleted" =>
            \A i \in Ids \ {Id(q)} : Id(q) \notin refs[i]]_vars
  BY DEF RefsInv, CheckKept
<1> QED
  BY <1>1, <1>2, PTL DEF Spec, DeletesUnreferenced

-----------------------------------------------------------------------------
(* Nested runs. *)

\* A frame has type Frame; the outer ones execute the node that called the next.
FrameType == [id : Ids, inline : BOOLEAN, todo : SUBSET Ids, now : SUBSET Ids,
              failures : 0..(Attempts - 1), creds : BOOLEAN]

\* The stack of engines: each but the innermost executes one node, and the next
\* runs either the workflow that the node calls or, with the same id, the inline
\* workflow that it holds; credentials go down only with the calls that opted in.
StackKept ==
    /\ frames \in Seq(FrameType)
    /\ \A k \in 1..(Len(frames) - 1) : \E t \in frames[k].todo :
          /\ frames[k].now = {t}
          /\ \/ frames[k + 1].id = t /\ ~frames[k + 1].inline
             \/ /\ frames[k + 1].id = frames[k].id /\ frames[k + 1].inline
                /\ ~frames[k].inline
    /\ error => run = "running"

\* Since nothing was saved, the run follows references that were stored together,
\* without a cycle, when it began; a DELETE may have removed some since.
RunFollows ==
    run = "running" /\ ~edited /\ Unraced =>
        \E R \in [Ids -> SUBSET Ids] :
            /\ AcyclicOver(R)
            /\ \A i \in Ids : refs[i] \subseteq R[i]
            /\ \A k \in 1..Len(frames) : frames[k].todo \subseteq R[frames[k].id]

NestingInv ==
    RefsInv /\ SubTypeOK /\ StackKept /\ RunFollows /\ DepthBounded /\ CredentialsAsOptedIn

\* Two engines of one run on stored workflows run different ones: otherwise the
\* workflows between them would be a set that no reference leaves.
LEMMA NoSelfNesting ==
    ASSUME NestingInv PROVE NoRunInsideItself
<1> SUFFICES ASSUME ~edited, Unraced,
                    NEW j \in DOMAIN frames, NEW k \in DOMAIN frames,
                    j < k, ~frames[j].inline, ~frames[k].inline,
                    frames[j].id = frames[k].id
             PROVE  FALSE
  BY DEF NoRunInsideItself, Unraced
<1>1. /\ frames \in Seq(FrameType) /\ DOMAIN frames = 1..Len(frames) /\ Len(frames) \in Nat
      /\ run = "running"
  BY DEF NestingInv, StackKept, SubTypeOK
<1>2. PICK R \in [Ids -> SUBSET Ids] :
          /\ AcyclicOver(R)
          /\ \A m \in 1..Len(frames) : frames[m].todo \subseteq R[frames[m].id]
  BY <1>1 DEF NestingInv, RunFollows
<1> DEFINE Path == {frames[m].id : m \in j..k}
<1>3. Path \in (SUBSET Ids) \ {{}}
  <2>1. ASSUME NEW m \in j..k PROVE frames[m].id \in Ids
    <3>1. m \in 1..Len(frames)
      BY <1>1
    <3>2. frames[m] \in FrameType
      BY <1>1, <3>1
    <3> QED
      BY <3>2 DEF FrameType
  <2>2. frames[j].id \in Path
    BY <1>1
  <2> QED
    BY <2>1, <2>2
<1>4. ASSUME NEW m \in j..(k - 1)
      PROVE  R[frames[m].id] \cap Path # {}
  <2>1. m \in 1..(Len(frames) - 1) /\ m + 1 \in j..k /\ m \in 1..Len(frames)
    BY <1>1
  <2>2. PICK t \in frames[m].todo :
           \/ frames[m + 1].id = t /\ ~frames[m + 1].inline
           \/ /\ frames[m + 1].id = frames[m].id /\ frames[m + 1].inline
              /\ ~frames[m].inline
    BY <2>1 DEF NestingInv, StackKept
  <2>3. CASE frames[m + 1].id = t
    <3>1. t \in R[frames[m].id] /\ t \in Path
      BY <1>2, <2>1, <2>2, <2>3
    <3> QED
      BY <3>1
  <2>4. CASE frames[m + 1].id = frames[m].id /\ frames[m + 1].inline
    <3>1. m + 1 # k
      BY <2>4
    <3>2. m + 1 \in 1..(Len(frames) - 1) /\ (m + 1) + 1 \in j..k /\ m + 1 \in 1..Len(frames)
      BY <1>1, <2>1, <3>1
    <3>3. PICK u \in frames[m + 1].todo : frames[(m + 1) + 1].id = u
      BY <2>4, <3>2 DEF NestingInv, StackKept
    <3>4. u \in R[frames[m].id] /\ u \in Path
      BY <1>2, <2>4, <3>2, <3>3
    <3> QED
      BY <3>4
  <2> QED
    BY <2>2, <2>3, <2>4
<1>5. ASSUME NEW i \in Path PROVE R[i] \cap Path # {}
  <2>1. PICK m \in j..k : i = frames[m].id
    OBVIOUS
  <2>2. CASE m = k
    <3>1. j \in j..(k - 1)
      BY <1>1
    <3> QED
      BY <1>4, <2>1, <2>2, <3>1
  <2>3. CASE m # k
    <3>1. m \in j..(k - 1)
      BY <1>1, <2>3
    <3> QED
      BY <1>4, <2>1, <3>1
  <2> QED
    BY <2>2, <2>3
<1> QED
  BY <1>2, <1>3, <1>5 DEF AcyclicOver

\* The requests go on while a run does.
LEMMA RunIgnoresRequests ==
    ASSUME NestingInv, Next /\ Meanwhile
    PROVE  NestingInv'
<1>1. RefsInv' /\ TypeOK
  BY RequestsKeep DEF NestingInv, RefsInv
<1>2. UNCHANGED <<run, frames, error>>
  BY DEF Meanwhile
<1>3. SubTypeOK' /\ StackKept' /\ DepthBounded' /\ CredentialsAsOptedIn'
  <2>1. edited \in BOOLEAN /\ edited' \in BOOLEAN
    BY DEF NestingInv, SubTypeOK, Meanwhile
  <2> QED
    BY <1>2, <2>1 DEF NestingInv, SubTypeOK, StackKept, DepthBounded, CredentialsAsOptedIn
<1>4. RunFollows'
  <2> SUFFICES ASSUME run = "running", ~edited', Unraced'
               PROVE  \E R \in [Ids -> SUBSET Ids] :
                          /\ AcyclicOver(R)
                          /\ \A i \in Ids : refs'[i] \subseteq R[i]
                          /\ \A k \in 1..Len(frames) : frames[k].todo \subseteq R[frames[k].id]
    BY <1>2 DEF RunFollows
  <2>1. ~edited /\ \A q \in Requests : pc[q] = "saved" \/ pc'[q] # "saved"
    BY DEF Meanwhile, NestingInv, SubTypeOK
  <2>2. Unraced
    BY <1>1, RacesRemain DEF Unraced, TypeOK
  <2>3. \A i \in Ids : refs'[i] \subseteq refs[i]
    BY <1>1, <2>1 DEF Next, Arrive, Handle, Read, Refuse, Save, Check, Remove, Drop, Goto,
                      TypeOK
  <2> QED
    BY <2>1, <2>2, <2>3 DEF NestingInv, RunFollows
<1> QED
  BY <1>1, <1>3, <1>4 DEF NestingInv

\* A run starts on what is stored.
LEMMA StartKeeps ==
    ASSUME NestingInv, NEW i \in Ids, StartRun(i)
    PROVE  NestingInv'
<1> DEFINE f == Frame(i, FALSE, refs[i], TRUE)
<1>1. /\ TypeOK /\ RefsInv' /\ Unraced' = Unraced /\ refs' = refs
  BY DEF NestingInv, RefsInv, StartRun, vars, TypeOK, IdleKept, WalkKept, CheckKept,
         AcyclicUnlessRaced, IndexOfStored, Acyclic, Id, Unraced
<1>2. f \in FrameType /\ f.now \subseteq f.todo /\ f.todo = refs[i] /\ f.id = i
  BY <1>1, SubWorkflowAssumption DEF Frame, FrameType, TypeOK, SubWorkflowAssumption
<1>3. frames' = <<f>> /\ run' = "running" /\ error' = error /\ edited' = FALSE
  BY DEF StartRun
<1> HIDE DEF f
<1>4. frames' \in Seq(FrameType) /\ Len(frames') = 1 /\ frames'[1] = f /\ DOMAIN frames' = {1}
  BY <1>2, <1>3
<1>5. SubTypeOK'
  <2>1. frames' # <<>>
    BY <1>4
  <2> QED
    BY <1>2, <1>3, <1>4, <2>1 DEF SubTypeOK, NestingInv, FrameType
<1>6. StackKept' /\ DepthBounded' /\ CredentialsAsOptedIn'
  BY <1>3, <1>4, SubWorkflowAssumption
     DEF StackKept, DepthBounded, CredentialsAsOptedIn, SubWorkflowAssumption
<1>7. RunFollows'
  <2> SUFFICES ASSUME Unraced
               PROVE  \E R \in [Ids -> SUBSET Ids] :
                          /\ AcyclicOver(R)
                          /\ \A h \in Ids : refs[h] \subseteq R[h]
                          /\ \A k \in 1..1 : f.todo \subseteq R[f.id]
    BY <1>1, <1>4 DEF RunFollows
  <2>1. AcyclicOver(refs) /\ refs \in [Ids -> SUBSET Ids]
    BY <1>1 DEF NestingInv, RefsInv, AcyclicUnlessRaced, Unraced, Acyclic, AcyclicOver, TypeOK
  <2> QED
    BY <1>2, <2>1
<1> QED
  BY <1>1, <1>5, <1>6, <1>7 DEF NestingInv

\* What the engines' steps leave alone.
LEMMA RequestsUntouched ==
    ASSUME NestingInv, UNCHANGED vars
    PROVE  RefsInv' /\ (Unraced' <=> Unraced) /\ refs' = refs /\ refs \in [Ids -> SUBSET Ids]
BY DEF NestingInv, RefsInv, vars, TypeOK, IdleKept, WalkKept, CheckKept,
       AcyclicUnlessRaced, IndexOfStored, Acyclic, Id, Unraced

\* The stack of a running run.
LEMMA StackOfRun ==
    ASSUME NestingInv, run = "running"
    PROVE  /\ frames \in Seq(FrameType) /\ Len(frames) \in Nat \ {0}
           /\ DOMAIN frames = 1..Len(frames)
           /\ \A k \in 1..Len(frames) : frames[k] \in FrameType
           /\ Innermost \in FrameType /\ Innermost.now \subseteq Innermost.todo
<1>1. frames \in Seq(FrameType) /\ frames # <<>>
  BY DEF NestingInv, SubTypeOK, StackKept
<1>2. Len(frames) \in Nat \ {0} /\ DOMAIN frames = 1..Len(frames)
  BY <1>1
<1> QED
  BY <1>1, <1>2 DEF NestingInv, SubTypeOK, Innermost

\* Engines end and nodes leave: a stack that is cut to its first m frames, of
\* which the last has no more left to do, is in order.
LEMMA CutKeeps ==
    ASSUME NestingInv, run = "running", NEW m \in 1..Len(frames), NEW g \in FrameType,
           g.id = frames[m].id, g.inline = frames[m].inline, g.creds = frames[m].creds,
           g.now \subseteq g.todo, g.todo \subseteq frames[m].todo,
           frames' \in Seq(FrameType), Len(frames') = m, frames'[m] = g,
           \A k \in 1..(m - 1) : frames'[k] = frames[k],
           run' = run, error' \in BOOLEAN, UNCHANGED <<vars, edited>>
    PROVE  NestingInv'
<1>1. /\ Len(frames) \in Nat \ {0} /\ DOMAIN frames = 1..Len(frames)
      /\ DOMAIN frames' = 1..m
  BY StackOfRun
<1>2. ASSUME NEW k \in 1..m
      PROVE  /\ k \in 1..Len(frames) /\ (k # m => frames'[k] = frames[k])
             /\ frames'[k].id = frames[k].id /\ frames'[k].inline = frames[k].inline
             /\ frames'[k].creds = frames[k].creds
             /\ frames'[k].todo \subseteq frames[k].todo
             /\ frames'[k].now \subseteq frames'[k].todo
  <2>1. CASE k = m
    BY <1>1, <2>1
  <2>2. CASE k # m
    <3>1. k \in 1..(m - 1) /\ k \in DOMAIN frames
      BY <1>1, <2>2
    <3> QED
      BY <1>1, <2>2, <3>1 DEF NestingInv, SubTypeOK
  <2> QED
    BY <2>1, <2>2
<1>3. SubTypeOK'
  <2>1. \A k \in 1..m : frames'[k] \in FrameType
    BY <1>1
  <2> QED
    BY <1>1, <1>2, <2>1 DEF NestingInv, SubTypeOK, FrameType
<1>4. StackKept'
  <2>1. ASSUME NEW k \in 1..(m - 1)
        PROVE  k \in 1..(Len(frames) - 1) /\ k \in 1..m /\ k + 1 \in 1..m /\ k # m
    BY <1>1, <2>1
  <2>2. ASSUME NEW k \in 1..(m - 1)
        PROVE  \E t \in frames'[k].todo :
                 /\ frames'[k].now = {t}
                 /\ \/ frames'[k + 1].id = t /\ ~frames'[k + 1].inline
                    \/ /\ frames'[k + 1].id = frames'[k].id /\ frames'[k + 1].inline
                       /\ ~frames'[k].inline
    <3>1. PICK t \in frames[k].todo :
                 /\ frames[k].now = {t}
                 /\ \/ frames[k + 1].id = t /\ ~frames[k + 1].inline
                    \/ /\ frames[k + 1].id = frames[k].id /\ frames[k + 1].inline
                       /\ ~frames[k].inline
      BY <2>1 DEF NestingInv, StackKept
    <3>2. frames'[k] = frames[k] /\ frames'[k + 1].id = frames[k + 1].id
          /\ frames'[k + 1].inline = frames[k + 1].inline
      BY <1>2, <2>1
    <3> QED
      BY <3>1, <3>2
  <2> QED
    BY <2>2 DEF NestingInv, StackKept
<1>5. RunFollows'
  <2> SUFFICES ASSUME ~edited, Unraced
               PROVE  \E R \in [Ids -> SUBSET Ids] :
                          /\ AcyclicOver(R)
                          /\ \A i \in Ids : refs[i] \subseteq R[i]
                          /\ \A k \in 1..m : frames'[k].todo \subseteq R[frames'[k].id]
    BY RequestsUntouched DEF RunFollows
  <2> QED
    BY <1>2 DEF NestingInv, RunFollows
<1>6. DepthBounded'
  BY <1>1, SubWorkflowAssumption DEF NestingInv, DepthBounded, SubWorkflowAssumption
<1>7. CredentialsAsOptedIn'
  <2>1. ASSUME NEW k \in 2..m, NEW j \in 1..(k - 1), frames'[k].creds, NEW t \in frames'[j].now
        PROVE  <<frames'[j].id, t>> \in OptedIn
    <3>1. /\ k \in 2..Len(frames) /\ k \in 1..m /\ j \in 1..m /\ j # m
      BY <1>1
    <3>2. frames[k].creds /\ frames'[j] = frames[j]
      BY <1>2, <2>1, <3>1
    <3> QED
      BY <2>1, <3>1, <3>2 DEF NestingInv, CredentialsAsOptedIn
  <2> QED
    BY <2>1 DEF CredentialsAsOptedIn
<1> QED
  BY <1>3, <1>4, <1>5, <1>6, <1>7, RequestsUntouched DEF NestingInv

\* The outermost engine ends, and the run with it.
LEMMA EndKeeps ==
    ASSUME NestingInv, frames' = <<>>, run' \in {"finished", "failed"},
           ~error', error' \in BOOLEAN, UNCHANGED <<vars, edited>>
    PROVE  NestingInv'
<1>1. Len(<<>>) = 0 /\ DOMAIN <<>> = {} /\ <<>> \in Seq(FrameType)
  OBVIOUS
<1>2. SubTypeOK'
  BY <1>1 DEF NestingInv, SubTypeOK
<1>3. StackKept' /\ DepthBounded'
  BY <1>1, SubWorkflowAssumption DEF StackKept, DepthBounded, SubWorkflowAssumption
<1>4. RunFollows' /\ CredentialsAsOptedIn'
  BY <1>1 DEF RunFollows, CredentialsAsOptedIn
<1> QED
  BY <1>2, <1>3, <1>4, RequestsUntouched DEF NestingInv

\* The innermost engine goes on with the same workflow and nothing new to do.
LEMMA InnermostKeeps ==
    ASSUME NestingInv, run = "running", NEW g \in FrameType,
           g.id = Innermost.id, g.inline = Innermost.inline, g.creds = Innermost.creds,
           g.now \subseteq g.todo, g.todo \subseteq Innermost.todo,
           frames' = Inner(g),
           run' = run, error' \in BOOLEAN, UNCHANGED <<vars, edited>>
    PROVE  NestingInv'
<1> DEFINE m == Len(frames)
<1>1. /\ frames \in Seq(FrameType) /\ m \in 1..Len(frames) /\ Innermost = frames[m]
  BY StackOfRun DEF Innermost
<1>2. /\ frames' \in Seq(FrameType) /\ Len(frames') = m /\ frames'[m] = g
      /\ \A k \in 1..(m - 1) : frames'[k] = frames[k]
  BY <1>1 DEF Inner
<1> HIDE DEF m
<1> QED
  BY <1>1, <1>2, CutKeeps

\* The engines below the innermost one.
LEMMA OuterStack ==
    ASSUME NestingInv, run = "running", Len(frames) # 1
    PROVE  /\ Outer \in Seq(FrameType) /\ Len(Outer) = Len(frames) - 1
           /\ Len(frames) - 1 \in 1..Len(frames)
           /\ \A k \in 1..(Len(frames) - 1) : Outer[k] = frames[k]
BY StackOfRun DEF Outer

\* A sub-engine is entered one level down.
LEMMA CallKeeps ==
    ASSUME NestingInv, NEW t \in Ids, Call(t)
    PROVE  NestingInv'
<1>0. PICK n \in Nat \ {0} : n = Len(frames)
  BY StackOfRun DEF Call, Ready
<1> DEFINE caller == [Innermost EXCEPT !.now = {t}]
           callee == IF IsInlined(t) THEN Frame(Innermost.id, TRUE, {t}, Creds(t))
                     ELSE Frame(t, FALSE, refs[t], Creds(t))
<1>1. /\ run = "running" /\ run' = run /\ error = FALSE /\ error' = error
      /\ t \in Innermost.todo /\ n - 1 < Cap
      /\ frames' = Append(Inner(caller), callee)
      /\ UNCHANGED <<vars, edited>>
  BY <1>0, SubWorkflowAssumption
     DEF Call, Ready, TooDeep, NestingInv, SubTypeOK, vars, SubWorkflowAssumption
<1>2. /\ frames \in Seq(FrameType) /\ Innermost = frames[n] /\ n \in 1..n
      /\ DOMAIN frames = 1..n /\ \A k \in 1..n : frames[k] \in FrameType
  BY <1>0, <1>1, StackOfRun DEF Innermost
<1>3. /\ caller \in FrameType /\ caller.id = frames[n].id /\ caller.now = {t}
      /\ caller.todo = frames[n].todo /\ caller.inline = frames[n].inline
      /\ caller.creds = frames[n].creds
  BY <1>2 DEF FrameType
<1>4. /\ callee \in FrameType /\ callee.now = {}
      /\ callee.creds => frames[n].creds /\ <<frames[n].id, t>> \in OptedIn
      /\ \/ callee.id = t /\ ~callee.inline /\ callee.todo = refs[t]
         \/ /\ callee.id = frames[n].id /\ callee.inline /\ ~frames[n].inline
            /\ callee.todo = {t}
  <2>1. Creds(t) \in BOOLEAN /\ Innermost.id \in Ids /\ 0 \in 0..(Attempts - 1)
    BY <1>2, SubWorkflowAssumption DEF Creds, FrameType, SubWorkflowAssumption
  <2>2. refs[t] \subseteq Ids
    BY <1>1, RequestsUntouched
  <2> QED
    BY <1>2, <2>1, <2>2 DEF Frame, FrameType, IsInlined, Creds
<1> HIDE DEF caller, callee
<1>5. /\ frames' \in Seq(FrameType) /\ Len(frames') = n + 1 /\ DOMAIN frames' = 1..(n + 1)
      /\ frames'[n] = caller /\ frames'[n + 1] = callee
      /\ \A k \in 1..(n - 1) : frames'[k] = frames[k]
  <2>1. /\ Inner(caller) \in Seq(FrameType) /\ Len(Inner(caller)) = n
        /\ Inner(caller)[n] = caller
        /\ \A k \in 1..(n - 1) : Inner(caller)[k] = frames[k]
    BY <1>0, <1>2, <1>3 DEF Inner
  <2> QED
    BY <1>1, <1>4, <2>1
<1>6. ASSUME NEW k \in 1..n
      PROVE  /\ frames'[k].id = frames[k].id /\ frames'[k].todo = frames[k].todo
             /\ frames'[k].inline = frames[k].inline /\ frames'[k].creds = frames[k].creds
             /\ frames'[k].now \subseteq frames'[k].todo
             /\ k # n => frames'[k].now = frames[k].now
  <2>1. CASE k = n
    BY <1>1, <1>2, <1>3, <1>5, <2>1
  <2>2. CASE k # n
    <3>1. k \in 1..(n - 1)
      BY <2>2
    <3> QED
      BY <1>2, <1>5, <3>1 DEF NestingInv, SubTypeOK
  <2> QED
    BY <2>1, <2>2
<1>7. SubTypeOK'
  <2>1. ASSUME NEW k \in 1..(n + 1)
        PROVE  frames'[k] \in FrameType /\ frames'[k].now \subseteq frames'[k].todo
    <3>1. k \in 1..n \/ k = n + 1
      BY <1>2
    <3> QED
      BY <1>4, <1>5, <1>6, <3>1
  <2>2. frames' # <<>>
    BY <1>2, <1>5
  <2> QED
    BY <1>1, <1>5, <2>1, <2>2 DEF NestingInv, SubTypeOK, FrameType
<1>8. StackKept'
  <2>1. ASSUME NEW k \in 1..n
        PROVE  \E u \in frames'[k].todo :
                 /\ frames'[k].now = {u}
                 /\ \/ frames'[k + 1].id = u /\ ~frames'[k + 1].inline
                    \/ /\ frames'[k + 1].id = frames'[k].id /\ frames'[k + 1].inline
                       /\ ~frames'[k].inline
    <3>1. CASE k = n
      <4>1. /\ t \in frames'[n].todo /\ frames'[n].now = {t}
            /\ frames'[n].id = frames[n].id /\ frames'[n].inline = frames[n].inline
            /\ frames'[n + 1] = callee
        BY <1>1, <1>2, <1>3, <1>5
      <4> QED
        BY <1>4, <3>1, <4>1
    <3>2. CASE k # n
      <4>1. k \in 1..(n - 1) /\ k + 1 \in 1..n /\ n = Len(frames)
        BY <1>0, <3>2
      <4>2. PICK u \in frames[k].todo :
                 /\ frames[k].now = {u}
                 /\ \/ frames[k + 1].id = u /\ ~frames[k + 1].inline
                    \/ /\ frames[k + 1].id = frames[k].id /\ frames[k + 1].inline
                       /\ ~frames[k].inline
        BY <4>1 DEF NestingInv, StackKept
      <4>3. /\ frames'[k] = frames[k]
            /\ frames'[k + 1].id = frames[k + 1].id
            /\ frames'[k + 1].inline = frames[k + 1].inline
        BY <1>5, <1>6, <4>1
      <4> QED
        BY <4>2, <4>3
    <3> QED
      BY <3>1, <3>2
  <2>2. Len(frames') - 1 = n
    BY <1>2, <1>5
  <2> QED
    BY <1>1, <1>5, <2>1, <2>2 DEF StackKept
<1>9. RunFollows'
  <2> SUFFICES ASSUME ~edited, Unraced
               PROVE  \E R \in [Ids -> SUBSET Ids] :
                          /\ AcyclicOver(R)
                          /\ \A i \in Ids : refs[i] \subseteq R[i]
                          /\ \A k \in 1..(n + 1) : frames'[k].todo \subseteq R[frames'[k].id]
    BY <1>1, <1>5, RequestsUntouched DEF RunFollows
  <2>1. PICK R \in [Ids -> SUBSET Ids] :
            /\ AcyclicOver(R)
            /\ \A i \in Ids : refs[i] \subseteq R[i]
            /\ \A k \in 1..n : frames[k].todo \subseteq R[frames[k].id]
    BY <1>0, <1>1 DEF NestingInv, RunFollows
  <2>2. frames'[n + 1].todo \subseteq R[frames'[n + 1].id]
    <3>1. t \in R[frames[n].id]
      BY <1>1, <1>2, <2>1
    <3> QED
      BY <1>4, <1>5, <2>1, <3>1
  <2>3. ASSUME NEW k \in 1..(n + 1) PROVE frames'[k].todo \subseteq R[frames'[k].id]
    <3>1. k \in 1..n \/ k = n + 1
      BY <1>2
    <3> QED
      BY <1>6, <2>1, <2>2, <3>1
  <2> QED
    BY <2>1, <2>3
<1>10. DepthBounded'
  BY <1>1, <1>5, SubWorkflowAssumption DEF DepthBounded, SubWorkflowAssumption
<1>11. CredentialsAsOptedIn'
  <2>1. ASSUME NEW k \in 2..(n + 1), NEW j \in 1..(k - 1), frames'[k].creds,
               NEW u \in frames'[j].now
        PROVE  <<frames'[j].id, u>> \in OptedIn
    <3>1. j \in 1..n /\ (k = n + 1 \/ (k \in 2..n /\ k \in 1..n /\ j # n)) /\ n = Len(frames)
      BY <1>0
    <3>2. CASE j = n
      BY <1>2, <1>3, <1>4, <1>5, <2>1, <3>1, <3>2
    <3>3. CASE j # n
      <4>1. /\ frames'[j].now = frames[j].now /\ frames'[j].id = frames[j].id
        BY <1>6, <3>1, <3>3
      <4>2. CASE k = n + 1
        <5>1. frames[n].creds /\ n \in 2..Len(frames) /\ j \in 1..(n - 1)
          BY <1>0, <1>4, <1>5, <2>1, <3>1, <3>3, <4>2
        <5> QED
          BY <2>1, <4>1, <5>1 DEF NestingInv, CredentialsAsOptedIn
      <4>3. CASE k \in 2..n
        <5>1. frames[k].creds
          BY <1>6, <2>1, <3>1, <4>3
        <5> QED
          BY <1>0, <2>1, <3>1, <4>1, <4>3, <5>1 DEF NestingInv, CredentialsAsOptedIn
      <4> QED
        BY <3>1, <4>2, <4>3
    <3> QED
      BY <3>2, <3>3
  <2> QED
    BY <1>5, <2>1 DEF CredentialsAsOptedIn
<1> QED
  BY <1>1, <1>7, <1>8, <1>9, <1>10, <1>11, RequestsUntouched DEF NestingInv

\* Calls, returns and failures keep the invariant.
LEMMA RunStepKeeps ==
    ASSUME NestingInv, RunStep
    PROVE  NestingInv'
<1>1. ASSUME NEW t \in Ids, CallFails(t) PROVE NestingInv'
  <2> DEFINE g == [Innermost EXCEPT !.now = {t}]
  <2>1. run = "running" /\ Innermost \in FrameType /\ t \in Innermost.todo
    BY <1>1, StackOfRun DEF CallFails, Ready
  <2>2. /\ g \in FrameType /\ g.id = Innermost.id /\ g.inline = Innermost.inline
        /\ g.creds = Innermost.creds /\ g.now \subseteq g.todo /\ g.todo = Innermost.todo
    BY <2>1 DEF FrameType
  <2> HIDE DEF g
  <2>3. /\ frames' = Inner(g) /\ run' = run /\ error' \in BOOLEAN
        /\ UNCHANGED <<vars, edited>>
    BY <1>1 DEF CallFails, g
  <2> QED
    BY <2>1, <2>2, <2>3, InnermostKeeps
<1>2. CASE Return
  <2>1. run = "running" /\ error = FALSE /\ error' = FALSE /\ UNCHANGED <<vars, edited>>
    BY <1>2 DEF Return, NestingInv, SubTypeOK
  <2>2. CASE Len(frames) = 1
    BY <1>2, <2>1, <2>2, EndKeeps DEF Return
  <2>3. CASE Len(frames) # 1
    <3>1. PICK m \in 1..Len(frames) : m = Len(frames) - 1
      BY <2>1, <2>3, OuterStack
    <3> DEFINE g == Left(frames[m])
    <3>2. /\ g \in FrameType /\ g.id = frames[m].id /\ g.inline = frames[m].inline
          /\ g.creds = frames[m].creds /\ g.now \subseteq g.todo
          /\ g.todo \subseteq frames[m].todo
      <4>1. frames[m] \in FrameType /\ 0 \in 0..(Attempts - 1)
        BY <2>1, StackOfRun, SubWorkflowAssumption DEF SubWorkflowAssumption
      <4> QED
        BY <4>1 DEF Left, FrameType
    <3> HIDE DEF g
    <3>3. Outer \in Seq(FrameType) /\ Len(Outer) = m /\ \A k \in 1..m : Outer[k] = frames[k]
      BY <2>1, <2>3, <3>1, OuterStack
    <3>4. frames' = [Outer EXCEPT ![m] = g] /\ run' = run
      <4>1. m \in DOMAIN Outer /\ Outer[m] = frames[m]
        BY <3>1, <3>3
      <4> QED
        BY <1>2, <2>3, <3>1, <4>1 DEF Return, Caller, g
    <3>5. /\ frames' \in Seq(FrameType) /\ Len(frames') = m /\ frames'[m] = g
          /\ \A k \in 1..(m - 1) : frames'[k] = frames[k]
      BY <3>1, <3>2, <3>3, <3>4
    <3> QED
      BY <2>1, <3>1, <3>2, <3>4, <3>5, CutKeeps
  <2> QED
    BY <2>2, <2>3
<1>3. CASE HandleError
  <2>1. run = "running" /\ UNCHANGED <<vars, edited>>
    BY <1>3 DEF HandleError
  <2>2. Innermost \in FrameType /\ Innermost.now \subseteq Innermost.todo
    BY <2>1, StackOfRun
  <2>3. CASE Innermost.failures + 1 < Attempts
    <3> DEFINE g == [Innermost EXCEPT !.failures = @ + 1]
    <3>1. /\ g \in FrameType /\ g.id = Innermost.id /\ g.inline = Innermost.inline
          /\ g.creds = Innermost.creds /\ g.now \subseteq g.todo /\ g.todo = Innermost.todo
      BY <2>2, <2>3, SubWorkflowAssumption DEF FrameType, SubWorkflowAssumption
    <3>2. frames' = Inner(g) /\ error' = FALSE /\ run' = run
      BY <1>3, <2>3 DEF HandleError
    <3> HIDE DEF g
    <3> QED
      BY <2>1, <3>1, <3>2, InnermostKeeps
  <2>4. CASE ~(Innermost.failures + 1 < Attempts) /\ Innermost.id \in Tolerant
    <3> DEFINE g == Left(Innermost)
    <3>1. /\ g \in FrameType /\ g.id = Innermost.id /\ g.inline = Innermost.inline
          /\ g.creds = Innermost.creds /\ g.now \subseteq g.todo
          /\ g.todo \subseteq Innermost.todo
      <4>1. 0 \in 0..(Attempts - 1)
        BY SubWorkflowAssumption DEF SubWorkflowAssumption
      <4> QED
        BY <2>2, <4>1 DEF Left, FrameType
    <3>2. frames' = Inner(g) /\ error' = FALSE /\ run' = run
      BY <1>3, <2>4 DEF HandleError
    <3> HIDE DEF g
    <3> QED
      BY <2>1, <3>1, <3>2, InnermostKeeps
  <2>5. CASE ~(Innermost.failures + 1 < Attempts) /\ Innermost.id \notin Tolerant
    <3>1. /\ frames' = Outer /\ error' = (Len(frames) > 1)
          /\ run' = IF Len(frames) > 1 THEN run ELSE "failed"
      BY <1>3, <2>5 DEF HandleError
    <3>2. CASE Len(frames) = 1
      <4>1. Outer = <<>>
        BY <2>1, <3>2, StackOfRun DEF Outer
      <4>2. ~error' /\ error' \in BOOLEAN /\ run' = "failed"
        <5>1. error' = (Len(frames) > 1)
          BY <3>1, Zenon
        <5>2. error' <=> Len(frames) > 1
          BY <5>1
        <5>3. error' \in BOOLEAN
          BY <5>1
        <5> QED
          BY <3>1, <3>2, <5>2, <5>3
      <4> QED
        BY <2>1, <3>1, <4>1, <4>2, EndKeeps
    <3>3. CASE Len(frames) # 1
      <4>1. PICK m \in 1..Len(frames) : m = Len(frames) - 1
        BY <2>1, <3>3, OuterStack
      <4>2. /\ frames' \in Seq(FrameType) /\ Len(frames') = m
            /\ \A k \in 1..m : frames'[k] = frames[k]
        BY <2>1, <3>1, <3>3, <4>1, OuterStack
      <4>3. /\ frames[m] \in FrameType /\ frames[m].now \subseteq frames[m].todo
            /\ frames'[m] = frames[m] /\ run' = run /\ error' \in BOOLEAN
        <5>1. m \in DOMAIN frames /\ m \in 1..m /\ Len(frames) > 1
          BY <2>1, <3>3, <4>1, StackOfRun
        <5> QED
          BY <2>1, <3>1, <4>2, <5>1, StackOfRun DEF NestingInv, SubTypeOK
      <4> QED
        BY <2>1, <4>1, <4>2, <4>3, CutKeeps
    <3> QED
      BY <3>2, <3>3
  <2> QED
    BY <2>3, <2>4, <2>5
<1> QED
  BY <1>1, <1>2, <1>3, CallKeeps DEF RunStep

\* Requests and a run together keep the invariant of the nesting.
THEOREM NestingCorrect == SubSpec => []NestingInv
<1>1. SubInit => NestingInv
  <2> SUFFICES ASSUME SubInit PROVE NestingInv
    OBVIOUS
  <2>1. Len(<<>>) = 0 /\ DOMAIN <<>> = {} /\ <<>> \in Seq(FrameType)
    OBVIOUS
  <2>2. RefsInv
    BY RequestsStart DEF SubInit
  <2>3. SubTypeOK /\ RunFollows
    BY <2>1 DEF SubInit, SubTypeOK, RunFollows
  <2>5. StackKept
    <3>1. 1..(Len(frames) - 1) = {}
      BY <2>1 DEF SubInit
    <3> QED
      BY <2>1, <3>1 DEF SubInit, StackKept
  <2>4. DepthBounded /\ CredentialsAsOptedIn
    BY <2>1, SubWorkflowAssumption
       DEF SubInit, DepthBounded, CredentialsAsOptedIn, SubWorkflowAssumption
  <2> QED
    BY <2>2, <2>3, <2>4, <2>5 DEF NestingInv
<1>2. NestingInv /\ [SubNext]_allVars => NestingInv'
  <2> SUFFICES ASSUME NestingInv, [SubNext]_allVars PROVE NestingInv'
    OBVIOUS
  <2>1. CASE UNCHANGED allVars
    <3>1. /\ UNCHANGED vars /\ UNCHANGED <<run, frames, error, edited>>
      BY <2>1 DEF allVars, vars
    <3>2. RefsInv' /\ (Unraced' <=> Unraced) /\ refs' = refs
      BY <3>1, RequestsUntouched
    <3> QED
      BY <3>1, <3>2 DEF NestingInv, SubTypeOK, StackKept, RunFollows, DepthBounded,
                        CredentialsAsOptedIn
  <2> QED
    BY <2>1, RunIgnoresRequests, StartKeeps, RunStepKeeps DEF SubNext
<1> QED
  BY <1>1, <1>2, PTL DEF SubSpec

\* Calls nest no deeper than the cap, credentials reach an engine only over calls
\* that opted in, and no workflow runs inside itself unless one was saved during
\* the run or in a race (DEFAULT_MAX_SUB_WORKFLOW_DEPTH, propagate_credentials,
\* check_sub_workflow_cycle).
THEOREM NestingKept == SubSpec => []NestingSound
<1>1. NestingInv => NestingSound
  BY NoSelfNesting DEF NestingInv, NestingSound
<1> QED
  BY <1>1, NestingCorrect, PTL

\* The requests of a system that also runs workflows are those of WorkflowRefs.
THEOREM RequestsRefined == SubSpec => Spec
<1>1. SubInit => Init
  BY DEF SubInit
<1>2. [SubNext]_allVars => [Next]_vars
  BY DEF SubNext, StartRun, RunStep, Call, CallFails, Return, HandleError, allVars, vars
<1> QED
  BY <1>1, <1>2, PTL DEF SubSpec, Spec
=============================================================================
