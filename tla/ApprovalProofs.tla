--------------------------- MODULE ApprovalProofs ---------------------------
(***************************************************************************)
(* Proofs about the approval gate, for any executions, deciders, items and *)
(* attempts: an item leaves on port 0 only when its approval was granted,  *)
(* and the first decision on an approval is the last one.                  *)
(***************************************************************************)
EXTENDS Approval, TLAPS

-----------------------------------------------------------------------------
(* The inductive invariant. *)

\* Where an execution is in its input: what it has routed is a sequence shorter
\* than the input for as long as it waits, attempts are left for one that
\* waits, and it polls only an approval that exists.
AttemptKept ==
    /\ out \in [Executions -> Seq(Routed)]
    /\ \A e \in Executions :
        /\ Len(out[e]) <= Len(input[e])
        /\ pc[e] = "idle" => out[e] = <<>> /\ tries[e] = 0
        /\ pc[e] \in Waiting => Len(out[e]) < Len(input[e]) /\ tries[e] < Attempts
        /\ pc[e] \in {"poll", "sleep"} => row[Current(e)] # NoRow

GateInv == TypeOK /\ AttemptKept /\ RoutedAsDecided /\ FirstDecisionWins

\* An input is a sequence of at least one item, and of no more than MaxItems.
LEMMA InputIsSequence ==
    ASSUME TypeOK, NEW e \in Executions
    PROVE  input[e] \in Seq(Payloads) /\ Len(input[e]) \in Indices
<1>1. PICK k \in Indices : input[e] \in [1..k -> Payloads]
  BY DEF TypeOK
<1> QED
  BY <1>1, ApprovalAssumption DEF Indices, ApprovalAssumption

\* An execution that waits is at an item of its input, and that item has a row
\* or may get one.
LEMMA CurrentIsItem ==
    ASSUME GateInv, NEW e \in Executions, pc[e] \in Waiting
    PROVE  /\ Current(e) \in Indices /\ Current(e) <= Len(input[e])
           /\ input[e][Current(e)] \in Payloads
BY InputIsSequence, ApprovalAssumption
   DEF GateInv, AttemptKept, Current, Indices, ApprovalAssumption

\* A row that exists is not mistaken for one that does not.
LEMMA RowExists == \A r \in Rows : r # NoRow
BY DEF Rows, NoRow

\* Routing the current item keeps the invariant when the port agrees with the
\* row: 0 for an approval that was granted, "rejected" for one that was not.
LEMMA RouteKeeps ==
    ASSUME GateInv, NEW e \in Executions, pc[e] = "poll",
           NEW reason \in {"approved", "rejected", "timeout"},
           reason # "timeout" => row[Current(e)].status = reason,
           Route(e, reason), UNCHANGED <<row, input, tries, asked, answer>>
    PROVE  GateInv'
<1> DEFINE item == [payload |-> input[e][Current(e)],
                    port |-> IF reason = "approved" THEN 0 ELSE 1, reason |-> reason]
<1>1. item \in Routed
  BY CurrentIsItem DEF Waiting, Routed
<1>2. out' = [out EXCEPT ![e] = Append(@, item)]
  BY DEF Route
<1>3. /\ out' \in [Executions -> Seq(Routed)]
      /\ out'[e] = Append(out[e], item) /\ Len(out'[e]) = Current(e)
      /\ \A f \in Executions \ {e} : out'[f] = out[f]
  BY <1>1, <1>2 DEF GateInv, AttemptKept, Current
<1>4. /\ pc'[e] = IF Current(e) = Len(input[e]) THEN "done" ELSE "look"
      /\ \A f \in Executions \ {e} : pc'[f] = pc[f]
      /\ pc' \in [Executions -> {"idle"} \cup Waiting \cup {"done", "failed", "dropped"}]
  BY DEF Route, Goto, GateInv, TypeOK, Waiting
<1>5. /\ Current(e) <= Len(input[e]) /\ Current(e) \in Nat /\ Len(input[e]) \in Nat
      /\ tries[e] < Attempts
  BY CurrentIsItem, InputIsSequence
     DEF Indices, Waiting, GateInv, AttemptKept
<1>6. AttemptKept'
  <2>1. ASSUME NEW f \in Executions \ {e}
        PROVE  Current(f)' = Current(f) /\ out'[f] = out[f] /\ pc'[f] = pc[f]
    BY <1>3, <1>4 DEF Current
  <2>2. /\ Len(out'[e]) <= Len(input[e]) /\ pc'[e] \notin {"idle", "poll", "sleep"}
        /\ pc'[e] \in Waiting => Len(out'[e]) < Len(input[e]) /\ tries[e] < Attempts
    BY <1>3, <1>4, <1>5 DEF Waiting
  <2> QED
    BY <1>3, <2>1, <2>2 DEF GateInv, AttemptKept
<1>7. TypeOK'
  <2>1. polls' \in [Executions -> 0..MaxPolls]
    BY ApprovalAssumption DEF Route, GateInv, TypeOK, ApprovalAssumption
  <2>2. ASSUME NEW f \in Executions
        PROVE  /\ DOMAIN out'[f] \in {1..k : k \in 0..Len(input[f])}
               /\ \A i \in DOMAIN out'[f] : out'[f][i] \in Routed
               /\ pc'[f] \in Waiting => Len(out'[f]) < Len(input[f])
    <3>1. Len(input[f]) \in Nat
      BY InputIsSequence DEF Indices, GateInv
    <3>2. out'[f] \in Seq(Routed) /\ Len(out'[f]) \in 0..Len(input[f])
      BY <1>6, <3>1 DEF AttemptKept
    <3> QED
      BY <1>6, <3>2 DEF AttemptKept
  <2> QED
    BY <1>4, <2>1, <2>2 DEF GateInv, TypeOK
<1>8. RoutedAsDecided'
  <2>1. ASSUME NEW i \in DOMAIN out'[e]
        PROVE  /\ out'[e][i].port = 0 => row[i].status = "approved"
               /\ out'[e][i].reason = "rejected" => row[i].status = "rejected"
    <3>1. CASE i \in DOMAIN out[e]
      <4>1. out'[e][i] = out[e][i]
        BY <1>3, <3>1 DEF GateInv, AttemptKept
      <4> QED
        BY <3>1, <4>1 DEF GateInv, RoutedAsDecided
    <3>2. CASE i = Current(e)
      <4>1. out'[e][i] = item
        BY <1>1, <1>3, <3>2 DEF GateInv, AttemptKept, Current
      <4> QED
        BY <3>2, <4>1
    <3>3. out[e] \in Seq(Routed) /\ out'[e] \in Seq(Routed)
      BY <1>3 DEF GateInv, AttemptKept
    <3>4. DOMAIN out'[e] = DOMAIN out[e] \cup {Current(e)}
      BY <1>3, <3>3 DEF Current
    <3> QED
      BY <3>1, <3>2, <3>4
  <2> QED
    BY <1>3, <2>1 DEF GateInv, RoutedAsDecided
<1>9. FirstDecisionWins'
  BY DEF GateInv, FirstDecisionWins
<1> QED
  BY <1>6, <1>7, <1>8, <1>9 DEF GateInv

-----------------------------------------------------------------------------
(* Induction. *)

\* Moving between two awaits of the same item keeps the invariant.
LEMMA AwaitKeeps ==
    ASSUME GateInv, NEW e \in Executions, NEW await \in Waiting,
           pc[e] \in Waiting, Goto(e, await),
           await \in {"poll", "sleep"} => row[Current(e)] # NoRow,
           polls' \in [Executions -> 0..MaxPolls],
           UNCHANGED <<row, input, out, tries, asked, answer>>
    PROVE  GateInv'
<1>1. /\ pc'[e] = await
      /\ \A f \in Executions \ {e} : pc'[f] = pc[f]
      /\ pc' \in [Executions -> {"idle"} \cup Waiting \cup {"done", "failed", "dropped"}]
  BY DEF Goto, GateInv, TypeOK
<1> QED
  BY <1>1 DEF GateInv, TypeOK, AttemptKept, RoutedAsDecided, FirstDecisionWins,
              Current, Waiting

\* At every await of every execution, and after every decision, the gate is in
\* order: types, the place in the input, routed items and decisions.
THEOREM GateCorrect == Spec => []GateInv
<1>1. Init => GateInv
  <2> SUFFICES ASSUME Init PROVE GateInv
    OBVIOUS
  <2>1. TypeOK
    <3>1. ASSUME NEW e \in Executions
          PROVE  /\ DOMAIN out[e] \in {1..k : k \in 0..Len(input[e])}
                 /\ \A i \in DOMAIN out[e] : out[e][i] \in Routed
      <4>1. PICK k \in Indices : input[e] \in [1..k -> Payloads]
        BY DEF Init
      <4>2. Len(input[e]) \in Nat
        BY <4>1 DEF Indices
      <4>3. DOMAIN out[e] = 1..0
        BY DEF Init
      <4> QED
        BY <4>2, <4>3
    <3>2. polls \in [Executions -> 0..MaxPolls] /\ tries \in [Executions -> 0..Attempts]
      BY ApprovalAssumption DEF Init, ApprovalAssumption
    <3>3. pc \in [Executions -> {"idle"} \cup Waiting \cup {"done", "failed", "dropped"}]
      BY DEF Init
    <3>4. \A e \in Executions : pc[e] \notin Waiting
      BY DEF Init, Waiting
    <3> QED
      BY <3>1, <3>2, <3>3, <3>4 DEF Init, TypeOK
  <2>2. AttemptKept
    <3>1. ASSUME NEW e \in Executions PROVE Len(input[e]) >= 0
      BY <2>1, InputIsSequence DEF Indices
    <3> QED
      BY <3>1 DEF Init, AttemptKept, Waiting
  <2>3. RoutedAsDecided /\ FirstDecisionWins
    BY DEF Init, RoutedAsDecided, FirstDecisionWins
  <2> QED
    BY <2>1, <2>2, <2>3 DEF GateInv
<1>2. GateInv /\ [Next]_vars => GateInv'
  <2> SUFFICES ASSUME GateInv, [Next]_vars PROVE GateInv'
    OBVIOUS
  <2>1. ASSUME NEW e \in Executions, Begin(e) PROVE GateInv'
    <3>1. Len(input[e]) > 0 /\ 0 < Attempts
      BY InputIsSequence, ApprovalAssumption DEF GateInv, Indices, ApprovalAssumption
    <3>2. /\ pc'[e] = "look" /\ pc[e] = "idle"
          /\ \A f \in Executions \ {e} : pc'[f] = pc[f]
          /\ pc' \in [Executions -> {"idle"} \cup Waiting \cup {"done", "failed", "dropped"}]
      BY <2>1 DEF Begin, Goto, GateInv, TypeOK, Waiting
    <3> QED
      BY <2>1, <3>1, <3>2
         DEF Begin, GateInv, TypeOK, AttemptKept, RoutedAsDecided, FirstDecisionWins,
             Current, Waiting
  <2>2. ASSUME NEW e \in Executions, Execute(e) PROVE GateInv'
    <3>1. CASE Look(e)
      BY <3>1, AwaitKeeps DEF Look, GateInv, TypeOK, Waiting
    <3>2. CASE Create(e)
      <4>1. /\ Current(e) \in Indices
            /\ [status |-> "pending", payload |-> input[e][Current(e)]] \in Rows
        BY <3>2, CurrentIsItem DEF Create, Waiting, Rows
      <4>2. /\ row' \in [Indices -> Rows \cup {NoRow}]
            /\ row'[Current(e)].status = "pending" /\ row'[Current(e)] # NoRow
            /\ row[Current(e)].status = "absent"
            /\ \A i \in Indices \ {Current(e)} : row'[i] = row[i]
        BY <3>2, <4>1, RowExists DEF Create, GateInv, TypeOK, NoRow
      <4>3. /\ pc'[e] = "poll" /\ pc[e] = "create"
            /\ \A f \in Executions \ {e} : pc'[f] = pc[f]
            /\ pc' \in [Executions -> {"idle"} \cup Waiting \cup {"done", "failed", "dropped"}]
        BY <3>2 DEF Create, Goto, GateInv, TypeOK, Waiting
      <4>4. TypeOK'
        BY <3>2, <4>2, <4>3 DEF Create, GateInv, TypeOK, Waiting
      <4>5. AttemptKept'
        <5>1. ASSUME NEW f \in Executions, pc[f] \in {"poll", "sleep"}
              PROVE  row'[Current(f)] # NoRow
          <6>1. Current(f) \in Indices /\ row[Current(f)] # NoRow
            BY <5>1, CurrentIsItem DEF Waiting, GateInv, AttemptKept
          <6> QED
            BY <4>2, <6>1
        <5>2. Current(e)' = Current(e) /\ \A f \in Executions : Current(f)' = Current(f)
          BY <3>2 DEF Create, Current
        <5> QED
          BY <3>2, <4>2, <4>3, <5>1, <5>2 DEF Create, GateInv, AttemptKept, Waiting
      <4>6. RoutedAsDecided'
        BY <3>2, <4>2 DEF Create, GateInv, TypeOK, RoutedAsDecided
      <4>7. FirstDecisionWins'
        BY <3>2, <4>2 DEF Create, GateInv, TypeOK, FirstDecisionWins
      <4> QED
        BY <4>4, <4>5, <4>6, <4>7 DEF GateInv
    <3>3. CASE Decided(e)
      BY <3>3, RouteKeeps DEF Decided
    <3>4. CASE TimeOut(e)
      BY <3>4, RouteKeeps DEF TimeOut
    <3>5. CASE Pending(e)
      BY <3>5, AwaitKeeps, RowExists, ApprovalAssumption
         DEF Pending, GateInv, TypeOK, AttemptKept, Waiting, ApprovalAssumption
    <3>6. CASE Wake(e)
      BY <3>6, AwaitKeeps DEF Wake, GateInv, TypeOK, AttemptKept, Waiting
    <3>7. CASE Fail(e)
      <4>1. /\ out' \in [Executions -> Seq(Routed)] /\ out'[e] = <<>>
            /\ \A f \in Executions \ {e} : out'[f] = out[f]
        BY <3>7 DEF Fail, GateInv, AttemptKept
      <4>2. /\ tries' \in [Executions -> 0..Attempts]
            /\ tries'[e] = tries[e] + 1
            /\ \A f \in Executions \ {e} : tries'[f] = tries[f]
            /\ polls' \in [Executions -> 0..MaxPolls]
        BY <3>7, ApprovalAssumption
           DEF Fail, GateInv, AttemptKept, TypeOK, Waiting, ApprovalAssumption
      <4>3. /\ pc'[e] = IF tries[e] + 1 < Attempts THEN "look" ELSE "failed"
            /\ \A f \in Executions \ {e} : pc'[f] = pc[f]
            /\ pc' \in [Executions -> {"idle"} \cup Waiting \cup {"done", "failed", "dropped"}]
        BY <3>7 DEF Fail, Goto, GateInv, TypeOK, Waiting
      <4>4. Len(input[e]) \in Nat /\ Len(input[e]) > 0
        BY InputIsSequence DEF Indices, GateInv
      <4>5. AttemptKept'
        BY <3>7, <4>1, <4>2, <4>3, <4>4 DEF Fail, GateInv, AttemptKept, Waiting, Current
      <4>6. TypeOK'
        <5>1. DOMAIN out'[e] = 1..0 /\ Len(out'[e]) = 0
          BY <4>1
        <5>2. DOMAIN out'[e] \in {1..k : k \in 0..Len(input[e])}
          BY <4>4, <5>1
        <5> QED
          BY <3>7, <4>1, <4>2, <4>3, <4>4, <5>1, <5>2 DEF Fail, GateInv, TypeOK
      <4>7. RoutedAsDecided' /\ FirstDecisionWins'
        BY <3>7, <4>1 DEF Fail, GateInv, RoutedAsDecided, FirstDecisionWins
      <4> QED
        BY <4>5, <4>6, <4>7 DEF GateInv
    <3> QED
      BY <2>2, <3>1, <3>2, <3>3, <3>4, <3>5, <3>6, <3>7 DEF Execute
  <2>3. ASSUME NEW e \in Executions, Drop(e) PROVE GateInv'
    <3>1. /\ pc'[e] = "dropped"
          /\ \A f \in Executions \ {e} : pc'[f] = pc[f]
          /\ pc' \in [Executions -> {"idle"} \cup Waiting \cup {"done", "failed", "dropped"}]
      BY <2>3 DEF Drop, Goto, GateInv, TypeOK
    <3> QED
      BY <2>3, <3>1
         DEF Drop, GateInv, TypeOK, AttemptKept, RoutedAsDecided, FirstDecisionWins,
             Current, Waiting
  <2>4. ASSUME NEW d \in Deciders, Decide(d) PROVE GateInv'
    <3> DEFINE i == asked[d].index
    <3>1. i \in Indices /\ asked[d].decision \in {"approved", "rejected"}
      BY DEF GateInv, TypeOK
    <3>2. CASE row[i].status = "pending"
      <4>1. row[i] \in Rows
        BY <3>1, <3>2 DEF GateInv, TypeOK, NoRow
      <4>2. /\ row' \in [Indices -> Rows \cup {NoRow}]
            /\ row'[i] \in Rows /\ row'[i].status = asked[d].decision
            /\ \A j \in Indices \ {i} : row'[j] = row[j]
            /\ answer' = [answer EXCEPT ![d] = "decided"]
        <5>1. [row[i] EXCEPT !.status = asked[d].decision] \in Rows
          BY <3>1, <4>1 DEF Rows
        <5>2. /\ row' = [row EXCEPT ![i] = [row[i] EXCEPT !.status = asked[d].decision]]
              /\ answer' = [answer EXCEPT ![d] = "decided"]
          BY <2>4, <3>2 DEF Decide
        <5>3. [row[i] EXCEPT !.status = asked[d].decision].status = asked[d].decision
          BY <4>1 DEF Rows
        <5> QED
          BY <3>1, <5>1, <5>2, <5>3 DEF GateInv, TypeOK
      <4>3. AttemptKept'
        <5>1. ASSUME NEW f \in Executions, pc[f] \in {"poll", "sleep"}
              PROVE  row'[Current(f)] # NoRow
          <6>1. Current(f) \in Indices /\ row[Current(f)] # NoRow
            BY <5>1, CurrentIsItem DEF Waiting, GateInv, AttemptKept
          <6> QED
            BY <4>2, <6>1, RowExists
        <5>2. \A f \in Executions : Current(f)' = Current(f)
          BY <2>4 DEF Decide, Current
        <5> QED
          BY <2>4, <5>1, <5>2 DEF Decide, GateInv, AttemptKept, Waiting
      <4>4. TypeOK' /\ FirstDecisionWins'
        BY <2>4, <3>1, <3>2, <4>2 DEF Decide, GateInv, TypeOK, FirstDecisionWins
      <4>5. RoutedAsDecided'
        <5>1. \A j \in Indices : row[j].status \in {"approved", "rejected"} =>
                 row'[j].status = row[j].status
          BY <3>2, <4>2
        <5>2. \A e \in Executions : DOMAIN out[e] \subseteq Indices
          <6> TAKE e \in Executions
          <6>1. Len(out[e]) <= Len(input[e]) /\ Len(input[e]) \in Indices
            BY InputIsSequence DEF GateInv, AttemptKept
          <6>2. out[e] \in Seq(Routed)
            BY DEF GateInv, AttemptKept
          <6> QED
            BY <6>1, <6>2, ApprovalAssumption DEF Indices, ApprovalAssumption
        <5> QED
          BY <2>4, <5>1, <5>2 DEF Decide, GateInv, RoutedAsDecided
      <4> QED
        BY <4>3, <4>4, <4>5 DEF GateInv
    <3>3. CASE row[i].status # "pending"
      <4>1. /\ answer' = [answer EXCEPT ![d] = "conflict"] /\ answer[d] = "none"
            /\ UNCHANGED <<row, input, pc, out, polls, tries, asked>>
        BY <2>4, <3>3 DEF Decide
      <4>2. TypeOK' /\ AttemptKept' /\ RoutedAsDecided'
        BY <4>1 DEF GateInv, TypeOK, AttemptKept, RoutedAsDecided, Current
      <4>3. FirstDecisionWins'
        BY <4>1 DEF GateInv, TypeOK, FirstDecisionWins
      <4> QED
        BY <4>2, <4>3 DEF GateInv
    <3> QED
      BY <3>2, <3>3
  <2>5. CASE UNCHANGED vars
    BY <2>5 DEF vars, GateInv, TypeOK, AttemptKept, RoutedAsDecided, FirstDecisionWins,
                Current
  <2> QED
    BY <2>1, <2>2, <2>3, <2>4, <2>5 DEF Next
<1> QED
  BY <1>1, <1>2, PTL DEF Spec

\* An item passes only what was granted, is called rejected only when somebody
\* rejected it, and a decided approval stays as the first decision left it,
\* through timeouts, retries, concurrent executions and late decisions
\* (StoreApprovalGate and the UPDATE of decide_approval).
THEOREM ApprovalsKept == Spec => []GateKept
<1>1. GateInv => GateKept
  BY DEF GateInv, GateKept
<1> QED
  BY <1>1, GateCorrect, PTL
=============================================================================
