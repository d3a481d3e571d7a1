------------------------------ MODULE Approval ------------------------------
(***************************************************************************)
(* The approval node (crates/a2w-nodes/src/approval.rs), its gate on table *)
(* approvals (StoreApprovalGate in crates/a2w-store/src/lib.rs) and the    *)
(* decision endpoint POST /approvals/{id} of the server.                   *)
(*                                                                         *)
(* An approval id is made of run, node and item index, so the module       *)
(* follows one node of one run id.  Executions are the executions of that  *)
(* node: by the run and by resumptions of it, also concurrent ones.  Their *)
(* inputs may differ, because a resumption also executes again producers   *)
(* that had failed under on_error = continue, whose items then precede or  *)
(* follow the ones that were there before.                                 *)
(***************************************************************************)
EXTENDS Integers, Sequences, FiniteSets

CONSTANTS
    Executions,  \* executions of the node under one run id
    Deciders,    \* POST requests
    Payloads,    \* the items that may ask for approval
    MaxItems,    \* bound: items in one input
    MaxPolls,    \* polls until timeout_secs have elapsed
    Attempts     \* max_attempts of the node's retry policy

ASSUME ApprovalAssumption ==
    /\ IsFiniteSet(Executions) /\ IsFiniteSet(Deciders)
    /\ MaxItems \in Nat \ {0}
    /\ MaxPolls \in Nat \ {0}
    /\ Attempts \in Nat \ {0}

Indices == 1..MaxItems

VARIABLES
    row,     \* row[i]: the approval of item i, with the payload shown
    input,   \* input[e]: the items execution e got
    pc,      \* pc[e]: the await it is at, or how it ended
    out,     \* out[e]: the items it has routed in this attempt
    polls,   \* polls[e]: polls of the current approval that found it pending
    tries,   \* tries[e]: attempts that failed
    asked,   \* asked[d]: approval and decision of POST d
    answer   \* answer[d]: "none", "decided" or "conflict"

vars == <<row, input, pc, out, polls, tries, asked, answer>>

NoRow == [status |-> "absent"]
Rows == [status : {"pending", "approved", "rejected"}, payload : Payloads]

Routed == [payload : Payloads, port : {0, 1},
           reason : {"approved", "rejected", "timeout"}]

Waiting == {"look", "create", "poll", "sleep"}

\* The type invariant: an attempt has routed no more items than it got.
TypeOK ==
    /\ row \in [Indices -> Rows \cup {NoRow}]
    /\ input \in [Executions -> UNION {[1..k -> Payloads] : k \in Indices}]
    /\ pc \in [Executions -> {"idle"} \cup Waiting \cup {"done", "failed", "dropped"}]
    /\ \A e \in Executions :
           /\ DOMAIN out[e] \in {1..k : k \in 0..Len(input[e])}
           /\ \A i \in DOMAIN out[e] : out[e][i] \in Routed
           /\ pc[e] \in Waiting => Len(out[e]) < Len(input[e])
    /\ polls \in [Executions -> 0..MaxPolls]
    /\ tries \in [Executions -> 0..Attempts]
    /\ asked \in [Deciders -> [index : Indices, decision : {"approved", "rejected"}]]
    /\ answer \in [Deciders -> {"none", "decided", "conflict"}]

Init ==
    /\ row = [i \in Indices |-> NoRow]
    /\ input \in [Executions -> UNION {[1..k -> Payloads] : k \in Indices}]
    /\ pc = [e \in Executions |-> "idle"]
    /\ out = [e \in Executions |-> <<>>]
    /\ polls = [e \in Executions |-> 0]
    /\ tries = [e \in Executions |-> 0]
    /\ asked \in [Deciders -> [index : Indices, decision : {"approved", "rejected"}]]
    /\ answer = [d \in Deciders |-> "none"]

-----------------------------------------------------------------------------
Goto(e, await) == pc' = [pc EXCEPT ![e] = await]

Current(e) == Len(out[e]) + 1

Begin(e) ==
    /\ pc[e] = "idle"
    /\ Goto(e, "look")
    /\ UNCHANGED <<row, input, out, polls, tries, asked, answer>>

\* StoreApprovalGate::request, first half: is there a row of that id?
Look(e) ==
    /\ pc[e] = "look"
    /\ Goto(e, IF row[Current(e)] = NoRow THEN "create" ELSE "poll")
    /\ UNCHANGED <<row, input, out, polls, tries, asked, answer>>

\* Second half: INSERT, which fails when the row has come to exist (see Fail).
Create(e) ==
    /\ pc[e] = "create"
    /\ row[Current(e)] = NoRow
    /\ row' = [row EXCEPT ![Current(e)] =
                  [status |-> "pending", payload |-> input[e][Current(e)]]]
    /\ Goto(e, "poll")
    /\ UNCHANGED <<input, out, polls, tries, asked, answer>>

\* Mutant: a timeout is not told from an approval.
RouteUnlessRejected(e, reason) ==
    /\ out' = [out EXCEPT ![e] = Append(@,
                  [payload |-> input[e][Current(e)],
                   port    |-> IF reason = "rejected" THEN 1 ELSE 0,
                   reason  |-> reason])]
    /\ polls' = [polls EXCEPT ![e] = 0]
    /\ Goto(e, IF Current(e) = Len(input[e]) THEN "done" ELSE "look")

\* Mutant: the loop does not see that the last item was routed.
RoutePastLast(e, reason) ==
    /\ out' = [out EXCEPT ![e] = Append(@,
                  [payload |-> input[e][Current(e)],
                   port    |-> IF reason = "approved" THEN 0 ELSE 1,
                   reason  |-> reason])]
    /\ polls' = [polls EXCEPT ![e] = 0]
    /\ Goto(e, "look")

\* The item leaves on the port of its outcome; the next one is requested.
Route(e, reason) ==
    /\ out' = [out EXCEPT ![e] = Append(@,
                  [payload |-> input[e][Current(e)],
                   port    |-> IF reason = "approved" THEN 0 ELSE 1,
                   reason  |-> reason])]
    /\ polls' = [polls EXCEPT ![e] = 0]
    /\ Goto(e, IF Current(e) = Len(input[e]) THEN "done" ELSE "look")

Decided(e) ==
    /\ pc[e] = "poll"
    /\ row[Current(e)].status \in {"approved", "rejected"}
    /\ Route(e, row[Current(e)].status)
    /\ UNCHANGED <<row, input, tries, asked, answer>>

\* Pending after timeout_secs: rejected, but the row stays as it is.
TimeOut(e) ==
    /\ pc[e] = "poll"
    /\ row[Current(e)].status = "pending"
    /\ polls[e] = MaxPolls
    /\ Route(e, "timeout")
    /\ UNCHANGED <<row, input, tries, asked, answer>>

\* Mutant: every poll starts the clock anew.
PendingForever(e) ==
    /\ pc[e] = "poll"
    /\ row[Current(e)].status = "pending"
    /\ Goto(e, "sleep")
    /\ UNCHANGED <<row, input, out, polls, tries, asked, answer>>

Pending(e) ==
    /\ pc[e] = "poll"
    /\ row[Current(e)].status = "pending"
    /\ polls[e] < MaxPolls
    /\ polls' = [polls EXCEPT ![e] = @ + 1]
    /\ Goto(e, "sleep")
    /\ UNCHANGED <<row, input, out, tries, asked, answer>>

Wake(e) ==
    /\ pc[e] = "sleep"
    /\ Goto(e, "poll")
    /\ UNCHANGED <<row, input, out, polls, tries, asked, answer>>

\* A statement fails, the INSERT also on a duplicate id.  The attempt is lost
\* with all it has routed, and the engine makes another one if any is left.
Fail(e) ==
    /\ pc[e] \in Waiting \ {"sleep"}
    /\ out' = [out EXCEPT ![e] = <<>>]
    /\ polls' = [polls EXCEPT ![e] = 0]
    /\ tries' = [tries EXCEPT ![e] = @ + 1]
    /\ Goto(e, IF tries[e] + 1 < Attempts THEN "look" ELSE "failed")
    /\ UNCHANGED <<row, input, asked, answer>>

\* The run is dropped: request timeout, disconnect or crash.
Drop(e) ==
    /\ pc[e] \in Waiting
    /\ Goto(e, "dropped")
    /\ UNCHANGED <<row, input, out, polls, tries, asked, answer>>

-----------------------------------------------------------------------------
\* Mutant: the UPDATE does not ask for a pending row.
DecideAgain(d) ==
    /\ answer[d] = "none"
    /\ LET i == asked[d].index IN
       /\ row[i] # NoRow
       /\ row' = [row EXCEPT ![i].status = asked[d].decision]
       /\ answer' = [answer EXCEPT ![d] = "decided"]
    /\ UNCHANGED <<input, pc, out, polls, tries, asked>>

\* UPDATE ... WHERE status = 'pending'; 409 when no row was changed.
Decide(d) ==
    /\ answer[d] = "none"
    /\ LET i == asked[d].index IN
       IF row[i].status = "pending"
       THEN /\ row' = [row EXCEPT ![i].status = asked[d].decision]
            /\ answer' = [answer EXCEPT ![d] = "decided"]
       ELSE /\ answer' = [answer EXCEPT ![d] = "conflict"]
            /\ row' = row
    /\ UNCHANGED <<input, pc, out, polls, tries, asked>>

-----------------------------------------------------------------------------
Execute(e) ==
    \/ Look(e) \/ Create(e) \/ Decided(e) \/ TimeOut(e)
    \/ Pending(e) \/ Wake(e) \/ Fail(e)

Next ==
    \/ \E e \in Executions : Begin(e) \/ Execute(e) \/ Drop(e)
    \/ \E d \in Deciders : Decide(d)

Spec == Init /\ [][Next]_vars

\* Statements return and sleeps end; people owe no decision.
Fairness == \A e \in Executions : WF_vars(Execute(e))

FairSpec == Spec /\ Fairness

-----------------------------------------------------------------------------
\* The gate is fail-closed: whatever times out, fails, is tried again or
\* resumed, an item leaves on port 0 only when its approval was granted, and is
\* called rejected only when it was rejected.
RoutedAsDecided ==
    \A e \in Executions : \A i \in DOMAIN out[e] :
        /\ out[e][i].port = 0 => row[i].status = "approved"
        /\ out[e][i].reason = "rejected" => row[i].status = "rejected"

\* The first decision wins: who is told that it decided an approval was the
\* only one, and the approval stays as decided.
FirstDecisionWins ==
    \A d \in Deciders : answer[d] = "decided" =>
        /\ row[asked[d].index].status = asked[d].decision
        /\ \A c \in Deciders \ {d} : asked[c].index = asked[d].index =>
               answer[c] # "decided"

\* A node never waits for people for ever.
EveryExecutionEnds ==
    \A e \in Executions : pc[e] \in Waiting ~> pc[e] \notin Waiting

\* The gate: the row decides where an item goes, and one person decides the row.
GateKept == TypeOK /\ RoutedAsDecided /\ FirstDecisionWins
=============================================================================
