------------------------- MODULE IdempotencyProofs -------------------------
(***************************************************************************)
(* Proofs about the two-phase claim, for any number of requests, every     *)
(* time to live and every number of attempts and restarts: a key stands    *)
(* for one run, and one more for each adoption of an expired claim; what   *)
(* an adoption overwrites and every conflict is explained; and only the    *)
(* run that holds a row frees it.                                          *)
(***************************************************************************)
EXTENDS Idempotency, FiniteSetTheorems, TLAPS

-----------------------------------------------------------------------------
(* The inductive invariant: what each await says of the row and of the past. *)

\* A request that has not yet got through phase 1 ...
Claiming == {"idle", "insert", "select", "adopt", "reinsert", "fetch"}
\* ... and one that never will, other than by an error or a drop.
TurnedAway == {"replayed", "missing", "conflict"}

\* Who executes is past the claim, and a saved run is on its way to the commit.
PhasesKept ==
    \A q \in Requests :
        /\ pc[q] \in Claiming \cup TurnedAway => q \notin fired \cup runs \cup adopted
        /\ pc[q] \in {"run", "save", "release", "failed"} => q \notin runs
        /\ pc[q] \in {"commit", "background"} => q \in runs

\* The row was written by a request that went on to run, and expires Ttl after
\* that request read the clock.
ClaimKept ==
    slot # Free => /\ pc[slot.run] \notin Claiming \cup TurnedAway
                   /\ slot.expires = now[slot.run] + Ttl

\* What phase 1 has read of the row: the claim that is adopted had expired, the
\* run that is replayed was saved.
ReadsKept ==
    \A q \in Requests :
        /\ pc[q] = "adopt" \/ q \in adopted =>
              /\ prior[q] \in Requests \ {q}
              /\ pc[prior[q]] # "idle"
              /\ now[q] > now[prior[q]] + TtlMin
        /\ pc[q] = "fetch" => prior[q] \in runs

\* While a request is about to adopt, the row is the one it read, or that of
\* another adopter, or the first release after the SELECT has happened.
OverwriteKept ==
    \A q \in Requests :
        pc[q] = "adopt" =>
            \/ slot.run = prior[q]
            \/ slot.run \in adopted
            \/ \E f \in adopted \cup {prior[q]} : pc[f] = "failed"

\* Until somebody adopts, whoever is between the claim and the answer holds the
\* row, and so does every run that counts.
HoldersKept ==
    adopted = {} =>
        \A q \in Requests :
            \/ pc[q] \in {"run", "save", "release", "commit", "background"}
            \/ q \in fired /\ (q \in runs \/ pc[q] # "failed")
            \/ pc[q] \in {"ran_conflict", "settled_conflict"}
            => slot # Free /\ slot.run = q

ClaimInv ==
    /\ TypeOK
    /\ PhasesKept /\ ClaimKept /\ ReadsKept /\ OverwriteKept /\ HoldersKept
    /\ ReplaysSavedRun /\ ConflictExplained

-----------------------------------------------------------------------------
(* Type correctness. *)

\* However it is configured, a claim lives for at least TtlMin.
LEMMA TtlClamped == Ttl \in Nat /\ Ttl >= TtlMin
BY IdempotencyAssumption DEF Ttl, IdempotencyAssumption

\* A row is never mistaken for its absence.
LEMMA RowIsNotFree == \A row \in Row : row # Free
BY IdempotencyAssumption DEF Row, Free, IdempotencyAssumption

\* A claim is a row.
LEMMA ClaimIsRow ==
    ASSUME TypeOK, NEW q \in Requests
    PROVE  Claim(q) \in Row
<1>1. now[q] \in Nat
  BY IdempotencyAssumption DEF TypeOK, IdempotencyAssumption
<1> QED
  BY <1>1, TtlClamped DEF Claim, Row

\* Completing a row leaves a row of the same run, and no row if there was none.
LEMMA CompletedIsRow ==
    ASSUME TypeOK, slot.status = "in_progress"
    PROVE  /\ slot \in Row
           /\ [slot EXCEPT !.status = "completed"] \in Row
           /\ [slot EXCEPT !.status = "completed"].run = slot.run
           /\ [slot EXCEPT !.status = "completed"].expires = slot.expires
           /\ [slot EXCEPT !.status = "completed"].status = "completed"
<1>1. slot \in Row
  BY DEF TypeOK, Free
<1> QED
  BY <1>1 DEF Row

\* The row, the saved runs and the phases of the requests keep their type.
THEOREM IdempotencyTyped == Spec => []TypeOK
<1>1. Init => TypeOK
  BY IdempotencyAssumption DEF Init, TypeOK, IdempotencyAssumption
<1>2. TypeOK /\ [Next]_vars => TypeOK'
  <2> SUFFICES ASSUME TypeOK, [Next]_vars PROVE TypeOK'
    OBVIOUS
  <2> USE IdempotencyAssumption DEF IdempotencyAssumption
  <2>1. ASSUME NEW q \in Requests, Arrive(q) PROVE TypeOK'
    BY <2>1 DEF Arrive, TypeOK, Goto, process, Handling
  <2>2. ASSUME NEW q \in Requests, Handle(q) PROVE TypeOK'
    <3>1. CASE Insert(q)
      BY <3>1, ClaimIsRow DEF Insert, TypeOK, Goto, process, Handling, Answered
    <3>2. CASE Select(q)
      <4>1. slot.run \in Requests \cup {None}
        BY DEF TypeOK, Row, Free
      <4> QED
        BY <3>2, <4>1 DEF Select, TypeOK, Goto, process, Handling, Answered
    <3>3. CASE Adopt(q)
      BY <3>3, ClaimIsRow DEF Adopt, TypeOK, Goto, process, Handling, Answered
    <3>4. CASE Fetch(q)
      BY <3>4 DEF Fetch, TypeOK, Goto, process, Handling, Answered
    <3>5. CASE Fire(q)
      BY <3>5 DEF Fire, TypeOK, process
    <3>6. CASE Return(q)
      BY <3>6 DEF Return, TypeOK, Goto, process, Handling
    <3>7. CASE Save(q)
      BY <3>7 DEF Save, TypeOK, Goto, process, Handling
    <3>8. CASE Release(q)
      BY <3>8 DEF Release, TypeOK, Goto, process, Handling, Answered
    <3>9. CASE Commit(q)
      BY <3>9, CompletedIsRow
         DEF Commit, Complete, Owns, TypeOK, Goto, process, Handling, Answered
    <3>10. CASE Error(q)
      BY <3>10 DEF Error, TypeOK, Goto, process, Handling, Answered, Deferred
    <3> QED
      BY <2>2, <3>1, <3>2, <3>3, <3>4, <3>5, <3>6, <3>7, <3>8, <3>9, <3>10 DEF Handle
  <2>3. ASSUME NEW q \in Requests, Retry(q) PROVE TypeOK'
    <3>1. CASE Settle(q)
      BY <3>1, CompletedIsRow
         DEF Settle, Complete, Owns, TypeOK, Goto, process, Deferred
    <3>2. CASE Defer(q)
      BY <3>2 DEF Defer, TypeOK, Goto, process, Deferred
    <3> QED
      BY <2>3, <3>1, <3>2 DEF Retry
  <2>4. ASSUME NEW q \in Requests, Drop(q) PROVE TypeOK'
    BY <2>4 DEF Drop, TypeOK, Goto, process, Answered
  <2>5. CASE PeriodicReap
    BY <2>5, CompletedIsRow DEF PeriodicReap, Reap, TypeOK, process
  <2>6. CASE Shutdown
    BY <2>6 DEF Shutdown, TypeOK
  <2>7. CASE Exit \/ Crash
    BY <2>7 DEF Exit, Crash, Stop, TypeOK, Answered, Deferred
  <2>8. CASE Boot
    BY <2>8, CompletedIsRow DEF Boot, Reap, TypeOK
  <2>9. CASE Tick
    BY <2>9 DEF Tick, TypeOK
  <2>10. CASE UNCHANGED vars
    BY <2>10 DEF vars, TypeOK
  <2> QED
    BY <2>1, <2>2, <2>3, <2>4, <2>5, <2>6, <2>7, <2>8, <2>9, <2>10 DEF Next
<1> QED
  BY <1>1, <1>2, PTL DEF Spec

-----------------------------------------------------------------------------
(* Induction. *)

\* The invariant of the claim holds at every await of every request.
THEOREM ClaimCorrect == Spec => []ClaimInv
<1>1. Init => ClaimInv
  <2> SUFFICES ASSUME Init PROVE ClaimInv
    OBVIOUS
  <2>1. TypeOK
    BY IdempotencyAssumption DEF Init, TypeOK, IdempotencyAssumption
  <2> QED
    BY <2>1 DEF Init, ClaimInv, PhasesKept, ClaimKept, ReadsKept, OverwriteKept, HoldersKept,
                ReplaysSavedRun, ConflictExplained, Free, Claiming, TurnedAway
<1>2. TypeOK' /\ ClaimInv /\ [Next]_vars => ClaimInv'
  <2> SUFFICES ASSUME TypeOK', ClaimInv, [Next]_vars PROVE ClaimInv'
    OBVIOUS
  <2> USE DEF ClaimInv, PhasesKept, ClaimKept, ReadsKept, OverwriteKept, HoldersKept,
              ReplaysSavedRun, ConflictExplained, Claiming, TurnedAway,
              TypeOK, Row, Free, At, Goto, process
  <2>1. ASSUME NEW q \in Requests, Arrive(q) PROVE ClaimInv'
    BY <2>1 DEF Arrive
  <2>2. ASSUME NEW q \in Requests, Handle(q) PROVE ClaimInv'
    <3>1. CASE Insert(q)
      <4>1. CASE slot # Free
        BY <3>1, <4>1, RowIsNotFree DEF Insert
      <4>2. CASE slot = Free
        <5>1. /\ slot' = Claim(q) /\ pc' = [pc EXCEPT ![q] = "run"]
              /\ UNCHANGED <<process, runs, fired, adopted, now, prior, tries>>
              /\ pc[q] \in {"insert", "reinsert"} /\ q \notin adopted
          BY <3>1, <4>2 DEF Insert
        <5>2. OverwriteKept'
          <6> SUFFICES ASSUME NEW p \in Requests, pc'[p] = "adopt"
                       PROVE  \E f \in adopted \cup {prior[p]} : pc'[f] = "failed"
            BY <5>1
          <6>1. p # q /\ pc[p] = "adopt" /\ prior[p] \in Requests
            BY <5>1
          <6>2. slot.run \notin Requests
            BY <4>2, IdempotencyAssumption DEF IdempotencyAssumption
          <6>3. PICK f \in adopted \cup {prior[p]} : pc[f] = "failed"
            BY <6>1, <6>2
          <6> QED
            BY <5>1, <6>1, <6>3
        <5>3. ClaimKept' /\ HoldersKept'
          BY <4>2, <5>1, ClaimIsRow, TtlClamped, RowIsNotFree DEF Claim
        <5>4. PhasesKept' /\ ReadsKept' /\ ReplaysSavedRun' /\ ConflictExplained'
          BY <4>2, <5>1, ClaimIsRow DEF Claim
        <5> QED
          BY <5>2, <5>3, <5>4
      <4> QED
        BY <4>1, <4>2
    <3>2. CASE Select(q)
      BY <3>2, TtlClamped, IdempotencyAssumption DEF Select, Expired
    <3>3. CASE Adopt(q)
      BY <3>3, ClaimIsRow, TtlClamped, RowIsNotFree DEF Adopt, Claim
    <3>4. CASE Fetch(q)
      BY <3>4 DEF Fetch
    <3>5. CASE Fire(q)
      BY <3>5 DEF Fire
    <3>6. CASE Return(q)
      BY <3>6 DEF Return
    <3>7. CASE Save(q)
      BY <3>7 DEF Save
    <3>8. CASE Release(q)
      BY <3>8 DEF Release, Owns
    <3>9. CASE Commit(q)
      BY <3>9, CompletedIsRow, RowIsNotFree DEF Commit, Complete, Owns
    <3>10. CASE Error(q)
      BY <3>10 DEF Error
    <3> QED
      BY <2>2, <3>1, <3>2, <3>3, <3>4, <3>5, <3>6, <3>7, <3>8, <3>9, <3>10 DEF Handle
  <2>3. ASSUME NEW q \in Requests, Retry(q) PROVE ClaimInv'
    <3>1. CASE Settle(q)
      BY <3>1, CompletedIsRow, RowIsNotFree DEF Settle, Complete, Owns
    <3>2. CASE Defer(q)
      BY <3>2 DEF Defer
    <3> QED
      BY <2>3, <3>1, <3>2 DEF Retry
  <2>4. ASSUME NEW q \in Requests, Drop(q) PROVE ClaimInv'
    BY <2>4 DEF Drop, Handling
  <2>5. CASE PeriodicReap
    BY <2>5, CompletedIsRow, RowIsNotFree DEF PeriodicReap, Reap
  <2>6. CASE Shutdown
    BY <2>6 DEF Shutdown
  <2>7. CASE Exit \/ Crash
    BY <2>7 DEF Exit, Crash, Stop, Handling
  <2>8. CASE Boot
    BY <2>8, CompletedIsRow, RowIsNotFree DEF Boot, Reap
  <2>9. CASE Tick
    BY <2>9 DEF Tick
  <2>10. CASE UNCHANGED vars
    BY <2>10 DEF vars
  <2> QED
    BY <2>1, <2>2, <2>3, <2>4, <2>5, <2>6, <2>7, <2>8, <2>9, <2>10 DEF Next
<1> QED
  BY <1>1, <1>2, IdempotencyTyped, PTL DEF Spec

-----------------------------------------------------------------------------
(* What the callers rely on. *)

\* The requests that count against the key: those let in that have not ended,
\* and those that fired and did not fail.
Standing ==
    {q \in Requests : \/ pc[q] \in {"run", "save", "release", "commit"}
                      \/ q \in fired /\ pc[q] # "failed"}

\* Whoever is let in takes the free place of the key or adopts; a place becomes
\* free only when its holder fails.
CountInv ==
    Cardinality(Standing) + (IF slot = Free THEN 1 ELSE 0) <= 1 + Cardinality(adopted)

\* Adding one element, or none, to a finite set; and taking elements away.
LEMMA CountsMove ==
    ASSUME NEW S, IsFiniteSet(S), NEW x, NEW T
    PROVE  /\ Cardinality(S) \in Nat
           /\ T \subseteq S => Cardinality(T) \in Nat /\ Cardinality(T) <= Cardinality(S)
           /\ T \subseteq S \cup {x} => /\ Cardinality(T) \in Nat
                                      /\ Cardinality(T) <= Cardinality(S) + 1
           /\ x \in S /\ T \subseteq S \ {x} => /\ Cardinality(T) \in Nat
                                              /\ Cardinality(T) + 1 <= Cardinality(S)
           /\ x \notin S => Cardinality(S \cup {x}) = Cardinality(S) + 1
<1>1. Cardinality(S) \in Nat
  BY FS_CardinalityType
<1>2. /\ IsFiniteSet(S \cup {x})
      /\ x \notin S => Cardinality(S \cup {x}) = Cardinality(S) + 1
      /\ Cardinality(S \cup {x}) <= Cardinality(S) + 1
      /\ Cardinality(S \cup {x}) \in Nat
  <2>1. CASE x \in S
    <3>1. S \cup {x} = S
      BY <2>1
    <3> QED
      BY <1>1, <2>1, <3>1
  <2>2. CASE x \notin S
    BY <1>1, <2>2, FS_AddElement
  <2> QED
    BY <2>1, <2>2
<1>3. IsFiniteSet(S \ {x}) /\ (x \in S => Cardinality(S \ {x}) = Cardinality(S) - 1)
  BY FS_RemoveElement
<1>4. T \subseteq S => Cardinality(T) \in Nat /\ Cardinality(T) <= Cardinality(S)
  BY FS_Subset, FS_CardinalityType
<1>5. T \subseteq S \cup {x} => Cardinality(T) \in Nat /\ Cardinality(T) <= Cardinality(S) + 1
  <2>1. T \subseteq S \cup {x} => /\ Cardinality(T) \in Nat
                                /\ Cardinality(T) <= Cardinality(S \cup {x})
    BY <1>2, FS_Subset, FS_CardinalityType
  <2> QED
    BY <1>1, <1>2, <2>1
<1>6. x \in S /\ T \subseteq S \ {x} =>
          Cardinality(T) \in Nat /\ Cardinality(T) + 1 <= Cardinality(S)
  <2>1. T \subseteq S \ {x} => /\ Cardinality(T) \in Nat
                              /\ Cardinality(T) <= Cardinality(S \ {x})
    BY <1>3, FS_Subset, FS_CardinalityType
  <2> QED
    BY <1>1, <1>3, <2>1
<1> QED
  BY <1>1, <1>2, <1>4, <1>5, <1>6

\* A step by which nobody is let in and no place becomes free.
LEMMA CountKept ==
    ASSUME IsFiniteSet(Standing), CountInv, Standing' \subseteq Standing,
           adopted' = adopted, slot' = Free => slot = Free, TypeOK
    PROVE  CountInv'
<1>1. /\ Cardinality(Standing) \in Nat
      /\ Cardinality(Standing') \in Nat
      /\ Cardinality(Standing') <= Cardinality(Standing)
  BY CountsMove
<1>2. Cardinality(adopted) \in Nat
  BY FS_Subset, FS_CardinalityType, IdempotencyAssumption
     DEF TypeOK, IdempotencyAssumption
<1> QED
  BY <1>1, <1>2 DEF CountInv

\* The places of the key are counted right at every await of every request.
THEOREM PlacesCounted == Spec => []CountInv
<1>1. Init => CountInv
  <2> SUFFICES ASSUME Init PROVE CountInv
    OBVIOUS
  <2>1. Standing = {} /\ adopted = {} /\ slot = Free
    BY DEF Init, Standing
  <2>2. Cardinality({}) = 0
    BY FS_EmptySet
  <2> QED
    BY <2>1, <2>2 DEF CountInv
<1>2. TypeOK' /\ ClaimInv /\ CountInv /\ [Next]_vars => CountInv'
  <2> SUFFICES ASSUME TypeOK', ClaimInv, CountInv, [Next]_vars PROVE CountInv'
    OBVIOUS
  <2>0. /\ TypeOK
        /\ IsFiniteSet(Standing) /\ IsFiniteSet(adopted)
        /\ Cardinality(Standing) \in Nat /\ Cardinality(adopted) \in Nat
    BY FS_Subset, FS_CardinalityType, IdempotencyAssumption
       DEF ClaimInv, TypeOK, IdempotencyAssumption, Standing
  <2> USE DEF At, Goto, process
  <2>1. ASSUME NEW q \in Requests,
               Arrive(q) \/ Select(q) \/ Fetch(q) \/ Fire(q) \/ Return(q) \/ Save(q)
                   \/ Error(q) \/ Defer(q) \/ Drop(q)
        PROVE  CountInv'
    <3>1. slot' = slot /\ adopted' = adopted
      BY <2>1 DEF Arrive, Select, Fetch, Fire, Return, Save, Error, Defer, Drop
    <3>2. CASE Arrive(q) \/ Select(q) \/ Fetch(q)
      <4>1. Standing' \subseteq Standing
        BY <2>0, <3>2 DEF Arrive, Select, Fetch, Standing, TypeOK,
           ClaimInv, PhasesKept, Claiming
      <4> QED
        BY <2>0, <3>1, <4>1, CountKept
    <3>3. CASE Fire(q) \/ Return(q) \/ Save(q) \/ Defer(q)
      <4>1. Standing' \subseteq Standing
        BY <2>0, <3>3 DEF Fire, Return, Save, Defer, Standing, TypeOK
      <4> QED
        BY <2>0, <3>1, <4>1, CountKept
    <3>4. CASE Error(q) \/ Drop(q)
      <4>1. /\ fired' = fired
            /\ \A p \in Requests \ {q} : pc'[p] = pc[p]
            /\ pc'[q] # pc[q] => pc'[q] \in {"failed", "release", "background", "dropped"}
        BY <2>0, <3>4 DEF Error, Drop, TypeOK
      <4>2. pc'[q] = "release" => pc[q] \in {"save", "release"}
        BY <2>0, <3>4 DEF Error, Drop, TypeOK
      <4>3. pc'[q] \in {"background", "dropped"} =>
               pc[q] \in {"background", "dropped"} \cup Handling
        BY <2>0, <3>4 DEF Error, Drop, TypeOK, Handling
      <4>4. pc'[q] \in {"background", "dropped"} /\ q \in fired => pc[q] # "failed"
        BY <4>3 DEF Handling
      <4>5. Standing' \subseteq Standing
        BY <4>1, <4>2, <4>4 DEF Standing
      <4> QED
        BY <2>0, <3>1, <4>5, CountKept
    <3> QED
      BY <2>1, <3>2, <3>3, <3>4
  <2>2. ASSUME NEW q \in Requests, Insert(q) PROVE CountInv'
    <3>1. adopted' = adopted
      BY <2>2 DEF Insert
    <3>2. CASE slot = Free
      <4>1. Standing' \subseteq Standing \cup {q}
        BY <2>0, <2>2, <3>2 DEF Insert, Standing, TypeOK
      <4>2. slot' # Free
        BY <2>0, <2>2, <3>2, ClaimIsRow, RowIsNotFree DEF Insert
      <4>3. Cardinality(Standing') \in Nat
            /\ Cardinality(Standing') <= Cardinality(Standing) + 1
        BY <2>0, <4>1, CountsMove
      <4> QED
        BY <2>0, <3>1, <3>2, <4>2, <4>3 DEF CountInv
    <3>3. CASE slot # Free
      <4>1. Standing' \subseteq Standing /\ slot' = slot
        BY <2>0, <2>2, <3>3 DEF Insert, Standing, TypeOK, ClaimInv, PhasesKept, Claiming
      <4> QED
        BY <2>0, <3>1, <4>1, CountKept
    <3> QED
      BY <3>2, <3>3
  <2>3. ASSUME NEW q \in Requests, Adopt(q) PROVE CountInv'
    <3>1. q \notin adopted /\ adopted' = adopted \cup {q}
      BY <2>3 DEF Adopt, ClaimInv, PhasesKept, Claiming
    <3>2. Standing' \subseteq Standing \cup {q}
      BY <2>0, <2>3 DEF Adopt, Standing, TypeOK
    <3>3. slot' = Free => slot = Free
      BY <2>0, <2>3, ClaimIsRow, RowIsNotFree DEF Adopt
    <3>4. /\ Cardinality(Standing') \in Nat
          /\ Cardinality(Standing') <= Cardinality(Standing) + 1
          /\ Cardinality(adopted') = Cardinality(adopted) + 1
      BY <2>0, <3>1, <3>2, CountsMove
    <3> QED
      BY <2>0, <3>3, <3>4 DEF CountInv
  <2>4. ASSUME NEW q \in Requests, Release(q) PROVE CountInv'
    <3>1. adopted' = adopted /\ q \in Standing
      BY <2>4 DEF Release, Standing
    <3>2. Standing' \subseteq Standing \ {q}
      BY <2>0, <2>4 DEF Release, Standing, TypeOK
    <3>3. /\ Cardinality(Standing') \in Nat
          /\ Cardinality(Standing') + 1 <= Cardinality(Standing)
      BY <2>0, <3>1, <3>2, CountsMove
    <3> QED
      BY <2>0, <3>1, <3>3 DEF CountInv
  <2>5. ASSUME NEW q \in Requests, Commit(q) \/ Settle(q) PROVE CountInv'
    <3>1. Standing' \subseteq Standing
      <4>1. CASE Commit(q)
        BY <2>0, <4>1 DEF Commit, Standing, TypeOK
      <4>2. CASE Settle(q)
        BY <2>0, <4>2 DEF Settle, Standing, TypeOK
      <4> QED
        BY <2>5, <4>1, <4>2
    <3>2. adopted' = adopted /\ (slot' = Free => slot = Free)
      BY <2>0, <2>5, CompletedIsRow, RowIsNotFree DEF Commit, Settle, Complete, Owns
    <3> QED
      BY <2>0, <3>1, <3>2, CountKept
  <2>6. CASE PeriodicReap \/ Boot
    <3>1. UNCHANGED <<pc, fired, adopted>> /\ (slot' = Free => slot = Free)
      BY <2>0, <2>6, CompletedIsRow, RowIsNotFree DEF PeriodicReap, Boot, Reap
    <3> QED
      BY <2>0, <3>1, CountKept DEF Standing
  <2>7. CASE Exit \/ Crash
    <3>1. UNCHANGED <<slot, fired, adopted>>
      BY <2>7 DEF Exit, Crash, Stop
    <3>2. Standing' \subseteq Standing
      BY <2>0, <2>7 DEF Exit, Crash, Stop, Standing, TypeOK, Handling
    <3> QED
      BY <2>0, <3>1, <3>2, CountKept
  <2>8. CASE Shutdown \/ Tick \/ UNCHANGED vars
    BY <2>0, <2>8, CountKept DEF Shutdown, Tick, vars, Standing
  <2> QED
    BY <2>1, <2>2, <2>3, <2>4, <2>5, <2>6, <2>7, <2>8 DEF Next, Handle, Retry
<1> QED
  BY <1>1, <1>2, ClaimCorrect, IdempotencyTyped, PTL DEF Spec

\* One run stands for a key: a replay finds a saved run, and each adoption of
\* an expired claim lets at most one more run fire, whatever is dropped,
\* crashes, fails to commit or is reaped (run_workflow and the statements on
\* idempotency_keys).
THEOREM OneRun == Spec => []OneRunPerKey
<1>1. ClaimInv /\ CountInv => OneRunPerKey
  <2> SUFFICES ASSUME ClaimInv, CountInv PROVE FiresOnce
    BY DEF ClaimInv, OneRunPerKey
  <2> DEFINE F == {q \in fired : q \in runs \/ pc[q] \notin {"release", "failed"}}
  <2>0. /\ IsFiniteSet(Standing) /\ Cardinality(Standing) \in Nat
        /\ Cardinality(adopted) \in Nat
    BY FS_Subset, FS_CardinalityType, IdempotencyAssumption
       DEF ClaimInv, TypeOK, IdempotencyAssumption, Standing
  <2>1. F \subseteq Standing
    BY DEF ClaimInv, PhasesKept, TypeOK, Standing
  <2>2. Cardinality(F) \in Nat /\ Cardinality(F) <= Cardinality(Standing)
    BY <2>0, <2>1, CountsMove
  <2>3. Cardinality(F) <= 1 + Cardinality(adopted)
    BY <2>0, <2>2 DEF CountInv
  <2> QED
    BY <2>3 DEF FiresOnce
<1> QED
  BY <1>1, ClaimCorrect, PlacesCounted, PTL

\* Who takes over an expired claim has read it more than TtlMin after it was
\* made, and is a different request; a younger claim can be overwritten only
\* where another adopter, or a release and a new insert, came between the SELECT
\* and the UPDATE; and without an adoption nobody is told of a conflict other
\* than with the reaper that was faster.
THEOREM AdoptionsExplained == Spec => []AdoptionExplained
<1>1. ClaimInv => AdoptionExplained
  <2> SUFFICES ASSUME ClaimInv PROVE AdoptionExplained
    OBVIOUS
  <2>1. ReadLate
    BY DEF ClaimInv, ReadsKept, ReadLate, TypeOK
  <2>2. OverwritesExplained
    <3> SUFFICES ASSUME NEW q \in Requests, pc[q] = "adopt", slot # Free,
                        now[q] <= now[slot.run] + TtlMin
                 PROVE  \/ slot.run \in adopted
                        \/ \E f \in adopted \cup {prior[q]} : pc[f] = "failed"
      BY DEF OverwritesExplained
    <3>1. now[q] > now[prior[q]] + TtlMin /\ prior[q] \in Requests
      BY DEF ClaimInv, ReadsKept
    <3>2. now[q] \in Int /\ now[prior[q]] \in Int /\ TtlMin \in Int
      BY <3>1, IdempotencyAssumption DEF ClaimInv, TypeOK, IdempotencyAssumption
    <3>3. slot.run # prior[q]
      BY <3>1, <3>2
    <3> QED
      BY <3>3 DEF ClaimInv, OverwriteKept
  <2> QED
    BY <2>1, <2>2 DEF ClaimInv, AdoptionExplained
<1> QED
  BY <1>1, ClaimCorrect, PTL

\* A row disappears only by the release of the run that holds it: nobody else,
\* neither the reaper nor a late commit of a request that lost its claim, frees
\* the key (release_idempotency_key is guarded by run_id and status).
THEOREM FreedByOwner == Spec => ReleasedByOwner
<1>1. TypeOK /\ [Next]_vars =>
        [slot # Free /\ slot' = Free =>
            /\ slot.status = "in_progress"
            /\ pc[slot.run] = "release" /\ pc'[slot.run] = "failed"]_vars
  <2> SUFFICES ASSUME TypeOK, Next, slot # Free, slot' = Free
               PROVE  \E q \in Requests : Release(q)
    BY DEF Release, Owns, At, Goto, TypeOK
  <2> USE RowIsNotFree
  <2>1. slot.status = "in_progress" =>
           [slot EXCEPT !.status = "completed"] # Free
    BY CompletedIsRow
  <2>2. ASSUME NEW q \in Requests PROVE Claim(q) # Free
    BY ClaimIsRow
  <2>3. ASSUME NEW q \in Requests, Arrive(q) \/ Handle(q) \/ Retry(q) \/ Drop(q)
        PROVE  Release(q)
    BY <2>1, <2>2, <2>3
       DEF Arrive, Handle, Retry, Drop, Insert, Select, Adopt, Fetch, Fire, Return,
           Save, Commit, Settle, Complete, Owns, Error, Defer
  <2>4. ~(PeriodicReap \/ Shutdown \/ Exit \/ Crash \/ Boot \/ Tick)
    BY <2>1 DEF PeriodicReap, Shutdown, Exit, Crash, Stop, Boot, Reap, Tick
  <2> QED
    BY <2>3, <2>4 DEF Next
<1> QED
  BY <1>1, IdempotencyTyped, PTL DEF Spec, ReleasedByOwner
=============================================================================
