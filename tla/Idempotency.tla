---------------------------- MODULE Idempotency ----------------------------
(***************************************************************************)
(* POST /workflows/{id}/run under an idempotency key: the two-phase claim  *)
(* of crates/a2w-server/src/handlers.rs (run_workflow) on the table        *)
(* idempotency_keys of crates/a2w-store/src/lib.rs, with the commit retry  *)
(* that outlives the request, the reaper of main.rs, the request timeout,  *)
(* shutdown and crashes.                                                   *)
(*                                                                         *)
(* Every SQL statement is scoped by the primary key (workflow_id, key), so *)
(* the module follows one such pair, and Requests are the requests that    *)
(* carry it.  A statement is atomic and nothing spans two of them.  A      *)
(* request mints one run id, so a request also names its run.  The run     *)
(* itself (Engine) is abstracted to whether executors were called and to   *)
(* its outcome; one that got as far as calling executors has fired.        *)
(***************************************************************************)
EXTENDS Integers, FiniteSets

CONSTANTS
    Requests,        \* requests under one (workflow, key), and their run ids
    None,            \* no run
    TtlRequested,    \* A2W_IDEMPOTENCY_TTL_SECS
    TtlMin, TtlMax,  \* the clamp of the store: 60 s, and 7 days or the env's
    CommitAttempts,  \* attempts of the handler (5)
    RetryAttempts,   \* attempts of the background task (5)
    TolerateReap,    \* A2W_TOLERATE_STARTUP_REAP_FAILURE
    MaxClock,        \* bound: the clock stops there
    MaxBoots         \* bound: times the process comes up again

ASSUME IdempotencyAssumption ==
    /\ IsFiniteSet(Requests)
    /\ None \notin Requests
    /\ TtlRequested \in Int
    /\ TtlMin \in Nat /\ TtlMax \in Nat /\ TtlMin <= TtlMax
    /\ CommitAttempts \in Nat \ {0} /\ RetryAttempts \in Nat \ {0}
    /\ TolerateReap \in BOOLEAN
    /\ MaxClock \in Nat /\ MaxBoots \in Nat

VARIABLES
    clock,   \* seconds since the start, of whatever length
    server,  \* the process: "up", "draining" after SIGTERM, "down"
    boots,   \* restarts so far
    slot,    \* the row of idempotency_keys; status "free" when there is none
    runs,    \* the run ids in table runs
    fired,   \* the requests whose run called executors
    adopted, \* history: the requests that were let in on an expired claim
    pc,      \* pc[q]: the await request q, or its background task, is at
    now,     \* now[q]: the time read at the start of the claim
    prior,   \* prior[q]: the run the claim found in the row
    tries    \* tries[q]: phase-2 commits that failed

vars == <<clock, server, boots, slot, runs, fired, adopted, pc, now, prior, tries>>

\* The awaits of a claim, of the run and of the commit ...
Handling == {"insert", "select", "adopt", "reinsert", "fetch",
             "run", "save", "release", "commit"}
\* ... and what the caller was told: its own run, with a warning of a conflict
\* or of a pending commit; the run of an earlier request, or 503 when that run
\* is missing; 409; an error; or nothing, as the request was dropped.
Answered == {"ran", "ran_conflict", "replayed", "missing", "conflict",
             "failed", "dropped"}
\* The background task of a pending commit, and how it ended.
Deferred == {"background", "settled", "settled_conflict", "abandoned"}

Free == [run |-> None, status |-> "free", expires |-> 0]
Row == [run : Requests, status : {"in_progress", "completed"}, expires : Nat]

\* The type invariant: in particular a row that is not in progress for or
\* completed by some request is no row at all.
TypeOK ==
    /\ clock \in 0..MaxClock
    /\ server \in {"up", "draining", "down"}
    /\ boots \in 0..MaxBoots
    /\ slot \in Row \cup {Free}
    /\ runs \subseteq Requests
    /\ fired \subseteq Requests
    /\ adopted \subseteq Requests
    /\ pc \in [Requests -> {"idle"} \cup Handling \cup Answered \cup Deferred]
    /\ now \in [Requests -> 0..MaxClock]
    /\ prior \in [Requests -> Requests \cup {None}]
    /\ tries \in [Requests -> Nat]

Init ==
    /\ clock = 0
    /\ server = "up"
    /\ boots = 0
    /\ slot = Free
    /\ runs = {}
    /\ fired = {}
    /\ adopted = {}
    /\ pc = [q \in Requests |-> "idle"]
    /\ now = [q \in Requests |-> 0]
    /\ prior = [q \in Requests |-> None]
    /\ tries = [q \in Requests |-> 0]

-----------------------------------------------------------------------------
\* Mutant: the configured TTL is taken as it is.
TtlUnclamped == TtlRequested

Ttl == IF TtlRequested < TtlMin THEN TtlMin
       ELSE IF TtlRequested > TtlMax THEN TtlMax ELSE TtlRequested

Claim(q) == [run |-> q, status |-> "in_progress", expires |-> now[q] + Ttl]

\* Mutant: the statements ask for an in-progress row, but not for their own.
OwnsAny(q) == slot.status = "in_progress"

\* The guard of complete_idempotency_key and release_idempotency_key.
Owns(q) == slot.status = "in_progress" /\ slot.run = q

Expired(q) == slot.status = "in_progress" /\ now[q] > slot.expires

Serving == server \in {"up", "draining"}

At(q, await) == Serving /\ pc[q] = await

Goto(q, await) == pc' = [pc EXCEPT ![q] = await]

process == <<clock, server, boots>>

-----------------------------------------------------------------------------
(* claim_idempotency_key *)

\* The workflow is loaded; the claim reads the time.
Arrive(q) ==
    /\ server = "up"
    /\ pc[q] = "idle"
    /\ now' = [now EXCEPT ![q] = clock]
    /\ Goto(q, "insert")
    /\ UNCHANGED <<process, slot, runs, fired, adopted, prior, tries>>

\* Mutant: INSERT OR REPLACE.
InsertOrReplace(q) ==
    /\ At(q, "insert") \/ At(q, "reinsert")
    /\ slot' = Claim(q) /\ Goto(q, "run")
    /\ UNCHANGED <<process, runs, fired, adopted, now, prior, tries>>

\* INSERT OR IGNORE, the second time after a row that vanished.
Insert(q) ==
    /\ At(q, "insert") \/ At(q, "reinsert")
    /\ IF slot = Free THEN slot' = Claim(q) /\ Goto(q, "run")
       ELSE slot' = slot /\ Goto(q, IF pc[q] = "insert" THEN "select" ELSE "conflict")
    /\ UNCHANGED <<process, runs, fired, adopted, now, prior, tries>>

Select(q) ==
    /\ At(q, "select")
    /\ Goto(q, IF slot = Free THEN "reinsert"
               ELSE IF slot.status = "completed" THEN "fetch"
               ELSE IF Expired(q) THEN "adopt" ELSE "conflict")
    /\ prior' = [prior EXCEPT ![q] = slot.run]
    /\ UNCHANGED <<process, slot, runs, fired, adopted, now, tries>>

\* UPDATE of an expired row, guarded by the primary key alone.
Adopt(q) ==
    /\ At(q, "adopt")
    /\ slot' = IF slot = Free THEN slot ELSE Claim(q)
    /\ adopted' = adopted \cup {q}
    /\ Goto(q, "run")
    /\ UNCHANGED <<process, runs, fired, now, prior, tries>>

\* Completed: answer with the run the row names.
Fetch(q) ==
    /\ At(q, "fetch")
    /\ Goto(q, IF prior[q] \in runs THEN "replayed" ELSE "missing")
    /\ UNCHANGED <<process, slot, runs, fired, adopted, now, prior, tries>>

-----------------------------------------------------------------------------
(* The run and its commit. *)

Fire(q) ==
    /\ At(q, "run")
    /\ q \notin fired
    /\ fired' = fired \cup {q}
    /\ UNCHANGED <<process, slot, runs, adopted, pc, now, prior, tries>>

\* The engine returns: an Err releases the claim.
Return(q) ==
    /\ At(q, "run")
    /\ \E await \in {"save", "release"} : Goto(q, await)
    /\ UNCHANGED <<process, slot, runs, fired, adopted, now, prior, tries>>

\* save_run_full is one transaction.
Save(q) ==
    /\ At(q, "save")
    /\ runs' = runs \cup {q}
    /\ Goto(q, "commit")
    /\ UNCHANGED <<process, slot, fired, adopted, now, prior, tries>>

Release(q) ==
    /\ At(q, "release")
    /\ slot' = IF Owns(q) THEN Free ELSE slot
    /\ Goto(q, "failed")
    /\ UNCHANGED <<process, runs, fired, adopted, now, prior, tries>>

\* Mutant: the UPDATE is unguarded.
CompleteAny(q) == slot' = [slot EXCEPT !.status = "completed"]

Complete(q) ==
    slot' = IF Owns(q) THEN [slot EXCEPT !.status = "completed"] ELSE slot

Commit(q) ==
    /\ At(q, "commit")
    /\ Complete(q)
    /\ Goto(q, IF Owns(q) THEN "ran" ELSE "ran_conflict")
    /\ UNCHANGED <<process, runs, fired, adopted, now, prior, tries>>

\* A statement fails.  A claim, a fetch or a release answers with the error; a
\* save releases the claim first; a commit is tried again, and handed to a
\* background task, answering 200 with a warning, after the last attempt or
\* when the shutdown interrupts the backoff.
Error(q) ==
    \/ /\ \E await \in {"insert", "reinsert", "select", "adopt", "fetch", "release"} :
             At(q, await)
       /\ Goto(q, "failed")
       /\ UNCHANGED <<process, slot, runs, fired, adopted, now, prior, tries>>
    \/ /\ At(q, "save")
       /\ Goto(q, "release")
       /\ UNCHANGED <<process, slot, runs, fired, adopted, now, prior, tries>>
    \/ /\ At(q, "commit")
       /\ tries[q] + 1 < CommitAttempts
       /\ tries' = [tries EXCEPT ![q] = @ + 1]
       /\ UNCHANGED <<process, slot, runs, fired, adopted, pc, now, prior>>
    \/ /\ At(q, "commit")
       /\ tries[q] + 1 = CommitAttempts \/ server = "draining"
       /\ tries' = [tries EXCEPT ![q] = 0]
       /\ Goto(q, "background")
       /\ UNCHANGED <<process, slot, runs, fired, adopted, now, prior>>

\* The background task commits, or fails; a shutdown leaves it one attempt.
Settle(q) ==
    /\ At(q, "background")
    /\ Complete(q)
    /\ Goto(q, IF Owns(q) THEN "settled" ELSE "settled_conflict")
    /\ UNCHANGED <<process, runs, fired, adopted, now, prior, tries>>

\* Mutant: after the last backoff the background task starts over.
DeferForever(q) ==
    /\ At(q, "background")
    /\ tries' = [tries EXCEPT ![q] = (@ + 1) % RetryAttempts]
    /\ UNCHANGED <<process, slot, runs, fired, adopted, pc, now, prior>>

Defer(q) ==
    /\ At(q, "background")
    /\ tries' = [tries EXCEPT ![q] = @ + 1]
    /\ \/ /\ tries[q] + 1 < RetryAttempts
          /\ pc' = pc
       \/ /\ tries[q] + 1 = RetryAttempts \/ server = "draining"
          /\ Goto(q, "abandoned")
    /\ UNCHANGED <<process, slot, runs, fired, adopted, now, prior>>

-----------------------------------------------------------------------------
(* The process. *)

\* TimeoutLayer, or the client's disconnect, drops the handler at an await.
Drop(q) ==
    /\ Serving
    /\ pc[q] \in Handling
    /\ Goto(q, "dropped")
    /\ UNCHANGED <<process, slot, runs, fired, adopted, now, prior, tries>>

\* Mutants: a reaper that frees the row; one that waits until it expires.
ReapAway == slot' = IF slot.status = "in_progress" /\ slot.run \in runs
                    THEN Free ELSE slot

ReapExpired ==
    slot' = IF /\ slot.status = "in_progress" /\ slot.run \in runs
               /\ clock > slot.expires
            THEN [slot EXCEPT !.status = "completed"] ELSE slot

\* reap_stranded_idempotency_claims, every minute and before serving.
Reap == slot' = IF slot.status = "in_progress" /\ slot.run \in runs
                THEN [slot EXCEPT !.status = "completed"] ELSE slot

PeriodicReap ==
    /\ Serving
    /\ Reap
    /\ UNCHANGED <<process, runs, fired, adopted, pc, now, prior, tries>>

Shutdown ==
    /\ server = "up"
    /\ server' = "draining"
    /\ UNCHANGED <<clock, boots, slot, runs, fired, adopted, pc, now, prior, tries>>

\* The process ends: handlers and background tasks are gone.
Stop ==
    /\ server' = "down"
    /\ pc' = [q \in Requests |-> IF pc[q] \in Handling THEN "dropped"
                                 ELSE IF pc[q] = "background" THEN "abandoned"
                                 ELSE pc[q]]
    /\ UNCHANGED <<clock, boots, slot, runs, fired, adopted, now, prior, tries>>

\* A graceful exit waits for every handler, and for the background tasks only
\* as long as the drain budget lasts.
Exit ==
    /\ server = "draining"
    /\ \A q \in Requests : pc[q] \notin Handling
    /\ Stop

Crash == Serving /\ Stop

\* The startup reap precedes the listener; its failure is fatal unless
\* tolerated.
Boot ==
    /\ server = "down"
    /\ boots < MaxBoots
    /\ server' = "up"
    /\ boots' = boots + 1
    /\ Reap \/ (TolerateReap /\ slot' = slot)
    /\ UNCHANGED <<clock, runs, fired, adopted, pc, now, prior, tries>>

Tick ==
    /\ clock < MaxClock
    /\ clock' = clock + 1
    /\ UNCHANGED <<server, boots, slot, runs, fired, adopted, pc, now, prior, tries>>

-----------------------------------------------------------------------------
Handle(q) ==
    \/ Insert(q) \/ Select(q) \/ Adopt(q) \/ Fetch(q)
    \/ Fire(q) \/ Return(q) \/ Save(q) \/ Release(q) \/ Commit(q)
    \/ Error(q)

Retry(q) == Settle(q) \/ Defer(q)

Next ==
    \/ \E q \in Requests : Arrive(q) \/ Handle(q) \/ Retry(q) \/ Drop(q)
    \/ PeriodicReap \/ Shutdown \/ Exit \/ Crash \/ Boot \/ Tick

Spec == Init /\ [][Next]_vars

\* Statements return, and so does the run, or else the request timeout drops
\* the handler: TimeoutLayer is always installed, and a run that waits for a
\* silent peer has no other end.  The backoffs of the background task are
\* finite, the reaper is a timer loop that a shutdown ends, the drain has a
\* deadline, and an operator starts the process again.  Arrivals, errors,
\* early drops, crashes, a shutdown and the clock are owed to nobody; a
\* statement that keeps failing runs out of attempts.
Fairness ==
    /\ \A q \in Requests : WF_vars(Handle(q) \/ Drop(q)) /\ WF_vars(Retry(q))
    /\ WF_vars(server = "up" /\ PeriodicReap)
    /\ WF_vars(Exit) /\ WF_vars(Boot)

FairSpec == Spec /\ Fairness

-----------------------------------------------------------------------------
(* Safety. *)

\* A row says "completed" only of a run that was saved, whoever completed it,
\* and runs are kept: so a replay always finds the run it promises, and the
\* 503 of a missing run cannot happen.
ReplaysSavedRun ==
    /\ slot.status = "completed" => slot.run \in runs
    /\ \A q \in Requests : /\ pc[q] = "replayed" => prior[q] \in runs
                           /\ pc[q] # "missing"

\* Apart from unsaved runs that ended in an error reported to the caller, one
\* run fires under the key, and at most one more for each time an expired claim
\* is adopted: whatever is dropped, crashes, fails to commit or is reaped in
\* between, and whichever of several adopters writes last.
FiresOnce ==
    Cardinality({q \in fired : q \in runs \/ pc[q] \notin {"release", "failed"}})
        <= 1 + Cardinality(adopted)

\* Nobody sets out to adopt a claim before it is TtlMin old, also when the
\* configuration asks for less: the claim an adopter READ was made that long
\* before the adopter came.
ReadLate ==
    \A q \in adopted : prior[q] # q /\ now[q] > now[prior[q]] + TtlMin

\* What the UPDATE of an adopter overwrites may be younger than what it read,
\* as it is guarded by the key alone.  A claim within TtlMin of the adopter's
\* arrival is in danger of it only in two races: it belongs to another adopter
\* of the key, or the claim before it was released and the key inserted anew.
OverwritesExplained ==
    \A q \in Requests :
        pc[q] = "adopt" /\ slot # Free /\ now[q] <= now[slot.run] + TtlMin =>
            \/ slot.run \in adopted
            \/ \E f \in adopted \cup {prior[q]} : pc[f] = "failed"

\* A request is told of a conflict only after an adoption took the row from
\* somebody, or when its own run is canonical because the reaper was faster.
ConflictExplained ==
    \A q \in Requests :
        pc[q] \in {"ran_conflict", "settled_conflict"} =>
            \/ slot.run = q /\ slot.status = "completed"
            \/ adopted # {}

\* One run stands for a key: whoever asks again is handed the run that was saved,
\* and each adoption of an expired claim is a reason to fire once more.
OneRunPerKey == TypeOK /\ FiresOnce /\ ReplaysSavedRun

\* Adoptions: an adopter has read a claim that was old enough, overwrites
\* another only after a race, and without one nobody is told of a conflict.
AdoptionExplained == ReadLate /\ OverwritesExplained /\ ConflictExplained

\* A row disappears only by the release of the run that holds it: a request
\* that lost its claim cannot free the key under its adopter, and a completed
\* row is never freed.
ReleasedByOwner ==
    [][slot # Free /\ slot' = Free =>
          /\ slot.status = "in_progress"
          /\ pc[slot.run] = "release" /\ pc'[slot.run] = "failed"]_vars

-----------------------------------------------------------------------------
(* Liveness, under FairSpec. *)

\* A saved run does not hold its key in progress for ever, even when every
\* commit failed and the process died: unless the process stays down, the
\* reaper finalizes the row (or an adopter takes it).
StrandedFinalized ==
    \/ <>[](server = "down")
    \/ \A q \in Requests : Owns(q) /\ q \in runs ~> ~Owns(q)

\* Every request is answered or dropped, and every background task ends.
EveryRequestEnds ==
    \A q \in Requests :
        pc[q] \in Handling \cup {"background"}
            ~> pc[q] \notin Handling \cup {"background"}
=============================================================================
