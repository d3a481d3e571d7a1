-------------------------- MODULE NodeCallsProofs --------------------------
(***************************************************************************)
(* Proofs about NodeCalls: for any number of items and attempts, any cap   *)
(* and any addresses, what the nodes call for and report is sound at every *)
(* await, and a request goes where the guard said it may.                  *)
(*                                                                         *)
(* The argument is about earlier attempts.  A retry starts again with the  *)
(* first item, so the calls of one attempt are those for a prefix of the   *)
(* items; PrefixInv says this of all the earlier attempts together, and    *)
(* ReportInv counts the calls whose answer never came: one per attempt.    *)
(***************************************************************************)
EXTENDS NodeCalls, FiniteSetTheorems, TLAPS

\* Where the call for the current item has gone out in this attempt.
AfterCall == {"waiting", "body", "tool", "completion", "sandboxed"}

\* ... and where its answer is still awaited.
Awaiting == {"waiting", "tool", "completion"}

HttpPlaces == {"lookup", "headers", "credential", "send", "waiting", "body"}
McpPlaces == {"spawn", "handshake", "tool"}

\* Whether the running attempt has called for item i, and how often earlier
\* attempts did.
CalledNow(i) == i < item \/ (i = item /\ pc \in AfterCall)
Earlier(i) == IF CalledNow(i) THEN sent[i] - 1 ELSE sent[i]

\* Every executor stays in the places of its own code, and a dry run in none.
PlacesInv ==
    /\ mode \in {"run", "dry_run"}
    /\ pc = "start" => item = 1
    /\ pc \in HttpPlaces => kind = "http_request"
    /\ pc \in McpPlaces => kind = "mcp_tool_call"
    /\ pc = "completion" => kind = "llm_call"
    /\ pc = "sandboxed" => kind = "code_step"
    /\ mode = "dry_run" => pc \in Over \cup {"start"}

\* Earlier attempts called for a prefix of the items each, so that an item was
\* called for once per earlier attempt at most, and no more often than the items
\* before it.
PrefixInv ==
    /\ pc \notin Over =>
          /\ \A i \in Items : Earlier(i) \in 0..(attempt - 1)
          /\ \A i, j \in Items : i < j => Earlier(j) <= Earlier(i)
    /\ RepeatsThePrefix

\* One call may have gone unreported in every earlier attempt, and one more
\* whose answer is awaited.
ReportInv ==
    LET made == Cardinality(CallsMade)
    IN  /\ kind = "code_step" => metric = 0
        /\ kind # "code_step" =>
              /\ metric <= made
              /\ pc \in Awaiting => metric + 1 <= made
              /\ pc \in {"failed", "cancelled"} \cup Awaiting => made <= metric + attempt
              /\ pc \notin {"failed", "cancelled"} \cup Awaiting =>
                    made <= metric + attempt - 1

\* What the checks of http_request leave behind for the request.
CheckedInv ==
    /\ pc \in {"lookup", "headers", "credential", "send"} => Permitted(url[item])
    /\ pc \in {"headers", "credential", "send"} =>
          /\ pinned \in Addresses
          /\ policy.block_private => pinned \notin Private
    /\ pc = "send" /\ auth => secret

\* A child process or a blocking thread runs exactly where the code waits for it;
\* a dropped run may leave one of them.
LeftInv ==
    /\ pc \in {"handshake", "tool"} => children = 1
    /\ pc \notin {"handshake", "tool", "cancelled"} => children = 0
    /\ pc = "sandboxed" => sandbox = 1
    /\ pc \notin {"sandboxed", "cancelled"} => sandbox = 0
    /\ children + sandbox <= 1

CallsInv ==
    /\ TypeOK /\ PlacesInv /\ PrefixInv /\ ReportInv /\ CheckedInv /\ LeftInv
    /\ PrivateNotReached /\ DryRunCallsNobody

-----------------------------------------------------------------------------
(* The moves of an execution, as far as its calls are concerned. *)

Ahead == pc \notin Over /\ pc' \notin Over \cup {"start"} /\ UNCHANGED <<mode, attempt, item, size>>

\* The node goes on without a call, ...
GoesOn == Ahead /\ (pc' \in AfterCall <=> pc \in AfterCall) /\ sent' = sent
\* ... calls for its item, ...
CallsOut == Ahead /\ pc \notin AfterCall /\ pc' \in AfterCall /\ Calls
\* ... gives the attempt up, ...
GivesUp == pc \notin Over /\ Give /\ sent' = sent
\* ... is done with an item, ...
GetsDone == pc \in AfterCall /\ Done /\ sent' = sent
\* ... or stops, or has stopped.
Stops ==
    /\ \/ mode = "dry_run" /\ pc = "start" /\ pc' = "finished"
       \/ pc \notin Over /\ pc' = "cancelled"
       \/ pc' = pc
    /\ sent' = sent /\ UNCHANGED <<mode, attempt, item, size>>

\* Every step is one of these moves.
LEMMA MovesOnly ==
    ASSUME TypeOK, PlacesInv, [Next]_vars
    PROVE  GoesOn \/ CallsOut \/ GivesUp \/ GetsDone \/ Stops
<1> USE DEF TypeOK, PlacesInv, Over, AfterCall, HttpPlaces, McpPlaces, Ahead, At, Goto,
            vars, node, call, world
<1>1. CASE UNCHANGED vars
      BY <1>1 DEF Stops
<1>2. CASE DryRun \/ Parse \/ Cancel \/ SandboxEnds \/ ChildKilled
      BY <1>2 DEF DryRun, Parse, Cancel, SandboxEnds, ChildKilled, Orphaned,
                  Stops, GivesUp, GoesOn
<1>3. CASE CheckUrl \/ Lookup \/ LookupFails \/ Headers \/ Credential
      BY <1>3 DEF CheckUrl, Lookup, LookupFails, Headers, Credential, GivesUp, GoesOn
<1>4. CASE Send \/ SendFails \/ Response \/ NoResponse \/ \E c \in 1..2 : Chunk(c)
      BY <1>4 DEF Send, SendFails, Response, NoResponse, Chunk, GivesUp, GoesOn, CallsOut
<1>5. CASE BodyFails \/ BodyEnds \/ CheckCommand \/ Spawn \/ SpawnFails
      BY <1>5 DEF BodyFails, BodyEnds, CheckCommand, Spawn, SpawnFails, GivesUp, GoesOn,
                  GetsDone
<1>6. CASE Ask \/ TooLarge \/ RunWasm \/ WasmReturns \/ WasmFails
      BY <1>6 DEF Ask, TooLarge, RunWasm, WasmReturns, WasmFails, GivesUp, CallsOut, GetsDone
<1>7. CASE Patient
      BY <1>7 DEF Patient, Handshake, HandshakeFails, ToolReturns, ToolFails, Completion,
                  CompletionFails, GivesUp, CallsOut, GetsDone
<1>8. QED
      BY <1>1, <1>2, <1>3, <1>4, <1>5, <1>6, <1>7 DEF Next, Prompt

-----------------------------------------------------------------------------
(* Every attempt calls for a prefix of the items. *)

\* Earlier is a number no greater than sent.
LEMMA EarlierCalls ==
    ASSUME TypeOK, NEW i \in Items
    PROVE  /\ sent[i] \in Nat /\ Earlier(i) \in Int
           /\ CalledNow(i) => sent[i] = Earlier(i) + 1
           /\ ~CalledNow(i) => sent[i] = Earlier(i)
BY NodeCallsAssumption DEF TypeOK, Earlier

LEMMA PrefixStep ==
    ASSUME TypeOK, PlacesInv, PrefixInv, [Next]_vars, TypeOK', PlacesInv'
    PROVE  PrefixInv'
<1> USE NodeCallsAssumption
<1>0. GoesOn \/ CallsOut \/ GivesUp \/ GetsDone \/ Stops
      BY MovesOnly
<1>1. CASE GoesOn
      BY <1>1 DEF GoesOn, Ahead, PrefixInv, Earlier, CalledNow, RepeatsThePrefix, Over
<1>2. CASE CallsOut
      <2>1. \A i \in Items : Earlier(i)' = Earlier(i)
            BY <1>2 DEF CallsOut, Ahead, Calls, Earlier, CalledNow, TypeOK, Items
      <2>2. \A i \in Items : sent'[i] = IF CalledNow(i)' THEN Earlier(i) + 1 ELSE Earlier(i)
            BY <1>2 DEF CallsOut, Ahead, Calls, Earlier, CalledNow, TypeOK, Items
      <2>3. \A i, j \in Items : i < j /\ CalledNow(j)' => CalledNow(i)'
            BY DEF CalledNow, TypeOK, Items
      <2>4. \A i \in Items : Earlier(i) \in 0..(attempt - 1)
            BY <1>2 DEF CallsOut, Ahead, PrefixInv
      <2>5. \A i, j \in Items : i < j => Earlier(j) <= Earlier(i)
            BY <1>2 DEF CallsOut, Ahead, PrefixInv
      <2>6. RepeatsThePrefix'
            <3> HIDE DEF CalledNow, Earlier
            <3>1. \A i \in Items : sent'[i] <= attempt'
                  BY <1>2, <2>2, <2>4 DEF CallsOut, Ahead, TypeOK
            <3>2. \A i, j \in Items : i < j => sent'[j] <= sent'[i]
                  BY <2>2, <2>3, <2>4, <2>5 DEF TypeOK
            <3>3. QED
                  BY <1>2, <3>1, <3>2 DEF RepeatsThePrefix, CallsOut, Ahead, Over
      <2>7. QED
            BY <1>2, <2>1, <2>4, <2>5, <2>6 DEF CallsOut, Ahead, PrefixInv
<1>3. CASE GivesUp
      <2>1. item' = 1 /\ sent' = sent /\ pc' \notin AfterCall
            BY <1>3 DEF GivesUp, Give, AfterCall
      <2>2. \A i \in Items : Earlier(i)' = sent[i]
            BY <2>1 DEF Earlier, CalledNow, Items
      <2>3. QED
            BY <1>3, <2>1, <2>2 DEF GivesUp, Give, PrefixInv, RepeatsThePrefix, Over, TypeOK
<1>4. CASE GetsDone
      <2> USE DEF GetsDone, Done, AfterCall, Over
      <2>1. CASE item = size
            <3>1. \A i \in 1..size : i \in Items /\ CalledNow(i)
                  BY <1>4, <2>1 DEF CalledNow, TypeOK, Items
            <3>2. \A i \in 1..size : Earlier(i) >= 0
                  BY <1>4, <3>1 DEF PrefixInv, TypeOK
            <3>3. \A i \in 1..size : sent[i] >= 1
                  BY <3>1, <3>2, EarlierCalls
            <3>4. QED
                  BY <1>4, <2>1, <3>3 DEF PrefixInv, RepeatsThePrefix, TypeOK, node
      <2>2. CASE item # size
            <3>1. \A i \in Items : Earlier(i)' = Earlier(i)
                  BY <1>4, <2>2 DEF Earlier, CalledNow, TypeOK, Items
            <3>2. QED
                  BY <1>4, <2>2, <3>1 DEF PrefixInv, RepeatsThePrefix
      <2>3. QED
            BY <2>1, <2>2
<1>5. CASE Stops
      BY <1>5 DEF Stops, PrefixInv, RepeatsThePrefix, Earlier, CalledNow, Over
<1>6. QED
      BY <1>0, <1>1, <1>2, <1>3, <1>4, <1>5

-----------------------------------------------------------------------------
(* What is reported against what was called. *)

\* The calls can be counted.
LEMMA CallsFinite ==
    ASSUME TypeOK
    PROVE  IsFiniteSet(CallsMade) /\ Cardinality(CallsMade) \in Nat
<1>1. IsFiniteSet(Items) /\ IsFiniteSet(1..MaxAttempts)
      BY NodeCallsAssumption, FS_Interval DEF Items
<1>2. IsFiniteSet(Items \X (1..MaxAttempts))
      BY <1>1, FS_Product
<1>3. CallsMade \subseteq Items \X (1..MaxAttempts)
      BY DEF CallsMade
<1>4. QED
      BY <1>2, <1>3, FS_Subset, FS_CardinalityType

\* A call that goes out is one more.
LEMMA OneMoreCall ==
    ASSUME TypeOK, TypeOK', Calls
    PROVE  Cardinality(CallsMade') = Cardinality(CallsMade) + 1
<1> DEFINE c == <<item, sent[item] + 1>>
<1>1. item \in Items /\ sent[item] \in Nat /\ sent[item] + 1 \in 1..MaxAttempts
      BY NodeCallsAssumption DEF TypeOK, Calls, Items
<1>2. c \notin CallsMade
      BY <1>1 DEF CallsMade
<1>3. CallsMade' = CallsMade \cup {c}
      <2>1. ASSUME NEW d \in Items \X (1..MaxAttempts)
            PROVE  d[2] <= sent'[d[1]] <=> d[2] <= sent[d[1]] \/ d = c
            BY <1>1 DEF Calls, TypeOK
      <2>2. c \in Items \X (1..MaxAttempts)
            BY <1>1
      <2>3. QED
            BY <2>1, <2>2 DEF CallsMade
<1>4. QED
      BY <1>2, <1>3, CallsFinite, FS_AddElement

LEMMA ReportStep ==
    ASSUME TypeOK, PlacesInv, ReportInv, [Next]_vars, TypeOK', PlacesInv'
    PROVE  ReportInv'
<1> DEFINE made == Cardinality(CallsMade)
<1> USE DEF TypeOK, PlacesInv, Over, Awaiting, HttpPlaces, McpPlaces, At, Goto, Give, Done,
            vars, node, call, world, Reported
<1>1. made \in Nat
      BY CallsFinite
<1>2. sent' = sent => made' = made
      BY DEF CallsMade
<1>3. Calls => made' = made + 1
      BY OneMoreCall
<1>4. ReportInv <=> 
          /\ kind = "code_step" => metric = 0
          /\ kind # "code_step" =>
                /\ metric <= made
                /\ pc \in Awaiting => metric + 1 <= made
                /\ pc \in {"failed", "cancelled"} \cup Awaiting => made <= metric + attempt
                /\ pc \notin {"failed", "cancelled"} \cup Awaiting =>
                      made <= metric + attempt - 1
      BY DEF ReportInv
<1>5. ReportInv' <=>
          /\ kind' = "code_step" => metric' = 0
          /\ kind' # "code_step" =>
                /\ metric' <= made'
                /\ pc' \in Awaiting => metric' + 1 <= made'
                /\ pc' \in {"failed", "cancelled"} \cup Awaiting => made' <= metric' + attempt'
                /\ pc' \notin {"failed", "cancelled"} \cup Awaiting =>
                      made' <= metric' + attempt' - 1
      BY DEF ReportInv
<1> HIDE DEF made
<1>6. CASE UNCHANGED vars
      BY <1>6, <1>1, <1>2, <1>4, <1>5
<1>7. CASE DryRun \/ Parse \/ Cancel \/ SandboxEnds \/ ChildKilled
      BY <1>7, <1>1, <1>2, <1>4, <1>5 DEF DryRun, Parse, Cancel, SandboxEnds, ChildKilled, Orphaned
<1>8. CASE CheckUrl \/ Lookup \/ LookupFails \/ Headers \/ Credential
      BY <1>8, <1>1, <1>2, <1>4, <1>5 DEF CheckUrl, Lookup, LookupFails, Headers, Credential
<1>9. CASE Send \/ SendFails \/ Response \/ NoResponse \/ \E c \in 1..2 : Chunk(c)
      BY <1>9, <1>1, <1>2, <1>3, <1>4, <1>5 DEF Send, SendFails, Response, NoResponse, Chunk
<1>10. CASE BodyFails \/ BodyEnds \/ CheckCommand \/ Spawn \/ SpawnFails
      BY <1>10, <1>1, <1>2, <1>4, <1>5 DEF BodyFails, BodyEnds, CheckCommand, Spawn, SpawnFails
<1>11. CASE Ask \/ TooLarge \/ RunWasm \/ WasmReturns \/ WasmFails
      BY <1>11, <1>1, <1>2, <1>3, <1>4, <1>5 DEF Ask, TooLarge, RunWasm, WasmReturns, WasmFails
<1>12. CASE Patient
      BY <1>12, <1>1, <1>2, <1>3, <1>4, <1>5
      DEF Patient, Handshake, HandshakeFails, ToolReturns, ToolFails, Completion, CompletionFails
<1>13. QED
      BY <1>6, <1>7, <1>8, <1>9, <1>10, <1>11, <1>12 DEF Next, Prompt


-----------------------------------------------------------------------------
(* Where an execution can be, and what it leaves behind there. *)

\* Every executor stays in the places of its own code.
LEMMA PlacesStep ==
    ASSUME TypeOK, PlacesInv, [Next]_vars
    PROVE  PlacesInv'
<1> USE DEF TypeOK, PlacesInv, Over, HttpPlaces, McpPlaces, At, Goto, Give, Done,
            vars, node, call, world
<1>1. CASE UNCHANGED vars
      BY <1>1
<1>2. CASE DryRun \/ Parse \/ Cancel \/ SandboxEnds \/ ChildKilled
      BY <1>2 DEF DryRun, Parse, Cancel, SandboxEnds, ChildKilled, Orphaned
<1>3. CASE CheckUrl \/ Lookup \/ LookupFails \/ Headers \/ Credential
      BY <1>3 DEF CheckUrl, Lookup, LookupFails, Headers, Credential
<1>4. CASE Send \/ SendFails \/ Response \/ NoResponse \/ \E c \in 1..2 : Chunk(c)
      BY <1>4 DEF Send, SendFails, Response, NoResponse, Chunk, Target
<1>5. CASE BodyFails \/ BodyEnds \/ CheckCommand \/ Spawn \/ SpawnFails
      BY <1>5 DEF BodyFails, BodyEnds, CheckCommand, Spawn, SpawnFails
<1>6. CASE Ask \/ TooLarge \/ RunWasm \/ WasmReturns \/ WasmFails
      BY <1>6 DEF Ask, TooLarge, RunWasm, WasmReturns, WasmFails
<1>7. CASE Patient
      BY <1>7 DEF Patient, Handshake, HandshakeFails, ToolReturns, ToolFails, Completion,
                  CompletionFails
<1>8. QED
      BY <1>1, <1>2, <1>3, <1>4, <1>5, <1>6, <1>7 DEF Next, Prompt

\* A call that goes out is within the attempts.
LEMMA CallsBounded ==
    ASSUME TypeOK, PrefixInv, pc \notin Over, pc \notin AfterCall, Calls
    PROVE  sent' \in [Items -> 0..MaxAttempts]
<1>1. item \in Items /\ Earlier(item) = sent[item]
      BY NodeCallsAssumption DEF TypeOK, Items, Earlier, CalledNow
<1>2. sent[item] \in 0..(attempt - 1)
      BY <1>1 DEF PrefixInv
<1>3. QED
      BY <1>1, <1>2, NodeCallsAssumption DEF TypeOK, Calls

LEMMA TypeStep ==
    ASSUME TypeOK, PlacesInv, PrefixInv, CheckedInv, LeftInv, [Next]_vars
    PROVE  TypeOK'
<1>1. GoesOn \/ CallsOut \/ GivesUp \/ GetsDone \/ Stops
      BY MovesOnly
<1>2. MaxItems \in Nat /\ MaxAttempts \in Nat /\ Cap \in Nat /\ Items = 1..MaxItems
      BY NodeCallsAssumption DEF Items
<1>3. pc = "send" => pinned \in Addresses
      BY DEF CheckedInv
<1>4. sent' \in [Items -> 0..MaxAttempts]
      <2>1. Calls /\ pc \notin Over /\ pc \notin AfterCall => sent' \in [Items -> 0..MaxAttempts]
            BY CallsBounded
      <2>2. QED
            BY <1>1, <2>1 DEF GoesOn, CallsOut, GivesUp, GetsDone, Stops, Ahead, TypeOK
<1>5. attempt' \in 1..MaxAttempts /\ item' \in 1..size /\ size' = size
      <2>1. CASE GivesUp
            BY <2>1, <1>2 DEF GivesUp, Give, node, TypeOK
      <2>2. CASE GetsDone
            BY <2>2, <1>2 DEF GetsDone, Done, node, TypeOK
      <2>3. QED
            BY <1>1, <2>1, <2>2 DEF GoesOn, CallsOut, Stops, Ahead, TypeOK
<1> USE <1>2, <1>3 DEF TypeOK, PlacesInv, LeftInv, Over, AfterCall, HttpPlaces, McpPlaces, At,
            Goto, Give, Done, vars, node, call, world, Calls, Reported, Next, Prompt, Patient,
            DryRun, Parse, Cancel, SandboxEnds, ChildKilled, Orphaned,
            CheckUrl, Lookup, LookupFails, Headers, Credential,
            Send, Target, SendFails, Response, NoResponse, Chunk, BodyFails, BodyEnds,
            CheckCommand, Spawn, SpawnFails, Handshake, HandshakeFails, ToolReturns, ToolFails,
            Ask, Completion, CompletionFails, TooLarge, RunWasm, WasmReturns, WasmFails
<1>6. (kind \in Kinds /\ fault \in Faults[kind] /\ limit \in 0..MaxAttempts)'
      OBVIOUS
<1>7. (pc \in Over \cup {"start", "item", "lookup", "headers", "credential", "send",
                         "waiting", "body", "spawn", "handshake", "tool",
                         "completion", "sandboxed"})'
      OBVIOUS
<1>8. (pinned \in Addresses \cup {NoAddress})'
      OBVIOUS
<1>9. (secret \in BOOLEAN)'
      OBVIOUS
<1>10. (body \in 0..Cap)'
      OBVIOUS
<1>11. (children \in 0..1 /\ sandbox \in 0..1)'
      OBVIOUS
<1>12. (metric \in Nat)'
      OBVIOUS
<1>13. (reached \subseteq Addresses)'
      OBVIOUS
<1>14. QED
      BY ONLY TypeOK, <1>6, <1>7, <1>8, <1>9, <1>10, <1>11, <1>12, <1>13, <1>4, <1>5
      DEF TypeOK, Over

\* Processes and threads run where the code waits for them.
LEMMA LeftStep ==
    ASSUME TypeOK, PlacesInv, LeftInv, [Next]_vars
    PROVE  LeftInv'
<1> USE DEF TypeOK, PlacesInv, LeftInv, Over, HttpPlaces, McpPlaces, At, Goto, Give, Done,
            vars, node, call, world
<1>1. CASE UNCHANGED vars
      BY <1>1
<1>2. CASE DryRun \/ Parse \/ Cancel \/ SandboxEnds \/ ChildKilled
      BY <1>2 DEF DryRun, Parse, Cancel, SandboxEnds, ChildKilled, Orphaned
<1>3. CASE CheckUrl \/ Lookup \/ LookupFails \/ Headers \/ Credential
      BY <1>3 DEF CheckUrl, Lookup, LookupFails, Headers, Credential
<1>4. CASE Send \/ SendFails \/ Response \/ NoResponse \/ \E c \in 1..2 : Chunk(c)
      BY <1>4 DEF Send, SendFails, Response, NoResponse, Chunk, Target
<1>5. CASE BodyFails \/ BodyEnds \/ CheckCommand \/ Spawn \/ SpawnFails
      BY <1>5 DEF BodyFails, BodyEnds, CheckCommand, Spawn, SpawnFails
<1>6. CASE Ask \/ TooLarge \/ RunWasm \/ WasmReturns \/ WasmFails
      BY <1>6 DEF Ask, TooLarge, RunWasm, WasmReturns, WasmFails
<1>7. CASE Patient
      BY <1>7 DEF Patient, Handshake, HandshakeFails, ToolReturns, ToolFails, Completion,
                  CompletionFails
<1>8. QED
      BY <1>1, <1>2, <1>3, <1>4, <1>5, <1>6, <1>7 DEF Next, Prompt

\* The checks of http_request hold until the request.
LEMMA CheckedStep ==
    ASSUME TypeOK, PlacesInv, CheckedInv, [Next]_vars
    PROVE  CheckedInv'
<1> USE DEF TypeOK, PlacesInv, CheckedInv, Permitted, Over, HttpPlaces, McpPlaces, At, Goto, Give,
            Done, vars, node, call, world
<1>1. CASE UNCHANGED vars
      BY <1>1
<1>2. CASE DryRun \/ Parse \/ Cancel \/ SandboxEnds \/ ChildKilled
      BY <1>2 DEF DryRun, Parse, Cancel, SandboxEnds, ChildKilled, Orphaned
<1>3. CASE CheckUrl \/ Lookup \/ LookupFails \/ Headers \/ Credential
      BY <1>3 DEF CheckUrl, Lookup, LookupFails, Headers, Credential
<1>4. CASE Send \/ SendFails \/ Response \/ NoResponse \/ \E c \in 1..2 : Chunk(c)
      BY <1>4 DEF Send, SendFails, Response, NoResponse, Chunk, Target
<1>5. CASE BodyFails \/ BodyEnds \/ CheckCommand \/ Spawn \/ SpawnFails
      BY <1>5 DEF BodyFails, BodyEnds, CheckCommand, Spawn, SpawnFails
<1>6. CASE Ask \/ TooLarge \/ RunWasm \/ WasmReturns \/ WasmFails
      BY <1>6 DEF Ask, TooLarge, RunWasm, WasmReturns, WasmFails
<1>7. CASE Patient
      BY <1>7 DEF Patient, Handshake, HandshakeFails, ToolReturns, ToolFails, Completion,
                  CompletionFails
<1>8. QED
      BY <1>1, <1>2, <1>3, <1>4, <1>5, <1>6, <1>7 DEF Next, Prompt

\* Only the address that was checked is reached.
LEMMA ReachStep ==
    ASSUME TypeOK, PlacesInv, CheckedInv, PrivateNotReached, [Next]_vars
    PROVE  PrivateNotReached' /\ (reached' # reached =>
               /\ reached' \subseteq reached \cup {pinned}
               /\ Permitted(url[item])
               /\ auth => secret)
<1> USE DEF TypeOK, CheckedInv, PrivateNotReached, Over, At, Goto, Give, Done,
            vars, node, call, world
<1>1. CASE UNCHANGED vars
      BY <1>1
<1>2. CASE DryRun \/ Parse \/ Cancel \/ SandboxEnds \/ ChildKilled
      BY <1>2 DEF DryRun, Parse, Cancel, SandboxEnds, ChildKilled, Orphaned
<1>3. CASE CheckUrl \/ Lookup \/ LookupFails \/ Headers \/ Credential
      BY <1>3 DEF CheckUrl, Lookup, LookupFails, Headers, Credential
<1>4. CASE Send \/ SendFails \/ Response \/ NoResponse \/ \E c \in 1..2 : Chunk(c)
      BY <1>4 DEF Send, SendFails, Response, NoResponse, Chunk, Target
<1>5. CASE BodyFails \/ BodyEnds \/ CheckCommand \/ Spawn \/ SpawnFails
      BY <1>5 DEF BodyFails, BodyEnds, CheckCommand, Spawn, SpawnFails
<1>6. CASE Ask \/ TooLarge \/ RunWasm \/ WasmReturns \/ WasmFails
      BY <1>6 DEF Ask, TooLarge, RunWasm, WasmReturns, WasmFails
<1>7. CASE Patient
      BY <1>7 DEF Patient, Handshake, HandshakeFails, ToolReturns, ToolFails, Completion,
                  CompletionFails
<1>8. QED
      BY <1>1, <1>2, <1>3, <1>4, <1>5, <1>6, <1>7 DEF Next, Prompt

\* A dry run goes from the start to its end.
LEMMA DryStep ==
    ASSUME TypeOK, PlacesInv, DryRunCallsNobody, [Next]_vars
    PROVE  DryRunCallsNobody'
<1> USE DEF TypeOK, PlacesInv, DryRunCallsNobody, Over, HttpPlaces, McpPlaces, At, Goto, Give, Done,
            vars, node, call, world, Orphaned
<1>1. CASE UNCHANGED vars
      BY <1>1
<1>2. CASE DryRun \/ Parse \/ Cancel \/ SandboxEnds \/ ChildKilled
      BY <1>2 DEF DryRun, Parse, Cancel, SandboxEnds, ChildKilled, Orphaned
<1>3. CASE CheckUrl \/ Lookup \/ LookupFails \/ Headers \/ Credential
      BY <1>3 DEF CheckUrl, Lookup, LookupFails, Headers, Credential
<1>4. CASE Send \/ SendFails \/ Response \/ NoResponse \/ \E c \in 1..2 : Chunk(c)
      BY <1>4 DEF Send, SendFails, Response, NoResponse, Chunk, Target
<1>5. CASE BodyFails \/ BodyEnds \/ CheckCommand \/ Spawn \/ SpawnFails
      BY <1>5 DEF BodyFails, BodyEnds, CheckCommand, Spawn, SpawnFails
<1>6. CASE Ask \/ TooLarge \/ RunWasm \/ WasmReturns \/ WasmFails
      BY <1>6 DEF Ask, TooLarge, RunWasm, WasmReturns, WasmFails
<1>7. CASE Patient
      BY <1>7 DEF Patient, Handshake, HandshakeFails, ToolReturns, ToolFails, Completion,
                  CompletionFails
<1>8. QED
      BY <1>1, <1>2, <1>3, <1>4, <1>5, <1>6, <1>7 DEF Next, Prompt

-----------------------------------------------------------------------------
LEMMA CallsInit == Init => CallsInv
<1> SUFFICES ASSUME Init PROVE CallsInv
    OBVIOUS
<1> USE NodeCallsAssumption DEF Init
<1>1. TypeOK
      <2>1. kind \in Kinds /\ fault \in Faults[kind] /\ size \in Items /\ limit \in 0..MaxAttempts
            OBVIOUS
      <2>2. attempt \in 1..MaxAttempts /\ item \in 1..size
            BY <2>1 DEF Items
      <2>3. sent \in [Items -> 0..MaxAttempts]
            OBVIOUS
      <2>4. pinned \in Addresses \cup {NoAddress} /\ secret \in BOOLEAN
            OBVIOUS
      <2>5. body \in 0..Cap /\ children \in 0..1 /\ sandbox \in 0..1
            OBVIOUS
      <2>6. metric \in Nat /\ reached \subseteq Addresses
            OBVIOUS
      <2>7. QED
            BY <2>1, <2>2, <2>3, <2>4, <2>5, <2>6 DEF TypeOK
<1>2. PlacesInv
      BY DEF PlacesInv, Over, HttpPlaces, McpPlaces
<1>3. PrefixInv
      BY DEF PrefixInv, RepeatsThePrefix, Earlier, CalledNow, AfterCall, Items
<1>4. ReportInv
      <2>1. CallsMade = {}
            BY DEF CallsMade
      <2>2. Cardinality(CallsMade) = 0
            BY <2>1, FS_EmptySet
      <2>3. QED
            BY <2>2 DEF ReportInv, Awaiting
<1>5. CheckedInv /\ LeftInv
      BY DEF CheckedInv, LeftInv
<1>6. PrivateNotReached /\ DryRunCallsNobody
      BY DEF PrivateNotReached, DryRunCallsNobody
<1>7. QED
      BY <1>1, <1>2, <1>3, <1>4, <1>5, <1>6 DEF CallsInv

LEMMA CallsStep == CallsInv /\ [Next]_vars => CallsInv'
<1> SUFFICES ASSUME CallsInv, [Next]_vars PROVE CallsInv'
    OBVIOUS
<1> USE DEF CallsInv
<1>1. PlacesInv' /\ TypeOK'
      BY PlacesStep, TypeStep
<1>2. PrefixInv' /\ ReportInv'
      BY <1>1, PrefixStep, ReportStep
<1>3. CheckedInv' /\ LeftInv' /\ PrivateNotReached' /\ DryRunCallsNobody'
      BY CheckedStep, LeftStep, ReachStep, DryStep
<1>4. QED
      BY <1>1, <1>2, <1>3

\* Executions, retries and dropped runs keep the invariant.
THEOREM CallsCorrect == Spec => []CallsInv
<1>1. QED
      BY CallsInit, CallsStep, PTL DEF Spec

\* At every await, items were called for in order and again only by a retry, what
\* was reported was called and at most one call per failed attempt was not, no
\* refused address was reached, and nothing was left running or called for in a
\* dry run: for any number of items and attempts and any addresses.
THEOREM CallsAreSound == Spec => []CallsSound
<1>1. ASSUME CallsInv PROVE CallsSound
      <2> USE <1>1 DEF CallsInv
      <2>1. RepeatsThePrefix
            BY DEF PrefixInv
      <2>2. CallsReported
            <3>1. Cardinality(CallsMade) \in Nat
                  BY CallsFinite
            <3>2. QED
                  BY <3>1 DEF CallsReported, ReportInv, Awaiting, TypeOK
      <2>3. NothingLeftRunning
            BY DEF NothingLeftRunning, LeftInv
      <2>4. QED
            BY <2>1, <2>2, <2>3 DEF CallsSound
<1>2. QED
      BY <1>1, CallsCorrect, PTL

\* A request goes out to the address that was checked for its item, on a URL that
\* the policy permits, and with its credential.
THEOREM RequestsChecked == Spec => SentAsChecked
<1>1. CallsInv /\ [Next]_vars =>
          [reached' # reached =>
              /\ reached' \subseteq reached \cup {pinned}
              /\ Permitted(url[item])
              /\ auth => secret]_vars
      BY ReachStep DEF CallsInv
<1>2. QED
      BY <1>1, CallsCorrect, PTL DEF Spec, SentAsChecked

=============================================================================
