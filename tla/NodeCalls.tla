----------------------------- MODULE NodeCalls ------------------------------
(***************************************************************************)
(* The nodes that call the outside world, await by await: http_request,    *)
(* mcp_tool_call, llm_call and code_step (crates/a2w-nodes/src), driven by *)
(* the engine's retries (execute_with_retry and run_one_node of            *)
(* crates/a2w-engine/src/engine.rs).  A call of an executor works through  *)
(* its items in order and gives up at the first failure; a retry starts    *)
(* again with the first item.                                              *)
(*                                                                         *)
(* The world answers as it likes: a name resolves to other addresses at    *)
(* every lookup, credentials come and go, a server fails, answers with a   *)
(* body of any length, or never answers.  The run may be dropped at any    *)
(* await.                                                                  *)
(***************************************************************************)
EXTENDS Integers, FiniteSets

CONSTANTS
    MaxItems,     \* bound: items of the execution
    MaxAttempts,  \* bound: attempts of the retry policy
    Cap,          \* max_body_bytes, in units of a body chunk
    Public,       \* addresses anyone may call, and ...
    Private       \* ... those that ip_is_blocked refuses

ASSUME NodeCallsAssumption ==
    /\ MaxItems \in Nat \ {0} /\ MaxAttempts \in Nat \ {0} /\ Cap \in Nat
    /\ IsFiniteSet(Public) /\ IsFiniteSet(Private) /\ Public \cap Private = {}

Items == 1..MaxItems
Addresses == Public \cup Private
NoAddress == "none"

Kinds == {"http_request", "mcp_tool_call", "llm_call", "code_step"}

\* What may be wrong with the parameters, or with what they rely on: the API
\* key in the environment, the file of the module.
Faults == [http_request |-> {"none", "method", "header"},
           mcp_tool_call |-> {"none", "server", "command", "arguments"},
           llm_call |-> {"none", "prompt", "no_key"},
           code_step |-> {"none", "wasm", "no_module"}]

\* Found at the start of a call of the executor, ...
ParseFaults == {"method", "server", "prompt", "wasm", "no_key", "no_module"}

\* ... which for these the dry run leaves out.
Unmocked == {"method", "no_key", "no_module"}

\* The URL of an item.  dotted: written with the trailing dot that
\* normalize_host removes.
Url == [web : BOOLEAN, host : {"h"}, dotted : BOOLEAN, port : {443, 8080}]

Policy == [block_private : BOOLEAN,
           allowed_hosts : {{}, {"h"}, {"other"}},
           denied_hosts : {{}, {"h"}},
           allowed_ports : {{}, {80, 443}}]

VARIABLES
    kind, mode, fault,  \* the node and what is wrong with it
    size,               \* its number of items
    limit,              \* max_attempts; 0 without a retry policy
    url, policy, auth,  \* of http_request; auth: a credential is referred to
    pc,                 \* where the execution is
    attempt, item,      \* the attempt, and the item it works on
    pinned,             \* the address that the guard chose for this item
    secret,             \* the credential was resolved for this item
    body,               \* chunks of the response read so far
    children,           \* child processes of MCP servers
    sandbox,            \* wasm calls running on blocking threads
    sent,               \* history: sent[i]: calls made for item i
    metric,             \* NodeMetrics: the external calls reported
    reached             \* history: the addresses that were sent a request

node == <<kind, mode, fault, size, limit, url, policy, auth>>
call == <<pinned, secret, body>>
world == <<children, sandbox, sent, metric, reached>>
vars == <<node, pc, attempt, item, call, world>>

Over == {"finished", "failed", "cancelled"}

Init ==
    /\ kind \in Kinds
    /\ mode \in {"run", "dry_run"}
    /\ fault \in Faults[kind]
    /\ size \in Items
    /\ limit \in 0..MaxAttempts
    /\ IF kind = "http_request"
       THEN /\ url \in [1..size -> Url]
            /\ policy \in Policy
            /\ auth \in BOOLEAN
       ELSE /\ url = [i \in 1..size |-> [web |-> TRUE, host |-> "h", dotted |-> FALSE, port |-> 443]]
            /\ policy = [block_private |-> TRUE, allowed_hosts |-> {},
                         denied_hosts |-> {}, allowed_ports |-> {80, 443}]
            /\ auth = FALSE
    /\ pc = "start"
    /\ attempt = 1 /\ item = 1
    /\ pinned = NoAddress /\ secret = FALSE /\ body = 0
    /\ children = 0 /\ sandbox = 0
    /\ sent = [i \in Items |-> 0]
    /\ metric = 0
    /\ reached = {}

-----------------------------------------------------------------------------
(* One step of one call of the executor. *)

At(k, p) == kind = k /\ pc = p
Goto(p) == pc' = p /\ UNCHANGED <<node, attempt, item>>

\* Mutant: a retry goes on with the item that failed.
GiveUpItem ==
    /\ IF mode = "run" /\ attempt < limit
       THEN pc' = "start" /\ attempt' = attempt + 1
       ELSE pc' = "failed" /\ UNCHANGED attempt
    /\ pinned' = NoAddress /\ secret' = FALSE /\ body' = 0
    /\ UNCHANGED <<node, item>>

\* The executor returns an error: the next attempt, or the node has failed.
Give ==
    /\ IF mode = "run" /\ attempt < limit
       THEN pc' = "start" /\ attempt' = attempt + 1
       ELSE pc' = "failed" /\ UNCHANGED attempt
    /\ item' = 1
    /\ pinned' = NoAddress /\ secret' = FALSE /\ body' = 0
    /\ UNCHANGED node

\* An output item for this item; on to the next one.
Done ==
    /\ IF item = size THEN pc' = "finished" /\ UNCHANGED item
                      ELSE pc' = "item" /\ item' = item + 1
    /\ pinned' = NoAddress /\ secret' = FALSE /\ body' = 0
    /\ UNCHANGED <<node, attempt>>

\* Mutant: with every item the count so far is reported again.
ReportedSoFar == metric' = metric + item

\* A call goes out for this item; its answer is reported to the engine.
Calls == sent' = [sent EXCEPT ![item] = @ + 1]
Reported == metric' = metric + 1

\* A dry run mocks every item.
DryRun ==
    /\ pc = "start" /\ mode = "dry_run"
    /\ IF fault \in ParseFaults \ Unmocked THEN Give
       ELSE Goto("finished") /\ UNCHANGED call
    /\ UNCHANGED world

\* Mutant: the mode is not looked at.
ParseAnyMode ==
    /\ pc = "start"
    /\ IF fault \in ParseFaults THEN Give
       ELSE Goto("item") /\ UNCHANGED call
    /\ UNCHANGED world

\* Parameters are parsed, the module is loaded, and the LLM client is taken
\* from the process or built from its environment, once per call.
Parse ==
    /\ pc = "start" /\ mode = "run"
    /\ IF fault \in ParseFaults THEN Give
       ELSE Goto("item") /\ UNCHANGED call
    /\ UNCHANGED world

-----------------------------------------------------------------------------
(* http_request. *)

Permitted(u) ==
    /\ u.web
    /\ policy.allowed_hosts = {} \/ u.host \in policy.allowed_hosts
    /\ u.host \notin policy.denied_hosts
    /\ policy.allowed_ports = {} \/ u.port \in policy.allowed_ports

\* validate_url up to the lookup, on the normalized host.
CheckUrl ==
    /\ At("http_request", "item")
    /\ IF Permitted(url[item]) THEN Goto("lookup") /\ UNCHANGED call ELSE Give
    /\ UNCHANGED world

\* The lookup fails, times out, or returns some addresses; with block_private
\* one private address among them is enough to refuse.
LookupFails == At("http_request", "lookup") /\ Give /\ UNCHANGED world

Lookup ==
    /\ At("http_request", "lookup")
    /\ \E found \in (SUBSET Addresses) \ {{}} :
          IF policy.block_private /\ found \cap Private # {} THEN Give
          ELSE /\ pinned' \in found
               /\ Goto("headers")
               /\ UNCHANGED <<secret, body>>
    /\ UNCHANGED world

\* Mutant: the credential is forgotten.
HeadersOnly ==
    /\ At("http_request", "headers")
    /\ IF fault = "header" THEN Give
       ELSE Goto("send") /\ UNCHANGED call
    /\ UNCHANGED world

Headers ==
    /\ At("http_request", "headers")
    /\ IF fault = "header" THEN Give
       ELSE Goto(IF auth THEN "credential" ELSE "send") /\ UNCHANGED call
    /\ UNCHANGED world

\* Mutant: without the secret the item starts again.
CredentialAgain ==
    /\ At("http_request", "credential")
    /\ \/ Goto("lookup") /\ pinned' = NoAddress /\ UNCHANGED <<secret, body>>
       \/ Goto("send") /\ secret' = TRUE /\ UNCHANGED <<pinned, body>>
    /\ UNCHANGED world

\* inject_auth: without the secret the request is not sent.
Credential ==
    /\ At("http_request", "credential")
    /\ \/ Give
       \/ Goto("send") /\ secret' = TRUE /\ UNCHANGED <<pinned, body>>
    /\ UNCHANGED world

\* Mutant: the request goes to the URL as the caller wrote it, which the pin
\* of the normalized host does not match.
TargetOfRawUrl == IF url[item].dotted THEN Addresses ELSE {pinned}

\* Where the one-shot client connects: every lookup of the canonical host
\* yields the pinned address.
Target == {pinned}

\* The request reaches the server, whatever comes back.
Send ==
    /\ At("http_request", "send")
    /\ \E a \in Target : reached' = reached \cup {a}
    /\ Calls
    /\ Goto("waiting") /\ UNCHANGED call
    /\ UNCHANGED <<children, sandbox, metric>>

SendFails == At("http_request", "send") /\ Give /\ UNCHANGED world

\* No answer within the timeout, or the connection breaks.
NoResponse == At("http_request", "waiting") /\ Give /\ UNCHANGED world

Response ==
    /\ At("http_request", "waiting")
    /\ Reported
    /\ \/ Goto("body") /\ UNCHANGED call
       \/ Give  \* the announced length is above the cap
    /\ UNCHANGED <<children, sandbox, sent, reached>>

\* Mutant: the length is checked before the chunk is added.
ChunkThenCheck(c) ==
    /\ At("http_request", "body")
    /\ IF body >= Cap THEN Give
       ELSE body' = body + c /\ Goto("body") /\ UNCHANGED <<pinned, secret>>
    /\ UNCHANGED world

\* A chunk that would take the body above the cap is dropped with the rest.
Chunk(c) ==
    /\ At("http_request", "body")
    /\ IF body + c > Cap THEN Give
       ELSE body' = body + c /\ Goto("body") /\ UNCHANGED <<pinned, secret>>
    /\ UNCHANGED world

BodyFails == At("http_request", "body") /\ Give /\ UNCHANGED world
BodyEnds == At("http_request", "body") /\ Done /\ UNCHANGED world

-----------------------------------------------------------------------------
(* mcp_tool_call. *)

\* The transport, the allowlist and the environment of the child process are
\* checked before it is spawned.
CheckCommand ==
    /\ At("mcp_tool_call", "item")
    /\ IF fault = "command" THEN Give ELSE Goto("spawn") /\ UNCHANGED call
    /\ UNCHANGED world

SpawnFails == At("mcp_tool_call", "spawn") /\ Give /\ UNCHANGED world

Spawn ==
    /\ At("mcp_tool_call", "spawn")
    /\ children' = children + 1
    /\ Goto("handshake") /\ UNCHANGED call
    /\ UNCHANGED <<sandbox, sent, metric, reached>>

\* Mutant: the child outlives the handshake that failed.
HandshakeAbandoned ==
    /\ At("mcp_tool_call", "handshake")
    /\ Give
    /\ UNCHANGED world

\* A failed handshake drops the transport, and the child with it.
HandshakeFails ==
    /\ At("mcp_tool_call", "handshake")
    /\ children' = children - 1
    /\ Give
    /\ UNCHANGED <<sandbox, sent, metric, reached>>

\* Only now are the arguments looked at: the server is cancelled and the call
\* fails if they are no object.
Handshake ==
    /\ At("mcp_tool_call", "handshake")
    /\ IF fault = "arguments"
       THEN children' = children - 1 /\ Give /\ UNCHANGED sent
       ELSE Goto("tool") /\ Calls /\ UNCHANGED <<call, children>>
    /\ UNCHANGED <<sandbox, metric, reached>>

\* The server is cancelled whatever the outcome of the call.
ToolFails ==
    /\ At("mcp_tool_call", "tool")
    /\ children' = children - 1
    /\ Give
    /\ UNCHANGED <<sandbox, sent, metric, reached>>

ToolReturns ==
    /\ At("mcp_tool_call", "tool")
    /\ children' = children - 1
    /\ Reported
    /\ Done
    /\ UNCHANGED <<sandbox, sent, reached>>

-----------------------------------------------------------------------------
(* llm_call. *)

Ask ==
    /\ At("llm_call", "item")
    /\ Calls
    /\ Goto("completion") /\ UNCHANGED call
    /\ UNCHANGED <<children, sandbox, metric, reached>>

\* A transport error, a status that is no success, or a body without text.
CompletionFails == At("llm_call", "completion") /\ Give /\ UNCHANGED world

Completion ==
    /\ At("llm_call", "completion")
    /\ Reported
    /\ Done
    /\ UNCHANGED <<children, sandbox, sent, reached>>

-----------------------------------------------------------------------------
(* code_step: the sandbox runs on a blocking thread of its own. *)

\* An item above the input cap is refused before the module sees it.
TooLarge == At("code_step", "item") /\ Give /\ UNCHANGED world

RunWasm ==
    /\ At("code_step", "item")
    /\ sandbox' = sandbox + 1
    /\ Calls
    /\ Goto("sandboxed") /\ UNCHANGED call
    /\ UNCHANGED <<children, metric, reached>>

\* A trap, a missing export, the execution timeout, or a panic.
WasmFails ==
    /\ At("code_step", "sandboxed")
    /\ sandbox' = sandbox - 1
    /\ Give
    /\ UNCHANGED <<children, sent, metric, reached>>

\* Running a module is no external call, and is not reported as one.
WasmReturns ==
    /\ At("code_step", "sandboxed")
    /\ sandbox' = sandbox - 1
    /\ Done
    /\ UNCHANGED <<children, sent, metric, reached>>

-----------------------------------------------------------------------------
(* The run is dropped.  A blocking thread goes on without it, and the child *)
(* process is killed by the runtime some time later.                        *)

Cancel ==
    /\ pc \notin Over
    /\ pc' = "cancelled"
    /\ UNCHANGED <<node, attempt, item, call, world>>

Orphaned == pc = "cancelled"

SandboxEnds ==
    /\ Orphaned /\ sandbox > 0
    /\ sandbox' = sandbox - 1
    /\ UNCHANGED <<node, pc, attempt, item, call, children, sent, metric, reached>>

\* Mutant: the child ends only with the call of its tool.
ChildKilledAfterCall ==
    /\ Orphaned /\ children > 0 /\ sent[item] > 0
    /\ children' = children - 1
    /\ UNCHANGED <<node, pc, attempt, item, call, sandbox, sent, metric, reached>>

ChildKilled ==
    /\ Orphaned /\ children > 0
    /\ children' = children - 1
    /\ UNCHANGED <<node, pc, attempt, item, call, sandbox, sent, metric, reached>>

-----------------------------------------------------------------------------
\* The steps that the node takes by itself, or within a timeout.
Prompt ==
    \/ DryRun \/ Parse
    \/ CheckUrl \/ Lookup \/ LookupFails \/ Headers \/ Credential
    \/ Send \/ SendFails \/ Response \/ NoResponse
    \/ \E c \in 1..2 : Chunk(c)
    \/ BodyFails \/ BodyEnds
    \/ CheckCommand \/ Spawn \/ SpawnFails
    \/ Ask
    \/ TooLarge \/ RunWasm \/ WasmReturns \/ WasmFails

\* Steps that need an answer for which nothing but the request timeout waits.
Patient ==
    \/ Handshake \/ HandshakeFails \/ ToolReturns \/ ToolFails
    \/ Completion \/ CompletionFails

Next == Prompt \/ Patient \/ Cancel \/ SandboxEnds \/ ChildKilled

\* Every I/O of http_request has a timeout, and so has the sandbox.
Fairness == WF_vars(Prompt) /\ WF_vars(SandboxEnds) /\ WF_vars(ChildKilled)

Spec == Init /\ [][Next]_vars /\ Fairness

-----------------------------------------------------------------------------
\* The type invariant.
TypeOK ==
    /\ kind \in Kinds /\ fault \in Faults[kind]
    /\ size \in Items /\ limit \in 0..MaxAttempts
    /\ pc \in Over \cup {"start", "item", "lookup", "headers", "credential", "send",
                         "waiting", "body", "spawn", "handshake", "tool",
                         "completion", "sandboxed"}
    /\ attempt \in 1..MaxAttempts /\ item \in 1..size
    /\ pinned \in Addresses \cup {NoAddress}
    /\ secret \in BOOLEAN
    /\ body \in 0..Cap
    /\ children \in 0..1 /\ sandbox \in 0..1
    /\ sent \in [Items -> 0..MaxAttempts]
    /\ metric \in Nat
    /\ reached \subseteq Addresses

\* A retry repeats the calls of the items before the failed one: no item has
\* been called for more often than there were attempts, nor more often than the
\* items before it, and a node that finishes has called for every item.
RepeatsThePrefix ==
    /\ \A i \in Items : sent[i] <= attempt
    /\ \A i, j \in Items : i < j => sent[j] <= sent[i]
    /\ pc = "finished" /\ mode = "run" => \A i \in 1..size : sent[i] >= 1

\* The calls so far: <<i, k>> is the k-th call for item i.
CallsMade == {c \in Items \X (1..MaxAttempts) : c[2] <= sent[c[1]]}

\* The calls that the node reports as made were made, and it misses one call
\* per failed attempt at most: the one that failed.
CallsReported ==
    LET made == Cardinality(CallsMade)
        failures == IF pc = "finished" THEN attempt - 1 ELSE attempt
    IN  IF kind = "code_step" THEN metric = 0
        ELSE metric <= made /\ made <= metric + failures

\* No request leaves for an address the guard would have refused, however often
\* the name is resolved and whatever it resolves to.
PrivateNotReached == policy.block_private => reached \cap Private = {}

\* A request goes to the address that was checked for this item, on a URL that
\* the policy permits, and not without its credential.
SentAsChecked ==
    [][reached' # reached =>
          /\ reached' \subseteq reached \cup {pinned}
          /\ Permitted(url[item])
          /\ auth => secret]_vars

\* An execution that ended by itself has no process and no thread left.
NothingLeftRunning ==
    /\ children + sandbox <= 1
    /\ pc \in {"finished", "failed"} => children = 0 /\ sandbox = 0

\* A dry run makes no call, starts no process and runs no module.
DryRunCallsNobody ==
    mode = "dry_run" =>
        /\ \A i \in Items : sent[i] = 0
        /\ reached = {} /\ children = 0 /\ sandbox = 0 /\ metric = 0

\* An execution ends, unless an MCP server or the LLM provider never answers:
\* nothing else may take for ever.
Ends == <>(pc \in Over) \/ <>[](pc \in {"handshake", "tool", "completion"})

\* What a dropped run leaves behind ends too.
LeftoversEnd == pc = "cancelled" ~> (children = 0 /\ sandbox = 0)

\* At every await: items are called for in order and again only by a retry, what is
\* reported was called, nobody is reached who may not be, and nothing is left over.
CallsSound ==
    /\ TypeOK /\ RepeatsThePrefix /\ CallsReported
    /\ PrivateNotReached /\ NothingLeftRunning /\ DryRunCallsNobody

\* Executions end, and so does what a dropped one leaves behind.
CallsEnd == Ends /\ LeftoversEnd
=============================================================================
