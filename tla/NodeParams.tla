----------------------------- MODULE NodeParams -----------------------------
(***************************************************************************)
(* The parameters of a node, as three readers see them: check_node_params  *)
(* of the validator (crates/a2w-validator/src/lib.rs), which decides what  *)
(* may be stored, the dry run of the node's executor, and its execution    *)
(* (crates/a2w-nodes/src).  A parameter is abstracted to its JSON shape;   *)
(* "object.field" stands for a field of a parameter that is an object, and *)
(* is absent when the parameter is none.                                   *)
(*                                                                         *)
(* The module also has what the routing kinds do with the items they get.  *)
(***************************************************************************)
EXTENDS Integers, Sequences, FiniteSets, Functions, SequencesExt

CONSTANT MaxInput  \* bound: items a node gets

ASSUME NodeParamsAssumption == MaxInput \in Nat

Strings == {"empty", "text", "odd"}  \* odd: a text that the reader rejects
Shapes == Strings \cup {"absent", "null", "number", "negative", "bool", "list", "object"}

SideEffects == {"http_request", "mcp_tool_call", "code_step", "llm_call",
                "sub_workflow", "wait", "approval"}
Kinds == SideEffects \cup {"transform", "branch", "switch", "loop", "merge", "trigger"}

-----------------------------------------------------------------------------
(* The parameters each reader looks at, in the shapes it tells apart.      *)

HttpParams ==
    [url : {"absent", "null", "empty", "text", "odd"},
     method : {"absent", "null", "text", "odd", "number"},
     headers : {"absent", "list", "object"},
     header : {"absent", "text", "odd", "number"},  \* an entry; odd: a reserved name
     auth : {"absent", "null", "object"},
     credential_ref : {"absent", "empty", "text", "number"},
     scheme : {"absent", "text", "odd", "number"}]

TransformParams == [set : {"absent", "null", "text", "object"}]

\* path: "odd" is the root path; op: "text" is truthy, "empty" another operator.
BranchParams ==
    [condition : {"absent", "null", "text", "odd", "object"},
     path : {"absent", "text", "odd", "number"},
     op : {"absent", "text", "empty", "odd", "number"}]

SwitchParams ==
    [key : {"absent", "text", "number"},
     cases : {"absent", "null", "list"},
     case : {"absent", "text", "object"},
     value : {"absent", "text"},
     port : {"absent", "number", "negative"},
     default_port : {"absent", "null", "number", "text"}]

LoopParams == [over : {"absent", "null", "text", "number"}]
WaitParams == [duration_ms : {"absent", "null", "number", "negative", "text"}]

\* workflow: "odd" is an object that is no workflow.
SubParams ==
    [workflow_id : {"absent", "null", "text", "number"},
     workflow : {"absent", "null", "text", "object", "odd"},
     trigger_input : {"absent", "list", "object"},
     propagate_credentials : {"absent", "bool", "text"}]

LlmParams == [prompt : {"absent", "null", "text", "number"},
              system : {"absent", "null", "text", "number"}]

\* server: "odd" is an object without a known transport.  spawn: what a stdio
\* server is started with, absent for the http transport; "odd" is a command that
\* is not allowed or cannot be started, or a forbidden key in its environment.
McpParams ==
    [server : {"absent", "null", "text", "odd", "object"},
     spawn : {"absent", "text", "odd"},
     command : {"absent", "text"},
     tool : {"absent", "empty", "text", "number"},
     arguments : {"absent", "null", "object", "list"}]

\* base64: "odd" is none, or no module; path: "odd" is one while A2W_CODE_WASM_DIR
\* is not set, or one that leads to no module in it.  function: "odd" is not
\* exported; config: "odd" has a member that is no text.
CodeParams ==
    [wasm : {"absent", "null", "text", "object"},
     base64 : {"absent", "text", "odd", "number"},
     path : {"absent", "text", "odd", "number"},
     function : {"absent", "null", "empty", "text", "odd", "number"},
     config : {"absent", "null", "object", "odd", "list"}]

ApprovalParams == [summary : {"absent", "null", "text", "number"},
                   timeout_secs : {"absent", "null", "number", "negative"}]

\* Fields of a parameter that is no object are absent.
Nested(f, whole, parts) == f[whole] # "object" => \A p \in parts : f[p] = "absent"

Params(k) ==
    CASE k = "http_request" ->
            {f \in HttpParams : /\ Nested(f, "headers", {"header"})
                                /\ Nested(f, "auth", {"credential_ref", "scheme"})}
      [] k = "transform" -> TransformParams
      [] k = "branch" -> {f \in BranchParams : Nested(f, "condition", {"path", "op"})}
      [] k = "switch" ->
            {f \in SwitchParams : /\ Nested(f, "case", {"value", "port"})
                                  /\ f.cases # "list" => f.case = "absent"}
      [] k = "loop" -> LoopParams
      [] k = "wait" -> WaitParams
      [] k = "sub_workflow" -> SubParams
      [] k = "llm_call" -> LlmParams
      [] k = "mcp_tool_call" -> {f \in McpParams : Nested(f, "server", {"spawn"})}
      [] k = "code_step" -> {f \in CodeParams : Nested(f, "wasm", {"base64", "path"})}
      [] k = "approval" -> ApprovalParams
      [] OTHER -> {[none |-> "absent"]}

Given(s) == s # "absent"
Text(s) == s \in Strings

-----------------------------------------------------------------------------
(* check_node_params: the parameters it reports, as missing or ill-typed.  *)

FlagsHttp(f) ==
    \/ f.url \notin {"text", "odd"}
    \/ Given(f.method) /\ ~Text(f.method)
    \/ Given(f.headers) /\ f.headers # "object"

FlagsBranch(f) ==
    \/ f.condition \notin {"text", "odd", "object"}
    \/ f.condition = "object" /\ (~Text(f.path) \/ (Given(f.op) /\ ~Text(f.op)))

FlagsSwitch(f) ==
    \/ ~Text(f.key)
    \/ f.cases # "list"
    \/ Given(f.case) /\ f.case # "object"
    \/ f.case = "object" /\ (~Given(f.value) \/ f.port # "number")

\* Mutant: an inline workflow needs an id as well.
FlagsSubInline(f) ==
    \/ ~Text(f.workflow_id)
    \/ Given(f.workflow) /\ f.workflow \notin {"object", "odd"}

FlagsSub(f) ==
    \/ ~Given(f.workflow_id) /\ ~Given(f.workflow)
    \/ Given(f.workflow_id) /\ ~Text(f.workflow_id)
    \/ Given(f.workflow) /\ f.workflow \notin {"object", "odd"}

FlagsMcp(f) == \/ ~Given(f.server) /\ ~Given(f.command)
               \/ ~Given(f.tool)

FlagsCode(f) ==
    \/ f.wasm # "object"
    \/ ~Given(f.base64) /\ ~Given(f.path)
    \/ ~Text(f.function)

Flags(k, f) ==
    CASE k = "http_request" -> FlagsHttp(f)
      [] k = "transform" -> Given(f.set) /\ f.set # "object"
      [] k = "branch" -> FlagsBranch(f)
      [] k = "switch" -> FlagsSwitch(f)
      [] k = "loop" -> ~Text(f.over)
      [] k = "wait" -> f.duration_ms # "number"
      [] k = "sub_workflow" -> FlagsSub(f)
      [] k = "llm_call" -> ~Text(f.prompt)
      [] k = "mcp_tool_call" -> FlagsMcp(f)
      [] k = "code_step" -> FlagsCode(f)
      [] OTHER -> FALSE

-----------------------------------------------------------------------------
(* The executors, with at least one item to work on: which parameters end  *)
(* the call with an error, whatever its items are.                         *)

BadAuth(f) ==
    /\ Given(f.auth)
    /\ \/ f.credential_ref # "text"
       \/ f.scheme = "odd"

BadHttp(f) ==
    \/ f.method = "odd"
    \/ BadAuth(f)
    \/ f.url # "text"
    \/ f.header \in {"odd", "number"}

BadTransform(f) == f.set \notin {"absent", "null", "object"}

\* serde, and no truthiness of the root path.
BadBranch(f) ==
    \/ f.condition \notin {"text", "object"}
    \/ f.condition = "object" /\ \/ ~Text(f.path)
                                 \/ f.op \in {"odd", "number"}
                                 \/ f.path = "odd" /\ f.op \in {"absent", "text"}

BadSwitch(f) ==
    \/ ~Text(f.key)
    \/ f.cases # "list"
    \/ Given(f.case) /\ (f.case # "object" \/ ~Given(f.value) \/ f.port # "number")
    \/ f.default_port = "text"

\* An absent duration is zero.
BadWait(f) == f.duration_ms \notin {"absent", "number"}

\* To serde null is an absent option; the inline workflow wins over the id.
BadSub(f) ==
    \/ f.workflow_id = "number"
    \/ f.trigger_input = "object"
    \/ f.propagate_credentials = "text"
    \/ f.workflow \in {"text", "odd"}
    \/ f.workflow \in {"absent", "null"} /\ ~Text(f.workflow_id)

BadLlm(f) == ~Text(f.prompt) \/ f.system = "number"

BadMcpSpec(f) == f.server # "object" \/ f.tool # "text"

\* The invoker has only one transport, and looks at the arguments when the
\* server is there.
BadMcpCall(f) == BadMcpSpec(f) \/ f.spawn # "text" \/ f.arguments = "list"

\* The source must be exactly one of two strings; the function has a default.
BadCode(f) ==
    \/ f.wasm # "object"
    \/ Given(f.base64) = Given(f.path)
    \/ f.base64 = "number" \/ f.path = "number"
    \/ f.function \in {"empty", "number"}
    \/ f.config \in {"odd", "list"}

\* The module is read, and loaded in the sandbox, only to run it.
BadModule(f) == BadCode(f) \/ "odd" \in {f.base64, f.path, f.function}

BadApproval(f) == f.summary = "number" \/ f.timeout_secs \in {"null", "negative"}

BadAtRun(k, f) ==
    CASE k = "http_request" -> BadHttp(f)
      [] k = "transform" -> BadTransform(f)
      [] k = "branch" -> BadBranch(f)
      [] k = "switch" -> BadSwitch(f)
      [] k = "loop" -> ~Text(f.over)
      [] k = "wait" -> BadWait(f)
      [] k = "sub_workflow" -> BadSub(f)
      [] k = "llm_call" -> BadLlm(f)
      [] k = "mcp_tool_call" -> BadMcpCall(f)
      [] k = "code_step" -> BadModule(f)
      [] k = "approval" -> BadApproval(f)
      [] OTHER -> FALSE

\* Mutant: every node with side effects is mocked without a look at it.
BadUnlessMocked(k, f) == k \notin SideEffects /\ BadAtRun(k, f)

\* What the dry run still parses: http_request only its url, wait nothing, and
\* sub_workflow has the mock that the trait provides; mcp_tool_call and
\* code_step parse what they are given, but start and load nothing.
BadInDryRun(k, f) ==
    CASE k = "http_request" -> ~Text(f.url)
      [] k \in {"wait", "sub_workflow"} -> FALSE
      [] k = "mcp_tool_call" -> BadMcpSpec(f)
      [] k = "code_step" -> BadCode(f)
      [] OTHER -> BadAtRun(k, f)

-----------------------------------------------------------------------------
(* What the routing kinds do with their items.  An item carries the value  *)
(* its node looks at, a tag to recognise it by, and a port.                *)

Values == {"absent", "null", "false", "zero", "empty", "text", "nothing", "list"}

Incoming == [tag : 1..MaxInput, value : Values, port : 0..1]

\* What a node gets: items from any port of their producers.
Inputs == UNION {{s \in [1..n -> Incoming] : \A i \in 1..n : s[i].tag = i} : n \in 1..MaxInput}

Truthy(v) == v \notin {"absent", "null", "false", "zero", "empty", "nothing"}

\* No operator but truthy has an opinion on a value that is not there; the
\* text and the list contain what they are compared with.
Satisfied(op, v, value) ==
    /\ v # "absent"
    /\ CASE op = "truthy" -> Truthy(v)
         [] op = "eq" -> v = value
         [] op = "ne" -> v # value
         [] op = "contains" -> v \in {"text", "list"}

OnPort(s, P(_)) == [i \in DOMAIN s |-> [s[i] EXCEPT !.port = P(s[i])]]

Routes == [op : {"truthy", "eq", "ne", "contains"}, value : {"text", "null"}]

BranchOut(route, input) ==
    OnPort(input, LAMBDA x : IF Satisfied(route.op, x.value, route.value) THEN 0 ELSE 1)

\* Two cases at most; default: an explicit port, or -1.
Switches == [cases : UNION {[1..n -> [value : {"text", "null"}, port : 0..1]] : n \in 0..2},
             default : -1..1]

\* Mutant: the highest case.
DefaultAmongCases(switch) ==
    IF switch.default >= 0 THEN switch.default
    ELSE IF switch.cases = <<>> THEN 0
    ELSE Max({c.port : c \in Range(switch.cases)})

\* Mutant: one past the number of cases.
DefaultPastCases(switch) ==
    IF switch.default >= 0 THEN switch.default ELSE 1 + Len(switch.cases)

\* One past the highest case.
DefaultPort(switch) ==
    IF switch.default >= 0 THEN switch.default
    ELSE IF switch.cases = <<>> THEN 0
    ELSE 1 + Max({c.port : c \in Range(switch.cases)})

SwitchPort(switch, v) ==
    LET hits == {i \in DOMAIN switch.cases : switch.cases[i].value = v}
    IN  IF hits = {} THEN DefaultPort(switch) ELSE switch.cases[Min(hits)].port

SwitchOut(switch, input) == OnPort(input, LAMBDA x : SwitchPort(switch, x.value))

\* Mutant: a summary for every item.
ElementsAndSummary(x) ==
    LET body == [x EXCEPT !.value = "text", !.port = 0]
        done == [x EXCEPT !.value = "zero", !.port = 1]
    IN  CASE x.value = "list" -> <<body, body, done>>
          [] x.value = "nothing" -> <<done>>
          [] OTHER -> <<[x EXCEPT !.port = 0], done>>

\* An element for each member of a list and a summary, or the item itself.
Elements(x) ==
    LET body == [x EXCEPT !.value = "text", !.port = 0]
        done == [x EXCEPT !.value = "zero", !.port = 1]
    IN  CASE x.value = "list" -> <<body, body, done>>
          [] x.value = "nothing" -> <<done>>
          [] OTHER -> <<[x EXCEPT !.port = 0]>>

LoopOut(input) == FlattenSeq([i \in DOMAIN input |-> Elements(input[i])])

\* Mutant: items keep the port they came from.
PassAlong(input) == input

\* Merge and wait put every item on port 0; transform makes a new one for it.
PassOut(input) == OnPort(input, LAMBDA x : 0)

-----------------------------------------------------------------------------
VARIABLES
    kind, params,  \* the node
    progress,      \* "authored", "validated", "dry_run" or "executed"
    flagged,       \* the validator reported an error ...
    refused,       \* ... or the dry run failed, ...
    bad,           \* ... or the execution, because of the parameters
    input, output, \* the items of the execution
    config         \* the condition or the cases of a branch or a switch

vars == <<kind, params, progress, flagged, refused, bad, input, output, config>>

Init ==
    /\ kind \in Kinds
    /\ params \in Params(kind)
    /\ progress = "authored"
    /\ flagged = FALSE /\ refused = FALSE /\ bad = FALSE
    /\ input = <<>> /\ output = <<>>
    /\ config = <<>>

Validate ==
    /\ progress = "authored"
    /\ progress' = "validated"
    /\ flagged' = Flags(kind, params)
    /\ UNCHANGED <<kind, params, refused, bad, input, output, config>>

\* The engine validates what it is asked to run, or to dry-run.
DryRun ==
    /\ progress = "validated"
    /\ ~flagged
    /\ progress' = "dry_run"
    /\ refused' = BadInDryRun(kind, params)
    /\ UNCHANGED <<kind, params, flagged, bad, input, output, config>>

\* A workflow is executed whether or not its dry run failed.
Refuse ==
    /\ progress = "dry_run"
    /\ BadAtRun(kind, params)
    /\ progress' = "executed"
    /\ bad' = TRUE
    /\ UNCHANGED <<kind, params, flagged, refused, input, output, config>>

Run ==
    /\ progress = "dry_run"
    /\ ~BadAtRun(kind, params)
    /\ progress' = "executed"
    /\ UNCHANGED <<kind, params, flagged, refused, bad>>

Route(configs, Out(_, _)) ==
    /\ Run
    /\ input' \in Inputs
    /\ config' \in configs
    /\ output' = Out(config', input')

RunBranch == kind = "branch" /\ Route(Routes, BranchOut)
RunSwitch == kind = "switch" /\ Route(Switches, SwitchOut)
RunLoop == kind = "loop" /\ Route({<<>>}, LAMBDA c, s : LoopOut(s))
RunPass == /\ kind \in {"merge", "wait", "transform"}
           /\ Route({<<>>}, LAMBDA c, s : PassOut(s))

\* The calls of the other kinds are the subject of module NodeCalls.
RunOther ==
    /\ Run
    /\ kind \in (SideEffects \ {"wait"}) \cup {"trigger"}
    /\ UNCHANGED <<input, output, config>>

Next == Validate \/ DryRun \/ Refuse \/ RunBranch \/ RunSwitch \/ RunLoop
            \/ RunPass \/ RunOther

Spec == Init /\ [][Next]_vars

-----------------------------------------------------------------------------
\* The type invariant.
TypeOK ==
    /\ kind \in Kinds
    /\ params \in Params(kind)
    /\ progress \in {"authored", "validated", "dry_run", "executed"}
    /\ {flagged, refused, bad} \subseteq BOOLEAN
    /\ input = <<>> \/ input \in Inputs
    /\ \A i \in DOMAIN output : output[i] \in [tag : 1..MaxInput, value : Values, port : 0..2]

\* The parameters that the validator insists on although their executor has a
\* default for them, or looks at nothing but text.
Insisted ==
    \/ /\ kind = "http_request"
       /\ params.method \in {"null", "number"} \/ params.headers = "list"
    \/ kind = "transform" /\ params.set = "null"
    \/ kind = "wait" /\ params.duration_ms = "absent"
    \/ kind = "code_step" /\ params.function \in {"absent", "null"}
    \/ kind = "sub_workflow" /\ (params.workflow_id = "null" \/ params.workflow = "null")

\* What the validator rejects the executor would reject too: no node that could
\* be executed is kept out of the store, but for the parameters above.
NoFalseAlarm == flagged => BadAtRun(kind, params) \/ Insisted

\* What only an execution finds out: whatever is wrong with a request but its
\* url, or with the call of a workflow; that an MCP server is reached over http
\* or may not be started, and that its tool takes no list; that a text is no
\* WASM module, or the module has no such function.
OnlyTried(k, f) ==
    \/ k \in {"http_request", "sub_workflow"}
    \/ k = "mcp_tool_call" /\ (f.spawn # "text" \/ f.arguments = "list")
    \/ k = "code_step" /\ "odd" \in {f.base64, f.path, f.function}

\* What the validator and a dry run both let pass, which is what the authoring
\* loop calls a success, does not fail for its parameters when it is executed,
\* but for what only an execution finds out.
DryRunFindsBadParams == bad => refused \/ OnlyTried(kind, params)

\* The three readers of parameters agree: validator, dry run and run.
ReadersOfParamsAgree == TypeOK /\ NoFalseAlarm /\ DryRunFindsBadParams

\* Routing loses and repeats nothing: whatever port an item came from, it
\* leaves once, in order, on a port the kind has; the kinds with one port put
\* it on port 0, where a connection can pick it up.
EveryItemLeavesOnce ==
    output # <<>> /\ kind # "loop" =>
        /\ Len(output) = Len(input)
        /\ \A i \in DOMAIN input :
              /\ output[i].tag = input[i].tag /\ output[i].value = input[i].value
              /\ kind = "branch" => output[i].port \in {0, 1}
              /\ kind \in {"merge", "wait", "transform"} => output[i].port = 0

\* An item for which no case was written never takes the port of a case,
\* unless the author asked for it.
NoCaseNoPort ==
    kind = "switch" /\ output # <<>> /\ config.default < 0 =>
        \A i \in DOMAIN output :
            (\E c \in Range(config.cases) : c.port = output[i].port)
                => \E c \in Range(config.cases) : c.value = output[i].value

\* A loop closes every list with one summary, after its elements, and never
\* one for an item that it passes on.
OneSummaryPerList ==
    kind = "loop" /\ output # <<>> =>
        \A i \in DOMAIN input :
            LET own == {j \in DOMAIN output : output[j].tag = i}
            IN  IF input[i].value \in {"list", "nothing"}
                THEN {j \in own : output[j].port = 1} = {Max(own)}
                ELSE \E j \in own : own = {j} /\ output[j] = [input[i] EXCEPT !.port = 0]

\* Routing, as an author of a workflow relies on it: nothing is lost, nothing is
\* doubled, nothing takes a port that was not meant for it, and every list is closed.
RoutingSound == EveryItemLeavesOnce /\ NoCaseNoPort /\ OneSummaryPerList
=============================================================================
