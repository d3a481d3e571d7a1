------------------------------- MODULE Author -------------------------------
(***************************************************************************)
(* The authoring loop: generate_workflow_from_prompt of                    *)
(* crates/a2w-author/src/lib.rs asks a model for a workflow, extracts the  *)
(* JSON document from what it says, validates and dry-runs it, and asks    *)
(* again with the failure until its attempts are used up.                  *)
(*                                                                         *)
(* What the model says is a sequence of tokens: a code fence, a line       *)
(* break, prose, and the opening and the closing brace of the document.    *)
(* A document may span lines, and may hold fences and braces in its        *)
(* strings; what is around it holds no braces.                             *)
(***************************************************************************)
EXTENDS Integers, Sequences, FiniteSets, SequencesExt

CONSTANTS
    Width,    \* the number of values of the integers that count attempts (2^32)
    AskedFor, \* bound: the numbers of repairs that callers ask for
    Documents \* the JSON documents that a model comes up with

ASSUME AuthorAssumption ==
    /\ Width \in Nat \ {0}
    /\ AskedFor \subseteq 0..(Width - 1)
    /\ \A d \in Documents :
          /\ d \in Seq({"open", "close", "line", "fence", "prose"})
          /\ Len(d) >= 2 /\ d[1] = "open" /\ d[Len(d)] = "close"

-----------------------------------------------------------------------------
(* extract_json. *)

FirstOf(s, token) == Min({i \in DOMAIN s : s[i] = token} \cup {Len(s) + 1})
LastOf(s, token) == Max({i \in DOMAIN s : s[i] = token} \cup {0})

IsIn(token, s) == token \in Range(s)

\* (No more than one line break is ever to be trimmed at an end.)
Trimmed(s) ==
    LET rest == IF s # <<>> /\ Head(s) = "line" THEN Tail(s) ELSE s
    IN  IF rest # <<>> /\ rest[Len(rest)] = "line" THEN Front(rest) ELSE rest

\* Mutant: the document ends at the next fence, wherever it is.
StripToNextFence(s) ==
    IF s = <<>> \/ Head(s) # "fence" THEN s
    ELSE LET body == IF IsIn("line", s) THEN SubSeq(s, FirstOf(s, "line") + 1, Len(s))
                     ELSE Tail(s)
         IN  Trimmed(SubSeq(body, 1, FirstOf(body, "fence") - 1))

\* The opening fence goes with its line, or alone when there is no other line;
\* the last fence goes with all that follows it.
StripCodeFence(s) ==
    IF s = <<>> \/ Head(s) # "fence" THEN s
    ELSE LET body == IF IsIn("line", s) THEN SubSeq(s, FirstOf(s, "line") + 1, Len(s))
                     ELSE Tail(s)
         IN  Trimmed(IF IsIn("fence", body) THEN SubSeq(body, 1, LastOf(body, "fence") - 1)
                     ELSE body)

\* From the first opening brace to the last closing one.
ExtractJson(raw) ==
    LET s == StripCodeFence(Trimmed(raw))
    IN  IF IsIn("open", s) /\ FirstOf(s, "open") <= LastOf(s, "close")
        THEN SubSeq(s, FirstOf(s, "open"), LastOf(s, "close"))
        ELSE s

\* How a model may wrap its document: bare, between prose, fenced on lines of
\* its own with or without prose around the fences, fenced on one line, or in a
\* fence that is opened on the document's line or never closed.
Wrappers == {"bare", "prose", "fenced", "prose_fenced", "one_line", "inline_fence", "unclosed"}

Raw(wrapper, doc) ==
    CASE wrapper = "bare" -> <<"line">> \o doc
      [] wrapper = "prose" -> <<"prose", "line">> \o doc \o <<"line", "prose">>
      [] wrapper = "fenced" -> <<"fence", "prose", "line">> \o doc \o <<"line", "fence">>
      [] wrapper = "prose_fenced" ->
             <<"prose", "line", "fence", "line">> \o doc \o <<"line", "fence", "prose">>
      [] wrapper = "one_line" -> <<"fence", "prose">> \o doc \o <<"fence">>
      [] wrapper = "inline_fence" -> <<"fence">> \o doc \o <<"line", "fence">>
      [] wrapper = "unclosed" -> <<"fence", "line">> \o doc

-----------------------------------------------------------------------------
VARIABLES
    stage,      \* "asking", "answered", "parsed", "checked" or "over"
    attempt,    \* counted from 0
    repairs,    \* max_repairs
    message,    \* what the model is asked: the prompt, or the failure to repair
    answer,     \* the model's answer: a wrapper, a document and its quality
    lastParsed, \* the last workflow that parsed, by its attempt; -1: none
    iterations, \* one record per answer
    outcome     \* what the caller gets

authorVars == <<stage, attempt, repairs, message, answer, lastParsed, iterations, outcome>>

\* no_workflow: JSON of another shape; unsound: the validator reports an error;
\* stuck: its dry run fails.
Qualities == {"no_workflow", "unsound", "stuck", "good"}

Failures == {"parse", "validation", "dry_run"}

Answers == [wrapper : Wrappers, doc : Documents, quality : Qualities]
NoAnswer == [wrapper |-> "none", doc |-> <<>>, quality |-> "none"]

Pending == [kind |-> "pending"]

AuthorTypeOK ==
    /\ stage \in {"asking", "answered", "parsed", "checked", "over"}
    /\ attempt \in 0..(Width - 1)
    /\ repairs \in AskedFor
    /\ message.about \in {"prompt"} \cup Failures /\ message.attempt \in -1..attempt
    /\ answer \in Answers \cup {NoAnswer}
    /\ lastParsed \in -1..attempt
    /\ \A i \in DOMAIN iterations :
          iterations[i].failure \in {"none"} \cup Failures /\ iterations[i].quality \in Qualities
    /\ outcome.kind \in {"pending", "transport_error", "failure", "success"}

\* `cfg.max_repairs + 1` in an unsigned 32-bit integer, as a release build adds.
TotalAttempts(r) == (r + 1) % Width

AuthorInit ==
    /\ repairs \in AskedFor
    /\ attempt = 0
    /\ message = [about |-> "prompt", attempt |-> -1]
    /\ answer = NoAnswer
    /\ lastParsed = -1
    /\ iterations = <<>>
    /\ IF TotalAttempts(repairs) = 0
       THEN stage = "over" /\ outcome = [kind |-> "failure", workflow |-> -1]
       ELSE stage = "asking" /\ outcome = Pending

\* The model answers as it likes; a failed transport ends the loop.
Complete ==
    /\ stage = "asking"
    /\ answer' \in Answers
    /\ stage' = "answered"
    /\ UNCHANGED <<attempt, repairs, message, lastParsed, iterations, outcome>>

TransportFails ==
    /\ stage = "asking"
    /\ outcome' = [kind |-> "transport_error"]
    /\ stage' = "over"
    /\ UNCHANGED <<attempt, repairs, message, answer, lastParsed, iterations>>

\* Mutants: one repair too many; the first failure is repaired all along.
AgainOnceMore(failure, parsed) ==
    /\ iterations' = Append(iterations, [failure |-> failure, quality |-> answer.quality])
    /\ message' = [about |-> failure, attempt |-> attempt]
    /\ lastParsed' = parsed
    /\ IF attempt <= TotalAttempts(repairs)
       THEN /\ attempt' = attempt + 1
            /\ stage' = "asking"
            /\ UNCHANGED outcome
       ELSE /\ outcome' = [kind |-> "failure", workflow |-> parsed]
            /\ stage' = "over"
            /\ UNCHANGED attempt
    /\ UNCHANGED <<repairs, answer>>

AgainTheFirst(failure, parsed) ==
    /\ iterations' = Append(iterations, [failure |-> failure, quality |-> answer.quality])
    /\ message' = IF message.about = "prompt" THEN [about |-> failure, attempt |-> attempt]
                  ELSE message
    /\ lastParsed' = parsed
    /\ IF attempt + 1 < TotalAttempts(repairs)
       THEN /\ attempt' = attempt + 1
            /\ stage' = "asking"
            /\ UNCHANGED outcome
       ELSE /\ outcome' = [kind |-> "failure", workflow |-> parsed]
            /\ stage' = "over"
            /\ UNCHANGED attempt
    /\ UNCHANGED <<repairs, answer>>

\* The iteration is recorded, and the next attempt gets the failure, or the
\* caller the last workflow that parsed.
Again(failure, parsed) ==
    /\ iterations' = Append(iterations, [failure |-> failure, quality |-> answer.quality])
    /\ message' = [about |-> failure, attempt |-> attempt]
    /\ lastParsed' = parsed
    /\ IF attempt + 1 < TotalAttempts(repairs)
       THEN /\ attempt' = attempt + 1
            /\ stage' = "asking"
            /\ UNCHANGED outcome
       ELSE /\ outcome' = [kind |-> "failure", workflow |-> parsed]
            /\ stage' = "over"
            /\ UNCHANGED attempt
    /\ UNCHANGED <<repairs, answer>>

\* Mutant: any JSON will do.
ParsesAnything(a) == ExtractJson(Raw(a.wrapper, a.doc)) = a.doc

Parses(a) == ExtractJson(Raw(a.wrapper, a.doc)) = a.doc /\ a.quality # "no_workflow"

\* Mutant: attempts are told by their number from one, as the message says.
ParseFromOne ==
    /\ stage = "answered"
    /\ IF Parses(answer)
       THEN /\ lastParsed' = attempt + 1
            /\ stage' = "parsed"
            /\ UNCHANGED <<attempt, repairs, message, answer, iterations, outcome>>
       ELSE Again("parse", lastParsed)

ParseAnswer ==
    /\ stage = "answered"
    /\ IF Parses(answer)
       THEN /\ lastParsed' = attempt
            /\ stage' = "parsed"
            /\ UNCHANGED <<attempt, repairs, message, answer, iterations, outcome>>
       ELSE Again("parse", lastParsed)

\* Mutant: what the validator reports is left to the dry run.
ValidateNothing ==
    /\ stage = "parsed"
    /\ stage' = "checked"
    /\ UNCHANGED <<attempt, repairs, message, answer, lastParsed, iterations, outcome>>

ValidateAnswer ==
    /\ stage = "parsed"
    /\ IF answer.quality = "unsound" THEN Again("validation", lastParsed)
       ELSE /\ stage' = "checked"
            /\ UNCHANGED <<attempt, repairs, message, answer, lastParsed, iterations, outcome>>

DryRunAnswer ==
    /\ stage = "checked"
    /\ IF answer.quality = "stuck" THEN Again("dry_run", lastParsed)
       ELSE /\ iterations' = Append(iterations, [failure |-> "none", quality |-> answer.quality])
            /\ outcome' = [kind |-> "success", workflow |-> attempt]
            /\ stage' = "over"
            /\ UNCHANGED <<attempt, repairs, message, answer, lastParsed>>

AuthorStep == Complete \/ TransportFails \/ ParseAnswer \/ ValidateAnswer \/ DryRunAnswer

AuthorSpec == AuthorInit /\ [][AuthorStep]_authorVars

-----------------------------------------------------------------------------
\* A document is found in what a model usually says: alone, between prose, or in
\* a fence of its own lines, whatever its strings hold.  (A fence that is opened
\* on the document's first line, or never closed, may cost a repair.)
DocumentFound ==
    stage = "answered" /\ answer.wrapper \in {"bare", "prose", "fenced", "prose_fenced"} =>
        ExtractJson(Raw(answer.wrapper, answer.doc)) = answer.doc

\* A success is a workflow that was validated and dry-run, and it is the answer
\* to the last question, not an earlier one (the loop's three `continue`s).
SuccessIsGood ==
    outcome.kind = "success" =>
        /\ answer.quality = "good"
        /\ outcome.workflow = Len(iterations) - 1

\* Giving up takes exactly the attempts that the caller paid for, and hands out
\* the last answer that was a workflow, with the record of all of them.  (A
\* caller that asks for the largest number of repairs gets no attempt at all.)
GivesUpInTime ==
    /\ Len(iterations) <= repairs + 1
    /\ outcome.kind = "failure" /\ repairs # Width - 1 =>
          /\ Len(iterations) = repairs + 1
          /\ outcome.workflow =
                Max({i - 1 : i \in {j \in DOMAIN iterations :
                                       iterations[j].failure # "parse"}} \cup {-1})

\* The model is asked to repair the failure of its last answer, no earlier one.
RepairsTheLast ==
    stage = "asking" /\ attempt > 0 =>
        /\ message.attempt = attempt - 1
        /\ message.about = iterations[attempt].failure

\* The loop finds what the model meant, asks for the repair of what failed last,
\* stops when it has to, and calls success only what passed every check.
AuthorSound ==
    /\ AuthorTypeOK /\ DocumentFound /\ SuccessIsGood
    /\ GivesUpInTime /\ RepairsTheLast
=============================================================================
