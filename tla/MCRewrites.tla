----------------------------- MODULE MCRewrites -----------------------------
(* Instances of Rewrites and Author for TLC: workflows that are rewritten,   *)
(* namely every graph of up to three connections on three nodes and some     *)
(* that are wrong in other ways, and the loop that has one written.  A       *)
(* behaviour is about one of the two.                                        *)
EXTENDS Rewrites, Author

VARIABLE side  \* "rewrites" or "authoring"

MCNode(id, kind, mark, calls) == [id |-> id, kind |-> kind, mark |-> mark, calls |-> calls]
Trigger(id) == MCNode(id, "trigger", "empty", "none")
Transform(id, mark) == MCNode(id, "transform", mark, "none")
Branch(id) == MCNode(id, "branch", "empty", "none")
Sub(id, calls) == MCNode(id, "sub_workflow", "empty", calls)

\* Some of the connections are dangling or use a port that is not there.
SomeConns ==
    {Conn(f, 0, t) : f, t \in 1..3} \cup
    {Conn(2, 1, 3), Conn(3, 1, 2), Conn(2, 2, 3), Conn(2, 0, 4), Conn(4, 0, 2)}

ConnSeqs(S, k) == {SetToSeq(C) : C \in UNION {kSubset(i, S) : i \in 0..k}}

Flow(nodes, conns) == [version |-> TRUE, nodes |-> nodes, conns |-> conns]

Graphs == {Flow(<<Trigger(1), x, y>>, conns) :
              x \in {Transform(2, "empty"), Transform(2, "token"), Branch(2)},
              y \in {Transform(3, "blank"), Transform(3, "constant"), Branch(3),
                     Sub(3, "itself")},
              conns \in ConnSeqs(SomeConns, 3)}

Chain == <<Conn(1, 0, 2), Conn(2, 0, 3)>>

\* Unusual nodes.
Others == {Flow(nodes, conns) :
              nodes \in {<<>>, <<Trigger(1)>>, <<Transform(1, "empty"), Branch(2)>>,
                         <<Trigger(1), Trigger(2), Branch(3)>>,
                         <<Trigger(1), Branch(2), Branch(2)>>,
                         <<Trigger(1), MCNode(2, "switch", "empty", "none"), Sub(3, "other")>>},
              conns \in {<<>>, Chain, <<Conn(1, 0, 2), Conn(2, 5, 3)>>}}

\* A diamond, and a chain with a choice.
Larger == {Flow(<<Trigger(1), Transform(2, m), Branch(3), Transform(4, "empty")>>, conns) :
              m \in {"empty", "blank", "constant", "token"},
              conns \in {<<Conn(1, 0, 2), Conn(1, 0, 3), Conn(2, 0, 4), Conn(3, 1, 4)>>,
                         <<Conn(1, 0, 3), Conn(3, 0, 2), Conn(3, 1, 4), Conn(2, 0, 4)>>,
                         <<Conn(1, 0, 3), Conn(1, 0, 2), Conn(2, 0, 3), Conn(3, 0, 4)>>}}

MCAuthored == Graphs \cup Others \cup Larger \cup {[version |-> FALSE, nodes |-> <<Trigger(1)>>, conns |-> <<>>]}

MCSkills ==
    {[wf |-> Flow(<<Trigger(1), Branch(2), Transform(3, "token")>>,
                  <<Conn(1, 0, 2), Conn(2, 1, 3), Conn(1, 0, 3)>>), observe |-> 3],
     [wf |-> Flow(<<Trigger(1), Transform(2, "constant")>>, <<Conn(1, 0, 2)>>), observe |-> 1],
     [wf |-> Flow(<<Trigger(1), Branch(2)>>, <<>>), observe |-> 2]}

\* Documents on one line or more, with a fence or a brace in a string.
MCDocuments == {<<"open", "close">>, <<"open", "line", "close">>, <<"open", "fence", "close">>,
                <<"open", "close", "open", "line", "close">>}

Untouched == CHOOSE w \in MCAuthored : TRUE

MCInit ==
    /\ Init /\ AuthorInit
    /\ side \in {"rewrites", "authoring"}
    /\ side = "authoring" => wf = Untouched
    /\ side = "rewrites" => repairs = 0

MCNext ==
    \/ side = "rewrites" /\ Next /\ UNCHANGED <<authorVars, side>>
    \/ side = "authoring" /\ AuthorStep /\ UNCHANGED <<vars, side>>

MCSpec == MCInit /\ [][MCNext]_<<vars, authorVars, side>>
=============================================================================
