---------------------------- MODULE MCNodeParams ----------------------------
(* Instances of NodeParams, Expr and Vault for TLC: the parameters of nodes,  *)
(* the expressions in them, and the credentials that they name.  A behaviour  *)
(* is about one of the three.                                                 *)
EXTENDS NodeParams, Expr, Vault, TLC

VARIABLE side  \* "params", "expression" or "credentials"

Characters(S) == {<<c>> : c \in S}
Object(v) == <<"object", << <<<<"a">>, v>> >> >>
Nothing == <<"null">>

\* A list under "a" and a text under "b"; a text that looks like a template.
AnItem == <<"object", << <<<<"a">>, <<"list", <<Integer(2), Nothing>>>>>>,
                         <<<<"b">>, Str(<<"1">>)>> >> >>
Marks == Str(<<"{", "{", "json", ".", "b", "}", "}", "$", "{", "{", "$", ".", "b", "}", "}">>)

Family(lexemes, size, items, readers) ==
    [lexemes |-> lexemes, size |-> size, items |-> items, readers |-> readers]
Evaluated(lexemes, size, item) == Family(lexemes, size, {item}, {"eval"})

MCFamilies ==
    [logic |->
        Evaluated(Characters({"!", "true", "null", "(", ")"})
                      \cup {<<"&", "&">>, <<"|", "|">>, <<"=", "=">>}, 5, Nothing),
     arithmetic |-> Evaluated(Characters({"1", "-", "*", "<", "(", ")"}), 5, Nothing),
     numbers |-> Evaluated(Characters({"1", "e", ".", "-", "<", "=", " "}), 5, Nothing),
     strings |-> Evaluated(Characters({"'", "\"", "\\", "n", "+"}), 5, Nothing),
     paths |->
        Evaluated({<<"$">>, <<".", "a">>, <<"[">>, <<"]">>, <<"0">>, <<"1">>,
                   <<"'", "0", "'">>, <<"%">>}, 5, AnItem),
     lazy |->
        Evaluated({<<"if", "(">>, <<"coalesce", "(">>, <<"null", ",">>, <<"true", ",">>,
                   <<"0", ",">>, <<"0", "/", "0", ",">>, <<"1", ")">>,
                   <<"0", "/", "0", ")">>}, 4, Nothing),
     functions |->
        Evaluated({<<f, "(">> : f \in {"length", "to_number", "to_string", "contains",
                                       "upper", "lower", "not", "a"}}
                      \cup {<<"$", ".", "a">>, <<"$", ".", "b">>, <<"$">>, <<",">>, <<"2">>,
                            <<")">>}, 4, AnItem),
     templates |->
        Family({Marker, Opening, Closing, <<"$", ".", "a">>, <<"json", ".", "a">>, <<"+">>}, 5,
               {Object(Marks), Object(Integer(2)), Object(Bool(FALSE)), Nothing},
               {"transform", "template"})]

\* Keys, secrets and ids are only compared with each other.
MCSymmetry == UNION {Permutations(S) : S \in {Keys, Secrets, CredentialIds}}

MCInit ==
    /\ \/ side = "params" /\ family = "logic"
       \/ side = "expression" /\ kind = "trigger"
       \/ side = "credentials" /\ kind = "trigger" /\ family = "logic"
    /\ Init /\ ExprInit /\ VaultInit

MCNext ==
    \/ side = "params" /\ Next /\ UNCHANGED <<exprVars, vaultVars, side>>
    \/ side = "expression" /\ ExprStep /\ UNCHANGED <<vars, vaultVars, side>>
    \/ side = "credentials" /\ VaultStep /\ UNCHANGED <<vars, exprVars, side>>

MCSpec == MCInit /\ [][MCNext]_<<vars, exprVars, vaultVars, side>>
=============================================================================
