-------------------------------- MODULE Expr --------------------------------
(***************************************************************************)
(* The expression language of the workflow parameters                      *)
(* (crates/a2w-expr/src/lib.rs): the lexer, the recursive-descent parser,  *)
(* the evaluator and the templates that hold expressions; with the two     *)
(* readers of templates in crates/a2w-nodes/src: Transform (transform.rs)  *)
(* and the older `{{json.field}}` templates of the calling nodes           *)
(* (template.rs).                                                          *)
(*                                                                         *)
(* A text is a sequence of characters; a word, or a character of several   *)
(* bytes, stands for itself.  A value is a tuple that starts with its JSON *)
(* type.  A float is a fraction, and no finite one beyond Huge.            *)
(***************************************************************************)
EXTENDS Integers, Sequences, FiniteSets, SequencesExt

CONSTANTS
    Families,      \* the lexemes that texts are written with, the number of them
                   \* (a bound), the items that texts are read against and who
                   \* reads them
    MaxDepth,      \* MAX_PARSE_DEPTH
    MaxTokens,     \* MAX_TOKENS
    MaxLiteral,    \* MAX_STRING_LITERAL_BYTES
    MaxText,       \* MAX_RENDER_BYTES
    Huge           \* the largest float

ASSUME ExprAssumption ==
    /\ \A f \in DOMAIN Families : Families[f].size \in Nat
    /\ {MaxDepth, MaxTokens, MaxLiteral, MaxText, Huge} \subseteq Nat

\* The element of a set of one: what a definition reads often is evaluated once.
Only(S) == CHOOSE x \in S : TRUE

Null == <<"null">>
Bool(b) == <<"bool", b>>
Integer(n) == <<"int", n>>
Str(s) == <<"str", s>>
ParseError == <<"parse_error">>
EvalError == <<"eval_error">>
NodeFailed == <<"node_error">>
Failed(v) == v[1] \in {"parse_error", "eval_error"}

-----------------------------------------------------------------------------
(* Numbers and their text.                                                 *)

Magnitude(n) == IF n < 0 THEN -n ELSE n

\* A float that is not finite becomes null in a JSON value.
Float(p, q) ==
    IF Magnitude(p) > Huge * q THEN Null
    ELSE LET g == Max({d \in 1..q : (p % d) = 0 /\ (q % d) = 0})
         IN  <<"float", p \div g, q \div g>>

Fraction(p, q) == IF q < 0 THEN Float(-p, -q) ELSE Float(p, q)

Figures == <<"0", "1", "2", "3", "4", "5", "6", "7", "8", "9">>
Digit(c) == (CHOOSE i \in DOMAIN Figures : Figures[i] = c) - 1
AllDigits(s) == \A i \in DOMAIN s : s[i] \in Range(Figures)
Decimal(s) == FoldLeft(LAMBDA n, c : n * 10 + Digit(c), 0, s)

RECURSIVE Printed(_)
Printed(n) == IF n < 0 THEN <<"-">> \o Printed(-n)
              ELSE IF n < 10 THEN <<Figures[n + 1]>>
              ELSE Printed(n \div 10) \o <<Figures[(n % 10) + 1]>>

\* Value::to_string, and the string itself for a string.  (A fraction is
\* printed as one, not as its expansion; lists and objects as one character.)
Shown(v) ==
    CASE v[1] = "str" -> v[2]
      [] v[1] = "int" -> Printed(v[2])
      [] v[1] = "float" -> Printed(v[2]) \o (IF v[3] = 1 THEN <<".", "0">>
                                             ELSE <<"/">> \o Printed(v[3]))
      [] v = Bool(TRUE) -> <<"true">>
      [] v = Bool(FALSE) -> <<"false">>
      [] OTHER -> <<ToString(v)>>

Before(s, c) == IF Contains(s, c) THEN SubSeq(s, 1, SelectInSeq(s, LAMBDA x : x = c) - 1) ELSE s
After(s, c) == SubSeq(s, Len(Before(s, c)) + 2, Len(s))

\* str::parse::<f64> of an unsigned number: digits, fraction, exponent.
Unsigned(s) ==
    LET mantissa == Before(s, "e")
        whole == Before(mantissa, ".")
        part == After(mantissa, ".")
        signed == After(s, "e")
        power == IF signed # <<>> /\ Head(signed) \in {"+", "-"} THEN Tail(signed) ELSE signed
        p == Decimal(whole \o part)
    IN  IF \/ ~AllDigits(whole \o part \o power)
           \/ whole \o part = <<>>
           \/ Contains(s, "e") /\ power = <<>>
        THEN ParseError
        ELSE IF p = 0 THEN Float(0, 1)
        ELSE IF Len(power) > 1 THEN (IF Head(signed) = "-" THEN Float(0, 1) ELSE Null)
        ELSE LET x == 10 ^ Decimal(power)
                 q == 10 ^ Len(part)
             IN  IF signed # <<>> /\ Head(signed) = "-" THEN Float(p, q * x)
                 ELSE Float(p * x, q)

Blank(s) == \A i \in DOMAIN s : s[i] = " "
Stripped(s) ==
    IF Blank(s) THEN <<>>
    ELSE LET ink == {i \in DOMAIN s : s[i] # " "} IN SubSeq(s, Min(ink), Max(ink))

-----------------------------------------------------------------------------
(* The lexer: from text s, the kind and the content of each token.         *)

Letters == {"a", "b", "e", "n", "t", "x", "A", "true", "false", "null", "json", "if", "not",
            "length", "contains", "upper", "lower", "coalesce", "to_string", "to_number"}
Pairs == {<<"=", "=">>, <<"!", "=">>, <<"<", "=">>, <<">", "=">>, <<"&", "&">>, <<"|", "|">>}
Symbols == {"+", "-", "*", "/", "%", "<", ">", "!", "(", ")", "[", "]", ",", ".", "$"}
Operator(pair) ==
    CASE pair[1] = "=" -> "==" [] pair[1] = "!" -> "!=" [] pair[1] = "<" -> "<="
      [] pair[1] = ">" -> ">=" [] pair[1] = "&" -> "&&" [] pair[1] = "|" -> "||"

\* The longest prefix of s whose characters satisfy In(s, i).
While(s, In(_, _)) == Min({i \in 1..Len(s) + 1 : i > Len(s) \/ ~In(s, i)}) - 1

\* Mutant: a sign continues a number wherever it stands.
InNumberSigned(s, i) == s[i] \in Range(Figures) \cup {".", "e", "+", "-"}

\* A sign continues a number only after its exponent's letter.
InNumber(s, i) == \/ s[i] \in Range(Figures) \cup {".", "e"}
                  \/ s[i] \in {"+", "-"} /\ i > 1 /\ s[i - 1] = "e"

InWord(s, i) == s[i] \in Letters \cup Range(Figures)

Escaped(c) == IF c = "n" THEN "newline" ELSE IF c = "t" THEN "tab" ELSE c

\* The content of a literal that quote q opened, and how much of s it took.
RECURSIVE Literal(_, _, _, _)
Literal(s, q, i, content) ==
    CASE i > Len(s) -> [ok |-> FALSE]
      [] s[i] = q -> [ok |-> TRUE, content |-> content, length |-> i]
      [] s[i] # q /\ Len(content) >= MaxLiteral -> [ok |-> FALSE]
      [] OTHER ->
            IF s[i] # "\\" THEN Literal(s, q, i + 1, Append(content, s[i]))
            ELSE IF i = Len(s) THEN [ok |-> FALSE]
            ELSE Literal(s, q, i + 2, Append(content, Escaped(s[i + 1])))

Token(kind, content, length) == [ok |-> TRUE, token |-> <<kind, content>>, length |-> length]
NoToken == [ok |-> FALSE]

NumberToken(s) ==
    LET length == While(s, InNumber)
        v == Unsigned(SubSeq(s, 1, length))
    IN  IF v[1] = "float" THEN Token("number", v, length) ELSE NoToken

WordToken(s) ==
    LET length == While(s, InWord)
        word == SubSeq(s, 1, length)
    IN  Token(IF word \in {<<"true">>, <<"false">>, <<"null">>} THEN word[1] ELSE "ident",
              word, length)

StringToken(s) ==
    LET l == Literal(s, Head(s), 2, <<>>)
    IN  IF l.ok THEN Token("string", l.content, l.length) ELSE NoToken

NextToken(s) ==
    CASE Len(s) > 1 /\ SubSeq(s, 1, 2) \in Pairs -> Token(Operator(s), <<>>, 2)
      [] Head(s) \in Symbols /\ (Len(s) = 1 \/ SubSeq(s, 1, 2) \notin Pairs) -> Token(Head(s), <<>>, 1)
      [] Head(s) \in {"'", "\""} -> StringToken(s)
      [] Head(s) \in Range(Figures) -> NumberToken(s)
      [] Head(s) \in Letters -> WordToken(s)
      [] OTHER -> NoToken

\* Parser::new: the tokens of text s after those already read.
RECURSIVE Tokens(_, _)
Tokens(s, read) ==
    IF Blank(s) THEN [ok |-> TRUE, tokens |-> read]
    ELSE IF Head(s) = " " THEN Tokens(Tail(s), read)
    ELSE LET next == NextToken(s)
         IN  IF ~next.ok \/ Len(read) >= MaxTokens THEN NoToken
             ELSE Tokens(SubSeq(s, next.length + 1, Len(s)), Append(read, next.token))

-----------------------------------------------------------------------------
(* The parser.  A state of it has the tokens, the position of the next one,  *)
(* the current depth, and the tree that the last call returned, or ok = FALSE *)
(* when it failed.                                                           *)

Peek(p) == IF p.pos <= Len(p.tokens) THEN p.tokens[p.pos][1] ELSE "end"
Content(p) == p.tokens[p.pos][2]
Consume(p) == [p EXCEPT !.pos = @ + 1]
Fail(p) == [p EXCEPT !.ok = FALSE]
Then(p, Next(_)) == IF p.ok THEN Next(p) ELSE p
Descend(p) == IF p.depth + 1 > MaxDepth THEN Fail(p) ELSE [p EXCEPT !.depth = @ + 1]
Ascend(p) == [p EXCEPT !.depth = @ - 1]
Expect(p, kind) == IF Peek(p) = kind THEN Consume(p) ELSE Fail(p)

\* The operators that each rule chains to the left, and the rule of its operands.
Operands == [or |-> "and", and |-> "not", add |-> "mul", mul |-> "unary"]
Chained == [or |-> {"||"}, and |-> {"&&"}, add |-> {"+", "-"}, mul |-> {"*", "/", "%"}]
Comparisons == {"==", "!=", "<", ">", "<=", ">="}

RECURSIVE Parse(_, _), Chain(_, _), Arguments(_, _), Steps(_)

Binary(op, l, r) == [r EXCEPT !.tree = <<op, l.tree, r.tree>>]

\* Mutant: chained to the right.
ChainRight(rule, l) ==
    IF Peek(l) \notin Chained[rule] THEN l
    ELSE Then(Parse(Operands[rule], Consume(l)),
              LAMBDA r : Then(Chain(rule, r), LAMBDA c : Binary(Peek(l), l, c)))

Chain(rule, l) ==
    IF Peek(l) \notin Chained[rule] THEN l
    ELSE Then(Parse(Operands[rule], Consume(l)), LAMBDA r : Chain(rule, Binary(Peek(l), l, r)))

ParseChain(rule, p) == Then(Parse(Operands[rule], p), LAMBDA l : Chain(rule, l))

ParseCmp(p) ==
    Then(Parse("add", p), LAMBDA l :
        IF Peek(l) \notin Comparisons THEN l
        ELSE Then(Parse("add", Consume(l)), LAMBDA r : Binary(Peek(l), l, r)))

\* Mutant: the way up is forgotten after a sign.
StillDown(p, tree) == [p EXCEPT !.tree = tree]

Ascended(p, tree) == [Ascend(p) EXCEPT !.tree = tree]

ParseNot(p) ==
    IF Peek(p) # "!" THEN Parse("cmp", p)
    ELSE Then(Descend(p), LAMBDA d :
             Then(Parse("not", Consume(d)), LAMBDA e : Ascended(e, <<"!", e.tree>>)))

ParseOr(p) ==
    Then(Descend(p), LAMBDA d :
        Then(ParseChain("or", d), LAMBDA e : Ascended(e, e.tree)))

Arguments(p, args) ==
    Then(Parse("or", p), LAMBDA e :
        IF Peek(e) = "," THEN Arguments(Consume(e), Append(args, e.tree))
        ELSE [e EXCEPT !.tree = Append(args, e.tree)])

Call(p, name) ==
    IF Peek(p) # "(" THEN Fail(p)
    ELSE LET a == Consume(p)
         IN  Then(IF Peek(a) = ")" THEN [a EXCEPT !.tree = <<>>] ELSE Arguments(a, <<>>),
                  LAMBDA e : Expect([e EXCEPT !.tree = <<"call", name, e.tree>>], ")"))

\* An index is a whole number that is not negative.
Step(p) ==
    CASE Peek(p) = "number" /\ Content(p)[3] = 1 /\ Content(p)[2] >= 0 -> <<"index", Content(p)[2]>>
      [] Peek(p) = "string" -> <<"key", Content(p)>>
      [] OTHER -> <<"none">>

Steps(p) ==
    LET s == Consume(p)
        Stepped(step, q) == [q EXCEPT !.tree = <<"path", Append(p.tree[2], step)>>]
    IN  CASE Peek(p) = "." ->
                IF Peek(s) # "ident" THEN Fail(s)
                ELSE Steps(Stepped(<<"field", Content(s)>>, Consume(s)))
          [] Peek(p) = "[" ->
                IF Step(s) = <<"none">> THEN Fail(s)
                ELSE Then(Expect(Consume(s), "]"), LAMBDA e : Steps(Stepped(Step(s), e)))
          [] OTHER -> p

ParseAtom(p) ==
    LET c == Consume(p)
    IN  CASE Peek(p) = "number" -> [c EXCEPT !.tree = <<"lit", Content(p)>>]
          [] Peek(p) = "string" -> [c EXCEPT !.tree = <<"lit", Str(Content(p))>>]
          [] Peek(p) \in {"true", "false"} -> [c EXCEPT !.tree = <<"lit", Bool(Peek(p) = "true")>>]
          [] Peek(p) = "null" -> [c EXCEPT !.tree = <<"lit", Null>>]
          [] Peek(p) = "$" -> Steps([c EXCEPT !.tree = <<"path", <<>>>>])
          [] Peek(p) = "ident" -> Call(c, Content(p))
          [] Peek(p) = "(" -> Then(Parse("or", c), LAMBDA e : Expect(e, ")"))
          [] OTHER -> Fail(p)

ParseUnary(p) ==
    IF Peek(p) \notin {"-", "+"} THEN ParseAtom(p)
    ELSE Then(Descend(p), LAMBDA d :
             Then(Parse("unary", Consume(d)), LAMBDA e :
                 Ascended(e, IF Peek(p) = "-" THEN <<"-", e.tree>> ELSE e.tree)))

Parse(rule, p) ==
    CASE rule = "or" -> ParseOr(p)
      [] rule = "not" -> ParseNot(p)
      [] rule = "cmp" -> ParseCmp(p)
      [] rule = "unary" -> ParseUnary(p)
      [] OTHER -> ParseChain(rule, p)

\* parse_top, of the tokens and of the text.
ParsedTokens(lexed) ==
    IF ~lexed.ok THEN NoToken
    ELSE Then(Parse("or", [ok |-> TRUE, tokens |-> lexed.tokens, pos |-> 1, depth |-> 0,
                           tree |-> <<>>]),
              LAMBDA e : Expect(e, "end"))

Parsed(s) == Only({ParsedTokens(lexed) : lexed \in {Tokens(s, <<>>)}})

-----------------------------------------------------------------------------
(* The evaluator.                                                          *)

\* m.get of an object's fields, which are pairs of a key and a value.
Field(fields, key) ==
    IF \E i \in DOMAIN fields : fields[i][1] = key
    THEN fields[SelectInSeq(fields, LAMBDA f : f[1] = key)][2]
    ELSE <<"none">>

Follow(v, step) ==
    LET At(i) == IF i < Len(v[2]) THEN v[2][i + 1] ELSE <<"none">>
    IN  CASE v[1] = "object" /\ step[1] \in {"field", "key"} -> Field(v[2], step[2])
          [] v[1] = "list" /\ step[1] = "index" -> At(step[2])
          [] v[1] = "list" /\ step[1] = "key" /\ step[2] # <<>> /\ AllDigits(step[2]) ->
                At(Decimal(step[2]))
          [] OTHER -> <<"none">>

Lookup(item, steps) ==
    LET v == FoldLeft(Follow, item, steps) IN IF v = <<"none">> THEN Null ELSE v

IsTruthy(v) ==
    CASE v[1] = "null" -> FALSE
      [] v[1] = "bool" -> v[2]
      [] v[1] \in {"int", "float"} -> v[2] # 0
      [] OTHER -> v[2] # <<>>

\* as_number.  (A fraction is read as it is printed.)
AsNumber(v) ==
    LET s == Stripped(v[2])
        minus == s # <<>> /\ Head(s) = "-"
        unsigned == IF s # <<>> /\ Head(s) \in {"+", "-"} THEN Tail(s) ELSE s
        n == IF Contains(unsigned, "/")
             THEN Fraction(Decimal(Before(unsigned, "/")), Decimal(After(unsigned, "/")))
             ELSE Unsigned(unsigned)
    IN  CASE v[1] = "float" -> v
          [] v[1] = "int" -> Float(v[2], 1)
          [] v[1] = "bool" -> Float(IF v[2] THEN 1 ELSE 0, 1)
          [] v[1] = "null" -> Float(0, 1)
          [] v[1] = "str" -> IF n[1] # "float" THEN EvalError
                             ELSE IF minus THEN Float(-n[2], n[3]) ELSE n
          [] OTHER -> EvalError

Compare(op, a, b) ==
    LET x == a[2] * b[3]
        y == b[2] * a[3]
    IN  CASE op = "<" -> x < y [] op = ">" -> x > y [] op = "<=" -> x <= y [] op = ">=" -> x >= y

\* The remainder has the sign of the dividend.
Remainder(a, b) ==
    LET x == a[2] * b[3]
        y == Magnitude(b[2] * a[3])
        rest == Magnitude(x) % y
    IN  Float(IF x < 0 THEN -rest ELSE rest, a[3] * b[3])

\* Both operands are numbers.
Arithmetic(op, a, b) ==
    CASE op = "+" -> Float(a[2] * b[3] + b[2] * a[3], a[3] * b[3])
      [] op = "-" -> Float(a[2] * b[3] - b[2] * a[3], a[3] * b[3])
      [] op = "*" -> Float(a[2] * b[2], a[3] * b[3])
      [] op = "/" -> IF b[2] = 0 THEN EvalError ELSE Fraction(a[2] * b[3], a[3] * b[2])
      [] op = "%" -> IF b[2] = 0 THEN EvalError ELSE Remainder(a, b)
      [] OTHER -> Bool(Compare(op, a, b))

\* Both operands are values.
Combined(op, l, r) ==
    CASE op = "==" -> Bool(l = r)
      [] op = "!=" -> Bool(l # r)
      [] op = "+" /\ "str" \in {l[1], r[1]} -> Str(Shown(l) \o Shown(r))
      [] OTHER -> Only({IF EvalError \in {a, b} THEN EvalError ELSE Arithmetic(op, a, b) :
                        a \in {AsNumber(l)}, b \in {AsNumber(r)}})

Cased(s, upper) == [i \in DOMAIN s |-> IF s[i] \in {"a", "A"} THEN (IF upper THEN "A" ELSE "a") ELSE s[i]]

IsContained(h, n) ==
    CASE h[1] = "str" /\ n[1] = "str" ->
            \E i \in 1..Len(h[2]) + 1 : SubSeq(h[2], i, i + Len(n[2]) - 1) = n[2]
      [] h[1] = "list" -> Contains(h[2], n)
      [] h[1] = "object" /\ n[1] = "str" -> Field(h[2], n[2]) # <<"none">>
      [] OTHER -> FALSE

Arity == [contains |-> 2, length |-> 1, upper |-> 1, lower |-> 1, to_string |-> 1,
          to_number |-> 1, not |-> 1]

\* The functions whose arguments are all evaluated first.
Builtin(f, v) ==
    CASE f = "length" -> Integer(IF v[1][1] \in {"str", "list", "object"} THEN Len(v[1][2]) ELSE 0)
      [] f = "contains" -> Bool(IsContained(v[1], v[2]))
      [] f \in {"upper", "lower"} -> Str(Cased(Shown(v[1]), f = "upper"))
      [] f = "to_string" -> Str(Shown(v[1]))
      [] f = "to_number" -> AsNumber(v[1])
      [] f = "not" -> Bool(~IsTruthy(v[1]))

FirstFailed(vs) == vs[SelectInSeq(vs, Failed)]

\* Mutant: an argument that fails is skipped, like one that is null.
RECURSIVE CoalesceAny(_)
CoalesceAny(vs) ==
    IF vs = <<>> THEN Null
    ELSE IF Head(vs) = Null \/ Failed(Head(vs)) THEN CoalesceAny(Tail(vs)) ELSE Head(vs)

\* The arguments are evaluated only up to the first that is not null.
RECURSIVE Coalesce(_)
Coalesce(vs) == IF vs = <<>> THEN Null
                ELSE IF Head(vs) = Null THEN Coalesce(Tail(vs)) ELSE Head(vs)

\* A call, with the value of each argument.
CallBuiltin(name, vs) ==
    LET f == name[1] IN
        CASE name = <<"coalesce">> -> Coalesce(vs)
          [] name = <<"if">> ->
                IF Len(vs) # 3 THEN EvalError
                ELSE IF Failed(vs[1]) THEN vs[1]
                ELSE IF IsTruthy(vs[1]) THEN vs[2] ELSE vs[3]
          [] Len(name) = 1 /\ f \in DOMAIN Arity ->
                IF \E i \in DOMAIN vs : Failed(vs[i]) THEN FirstFailed(vs)
                ELSE IF Len(vs) # Arity[f] THEN EvalError ELSE Builtin(f, vs)
          [] OTHER -> EvalError

Negated(v) ==
    Only({IF n = EvalError THEN n ELSE Float(-n[2], n[3]) : n \in {AsNumber(v)}})

\* Mutant: both operands are evaluated first.
LogicOfBoth(op, l, r) ==
    IF Failed(l) THEN l ELSE IF Failed(r) THEN r
    ELSE IF IsTruthy(l) = (op = "||") THEN l ELSE r

\* && and || return an operand, and the right one only when it decides.
Logic(op, l, r) == IF Failed(l) \/ IsTruthy(l) = (op = "||") THEN l ELSE r

Unary(op, v) ==
    IF Failed(v) THEN v ELSE IF op = "!" THEN Bool(~IsTruthy(v)) ELSE Negated(v)

BinaryValue(op, l, r) ==
    IF op \in {"&&", "||"} THEN Logic(op, l, r)
    ELSE IF Failed(l) THEN l ELSE IF Failed(r) THEN r ELSE Combined(op, l, r)

RECURSIVE Eval(_, _)
Eval(e, item) ==
    CASE e[1] = "lit" -> e[2]
      [] e[1] = "path" -> Lookup(item, e[2])
      [] e[1] = "call" ->
            Only({CallBuiltin(e[2], vs) : vs \in {[i \in DOMAIN e[3] |-> Eval(e[3][i], item)]}})
      [] Len(e) = 2 -> Only({Unary(e[1], v) : v \in {Eval(e[2], item)}})
      [] OTHER -> Only({BinaryValue(e[1], l, r) : l \in {Eval(e[2], item)}, r \in {Eval(e[3], item)}})

EvalStr(s, item) ==
    Only({IF p.ok THEN Eval(p.tree, item) ELSE ParseError : p \in {Parsed(s)}})

-----------------------------------------------------------------------------
(* The readers of templates.                                               *)

Marker == <<"$", "{", "{">>
Opening == <<"{", "{">>
Closing == <<"}", "}">>

\* Where pattern p first occurs in s, or 0.
Find(p, s) ==
    LET at == {i \in 1..Len(s) : IsPrefix(p, SubSeq(s, i, Len(s)))}
    IN  IF at = {} THEN 0 ELSE Min(at)

RECURSIVE Count(_, _)
Count(p, s) == IF Find(p, s) = 0 THEN 0
               ELSE 1 + Count(p, SubSeq(s, Find(p, s) + Len(p), Len(s)))

\* Mutant: every value is printed as JSON, a string with its quotes.
MarkedQuoted(v) ==
    IF v[1] = "str" THEN <<"\"">> \o v[2] \o <<"\"">>
    ELSE IF Failed(v) THEN Marker \o <<"!", v[1], "!">> \o Closing ELSE Shown(v)

\* What a marked expression is replaced with: an error is shown in its place.
Marked(v) == IF Failed(v) THEN Marker \o <<"!", v[1], "!">> \o Closing ELSE Shown(v)

\* Text outside of the markers is copied byte by byte.
Outer(c) == IF c = "wide" THEN <<"byte", "byte">> ELSE <<c>>

RECURSIVE Rendered(_, _), Filled(_, _)

\* Mutant: the text goes on with what was put in.
RenderedAgain(s, item) ==
    LET inner == SubSeq(s, 4, Len(s))
        j == Find(Closing, inner)
    IN  IF s = <<>> THEN <<>>
        ELSE IF ~IsPrefix(Marker, s) THEN Outer(Head(s)) \o Rendered(Tail(s), item)
        ELSE IF j = 0 THEN s
        ELSE Rendered(Shown(EvalStr(Stripped(SubSeq(inner, 1, j - 1)), item))
                          \o SubSeq(inner, j + 2, Len(inner)), item)

Rendered(s, item) ==
    LET inner == SubSeq(s, 4, Len(s))
        j == Find(Closing, inner)
    IN  IF s = <<>> THEN <<>>
        ELSE IF ~IsPrefix(Marker, s) THEN Outer(Head(s)) \o Rendered(Tail(s), item)
        ELSE IF j = 0 THEN s
        ELSE Only({Marked(v) : v \in {EvalStr(Stripped(SubSeq(inner, 1, j - 1)), item)}})
                 \o Rendered(SubSeq(inner, j + 2, Len(inner)), item)

\* a2w_expr::render.
Render(s, item) ==
    IF Len(s) > MaxText THEN SubSeq(s, 1, MaxText) \o <<"truncated">>
    ELSE Rendered(s, item)

\* resolve of template.rs.
Resolved(token, item) ==
    LET key == SubSeq(token, 3, Len(token))
        v == IF item[1] = "object" THEN Field(item[2], key) ELSE <<"none">>
    IN  CASE token = <<"json">> -> Shown(item)
          [] IsPrefix(<<"json", ".">>, token) /\ v # <<"none">> -> Shown(v)
          [] OTHER -> <<>>

\* render of template.rs.
Filled(s, item) ==
    LET inner == SubSeq(s, 3, Len(s))
        j == Find(Closing, inner)
    IN  IF s = <<>> THEN <<>>
        ELSE IF IsPrefix(Opening, s) /\ j # 0
        THEN Resolved(Stripped(SubSeq(inner, 1, j - 1)), item)
                 \o Filled(SubSeq(inner, j + 2, Len(inner)), item)
        ELSE <<Head(s)>> \o Filled(Tail(s), item)

\* A text that is one expression, which keeps the type of its value.
IsWhole(s) ==
    /\ IsPrefix(Marker, s) /\ IsSuffix(Closing, s)
    /\ Count(Marker, s) = 1 /\ Count(Closing, s) = 1

\* render_value of transform.rs, for a text.
SetValue(s, item) ==
    LET t == Stripped(s)
        inner == Stripped(SubSeq(t, 4, Len(t) - 2))
    IN  IF Find(Marker, s) = 0 THEN Str(s)
        ELSE IF IsWhole(t)
        THEN Only({IF Failed(v) THEN NodeFailed ELSE v : v \in {EvalStr(inner, item)}})
        ELSE Str(Render(s, item))

With(fields, key, v) ==
    IF Field(fields, key) = <<"none">> THEN Append(fields, <<key, v>>)
    ELSE [i \in DOMAIN fields |-> IF fields[i][1] = key THEN <<key, v>> ELSE fields[i]]

\* Mutant: each entry of `set` is evaluated against what the others left.
SetEntryInPlace(obj, entry, item) ==
    LET v == SetValue(entry[2], obj)
    IN  IF obj = NodeFailed \/ v = NodeFailed THEN NodeFailed
        ELSE <<"object", With(obj[2], entry[1], v)>>

SetEntry(obj, entry, item) ==
    Only({IF obj = NodeFailed \/ v = NodeFailed THEN NodeFailed
          ELSE <<"object", With(obj[2], entry[1], v)>> : v \in {SetValue(entry[2], item)}})

\* Transform::execute of one item, with the entries of `set` in their order.
Transformed(set, item) ==
    IF item[1] # "object" THEN NodeFailed
    ELSE FoldLeft(LAMBDA obj, entry : SetEntry(obj, entry, item), item, set)

-----------------------------------------------------------------------------
VARIABLES
    family,   \* of the lexemes the text is written with
    text,     \* the lexemes
    tree,     \* what the parser made of it, for "eval"
    reader,   \* who read the text: "none", "eval", "transform", "template"
    against,  \* the item it was read against
    outcome   \* what came of it

exprVars == <<family, text, tree, reader, against, outcome>>

Chars == FlattenSeq(text)

ExprInit ==
    /\ family \in DOMAIN Families
    /\ text = <<>>
    /\ tree = <<>>
    /\ reader = "none"
    /\ against = Null
    /\ outcome = <<"none">>

Write ==
    /\ reader = "none"
    /\ Len(text) < Families[family].size
    /\ \E l \in Families[family].lexemes : text' = Append(text, l)
    /\ UNCHANGED <<family, tree, reader, against, outcome>>

Read(who, Outcome(_)) ==
    /\ reader = "none"
    /\ who \in Families[family].readers
    /\ reader' = who
    /\ against' \in Families[family].items
    /\ outcome' = Outcome(against')
    /\ UNCHANGED <<family, text>>

\* A `set` with the text under "a", an entry that reads the field "a", and one that
\* has more than the text.
Entries == << <<<<"a">>, Chars>>,
              <<<<"x">>, Marker \o <<"$", ".", "a">> \o Closing>>,
              <<<<"y">>, Append(Chars, "b")>> >>

\* eval_str.
Evaluate ==
    /\ tree' = Parsed(Chars)
    /\ Read("eval", LAMBDA item : IF tree'.ok THEN Eval(tree'.tree, item) ELSE ParseError)

Transform == Read("transform", LAMBDA item : Transformed(Entries, item)) /\ UNCHANGED tree
FillTemplate == Read("template", LAMBDA item : Str(Filled(Chars, item))) /\ UNCHANGED tree

ExprStep == Write \/ Evaluate \/ Transform \/ FillTemplate

-----------------------------------------------------------------------------
(* The grammar of the crate's documentation, as the set of trees, each with *)
(* its nesting, that rule derives from the tokens i to j.                   *)

Below == [or |-> "and", and |-> "not", not |-> "cmp", cmp |-> "add", add |-> "mul", mul |-> "unary"]
Deeper(e) == [e EXCEPT !.nesting = @ + 1]
Tree(t, nesting) == [tree |-> t, nesting |-> nesting]

RECURSIVE Derived(_, _, _, _), DerivedArguments(_, _, _), DerivedSteps(_, _, _)

Joined(t, k, ls, rs) ==
    {Tree(<<t[k][1], l.tree, r.tree>>, Max({l.nesting, r.nesting})) : l \in ls, r \in rs}

\* The sequences of arguments, as one tree.
DerivedArguments(t, i, j) ==
    {Tree(<<e.tree>>, e.nesting) : e \in Derived(t, "or", i, j)} \cup
    UNION {{Tree(<<e.tree>> \o es.tree, Max({e.nesting, es.nesting})) :
               e \in Derived(t, "or", i, k - 1), es \in DerivedArguments(t, k + 1, j)} :
           k \in {x \in i..j : t[x][1] = ","}}

DerivedSteps(t, i, j) ==
    IF i > j THEN {<<>>}
    ELSE IF i < j /\ t[i][1] = "." /\ t[i + 1][1] = "ident"
    THEN {<<<<"field", t[i + 1][2]>>>> \o steps : steps \in DerivedSteps(t, i + 2, j)}
    ELSE IF i + 1 < j /\ t[i][1] = "[" /\ t[i + 2][1] = "]"
    THEN {<<<<IF t[i + 1][1] = "string" THEN "key" ELSE "index",
              IF t[i + 1][1] = "string" THEN t[i + 1][2] ELSE t[i + 1][2][2]>>>> \o steps :
             steps \in {x \in DerivedSteps(t, i + 3, j) :
                           \/ t[i + 1][1] = "string"
                           \/ t[i + 1][1] = "number" /\ t[i + 1][2][3] = 1}}
    ELSE {}

DerivedAtom(t, i, j) ==
    LET kind == t[i][1]
        inside == IF t[j][1] # ")" THEN {}
                  ELSE IF kind = "(" THEN Derived(t, "or", i + 1, j - 1)
                  ELSE IF kind # "ident" \/ i + 1 >= j \/ t[i + 1][1] # "(" THEN {}
                  ELSE IF i + 2 = j THEN {Tree(<<>>, -1)}
                  ELSE DerivedArguments(t, i + 2, j - 1)
    IN  IF kind = "$" THEN {Tree(<<"path", steps>>, 0) : steps \in DerivedSteps(t, i + 1, j)}
        ELSE IF kind = "ident"
        THEN {Deeper(Tree(<<"call", t[i][2], e.tree>>, e.nesting)) : e \in inside}
        ELSE IF kind = "(" THEN {Deeper(e) : e \in inside}
        ELSE IF i = j THEN
            CASE kind = "number" -> {Tree(<<"lit", t[i][2]>>, 0)}
              [] kind = "string" -> {Tree(<<"lit", Str(t[i][2])>>, 0)}
              [] kind \in {"true", "false"} -> {Tree(<<"lit", Bool(kind = "true")>>, 0)}
              [] kind = "null" -> {Tree(<<"lit", Null>>, 0)}
              [] OTHER -> {}
        ELSE {}

Derived(t, rule, i, j) ==
    IF i > j THEN {}
    ELSE IF rule \in DOMAIN Chained
    THEN Derived(t, Below[rule], i, j) \cup
         UNION {Joined(t, k, Derived(t, rule, i, k - 1), Derived(t, Below[rule], k + 1, j)) :
                k \in {x \in i..j : t[x][1] \in Chained[rule]}}
    ELSE IF rule = "cmp"
    THEN Derived(t, "add", i, j) \cup
         UNION {Joined(t, k, Derived(t, "add", i, k - 1), Derived(t, "add", k + 1, j)) :
                k \in {x \in i..j : t[x][1] \in Comparisons}}
    ELSE IF rule = "not" /\ t[i][1] = "!"
    THEN {Deeper(Tree(<<"!", e.tree>>, e.nesting)) : e \in Derived(t, "not", i + 1, j)}
    ELSE IF rule = "not" THEN Derived(t, "cmp", i, j)
    ELSE IF t[i][1] = "-"
    THEN {Deeper(Tree(<<"-", e.tree>>, e.nesting)) : e \in Derived(t, "unary", i + 1, j)}
    ELSE IF t[i][1] = "+" THEN {Deeper(e) : e \in Derived(t, "unary", i + 1, j)}
    ELSE DerivedAtom(t, i, j)

-----------------------------------------------------------------------------
\* The type invariant; a parser that succeeds has come up from every level.
ExprTypeOK ==
    /\ family \in DOMAIN Families
    /\ Len(text) <= Families[family].size
    /\ reader \in {"none", "eval", "transform", "template"}
    /\ outcome[1] \in {"none", "null", "bool", "int", "float", "str", "list", "object",
                       "parse_error", "eval_error", "node_error"}
    /\ reader = "eval" /\ tree.ok => tree.depth = 0

\* The predictive parser accepts what the documented grammar derives (with signs
\* in a row, and up to the nesting it allows), and returns the only tree there
\* is: it never has to go back for another alternative.
ParsedAsGrammar ==
    reader = "eval" =>
        \A lexed \in {Tokens(Chars, <<>>)} :
        \A derived \in {IF lexed.ok THEN Derived(lexed.tokens, "or", 1, Len(lexed.tokens)) ELSE {}} :
            /\ Cardinality(derived) <= 1
            /\ tree.ok <=> \E e \in derived : e.nesting < MaxDepth
            /\ tree.ok => \E e \in derived : e.tree = tree.tree

\* Blanks between lexemes change nothing, unless they part two words or numbers or
\* stand in a string: the lexer finds a number's end before an operator by itself.
BlanksChangeNothing ==
    LET spaced == FoldLeft(LAMBDA s, l : s \o <<" ">> \o l, <<>>, text)
        OfWord(c) == c \in Letters \cup Range(Figures)
        glued == \E i \in 1..Len(text) - 1 : OfWord(Last(text[i])) /\ OfWord(Head(text[i + 1]))
            quoted == \E c \in Range(Chars) : c \in {"'", "\""}
    IN  reader = "eval" /\ ~glued /\ ~quoted =>
            \A parsed \in {Parsed(spaced)} :
                parsed.ok => tree.ok /\ tree.tree = parsed.tree

\* An operand after the first of `&&`, `||`, `if` and `coalesce` may fail unseen
\* exactly when no value of it would make a difference.
UnreadMayFail ==
    LET Lazy(e) == e[1] \in {"&&", "||"} \/ (e[1] = "call" /\ e[2] \in {<<"if">>, <<"coalesce">>})
        Parts(e) == IF e[1] = "call" THEN e[3] ELSE Tail(e)
        Replaced(e, k, v) == IF e[1] = "call" THEN [e EXCEPT ![3][k] = v] ELSE [e EXCEPT ![k + 1] = v]
        fails == <<"/", <<"lit", Float(1, 1)>>, <<"lit", Float(0, 1)>>>>
        values == {<<"lit", v>> : v \in {Null, Bool(TRUE), Bool(FALSE), Str(<<"y">>)}}
    IN  reader = "eval" /\ ~Failed(outcome) /\ Lazy(tree.tree) =>
            \A k \in 2..Len(Parts(tree.tree)) :
            \A failing \in {Replaced(tree.tree, k, fails)},
               others \in {{Replaced(tree.tree, k, v) : v \in values}} :
            \A results \in {[e \in others |-> Eval(e, against)]} :
                ~Failed(Eval(failing, against)) <=>
                    \A e, f \in others : results[e] = results[f] /\ ~Failed(results[e])

\* An expression that is the whole text gives a value, and with text around it
\* the print of the same value; the older templates print a field that the item
\* has in the same way.
ReadersAgree ==
    LET Entry(key) == Field(outcome[2], <<key>>)
        field == <<"json", ".", "a">>
        Marks(i) == IF text[i] = Opening THEN Marker
                    ELSE IF i > 1 /\ text[i - 1] = Opening THEN <<"$", ".", "a">>
                    ELSE text[i]
        translated == FlattenSeq([i \in DOMAIN text |-> Marks(i)])
        wellFormed == /\ Find(Marker, Chars) = 0
                      /\ \A i \in DOMAIN text : text[i] = Opening =>
                            i + 2 <= Len(text) /\ SubSeq(text, i + 1, i + 2) = <<field, Closing>>
    IN  /\ reader = "transform" /\ IsWhole(Chars) /\ outcome # NodeFailed /\ Len(Chars) < MaxText =>
              Entry("y") = Str(Append(Shown(Entry("a")), "b"))
        /\ reader = "template" /\ wellFormed /\ Len(translated) <= MaxText
           /\ against[1] = "object" /\ Field(against[2], <<"a">>) # <<"none">> =>
              \A t \in {translated} : outcome = Str(Render(t, against))

\* What an item holds is data: a field is printed as it is, whatever marks are in
\* it, and is never read as a template.
FieldIsData ==
    LET v == Field(against[2], <<"a">>)
        Put(s) == FlattenSeq([i \in DOMAIN s |-> IF s[i] = "opaque" THEN v[2] ELSE <<s[i]>>])
        mixed == Append(Chars, "b")
        transformed == reader = "transform" /\ outcome # NodeFailed /\ Find(Marker, Chars) # 0
    IN  (reader = "template" \/ transformed) /\ against[1] = "object" /\ v[1] = "str" =>
            \A opaque \in {<<"object", With(against[2], <<"a">>, Str(<<"opaque">>))>>} :
                IF transformed
                THEN Field(outcome[2], <<"y">>) = Str(Put(Render(mixed, opaque)))
                ELSE outcome = Str(Put(Filled(Chars, opaque)))

\* Every entry of `set` sees the item as it came, not what other entries made.
ReadsTheSnapshot ==
    reader = "transform" /\ outcome # NodeFailed =>
        Field(outcome[2], <<"x">>) = Lookup(against, <<<<"field", <<"a">>>>>>)

\* An expression means what is written: what the grammar makes of it, whatever its
\* spacing, and no more of it is evaluated than its value depends on.
ReadAsWritten == ParsedAsGrammar /\ BlanksChangeNothing /\ UnreadMayFail

\* Expressions and templates: an expression means what is written, both languages
\* print the same value for it, once, and they read the item as it came.
TemplatesSound == ExprTypeOK /\ ReadAsWritten /\ ReadersAgree /\ FieldIsData /\ ReadsTheSnapshot
=============================================================================
