----------------------------- MODULE GroupRules -----------------------------
(***************************************************************************)
(* The rule language of dynamic groups: internal/server/groups, lex.go,     *)
(* parse.go, ast.go and compile.go, as previewRule runs them on what an     *)
(* administrator has typed so far.                                          *)
(*                                                                         *)
(* A rule is a sequence of glyphs.  A glyph is one character, except that   *)
(* each keyword and field name is one glyph, whatever its case: two of them *)
(* with no space between still lex as one identifier.  Postgres is modelled *)
(* by its three-valued logic and by the two ways a query can fail: an       *)
(* operator its column has not, and a cast of text that is no number.       *)
(***************************************************************************)
EXTENDS Integers, Sequences, FiniteSets, SequencesExt

CONSTANTS
    Devices,        \* function: device -> [active, hostname, ram, seen, software]
    Conditions,     \* the comparisons an administrator writes
    Pieces,         \* what an administrator may type, one piece at a time
    MaxPieces,      \* bound: pieces typed into one rule
    MaxNodes,       \* bound: conditions and connectives of a rule that is meant
    MaxRuleLength, MaxRuleDepth,
    Null            \* a column with no value

VARIABLES
    rule,           \* the text in the editor
    typed,          \* pieces typed since the editor was last filled
    meant,          \* the expression the text was written for, <<>> when none
    matched         \* previewRule's answer: [ok, at, devices]

vars == <<rule, typed, meant, matched>>

Digits == [c \in {"0", "1", "2", "9"} |->
             CASE c = "0" -> 0 [] c = "1" -> 1 [] c = "2" -> 2 [] c = "9" -> 9]
Words == {"hostname", "ram_gb", "last_seen_days", "has_software",
          "AND", "OR", "NOT", "LIKE", "x"}

fields == [hostname |-> "string", ram_gb |-> "number", last_seen_days |-> "number"]
orderingOps == {"<", "<=", ">", ">="}
operators == orderingOps \cup {"=", "!=", "LIKE"}

-----------------------------------------------------------------------------
(* lex.go *)

RECURSIVE lexString(_, _, _), Skip(_, _, _), LexFrom(_, _, _)

lexString(r, i, text) ==
    CASE i > Len(r) -> [ok |-> FALSE, text |-> text, next |-> i]
      [] i <= Len(r) /\ r[i] # "'" -> lexString(r, i + 1, Append(text, r[i]))
      [] i < Len(r) /\ r[i] = "'" /\ r[i + 1] = "'" ->
             lexString(r, i + 2, Append(text, "'"))
      [] OTHER -> [ok |-> TRUE, text |-> text, next |-> i + 1]

\* The first place from i on whose glyph is not in S.
Skip(r, i, S) == IF i <= Len(r) /\ r[i] \in S THEN Skip(r, i + 1, S) ELSE i

lexOperator(r, i) ==
    CASE i < Len(r) /\ r[i] \in {"!", "<", ">"} /\ r[i + 1] = "=" ->
             [ok |-> TRUE, text |-> IF r[i] = "!" THEN "!=" ELSE r[i] \o "=", next |-> i + 2]
      [] OTHER -> [ok |-> r[i] # "!", text |-> r[i], next |-> i + 1]

\* ParseFloat, in tenths: digits with at most one point among them, and a
\* digit.  Places after the first are dropped: no rule of the model has them.
Value(s) == FoldLeft(LAMBDA n, c : 10 * n + Digits[c], 0, s)
ParseFloat(s) ==
    LET points == {k \in 1 .. Len(s) : s[k] = "."}
        point  == IF points = {} THEN Len(s) + 1 ELSE CHOOSE k \in points : TRUE
        frac   == SubSeq(s, point + 1, Len(s)) \o <<"0">>
    IN  [ok    |-> /\ \A k, l \in points : k = l
                   /\ \E k \in 1 .. Len(s) : s[k] # ".",
         value |-> 10 * Value(SelectSeq(SubSeq(s, 1, point - 1), LAMBDA c : c # "."))
                     + (IF frac[1] = "." THEN 0 ELSE Digits[frac[1]])]
lexNumber(r, i) ==
    LET digits == IF r[i] = "-" THEN i + 1 ELSE i
        end    == Skip(r, digits, DOMAIN Digits \cup {"."})
        float  == ParseFloat(SubSeq(r, digits, end - 1))
    IN  [ok    |-> end # digits /\ float.ok,
         value |-> IF r[i] = "-" THEN -float.value ELSE float.value,
         next  |-> end]

LexFrom(r, i, out) ==
    LET Token(kind, text, number, next) ==
            LexFrom(r, next, Append(out, [kind |-> kind, text |-> text,
                                          number |-> number, at |-> i]))
        Fail == [ok |-> FALSE, toks |-> <<>>, at |-> i]
        c    == r[i]
        str  == lexString(r, i + 1, <<>>)
        op   == lexOperator(r, i)
        num  == lexNumber(r, i)
        word == Skip(r, i, Words \cup DOMAIN Digits)
    IN  CASE i > Len(r) ->
                 [ok |-> TRUE, at |-> i,
                  toks |-> Append(out, [kind |-> "eof", text |-> <<>>, number |-> 0, at |-> i])]
          [] i <= Len(r) /\ c = " " -> LexFrom(r, i + 1, out)
          [] i <= Len(r) /\ c \in {"(", ")", ","} -> Token(c, <<c>>, 0, i + 1)
          [] i <= Len(r) /\ c = "'" ->
                 IF str.ok THEN Token("string", str.text, 0, str.next) ELSE Fail
          [] i <= Len(r) /\ c \in {"=", "<", ">", "!"} ->
                 IF op.ok THEN Token("op", <<op.text>>, 0, op.next) ELSE Fail
          [] i <= Len(r) /\ c \in DOMAIN Digits \cup {"-", "."} ->
                 IF num.ok THEN Token("number", SubSeq(r, i, num.next - 1), num.value, num.next)
                 ELSE Fail
          [] i <= Len(r) /\ c \in Words -> Token("ident", SubSeq(r, i, word - 1), 0, word)
          [] OTHER -> Fail
lex(r) == LexFrom(r, 1, <<>>)

-----------------------------------------------------------------------------
(* ast.go *)

And(l, r) == [node |-> "and", left |-> l, right |-> r]
Or(l, r) == [node |-> "or", left |-> l, right |-> r]
Not(n) == [node |-> "not", operand |-> n]
Compare(f, op, text, number) ==
    [node |-> "compare", field |-> f, op |-> op, text |-> text, number |-> number]
HasSoftware(name, op, version) ==
    [node |-> "software", name |-> name, op |-> op, version |-> version]

-----------------------------------------------------------------------------
(* parse.go: a parse from token p gives the node and the token after it, or *)
(* the place of the error.                                                  *)

Parsed(n, p) == [ok |-> TRUE, node |-> n, pos |-> p, at |-> 0]
errAt(at) == [ok |-> FALSE, node |-> <<>>, pos |-> 0, at |-> at]
keywordIs(t, p, word) == t[p].kind = "ident" /\ t[p].text = <<word>>

parseOperator(t, p) ==
    CASE keywordIs(t, p, "LIKE") -> [ok |-> TRUE, op |-> "LIKE", at |-> 0]
      [] t[p].kind = "op" -> [ok |-> TRUE, op |-> t[p].text[1], at |-> 0]
      [] OTHER -> [ok |-> FALSE, op |-> "", at |-> t[p].at]

parseComparison(t, p) ==
    LET name == IF Len(t[p].text) = 1 THEN t[p].text[1] ELSE "x"
        op   == parseOperator(t, p + 1)
        lit  == t[p + 2]
    IN  CASE name \notin DOMAIN fields -> errAt(t[p].at)
          [] name \in DOMAIN fields /\ ~op.ok -> errAt(op.at)
          [] OTHER ->
                CASE fields[name] = "string" /\ op.op \in orderingOps -> errAt(t[p + 1].at)
                  [] fields[name] = "number" /\ op.op = "LIKE" -> errAt(t[p + 1].at)
                  [] lit.kind # fields[name] -> errAt(lit.at)
                  [] OTHER -> Parsed(Compare(name, op.op, IF lit.kind = "string" THEN lit.text ELSE <<>>,
                                             lit.number), p + 3)

\* The operator a quoted one names: it is compared as text, glyph by glyph.
QuotedOp(text) ==
    LET named == {op \in operators \ {"LIKE"} :
                    text = IF op \in {"<", ">", "="} THEN <<op>>
                           ELSE <<IF op = "!=" THEN "!" ELSE IF op = "<=" THEN "<" ELSE ">", "=">>}
    IN  IF named = {} THEN "" ELSE CHOOSE op \in named : TRUE
\* has_software('name') or has_software('name', 'op', 'version'): the first
\* token that is not the expected one is where the error is.
parseHasSoftware(t, p) ==
    LET Expect == IF p + 3 <= Len(t) /\ t[p + 3].kind = ","
                  THEN <<"(", "string", ",", "string", ",", "string", ")">>
                  ELSE <<"(", "string", ")">>
        wrong  == {k \in 1 .. Len(Expect) :
                     \/ p + k > Len(t)
                     \/ p + k <= Len(t) /\ t[p + k].kind # Expect[k]
                     \/ k = 4 /\ p + 4 <= Len(t) /\ QuotedOp(t[p + 4].text) = ""}
        first  == CHOOSE k \in wrong : \A l \in wrong : k <= l
    IN  IF wrong # {} THEN errAt(t[p + first].at)
        ELSE Parsed(IF Len(Expect) = 3 THEN HasSoftware(t[p + 2].text, "", <<>>)
                    ELSE HasSoftware(t[p + 2].text, QuotedOp(t[p + 4].text), t[p + 6].text),
                    p + Len(Expect) + 1)

RECURSIVE parseOr(_, _, _), parseAnd(_, _, _), parseNot(_, _, _), parsePrimary(_, _, _)
RECURSIVE MoreOr(_, _, _), MoreAnd(_, _, _)

\* What is in parentheses ends with one, and NOT takes the operand that follows.
Closed(t, inner) ==
    CASE ~inner.ok -> inner
      [] inner.ok /\ t[inner.pos].kind # ")" -> errAt(t[inner.pos].at)
      [] OTHER -> Parsed(inner.node, inner.pos + 1)
Negated(operand) == IF operand.ok THEN Parsed(Not(operand.node), operand.pos) ELSE operand

parsePrimary(t, p, depth) ==
    CASE t[p].kind = "(" -> Closed(t, parseOr(t, p + 1, depth + 1))
      [] keywordIs(t, p, "has_software") -> parseHasSoftware(t, p)
      [] t[p].kind = "ident" /\ t[p].text # <<"has_software">> -> parseComparison(t, p)
      [] OTHER -> errAt(t[p].at)

parseNot(t, p, depth) ==
    IF ~keywordIs(t, p, "NOT") THEN parsePrimary(t, p, depth)
    ELSE Negated(parseNot(t, p + 1, depth + 1))

\* The loops of parseAnd and parseOr, from what is parsed so far.
Joined(word, left, right) ==
    CASE ~right.ok -> right
      [] right.ok /\ word = "AND" -> Parsed(And(left.node, right.node), right.pos)
      [] OTHER -> Parsed(Or(left.node, right.node), right.pos)
MoreAnd(t, left, depth) ==
    IF ~left.ok \/ ~keywordIs(t, left.pos, "AND") THEN left
    ELSE MoreAnd(t, Joined("AND", left, parseNot(t, left.pos + 1, depth)), depth)
MoreOr(t, left, depth) ==
    IF ~left.ok \/ ~keywordIs(t, left.pos, "OR") THEN left
    ELSE MoreOr(t, Joined("OR", left, parseAnd(t, left.pos + 1, depth)), depth)
parseAnd(t, p, depth) == MoreAnd(t, parseNot(t, p, depth), depth)
parseOr(t, p, depth) ==
    IF depth > MaxRuleDepth THEN errAt(t[p].at)
    ELSE MoreOr(t, parseAnd(t, p, depth), depth)

\* The whole of the tokens is read, or the place of the first left over is the error.
ToTheEnd(t, n) == IF n.ok /\ t[n.pos].kind # "eof" THEN errAt(t[n.pos].at) ELSE n
ParseTokens(l) == IF l.ok THEN ToTheEnd(l.toks, parseOr(l.toks, 1, 0)) ELSE errAt(l.at)
Parse(r) ==
    CASE Len(r) > MaxRuleLength -> errAt(MaxRuleLength)
      [] Len(r) <= MaxRuleLength /\ \A k \in 1 .. Len(r) : r[k] = " " -> errAt(1)
      [] OTHER -> ParseTokens(lex(r))

-----------------------------------------------------------------------------
(* compile.go, and what Postgres makes of it for one device: "t", "f",      *)
(* "null", or "error" when the query fails.                                 *)

Truth(b) == IF b THEN "t" ELSE "f"
Both(a, b) == CASE "error" \in {a, b} -> "error" [] "f" \in {a, b} -> "f"
                [] {a, b} = {"t"} -> "t" [] OTHER -> "null"
Either(a, b) == CASE "error" \in {a, b} -> "error" [] "t" \in {a, b} -> "t"
                  [] {a, b} = {"f"} -> "f" [] OTHER -> "null"
Negation(a) == CASE a = "t" -> "f" [] a = "f" -> "t" [] OTHER -> a
COALESCE(a) == IF a = "null" THEN "f" ELSE a

Ordered(op, a, b) ==
    CASE op = "=" -> a = b [] op = "!=" -> a # b [] op = "<" -> a < b
      [] op = "<=" -> a <= b [] op = ">" -> a > b [] OTHER -> a >= b
RECURSIVE LIKE(_, _), Sign(_, _)
LIKE(s, p) ==
    CASE p = <<>> -> s = <<>>
      [] p # <<>> /\ p[1] = "%" -> \E k \in 0 .. Len(s) : LIKE(SubSeq(s, k + 1, Len(s)), Tail(p))
      [] OTHER -> s # <<>> /\ s[1] = p[1] /\ LIKE(Tail(s), Tail(p))

\* dottedArray: the pieces between the points, as numbers.  A piece that is
\* no number makes the cast fail; the CASE gives NULL before it can.
IsDotted(v) == /\ v # <<>> /\ v[1] # "." /\ v[Len(v)] # "."
               /\ \A k \in 1 .. Len(v) : v[k] \in DOMAIN Digits \cup {"."}
               /\ \A k \in 1 .. Len(v) - 1 : v[k] # "." \/ v[k + 1] # "."
Cast(v) ==
    LET ends == SetToSortSeq({k \in 1 .. Len(v) : v[k] = "."} \cup {Len(v) + 1},
                             LAMBDA a, b : a < b)
    IN  [k \in 1 .. Len(ends) |->
           Value(SubSeq(v, IF k = 1 THEN 1 ELSE ends[k - 1] + 1, ends[k] - 1))]
dottedArray(v) == IF IsDotted(v) THEN <<"array", Cast(v)>> ELSE <<"null">>
\* Postgres compares arrays piece by piece, and then the shorter is less.
Sign(a, b) == CASE a = <<>> /\ b = <<>> -> 0 [] a = <<>> /\ b # <<>> -> -1
                [] a # <<>> /\ b = <<>> -> 1
                [] OTHER -> CASE a[1] < b[1] -> -1 [] a[1] > b[1] -> 1
                              [] OTHER -> Sign(Tail(a), Tail(b))

compare(n, d) ==
    LET number == IF n.field = "ram_gb"
                  THEN IF Devices[d].ram = Null THEN 0 ELSE Devices[d].ram
                  ELSE Devices[d].seen
    IN  CASE fields[n.field] = "number" /\ n.op = "LIKE" -> "error"
          [] fields[n.field] = "string" ->
                 (CASE n.op = "LIKE" -> Truth(LIKE(Devices[d].hostname, n.text))
                    [] n.op = "=" -> Truth(Devices[d].hostname = n.text)
                    [] OTHER -> Truth(Devices[d].hostname # n.text))
          [] OTHER -> IF number = Null THEN "null" ELSE Truth(Ordered(n.op, number, n.number))

\* One row of the EXISTS: its WHERE, for an installed package.
Row(n, s) ==
    LET have == dottedArray(s.version)
        want == dottedArray(n.version)
    IN  CASE s.name # n.name -> "f"
          [] s.name = n.name /\ n.op = "" -> "t"
          [] s.name = n.name /\ n.op \in orderingOps ->
                 (CASE <<"error">> \in {have, want} -> "error"
                    [] <<"null">> \in {have, want} -> "null"
                    [] OTHER -> Truth(Ordered(n.op, Sign(have[2], want[2]), 0)))
          [] OTHER -> Truth(Ordered(n.op, s.version, n.version))
hasSoftware(n, d) ==
    LET rows == {Row(n, s) : s \in Devices[d].software}
    IN  IF "error" \in rows THEN "error" ELSE Truth("t" \in rows)

RECURSIVE compile(_, _)
binary(n, d) == IF n.node = "and" THEN Both(compile(n.left, d), compile(n.right, d))
                ELSE Either(compile(n.left, d), compile(n.right, d))
\* Mutant: NOT of NULL stays NULL.
NegateBare(a) == Negation(a)
Negate(a) == Negation(COALESCE(a))
compile(n, d) ==
    CASE n.node \in {"and", "or"} -> binary(n, d)
      [] n.node = "not" -> Negate(compile(n.operand, d))
      [] n.node = "compare" -> compare(n, d)
      [] OTHER -> hasSoftware(n, d)

\* The frame Compile puts around it, as MatchDevices runs it.
Select(n) ==
    LET active == {d \in DOMAIN Devices : Devices[d].active}
    IN  [ok |-> \A d \in active : compile(n, d) # "error", at |-> 0,
         devices |-> {d \in active : compile(n, d) = "t"}]
Answer(p) == IF p.ok THEN Select(p.node) ELSE [ok |-> FALSE, at |-> p.at, devices |-> {}]
match(r) == Answer(Parse(r))

-----------------------------------------------------------------------------
(* How an expression is written: a reference for what Parse must read.  An  *)
(* operand is in parentheses when it binds less tightly than its operator,  *)
(* and on the right also when it binds as tightly.                          *)

Binds(n) == CASE n.node = "or" -> 1 [] n.node = "and" -> 2 [] OTHER -> 3
Quote(s) == <<"'">> \o FlattenSeq([k \in 1 .. Len(s) |->
                                     IF s[k] = "'" THEN <<"'", "'">> ELSE <<s[k]>>]) \o <<"'">>
Spell(op) == CASE op = "!=" -> <<"!", "=">> [] op = "<=" -> <<"<", "=">>
               [] op = ">=" -> <<">", "=">> [] OTHER -> <<op>>
\* The model's numbers are whole.
Numeral(n) == (IF n < 0 THEN <<"-">> ELSE <<>>)
              \o <<CHOOSE c \in DOMAIN Digits : Digits[c] = (IF n < 0 THEN -n ELSE n) \div 10>>
RECURSIVE Render(_)
Operand(n, above) == IF Binds(n) < above THEN <<"(">> \o Render(n) \o <<")">> ELSE Render(n)
Render(n) ==
    CASE n.node = "or" -> Operand(n.left, 1) \o <<" ", "OR", " ">> \o Operand(n.right, 2)
      [] n.node = "and" -> Operand(n.left, 2) \o <<" ", "AND", " ">> \o Operand(n.right, 3)
      [] n.node = "not" -> <<"NOT", " ">> \o Operand(n.operand, 3)
      [] n.node = "compare" ->
             <<n.field, " ">> \o Spell(n.op) \o <<" ">>
             \o (IF fields[n.field] = "string" THEN Quote(n.text) ELSE Numeral(n.number))
      [] OTHER -> <<"has_software", "(">> \o Quote(n.name)
                  \o (IF n.op = "" THEN <<>>
                      ELSE <<",">> \o Quote(Spell(n.op)) \o <<",">> \o Quote(n.version))
                  \o <<")">>

\* What an expression means: a comparison with nothing is not so, and the
\* connectives are the ones of two-valued logic.
RECURSIVE Means(_, _), Nodes(_)
Means(n, d) ==
    CASE n.node = "or" -> Means(n.left, d) \/ Means(n.right, d)
      [] n.node = "and" -> Means(n.left, d) /\ Means(n.right, d)
      [] n.node = "not" -> ~Means(n.operand, d)
      [] n.node = "compare" -> compare(n, d) = "t"
      [] OTHER -> \E s \in Devices[d].software : Row(n, s) = "t"
Nodes(n) == CASE n.node \in {"or", "and"} -> 1 + Nodes(n.left) + Nodes(n.right)
              [] n.node = "not" -> 1 + Nodes(n.operand)
              [] OTHER -> 1

-----------------------------------------------------------------------------
Unread == [ok |-> FALSE, at |-> 1, devices |-> {}]
Init == rule = <<>> /\ typed = 0 /\ meant = <<>> /\ matched = Unread

Fill(n) == /\ meant' = n /\ rule' = Render(n) /\ typed' = MaxPieces
           /\ matched' = match(rule')

\* The administrator writes a rule for an expression: a condition, or one more
\* connective over what is written.
Write == \E c \in Conditions : meant = <<>> /\ typed = 0 /\ Fill(c)
Extend ==
    /\ meant # <<>>
    /\ \E n \in {Not(meant)} \cup UNION {{And(meant, c), And(c, meant), Or(meant, c), Or(c, meant)} :
                                          c \in Conditions} :
           Nodes(n) <= MaxNodes /\ Fill(n)

\* previewRule: the editor asks after every piece typed.
Type(piece) == /\ typed < MaxPieces /\ typed' = typed + 1
               /\ rule' = rule \o piece
               /\ matched' = match(rule')
               /\ meant' = <<>>

Next == \/ Write
        \/ Extend
        \/ \E piece \in Pieces : Type(piece)
Spec == Init /\ [][Next]_vars

-----------------------------------------------------------------------------

\* A rule selects the devices its expression is true of, and NOT the rest of
\* the active ones, though a device may have no inventory and no last_seen_at
\* and SQL calls what it cannot compare neither true nor false (compile).
SelectsWhatItSays ==
    (meant # <<>> /\ matched.ok) =>
        matched.devices = {d \in DOMAIN Devices : Devices[d].active /\ Means(meant, d)}

=============================================================================
