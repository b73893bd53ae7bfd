----------------------------- MODULE Calculator -----------------------------
(***************************************************************************)
(* The parser of calculator/src/expression.rs, on formulas of the user.    *)
(*                                                                         *)
(* A formula is a tree; its value is left out, since two trees are told    *)
(* apart by some values of their numbers.  Written is how one types a tree *)
(* with no more parentheses than the precedences of the operators require: *)
(* it is the reference, and parses nothing.  The parser climbs: it knows   *)
(* the least precedence it may take and the tokens that are left.          *)
(*                                                                         *)
(* A number, a name and an operator are one token; a blank is one where it *)
(* matters, before "%": after an operand "%" is a percentage, and after a  *)
(* blank the remainder.                                                    *)
(***************************************************************************)
EXTENDS Naturals, Sequences

CONSTANTS
    Numbers,
    Unaries, Lists,   \* names of functions of one argument, of any number
    Operators         \* the binary operators the formulas use

OfPrecedence == [o \in {"+", "-", "*", "/", "%", ":", "^"} |->
    CASE o \in {"+", "-"} -> 1 [] o = "^" -> 3 [] OTHER -> 2]
RightAssociative(o) == o = "^"

ASSUME CalculatorAssumption ==
    /\ Operators \subseteq DOMAIN OfPrecedence
    /\ Numbers \cap (Unaries \cup Lists) = {}

Number(n) == [kind |-> "number", name |-> n, parts |-> << >>]
Negative(e) == [kind |-> "negative", name |-> "-", parts |-> <<e>>]
Percent(e) == [kind |-> "percent", name |-> "%", parts |-> <<e>>]
Binary(o, l, r) == [kind |-> "binary", name |-> o, parts |-> <<l, r>>]
Call(f, arguments) == [kind |-> "call", name |-> f, parts |-> arguments]

(***************************************************************************)
(* How a formula is written.                                               *)
(***************************************************************************)
Binds(e) ==
    CASE e.kind = "binary" -> OfPrecedence[e.name]
      [] e.kind = "negative" -> 4
      [] e.kind = "percent" -> 5
      [] OTHER -> 6

RECURSIVE Written(_)
Enclosed(e, least) == IF Binds(e) < least THEN <<"(">> \o Written(e) \o <<")">> ELSE Written(e)
Written(e) ==
    CASE e.kind = "number" -> <<e.name>>
      [] e.kind = "negative" -> <<"-">> \o Enclosed(e.parts[1], 4)
      [] e.kind = "percent" -> Enclosed(e.parts[1], 5) \o <<"%">>
      [] e.kind = "binary" ->
            LET own == OfPrecedence[e.name]
            IN  Enclosed(e.parts[1], IF RightAssociative(e.name) THEN own + 1 ELSE own)
                \o <<" ", e.name>>
                \o Enclosed(e.parts[2], IF RightAssociative(e.name) THEN own ELSE own + 1)
      [] e.kind = "call" ->
            <<e.name, "(">> \o Written(e.parts[1])
            \o (IF Len(e.parts) = 1 THEN << >> ELSE <<",">> \o Written(e.parts[2]))
            \o <<")">>

(***************************************************************************)
(* The parser: a result is a tree, or an error, and the tokens that follow.*)
(***************************************************************************)
Error(rest) == [ok |-> FALSE, tree |-> Number("none"), rest |-> rest]
Parsed(tree, rest) == [ok |-> TRUE, tree |-> tree, rest |-> rest]

SkipBlanks(s) == IF s # << >> /\ s[1] = " " THEN Tail(s) ELSE s   \* one stands for any
StartsWith(s, token) == s # << >> /\ s[1] = token

\* The least precedence an operand to the right may have.  Faulty: that of the
\* operator, as if all were right-associative.
SamePrecedence(o) == OfPrecedence[o]
NextPrecedence(o) == IF RightAssociative(o) THEN OfPrecedence[o] ELSE OfPrecedence[o] + 1

RECURSIVE ParseExpression(_, _), Climb(_, _), ParsePrefix(_), Arguments(_, _), Percents(_)

\* expression
ParseExpression(s, minimum) ==
    LET left == ParsePrefix(SkipBlanks(s)) IN IF left.ok THEN Climb(left, minimum) ELSE left

\* Its loop, with what stands left of the next operator.
Climb(left, minimum) ==
    LET s == SkipBlanks(left.rest)
    IN  IF s = << >> \/ s[1] \notin DOMAIN OfPrecedence \/ OfPrecedence[s[1]] < minimum
        THEN [left EXCEPT !.rest = s]
        ELSE LET right == ParseExpression(Tail(s), NextPrecedence(s[1]))
             IN  IF ~right.ok THEN right
                 ELSE Climb(Parsed(Binary(s[1], left.tree, right.tree), right.rest), minimum)

\* The loop at the end of prefix: it skips no blanks.
Percents(operand) ==
    IF operand.ok /\ StartsWith(operand.rest, "%")
    THEN Percents(Parsed(Percent(operand.tree), Tail(operand.rest)))
    ELSE operand

\* The arguments of a call up to its parenthesis, after those in found.
Arguments(s, found) ==
    LET next == ParseExpression(s, 0)
        all == Append(found, next.tree)
        after == SkipBlanks(next.rest)
    IN  IF ~next.ok THEN next
        ELSE IF StartsWith(after, ",") THEN Arguments(Tail(after), all)
        ELSE IF StartsWith(after, ")") THEN Parsed(Call("none", all), Tail(after))
        ELSE Error(after)

\* name: a function is known, and is given arguments it takes.
NamedCall(f, found) ==
    IF ~found.ok THEN found
    ELSE IF f \in Lists \/ (f \in Unaries /\ Len(found.tree.parts) = 1)
         THEN Parsed(Call(f, found.tree.parts), found.rest)
         ELSE Error(found.rest)

\* prefix and the signs, parentheses and names it starts with.
ParsePrefix(s) ==
    LET inner == ParseExpression(Tail(s), 0)
        negated == ParsePrefix(SkipBlanks(Tail(s)))
    IN  IF s = << >> THEN Error(s)
        ELSE Percents(
            CASE s[1] = "+" -> negated
              [] s[1] = "-" ->
                    IF negated.ok THEN Parsed(Negative(negated.tree), negated.rest) ELSE negated
              [] s[1] = "(" ->
                    IF ~inner.ok THEN inner
                    ELSE IF StartsWith(SkipBlanks(inner.rest), ")")
                         THEN Parsed(inner.tree, Tail(SkipBlanks(inner.rest)))
                         ELSE Error(inner.rest)
              [] s[1] \in Numbers -> Parsed(Number(s[1]), Tail(s))
              [] s[1] \in Unaries \cup Lists ->
                    IF StartsWith(SkipBlanks(Tail(s)), "(")
                    THEN NamedCall(s[1], Arguments(Tail(SkipBlanks(Tail(s))), << >>))
                    ELSE Error(s)
              [] OTHER -> Error(s))

\* parse: nothing may follow.
Parse(s) ==
    LET result == ParseExpression(s, 0)
    IN  IF result.ok /\ SkipBlanks(result.rest) # << >> THEN Error(result.rest) ELSE result

(***************************************************************************)
(* The user types formulas of depth two and reads what they come to.       *)
(***************************************************************************)
Combined(operands) ==
    {Negative(e) : e \in operands} \cup {Percent(e) : e \in operands}
    \cup {Binary(o, l, r) : o \in Operators, l \in operands, r \in operands}
    \cup {Call(f, <<e>>) : f \in Unaries \cup Lists, e \in operands}
    \cup {Call(f, <<e, d>>) : f \in Lists, e \in operands, d \in operands}

Simple == {Number(n) : n \in Numbers}
Formulas == Combined(Combined(Simple) \cup Simple)

VARIABLES
    formula,   \* what the user means
    result     \* what evaluate has parsed

calculatorVars == <<formula, result>>

CalculatorInit == formula = Number("none") /\ result = Error(<< >>)

EvaluateFormula(e) ==
    /\ formula' = e
    /\ result' = Parse(Written(e))

CalculatorNext ==
    /\ formula = Number("none")
    /\ \E e \in Formulas : EvaluateFormula(e)

CalculatorSpec == CalculatorInit /\ [][CalculatorNext]_calculatorVars

(***************************************************************************)
(* Property.                                                               *)
(***************************************************************************)
\* A formula is understood as it is meant, whole, when it is written with the
\* parentheses its operators need and no others: products before sums, powers
\* from the right, signs before powers, percentages of the operand before them,
\* and remainders only after a blank (Parser::expression, prefix and name).
UnderstoodAsMeant ==
    formula # Number("none") => result.ok /\ result.tree = formula /\ result.rest = << >>
=============================================================================
