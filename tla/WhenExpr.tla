------------------------------- MODULE WhenExpr -------------------------------
(***************************************************************************)
(* The `when:` of a step (config/when_expr.rs): comparisons joined by &&   *)
(* and ||, read from left to right.  The text is parsed once when the      *)
(* project is loaded, with its references in place, and again when the     *)
(* step's turn comes, with the outputs of earlier steps in their stead.    *)
(*                                                                         *)
(* A text is a sequence of tokens: words, " ", "'", the operators, and the *)
(* references.                                                             *)
(***************************************************************************)
EXTENDS Naturals, Sequences, SequencesExt

CONSTANTS
    Comparisons,  \* [ref, quoted, op, word]: what an author writes
    MaxTerms,     \* comparisons of an expression
    Steps,        \* the references, each to the output of a step
    Outputs       \* what a step may answer, as tokens

Operators == {"==", "!="}
Logic == {"&&", "||"}

VARIABLES
    terms,    \* the expression: << [comparison, logic] >>, logic joins it to those before
    outputs,  \* step -> its output
    phase,    \* "load", "run" or "over"
    text,     \* the tokens not read yet
    part,     \* what the parser looks for: "lhs", "op", "rhs", "logic"
    lhs, op, logic,
    acc,      \* the value so far
    loaded,   \* whether the project was accepted
    result    \* "none", "true", "false", "error"

vars == <<terms, outputs, phase, text, part, lhs, op, logic, acc, loaded, result>>

Bool(b) == IF b THEN "true" ELSE "false"

Written(c) == (IF c.quoted THEN << "'", c.ref, "'" >> ELSE << c.ref >>) \o << " ", c.op, " ", c.word >>

Source(ts) == FlattenSeq([n \in DOMAIN ts |->
                 IF n = 1 THEN Written(ts[n].comparison)
                 ELSE << " ", ts[n].logic, " " >> \o Written(ts[n].comparison)])

(* resolve_task_template. *)
Resolved(src) == FlattenSeq([n \in DOMAIN src |-> IF src[n] \in Steps THEN outputs[src[n]] ELSE << src[n] >>])

Init ==
    /\ terms \in UNION {[1..n -> [comparison : Comparisons, logic : Logic]] : n \in 1..MaxTerms}
    /\ outputs \in [Steps -> Outputs]
    /\ phase = "load" /\ text = Source(terms)
    /\ part = "lhs" /\ lhs = << >> /\ op = "==" /\ logic = "none"
    /\ acc = FALSE /\ loaded = FALSE /\ result = "none"
-----------------------------------------------------------------------------
Blank(t) == t = " "
FirstThat(s, T) == CHOOSE n \in 1..Len(s) + 1 :
                     /\ n = Len(s) + 1 \/ s[n] \in T
                     /\ \A m \in 1..n - 1 : s[m] \notin T
From(s, n) == SubSeq(s, n, Len(s))
SkipWs(s) == IF s # << >> /\ Blank(s[1])
             THEN From(s, CHOOSE n \in 1..Len(s) + 1 : /\ \A m \in 1..n - 1 : Blank(s[m])
                                                       /\ n = Len(s) + 1 \/ ~Blank(s[n]))
             ELSE s

(* parse_value: a quoted string has no escapes; a bare one ends at a blank *)
(* or an operator.                                                         *)
ParseValue(s) ==
    LET t == SkipWs(s)
        quote == IF t = << >> THEN 0 ELSE FirstThat(Tail(t), {"'"})
        stop == FirstThat(t, {" "} \cup Operators \cup Logic)
        failed == [ok |-> FALSE, value |-> << >>, rest |-> t]
    IN IF t = << >> THEN failed
       ELSE IF t[1] = "'"
            THEN IF quote > Len(t) - 1 THEN failed
                 ELSE [ok |-> TRUE, value |-> SubSeq(t, 2, quote), rest |-> From(t, quote + 2)]
            ELSE IF stop = 1 THEN failed
                 ELSE [ok |-> TRUE, value |-> SubSeq(t, 1, stop - 1), rest |-> From(t, stop)]

Fail ==
    /\ result' = "error" /\ phase' = "over" /\ part' = "none"
    /\ UNCHANGED <<terms, outputs, text, lhs, op, logic, acc, loaded>>

Lhs ==
    LET v == ParseValue(text) IN
    /\ part = "lhs" /\ phase # "over"
    /\ IF ~v.ok THEN Fail
       ELSE /\ lhs' = v.value /\ text' = SkipWs(v.rest) /\ part' = "op"
            /\ UNCHANGED <<terms, outputs, phase, op, logic, acc, loaded, result>>

Op ==
    /\ part = "op" /\ phase # "over"
    /\ IF text = << >> \/ text[1] \notin Operators THEN Fail
       ELSE /\ op' = text[1] /\ text' = Tail(text) /\ part' = "rhs"
            /\ UNCHANGED <<terms, outputs, phase, lhs, logic, acc, loaded, result>>

\* a slip: && binds tighter, as in most languages
Join_tight(value) ==
    CASE logic = "none" -> value
      [] logic = "&&" -> acc /\ value
      [] logic = "||" -> acc \/ (value /\ ("&&" \notin {text[n] : n \in DOMAIN text}))

Join(value) ==
    CASE logic = "none" -> value
      [] logic = "&&" -> acc /\ value
      [] logic = "||" -> acc \/ value

Rhs ==
    LET v == ParseValue(text)
        value == IF op = "==" THEN lhs = v.value ELSE lhs # v.value
    IN /\ part = "rhs" /\ phase # "over"
       /\ IF ~v.ok THEN Fail
          ELSE /\ acc' = Join(value) /\ text' = SkipWs(v.rest) /\ part' = "logic"
               /\ UNCHANGED <<terms, outputs, phase, lhs, op, logic, loaded, result>>

Continue ==
    /\ part = "logic" /\ text # << >> /\ phase # "over"
    /\ IF text[1] \notin Logic THEN Fail
       ELSE /\ logic' = text[1] /\ text' = Tail(text) /\ part' = "lhs"
            /\ UNCHANGED <<terms, outputs, phase, lhs, op, acc, loaded, result>>

(* validate_pipeline_refs accepts the text; the level of the step comes.   *)
Load ==
    /\ part = "logic" /\ text = << >> /\ phase = "load"
    /\ loaded' = TRUE
    /\ phase' = "run" /\ text' = Resolved(Source(terms)) /\ part' = "lhs" /\ logic' = "none" /\ acc' = FALSE
    /\ UNCHANGED <<terms, outputs, lhs, op, result>>

Evaluate ==
    /\ part = "logic" /\ text = << >> /\ phase = "run"
    /\ result' = Bool(acc) /\ phase' = "over" /\ part' = "none"
    /\ UNCHANGED <<terms, outputs, text, lhs, op, logic, acc, loaded>>

Next == Lhs \/ Op \/ Rhs \/ Continue \/ Load \/ Evaluate

Spec == Init /\ [][Next]_vars
-----------------------------------------------------------------------------
Holds(c) == IF c.op = "==" THEN outputs[c.ref] = << c.word >> ELSE outputs[c.ref] # << c.word >>
Folded[n \in 0..MaxTerms] ==
    IF n = 0 THEN FALSE
    ELSE LET h == Holds(terms[n].comparison) IN
         IF n = 1 THEN h ELSE IF terms[n].logic = "&&" THEN Folded[n - 1] /\ h ELSE Folded[n - 1] \/ h

(* An output the text can hold: no quote in quotes, one word without.      *)
Fits(c) == LET o == outputs[c.ref] IN
    IF c.quoted THEN "'" \notin {o[n] : n \in DOMAIN o}
    ELSE o # << >> /\ \A n \in DOMAIN o : o[n] \notin {" ", "'"} \cup Operators \cup Logic

TypeOK ==
    /\ phase \in {"load", "run", "over"} /\ part \in {"lhs", "op", "rhs", "logic", "none"}
    /\ result \in {"none", "true", "false", "error"} /\ loaded \in BOOLEAN /\ acc \in BOOLEAN

(* What a project is accepted with runs: with outputs that fit, the second *)
(* parse finds no error and comes to the value the author wrote, from left *)
(* to right.                                                               *)
EvaluatesAsWritten ==
    /\ phase = "over" => loaded
    /\ phase = "over" /\ (\A n \in DOMAIN terms : Fits(terms[n].comparison))
          => result = Bool(Folded[Len(terms)])

(* "the comparison sees fully-resolved strings": an expression that comes  *)
(* to a value comes to the value of its comparisons.                       *)
ComparesResolved == result \in {"true", "false"} => result = Bool(Folded[Len(terms)])
=============================================================================
