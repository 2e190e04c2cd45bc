------------------------------ MODULE OfficeText ------------------------------
(***************************************************************************)
(* What the file codecs and the site clients of sim-office share: the      *)
(* texts they carry, what an XML parser makes of them, how they read as    *)
(* numbers and truth values, and the fidelity report of a boundary         *)
(* (sim-lib-doc-core/src/fidelity.rs).                                     *)
(*                                                                         *)
(* A text is a token.  What matters of it is given by the constants: the   *)
(* text a parser (roxmltree, external) returns for it, and what its        *)
(* characters spell as a number.                                           *)
(***************************************************************************)
EXTENDS Integers, Sequences, FiniteSets, SequencesExt, FiniteSetsExt, Functions, TLC

CONSTANTS
    Texts,
    Blanks,        \* the texts that trim() leaves empty
    Empty,         \* the empty text
    InElement,     \* Texts -> the text read back from an element, or None: not XML
    InAttribute,   \* Texts -> the text read back from an attribute, or None
    Spelling,      \* Texts -> the number the characters spell, see Spellings
    Truth,         \* Texts -> "true", "false" or "neither": the bool_value table
    None

Spellings == [form : {"ratio", "integer", "decimal", "science", "words"},
              digits : Int, places : Nat, den : Int]

ASSUME TextAssumption ==
    /\ Empty \in Blanks /\ Blanks \subseteq Texts /\ None \notin Texts
    /\ DOMAIN Spelling = Texts /\ DOMAIN Truth = Texts
    /\ \A t \in Texts : Spelling[t] \in Spellings /\ Truth[t] \in {"true", "false", "neither"}
    /\ \A t \in Blanks : Spelling[t].form = "words"
    /\ \A t \in Texts : 10 ^ Spelling[t].places \in Nat \ {0}
\* What a parser has normalized it normalizes to itself, and it stands anywhere
\* in XML; no text is blank that was not, and nothing is left of nothing.
ASSUME ParserAssumption ==
    \A read \in {InElement, InAttribute} :
        /\ DOMAIN read = Texts
        /\ \A t \in Texts : read[t] \in Texts \cup {None}
        /\ \A t \in Texts : read[t] \in Texts => read[read[t]] = read[t]
        /\ \A t \in Texts : read[t] \in Texts => None \notin {InElement[read[t]], InAttribute[read[t]]}
        /\ \A t \in Texts : read[t] \in Blanks => t \in Blanks
        /\ read[Empty] = Empty

(***************************************************************************)
(* Exact numbers: a ratio is <<numerator, denominator>> in lowest terms.   *)
(***************************************************************************)
Magnitude(n) == IF n < 0 THEN -n ELSE n
Reduced(n, d) ==
    LET sign == IF d < 0 THEN -1 ELSE 1
        common == Max({k \in 1..Magnitude(d) : n % k = 0 /\ d % k = 0})
    IN <<(sign * n) \div common, (sign * d) \div common>>

\* rational_from_str: num/den, or an integer over one.
RationalFromStr(s) ==
    CASE s.form = "ratio" /\ s.den # 0 -> Reduced(s.digits, s.den)
      [] s.form = "integer" -> <<s.digits, 1>>
      [] OTHER -> None

\* rational_literal: the digits of a decimal over a power of ten; anything
\* else goes on as it is, scientific notation to be refused.
RationalLiteral(s) ==
    IF s.form = "decimal"
    THEN [form |-> "ratio", digits |-> s.digits, places |-> 0, den |-> 10 ^ s.places]
    ELSE s

Exact(text) == RationalFromStr(RationalLiteral(Spelling[text]))

\* rational_to_canonical writes num/den.
Spells(text, ratio) == Spelling[text] = [form |-> "ratio", digits |-> ratio[1],
                                         places |-> 0, den |-> ratio[2]]
Canonical(ratio) == CHOOSE t \in Texts : Spells(t, ratio)
\* It is a text, and digits are read from XML as they were written.
ASSUME CanonicalAssumption ==
    \A t \in Texts : Exact(t) # None =>
       /\ \E c \in Texts : Spells(c, Exact(t))
       /\ \A read \in {InElement, InAttribute} :
             read[Canonical(Exact(t))] = Canonical(Exact(t))

\* A sequence of whatever is in it.
IsList(s) == s \in Seq(ToSet(s))

TextsAndNone == Texts \cup {None}

\* What stands for no document.
NoDoc == [kind |-> "none"]

(***************************************************************************)
(* The report of a boundary: the set of what it names as dropped.          *)
(***************************************************************************)
Dropped(field, at) == [field |-> field, at |-> at]
IsLossless(report) == report = {}

\* The answer of a conversion: its document, package or row, or a refusal.
Refused == [ok |-> FALSE, value |-> None, report |-> {}]
Answered(value, report) == [ok |-> TRUE, value |-> value, report |-> report]
===============================================================================
