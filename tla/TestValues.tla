----------------------------- MODULE TestValues -----------------------------
(***************************************************************************)
(* What TestGeneratorVisitor makes of the constant a result is compared    *)
(* with, the comparison it generates, and the strings TestResults shows of *)
(* both sides.  A constant is written as                                   *)
(*   [kind, neg, hex, digits, tenths]                                      *)
(* kind "int" (maybe 0x), "float" (one decimal is enough) or "char" (its   *)
(* code in digits).  Values of floats are counted in tenths.               *)
(***************************************************************************)
EXTENDS Integers, Sequences, SequencesExt, TLC

CONSTANTS
  Width,    \* bits of the integers of the C file
  PtrWidth, \* bits of a pointer
  NaN       \* what a float function may also return

ASSUME WidthAssumption == Width \in Nat \ {0} /\ PtrWidth \in Nat \ {0}

DigitsIn(radix, ds) == FoldLeft(LAMBDA n, d : n * radix + d, 0, ds)
WithSign(neg, n) == IF neg THEN -n ELSE n

(* The word of w bits that n leaves, read as APInt shows it: signed. *)
Wrapped(w, n) ==
  LET u == n % 2^w IN IF u >= 2^(w - 1) THEN u - 2^w ELSE u

(* APInt::getBitsNeeded: exact for 10, by the number of digits for 8 and 16. *)
getBitsNeeded(neg, radix, ds) ==
  LET sign == IF neg THEN 1 ELSE 0
      n    == DigitsIn(radix, ds)
  IN  CASE radix = 16 -> 4 * Len(ds) + sign
        [] radix = 8  -> 3 * Len(ds) + sign
        [] OTHER      -> sign + (CHOOSE b \in 1..32 : n < 2^b /\ (b = 1 \/ n >= 2^(b - 1)))

(* The value a literal becomes in w bits, and the warnings it earns. *)
getAPIntTruncating(w, neg, radix, ds) ==
  [value    |-> Wrapped(w, WithSign(neg, DigitsIn(radix, ds))),
   warnings |-> IF getBitsNeeded(neg, radix, ds) > w THEN <<"truncating">> ELSE <<>>]

(* 0x drops what is before it, the sign too; a leading 0 makes it octal unless
   a sign comes first; the decimals of a float are dropped. *)
createIntValue(w, C) ==
  LET radix   == IF C.hex THEN 16 ELSE IF ~C.neg /\ Head(C.digits) = 0 THEN 8 ELSE 10
      int     == getAPIntTruncating(w, C.neg /\ ~C.hex, radix, C.digits)
      casting == IF C.kind = "float" THEN <<"casting">> ELSE <<>>
  IN  [int EXCEPT !.warnings = casting \o @]

Tenths(C) == WithSign(C.neg, 10 * DigitsIn(10, C.digits) + C.tenths)

createValue(type, C) ==
  CASE type = "int"   -> createIntValue(Width, C)
    [] type = "float" -> [value |-> Tenths(C), warnings |-> <<>>]
    [] type = "ptr"   -> LET int == createIntValue(PtrWidth, C)
                         IN  [int EXCEPT !.warnings = <<"to a pointer">> \o @]

Operators == {"==", "!=", ">=", "<=", ">", "<"}

Compare(op, a, b) ==
  CASE op = "==" -> a = b
    [] op = "!=" -> a # b
    [] op = ">=" -> a >= b
    [] op = "<=" -> a <= b
    [] op = ">"  -> a > b
    [] op = "<"  -> a < b


createIntComparison(op, a, b) == Compare(op, a, b)

(* Ordered: a NaN compares false with everything, also under !=. *)
createFloatComparison(op, a, b) == a # NaN /\ Compare(op, a, b)

createPtrComparison(op, a, b) == createIntComparison(op, Wrapped(PtrWidth, a), b)

(* The expected result ER of a function of this type that returned v: whether
   it holds, and the warnings.  A void function ignores it. *)
VisitExpectedResult(type, v, ER) ==
  IF type = "void" THEN [holds |-> TRUE, warnings |-> <<"void">>]
  ELSE LET c == createValue(type, ER.constant)
       IN  [holds |-> CASE type = "int"   -> createIntComparison(ER.op, v, c.value)
                        [] type = "float" -> createFloatComparison(ER.op, v, c.value)
                        [] type = "ptr"   -> createPtrComparison(ER.op, v, c.value),
            warnings |-> c.warnings]

(* atoi: stops at the x of 0x10, and reads 010 as ten. *)
ParseNumericConstant(C) ==
  IF C.hex THEN 0 ELSE WithSign(C.neg, DigitsIn(10, C.digits))

TenthsText(t) == IF t % 10 = 0 THEN ToString(t \div 10) ELSE ToString(t) \o "/10"

getActualResultString(type, v) ==
  CASE type = "int"   -> <<ToString(v)>>
    [] type = "float" -> <<IF v = NaN THEN "nan" ELSE TenthsText(v)>>
    [] type = "ptr"   -> <<"0x", ToString(v)>>
    [] type = "void"  -> <<"void">>

getExpectedResultString(ER) ==
  LET C == ER.constant IN
  <<ER.op>> \o (CASE C.kind = "int"   -> <<ToString(ParseNumericConstant(C))>>
                  [] C.kind = "float" -> <<TenthsText(Tenths(C))>>
                  [] C.kind = "char"  -> <<ToString(DigitsIn(10, C.digits)), "quoted">>)
=============================================================================
