----------------------------- MODULE CanonicalDec ------------------------------
(***************************************************************************)
(* The canonical text of a decimal (rpc_client/dec_canonical.py): the one  *)
(* form the chain writes when it verifies a worker's signature.            *)
(*                                                                         *)
(* A finite decimal is what Decimal.as_tuple() shows: a sign, the digits   *)
(* of the coefficient without leading zeros, an exponent.  A text is its   *)
(* sign, the digits before and after the point, and what follows an "E".   *)
(***************************************************************************)
EXTENDS Integers, Sequences

Digit == 0..9

Finite(d) == d.finite

(* The digits of a coefficient as Decimal keeps them.                      *)
Coefficient(s) == Len(s) > 0 /\ (s[1] # 0 \/ Len(s) = 1)

Decimal == {d \in [finite : {TRUE}, neg : BOOLEAN, digits : Seq(Digit), exponent : Int] :
               Coefficient(d.digits)}
NotFinite == [finite |-> FALSE]

PlainForm == <<>>
Text == [neg : BOOLEAN, whole : Seq(Digit), frac : Seq(Digit), exp : {PlainForm} \cup Seq(Int)]

Zeros(n) == [i \in 1..n |-> 0]
IsZero(d) == d.digits = <<0>>

AdjExponentLimit  == -6
LowestZeroNegCoef == -2000

Adjusted(d) ==
    d.exponent + Len(d.digits) - 1
      + IF IsZero(d) /\ d.exponent \in LowestZeroNegCoef..-1 THEN -d.exponent ELSE 0

(* _fmt_f: the coefficient with the point moved by the exponent.           *)
FmtF(d) ==
    LET point == Len(d.digits) + d.exponent IN
    [neg |-> d.neg, exp |-> PlainForm,
     whole |-> IF d.exponent >= 0 THEN d.digits \o Zeros(d.exponent)
               ELSE IF point <= 0 THEN <<0>> ELSE SubSeq(d.digits, 1, point),
     frac  |-> IF d.exponent >= 0 THEN <<>>
               ELSE IF point <= 0 THEN Zeros(-point) \o d.digits
               ELSE SubSeq(d.digits, point + 1, Len(d.digits))]

(* Mutant of FmtE: the exponent of the coefficient is written.             *)
FmtE_Unadjusted(d) ==
    [neg |-> d.neg, whole |-> <<Head(d.digits)>>, frac |-> Tail(d.digits),
     exp |-> <<d.exponent>>]

(* _fmt_e: one digit, the rest behind the point, the adjusted exponent.    *)
FmtE(d) ==
    [neg |-> d.neg, whole |-> <<Head(d.digits)>>, frac |-> Tail(d.digits),
     exp |-> <<d.exponent + Len(d.digits) - 1>>]

(* canonicalize_dec of a finite decimal.                                   *)
Canonical(d) ==
    IF d.exponent <= 0 /\ Adjusted(d) >= AdjExponentLimit THEN FmtF(d) ELSE FmtE(d)

(* Decimal(text), as Python and the chain read it.                         *)
StripZeros(s) ==
    LET significant == {i \in 1..Len(s) : s[i] # 0} IN
    IF significant = {} THEN <<0>>
    ELSE SubSeq(s, CHOOSE i \in significant : \A j \in significant : i <= j, Len(s))

Parse(t) ==
    [finite |-> TRUE, neg |-> t.neg, digits |-> StripZeros(t.whole \o t.frac),
     exponent |-> (IF t.exp = PlainForm THEN 0 ELSE t.exp[1]) - Len(t.frac)]
================================================================================
