-------------------------------- MODULE SInt --------------------------------
(***************************************************************************)
(* The integers of the value analyses of CHIR: SInt (SInt.cpp), a word of  *)
(* w bits that is signed or unsigned according to the operation, and the   *)
(* arithmetic of a compiled program under the three overflow strategies,   *)
(* as the constant folder has it (OverflowChecking.h).                     *)
(*                                                                         *)
(* A value is the word itself, a member of Word(w).                        *)
(***************************************************************************)
EXTENDS Integers, FiniteSets

Size(w) == 2^w
Word(w) == 0..(Size(w) - 1)

UMaxValue(w) == Size(w) - 1
SMinValue(w) == Size(w) \div 2
SMaxValue(w) == SMinValue(w) - 1

\* ClearUnusedBits: the word an integer is cut to.
Cut(w, i) == i % Size(w)

\* GetSExtValue, the signed reading; the reading a type asks for.
IsNeg(w, v) == v >= SMinValue(w)
SVal(w, v) == IF IsNeg(w, v) THEN v - Size(w) ELSE v
Val(w, uns, v) == IF uns THEN v ELSE SVal(w, v)

Slt(w, a, b) == SVal(w, a) < SVal(w, b)
Neg(w, v) == Cut(w, -v)
UMin(a, b) == IF a <= b THEN a ELSE b
UMax(a, b) == IF a <= b THEN b ELSE a

\* The least and the greatest member of a set of words, by their signed reading.
SLeast(w, S) == CHOOSE a \in S : \A b \in S : ~Slt(w, b, a)
SGreatest(w, S) == CHOOSE a \in S : \A b \in S : ~Slt(w, a, b)

\* The bits up to the highest one that is set.
ActiveBits(w, v) == CHOOSE n \in 0..w : v < 2^n /\ (n > 0 => v >= 2^(n - 1))
Clz(w, v) == w - ActiveBits(w, v)

\* SDiv and SRem (here SDivOf, SRemOf) divide the magnitudes; that of the smallest value is itself.
Magnitude(w, v) == IF IsNeg(w, v) THEN Neg(w, v) ELSE v
SDivOf(w, a, b) ==
    LET quotient == Magnitude(w, a) \div Magnitude(w, b)
    IN Cut(w, IF IsNeg(w, a) # IsNeg(w, b) THEN -quotient ELSE quotient)
SRemOf(w, a, b) ==
    LET rest == Magnitude(w, a) % Magnitude(w, b)
    IN Cut(w, IF IsNeg(w, a) THEN -rest ELSE rest)

SDivSatOf(w, a, b) ==
    IF b = UMaxValue(w) /\ a = SMinValue(w) THEN SMaxValue(w) ELSE SDivOf(w, a, b)

Trunc(w, v) == Cut(w, v)
SExt(w, dst, v) == Cut(dst, SVal(w, v))

-----------------------------------------------------------------------------
(* The operations with an overflow flag: res and overflow.                 *)

SAddOvf(w, a, b) ==
    LET res == Cut(w, a + b)
    IN [res |-> res,
        overflow |-> IsNeg(w, a) = IsNeg(w, b) /\ IsNeg(w, res) # IsNeg(w, a)]
UAddOvf(w, a, b) ==
    LET res == Cut(w, a + b) IN [res |-> res, overflow |-> res < b]
SSubOvf(w, a, b) ==
    LET res == Cut(w, a - b)
    IN [res |-> res,
        overflow |-> IsNeg(w, a) # IsNeg(w, b) /\ IsNeg(w, res) # IsNeg(w, a)]
USubOvf(w, a, b) ==
    LET res == Cut(w, a - b) IN [res |-> res, overflow |-> res > a]
SMulOvf(w, a, b) ==
    LET res == Cut(w, a * b)
    IN [res |-> res,
        overflow |-> b # 0 /\ \/ SDivOf(w, res, b) # a
                              \/ a = SMinValue(w) /\ b = UMaxValue(w)]

\* Half of a times b is tried before a times b.
UMulOvf(w, a, b) ==
    LET half == Cut(w, (a \div 2) * b)
        res == Cut(w, 2 * half + (a % 2) * b)
    IN [res |-> Cut(w, a * b),
        overflow |-> \/ Clz(w, a) + Clz(w, b) + 2 <= w
                     \/ IsNeg(w, half)
                     \/ a % 2 = 1 /\ res < b]

Unless(op, otherwise) == IF op.overflow THEN otherwise ELSE op.res

SAddSatOf(w, a, b) ==
    Unless(SAddOvf(w, a, b), IF IsNeg(w, a) THEN SMinValue(w) ELSE SMaxValue(w))
UAddSatOf(w, a, b) == Unless(UAddOvf(w, a, b), UMaxValue(w))
SSubSatOf(w, a, b) ==
    Unless(SSubOvf(w, a, b), IF IsNeg(w, a) THEN SMinValue(w) ELSE SMaxValue(w))
USubSatOf(w, a, b) == Unless(USubOvf(w, a, b), 0)
SMulSatOf(w, a, b) ==
    Unless(SMulOvf(w, a, b),
           IF IsNeg(w, a) # IsNeg(w, b) THEN SMinValue(w) ELSE SMaxValue(w))
UMulSatOf(w, a, b) == Unless(UMulOvf(w, a, b), UMaxValue(w))

-----------------------------------------------------------------------------
(* What a compiled program computes, as the constant folder does it on the *)
(* types of the host: OverflowChecker.                                     *)

MinOf(w, uns) == IF uns THEN 0 ELSE -SMinValue(w)
MaxOf(w, uns) == IF uns THEN UMaxValue(w) ELSE SMaxValue(w)
InType(w, uns, i) == i \in MinOf(w, uns)..MaxOf(w, uns)

\* C++ divides towards zero.
Quotient(x, y) ==
    LET q == (IF x < 0 THEN -x ELSE x) \div (IF y < 0 THEN -y ELSE y)
    IN IF (x < 0) = (y < 0) THEN q ELSE -q

\* The exact result; INT_MIN % -1 is 0 like any x % -1.
Exact(op, x, y) ==
    CASE op = "ADD" -> x + y
      [] op = "SUB" -> x - y
      [] op = "MUL" -> x * y
      [] op = "DIV" -> Quotient(x, y)
      [] op = "MOD" -> x - y * Quotient(x, y)

DividesByZero(op, b) == op \in {"DIV", "MOD"} /\ b = 0

\* IsIntOverflow and IsUIntOverflow.
IsOverflow(w, uns, op, a, b) ==
    ~InType(w, uns, Exact(op, Val(w, uns, a), Val(w, uns, b)))

\* IsTypecastOverflowForInt.
CastOverflows(w, uns, dst, dstUns, a) == ~InType(dst, dstUns, Val(w, uns, a))

\* The word left in *res; a THROWING operation that overflows leaves none.
Fit(w, uns, ov, exact) ==
    IF ov = "SATURATING" /\ exact < MinOf(w, uns) THEN Cut(w, MinOf(w, uns))
    ELSE IF ov = "SATURATING" /\ exact > MaxOf(w, uns) THEN MaxOf(w, uns)
    ELSE Cut(w, exact)

Folded(w, uns, op, ov, a, b) ==
    Fit(w, uns, ov, Exact(op, Val(w, uns, a), Val(w, uns, b)))
CastFolded(w, uns, dst, dstUns, ov, a) == Fit(dst, dstUns, ov, Val(w, uns, a))
=============================================================================
