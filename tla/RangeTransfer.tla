---------------------------- MODULE RangeTransfer ----------------------------
(***************************************************************************)
(* The range analysis of CHIR (ValueRangeAnalysis.cpp) along one path of   *)
(* the analysed program.  The program computes with a variable; beside its *)
(* value is what the state of the analysis has for it.  Every step is an   *)
(* expression of CHIR: the program evaluates it, the analysis applies its  *)
(* transfer function.  The other operand of an expression has any range    *)
(* and any value of it.                                                    *)
(*                                                                         *)
(* A path ends at a division by zero and where a THROWING operation        *)
(* overflows: such a step is not taken.                                    *)
(***************************************************************************)
EXTENDS SIntDomain

CONSTANTS Widths,             \* bound: the widths of the integer types (8 to 64 in the code)
          Operations,         \* bound: the operators of binary expressions
          Strategies,         \* bound: the overflow strategies of binary expressions
          CastStrategies,     \* bound: those of casts
          OtherSizes,         \* bound: how many values the range of the other operand has
          MinOverMinusOne,    \* bound: whether a range with the smallest value may be divided by one with -1
          FlagMayDiffer       \* bound: whether a cast may read a range by a signedness that is not the type's

\* A type has 2^w words, an even number, and a wider type at least twice as many,
\* a multiple; the proofs use no more of the widths than this.
ASSUME WidthsAssumption ==
    /\ \A w \in Widths : w \in Nat /\ Size(w) \in Nat \ {0} /\ Size(w) = 2 * SMinValue(w)
    /\ \A v, w \in Widths : v < w => Size(w) % (2 * Size(v)) = 0

VARIABLES width, uns,         \* the type of the variable
          value,              \* its word
          valueDomain         \* the ValueDomain of the variable: TOP, or a stored range
vars == <<width, uns, value, valueDomain>>

\* ValueDomain: nothing is known, or an SIntRange is stored, which may say as little.
TopValue == [kind |-> "TOP"]
SIntRange(d) == [kind |-> "VAL", absVal |-> d]

\* The domain an expression reads.  The type gives the signedness of TOP only: a
\* stored range keeps the one it was stored with, also a full range.
GetSIntDomainFromState(v, w, u) == IF v.kind = "TOP" THEN Top(w, u) ELSE v.absVal
domain == GetSIntDomainFromState(valueDomain, width, uns)

Others == ConstantRanges(width) \ {EmptyRange(width)}

Init ==
    /\ width \in Widths
    /\ uns \in BOOLEAN
    /\ value \in Word(width)
    /\ valueDomain \in {TopValue, SIntRange(FromLiteral(width, uns, value))}

-----------------------------------------------------------------------------
(* Binary expressions.                                                     *)

\* CheckSingleValueOverflow folds two single values.  An overflow that throws
\* is diagnosed and leaves the range open, as does a division by zero.
CheckSingleValueOverflow(op, ov, u, ln, rn) ==
    LET w == ln.width
    IN IF \/ DividesByZero(op, rn.lower)
          \/ ov = "THROWING" /\ IsOverflow(w, u, op, ln.lower, rn.lower)
       THEN Top(w, u)
       ELSE FromLiteral(w, u, Folded(w, u, op, ov, ln.lower, rn.lower))

\* The domain HandleBinaryExpr computes, without the symbolic bounds.
NumericBinaryExpr_Mut(op, ov, u, ln, rn) ==
    IF IsSingleElement(ln) THEN CheckSingleValueOverflow(op, ov, u, ln, rn)
    ELSE Domain(ComputeNumeric(op, ov, u, ln, rn), NoBounds, u)
NumericBinaryExpr(op, ov, u, ln, rn) ==
    IF IsSingleElement(ln) /\ IsSingleElement(rn)
    THEN CheckSingleValueOverflow(op, ov, u, ln, rn)
    ELSE Domain(ComputeNumeric(op, ov, u, ln, rn), NoBounds, u)

\* It is stored if two values were folded or if it says something.
HandleBinaryExpr(op, ov, u, ln, rn) ==
    LET res == NumericBinaryExpr(op, ov, u, ln, rn)
    IN IF IsTop(res) /\ ~(IsSingleElement(ln) /\ IsSingleElement(rn)) THEN TopValue ELSE SIntRange(res)

BinaryExpr ==
    \E op \in Operations, ov \in Strategies,
       other \in {r \in Others : Cardinality(Elements(r)) \in OtherSizes} :
        LET operands == {b \in Elements(other) :
                            /\ ~DividesByZero(op, b)
                            /\ ~(ov = "THROWING" /\ IsOverflow(width, uns, op, value, b))}
        IN /\ \/ op # "DIV" \/ uns \/ MinOverMinusOne
              \/ ~Contains(domain.numeric, SMinValue(width)) \/ ~Contains(other, UMaxValue(width))
           /\ valueDomain' = HandleBinaryExpr(op, ov, uns, domain.numeric, other)
           /\ value' \in {Folded(width, uns, op, ov, value, b) : b \in operands}
           /\ UNCHANGED <<width, uns>>

-----------------------------------------------------------------------------
(* Casts.                                                                  *)

\* ComputeTypeCast, without the symbolic bounds.  The new domain keeps the
\* signedness of the old one.
NumericTypeCast(d, dst, dstUns, ov) ==
    Domain(IF IsBottom(d) THEN EmptyRange(dst)
           ELSE NumericConversion(d.numeric, dst, d.unsignedFlag, dstUns, ov),
           NoBounds, d.unsignedFlag)

\* The range is read by the signedness of the domain.  That is the one of the type
\* unless the value comes from a cast to the other signedness; then it matters for
\* words with the highest bit set.
ReadAsTyped == domain.unsignedFlag = uns \/ FitsSigned(domain.numeric, TRUE)

TypeCast ==
    \E dst \in Widths, dstUns \in BOOLEAN, ov \in CastStrategies :
        /\ <<dst, dstUns>> # <<width, uns>>
        /\ FlagMayDiffer \/ ReadAsTyped
        /\ ~(ov = "THROWING" /\ CastOverflows(width, uns, dst, dstUns, value))
        /\ value' = CastFolded(width, uns, dst, dstUns, ov, value)
        /\ valueDomain' = SIntRange(NumericTypeCast(domain, dst, dstUns, ov))
        /\ width' = dst
        /\ uns' = dstUns

-----------------------------------------------------------------------------
(* ValueDomain::Join and SIntRange::Join, where this path meets another:   *)
(* either state may be the one the other is joined into.  The other path   *)
(* may have cast to the variable from a type of the other signedness.      *)

Joined(v, x) ==
    IF v.kind = "TOP" \/ x.kind = "TOP" THEN TopValue ELSE SIntRange(SIntRangeJoin(v.absVal, x.absVal))

Join ==
    \E other \in {TopValue} \cup {SIntRange(Domain(r, NoBounds, u)) : r \in Others, u \in BOOLEAN} :
        /\ valueDomain' \in {Joined(valueDomain, other), Joined(other, valueDomain)}
        /\ UNCHANGED <<width, uns, value>>

Next == BinaryExpr \/ TypeCast \/ Join
Spec == Init /\ [][Next]_vars

-----------------------------------------------------------------------------
TypeOK ==
    /\ width \in Widths /\ uns \in BOOLEAN /\ value \in Word(width)
    /\ \/ valueDomain = TopValue
       \/ \E d \in [numeric : ConstantRanges(width), symbolics : {NoBounds}, unsignedFlag : BOOLEAN] :
              valueDomain = SIntRange(d)

\* The range the analysis has for a variable contains its value, after any
\* sequence of expressions, casts and joins (ComputeArithmeticBinop,
\* CheckSingleValueOverflow, NumericConversion, UnionWith).
Sound == Contains(domain.numeric, value)

\* A comparison the analysis decides has the answer the program computes,
\* whatever the other operand is: Branch drops the other block.
AnswersSound ==
    \A rel \in Equalities \cup Orderings, other \in Others :
        LET there == Domain(other, NoBounds, uns)
            answers == ComputeRelIntBinop(rel, uns, "x", domain, "y", there)
            swapped == ComputeRelIntBinop(rel, uns, "y", there, "x", domain)
        IN \A b \in Elements(other) :
              /\ answers \subseteq {Holds(rel, Val(width, uns, value), Val(width, uns, b))}
              /\ swapped \subseteq {Holds(rel, Val(width, uns, b), Val(width, uns, value))}

\* The ranges that cover a set and leave out one of its gaps.
GapBefore(w, S, v) == CHOOSE k \in 1..Size(w) : /\ Cut(w, v - k) \in S
                                               /\ \A j \in 1..(k - 1) : Cut(w, v - j) \notin S
Covers(w, S) == {Between(w, v, Cut(w, v + 1 - GapBefore(w, S, v))) : v \in {u \in S : GapBefore(w, S, u) > 1}}

\* c is to be preferred to r (ConstantRange.h, PreferredRangeType).
Better(c, r, pref) ==
    LET wraps(x) == pref # "Smallest" /\ Wraps(x, pref = "Unsigned")
    IN IF wraps(c) # wraps(r) THEN wraps(r) ELSE Cardinality(Elements(c)) < Cardinality(Elements(r))

BestCover(r, S, pref) ==
    CASE S = {} -> IsEmptySet(r)
      [] S = Word(r.width) -> IsFullSet(r)
      [] S \notin {{}, Word(r.width)} ->
            \/ Elements(r) = S
            \/ LET covers == Covers(r.width, S)
               IN r \in covers /\ \A c \in covers : ~Better(c, r, pref)

\* A union or intersection of two ranges is exact when a range can say it;
\* else it closes one gap, and among the results possible it does not wrap in
\* the preferred reading if one of them does not, and is the smallest of those.
JoinPrecise ==
    \A other \in Others, pref \in Preferences :
        LET r == domain.numeric
            both == Elements(r) \cap Elements(other)
        IN /\ BestCover(UnionWith(r, other, pref), Elements(r) \cup Elements(other), pref)
           /\ BestCover(IntersectWith(r, other, pref), both, pref)
=============================================================================
