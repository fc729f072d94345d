----------------------------- MODULE SIntDomain -----------------------------
(***************************************************************************)
(* The abstract value of an integer (SIntDomain.cpp): a numeric range, a   *)
(* signedness, and symbolic bounds, which say how far the value lies from  *)
(* other values of the function.  A bound [l, u) for symbol s means that   *)
(* the value is s + c for some c in [l, u), read as signed.                *)
(***************************************************************************)
EXTENDS ConstantRange

Domain(numeric, symbolics, uns) ==
    [numeric |-> numeric, symbolics |-> symbolics, unsignedFlag |-> uns]
NoBounds == [s \in {} |-> EmptyRange(1)]
Top(w, uns) == Domain(FullRange(w), NoBounds, uns)
Bottom(w, uns) == Domain(EmptyRange(w), NoBounds, uns)
FromLiteral(w, uns, v) == Domain(Single(w, v), NoBounds, uns)

IsTop(d) == IsFullSet(d.numeric) /\ DOMAIN d.symbolics = {}
IsBottom(d) == IsEmptySet(d.numeric)
IsSame(d, e) == d.numeric = e.numeric

-----------------------------------------------------------------------------
(* Conversions between integer types: NumericConversion.                   *)

\* The words of a type that another type with dst bits has too, in the source.
LowEnd(w, dst, uns) == IF uns THEN 0 ELSE SExt(dst, w, SMinValue(dst))
HighEnd(dst, uns) == IF uns THEN UMaxValue(dst) ELSE SMaxValue(dst)

NCSameSignessInner(src, dst, uns, ov) ==
    LET w == src.width
        pref == Prefer(uns)
        higherPart == IntersectWith(From(w, "GE", LowEnd(w, dst, uns), ~uns), src, pref)
        unchangedPart == IntersectWith(From(w, "LE", HighEnd(dst, uns), ~uns), higherPart, pref)
        res == Truncate(unchangedPart, dst)
        withMin == IF IsEmptySet(Difference(src, higherPart)) THEN res
                   ELSE UnionWith(res, Single(dst, Cut(dst, MinOf(dst, uns))), pref)
        withMax == IF IsEmptySet(Difference(higherPart, unchangedPart)) THEN withMin
                   ELSE UnionWith(withMin, Single(dst, MaxOf(dst, uns)), pref)
    IN CASE IsFullSet(src) -> FullRange(dst)
         [] IsEmptySet(src) -> EmptyRange(dst)
         [] ~IsFullSet(src) /\ ~IsEmptySet(src) ->
               IF src = unchangedPart \/ ov = "THROWING" THEN res
               ELSE IF ov = "WRAPPING" THEN FullRange(dst) ELSE withMax

NumericConversionWithSameSigness(src, dst, uns, ov) ==
    CASE src.width = dst -> src
      [] src.width < dst -> IF uns THEN ZeroExtend(src, dst) ELSE SignExtend(src, dst)
      [] src.width > dst /\ Wraps(src, uns) ->
            LET parts == SplitWrapping(src, uns)
            IN UnionWith(NCSameSignessInner(parts[1], dst, uns, ov),
                         NCSameSignessInner(parts[2], dst, uns, ov), Prefer(uns))
      [] src.width > dst /\ ~Wraps(src, uns) -> NCSameSignessInner(src, dst, uns, ov)

\* An upper bound just above the greatest value of the type would be cut to a
\* small one.
TruncWithUpperWrapped(src, dst, dstUns) ==
    IF src.upper = Cut(src.width, HighEnd(dst, dstUns) + 1)
    THEN NonEmpty(dst, Trunc(dst, src.lower), Cut(dst, Trunc(dst, Cut(src.width, src.upper - 1)) + 1))
    ELSE Truncate(src, dst)

NCU2SInner(src, dst, ov) ==
    LET w == src.width
        dstMax == SMaxValue(dst)
        unchanged == IntersectWith(From(w, "LE", dstMax, FALSE), src, "Unsigned")
        cut(r) == IF w > dst THEN TruncWithUpperWrapped(r, dst, FALSE) ELSE r
    IN IF IsEmptySet(src) THEN EmptyRange(dst)
       ELSE IF unchanged = src \/ ov = "THROWING" THEN cut(unchanged)
       ELSE IF ov = "SATURATING" THEN cut(UnionWith(unchanged, Single(w, dstMax), "Signed"))
       ELSE IF w = dst THEN src ELSE FullRange(dst)

NumericConversionU2S(src, dst, ov) ==
    IF dst > src.width THEN ZeroExtend(src, dst)
    ELSE IF ~IsWrappedSet(src) THEN NCU2SInner(src, dst, ov)
    ELSE LET parts == SplitWrapping(src, TRUE)
         IN UnionWith(NCU2SInner(parts[1], dst, ov), NCU2SInner(parts[2], dst, ov), "Signed")

NonNegative(src) == IntersectWith(src, From(src.width, "GE", 0, TRUE), "Signed")

NCS2UInnerTrunc(src, dst, ov) ==
    LET w == src.width
        nonNegRange == NonNegative(src)
        negRange == Difference(src, nonNegRange)
        unchanged == IntersectWith(nonNegRange, From(w, "LE", UMaxValue(dst), TRUE), "Smallest")
        withMin == IF IsEmptySet(negRange) THEN unchanged
                   ELSE UnionWith(unchanged, Single(w, 0), "Unsigned")
        withMax == IF unchanged = nonNegRange THEN withMin
                   ELSE UnionWith(withMin, Single(w, UMaxValue(dst)), "Unsigned")
    IN IF IsEmptySet(src) THEN EmptyRange(dst)
       ELSE IF unchanged = src \/ ov = "THROWING" THEN TruncWithUpperWrapped(unchanged, dst, TRUE)
       ELSE IF ov = "SATURATING" THEN TruncWithUpperWrapped(withMax, dst, TRUE)
       ELSE FullRange(dst)

NCS2UInnerExtend(src, dst, ov) ==
    LET w == src.width
        nonNegRange == NonNegative(src)
        negRange == Difference(src, nonNegRange)
        wide(r) == IF w = dst THEN r ELSE ZeroExtend(r, dst)
        withMin == IF IsEmptySet(negRange) THEN nonNegRange
                   ELSE UnionWith(nonNegRange, Single(w, 0), "Smallest")
        negOverflowRange == Between(dst, SExt(w, dst, SMinOf(negRange)),
                                    Cut(dst, SExt(w, dst, SMaxOf(negRange)) + 1))
    IN IF IsEmptySet(src) THEN EmptyRange(dst)
       ELSE IF nonNegRange = src \/ ov = "THROWING" THEN wide(nonNegRange)
       ELSE IF ov = "SATURATING" THEN wide(withMin)
       ELSE UnionWith(negOverflowRange, wide(nonNegRange), "Unsigned")

NumericConversionS2U(src, dst, ov) ==
    IF dst >= src.width THEN NCS2UInnerExtend(src, dst, ov)
    ELSE IF ~IsSignWrappedSet(src) THEN NCS2UInnerTrunc(src, dst, ov)
    ELSE LET parts == SplitWrapping(src, FALSE)
         IN UnionWith(NCS2UInnerTrunc(parts[1], dst, ov), NCS2UInnerTrunc(parts[2], dst, ov), "Unsigned")

NumericConversion(src, dst, uns, dstUns, ov) ==
    CASE uns = dstUns -> NumericConversionWithSameSigness(src, dst, uns, ov)
      [] uns /\ ~dstUns -> NumericConversionU2S(src, dst, ov)
      [] ~uns /\ dstUns -> NumericConversionS2U(src, dst, ov)

-----------------------------------------------------------------------------
(* Arithmetic: ComputeArithmeticBinop.                                     *)

\* The numeric part of ComputeAdd and ComputeSub.
SumRange(ov, uns, ln, rn) ==
    IF ov # "SATURATING" THEN Add(ln, rn) ELSE IF uns THEN UAddSat(ln, rn) ELSE SAddSat(ln, rn)
DifferenceRange(ov, uns, ln, rn) ==
    IF ov # "SATURATING" THEN Sub(ln, rn) ELSE IF uns THEN USubSat(ln, rn) ELSE SSubSat(ln, rn)

\* The numeric part of all.  A divisor that may be 0 leaves nothing known.
ComputeNumeric(op, ov, uns, ln, rn) ==
    LET sat == ov = "SATURATING"
    IN CASE op = "ADD" -> SumRange(ov, uns, ln, rn)
         [] op = "SUB" -> DifferenceRange(ov, uns, ln, rn)
         [] op = "MUL" -> IF ~sat THEN IF uns THEN UMul(ln, rn) ELSE SMul(ln, rn)
                                  ELSE IF uns THEN UMulSat(ln, rn) ELSE SMulSat(ln, rn)
         [] op = "DIV" -> IF Contains(rn, 0) THEN FullRange(ln.width)
                          ELSE IF uns THEN UDiv(ln, rn) ELSE SDivImpl(ln, rn, sat)
         [] op = "MOD" -> IF uns THEN URem(ln, rn) ELSE SRem(ln, rn)

\* NumericBoundToSignedSymbolicBound: an unsigned bound is dropped when the cast to
\* a signed one of the same width, which throws, would narrow it.
FitsSigned(r, uns) == uns => \A c \in Elements(r) : ~IsNeg(r.width, c)

\* lhs + rhs lies rhs above lhs, and lhs above rhs: one bound per symbol.
AddBounds(l, r, ln, rn, uns) ==
    LET above(x, y) == ~IsSingleElement(x) /\ ~IsFullSet(y) /\ FitsSigned(y, uns)
    IN [s \in {t \in {l, r} : (t = l /\ above(ln, rn)) \/ (t = r /\ above(rn, ln))}
        |-> IF s = l THEN rn ELSE ln]

\* lhs - rhs lies -rhs above lhs.
SubBounds_Mut(l, ln, rn) ==
    IF ~IsSingleElement(ln) /\ ~IsFullSet(rn) THEN [s \in {l} |-> rn] ELSE NoBounds
SubBounds(l, ln, rn) ==
    IF ~IsSingleElement(ln) /\ ~IsFullSet(rn) /\ rn # Single(rn.width, SMinValue(rn.width))
    THEN [s \in {l} |-> Negate(rn)] ELSE NoBounds

\* Symbolic bounds hold in the absence of wrapping only.
Bounded(numeric, ov, bounds, uns) ==
    Domain(numeric, IF IsEmptySet(numeric) \/ ov # "THROWING" THEN NoBounds ELSE bounds, uns)

ComputeAdd(ov, uns, l, ln, r, rn) ==
    Bounded(SumRange(ov, uns, ln, rn), ov, AddBounds(l, r, ln, rn, uns), uns)
ComputeSub(ov, uns, l, ln, rn) ==
    Bounded(DifferenceRange(ov, uns, ln, rn), ov, SubBounds(l, ln, rn), uns)

-----------------------------------------------------------------------------
(* Comparison: ComputeRelIntBinop.  An answer is the set of the truth      *)
(* values it may be: empty when the analysis does not know.                *)

Equalities == {"EQUAL", "NOTEQUAL"}
Orderings == {"LT", "LE", "GT", "GE"}
NegRel(rel) == CASE rel = "LT" -> "GE" [] rel = "LE" -> "GT" [] rel = "GE" -> "LT" [] rel = "GT" -> "LE"
SymbolicNeg_Mut(rel) == NegRel(rel)
SymbolicNeg(rel) == CASE rel = "LT" -> "GT" [] rel = "LE" -> "GE" [] rel = "GE" -> "LE" [] rel = "GT" -> "LT"

\* What the program computes.
Holds(rel, x, y) ==
    CASE rel = "LT" -> x < y [] rel = "LE" -> x <= y [] rel = "GT" -> x > y
      [] rel = "GE" -> x >= y [] rel = "EQUAL" -> x = y [] rel = "NOTEQUAL" -> x # y

\* Always true, as far as the extreme values tell.
PartialCompare(rel, a, b, uns) ==
    LET least(r) == Val(r.width, uns, IF uns THEN UMinOf(r) ELSE SMinOf(r))
        greatest(r) == Val(r.width, uns, IF uns THEN UMaxOf(r) ELSE SMaxOf(r))
    IN /\ ~Wraps(a, uns) /\ ~Wraps(b, uns)
       /\ IF rel \in {"LT", "LE"} THEN Holds(rel, greatest(a), least(b))
                                  ELSE Holds(rel, least(a), greatest(b))

\* A full range is compared with {0} only.
Compare_Mut(rel, a, b, uns) ==
    IF IsEmptySet(a) \/ IsEmptySet(b) THEN {}
    ELSE IF PartialCompare(rel, a, b, uns) THEN {TRUE}
    ELSE IF PartialCompare(SymbolicNeg(rel), a, b, uns) THEN {FALSE}
    ELSE {}
Compare(rel, a, b, uns) ==
    IF \/ IsEmptySet(a) \/ IsEmptySet(b)
       \/ IsFullSet(a) /\ b # Single(b.width, 0)
       \/ IsFullSet(b) /\ a # Single(a.width, 0)
    THEN {}
    ELSE IF PartialCompare(rel, a, b, uns) THEN {TRUE}
    ELSE IF PartialCompare(NegRel(rel), a, b, uns) THEN {FALSE}
    ELSE {}

\* Single values decide an equality, as do ranges that do not meet.
CompareEquality(rel, a, b, pref) ==
    IF IsSingleElement(a) /\ IsSingleElement(b) THEN {Holds(rel, a.lower, b.lower)}
    ELSE IF IsEmptySet(IntersectWith(a, b, pref)) THEN {rel = "NOTEQUAL"}
    ELSE {}

\* The bound of a value for the other decides when it is single; without 0 in
\* it the two differ, which the code asks only one way round.
BoundEquality(rel, bound, alsoRanges) ==
    IF IsSingleElement(bound) THEN {Holds(rel, bound.lower, 0)}
    ELSE IF alsoRanges /\ ~Contains(bound, 0) THEN {rel = "NOTEQUAL"}
    ELSE {}

FirstDecided(answers) ==
    LET decided == {i \in DOMAIN answers : answers[i] # {}}
    IN IF decided = {} THEN {} ELSE answers[CHOOSE i \in decided : \A j \in decided : i <= j]

\* The sources of an answer, in the order they are asked: the numeric ranges,
\* the bound of a for b, that of b for a, the bounds of both for a third
\* symbol.  Several such symbols are tried in the order of their addresses.
ComputeRelIntBinop(rel, uns, a, ad, b, bd) ==
    LET zero == Single(ad.numeric.width, 0)
        aForB == {ad.symbolics[s] : s \in DOMAIN ad.symbolics \cap {b}}
        bForA == {bd.symbolics[s] : s \in DOMAIN bd.symbolics \cap {a}}
        common == DOMAIN ad.symbolics \cap DOMAIN bd.symbolics
        ordering == <<Compare(rel, ad.numeric, bd.numeric, uns),
                      UNION {Compare(rel, x, zero, FALSE) : x \in aForB},
                      UNION {Compare(SymbolicNeg(rel), x, zero, FALSE) : x \in bForA},
                      UNION {Compare(rel, ad.symbolics[s], bd.symbolics[s], FALSE) : s \in common}>>
        equality == <<CompareEquality(rel, ad.numeric, bd.numeric, Prefer(ad.unsignedFlag)),
                      UNION {BoundEquality(rel, x, FALSE) : x \in aForB},
                      UNION {BoundEquality(rel, x, TRUE) : x \in bForA},
                      UNION {CompareEquality(rel, ad.symbolics[s], bd.symbolics[s], "Signed") : s \in common}>>
    IN IF a = b THEN {rel \in {"EQUAL", "LE", "GE"}}
       ELSE IF IsBottom(ad) \/ IsBottom(bd) THEN {}
       ELSE FirstDecided(IF rel \in Equalities THEN equality ELSE ordering)

-----------------------------------------------------------------------------
(* SIntRange::Join: Unions, unless the numeric ranges are the same.        *)

\* A bound that one side lacks, or that says nothing any more, is dropped.
Unions(d, e) ==
    LET common == DOMAIN d.symbolics \cap DOMAIN e.symbolics
        bound(s) == UnionWith(d.symbolics[s], e.symbolics[s], "Smallest")
        numeric == UnionWith(d.numeric, e.numeric, "Smallest")
    IN IF IsEmptySet(numeric) THEN Bottom(numeric.width, d.unsignedFlag)
       ELSE Domain(numeric,
                   [s \in {t \in common : ~IsFullSet(bound(t))} |-> bound(s)],
                   d.unsignedFlag)

JoinChanges(d, e) == ~IsSame(d, e) \/ (IsFullSet(d.numeric) /\ DOMAIN d.symbolics # {})
SIntRangeJoin(d, e) == IF JoinChanges(d, e) THEN Unions(d, e) ELSE d
=============================================================================
