---------------------------- MODULE ConstantRange ----------------------------
(***************************************************************************)
(* The value ranges of the range analysis: ConstantRange (ConstantRange.h  *)
(* and ConstantRange.cpp).  A range is a half-open interval of words that  *)
(* may wrap around; lower = upper is the full set at the greatest word and *)
(* the empty set at zero.                                                  *)
(***************************************************************************)
EXTENDS SInt

Between(w, l, u) == [width |-> w, lower |-> l, upper |-> u]
EmptyRange(w) == Between(w, 0, 0)
FullRange(w) == Between(w, UMaxValue(w), UMaxValue(w))
Single(w, v) == Between(w, v, Cut(w, v + 1))
NonEmpty(w, l, u) == IF l = u THEN FullRange(w) ELSE Between(w, l, u)

IsRange(r) ==
    /\ {r.lower, r.upper} \subseteq Word(r.width)
    /\ r.lower = r.upper => r.lower \in {0, UMaxValue(r.width)}
ConstantRanges(w) == {r \in [width : {w}, lower : Word(w), upper : Word(w)] : IsRange(r)}

IsFullSet(r) == r.lower = r.upper /\ r.lower = UMaxValue(r.width)
IsEmptySet(r) == r.lower = r.upper /\ r.lower = 0
IsSingleElement(r) == r.upper = Cut(r.width, r.lower + 1)

\* [X, 0) does not wrap, but its exclusive upper bound does; likewise for the
\* smallest signed value.
IsUpperWrapped(r) == r.lower > r.upper
IsWrappedSet(r) == IsUpperWrapped(r) /\ r.upper # 0
IsUpperSignWrapped(r) == Slt(r.width, r.upper, r.lower)
IsSignWrappedSet(r) == IsUpperSignWrapped(r) /\ r.upper # SMinValue(r.width)
Wraps(r, uns) == IF uns THEN IsWrappedSet(r) ELSE IsSignWrappedSet(r)

Contains(r, v) ==
    IF r.lower = r.upper THEN IsFullSet(r)
    ELSE IF IsUpperWrapped(r) THEN r.lower <= v \/ v < r.upper
    ELSE r.lower <= v /\ v < r.upper

Elements(r) == {v \in Word(r.width) : Contains(r, v)}

IsSizeStrictlySmallerThan(r, s) ==
    /\ ~IsFullSet(r)
    /\ \/ IsFullSet(s)
       \/ Cut(r.width, r.upper - r.lower) < Cut(r.width, s.upper - s.lower)

\* The extreme values; an empty range has none, the code computes some.
UMaxOf(r) == IF IsFullSet(r) \/ IsUpperWrapped(r) THEN UMaxValue(r.width)
             ELSE Cut(r.width, r.upper - 1)
UMinOf(r) == IF IsFullSet(r) \/ IsWrappedSet(r) THEN 0 ELSE r.lower
SMaxOf(r) == IF IsFullSet(r) \/ IsUpperSignWrapped(r) THEN SMaxValue(r.width)
             ELSE Cut(r.width, r.upper - 1)
SMinOf(r) == IF IsFullSet(r) \/ IsSignWrappedSet(r) THEN SMinValue(r.width) ELSE r.lower

\* The words v2 with v2 rel v.
From(w, rel, v, signed) ==
    LET min == IF signed THEN SMinValue(w) ELSE 0
        max == IF signed THEN SMaxValue(w) ELSE UMaxValue(w)
    IN CASE (rel = "LT" /\ v = min) \/ (rel = "GT" /\ v = max) -> EmptyRange(w)
         [] (rel = "LE" /\ v = max) \/ (rel = "GE" /\ v = min) -> FullRange(w)
         [] rel = "EQ" -> Single(w, v)
         [] rel = "NE" -> Between(w, Cut(w, v + 1), v)
         [] rel = "GE" /\ v # min -> Between(w, v, Cut(w, max + 1))
         [] rel = "GT" /\ v # max -> Between(w, Cut(w, v + 1), Cut(w, max + 1))
         [] rel = "LE" /\ v # max -> Between(w, min, Cut(w, v + 1))
         [] rel = "LT" /\ v # min -> Between(w, min, v)

-----------------------------------------------------------------------------
(* Union and intersection.  Two results may be possible: the preferred one *)
(* does not wrap in the reading asked for, else it is the smaller one.     *)

Preferences == {"Smallest", "Unsigned", "Signed"}
Prefer(uns) == IF uns THEN "Unsigned" ELSE "Signed"

GetPreferredRange_Mut(r, s, pref) == IF IsSizeStrictlySmallerThan(r, s) THEN r ELSE s
GetPreferredRange(r, s, pref) ==
    LET wraps(x) == IF pref = "Unsigned" THEN IsWrappedSet(x)
                    ELSE pref = "Signed" /\ IsSignWrappedSet(x)
    IN IF wraps(r) # wraps(s) THEN (IF wraps(r) THEN s ELSE r)
       ELSE IF IsSizeStrictlySmallerThan(r, s) THEN r ELSE s

IntersectBothWrapped(r, s, pref) ==
    CASE s.upper < r.upper /\ s.lower < r.upper -> GetPreferredRange(r, s, pref)
      [] s.upper < r.upper /\ s.lower >= r.upper /\ s.lower < r.lower ->
            Between(r.width, r.lower, s.upper)
      [] s.upper < r.upper /\ s.lower >= r.upper /\ s.lower >= r.lower -> s
      [] s.upper >= r.upper /\ s.upper <= r.lower /\ s.lower < r.lower -> r
      [] s.upper >= r.upper /\ s.upper <= r.lower /\ s.lower >= r.lower ->
            Between(r.width, s.lower, r.upper)
      [] s.upper >= r.upper /\ s.upper > r.lower -> GetPreferredRange(r, s, pref)

IntersectWrappedWithUnwrapped(r, s, pref) ==
    CASE s.lower < r.upper /\ s.upper < r.upper -> s
      [] s.lower < r.upper /\ s.upper >= r.upper /\ s.upper <= r.lower ->
            Between(r.width, s.lower, r.upper)
      [] s.lower < r.upper /\ s.upper >= r.upper /\ s.upper > r.lower ->
            GetPreferredRange(r, s, pref)
      [] s.lower >= r.upper /\ s.lower < r.lower /\ s.upper <= r.lower -> EmptyRange(r.width)
      [] s.lower >= r.upper /\ s.lower < r.lower /\ s.upper > r.lower ->
            Between(r.width, r.lower, s.upper)
      [] s.lower >= r.upper /\ s.lower >= r.lower -> s

IntersectBothUnwrapped(r, s) ==
    CASE r.lower < s.lower /\ r.upper <= s.lower -> EmptyRange(r.width)
      [] r.lower < s.lower /\ r.upper > s.lower /\ r.upper < s.upper ->
            Between(r.width, s.lower, r.upper)
      [] r.lower < s.lower /\ r.upper > s.lower /\ r.upper >= s.upper -> s
      [] r.lower >= s.lower /\ s.upper <= r.lower -> EmptyRange(r.width)
      [] r.lower >= s.lower /\ s.upper > r.lower /\ s.upper < r.upper ->
            Between(r.width, r.lower, s.upper)
      [] r.lower >= s.lower /\ s.upper > r.lower /\ s.upper >= r.upper -> r

\* With one of them wrapped it is the wrapped one that is asked.
IntersectWith(r, s, pref) ==
    IF IsEmptySet(r) \/ IsFullSet(s) THEN r
    ELSE IF IsEmptySet(s) \/ IsFullSet(r) THEN s
    ELSE CASE IsUpperWrapped(r) /\ IsUpperWrapped(s) -> IntersectBothWrapped(r, s, pref)
           [] IsUpperWrapped(r) /\ ~IsUpperWrapped(s) -> IntersectWrappedWithUnwrapped(r, s, pref)
           [] ~IsUpperWrapped(r) /\ IsUpperWrapped(s) -> IntersectWrappedWithUnwrapped(s, r, pref)
           [] ~IsUpperWrapped(r) /\ ~IsUpperWrapped(s) -> IntersectBothUnwrapped(r, s)

UnionBothWrapped(r, s) ==
    IF s.lower <= r.upper \/ r.lower <= s.upper THEN FullRange(r.width)
    ELSE Between(r.width, UMin(r.lower, s.lower), UMax(r.upper, s.upper))

\* Two ranges with gaps on both sides: one of the gaps is closed.
OneGapClosed(r, s, pref) ==
    GetPreferredRange(Between(r.width, r.lower, s.upper), Between(r.width, s.lower, r.upper), pref)

UnionWrappedWithUnwrapped(r, s, pref) ==
    CASE s.lower <= r.upper /\ s.upper < r.upper -> r
      [] s.lower <= r.upper /\ s.upper >= r.upper /\ s.upper < r.lower ->
            Between(r.width, r.lower, s.upper)
      [] s.lower <= r.upper /\ s.upper >= r.upper /\ s.upper >= r.lower -> FullRange(r.width)
      [] s.lower > r.upper /\ s.lower < r.lower /\ s.upper < r.lower -> OneGapClosed(r, s, pref)
      [] s.lower > r.upper /\ s.lower < r.lower /\ s.upper >= r.lower ->
            Between(r.width, s.lower, r.upper)
      [] s.lower > r.upper /\ s.lower >= r.lower -> r

UnionBothUnwrapped(r, s, pref) ==
    IF s.upper < r.lower \/ r.upper < s.lower THEN OneGapClosed(r, s, pref)
    ELSE LET lower == UMin(r.lower, s.lower)
             upper == IF Cut(r.width, s.upper - 1) > Cut(r.width, r.upper - 1)
                      THEN s.upper ELSE r.upper
         IN IF lower = 0 /\ upper = 0 THEN FullRange(r.width)
            ELSE Between(r.width, lower, upper)

UnionWith(r, s, pref) ==
    IF IsFullSet(r) \/ IsEmptySet(s) THEN r
    ELSE IF IsFullSet(s) \/ IsEmptySet(r) THEN s
    ELSE CASE IsUpperWrapped(r) /\ IsUpperWrapped(s) -> UnionBothWrapped(r, s)
           [] IsUpperWrapped(r) /\ ~IsUpperWrapped(s) -> UnionWrappedWithUnwrapped(r, s, pref)
           [] ~IsUpperWrapped(r) /\ IsUpperWrapped(s) -> UnionWrappedWithUnwrapped(s, r, pref)
           [] ~IsUpperWrapped(r) /\ ~IsUpperWrapped(s) -> UnionBothUnwrapped(r, s, pref)

InverseOf(r) ==
    IF IsFullSet(r) THEN EmptyRange(r.width)
    ELSE IF IsEmptySet(r) THEN FullRange(r.width)
    ELSE Between(r.width, r.upper, r.lower)

Difference(r, s) == IntersectWith(r, InverseOf(s), "Smallest")

-----------------------------------------------------------------------------
(* Changes of the width.                                                   *)

ZeroExtend(r, dst) ==
    IF IsEmptySet(r) THEN EmptyRange(dst)
    ELSE IF IsFullSet(r) \/ IsWrappedSet(r) THEN Between(dst, 0, Size(r.width))
    ELSE Between(dst, r.lower, IF r.upper = 0 THEN Size(r.width) ELSE r.upper)

SignExtend(r, dst) ==
    LET w == r.width
    IN IF IsEmptySet(r) THEN EmptyRange(dst)
       ELSE IF IsFullSet(r) \/ IsSignWrappedSet(r)
            THEN Between(dst, SExt(w, dst, SMinValue(w)), SMinValue(w))
       ELSE Between(dst, SExt(w, dst, r.lower),
                    IF r.upper = SMinValue(w) THEN r.upper ELSE SExt(w, dst, r.upper))

\* The two parts of a range that wraps, in the given reading.
SplitWrapping(r, uns) ==
    <<From(r.width, "LT", r.upper, ~uns), From(r.width, "GE", r.lower, ~uns)>>

\* The part of Truncate for lower <= upper; below what the wrapped part gave.
TruncateUnwrapped(dst, lower, upper, wrappedPart) ==
    LET adjust == IF lower >= Size(dst) THEN lower - Trunc(dst, lower) ELSE 0
        lo == lower - adjust
        up == upper - adjust
    IN CASE up < Size(dst) -> UnionWith(Between(dst, lo, up), wrappedPart, "Smallest")
         [] up >= Size(dst) /\ up < 2 * Size(dst) /\ up - Size(dst) < lo ->
               UnionWith(Between(dst, lo, up - Size(dst)), wrappedPart, "Smallest")
         [] up >= 2 * Size(dst) \/ (up >= Size(dst) /\ up - Size(dst) >= lo) -> FullRange(dst)

\* A wrapped range is [max, upper) and [lower, max).
Truncate(r, dst) ==
    IF IsEmptySet(r) THEN EmptyRange(dst)
    ELSE IF IsFullSet(r) THEN FullRange(dst)
    ELSE IF ~IsUpperWrapped(r) THEN TruncateUnwrapped(dst, r.lower, r.upper, EmptyRange(dst))
    ELSE IF r.upper >= UMaxValue(dst) THEN FullRange(dst)
    ELSE LET wrappedPart == Between(dst, UMaxValue(dst), r.upper)
         IN IF r.lower = UMaxValue(r.width) THEN wrappedPart
            ELSE TruncateUnwrapped(dst, r.lower, UMaxValue(r.width), wrappedPart)

-----------------------------------------------------------------------------
(* Arithmetic.                                                             *)

\* Add and Sub have wrapped around when the result is smaller than an operand.
Around(r, s, lower, upper) ==
    LET res == Between(r.width, lower, upper)
    IN IF \/ lower = upper
          \/ IsSizeStrictlySmallerThan(res, r)
          \/ IsSizeStrictlySmallerThan(res, s)
       THEN FullRange(r.width) ELSE res

Add(r, s) ==
    IF IsEmptySet(r) \/ IsEmptySet(s) THEN EmptyRange(r.width)
    ELSE IF IsFullSet(r) \/ IsFullSet(s) THEN FullRange(r.width)
    ELSE Around(r, s, Cut(r.width, r.lower + s.lower), Cut(r.width, r.upper + s.upper - 1))

Sub(r, s) ==
    IF IsEmptySet(r) \/ IsEmptySet(s) THEN EmptyRange(r.width)
    ELSE IF IsFullSet(r) \/ IsFullSet(s) THEN FullRange(r.width)
    ELSE Around(r, s, Cut(r.width, r.lower - s.upper + 1), Cut(r.width, r.upper - s.lower))

\* The range from lo to up, when neither range is empty.
Closed(r, s, lo, up) ==
    IF IsEmptySet(r) \/ IsEmptySet(s) THEN EmptyRange(r.width)
    ELSE NonEmpty(r.width, lo, Cut(r.width, up + 1))

UMul(r, s) ==
    LET lo == UMulOvf(r.width, UMinOf(r), UMinOf(s))
        up == UMulOvf(r.width, UMaxOf(r), UMaxOf(s))
    IN IF ~IsEmptySet(r) /\ ~IsEmptySet(s) /\ (lo.overflow \/ up.overflow)
       THEN FullRange(r.width) ELSE Closed(r, s, lo.res, up.res)

Corners(r, s) == {SMinOf(r), SMaxOf(r)} \X {SMinOf(s), SMaxOf(s)}

SMul(r, s) ==
    LET products == {SMulOvf(r.width, c[1], c[2]) : c \in Corners(r, s)}
        words == {p.res : p \in products}
    IN IF ~IsEmptySet(r) /\ ~IsEmptySet(s) /\ \E p \in products : p.overflow
       THEN FullRange(r.width)
       ELSE Closed(r, s, SLeast(r.width, words), SGreatest(r.width, words))

\* The smallest divisor that is not 0.
UMinNonZero(s) == IF UMinOf(s) # 0 THEN UMinOf(s) ELSE IF s.upper = 1 THEN s.lower ELSE 1

UDiv(r, s) ==
    IF IsEmptySet(r) \/ IsEmptySet(s) \/ UMaxOf(s) = 0 THEN EmptyRange(r.width)
    ELSE NonEmpty(r.width, UMinOf(r) \div UMaxOf(s),
                  Cut(r.width, UMaxOf(r) \div UMinNonZero(s) + 1))

BySigns(pn, np, pp, nn) ==
    UnionWith(UnionWith(pn, np, "Smallest"), UnionWith(pp, nn, "Smallest"), "Signed")
WithZero(r) == UnionWith(r, Single(r.width, 0), "Smallest")

\* SDivImpl: both sides are split by sign, the quotients of the parts are
\* computed at their corners and joined.
SDivImpl(r, s, sat) ==
    LET w == r.width
        div(a, b) == IF sat THEN SDivSatOf(w, a, b) ELSE SDivOf(w, a, b)
        min == SMinValue(w)
        empty == EmptyRange(w)
        posL == IntersectWith(r, Between(w, 1, min), "Smallest")
        negL == IntersectWith(r, Between(w, min, 0), "Smallest")
        posR == IntersectWith(s, Between(w, 1, min), "Smallest")
        negR == IntersectWith(s, Between(w, min, 0), "Smallest")
        last(x) == Cut(w, x.upper - 1)
        quotients(x, y, lo, up) ==
            IF IsEmptySet(x) \/ IsEmptySet(y) THEN empty ELSE Between(w, lo, Cut(w, up + 1))
        \* min / -1 is left out: -1 is dropped from the right, or min from the left
        withoutMinusOne == div(negL.lower,
            IF s.lower = UMaxValue(w) THEN Cut(w, s.upper - 1) ELSE Cut(w, negR.upper - 2))
        withoutMin == div(IF r.upper = Cut(w, min + 1) THEN r.lower ELSE Cut(w, negL.lower + 1),
                          last(negR))
        negDivNegUp ==
            IF ~(negL.lower = min /\ negR.upper = 0) THEN div(negL.lower, last(negR))
            ELSE IF negL.upper # Cut(w, min + 1) THEN withoutMin
            ELSE IF negR.lower # UMaxValue(w) THEN withoutMinusOne
            ELSE div(negL.lower, last(negR))
        posDivPos == quotients(posL, posR, div(posL.lower, last(posR)),
                                           div(last(posL), posR.lower))
        negDivNeg == quotients(negL, negR, div(last(negL), negR.lower), negDivNegUp)
        posDivNeg == quotients(posL, negR, div(last(posL), last(negR)),
                                           div(posL.lower, negR.lower))
        negDivPos == quotients(negL, posR, div(negL.lower, posR.lower),
                                           div(last(negL), last(posR)))
        res == BySigns(posDivNeg, negDivPos, posDivPos, negDivNeg)
    IN IF Contains(r, 0) /\ ~(IsEmptySet(posR) /\ IsEmptySet(negR))
       THEN WithZero(res) ELSE res

URem(r, s) ==
    LET w == r.width
    IN IF IsEmptySet(r) \/ IsEmptySet(s) \/ UMaxOf(s) = 0 THEN EmptyRange(w)
       ELSE IF IsSingleElement(s) /\ IsSingleElement(r) THEN Single(w, r.lower % s.lower)
       ELSE IF UMaxOf(r) < UMinOf(s) THEN r
       ELSE NonEmpty(w, 0, Cut(w, UMin(UMaxOf(r), UMaxOf(s) - 1) + 1))

\* The default of intMinIsPoison, the only one in use.
Abs(r) ==
    LET w == r.width
        sMin == SMinOf(r)
        sMax == SMaxOf(r)
        crosses == (r.upper # 0 /\ ~IsNeg(w, r.upper)) \/ IsNeg(w, r.lower) \/ r.lower = 0
    IN IF IsEmptySet(r) THEN EmptyRange(w)
       ELSE IF IsSignWrappedSet(r)
            THEN Between(w, IF crosses THEN 0 ELSE UMin(r.lower, Cut(w, 1 - r.upper)),
                         Cut(w, SMinValue(w) + 1))
       ELSE IF ~IsNeg(w, sMin) THEN r
       ELSE IF IsNeg(w, sMax) THEN Between(w, Neg(w, sMax), Cut(w, 1 - sMin))
       ELSE Between(w, 0, Cut(w, UMax(Neg(w, sMin), sMax) + 1))

SRem(r, s) ==
    LET w == r.width
        maxAbs == UMaxOf(Abs(s))
        minAbs == IF UMinOf(Abs(s)) = 0 THEN 1 ELSE UMinOf(Abs(s))
        minL == SMinOf(r)
        maxL == SMaxOf(r)
        lo == UMax(minL, Cut(w, 1 - maxAbs))
        up == UMin(maxL, maxAbs - 1)
    IN IF IsEmptySet(r) \/ IsEmptySet(s) \/ s = Single(w, 0) \/ maxAbs = 0 THEN EmptyRange(w)
       ELSE IF IsSingleElement(s) /\ IsSingleElement(r) THEN Single(w, SRemOf(w, r.lower, s.lower))
       ELSE IF ~IsNeg(w, minL)
            THEN IF maxL < minAbs THEN r ELSE Between(w, 0, Cut(w, up + 1))
       ELSE IF IsNeg(w, maxL)
            THEN IF minL > Neg(w, minAbs) THEN r ELSE Between(w, lo, 1)
       ELSE Between(w, lo, Cut(w, up + 1))

UAddSat(r, s) ==
    Closed(r, s, UAddSatOf(r.width, UMinOf(r), UMinOf(s)), UAddSatOf(r.width, UMaxOf(r), UMaxOf(s)))
SAddSat(r, s) ==
    Closed(r, s, SAddSatOf(r.width, SMinOf(r), SMinOf(s)), SAddSatOf(r.width, SMaxOf(r), SMaxOf(s)))
USubSat(r, s) ==
    Closed(r, s, USubSatOf(r.width, UMinOf(r), UMaxOf(s)), USubSatOf(r.width, UMaxOf(r), UMinOf(s)))
SSubSat(r, s) ==
    Closed(r, s, SSubSatOf(r.width, SMinOf(r), SMaxOf(s)), SSubSatOf(r.width, SMaxOf(r), SMinOf(s)))
UMulSat(r, s) ==
    Closed(r, s, UMulSatOf(r.width, UMinOf(r), UMinOf(s)), UMulSatOf(r.width, UMaxOf(r), UMaxOf(s)))
SMulSat(r, s) ==
    LET products == {SMulSatOf(r.width, c[1], c[2]) : c \in Corners(r, s)}
    IN Closed(r, s, SLeast(r.width, products), SGreatest(r.width, products))

\* A range with the smallest value keeps it.
Negate(r) ==
    LET w == r.width
    IN IF IsEmptySet(r) \/ IsFullSet(r) THEN r
       ELSE Between(w, Cut(w, 1 - r.upper),
                    IF r.lower = SMinValue(w) THEN r.lower ELSE Cut(w, 1 - r.lower))
=============================================================================
