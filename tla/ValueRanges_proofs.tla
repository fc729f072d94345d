------------------------- MODULE ValueRanges_proofs --------------------------
(***************************************************************************)
(* What the ranges and the symbolic bounds of the analysis promise for     *)
(* every width of the integer types and every number of symbols: TLC       *)
(* enumerates types of two and three bits and programs of four values, the *)
(* compiler has eight to sixty-four bits.                                  *)
(***************************************************************************)
EXTENDS RangeTransfer, RangeSymbols, FiniteSetTheorems, TLAPS

\* All that is used of a width: there is a smallest signed value, half way up.
IsWidth(w) == Size(w) \in Nat \ {0} /\ Size(w) = 2 * SMinValue(w)

-----------------------------------------------------------------------------
(* Words and the fields of a range.                                        *)

LEMMA WordFacts ==
  ASSUME NEW w, IsWidth(w), NEW v \in Word(w)
  PROVE  /\ v \in Int /\ 0 <= v /\ v < Size(w)
         /\ Size(w) \in Int /\ 2 <= Size(w)
         /\ SMinValue(w) \in Int /\ 1 <= SMinValue(w) /\ Size(w) = 2 * SMinValue(w)
  BY DEF IsWidth, Word, SMinValue

\* Cutting removes at most one turn when the integer is close to a word.
LEMMA CutFacts ==
  ASSUME NEW w, IsWidth(w), NEW i \in Int
  PROVE  /\ Cut(w, i) \in Word(w)
         /\ 0 <= i /\ i < Size(w) => Cut(w, i) = i
         /\ Size(w) <= i /\ i < 2 * Size(w) => Cut(w, i) = i - Size(w)
         /\ -Size(w) <= i /\ i < 0 => Cut(w, i) = i + Size(w)
  BY DEF IsWidth, Cut, Word

LEMMA RangeFields ==
  ASSUME NEW w, IsWidth(w), NEW r \in ConstantRanges(w)
  PROVE  /\ r.width = w
         /\ r.lower \in Word(w) /\ r.upper \in Word(w)
         /\ r.lower = r.upper => IsFullSet(r) # IsEmptySet(r)
         /\ r.lower # r.upper => ~IsFullSet(r) /\ ~IsEmptySet(r)
         /\ r = Between(w, r.lower, r.upper)
  BY DEF ConstantRanges, IsRange, Word, UMaxValue, IsFullSet, IsEmptySet, IsWidth, SMinValue, Between

LEMMA ProperRange ==
  ASSUME NEW w, IsWidth(w), NEW l \in Word(w), NEW u \in Word(w), l # u
  PROVE  Between(w, l, u) \in ConstantRanges(w)
  BY DEF ConstantRanges, IsRange, Between

LEMMA TrivialRanges ==
  ASSUME NEW w, IsWidth(w)
  PROVE  /\ FullRange(w) \in ConstantRanges(w) /\ IsFullSet(FullRange(w))
         /\ EmptyRange(w) \in ConstantRanges(w) /\ IsEmptySet(EmptyRange(w))
  BY DEF FullRange, EmptyRange, Between, ConstantRanges, IsRange, Word, UMaxValue, IsWidth, SMinValue, IsFullSet, IsEmptySet

LEMMA TrivialContents ==
  ASSUME NEW w, IsWidth(w), NEW r \in ConstantRanges(w), NEW v
  PROVE  /\ IsFullSet(r) => Contains(r, v) = TRUE
         /\ IsEmptySet(r) => Contains(r, v) = FALSE
  BY RangeFields DEF Contains, IsFullSet, IsEmptySet, UMaxValue, IsWidth, SMinValue

-----------------------------------------------------------------------------
(* Union and intersection.                                                 *)

LEMMA PreferredIs ==
  ASSUME NEW r, NEW s, NEW pref
  PROVE  GetPreferredRange(r, s, pref) \in {r, s}
  BY DEF GetPreferredRange

LEMMA BothWrappedUnion ==
  ASSUME NEW w, IsWidth(w), NEW r \in ConstantRanges(w), NEW s \in ConstantRanges(w),
         IsUpperWrapped(r), IsUpperWrapped(s)
  PROVE  /\ UnionBothWrapped(r, s) \in ConstantRanges(w)
         /\ \A v \in Word(w) : Contains(r, v) \/ Contains(s, v) => Contains(UnionBothWrapped(r, s), v)
<1>1. UnionBothWrapped(r, s) \in ConstantRanges(w)
  BY RangeFields, WordFacts, ProperRange, TrivialRanges
     DEF UnionBothWrapped, IsUpperWrapped, UMin, UMax
<1>2. ASSUME NEW v \in Word(w), Contains(r, v) \/ Contains(s, v)
      PROVE  Contains(UnionBothWrapped(r, s), v)
  BY <1>2, RangeFields, WordFacts
     DEF UnionBothWrapped, Contains, IsFullSet, IsUpperWrapped, FullRange, Between, UMin, UMax
<1> QED BY <1>1, <1>2

LEMMA MixedUnion ==
  ASSUME NEW w, IsWidth(w), NEW r \in ConstantRanges(w), NEW s \in ConstantRanges(w), NEW pref,
         IsUpperWrapped(r), ~IsUpperWrapped(s), s.lower # s.upper
  PROVE  /\ UnionWrappedWithUnwrapped(r, s, pref) \in ConstantRanges(w)
         /\ \A v \in Word(w) : Contains(r, v) \/ Contains(s, v)
                               => Contains(UnionWrappedWithUnwrapped(r, s, pref), v)
<1>1. UnionWrappedWithUnwrapped(r, s, pref) \in ConstantRanges(w)
  BY RangeFields, WordFacts, ProperRange, TrivialRanges, PreferredIs, SMTT(60)
     DEF UnionWrappedWithUnwrapped, OneGapClosed, IsUpperWrapped
<1>2. ASSUME NEW v \in Word(w), Contains(r, v) \/ Contains(s, v)
      PROVE  Contains(UnionWrappedWithUnwrapped(r, s, pref), v)
  BY <1>2, RangeFields, WordFacts, PreferredIs
     DEF UnionWrappedWithUnwrapped, OneGapClosed, Contains, IsFullSet, IsUpperWrapped, FullRange, Between
<1> QED BY <1>1, <1>2

LEMMA BothUnwrappedUnion ==
  ASSUME NEW w, IsWidth(w), NEW r \in ConstantRanges(w), NEW s \in ConstantRanges(w), NEW pref,
         r.lower < r.upper, s.lower < s.upper
  PROVE  /\ UnionBothUnwrapped(r, s, pref) \in ConstantRanges(w)
         /\ \A v \in Word(w) : Contains(r, v) \/ Contains(s, v)
                               => Contains(UnionBothUnwrapped(r, s, pref), v)
<1>1. /\ Cut(w, r.upper - 1) = r.upper - 1
      /\ Cut(w, s.upper - 1) = s.upper - 1
  BY RangeFields, WordFacts, CutFacts
<1>2. UnionBothUnwrapped(r, s, pref) \in ConstantRanges(w)
  BY <1>1, RangeFields, WordFacts, ProperRange, TrivialRanges, PreferredIs
     DEF UnionBothUnwrapped, OneGapClosed, UMin
<1>3. ASSUME NEW v \in Word(w), Contains(r, v) \/ Contains(s, v)
      PROVE  Contains(UnionBothUnwrapped(r, s, pref), v)
  BY <1>1, <1>3, RangeFields, WordFacts, PreferredIs
     DEF UnionBothUnwrapped, OneGapClosed, Contains, IsFullSet, IsUpperWrapped, FullRange, Between, UMin
<1> QED BY <1>2, <1>3

\* A union contains both ranges, whichever of two covers is preferred.
LEMMA UnionContains ==
  ASSUME NEW w, IsWidth(w), NEW r \in ConstantRanges(w), NEW s \in ConstantRanges(w), NEW pref
  PROVE  /\ UnionWith(r, s, pref) \in ConstantRanges(w)
         /\ \A v \in Word(w) : Contains(r, v) \/ Contains(s, v) => Contains(UnionWith(r, s, pref), v)
<1>1. CASE IsFullSet(r) \/ IsEmptySet(s)
  <2>1. UnionWith(r, s, pref) = r
    BY <1>1 DEF UnionWith
  <2> QED BY <1>1, <2>1, TrivialContents
<1>2. CASE ~(IsFullSet(r) \/ IsEmptySet(s)) /\ (IsFullSet(s) \/ IsEmptySet(r))
  <2>1. UnionWith(r, s, pref) = s
    BY <1>2 DEF UnionWith
  <2> QED BY <1>2, <2>1, TrivialContents
<1>3. CASE ~IsFullSet(r) /\ ~IsEmptySet(s) /\ ~IsFullSet(s) /\ ~IsEmptySet(r)
  <2>0. r.lower # r.upper /\ s.lower # s.upper
    BY <1>3, RangeFields DEF IsFullSet, IsEmptySet
  <2>1. /\ ~IsUpperWrapped(r) => r.lower < r.upper
        /\ ~IsUpperWrapped(s) => s.lower < s.upper
    BY <2>0, RangeFields, WordFacts DEF IsUpperWrapped
  <2>2. CASE IsUpperWrapped(r) /\ IsUpperWrapped(s)
    <3>1. UnionWith(r, s, pref) = UnionBothWrapped(r, s)
      BY <1>3, <2>2 DEF UnionWith
    <3> QED BY <2>2, <3>1, BothWrappedUnion
  <2>3. CASE IsUpperWrapped(r) /\ ~IsUpperWrapped(s)
    <3>1. UnionWith(r, s, pref) = UnionWrappedWithUnwrapped(r, s, pref)
      BY <1>3, <2>3 DEF UnionWith
    <3> QED BY <2>0, <2>3, <3>1, MixedUnion
  <2>4. CASE ~IsUpperWrapped(r) /\ IsUpperWrapped(s)
    <3>1. UnionWith(r, s, pref) = UnionWrappedWithUnwrapped(s, r, pref)
      BY <1>3, <2>4 DEF UnionWith
    <3> QED BY <2>0, <2>4, <3>1, MixedUnion
  <2>5. CASE ~IsUpperWrapped(r) /\ ~IsUpperWrapped(s)
    <3>1. UnionWith(r, s, pref) = UnionBothUnwrapped(r, s, pref)
      BY <1>3, <2>5 DEF UnionWith
    <3> QED BY <2>1, <2>5, <3>1, BothUnwrappedUnion
  <2> QED BY <2>2, <2>3, <2>4, <2>5
<1> QED BY <1>1, <1>2, <1>3

LEMMA BothWrappedIntersection ==
  ASSUME NEW w, IsWidth(w), NEW r \in ConstantRanges(w), NEW s \in ConstantRanges(w), NEW pref,
         IsUpperWrapped(r), IsUpperWrapped(s)
  PROVE  /\ IntersectBothWrapped(r, s, pref) \in ConstantRanges(w)
         /\ \A v \in Word(w) : Contains(r, v) /\ Contains(s, v)
                               => Contains(IntersectBothWrapped(r, s, pref), v)
<1>1. IntersectBothWrapped(r, s, pref) \in ConstantRanges(w)
  BY RangeFields, WordFacts, ProperRange, PreferredIs
     DEF IntersectBothWrapped, IsUpperWrapped
<1>2. ASSUME NEW v \in Word(w), Contains(r, v) /\ Contains(s, v)
      PROVE  Contains(IntersectBothWrapped(r, s, pref), v)
  BY <1>2, RangeFields, WordFacts, PreferredIs
     DEF IntersectBothWrapped, Contains, IsFullSet, IsUpperWrapped, Between
<1> QED BY <1>1, <1>2

LEMMA MixedIntersection ==
  ASSUME NEW w, IsWidth(w), NEW r \in ConstantRanges(w), NEW s \in ConstantRanges(w), NEW pref,
         IsUpperWrapped(r), s.lower < s.upper
  PROVE  /\ IntersectWrappedWithUnwrapped(r, s, pref) \in ConstantRanges(w)
         /\ \A v \in Word(w) : Contains(r, v) /\ Contains(s, v)
                               => Contains(IntersectWrappedWithUnwrapped(r, s, pref), v)
<1>1. IntersectWrappedWithUnwrapped(r, s, pref) \in ConstantRanges(w)
  BY RangeFields, WordFacts, ProperRange, TrivialRanges, PreferredIs
     DEF IntersectWrappedWithUnwrapped, IsUpperWrapped
<1>2. ASSUME NEW v \in Word(w), Contains(r, v) /\ Contains(s, v)
      PROVE  Contains(IntersectWrappedWithUnwrapped(r, s, pref), v)
  BY <1>2, RangeFields, WordFacts, PreferredIs
     DEF IntersectWrappedWithUnwrapped, Contains, IsFullSet, IsUpperWrapped, EmptyRange, Between
<1> QED BY <1>1, <1>2

LEMMA BothUnwrappedIntersection ==
  ASSUME NEW w, IsWidth(w), NEW r \in ConstantRanges(w), NEW s \in ConstantRanges(w),
         r.lower < r.upper, s.lower < s.upper
  PROVE  /\ IntersectBothUnwrapped(r, s) \in ConstantRanges(w)
         /\ \A v \in Word(w) : Contains(r, v) /\ Contains(s, v)
                               => Contains(IntersectBothUnwrapped(r, s), v)
<1>1. IntersectBothUnwrapped(r, s) \in ConstantRanges(w)
  BY RangeFields, WordFacts, ProperRange, TrivialRanges DEF IntersectBothUnwrapped
<1>2. ASSUME NEW v \in Word(w), Contains(r, v) /\ Contains(s, v)
      PROVE  Contains(IntersectBothUnwrapped(r, s), v)
  BY <1>2, RangeFields, WordFacts
     DEF IntersectBothUnwrapped, Contains, IsFullSet, IsUpperWrapped, EmptyRange, Between
<1> QED BY <1>1, <1>2

\* An intersection contains what is in both ranges.
LEMMA IntersectionContains ==
  ASSUME NEW w, IsWidth(w), NEW r \in ConstantRanges(w), NEW s \in ConstantRanges(w), NEW pref
  PROVE  /\ IntersectWith(r, s, pref) \in ConstantRanges(w)
         /\ \A v \in Word(w) : Contains(r, v) /\ Contains(s, v) => Contains(IntersectWith(r, s, pref), v)
<1>1. CASE IsEmptySet(r) \/ IsFullSet(s)
  <2>1. IntersectWith(r, s, pref) = r
    BY <1>1 DEF IntersectWith
  <2> QED BY <1>1, <2>1, TrivialContents
<1>2. CASE ~(IsEmptySet(r) \/ IsFullSet(s)) /\ (IsEmptySet(s) \/ IsFullSet(r))
  <2>1. IntersectWith(r, s, pref) = s
    BY <1>2 DEF IntersectWith
  <2> QED BY <1>2, <2>1, TrivialContents
<1>3. CASE ~IsFullSet(r) /\ ~IsEmptySet(s) /\ ~IsFullSet(s) /\ ~IsEmptySet(r)
  <2>0. r.lower # r.upper /\ s.lower # s.upper
    BY <1>3, RangeFields DEF IsFullSet, IsEmptySet
  <2>1. /\ ~IsUpperWrapped(r) => r.lower < r.upper
        /\ ~IsUpperWrapped(s) => s.lower < s.upper
    BY <2>0, RangeFields, WordFacts DEF IsUpperWrapped
  <2>2. CASE IsUpperWrapped(r) /\ IsUpperWrapped(s)
    <3>1. IntersectWith(r, s, pref) = IntersectBothWrapped(r, s, pref)
      BY <1>3, <2>2 DEF IntersectWith
    <3> QED BY <2>2, <3>1, BothWrappedIntersection
  <2>3. CASE IsUpperWrapped(r) /\ ~IsUpperWrapped(s)
    <3>1. IntersectWith(r, s, pref) = IntersectWrappedWithUnwrapped(r, s, pref)
      BY <1>3, <2>3 DEF IntersectWith
    <3> QED BY <2>1, <2>3, <3>1, MixedIntersection
  <2>4. CASE ~IsUpperWrapped(r) /\ IsUpperWrapped(s)
    <3>1. IntersectWith(r, s, pref) = IntersectWrappedWithUnwrapped(s, r, pref)
      BY <1>3, <2>4 DEF IntersectWith
    <3> QED BY <2>1, <2>4, <3>1, MixedIntersection
  <2>5. CASE ~IsUpperWrapped(r) /\ ~IsUpperWrapped(s)
    <3>1. IntersectWith(r, s, pref) = IntersectBothUnwrapped(r, s)
      BY <1>3, <2>5 DEF IntersectWith
    <3> QED BY <2>1, <2>5, <3>1, BothUnwrappedIntersection
  <2> QED BY <2>2, <2>3, <2>4, <2>5
<1> QED BY <1>1, <1>2, <1>3

-----------------------------------------------------------------------------
(* Extreme values and single values.                                       *)

\* What a range contains lies between its extreme values, read as the type says.
LEMMA ExtremesBound ==
  ASSUME NEW w, IsWidth(w), NEW r \in ConstantRanges(w), NEW v \in Word(w), Contains(r, v)
  PROVE  /\ {UMinOf(r), UMaxOf(r), SMinOf(r), SMaxOf(r)} \subseteq Word(w)
         /\ UMinOf(r) <= v /\ v <= UMaxOf(r)
         /\ SVal(w, SMinOf(r)) <= SVal(w, v) /\ SVal(w, v) <= SVal(w, SMaxOf(r))
<1>1. /\ 1 <= r.upper => Cut(w, r.upper - 1) = r.upper - 1
      /\ r.upper = 0 => Cut(w, r.upper - 1) = UMaxValue(w)
      /\ UMaxValue(w) \in Word(w) /\ SMinValue(w) \in Word(w) /\ SMaxValue(w) \in Word(w) /\ 0 \in Word(w)
  BY RangeFields, WordFacts, CutFacts DEF UMaxValue, SMaxValue, Word
<1>2. UMinOf(r) \in Word(w) /\ UMinOf(r) <= v
  BY <1>1, RangeFields, WordFacts DEF Contains, IsFullSet, UMinOf, IsWrappedSet, IsUpperWrapped
<1>3. UMaxOf(r) \in Word(w) /\ v <= UMaxOf(r)
  BY <1>1, RangeFields, WordFacts, CutFacts DEF Contains, IsFullSet, UMaxOf, IsUpperWrapped, UMaxValue
<1>4. SMinOf(r) \in Word(w) /\ SVal(w, SMinOf(r)) <= SVal(w, v)
  BY <1>1, RangeFields, WordFacts
     DEF Contains, IsFullSet, SMinOf, IsSignWrappedSet, IsUpperSignWrapped, IsUpperWrapped, Slt, SVal, IsNeg
<1>5. SMaxOf(r) \in Word(w) /\ SVal(w, v) <= SVal(w, SMaxOf(r))
  BY <1>1, RangeFields, WordFacts, CutFacts
     DEF Contains, IsFullSet, SMaxOf, IsUpperSignWrapped, IsUpperWrapped, Slt, SVal, IsNeg, SMaxValue, UMaxValue
<1> QED BY <1>2, <1>3, <1>4, <1>5

\* A single value is the one the range contains.
LEMMA SingleContents ==
  ASSUME NEW w, IsWidth(w), NEW v \in Word(w)
  PROVE  /\ Single(w, v) \in ConstantRanges(w) /\ Contains(Single(w, v), v)
         /\ \A r \in ConstantRanges(w) : IsSingleElement(r) /\ Contains(r, v) => v = r.lower
<1>1. /\ v + 1 < Size(w) => Cut(w, v + 1) = v + 1
      /\ v + 1 = Size(w) => Cut(w, v + 1) = 0
      /\ Cut(w, v + 1) \in Word(w)
  BY WordFacts, CutFacts
<1>2. Single(w, v) \in ConstantRanges(w) /\ Contains(Single(w, v), v)
  BY <1>1, WordFacts, ProperRange DEF Single, Contains, IsUpperWrapped, Between
<1>3. ASSUME NEW r \in ConstantRanges(w), IsSingleElement(r), Contains(r, v)
      PROVE  v = r.lower
  <2>1. /\ r.lower + 1 < Size(w) => Cut(w, r.lower + 1) = r.lower + 1
        /\ r.lower + 1 = Size(w) => Cut(w, r.lower + 1) = 0
    BY RangeFields, WordFacts, CutFacts
  <2> QED BY <1>3, <2>1, RangeFields, WordFacts DEF IsSingleElement, Contains, IsUpperWrapped
<1> QED BY <1>2, <1>3

-----------------------------------------------------------------------------
(* Comparison.                                                             *)

LEMMA ReadingIs ==
  ASSUME NEW w, IsWidth(w), NEW u \in BOOLEAN, NEW v \in Word(w), NEW x \in Word(w)
  PROVE  /\ Val(w, u, v) \in Int
         /\ -SMinValue(w) <= Val(w, u, v) /\ Val(w, u, v) < Size(w)
         /\ Val(w, u, v) \in {v, v - Size(w)}
         /\ Val(w, u, v) = Val(w, u, x) <=> v = x
BY WordFacts DEF Val, SVal, IsNeg

LEMMA OrderingsAre ==
  ASSUME NEW x \in Int, NEW y \in Int
  PROVE  /\ Holds("LT", x, y) <=> x < y
         /\ Holds("LE", x, y) <=> x <= y
         /\ Holds("GT", x, y) <=> x > y
         /\ Holds("GE", x, y) <=> x >= y
         /\ \A rel \in Orderings : Holds(rel, x, y) \in BOOLEAN
<1>1. /\ Holds("LT", x, y) <=> x < y
      /\ Holds("LE", x, y) <=> x <= y
      /\ Holds("GT", x, y) <=> x > y
      /\ Holds("GE", x, y) <=> x >= y
  BY DEF Holds
<1>2. /\ Holds("LT", x, y) \in BOOLEAN /\ Holds("LE", x, y) \in BOOLEAN
      /\ Holds("GT", x, y) \in BOOLEAN /\ Holds("GE", x, y) \in BOOLEAN
  BY DEF Holds
<1> QED BY <1>1, <1>2 DEF Orderings

\* Neg gives the ordering that holds when the given one does not.
LEMMA NegRelNegates ==
  ASSUME NEW rel \in Orderings, NEW x \in Int, NEW y \in Int
  PROVE  NegRel(rel) \in Orderings /\ (Holds(NegRel(rel), x, y) <=> ~Holds(rel, x, y))
<1>1. CASE rel = "LT"
  BY <1>1, OrderingsAre DEF NegRel, Orderings
<1>2. CASE rel = "LE"
  BY <1>2, OrderingsAre DEF NegRel, Orderings
<1>3. CASE rel = "GT"
  BY <1>3, OrderingsAre DEF NegRel, Orderings
<1>4. CASE rel = "GE"
  BY <1>4, OrderingsAre DEF NegRel, Orderings
<1> QED BY <1>1, <1>2, <1>3, <1>4 DEF Orderings

\* A true ordering of the extreme values is one of all values.
LEMMA OrderingSpreads ==
  ASSUME NEW rel \in Orderings, NEW x \in Int, NEW y \in Int,
         NEW lx \in Int, NEW gx \in Int, NEW ly \in Int, NEW gy \in Int,
         lx <= x, x <= gx, ly <= y, y <= gy,
         IF rel \in {"LT", "LE"} THEN Holds(rel, gx, ly) ELSE Holds(rel, lx, gy)
  PROVE  Holds(rel, x, y)
<1>1. CASE rel = "LT"
  BY <1>1, OrderingsAre
<1>2. CASE rel = "LE"
  BY <1>2, OrderingsAre
<1>3. CASE rel = "GT"
  BY <1>3, OrderingsAre
<1>4. CASE rel = "GE"
  BY <1>4, OrderingsAre
<1> QED BY <1>1, <1>2, <1>3, <1>4 DEF Orderings

\* What PartialCompare finds true of the extreme values is true of all.
LEMMA PartialSound ==
  ASSUME NEW w, IsWidth(w), NEW u \in BOOLEAN, NEW rel \in Orderings,
         NEW r \in ConstantRanges(w), NEW a \in Word(w), Contains(r, a),
         NEW s \in ConstantRanges(w), NEW b \in Word(w), Contains(s, b),
         PartialCompare(rel, r, s, u)
  PROVE  Holds(rel, Val(w, u, a), Val(w, u, b))
<1>0. r.width = w /\ s.width = w
  BY RangeFields
<1>1. CASE u
  <2>1. /\ a \in Int /\ b \in Int
        /\ UMinOf(r) \in Int /\ UMaxOf(r) \in Int /\ UMinOf(s) \in Int /\ UMaxOf(s) \in Int
        /\ UMinOf(r) <= a /\ a <= UMaxOf(r) /\ UMinOf(s) <= b /\ b <= UMaxOf(s)
    BY ExtremesBound, WordFacts
  <2>2. IF rel \in {"LT", "LE"} THEN Holds(rel, UMaxOf(r), UMinOf(s)) ELSE Holds(rel, UMinOf(r), UMaxOf(s))
    BY <1>0, <1>1 DEF PartialCompare, Val
  <2>3. Holds(rel, a, b)
    BY <2>1, <2>2, OrderingSpreads
  <2> QED BY <1>1, <2>3 DEF Val
<1>2. CASE ~u
  <2>1. /\ SVal(w, SMinOf(r)) \in Int /\ SVal(w, SMaxOf(r)) \in Int
        /\ SVal(w, SMinOf(s)) \in Int /\ SVal(w, SMaxOf(s)) \in Int
        /\ SVal(w, a) \in Int /\ SVal(w, b) \in Int
    BY ExtremesBound, WordFacts DEF SVal
  <2>2. /\ SVal(w, SMinOf(r)) <= SVal(w, a) /\ SVal(w, a) <= SVal(w, SMaxOf(r))
        /\ SVal(w, SMinOf(s)) <= SVal(w, b) /\ SVal(w, b) <= SVal(w, SMaxOf(s))
    BY ExtremesBound
  <2>3. IF rel \in {"LT", "LE"} THEN Holds(rel, SVal(w, SMaxOf(r)), SVal(w, SMinOf(s)))
                                ELSE Holds(rel, SVal(w, SMinOf(r)), SVal(w, SMaxOf(s)))
    BY <1>0, <1>2 DEF PartialCompare, Val
  <2>4. Holds(rel, SVal(w, a), SVal(w, b))
    BY <2>1, <2>2, <2>3, OrderingSpreads
  <2> QED BY <1>2, <2>4 DEF Val
<1> QED BY <1>1, <1>2

LEMMA CompareSound ==
  ASSUME NEW w, IsWidth(w), NEW u \in BOOLEAN, NEW rel \in Orderings,
         NEW r \in ConstantRanges(w), NEW a \in Word(w), Contains(r, a),
         NEW s \in ConstantRanges(w), NEW b \in Word(w), Contains(s, b)
  PROVE  Compare(rel, r, s, u) \subseteq {Holds(rel, Val(w, u, a), Val(w, u, b))}
<1>2. Val(w, u, a) \in Int /\ Val(w, u, b) \in Int
  BY ReadingIs
<1>3. /\ NegRel(rel) \in Orderings
      /\ Holds(NegRel(rel), Val(w, u, a), Val(w, u, b)) <=> ~Holds(rel, Val(w, u, a), Val(w, u, b))
      /\ Holds(rel, Val(w, u, a), Val(w, u, b)) \in BOOLEAN
  BY <1>2, OrderingsAre, NegRelNegates
<1>4. PartialCompare(rel, r, s, u) => Holds(rel, Val(w, u, a), Val(w, u, b))
  BY PartialSound
<1>5. CASE PartialCompare(rel, r, s, u)
  BY <1>3, <1>4, <1>5 DEF Compare
<1>6. CASE ~PartialCompare(rel, r, s, u) /\ PartialCompare(NegRel(rel), r, s, u)
  BY <1>3, <1>6, PartialSound DEF Compare
<1>7. CASE ~PartialCompare(rel, r, s, u) /\ ~PartialCompare(NegRel(rel), r, s, u)
  BY <1>7 DEF Compare
<1> QED BY <1>5, <1>6, <1>7

LEMMA EqualitySound ==
  ASSUME NEW w, IsWidth(w), NEW u \in BOOLEAN, NEW rel \in Equalities, NEW pref,
         NEW r \in ConstantRanges(w), NEW a \in Word(w), Contains(r, a),
         NEW s \in ConstantRanges(w), NEW b \in Word(w), Contains(s, b)
  PROVE  CompareEquality(rel, r, s, pref) \subseteq {Holds(rel, Val(w, u, a), Val(w, u, b))}
<1>1. Holds(rel, Val(w, u, a), Val(w, u, b)) = Holds(rel, a, b)
  BY ReadingIs DEF Equalities, Holds
<1>2. CASE IsSingleElement(r) /\ IsSingleElement(s)
  <2>1. a = r.lower /\ b = s.lower
    BY <1>2, SingleContents
  <2> QED BY <1>1, <1>2, <2>1 DEF CompareEquality
<1>3. CASE ~(IsSingleElement(r) /\ IsSingleElement(s)) /\ IsEmptySet(IntersectWith(r, s, pref))
  <2>1. a # b
    <3>1. SUFFICES ASSUME a = b PROVE FALSE
      OBVIOUS
    <3>2. Contains(IntersectWith(r, s, pref), a) /\ IntersectWith(r, s, pref) \in ConstantRanges(w)
      BY <3>1, IntersectionContains
    <3> QED BY <1>3, <3>2, TrivialContents
  <2>2. Holds(rel, a, b) = (rel = "NOTEQUAL")
    BY <2>1 DEF Equalities, Holds
  <2> QED BY <1>1, <1>3, <2>2 DEF CompareEquality
<1>4. CASE ~(IsSingleElement(r) /\ IsSingleElement(s)) /\ ~IsEmptySet(IntersectWith(r, s, pref))
  BY <1>4 DEF CompareEquality
<1> QED BY <1>2, <1>3, <1>4

\* The first source that answers says no more than all of them.
LEMMA FirstDecidedSound ==
  ASSUME NEW x, NEW S, x \subseteq S
  PROVE  FirstDecided(<<x, {}, {}, {}>>) \subseteq S
BY DEF FirstDecided

\* Domains without symbolic bounds are compared by their ranges.
LEMMA AnswerSound ==
  ASSUME NEW w, IsWidth(w), NEW u \in BOOLEAN, NEW rel \in Equalities \cup Orderings, NEW f, NEW g,
         NEW r \in ConstantRanges(w), NEW a \in Word(w), Contains(r, a),
         NEW s \in ConstantRanges(w), NEW b \in Word(w), Contains(s, b), NEW m, NEW n, m # n
  PROVE  ComputeRelIntBinop(rel, u, m, Domain(r, NoBounds, f), n, Domain(s, NoBounds, g))
            \subseteq {Holds(rel, Val(w, u, a), Val(w, u, b))}
<1> DEFINE ad == Domain(r, NoBounds, f)
           bd == Domain(s, NoBounds, g)
<1>1. /\ ad.numeric = r /\ bd.numeric = s /\ ad.unsignedFlag = f
      /\ DOMAIN ad.symbolics = {} /\ DOMAIN bd.symbolics = {}
  BY DEF Domain, NoBounds
<1>2. CASE rel \in Equalities
  <2>1. CompareEquality(rel, r, s, Prefer(f)) \subseteq {Holds(rel, Val(w, u, a), Val(w, u, b))}
    BY <1>2, EqualitySound
  <2>2. \/ ComputeRelIntBinop(rel, u, m, ad, n, bd) = {}
        \/ ComputeRelIntBinop(rel, u, m, ad, n, bd)
             = FirstDecided(<<CompareEquality(rel, r, s, Prefer(f)), {}, {}, {}>>)
    BY <1>1, <1>2 DEF ComputeRelIntBinop
  <2> QED BY <2>1, <2>2, FirstDecidedSound
<1>3. CASE rel \notin Equalities
  <2>1. Compare(rel, r, s, u) \subseteq {Holds(rel, Val(w, u, a), Val(w, u, b))}
    BY <1>3, CompareSound
  <2>2. \/ ComputeRelIntBinop(rel, u, m, ad, n, bd) = {}
        \/ ComputeRelIntBinop(rel, u, m, ad, n, bd)
             = FirstDecided(<<Compare(rel, r, s, u), {}, {}, {}>>)
    BY <1>1, <1>3 DEF ComputeRelIntBinop
  <2> QED BY <2>1, <2>2, FirstDecidedSound
<1> QED BY <1>2, <1>3

-----------------------------------------------------------------------------
(* Sums and differences that wrap.                                         *)

\* A word lies in a range when it is closer to the lower bound than the upper one is.
LEMMA Offset ==
  ASSUME NEW w, IsWidth(w), NEW r \in ConstantRanges(w), r.lower # r.upper, NEW v \in Word(w)
  PROVE  Contains(r, v) <=> Cut(w, v - r.lower) < Cut(w, r.upper - r.lower)
<1>1. /\ Cut(w, v - r.lower) = IF r.lower <= v THEN v - r.lower ELSE v - r.lower + Size(w)
      /\ Cut(w, r.upper - r.lower) = IF r.lower <= r.upper THEN r.upper - r.lower
                                     ELSE r.upper - r.lower + Size(w)
  BY RangeFields, WordFacts, CutFacts
<1> QED BY <1>1, RangeFields, WordFacts DEF Contains, IsUpperWrapped

\* The difference of two words is at most one turn away from a word.
LEMMA Apart ==
  ASSUME NEW w, IsWidth(w), NEW x \in Word(w), NEW y \in Word(w)
  PROVE  /\ Cut(w, x - y) \in Int /\ 0 <= Cut(w, x - y) /\ Cut(w, x - y) < Size(w)
         /\ Cut(w, x - y) = x - y \/ Cut(w, x - y) = x - y + Size(w)
BY WordFacts, CutFacts

\* Lengths and offsets of intervals that may turn around once, in integers.
LEMMA SumOfLengths ==
  ASSUME NEW N \in Int, 2 <= N,
         NEW l1 \in Int, NEW u1 \in Int, NEW n1 \in Int, n1 = u1 - l1 \/ n1 = u1 - l1 + N, 0 <= n1, n1 < N,
         NEW l2 \in Int, NEW u2 \in Int, NEW n2 \in Int, n2 = u2 - l2 \/ n2 = u2 - l2 + N, 0 <= n2, n2 < N,
         NEW l \in Int, l = l1 + l2 \/ l = l1 + l2 - N,
         NEW u \in Int, u = u1 + u2 - 1 \/ u = u1 + u2 - 1 - N \/ u = u1 + u2 - 1 + N,
         NEW n \in Int, n = u - l \/ n = u - l + N, 0 <= n, n < N, n >= n1, n >= n2,
         0 < n1, 0 < n2
  PROVE  n = n1 + n2 - 1
OBVIOUS

LEMMA SumOfOffsets ==
  ASSUME NEW N \in Int, 2 <= N,
         NEW l1 \in Int, NEW a \in Int, NEW o1 \in Int, o1 = a - l1 \/ o1 = a - l1 + N, 0 <= o1,
         NEW l2 \in Int, NEW b \in Int, NEW o2 \in Int, o2 = b - l2 \/ o2 = b - l2 + N, 0 <= o2,
         NEW l \in Int, l = l1 + l2 \/ l = l1 + l2 - N,
         NEW c \in Int, c = a + b \/ c = a + b - N,
         NEW o \in Int, o = c - l \/ o = c - l + N, 0 <= o, o < N, o1 + o2 < N
  PROVE  o = o1 + o2
OBVIOUS

\* Two lengths whose wrapped sum is no shorter than both did not wrap.
LEMMA SumStaysInside ==
  ASSUME NEW w, IsWidth(w),
         NEW l1 \in Word(w), NEW u1 \in Word(w), NEW a \in Word(w), Cut(w, a - l1) < Cut(w, u1 - l1),
         NEW l2 \in Word(w), NEW u2 \in Word(w), NEW b \in Word(w), Cut(w, b - l2) < Cut(w, u2 - l2),
         NEW lower, lower = Cut(w, l1 + l2), NEW upper, upper = Cut(w, u1 + u2 - 1),
         Cut(w, upper - lower) >= Cut(w, u1 - l1), Cut(w, upper - lower) >= Cut(w, u2 - l2)
  PROVE  Cut(w, Cut(w, a + b) - lower) < Cut(w, upper - lower)
<1> DEFINE N == Size(w)
           n1 == Cut(w, u1 - l1)
           n2 == Cut(w, u2 - l2)
           n == Cut(w, upper - lower)
           o1 == Cut(w, a - l1)
           o2 == Cut(w, b - l2)
           c == Cut(w, a + b)
           o == Cut(w, c - lower)
<1>1. /\ lower \in Word(w) /\ (lower = l1 + l2 \/ lower = l1 + l2 - N)
      /\ c \in Word(w) /\ (c = a + b \/ c = a + b - N)
      /\ upper \in Word(w)
      /\ upper = u1 + u2 - 1 \/ upper = u1 + u2 - 1 - N \/ upper = u1 + u2 - 1 + N
  BY WordFacts, CutFacts
<1>2. /\ n1 \in Int /\ n1 < N /\ (n1 = u1 - l1 \/ n1 = u1 - l1 + N)
      /\ n2 \in Int /\ n2 < N /\ (n2 = u2 - l2 \/ n2 = u2 - l2 + N)
      /\ o1 \in Int /\ 0 <= o1 /\ (o1 = a - l1 \/ o1 = a - l1 + N)
      /\ o2 \in Int /\ 0 <= o2 /\ (o2 = b - l2 \/ o2 = b - l2 + N)
  BY Apart
<1>3. /\ n \in Int /\ 0 <= n /\ n < N /\ (n = upper - lower \/ n = upper - lower + N)
      /\ o \in Int /\ 0 <= o /\ o < N /\ (o = c - lower \/ o = c - lower + N)
  BY <1>1, Apart
<1>4. o1 < n1 /\ o2 < n2 /\ n >= n1 /\ n >= n2
  OBVIOUS
<1> HIDE DEF n1, n2, n, o1, o2, c, o
<1>5. n = n1 + n2 - 1
  BY <1>1, <1>2, <1>3, <1>4, WordFacts, SumOfLengths
<1>6. o1 + o2 < N
  BY <1>2, <1>3, <1>5, <1>4, WordFacts
<1>7. o = o1 + o2
  BY <1>1, <1>2, <1>3, <1>6, WordFacts, SumOfOffsets
<1> QED BY <1>2, <1>5, <1>7, <1>4 DEF n1, n2, n, o1, o2, c, o

LEMMA AddContains ==
  ASSUME NEW w, IsWidth(w), NEW r \in ConstantRanges(w), NEW s \in ConstantRanges(w),
         NEW a \in Word(w), NEW b \in Word(w), Contains(r, a), Contains(s, b)
  PROVE  Add(r, s) \in ConstantRanges(w) /\ Contains(Add(r, s), Cut(w, a + b))
<1> DEFINE lower == Cut(w, r.lower + s.lower)
           upper == Cut(w, r.upper + s.upper - 1)
           res == Between(w, lower, upper)
<1>0. /\ ~IsEmptySet(r) /\ ~IsEmptySet(s) /\ r.width = w /\ s.width = w
      /\ FullRange(w) \in ConstantRanges(w) /\ \A v : Contains(FullRange(w), v)
  BY RangeFields, TrivialRanges, TrivialContents
<1>1. CASE IsFullSet(r) \/ IsFullSet(s)
  BY <1>0, <1>1 DEF Add
<1>2. CASE ~IsFullSet(r) /\ ~IsFullSet(s)
  <2>1. r.lower # r.upper /\ s.lower # s.upper
    BY <1>0, <1>2, RangeFields DEF IsFullSet, IsEmptySet
  <2>2. Add(r, s) = Around(r, s, lower, upper)
    BY <1>0, <1>2 DEF Add
  <2>3. CASE lower = upper \/ IsSizeStrictlySmallerThan(res, r) \/ IsSizeStrictlySmallerThan(res, s)
    BY <1>0, <2>2, <2>3 DEF Around
  <2>4. CASE /\ lower # upper
             /\ ~IsSizeStrictlySmallerThan(res, r) /\ ~IsSizeStrictlySmallerThan(res, s)
    <3>1. lower \in Word(w) /\ upper \in Word(w) /\ Cut(w, a + b) \in Word(w)
      BY RangeFields, WordFacts, CutFacts
    <3>2. res \in ConstantRanges(w) /\ res.lower = lower /\ res.upper = upper /\ Add(r, s) = res
      BY <1>0, <2>2, <2>4, <3>1, ProperRange DEF Between, Around
    <3>3. /\ Cut(w, upper - lower) >= Cut(w, r.upper - r.lower)
          /\ Cut(w, upper - lower) >= Cut(w, s.upper - s.lower)
      <4>1. ~IsFullSet(res)
        BY <2>4, <3>2 DEF IsFullSet
      <4>2. /\ ~(Cut(w, upper - lower) < Cut(w, r.upper - r.lower))
            /\ ~(Cut(w, upper - lower) < Cut(w, s.upper - s.lower))
        BY <1>0, <2>4, <3>2, <4>1 DEF IsSizeStrictlySmallerThan, Between
      <4> QED BY <3>1, <4>2, RangeFields, WordFacts, CutFacts
    <3>4. /\ Cut(w, a - r.lower) < Cut(w, r.upper - r.lower)
          /\ Cut(w, b - s.lower) < Cut(w, s.upper - s.lower)
      BY <2>1, Offset
    <3>5. Cut(w, Cut(w, a + b) - lower) < Cut(w, upper - lower)
      BY <3>1, <3>3, <3>4, RangeFields, SumStaysInside
    <3> QED BY <2>4, <3>1, <3>2, <3>5, Offset
  <2> QED BY <2>3, <2>4
<1> QED BY <1>1, <1>2

\* The same for a difference: the offset of b is taken from the end.
LEMMA DifferenceOfLengths ==
  ASSUME NEW N \in Int, 2 <= N,
         NEW l1 \in Int, NEW u1 \in Int, NEW n1 \in Int, n1 = u1 - l1 \/ n1 = u1 - l1 + N, 0 <= n1, n1 < N,
         NEW l2 \in Int, NEW u2 \in Int, NEW n2 \in Int, n2 = u2 - l2 \/ n2 = u2 - l2 + N, 0 <= n2, n2 < N,
         NEW l \in Int, l = l1 - u2 + 1 \/ l = l1 - u2 + 1 - N \/ l = l1 - u2 + 1 + N,
         NEW u \in Int, u = u1 - l2 \/ u = u1 - l2 + N,
         NEW n \in Int, n = u - l \/ n = u - l + N, 0 <= n, n < N, n >= n1, n >= n2,
         0 < n1, 0 < n2
  PROVE  n = n1 + n2 - 1
OBVIOUS

LEMMA DifferenceOfOffsets ==
  ASSUME NEW N \in Int, 2 <= N,
         NEW l1 \in Int, NEW a \in Int, NEW o1 \in Int, o1 = a - l1 \/ o1 = a - l1 + N, 0 <= o1,
         NEW l2 \in Int, NEW b \in Int, NEW o2 \in Int, o2 = b - l2 \/ o2 = b - l2 + N, 0 <= o2,
         NEW u2 \in Int, NEW n2 \in Int, n2 = u2 - l2 \/ n2 = u2 - l2 + N, o2 < n2,
         NEW l \in Int, l = l1 - u2 + 1 \/ l = l1 - u2 + 1 - N \/ l = l1 - u2 + 1 + N,
         NEW c \in Int, c = a - b \/ c = a - b + N,
         NEW o \in Int, o = c - l \/ o = c - l + N, 0 <= o, o < N, o1 + n2 - 1 - o2 < N
  PROVE  o = o1 + n2 - 1 - o2
OBVIOUS

LEMMA DifferenceStaysInside ==
  ASSUME NEW w, IsWidth(w),
         NEW l1 \in Word(w), NEW u1 \in Word(w), NEW a \in Word(w), Cut(w, a - l1) < Cut(w, u1 - l1),
         NEW l2 \in Word(w), NEW u2 \in Word(w), NEW b \in Word(w), Cut(w, b - l2) < Cut(w, u2 - l2),
         NEW lower, lower = Cut(w, l1 - u2 + 1), NEW upper, upper = Cut(w, u1 - l2),
         Cut(w, upper - lower) >= Cut(w, u1 - l1), Cut(w, upper - lower) >= Cut(w, u2 - l2)
  PROVE  Cut(w, Cut(w, a - b) - lower) < Cut(w, upper - lower)
<1> DEFINE N == Size(w)
           n1 == Cut(w, u1 - l1)
           n2 == Cut(w, u2 - l2)
           n == Cut(w, upper - lower)
           o1 == Cut(w, a - l1)
           o2 == Cut(w, b - l2)
           c == Cut(w, a - b)
           o == Cut(w, c - lower)
<1>1. /\ lower \in Word(w)
      /\ lower = l1 - u2 + 1 \/ lower = l1 - u2 + 1 - N \/ lower = l1 - u2 + 1 + N
      /\ c \in Word(w) /\ (c = a - b \/ c = a - b + N)
      /\ upper \in Word(w) /\ (upper = u1 - l2 \/ upper = u1 - l2 + N)
  BY WordFacts, CutFacts
<1>2. /\ n1 \in Int /\ n1 < N /\ (n1 = u1 - l1 \/ n1 = u1 - l1 + N)
      /\ n2 \in Int /\ n2 < N /\ (n2 = u2 - l2 \/ n2 = u2 - l2 + N)
      /\ o1 \in Int /\ 0 <= o1 /\ (o1 = a - l1 \/ o1 = a - l1 + N)
      /\ o2 \in Int /\ 0 <= o2 /\ (o2 = b - l2 \/ o2 = b - l2 + N)
  BY Apart
<1>3. /\ n \in Int /\ 0 <= n /\ n < N /\ (n = upper - lower \/ n = upper - lower + N)
      /\ o \in Int /\ 0 <= o /\ o < N /\ (o = c - lower \/ o = c - lower + N)
  BY <1>1, Apart
<1>4. o1 < n1 /\ o2 < n2 /\ n >= n1 /\ n >= n2
  OBVIOUS
<1> HIDE DEF n1, n2, n, o1, o2, c, o
<1>5. n = n1 + n2 - 1
  BY <1>1, <1>2, <1>3, <1>4, WordFacts, DifferenceOfLengths
<1>6. o1 + n2 - 1 - o2 < N
  BY <1>2, <1>3, <1>5, <1>4, WordFacts
<1>7. o = o1 + n2 - 1 - o2
  BY <1>1, <1>2, <1>3, <1>4, <1>6, WordFacts, DifferenceOfOffsets
<1> QED BY <1>2, <1>5, <1>7, <1>4 DEF n1, n2, n, o1, o2, c, o

LEMMA SubContains ==
  ASSUME NEW w, IsWidth(w), NEW r \in ConstantRanges(w), NEW s \in ConstantRanges(w),
         NEW a \in Word(w), NEW b \in Word(w), Contains(r, a), Contains(s, b)
  PROVE  Sub(r, s) \in ConstantRanges(w) /\ Contains(Sub(r, s), Cut(w, a - b))
<1> DEFINE lower == Cut(w, r.lower - s.upper + 1)
           upper == Cut(w, r.upper - s.lower)
           res == Between(w, lower, upper)
<1>0. /\ ~IsEmptySet(r) /\ ~IsEmptySet(s) /\ r.width = w /\ s.width = w
      /\ FullRange(w) \in ConstantRanges(w) /\ \A v : Contains(FullRange(w), v)
  BY RangeFields, TrivialRanges, TrivialContents
<1>1. CASE IsFullSet(r) \/ IsFullSet(s)
  BY <1>0, <1>1 DEF Sub
<1>2. CASE ~IsFullSet(r) /\ ~IsFullSet(s)
  <2>1. r.lower # r.upper /\ s.lower # s.upper
    BY <1>0, <1>2, RangeFields DEF IsFullSet, IsEmptySet
  <2>2. Sub(r, s) = Around(r, s, lower, upper)
    BY <1>0, <1>2 DEF Sub
  <2>3. CASE lower = upper \/ IsSizeStrictlySmallerThan(res, r) \/ IsSizeStrictlySmallerThan(res, s)
    BY <1>0, <2>2, <2>3 DEF Around
  <2>4. CASE /\ lower # upper
             /\ ~IsSizeStrictlySmallerThan(res, r) /\ ~IsSizeStrictlySmallerThan(res, s)
    <3>1. lower \in Word(w) /\ upper \in Word(w) /\ Cut(w, a - b) \in Word(w)
      BY RangeFields, WordFacts, CutFacts
    <3>2. res \in ConstantRanges(w) /\ res.lower = lower /\ res.upper = upper /\ Sub(r, s) = res
      BY <1>0, <2>2, <2>4, <3>1, ProperRange DEF Between, Around
    <3>3. /\ Cut(w, upper - lower) >= Cut(w, r.upper - r.lower)
          /\ Cut(w, upper - lower) >= Cut(w, s.upper - s.lower)
      <4>1. ~IsFullSet(res)
        BY <2>4, <3>2 DEF IsFullSet
      <4>2. /\ ~(Cut(w, upper - lower) < Cut(w, r.upper - r.lower))
            /\ ~(Cut(w, upper - lower) < Cut(w, s.upper - s.lower))
        BY <1>0, <2>4, <3>2, <4>1 DEF IsSizeStrictlySmallerThan, Between
      <4> QED BY <3>1, <4>2, RangeFields, WordFacts, CutFacts
    <3>4. /\ Cut(w, a - r.lower) < Cut(w, r.upper - r.lower)
          /\ Cut(w, b - s.lower) < Cut(w, s.upper - s.lower)
      BY <2>1, Offset
    <3>5. Cut(w, Cut(w, a - b) - lower) < Cut(w, upper - lower)
      BY <3>1, <3>3, <3>4, RangeFields, DifferenceStaysInside
    <3> QED BY <2>4, <3>1, <3>2, <3>5, Offset
  <2> QED BY <2>3, <2>4
<1> QED BY <1>1, <1>2

-----------------------------------------------------------------------------
(* Sums and differences that stop at the bounds of the type.               *)

Clamp(lo, hi, i) == IF i < lo THEN lo ELSE IF i > hi THEN hi ELSE i
ClampTo(w, u, i) == Clamp(MinOf(w, u), MaxOf(w, u), i)

LEMMA ClampFacts ==
  ASSUME NEW w, IsWidth(w), NEW u \in BOOLEAN
  PROVE  /\ MinOf(w, u) \in Int /\ MaxOf(w, u) \in Int
         /\ \A i \in Int : ClampTo(w, u, i) \in Int
         /\ \A i \in Int, j \in Int : i <= j => ClampTo(w, u, i) <= ClampTo(w, u, j)
<1>1. MinOf(w, u) \in Int /\ MaxOf(w, u) \in Int /\ MinOf(w, u) <= MaxOf(w, u)
  BY DEF MinOf, MaxOf, UMaxValue, SMaxValue, IsWidth, SMinValue
<1> QED BY <1>1 DEF ClampTo, Clamp

\* The extreme words and their readings.
LEMMA BoundsAre ==
  ASSUME NEW w, IsWidth(w)
  PROVE  /\ UMaxValue(w) \in Word(w) /\ SMinValue(w) \in Word(w) /\ SMaxValue(w) \in Word(w) /\ 0 \in Word(w)
         /\ MinOf(w, TRUE) = 0 /\ MaxOf(w, TRUE) = Size(w) - 1
         /\ MinOf(w, FALSE) = -SMinValue(w) /\ MaxOf(w, FALSE) = SMinValue(w) - 1
BY DEF UMaxValue, SMinValue, SMaxValue, Word, IsWidth, MinOf, MaxOf

\* The saturating operations compute the exact result, cut off at the bounds.
LEMMA UnsignedSumIs ==
  ASSUME NEW w, IsWidth(w), NEW a \in Word(w), NEW b \in Word(w)
  PROVE  UAddSatOf(w, a, b) \in Word(w) /\ Val(w, TRUE, UAddSatOf(w, a, b)) = ClampTo(w, TRUE, a + b)
<1>1. /\ Cut(w, a + b) \in Word(w)
      /\ a + b < Size(w) => Cut(w, a + b) = a + b
      /\ a + b >= Size(w) => Cut(w, a + b) = a + b - Size(w)
  BY WordFacts, CutFacts
<1>2. /\ UAddOvf(w, a, b).res = Cut(w, a + b)
      /\ UAddOvf(w, a, b).overflow <=> Cut(w, a + b) < b
  BY DEF UAddOvf
<1>3. UAddSatOf(w, a, b) = IF Cut(w, a + b) < b
                             THEN UMaxValue(w) ELSE Cut(w, a + b)
  BY <1>2 DEF UAddSatOf, Unless
<1>4. ClampTo(w, TRUE, a + b) =
        IF a + b < 0 THEN 0
        ELSE IF a + b > Size(w) - 1 THEN Size(w) - 1 ELSE a + b
  BY BoundsAre DEF ClampTo, Clamp
<1>5. UAddSatOf(w, a, b) \in Word(w)
  BY BoundsAre, <1>1, <1>3
<1>6. UAddSatOf(w, a, b) =
        IF a + b < 0 THEN 0
        ELSE IF a + b > Size(w) - 1 THEN Size(w) - 1 ELSE a + b
  BY <1>1, <1>3, WordFacts DEF UMaxValue
<1>7. Val(w, TRUE, UAddSatOf(w, a, b)) = UAddSatOf(w, a, b)
  BY DEF Val
<1> QED BY <1>4, <1>5, <1>6, <1>7

LEMMA UnsignedDifferenceIs ==
  ASSUME NEW w, IsWidth(w), NEW a \in Word(w), NEW b \in Word(w)
  PROVE  USubSatOf(w, a, b) \in Word(w) /\ Val(w, TRUE, USubSatOf(w, a, b)) = ClampTo(w, TRUE, a - b)
<1>1. /\ Cut(w, a - b) \in Word(w)
      /\ a >= b => Cut(w, a - b) = a - b
      /\ a < b => Cut(w, a - b) = a - b + Size(w)
  BY WordFacts, CutFacts
<1>2. /\ USubOvf(w, a, b).res = Cut(w, a - b)
      /\ USubOvf(w, a, b).overflow <=> Cut(w, a - b) > a
  BY DEF USubOvf
<1>3. USubSatOf(w, a, b) = IF Cut(w, a - b) > a
                             THEN 0 ELSE Cut(w, a - b)
  BY <1>2 DEF USubSatOf, Unless
<1>4. ClampTo(w, TRUE, a - b) =
        IF a - b < 0 THEN 0
        ELSE IF a - b > Size(w) - 1 THEN Size(w) - 1 ELSE a - b
  BY BoundsAre DEF ClampTo, Clamp
<1>5. USubSatOf(w, a, b) \in Word(w)
  BY BoundsAre, <1>1, <1>3
<1>6. USubSatOf(w, a, b) =
        IF a - b < 0 THEN 0
        ELSE IF a - b > Size(w) - 1 THEN Size(w) - 1 ELSE a - b
  BY <1>1, <1>3, WordFacts DEF UMaxValue
<1>7. Val(w, TRUE, USubSatOf(w, a, b)) = USubSatOf(w, a, b)
  BY DEF Val
<1> QED BY <1>4, <1>5, <1>6, <1>7

LEMMA SignedSumIs ==
  ASSUME NEW w, IsWidth(w), NEW a \in Word(w), NEW b \in Word(w)
  PROVE  SAddSatOf(w, a, b) \in Word(w) /\ Val(w, FALSE, SAddSatOf(w, a, b)) = ClampTo(w, FALSE, SVal(w, a) + SVal(w, b))
<1>1. /\ Cut(w, a + b) \in Word(w)
      /\ a + b < Size(w) => Cut(w, a + b) = a + b
      /\ a + b >= Size(w) => Cut(w, a + b) = a + b - Size(w)
  BY WordFacts, CutFacts
<1>2. /\ SAddOvf(w, a, b).res = Cut(w, a + b)
      /\ SAddOvf(w, a, b).overflow <=> IsNeg(w, a) = IsNeg(w, b) /\ IsNeg(w, Cut(w, a + b)) # IsNeg(w, a)
  BY DEF SAddOvf
<1>3. SAddSatOf(w, a, b) = IF IsNeg(w, a) = IsNeg(w, b) /\ IsNeg(w, Cut(w, a + b)) # IsNeg(w, a)
                             THEN (IF IsNeg(w, a) THEN SMinValue(w) ELSE SMaxValue(w)) ELSE Cut(w, a + b)
  BY <1>2 DEF SAddSatOf, Unless
<1>4. ClampTo(w, FALSE, SVal(w, a) + SVal(w, b)) =
        IF SVal(w, a) + SVal(w, b) < -SMinValue(w) THEN -SMinValue(w)
        ELSE IF SVal(w, a) + SVal(w, b) > SMinValue(w) - 1 THEN SMinValue(w) - 1 ELSE SVal(w, a) + SVal(w, b)
  BY BoundsAre DEF ClampTo, Clamp
<1>5. SAddSatOf(w, a, b) \in Word(w)
  BY BoundsAre, <1>1, <1>3
<1>6. SVal(w, SAddSatOf(w, a, b)) =
        IF SVal(w, a) + SVal(w, b) < -SMinValue(w) THEN -SMinValue(w)
        ELSE IF SVal(w, a) + SVal(w, b) > SMinValue(w) - 1 THEN SMinValue(w) - 1 ELSE SVal(w, a) + SVal(w, b)
  BY <1>1, <1>3, WordFacts DEF SMaxValue, SVal, IsNeg
<1>7. Val(w, FALSE, SAddSatOf(w, a, b)) = SVal(w, SAddSatOf(w, a, b))
  BY DEF Val
<1> QED BY <1>4, <1>5, <1>6, <1>7

LEMMA SignedDifferenceIs ==
  ASSUME NEW w, IsWidth(w), NEW a \in Word(w), NEW b \in Word(w)
  PROVE  SSubSatOf(w, a, b) \in Word(w) /\ Val(w, FALSE, SSubSatOf(w, a, b)) = ClampTo(w, FALSE, SVal(w, a) - SVal(w, b))
<1>1. /\ Cut(w, a - b) \in Word(w)
      /\ a >= b => Cut(w, a - b) = a - b
      /\ a < b => Cut(w, a - b) = a - b + Size(w)
  BY WordFacts, CutFacts
<1>2. /\ SSubOvf(w, a, b).res = Cut(w, a - b)
      /\ SSubOvf(w, a, b).overflow <=> IsNeg(w, a) # IsNeg(w, b) /\ IsNeg(w, Cut(w, a - b)) # IsNeg(w, a)
  BY DEF SSubOvf
<1>3. SSubSatOf(w, a, b) = IF IsNeg(w, a) # IsNeg(w, b) /\ IsNeg(w, Cut(w, a - b)) # IsNeg(w, a)
                             THEN (IF IsNeg(w, a) THEN SMinValue(w) ELSE SMaxValue(w)) ELSE Cut(w, a - b)
  BY <1>2 DEF SSubSatOf, Unless
<1>4. ClampTo(w, FALSE, SVal(w, a) - SVal(w, b)) =
        IF SVal(w, a) - SVal(w, b) < -SMinValue(w) THEN -SMinValue(w)
        ELSE IF SVal(w, a) - SVal(w, b) > SMinValue(w) - 1 THEN SMinValue(w) - 1 ELSE SVal(w, a) - SVal(w, b)
  BY BoundsAre DEF ClampTo, Clamp
<1>5. SSubSatOf(w, a, b) \in Word(w)
  BY BoundsAre, <1>1, <1>3
<1>6. SVal(w, SSubSatOf(w, a, b)) =
        IF SVal(w, a) - SVal(w, b) < -SMinValue(w) THEN -SMinValue(w)
        ELSE IF SVal(w, a) - SVal(w, b) > SMinValue(w) - 1 THEN SMinValue(w) - 1 ELSE SVal(w, a) - SVal(w, b)
  BY <1>1, <1>3, WordFacts DEF SMaxValue, SVal, IsNeg
<1>7. Val(w, FALSE, SSubSatOf(w, a, b)) = SVal(w, SSubSatOf(w, a, b))
  BY DEF Val
<1> QED BY <1>4, <1>5, <1>6, <1>7

\* A closed range contains the words whose reading lies between those of its ends.
LEMMA ClosedContains ==
  ASSUME NEW w, IsWidth(w), NEW u \in BOOLEAN, NEW r \in ConstantRanges(w), NEW s \in ConstantRanges(w),
         ~IsEmptySet(r), ~IsEmptySet(s), NEW lo \in Word(w), NEW up \in Word(w), NEW c \in Word(w),
         Val(w, u, lo) <= Val(w, u, c), Val(w, u, c) <= Val(w, u, up)
  PROVE  Closed(r, s, lo, up) \in ConstantRanges(w) /\ Contains(Closed(r, s, lo, up), c)
<1>1. Closed(r, s, lo, up) = NonEmpty(w, lo, Cut(w, up + 1))
  BY RangeFields DEF Closed
<1>2. /\ Cut(w, up + 1) \in Word(w)
      /\ up + 1 < Size(w) => Cut(w, up + 1) = up + 1
      /\ up + 1 = Size(w) => Cut(w, up + 1) = 0
  BY WordFacts, CutFacts
<1>3. CASE lo = Cut(w, up + 1)
  BY <1>1, <1>3, TrivialRanges, TrivialContents DEF NonEmpty
<1>4. CASE lo # Cut(w, up + 1)
  <2>1. Closed(r, s, lo, up) = Between(w, lo, Cut(w, up + 1))
    BY <1>1, <1>4 DEF NonEmpty
  <2>2. CASE u
    BY <1>2, <1>4, <2>1, <2>2, ProperRange, WordFacts DEF Contains, IsUpperWrapped, Between, Val
  <2>3. CASE ~u
    BY <1>2, <1>4, <2>1, <2>3, ProperRange, WordFacts DEF Contains, IsUpperWrapped, Between, Val, SVal, IsNeg
  <2> QED BY <2>2, <2>3
<1> QED BY <1>3, <1>4

-----------------------------------------------------------------------------
(* The transfer functions of sums and differences.                         *)

Sums == {"ADD", "SUB"}

\* What the program computes: the word of the exact result, or the nearest one of
\* the type.
LEMMA FoldedIs ==
  ASSUME NEW w, IsWidth(w), NEW u \in BOOLEAN, NEW op \in Sums, NEW ov,
         NEW a \in Word(w), NEW b \in Word(w)
  PROVE  /\ Folded(w, u, op, ov, a, b) \in Word(w)
         /\ ov # "SATURATING" => Folded(w, u, op, ov, a, b) = Cut(w, IF op = "ADD" THEN a + b ELSE a - b)
         /\ ov = "SATURATING" => Val(w, u, Folded(w, u, op, ov, a, b))
                                   = ClampTo(w, u, IF op = "ADD" THEN Val(w, u, a) + Val(w, u, b)
                                                                 ELSE Val(w, u, a) - Val(w, u, b))
<1> DEFINE e == IF op = "ADD" THEN Val(w, u, a) + Val(w, u, b) ELSE Val(w, u, a) - Val(w, u, b)
           m == IF op = "ADD" THEN a + b ELSE a - b
<1>1. Exact(op, Val(w, u, a), Val(w, u, b)) = e
  BY DEF Exact, Sums
<1>2. /\ e \in Int /\ -Size(w) <= e /\ e < 2 * Size(w)
      /\ m \in Int /\ -Size(w) <= m /\ m < 2 * Size(w)
      /\ e = m \/ e = m - Size(w) \/ e = m + Size(w) \/ e = m - 2 * Size(w)
  BY WordFacts DEF Val, SVal, IsNeg
<1>3. Cut(w, e) = Cut(w, m) /\ Cut(w, e) \in Word(w)
  BY <1>2, WordFacts, CutFacts
<1>4. CASE ov # "SATURATING"
  BY <1>1, <1>3, <1>4 DEF Folded, Fit
<1>5. CASE ov = "SATURATING"
  <2>1. Folded(w, u, op, ov, a, b) = IF e < MinOf(w, u) THEN Cut(w, MinOf(w, u))
                                     ELSE IF e > MaxOf(w, u) THEN MaxOf(w, u) ELSE Cut(w, e)
    BY <1>1, <1>5 DEF Folded, Fit
  <2>2. /\ Cut(w, MinOf(w, u)) \in Word(w) /\ Val(w, u, Cut(w, MinOf(w, u))) = MinOf(w, u)
        /\ MaxOf(w, u) \in Word(w) /\ Val(w, u, MaxOf(w, u)) = MaxOf(w, u)
        /\ MinOf(w, u) <= e /\ e <= MaxOf(w, u) => Val(w, u, Cut(w, e)) = e
    BY <1>2, WordFacts, CutFacts DEF MinOf, MaxOf, Val, SVal, IsNeg, UMaxValue, SMaxValue, Word
  <2> QED BY <1>2, <1>3, <1>5, <2>1, <2>2, ClampFacts DEF ClampTo, Clamp
<1> QED BY <1>4, <1>5

LEMMA SumRangeSound ==
  ASSUME NEW w, IsWidth(w), NEW u \in BOOLEAN, NEW op \in Sums, NEW ov,
         NEW r \in ConstantRanges(w), NEW a \in Word(w), Contains(r, a),
         NEW s \in ConstantRanges(w), NEW b \in Word(w), Contains(s, b)
  PROVE  /\ ComputeNumeric(op, ov, u, r, s) \in ConstantRanges(w)
         /\ Contains(ComputeNumeric(op, ov, u, r, s), Folded(w, u, op, ov, a, b))
<1> DEFINE c == Folded(w, u, op, ov, a, b)
<1>1. ComputeNumeric(op, ov, u, r, s) = IF op = "ADD" THEN SumRange(ov, u, r, s) ELSE DifferenceRange(ov, u, r, s)
  BY DEF ComputeNumeric, Sums
<1>2. CASE ov # "SATURATING"
  BY <1>1, <1>2, FoldedIs, AddContains, SubContains DEF SumRange, DifferenceRange
<1>3. CASE ov = "SATURATING"
  <2>1. ~IsEmptySet(r) /\ ~IsEmptySet(s) /\ c \in Word(w) /\ r.width = w
    BY FoldedIs, TrivialContents, RangeFields
  <2>2. CASE u
    <3>0. u = TRUE
      BY <2>2
    <3> DEFINE lo == IF op = "ADD" THEN UAddSatOf(w, UMinOf(r), UMinOf(s)) ELSE USubSatOf(w, UMinOf(r), UMaxOf(s))
               up == IF op = "ADD" THEN UAddSatOf(w, UMaxOf(r), UMaxOf(s)) ELSE USubSatOf(w, UMaxOf(r), UMinOf(s))
    <3>1. ComputeNumeric(op, ov, u, r, s) = Closed(r, s, lo, up)
      BY <1>1, <1>3, <2>1, <2>2 DEF SumRange, DifferenceRange, UAddSat, USubSat
    <3>2. /\ UMinOf(r) \in Word(w) /\ UMaxOf(r) \in Word(w) /\ UMinOf(s) \in Word(w) /\ UMaxOf(s) \in Word(w)
          /\ UMinOf(r) <= a /\ a <= UMaxOf(r) /\ UMinOf(s) <= b /\ b <= UMaxOf(s)
      BY ExtremesBound
    <3>3. Val(w, u, a) = a /\ Val(w, u, b) = b
      BY <2>2 DEF Val
    <3>4. CASE op = "ADD"
      <4>0. /\ UAddSatOf(w, UMinOf(r), UMinOf(s)) \in Word(w)
            /\ Val(w, TRUE, UAddSatOf(w, UMinOf(r), UMinOf(s))) = ClampTo(w, TRUE, UMinOf(r) + UMinOf(s))
            /\ UAddSatOf(w, UMaxOf(r), UMaxOf(s)) \in Word(w)
            /\ Val(w, TRUE, UAddSatOf(w, UMaxOf(r), UMaxOf(s))) = ClampTo(w, TRUE, UMaxOf(r) + UMaxOf(s))
        BY <3>2, UnsignedSumIs
      <4>1. /\ lo \in Word(w) /\ Val(w, u, lo) = ClampTo(w, u, UMinOf(r) + UMinOf(s))
            /\ up \in Word(w) /\ Val(w, u, up) = ClampTo(w, u, UMaxOf(r) + UMaxOf(s))
        BY <3>0, <3>4, <4>0
      <4>2. Val(w, u, c) = ClampTo(w, u, a + b)
        BY <1>3, <3>3, <3>4, FoldedIs
      <4>3. /\ UMinOf(r) + UMinOf(s) \in Int /\ a + b \in Int /\ UMaxOf(r) + UMaxOf(s) \in Int
            /\ UMinOf(r) + UMinOf(s) <= a + b /\ a + b <= UMaxOf(r) + UMaxOf(s)
        BY <3>2, WordFacts
      <4>4. Val(w, u, lo) <= Val(w, u, c) /\ Val(w, u, c) <= Val(w, u, up)
        BY <4>1, <4>2, <4>3, ClampFacts
      <4> QED BY <2>1, <3>1, <4>1, <4>4, ClosedContains
    <3>5. CASE op # "ADD"
      <4>0. /\ USubSatOf(w, UMinOf(r), UMaxOf(s)) \in Word(w)
            /\ Val(w, TRUE, USubSatOf(w, UMinOf(r), UMaxOf(s))) = ClampTo(w, TRUE, UMinOf(r) - UMaxOf(s))
            /\ USubSatOf(w, UMaxOf(r), UMinOf(s)) \in Word(w)
            /\ Val(w, TRUE, USubSatOf(w, UMaxOf(r), UMinOf(s))) = ClampTo(w, TRUE, UMaxOf(r) - UMinOf(s))
        BY <3>2, UnsignedDifferenceIs
      <4>1. /\ lo \in Word(w) /\ Val(w, u, lo) = ClampTo(w, u, UMinOf(r) - UMaxOf(s))
            /\ up \in Word(w) /\ Val(w, u, up) = ClampTo(w, u, UMaxOf(r) - UMinOf(s))
        BY <3>0, <3>5, <4>0
      <4>2. Val(w, u, c) = ClampTo(w, u, a - b)
        BY <1>3, <3>3, <3>5, FoldedIs
      <4>3. /\ UMinOf(r) - UMaxOf(s) \in Int /\ a - b \in Int /\ UMaxOf(r) - UMinOf(s) \in Int
            /\ UMinOf(r) - UMaxOf(s) <= a - b /\ a - b <= UMaxOf(r) - UMinOf(s)
        BY <3>2, WordFacts
      <4>4. Val(w, u, lo) <= Val(w, u, c) /\ Val(w, u, c) <= Val(w, u, up)
        BY <4>1, <4>2, <4>3, ClampFacts
      <4> QED BY <2>1, <3>1, <4>1, <4>4, ClosedContains
    <3> QED BY <3>4, <3>5
  <2>3. CASE ~u
    <3>0. u = FALSE
      BY <2>3
    <3> DEFINE lo == IF op = "ADD" THEN SAddSatOf(w, SMinOf(r), SMinOf(s)) ELSE SSubSatOf(w, SMinOf(r), SMaxOf(s))
               up == IF op = "ADD" THEN SAddSatOf(w, SMaxOf(r), SMaxOf(s)) ELSE SSubSatOf(w, SMaxOf(r), SMinOf(s))
    <3>1. ComputeNumeric(op, ov, u, r, s) = Closed(r, s, lo, up)
      BY <1>1, <1>3, <2>1, <2>3 DEF SumRange, DifferenceRange, SAddSat, SSubSat
    <3>2. /\ SMinOf(r) \in Word(w) /\ SMaxOf(r) \in Word(w) /\ SMinOf(s) \in Word(w) /\ SMaxOf(s) \in Word(w)
          /\ SVal(w, SMinOf(r)) <= SVal(w, a) /\ SVal(w, a) <= SVal(w, SMaxOf(r))
          /\ SVal(w, SMinOf(s)) <= SVal(w, b) /\ SVal(w, b) <= SVal(w, SMaxOf(s))
      BY ExtremesBound
    <3>3. Val(w, u, a) = SVal(w, a) /\ Val(w, u, b) = SVal(w, b)
      BY <2>3 DEF Val
    <3>4. \A v \in Word(w) : SVal(w, v) \in Int
      BY WordFacts DEF SVal
    <3>5. CASE op = "ADD"
      <4>1. /\ lo \in Word(w) /\ Val(w, u, lo) = ClampTo(w, u, SVal(w, SMinOf(r)) + SVal(w, SMinOf(s)))
            /\ up \in Word(w) /\ Val(w, u, up) = ClampTo(w, u, SVal(w, SMaxOf(r)) + SVal(w, SMaxOf(s)))
        BY <3>0, <3>2, <3>5, SignedSumIs
      <4>2. Val(w, u, c) = ClampTo(w, u, SVal(w, a) + SVal(w, b))
        BY <1>3, <3>3, <3>5, FoldedIs
      <4>3. Val(w, u, lo) <= Val(w, u, c) /\ Val(w, u, c) <= Val(w, u, up)
        BY <3>2, <3>4, <4>1, <4>2, ClampFacts
      <4> QED BY <2>1, <3>1, <4>1, <4>3, ClosedContains
    <3>6. CASE op # "ADD"
      <4>1. /\ lo \in Word(w) /\ Val(w, u, lo) = ClampTo(w, u, SVal(w, SMinOf(r)) - SVal(w, SMaxOf(s)))
            /\ up \in Word(w) /\ Val(w, u, up) = ClampTo(w, u, SVal(w, SMaxOf(r)) - SVal(w, SMinOf(s)))
        BY <3>0, <3>2, <3>6, SignedDifferenceIs
      <4>2. Val(w, u, c) = ClampTo(w, u, SVal(w, a) - SVal(w, b))
        BY <1>3, <3>3, <3>6, FoldedIs
      <4>3. Val(w, u, lo) <= Val(w, u, c) /\ Val(w, u, c) <= Val(w, u, up)
        BY <3>2, <3>4, <4>1, <4>2, ClampFacts
      <4> QED BY <2>1, <3>1, <4>1, <4>3, ClosedContains
    <3> QED BY <3>5, <3>6
  <2> QED BY <2>2, <2>3
<1> QED BY <1>2, <1>3

LEMMA BinaryExprSound ==
  ASSUME NEW w, IsWidth(w), NEW u \in BOOLEAN, NEW op \in Sums, NEW ov,
         NEW r \in ConstantRanges(w), NEW a \in Word(w), Contains(r, a),
         NEW s \in ConstantRanges(w), NEW b \in Word(w), Contains(s, b)
  PROVE  LET d == NumericBinaryExpr(op, ov, u, r, s)
         IN /\ d \in [numeric : ConstantRanges(w), symbolics : {NoBounds}, unsignedFlag : BOOLEAN]
            /\ Contains(d.numeric, Folded(w, u, op, ov, a, b))
<1> DEFINE d == NumericBinaryExpr(op, ov, u, r, s)
           c == Folded(w, u, op, ov, a, b)
<1>1. c \in Word(w) /\ r.width = w
  BY FoldedIs, RangeFields
<1>2. CASE ~(IsSingleElement(r) /\ IsSingleElement(s))
  <2>1. d = Domain(ComputeNumeric(op, ov, u, r, s), NoBounds, u)
    BY <1>2 DEF NumericBinaryExpr
  <2> QED BY <2>1, SumRangeSound DEF Domain
<1>3. CASE IsSingleElement(r) /\ IsSingleElement(s)
  <2>1. a = r.lower /\ b = s.lower
    BY <1>3, SingleContents
  <2>2. d = Top(w, u) \/ d = FromLiteral(w, u, c)
    BY <1>1, <1>3, <2>1 DEF NumericBinaryExpr, CheckSingleValueOverflow
  <2>3. CASE d = Top(w, u)
    <3>1. d = [numeric |-> FullRange(w), symbolics |-> NoBounds, unsignedFlag |-> u]
      BY <2>3 DEF Top, Domain
    <3>2. FullRange(w) \in ConstantRanges(w) /\ Contains(FullRange(w), c)
      BY TrivialRanges, TrivialContents
    <3> QED BY <3>1, <3>2
  <2>4. CASE d = FromLiteral(w, u, c)
    BY <1>1, <2>4, SingleContents DEF FromLiteral, Domain
  <2> QED BY <2>2, <2>3, <2>4
<1> QED BY <1>2, <1>3

LEMMA JoinSound ==
  ASSUME NEW w, IsWidth(w), NEW a \in Word(w), NEW f \in BOOLEAN, NEW g,
         NEW d \in [numeric : ConstantRanges(w), symbolics : {NoBounds}, unsignedFlag : BOOLEAN],
         NEW s \in ConstantRanges(w), Contains(d.numeric, a) \/ Contains(s, a)
  PROVE  LET j == SIntRangeJoin(d, Domain(s, NoBounds, g))
         IN /\ j \in [numeric : ConstantRanges(w), symbolics : {NoBounds}, unsignedFlag : BOOLEAN]
            /\ Contains(j.numeric, a)
<1> DEFINE e == Domain(s, NoBounds, g)
           j == SIntRangeJoin(d, e)
           n == UnionWith(d.numeric, s, "Smallest")
<1>1. n \in ConstantRanges(w) /\ Contains(n, a) /\ ~IsEmptySet(n)
  BY UnionContains, TrivialContents
<1>2. DOMAIN d.symbolics = {} /\ DOMAIN e.symbolics = {} /\ e.numeric = s
  BY DEF Domain, NoBounds
<1>3. CASE JoinChanges(d, e)
  <2>1. j = Domain(n, NoBounds, d.unsignedFlag)
    <3>1. j = Unions(d, e)
      BY <1>3 DEF SIntRangeJoin
    <3> QED BY <1>1, <1>2, <3>1 DEF Unions, NoBounds
  <2> QED BY <1>1, <2>1 DEF Domain
<1>4. CASE ~JoinChanges(d, e)
  <2>1. d.numeric = s
    BY <1>2, <1>4 DEF JoinChanges, IsSame
  <2> QED BY <1>4, <2>1 DEF SIntRangeJoin
<1> QED BY <1>3, <1>4

-----------------------------------------------------------------------------
(* Casts.                                                                  *)

\* dst bits are fewer than w, and 2^w is an even number of times 2^dst.
Narrower(dst, w) ==
    IsWidth(dst) /\ IsWidth(w) /\ \E k \in Nat \ {0} : SMinValue(w) = k * Size(dst)

LEMMA NarrowerFacts ==
  ASSUME NEW dst, NEW w, Narrower(dst, w)
  PROVE  /\ 2 * Size(dst) <= Size(w) /\ Size(dst) <= SMinValue(w)
         /\ Size(w) \in Int /\ Size(dst) \in Int
         /\ \E k \in Int : Size(w) = k * Size(dst)
<1>1. PICK k \in Nat \ {0} : SMinValue(w) = k * Size(dst)
  BY DEF Narrower
<1>2. PICK n \in Nat \ {0} : n = Size(dst)
  BY DEF Narrower, IsWidth
<1>3. PICK m \in Nat \ {0} : m = Size(w)
  BY DEF Narrower, IsWidth
<1>4. SMinValue(w) = k * n /\ m = 2 * SMinValue(w)
  BY <1>1, <1>2, <1>3 DEF Narrower, IsWidth
<1>5. k * n >= n
  BY SMT
<1>6. m = (2 * k) * n
  BY <1>4
<1>7. k * n \in Int /\ 2 * k \in Int
  OBVIOUS
<1>8. 2 * n <= m /\ n <= SMinValue(w)
  BY <1>4, <1>5, <1>7
<1> QED BY <1>2, <1>3, <1>6, <1>7, <1>8

\* The remainder of a division is unique.
LEMMA Euclid ==
  ASSUME NEW n \in Nat \ {0}, NEW p \in Int, NEW q \in Int, NEW r \in Int, NEW s \in Int,
         0 <= r, r < n, 0 <= s, s < n, p * n + r = q * n + s
  PROVE  r = s
<1>1. (p - q) * n = s - r
  BY SMT
<1>2. CASE p = q
  BY <1>2
<1>3. CASE p > q
  <2>1. PICK d \in Nat \ {0} : d = p - q
    BY <1>3
  <2>2. d * n >= n
    BY SMT
  <2> QED BY <1>1, <2>1, <2>2
<1>4. CASE p < q
  <2>1. PICK d \in Nat \ {0} : d = q - p
    BY <1>4
  <2>2. d * n >= n
    BY SMT
  <2>3. (p - q) * n = -(d * n)
    BY <2>1
  <2> QED BY <1>1, <2>2, <2>3
<1> QED BY <1>2, <1>3, <1>4

\* Whole turns do not change the word an integer is cut to.
LEMMA Turns ==
  ASSUME NEW w, IsWidth(w), NEW i \in Int, NEW j \in Int, NEW k \in Int, i = j + k * Size(w)
  PROVE  Cut(w, i) = Cut(w, j)
<1>1. PICK n \in Nat \ {0} : n = Size(w)
  BY DEF IsWidth
<1>2. /\ (i % n) \in Int /\ 0 <= (i % n) /\ (i % n) < n /\ (i \div n) \in Int
      /\ i = (i \div n) * n + (i % n)
  BY SMT
<1>3. /\ (j % n) \in Int /\ 0 <= (j % n) /\ (j % n) < n /\ (j \div n) \in Int
      /\ j = (j \div n) * n + (j % n)
  BY SMT
<1> DEFINE p == i \div n
           q == j \div n
           r == i % n
           s == j % n
<1>0. /\ p \in Int /\ r \in Int /\ 0 <= r /\ r < n /\ i = p * n + r
      /\ q \in Int /\ s \in Int /\ 0 <= s /\ s < n /\ j = q * n + s
  BY <1>2, <1>3
<1> HIDE DEF p, q, r, s
<1>4. p * n + r = (q * n + s) + k * n
  BY <1>0, <1>1
<1>5. PICK t \in Int : t = q + k
  BY <1>0
<1>6. p * n + r = t * n + s
  BY <1>0, <1>4, <1>5
<1>7. r = s
  BY <1>0, <1>6, Euclid
<1> QED BY <1>1, <1>7 DEF Cut, r, s

-----------------------------------------------------------------------------
(* Truncation (ConstantRange::Truncate).                                   *)

\* The start of the turn a word is in.
LEMMA TurnOf ==
  ASSUME NEW w, IsWidth(w), NEW i \in Int
  PROVE  \E k \in Int : i - Cut(w, i) = k * Size(w)
<1>1. PICK n \in Nat \ {0} : n = Size(w)
  BY DEF IsWidth
<1>2. (i \div n) \in Int /\ (i % n) \in Int /\ i = (i \div n) * n + (i % n)
  BY SMT
<1>3. i - (i % n) = (i \div n) * n
  BY <1>2
<1> QED BY <1>1, <1>2, <1>3 DEF Cut

\* Either reading of a word is cut to the same word of a narrower type.
LEMMA ReadingCut ==
  ASSUME NEW dst, NEW w, Narrower(dst, w), NEW u \in BOOLEAN, NEW a \in Word(w)
  PROVE  Cut(dst, Val(w, u, a)) = Cut(dst, a)
<1>0. IsWidth(dst) /\ IsWidth(w)
  BY DEF Narrower
<1>1. PICK k \in Int : Size(w) = k * Size(dst)
  BY NarrowerFacts
<1>2. a \in Int /\ Val(w, u, a) \in Int /\ (Val(w, u, a) = a \/ Val(w, u, a) = a - Size(w))
  BY <1>0, WordFacts, ReadingIs
<1>3. CASE Val(w, u, a) = a
  BY <1>3
<1>4. CASE Val(w, u, a) = a - Size(w)
  <2>1. a = Val(w, u, a) + k * Size(dst)
    BY <1>1, <1>2, <1>4, NarrowerFacts
  <2> QED BY <1>0, <1>2, <2>1, Turns
<1> QED BY <1>2, <1>3, <1>4

LEMMA TruncateUnwrappedContains ==
  ASSUME NEW dst, NEW w, Narrower(dst, w), NEW lower \in Word(w), NEW upper \in Word(w), lower < upper,
         NEW s \in ConstantRanges(dst)
  PROVE  LET t == TruncateUnwrapped(dst, lower, upper, s)
         IN /\ t \in ConstantRanges(dst)
            /\ \A v \in Word(w) : lower <= v /\ v < upper => Contains(t, Cut(dst, v))
            /\ \A x \in Word(dst) : Contains(s, x) => Contains(t, x)
<1> DEFINE adjust == lower - Cut(dst, lower)
           lo == lower - adjust
           up == upper - adjust
           t == TruncateUnwrapped(dst, lower, upper, s)
<1>0. IsWidth(dst) /\ IsWidth(w)
  BY DEF Narrower
<1>1. PICK n \in Int : n = Size(dst) /\ 2 <= n
  BY <1>0, WordFacts, BoundsAre
<1>2. /\ lower \in Int /\ upper \in Int /\ 0 <= lower
      /\ Cut(dst, lower) \in Int /\ 0 <= Cut(dst, lower) /\ Cut(dst, lower) < n
      /\ lower < n => Cut(dst, lower) = lower
  BY <1>0, <1>1, WordFacts, CutFacts
<1>3. /\ lo \in Int /\ lo = Cut(dst, lower) /\ 0 <= lo /\ lo < n
      /\ up \in Int /\ lo < up /\ lo \in Word(dst)
  BY <1>0, <1>1, <1>2, CutFacts
<1>4. t = CASE up < n -> UnionWith(Between(dst, lo, up), s, "Smallest")
            [] up >= n /\ up < 2 * n /\ up - n < lo -> UnionWith(Between(dst, lo, up - n), s, "Smallest")
            [] up >= 2 * n \/ (up >= n /\ up - n >= lo) -> FullRange(dst)
  <2>1. adjust = IF lower >= Size(dst) THEN lower - Trunc(dst, lower) ELSE 0
    BY <1>1, <1>2 DEF Trunc
  <2> HIDE DEF adjust
  <2> QED BY <1>1, <2>1 DEF TruncateUnwrapped
<1>5. ASSUME NEW v \in Word(w), lower <= v, v < upper
      PROVE  /\ v - adjust \in Int /\ lo <= v - adjust /\ v - adjust < up
             /\ Cut(dst, v) = Cut(dst, v - adjust)
  <2>1. PICK k \in Int : adjust = k * Size(dst)
    BY <1>0, <1>2, TurnOf
  <2>2. v \in Int /\ v - adjust \in Int /\ v = (v - adjust) + k * Size(dst)
    BY <1>0, <1>2, <2>1, WordFacts
  <2> QED BY <1>0, <1>2, <1>5, <2>2, Turns
<1> HIDE DEF adjust, lo, up
<1>6. CASE up < n
  <2> DEFINE r == Between(dst, lo, up)
  <2>1. r \in ConstantRanges(dst)
    BY <1>0, <1>1, <1>3, <1>6, ProperRange DEF Word
  <2>2. t = UnionWith(r, s, "Smallest")
    BY <1>1, <1>3, <1>4, <1>6
  <2>3. ASSUME NEW v \in Word(w), lower <= v, v < upper
        PROVE  Contains(r, Cut(dst, v)) /\ Cut(dst, v) \in Word(dst)
    <3>1. Cut(dst, v) = v - adjust /\ v - adjust \in Word(dst)
      BY <1>0, <1>1, <1>3, <1>5, <1>6, <2>3, CutFacts
    <3> QED BY <1>3, <1>5, <2>3, <3>1 DEF Contains, Between, IsUpperWrapped
  <2> HIDE DEF r, t
  <2>4. UnionWith(r, s, "Smallest") \in ConstantRanges(dst)
    BY <1>0, <2>1, UnionContains
  <2>5. \A x \in Word(dst) : Contains(r, x) \/ Contains(s, x) => Contains(t, x)
    BY <1>0, <2>1, <2>2, UnionContains
  <2> QED BY <2>2, <2>3, <2>4, <2>5 DEF t
<1>7. CASE up >= n /\ up < 2 * n /\ up - n < lo
  <2> DEFINE r == Between(dst, lo, up - n)
  <2>1. r \in ConstantRanges(dst)
    BY <1>0, <1>1, <1>3, <1>7, ProperRange DEF Word
  <2>2. t = UnionWith(r, s, "Smallest")
    BY <1>1, <1>3, <1>4, <1>7
  <2>3. ASSUME NEW v \in Word(w), lower <= v, v < upper
        PROVE  Contains(r, Cut(dst, v)) /\ Cut(dst, v) \in Word(dst)
    <3>1. /\ Cut(dst, v) \in Word(dst)
          /\ Cut(dst, v) = v - adjust \/ (v - adjust >= n /\ Cut(dst, v) = v - adjust - n)
      BY <1>0, <1>1, <1>3, <1>5, <1>7, <2>3, CutFacts
    <3> QED BY <1>0, <1>1, <1>3, <1>5, <1>7, <2>3, <3>1, WordFacts DEF Contains, Between, IsUpperWrapped
  <2> HIDE DEF r, t
  <2>4. UnionWith(r, s, "Smallest") \in ConstantRanges(dst)
    BY <1>0, <2>1, UnionContains
  <2>5. \A x \in Word(dst) : Contains(r, x) \/ Contains(s, x) => Contains(t, x)
    BY <1>0, <2>1, <2>2, UnionContains
  <2> QED BY <2>2, <2>3, <2>4, <2>5 DEF t
<1>8. CASE up >= 2 * n \/ (up >= n /\ up - n >= lo)
  <2>1. t = FullRange(dst)
    BY <1>1, <1>3, <1>4, <1>8
  <2> QED BY <1>0, <2>1, TrivialRanges, TrivialContents
<1> QED BY <1>1, <1>3, <1>6, <1>7, <1>8

\* A truncated range contains every truncated word (ConstantRange::Truncate).
LEMMA TruncateContains ==
  ASSUME NEW dst, NEW w, Narrower(dst, w), NEW r \in ConstantRanges(w)
  PROVE  /\ Truncate(r, dst) \in ConstantRanges(dst)
         /\ \A v \in Word(w) : Contains(r, v) => Contains(Truncate(r, dst), Cut(dst, v))
<1>0. /\ IsWidth(dst) /\ IsWidth(w)
      /\ EmptyRange(dst) \in ConstantRanges(dst) /\ FullRange(dst) \in ConstantRanges(dst)
      /\ \A x : Contains(FullRange(dst), x)
  BY TrivialRanges, TrivialContents DEF Narrower
<1>1. CASE IsEmptySet(r) \/ IsFullSet(r)
  BY <1>0, <1>1, TrivialContents DEF Truncate
<1>2. CASE ~IsEmptySet(r) /\ ~IsFullSet(r) /\ ~IsUpperWrapped(r)
  <2>1. Truncate(r, dst) = TruncateUnwrapped(dst, r.lower, r.upper, EmptyRange(dst))
    BY <1>2 DEF Truncate
  <2>2. r.lower \in Word(w) /\ r.upper \in Word(w) /\ r.lower < r.upper
    BY <1>0, <1>2, RangeFields, WordFacts DEF IsUpperWrapped, IsFullSet, IsEmptySet
  <2>3. \A v \in Word(w) : Contains(r, v) => r.lower <= v /\ v < r.upper
    BY <1>2, <2>2, <1>0, WordFacts DEF Contains
  <2> QED BY <1>0, <2>1, <2>2, <2>3, TruncateUnwrappedContains
<1>3. CASE ~IsEmptySet(r) /\ ~IsFullSet(r) /\ IsUpperWrapped(r) /\ r.upper >= UMaxValue(dst)
  BY <1>0, <1>3 DEF Truncate
<1>4. CASE ~IsEmptySet(r) /\ ~IsFullSet(r) /\ IsUpperWrapped(r) /\ ~(r.upper >= UMaxValue(dst))
  <2> DEFINE s == Between(dst, UMaxValue(dst), r.upper)
  <2>1. /\ r.lower \in Word(w) /\ r.upper \in Word(w) /\ r.lower > r.upper
        /\ UMaxValue(w) \in Word(w) /\ UMaxValue(w) = Size(w) - 1
        /\ UMaxValue(dst) \in Word(dst) /\ UMaxValue(dst) = Size(dst) - 1
        /\ Size(dst) \in Int /\ Size(w) \in Int
    BY <1>0, <1>4, RangeFields, WordFacts, BoundsAre DEF IsUpperWrapped, UMaxValue
  <2>2. r.upper \in Word(dst) /\ r.upper < UMaxValue(dst)
    BY <1>0, <1>4, <2>1, WordFacts DEF Word
  <2>3. s \in ConstantRanges(dst)
    BY <1>0, <2>1, <2>2, ProperRange, WordFacts
  <2>4. ASSUME NEW v \in Word(w), Contains(r, v)
        PROVE  \/ v < r.upper /\ Contains(s, Cut(dst, v))
               \/ v = UMaxValue(w) /\ Contains(s, Cut(dst, v))
               \/ r.lower <= v /\ v < UMaxValue(w)
    <3>1. v \in Int /\ (r.lower <= v \/ v < r.upper) /\ v <= UMaxValue(w)
      BY <1>0, <1>4, <2>1, <2>4, WordFacts DEF Contains
    <3>2. CASE v < r.upper
      <4>0. v \in Int /\ 0 <= v /\ v < Size(dst)
        <5>1. v \in Int /\ 0 <= v /\ r.upper \in Int
          BY <1>0, <2>1, WordFacts
        <5> QED BY <2>1, <2>2, <3>2, <5>1
      <4>1. Cut(dst, v) = v
        BY <1>0, <4>0, CutFacts
      <4> QED BY <1>0, <2>1, <2>2, <3>1, <3>2, <4>1, WordFacts DEF Contains, Between, IsUpperWrapped
    <3>3. CASE v = UMaxValue(w)
      <4>1. PICK k \in Int : Size(w) = k * Size(dst)
        BY NarrowerFacts
      <4>2. v = -1 + k * Size(dst)
        BY <2>1, <3>3, <4>1
      <4>3. Cut(dst, v) = Cut(dst, -1)
        BY <1>0, <3>1, <4>2, Turns
      <4>4. Cut(dst, -1) = Size(dst) - 1
        BY <1>0, <2>1, WordFacts, CutFacts
      <4> QED BY <1>0, <2>1, <2>2, <3>3, <4>3, <4>4, WordFacts DEF Contains, Between, IsUpperWrapped
    <3> QED BY <2>1, <3>1, <3>2, <3>3
  <2>5. CASE r.lower = UMaxValue(w)
    <3>1. Truncate(r, dst) = s
      BY <1>0, <1>4, <2>5, RangeFields DEF Truncate
    <3> QED BY <2>1, <2>3, <2>4, <2>5, <3>1, WordFacts, <1>0
  <2>6. CASE r.lower # UMaxValue(w)
    <3>1. Truncate(r, dst) = TruncateUnwrapped(dst, r.lower, UMaxValue(w), s)
      BY <1>0, <1>4, <2>6, RangeFields DEF Truncate
    <3>2. r.lower < UMaxValue(w)
      BY <1>0, <2>1, <2>6, WordFacts
    <3> HIDE DEF s
    <3>3. \A v \in Word(w) : Cut(dst, v) \in Word(dst)
      BY <1>0, WordFacts, CutFacts
    <3>4. /\ Truncate(r, dst) \in ConstantRanges(dst)
          /\ \A v \in Word(w) : r.lower <= v /\ v < UMaxValue(w) => Contains(Truncate(r, dst), Cut(dst, v))
          /\ \A x \in Word(dst) : Contains(s, x) => Contains(Truncate(r, dst), x)
      BY <2>1, <2>3, <3>1, <3>2, TruncateUnwrappedContains
    <3> QED BY <2>4, <3>3, <3>4
  <2> QED BY <2>5, <2>6
<1> QED BY <1>1, <1>2, <1>3, <1>4

-----------------------------------------------------------------------------
(* Extension (ConstantRange::ZeroExtend, SignExtend).                      *)

LEMMA ZeroExtendContains ==
  ASSUME NEW w, NEW dst, Narrower(w, dst), NEW r \in ConstantRanges(w)
  PROVE  /\ ZeroExtend(r, dst) \in ConstantRanges(dst)
         /\ \A v \in Word(w) : Contains(r, v) => v \in Word(dst) /\ Contains(ZeroExtend(r, dst), v)
<1>0. /\ IsWidth(dst) /\ IsWidth(w) /\ EmptyRange(dst) \in ConstantRanges(dst)
      /\ 2 * Size(w) <= Size(dst) /\ Size(w) \in Int /\ Size(dst) \in Int /\ 2 <= Size(w)
  BY TrivialRanges, NarrowerFacts, WordFacts, BoundsAre DEF Narrower
<1>1. r.width = w /\ r.lower \in 0..(Size(w) - 1) /\ r.upper \in 0..(Size(w) - 1)
  BY <1>0, RangeFields DEF Word
<1>2. \A v \in Word(w) : v \in Int /\ 0 <= v /\ v < Size(w) /\ v \in Word(dst)
  BY <1>0 DEF Word
<1>3. CASE IsEmptySet(r)
  BY <1>0, <1>3, TrivialContents DEF ZeroExtend
<1>4. CASE ~IsEmptySet(r) /\ (IsFullSet(r) \/ IsWrappedSet(r))
  <2>1. ZeroExtend(r, dst) = Between(dst, 0, Size(w))
    BY <1>1, <1>4 DEF ZeroExtend
  <2>2. Between(dst, 0, Size(w)) \in ConstantRanges(dst)
    BY <1>0, ProperRange DEF Word
  <2> QED BY <1>0, <1>2, <2>1, <2>2 DEF Contains, Between, IsUpperWrapped
<1>5. CASE ~IsEmptySet(r) /\ ~IsFullSet(r) /\ ~IsWrappedSet(r)
  <2> DEFINE up == IF r.upper = 0 THEN Size(w) ELSE r.upper
  <2>1. ZeroExtend(r, dst) = Between(dst, r.lower, up)
    BY <1>1, <1>5 DEF ZeroExtend
  <2>2. r.lower < up /\ up \in Int /\ up <= Size(w)
    BY <1>0, <1>1, <1>5, RangeFields DEF IsWrappedSet, IsUpperWrapped, IsEmptySet, IsFullSet
  <2>3. Between(dst, r.lower, up) \in ConstantRanges(dst)
    BY <1>0, <1>1, <2>2, ProperRange DEF Word
  <2>4. ASSUME NEW v \in Word(w), Contains(r, v)
        PROVE  r.lower <= v /\ v < up
    BY <1>1, <1>2, <1>5, <2>4 DEF Contains, IsWrappedSet, IsUpperWrapped, IsEmptySet, IsFullSet
  <2> QED BY <1>1, <1>2, <2>1, <2>2, <2>3, <2>4 DEF Contains, Between, IsUpperWrapped
<1> QED BY <1>3, <1>4, <1>5

\* The word of a wider type with the same signed reading.
LEMMA ExtendedWord ==
  ASSUME NEW w, NEW dst, Narrower(w, dst), NEW a \in Word(w)
  PROVE  /\ SExt(w, dst, a) \in Word(dst)
         /\ SExt(w, dst, a) = IF IsNeg(w, a) THEN a - Size(w) + Size(dst) ELSE a
<1>0. /\ IsWidth(dst) /\ IsWidth(w)
      /\ 2 * Size(w) <= Size(dst) /\ Size(w) \in Int /\ Size(dst) \in Int /\ 2 <= Size(w)
  BY NarrowerFacts, WordFacts, BoundsAre DEF Narrower
<1>1. a \in Int /\ 0 <= a /\ a < Size(w) /\ Size(w) = 2 * SMinValue(w) /\ SMinValue(w) \in Int
  BY <1>0, WordFacts
<1> QED BY <1>0, <1>1, CutFacts DEF SExt, SVal, IsNeg

LEMMA SignExtendContains ==
  ASSUME NEW w, NEW dst, Narrower(w, dst), NEW r \in ConstantRanges(w)
  PROVE  /\ SignExtend(r, dst) \in ConstantRanges(dst)
         /\ \A v \in Word(w) : Contains(r, v) => Contains(SignExtend(r, dst), SExt(w, dst, v))
<1>0. /\ IsWidth(dst) /\ IsWidth(w) /\ EmptyRange(dst) \in ConstantRanges(dst)
      /\ 2 * Size(w) <= Size(dst) /\ Size(w) \in Int /\ Size(dst) \in Int /\ 2 <= Size(w)
      /\ SMinValue(w) \in Int /\ Size(w) = 2 * SMinValue(w)
  BY TrivialRanges, NarrowerFacts, WordFacts, BoundsAre DEF Narrower
<1>1. r.width = w /\ r.lower \in 0..(Size(w) - 1) /\ r.upper \in 0..(Size(w) - 1)
  BY <1>0, RangeFields DEF Word
<1>2. \A v \in 0..(Size(w) - 1) :
        /\ SExt(w, dst, v) = IF v >= SMinValue(w) THEN v - Size(w) + Size(dst) ELSE v
        /\ SExt(w, dst, v) \in Word(dst)
  BY ExtendedWord DEF Word, IsNeg
<1>3. CASE IsEmptySet(r)
  BY <1>0, <1>3, TrivialContents DEF SignExtend
<1>4. CASE ~IsEmptySet(r) /\ (IsFullSet(r) \/ IsSignWrappedSet(r))
  <2>1. SignExtend(r, dst) = Between(dst, SExt(w, dst, SMinValue(w)), SMinValue(w))
    BY <1>1, <1>4 DEF SignExtend
  <2>2. SExt(w, dst, SMinValue(w)) = Size(dst) - SMinValue(w)
    BY <1>0, <1>2
  <2>3. Between(dst, Size(dst) - SMinValue(w), SMinValue(w)) \in ConstantRanges(dst)
    BY <1>0, ProperRange DEF Word
  <2>4. ASSUME NEW v \in 0..(Size(w) - 1)
        PROVE  Contains(SignExtend(r, dst), SExt(w, dst, v))
    BY <1>0, <1>2, <2>1, <2>2 DEF Contains, Between, IsUpperWrapped
  <2> QED BY <2>1, <2>2, <2>3, <2>4 DEF Word
<1>5. CASE ~IsEmptySet(r) /\ ~IsFullSet(r) /\ ~IsSignWrappedSet(r)
  <2> DEFINE lo == SExt(w, dst, r.lower)
             up == IF r.upper = SMinValue(w) THEN r.upper ELSE SExt(w, dst, r.upper)
  <2>1. SignExtend(r, dst) = Between(dst, lo, up)
    BY <1>1, <1>5 DEF SignExtend
  <2>2. /\ lo = IF r.lower >= SMinValue(w) THEN r.lower - Size(w) + Size(dst) ELSE r.lower
        /\ up = IF r.upper > SMinValue(w) THEN r.upper - Size(w) + Size(dst) ELSE r.upper
    BY <1>0, <1>1, <1>2
  <2> HIDE DEF lo, up
  <2>3. r.lower # r.upper
    BY <1>1, <1>5, <1>0, RangeFields DEF IsEmptySet, IsFullSet
  <2>4. lo # up /\ lo \in Word(dst) /\ up \in Word(dst)
    BY <1>0, <1>1, <1>5, <2>2, <2>3 DEF IsSignWrappedSet, IsUpperSignWrapped, Slt, SVal, IsNeg, Word
  <2>5. ASSUME NEW v \in 0..(Size(w) - 1), Contains(r, v)
        PROVE  Contains(Between(dst, lo, up), SExt(w, dst, v))
    <3> DEFINE x == SExt(w, dst, v)
    <3>1. x = IF v >= SMinValue(w) THEN v - Size(w) + Size(dst) ELSE v
      BY <1>2
    <3> HIDE DEF x
    <3>2. Contains(Between(dst, lo, up), x)
      BY <1>0, <1>1, <1>5, <2>2, <2>3, <2>4, <2>5, <3>1
         DEF IsSignWrappedSet, IsUpperSignWrapped, Slt, SVal, IsNeg, Contains, Between, IsUpperWrapped
    <3> QED BY <3>2 DEF x
  <2> QED BY <1>0, <2>1, <2>4, <2>5, ProperRange DEF Word
<1> QED BY <1>3, <1>4, <1>5

-----------------------------------------------------------------------------
(* What an intersection in the preferred reading leaves out.               *)

LEMMA PreferredDoesNotWrap ==
  ASSUME NEW r, NEW s, NEW u \in BOOLEAN, ~Wraps(r, u), Wraps(s, u)
  PROVE  GetPreferredRange(r, s, Prefer(u)) = r /\ GetPreferredRange(s, r, Prefer(u)) = r
<1>1. CASE u
  BY <1>1 DEF GetPreferredRange, Prefer, Wraps
<1>2. CASE ~u
  BY <1>2 DEF GetPreferredRange, Prefer, Wraps
<1> QED BY <1>1, <1>2

\* A range that wraps in neither reading of its bounds.
LEMMA WrapsIs ==
  ASSUME NEW w, IsWidth(w), NEW r \in ConstantRanges(w), NEW u \in BOOLEAN
  PROVE  Wraps(r, u) <=> IF u THEN r.lower > r.upper /\ r.upper # 0
                         ELSE SVal(w, r.upper) < SVal(w, r.lower) /\ r.upper # SMinValue(w)
BY RangeFields DEF Wraps, IsWrappedSet, IsUpperWrapped, IsSignWrappedSet, IsUpperSignWrapped, Slt

LEMMA BothWrappedWithin ==
  ASSUME NEW w, IsWidth(w), NEW r \in ConstantRanges(w), NEW s \in ConstantRanges(w), NEW u \in BOOLEAN,
         IsUpperWrapped(r), IsUpperWrapped(s), NEW v \in Word(w),
         Contains(IntersectBothWrapped(r, s, Prefer(u)), v)
  PROVE  (~Wraps(r, u) => Contains(r, v)) /\ (~Wraps(s, u) => Contains(s, v))
<1> DEFINE g == GetPreferredRange(r, s, Prefer(u))
           i == IntersectBothWrapped(r, s, Prefer(u))
<1>1. /\ g \in {r, s}
      /\ ~Wraps(r, u) /\ Wraps(s, u) => g = r
      /\ ~Wraps(s, u) /\ Wraps(r, u) => g = s
  BY PreferredIs, PreferredDoesNotWrap
<1>2. /\ Wraps(r, u) <=> IF u THEN r.lower > r.upper /\ r.upper # 0
                         ELSE SVal(w, r.upper) < SVal(w, r.lower) /\ r.upper # SMinValue(w)
      /\ Wraps(s, u) <=> IF u THEN s.lower > s.upper /\ s.upper # 0
                         ELSE SVal(w, s.upper) < SVal(w, s.lower) /\ s.upper # SMinValue(w)
  BY WrapsIs
<1>3. /\ r.width = w /\ r.lower \in Int /\ r.upper \in Int /\ 0 <= r.upper /\ r.lower < Size(w)
      /\ s.lower \in Int /\ s.upper \in Int /\ 0 <= s.lower /\ 0 <= s.upper /\ s.lower < Size(w) /\ s.upper < Size(w)
      /\ v \in Int /\ 0 <= v /\ v < Size(w) /\ r.lower > r.upper /\ s.lower > s.upper
      /\ Size(w) \in Int /\ SMinValue(w) \in Int /\ Size(w) = 2 * SMinValue(w)
  BY RangeFields, WordFacts DEF IsUpperWrapped
<1>4. CASE (s.upper < r.upper /\ s.lower < r.upper) \/ (s.upper >= r.upper /\ s.upper > r.lower)
  <2>1. i = g
    BY <1>3, <1>4 DEF IntersectBothWrapped
  <2>2. Wraps(r, u) \/ Wraps(s, u)
    BY <1>2, <1>3, <1>4 DEF SVal, IsNeg
  <2> HIDE DEF i, g
  <2>3. CASE Wraps(r, u) /\ Wraps(s, u)
    BY <2>3
  <2>4. CASE ~Wraps(r, u) /\ Wraps(s, u)
    BY <1>1, <2>1, <2>4 DEF i
  <2>5. CASE Wraps(r, u) /\ ~Wraps(s, u)
    BY <1>1, <2>1, <2>5 DEF i
  <2> QED BY <2>2, <2>3, <2>4, <2>5
<1>5. CASE ~((s.upper < r.upper /\ s.lower < r.upper) \/ (s.upper >= r.upper /\ s.upper > r.lower))
  <2>1. Contains(r, v) /\ Contains(s, v)
    BY <1>3, <1>5 DEF IntersectBothWrapped, Contains, IsFullSet, IsUpperWrapped, Between, EmptyRange, UMaxValue
  <2> QED BY <2>1
<1> QED BY <1>4, <1>5

LEMMA MixedWithin ==
  ASSUME NEW w, IsWidth(w), NEW r \in ConstantRanges(w), NEW s \in ConstantRanges(w), NEW u \in BOOLEAN,
         IsUpperWrapped(r), s.lower < s.upper, NEW v \in Word(w),
         Contains(IntersectWrappedWithUnwrapped(r, s, Prefer(u)), v)
  PROVE  (~Wraps(r, u) => Contains(r, v)) /\ (~Wraps(s, u) => Contains(s, v))
<1> DEFINE g == GetPreferredRange(r, s, Prefer(u))
           i == IntersectWrappedWithUnwrapped(r, s, Prefer(u))
<1>1. /\ g \in {r, s}
      /\ ~Wraps(r, u) /\ Wraps(s, u) => g = r
      /\ ~Wraps(s, u) /\ Wraps(r, u) => g = s
  BY PreferredIs, PreferredDoesNotWrap
<1>2. /\ Wraps(r, u) <=> IF u THEN r.lower > r.upper /\ r.upper # 0
                         ELSE SVal(w, r.upper) < SVal(w, r.lower) /\ r.upper # SMinValue(w)
      /\ Wraps(s, u) <=> IF u THEN s.lower > s.upper /\ s.upper # 0
                         ELSE SVal(w, s.upper) < SVal(w, s.lower) /\ s.upper # SMinValue(w)
  BY WrapsIs
<1>3. /\ r.width = w /\ r.lower \in Int /\ r.upper \in Int /\ 0 <= r.upper /\ r.lower < Size(w)
      /\ s.lower \in Int /\ s.upper \in Int /\ 0 <= s.lower /\ 0 <= s.upper /\ s.lower < Size(w) /\ s.upper < Size(w)
      /\ v \in Int /\ 0 <= v /\ v < Size(w) /\ r.lower > r.upper /\ s.lower < s.upper
      /\ Size(w) \in Int /\ SMinValue(w) \in Int /\ Size(w) = 2 * SMinValue(w)
  BY RangeFields, WordFacts DEF IsUpperWrapped
<1>4. CASE s.lower < r.upper /\ s.upper > r.lower
  <2>1. i = g
    BY <1>3, <1>4 DEF IntersectWrappedWithUnwrapped
  <2>2. Wraps(r, u) \/ Wraps(s, u)
    BY <1>2, <1>3, <1>4 DEF SVal, IsNeg
  <2> HIDE DEF i, g
  <2>3. CASE Wraps(r, u) /\ Wraps(s, u)
    BY <2>3
  <2>4. CASE ~Wraps(r, u) /\ Wraps(s, u)
    BY <1>1, <2>1, <2>4 DEF i
  <2>5. CASE Wraps(r, u) /\ ~Wraps(s, u)
    BY <1>1, <2>1, <2>5 DEF i
  <2> QED BY <2>2, <2>3, <2>4, <2>5
<1>5. CASE ~(s.lower < r.upper /\ s.upper > r.lower)
  <2>1. Contains(r, v) /\ Contains(s, v)
    BY <1>3, <1>5 DEF IntersectWrappedWithUnwrapped, Contains, IsFullSet, IsUpperWrapped, Between, EmptyRange, UMaxValue
  <2> QED BY <2>1
<1> QED BY <1>4, <1>5

LEMMA BothUnwrappedWithin ==
  ASSUME NEW w, IsWidth(w), NEW r \in ConstantRanges(w), NEW s \in ConstantRanges(w),
         r.lower < r.upper, s.lower < s.upper, NEW v \in Word(w),
         Contains(IntersectBothUnwrapped(r, s), v)
  PROVE  Contains(r, v) /\ Contains(s, v)
BY RangeFields, WordFacts
   DEF IntersectBothUnwrapped, Contains, IsFullSet, IsUpperWrapped, EmptyRange, Between, UMaxValue

\* An intersection in the preferred reading stays within a range that does not wrap
\* in that reading.
LEMMA IntersectionWithin ==
  ASSUME NEW w, IsWidth(w), NEW r \in ConstantRanges(w), NEW s \in ConstantRanges(w), NEW u \in BOOLEAN,
         NEW v \in Word(w), Contains(IntersectWith(r, s, Prefer(u)), v)
  PROVE  (~Wraps(r, u) => Contains(r, v)) /\ (~Wraps(s, u) => Contains(s, v))
<1> DEFINE pref == Prefer(u)
<1>1. CASE IsEmptySet(r) \/ IsFullSet(s)
  <2>1. IntersectWith(r, s, pref) = r
    BY <1>1 DEF IntersectWith
  <2> QED BY <1>1, <2>1, TrivialContents
<1>2. CASE ~(IsEmptySet(r) \/ IsFullSet(s)) /\ (IsEmptySet(s) \/ IsFullSet(r))
  <2>1. IntersectWith(r, s, pref) = s
    BY <1>2 DEF IntersectWith
  <2> QED BY <1>2, <2>1, TrivialContents
<1>3. CASE ~IsFullSet(r) /\ ~IsEmptySet(s) /\ ~IsFullSet(s) /\ ~IsEmptySet(r)
  <2>0. r.lower # r.upper /\ s.lower # s.upper
    BY <1>3, RangeFields DEF IsFullSet, IsEmptySet
  <2>1. /\ ~IsUpperWrapped(r) => r.lower < r.upper
        /\ ~IsUpperWrapped(s) => s.lower < s.upper
    BY <2>0, RangeFields, WordFacts DEF IsUpperWrapped
  <2>2. CASE IsUpperWrapped(r) /\ IsUpperWrapped(s)
    <3>1. IntersectWith(r, s, pref) = IntersectBothWrapped(r, s, pref)
      BY <1>3, <2>2 DEF IntersectWith
    <3> QED BY <2>2, <3>1, BothWrappedWithin
  <2>3. CASE IsUpperWrapped(r) /\ ~IsUpperWrapped(s)
    <3>1. IntersectWith(r, s, pref) = IntersectWrappedWithUnwrapped(r, s, pref)
      BY <1>3, <2>3 DEF IntersectWith
    <3> QED BY <2>1, <2>3, <3>1, MixedWithin
  <2>4. CASE ~IsUpperWrapped(r) /\ IsUpperWrapped(s)
    <3>1. IntersectWith(r, s, pref) = IntersectWrappedWithUnwrapped(s, r, pref)
      BY <1>3, <2>4 DEF IntersectWith
    <3> QED BY <2>1, <2>4, <3>1, MixedWithin
  <2>5. CASE ~IsUpperWrapped(r) /\ ~IsUpperWrapped(s)
    <3>1. IntersectWith(r, s, pref) = IntersectBothUnwrapped(r, s)
      BY <1>3, <2>5 DEF IntersectWith
    <3> QED BY <2>1, <2>5, <3>1, BothUnwrappedWithin
  <2> QED BY <2>2, <2>3, <2>4, <2>5
<1> QED BY <1>1, <1>2, <1>3

\* The intersection of two ranges that do not wrap does not wrap.
LEMMA BothWrappedConvex ==
  ASSUME NEW w, IsWidth(w), NEW r \in ConstantRanges(w), NEW s \in ConstantRanges(w), NEW u \in BOOLEAN,
         NEW pref, IsUpperWrapped(r), IsUpperWrapped(s), ~Wraps(r, u), ~Wraps(s, u)
  PROVE  ~Wraps(IntersectBothWrapped(r, s, pref), u)
<1> DEFINE i == IntersectBothWrapped(r, s, pref)
<1>1. i \in ConstantRanges(w)
  BY BothWrappedIntersection
<1>2. /\ IF u THEN ~(r.lower > r.upper /\ r.upper # 0)
         ELSE ~(SVal(w, r.upper) < SVal(w, r.lower) /\ r.upper # SMinValue(w))
      /\ IF u THEN ~(s.lower > s.upper /\ s.upper # 0)
         ELSE ~(SVal(w, s.upper) < SVal(w, s.lower) /\ s.upper # SMinValue(w))
  BY WrapsIs
<1>3. /\ r.width = w /\ r.lower \in Int /\ r.upper \in Int /\ 0 <= r.upper /\ r.lower < Size(w)
      /\ s.lower \in Int /\ s.upper \in Int /\ 0 <= s.upper /\ s.lower < Size(w)
      /\ r.lower > r.upper /\ s.lower > s.upper
      /\ Size(w) \in Int /\ SMinValue(w) \in Int /\ Size(w) = 2 * SMinValue(w)
  BY RangeFields, WordFacts DEF IsUpperWrapped
<1>4. i \in {r, s} \/ (i.lower = r.lower /\ i.upper = s.upper) \/ (i.lower = s.lower /\ i.upper = r.upper)
  BY <1>3, PreferredIs DEF IntersectBothWrapped, Between
<1> HIDE DEF i
<1>5. i \in {r, s} => ~Wraps(i, u)
  OBVIOUS
<1>6. i \notin {r, s} => ~Wraps(i, u)
  BY <1>1, <1>2, <1>3, <1>4, WrapsIs, RangeFields, WordFacts DEF SVal, IsNeg
<1> QED BY <1>5, <1>6 DEF i

LEMMA MixedConvex ==
  ASSUME NEW w, IsWidth(w), NEW r \in ConstantRanges(w), NEW s \in ConstantRanges(w), NEW u \in BOOLEAN,
         NEW pref, IsUpperWrapped(r), s.lower < s.upper, ~Wraps(r, u), ~Wraps(s, u)
  PROVE  ~Wraps(IntersectWrappedWithUnwrapped(r, s, pref), u)
<1> DEFINE i == IntersectWrappedWithUnwrapped(r, s, pref)
<1>1. i \in ConstantRanges(w)
  BY MixedIntersection
<1>2. /\ IF u THEN ~(r.lower > r.upper /\ r.upper # 0)
         ELSE ~(SVal(w, r.upper) < SVal(w, r.lower) /\ r.upper # SMinValue(w))
      /\ IF u THEN ~(s.lower > s.upper /\ s.upper # 0)
         ELSE ~(SVal(w, s.upper) < SVal(w, s.lower) /\ s.upper # SMinValue(w))
  BY WrapsIs
<1>3. /\ r.width = w /\ r.lower \in Int /\ r.upper \in Int /\ 0 <= r.upper /\ r.lower < Size(w)
      /\ s.lower \in Int /\ s.upper \in Int /\ 0 <= s.lower /\ s.upper < Size(w)
      /\ r.lower > r.upper /\ s.lower < s.upper
      /\ Size(w) \in Int /\ SMinValue(w) \in Int /\ Size(w) = 2 * SMinValue(w)
  BY RangeFields, WordFacts DEF IsUpperWrapped
<1>4. \/ i \in {r, s}
      \/ i.lower = i.upper
      \/ i.lower = r.lower /\ i.upper = s.upper /\ s.upper > r.lower
      \/ i.lower = s.lower /\ i.upper = r.upper /\ s.lower < r.upper
  BY <1>3, PreferredIs DEF IntersectWrappedWithUnwrapped, Between, EmptyRange
<1> HIDE DEF i
<1>5. i \in {r, s} => ~Wraps(i, u)
  OBVIOUS
<1>6. i \notin {r, s} => ~Wraps(i, u)
  BY <1>1, <1>2, <1>3, <1>4, WrapsIs, RangeFields, WordFacts DEF SVal, IsNeg
<1> QED BY <1>5, <1>6 DEF i

LEMMA BothUnwrappedConvex ==
  ASSUME NEW w, IsWidth(w), NEW r \in ConstantRanges(w), NEW s \in ConstantRanges(w), NEW u \in BOOLEAN,
         r.lower < r.upper, s.lower < s.upper, ~Wraps(r, u), ~Wraps(s, u)
  PROVE  ~Wraps(IntersectBothUnwrapped(r, s), u)
<1> DEFINE i == IntersectBothUnwrapped(r, s)
<1>1. i \in ConstantRanges(w)
  BY BothUnwrappedIntersection
<1>2. /\ IF u THEN ~(r.lower > r.upper /\ r.upper # 0)
         ELSE ~(SVal(w, r.upper) < SVal(w, r.lower) /\ r.upper # SMinValue(w))
      /\ IF u THEN ~(s.lower > s.upper /\ s.upper # 0)
         ELSE ~(SVal(w, s.upper) < SVal(w, s.lower) /\ s.upper # SMinValue(w))
  BY WrapsIs
<1>3. /\ r.width = w /\ r.lower \in Int /\ r.upper \in Int /\ 0 <= r.lower /\ r.upper < Size(w)
      /\ s.lower \in Int /\ s.upper \in Int /\ 0 <= s.lower /\ s.upper < Size(w)
      /\ Size(w) \in Int /\ SMinValue(w) \in Int /\ Size(w) = 2 * SMinValue(w)
  BY RangeFields, WordFacts
<1>4. \/ i \in {r, s}
      \/ i.lower = i.upper
      \/ i.lower = r.lower /\ i.upper = s.upper /\ s.upper > r.lower /\ s.upper < r.upper
      \/ i.lower = s.lower /\ i.upper = r.upper /\ s.lower < r.upper /\ r.lower < s.lower
  BY <1>3 DEF IntersectBothUnwrapped, Between, EmptyRange
<1> HIDE DEF i
<1>5. i \in {r, s} => ~Wraps(i, u)
  OBVIOUS
<1>6. i \notin {r, s} => ~Wraps(i, u)
  BY <1>1, <1>2, <1>3, <1>4, WrapsIs, RangeFields, WordFacts DEF SVal, IsNeg
<1> QED BY <1>5, <1>6 DEF i

LEMMA IntersectionConvex ==
  ASSUME NEW w, IsWidth(w), NEW r \in ConstantRanges(w), NEW s \in ConstantRanges(w), NEW u \in BOOLEAN,
         NEW pref, ~Wraps(r, u), ~Wraps(s, u)
  PROVE  ~Wraps(IntersectWith(r, s, pref), u)
<1>1. CASE IsEmptySet(r) \/ IsFullSet(s)
  BY <1>1 DEF IntersectWith
<1>2. CASE ~(IsEmptySet(r) \/ IsFullSet(s)) /\ (IsEmptySet(s) \/ IsFullSet(r))
  BY <1>2 DEF IntersectWith
<1>3. CASE ~IsFullSet(r) /\ ~IsEmptySet(s) /\ ~IsFullSet(s) /\ ~IsEmptySet(r)
  <2>0. r.lower # r.upper /\ s.lower # s.upper
    BY <1>3, RangeFields DEF IsFullSet, IsEmptySet
  <2>1. /\ ~IsUpperWrapped(r) => r.lower < r.upper
        /\ ~IsUpperWrapped(s) => s.lower < s.upper
    BY <2>0, RangeFields, WordFacts DEF IsUpperWrapped
  <2>2. CASE IsUpperWrapped(r) /\ IsUpperWrapped(s)
    <3>1. IntersectWith(r, s, pref) = IntersectBothWrapped(r, s, pref)
      BY <1>3, <2>2 DEF IntersectWith
    <3> QED BY <2>2, <3>1, BothWrappedConvex
  <2>3. CASE IsUpperWrapped(r) /\ ~IsUpperWrapped(s)
    <3>1. IntersectWith(r, s, pref) = IntersectWrappedWithUnwrapped(r, s, pref)
      BY <1>3, <2>3 DEF IntersectWith
    <3> QED BY <2>1, <2>3, <3>1, MixedConvex
  <2>4. CASE ~IsUpperWrapped(r) /\ IsUpperWrapped(s)
    <3>1. IntersectWith(r, s, pref) = IntersectWrappedWithUnwrapped(s, r, pref)
      BY <1>3, <2>4 DEF IntersectWith
    <3> QED BY <2>1, <2>4, <3>1, MixedConvex
  <2>5. CASE ~IsUpperWrapped(r) /\ ~IsUpperWrapped(s)
    <3>1. IntersectWith(r, s, pref) = IntersectBothUnwrapped(r, s)
      BY <1>3, <2>5 DEF IntersectWith
    <3> QED BY <2>1, <2>5, <3>1, BothUnwrappedConvex
  <2> QED BY <2>2, <2>3, <2>4, <2>5
<1> QED BY <1>1, <1>2, <1>3

-----------------------------------------------------------------------------
(* The ranges of a comparison (From), and differences.                     *)

\* The ranges of the words from a word on, up to it and below it (ConstantRange::From).
LEMMA FromGE ==
  ASSUME NEW w, IsWidth(w), NEW u \in BOOLEAN, NEW v \in Word(w)
  PROVE  LET f == From(w, "GE", v, ~u)
         IN /\ f \in ConstantRanges(w) /\ ~Wraps(f, u)
            /\ \A x \in Word(w) : Contains(f, x) <=> Val(w, u, v) <= Val(w, u, x)
<1> DEFINE f == From(w, "GE", v, ~u)
           min == IF u THEN 0 ELSE SMinValue(w)
<1>1. f = IF v = min THEN FullRange(w)
          ELSE Between(w, v, Cut(w, IF u THEN UMaxValue(w) + 1 ELSE SMaxValue(w) + 1))
  BY DEF From
<1>2. Cut(w, IF u THEN UMaxValue(w) + 1 ELSE SMaxValue(w) + 1) = min
  BY WordFacts, BoundsAre, CutFacts DEF UMaxValue, SMaxValue
<1>3. CASE v = min
  <2>1. f = FullRange(w)
    BY <1>1, <1>3
  <2>2. \A x \in Word(w) : Val(w, u, v) <= Val(w, u, x)
    BY <1>3, WordFacts DEF Val, SVal, IsNeg
  <2>3. ~Wraps(FullRange(w), u)
    <3>1. FullRange(w).lower = FullRange(w).upper /\ FullRange(w).lower \in Word(w)
      BY BoundsAre DEF FullRange, Between
    <3> QED BY <3>1, TrivialRanges, WrapsIs, WordFacts DEF SVal
  <2> QED BY <2>1, <2>2, <2>3, TrivialRanges, TrivialContents
<1>4. CASE v # min
  <2>1. f = Between(w, v, min)
    BY <1>1, <1>2, <1>4
  <2>2. min \in Word(w)
    BY BoundsAre
  <2>3. f \in ConstantRanges(w) /\ f.lower = v /\ f.upper = min
    BY <1>4, <2>1, <2>2, ProperRange DEF Between
  <2> HIDE DEF f
  <2>4. ~Wraps(f, u)
    BY <2>3, WrapsIs
  <2>5. ASSUME NEW x \in Word(w)
        PROVE  Contains(f, x) <=> Val(w, u, v) <= Val(w, u, x)
    <3>1. CASE u
      BY <1>4, <2>3, <3>1, WordFacts DEF Contains, IsUpperWrapped, Val
    <3>2. CASE ~u
      BY <1>4, <2>3, <3>2, WordFacts DEF Contains, IsUpperWrapped, Val, SVal, IsNeg
    <3> QED BY <3>1, <3>2
  <2> QED BY <2>3, <2>4, <2>5 DEF f
<1> QED BY <1>3, <1>4

LEMMA FromLE ==
  ASSUME NEW w, IsWidth(w), NEW u \in BOOLEAN, NEW v \in Word(w)
  PROVE  LET f == From(w, "LE", v, ~u)
         IN /\ f \in ConstantRanges(w) /\ ~Wraps(f, u)
            /\ \A x \in Word(w) : Contains(f, x) <=> Val(w, u, x) <= Val(w, u, v)
<1> DEFINE f == From(w, "LE", v, ~u)
           min == IF u THEN 0 ELSE SMinValue(w)
           max == IF u THEN UMaxValue(w) ELSE SMaxValue(w)
           next == Cut(w, v + 1)
<1>1. f = IF v = max THEN FullRange(w) ELSE Between(w, min, next)
  BY DEF From
<1>2. /\ next \in Word(w)
      /\ next = v + 1 \/ (v = Size(w) - 1 /\ next = 0)
  BY WordFacts, CutFacts
<1> HIDE DEF next
<1>3. CASE v = max
  <2>1. f = FullRange(w)
    BY <1>1, <1>3
  <2>2. \A x \in Word(w) : Val(w, u, x) <= Val(w, u, v)
    BY <1>3, WordFacts DEF Val, SVal, IsNeg, UMaxValue, SMaxValue
  <2>3. ~Wraps(FullRange(w), u)
    <3>1. FullRange(w).lower = FullRange(w).upper /\ FullRange(w).lower \in Word(w)
      BY BoundsAre DEF FullRange, Between
    <3> QED BY <3>1, TrivialRanges, WrapsIs, WordFacts DEF SVal
  <2> QED BY <2>1, <2>2, <2>3, TrivialRanges, TrivialContents
<1>4. CASE v # max
  <2>1. f = Between(w, min, next)
    BY <1>1, <1>4
  <2>2. min \in Word(w) /\ next # min
    <3>1. min \in Word(w) /\ v \in Int /\ 0 <= v /\ 2 <= Size(w) /\ Size(w) = 2 * SMinValue(w)
      BY BoundsAre, WordFacts
    <3>2. CASE u
      BY <1>2, <1>4, <3>1, <3>2 DEF UMaxValue
    <3>3. CASE ~u
      BY <1>2, <1>4, <3>1, <3>3, WordFacts DEF SMaxValue
    <3> QED BY <3>2, <3>3
  <2>3. f \in ConstantRanges(w) /\ f.lower = min /\ f.upper = next
    BY <1>2, <1>4, <2>1, <2>2, ProperRange DEF Between
  <2> HIDE DEF f
  <2>4. ~Wraps(f, u)
    BY <1>2, <2>2, <2>3, WrapsIs, WordFacts DEF SVal, IsNeg
  <2>5. ASSUME NEW x \in Word(w)
        PROVE  Contains(f, x) <=> Val(w, u, x) <= Val(w, u, v)
    <3>1. CASE u
      BY <1>2, <1>4, <2>3, <3>1, WordFacts DEF Contains, IsUpperWrapped, Val, UMaxValue
    <3>2. CASE ~u
      BY <1>2, <1>4, <2>3, <3>2, WordFacts DEF Contains, IsUpperWrapped, Val, SVal, IsNeg, SMaxValue
    <3> QED BY <3>1, <3>2
  <2> QED BY <2>3, <2>4, <2>5 DEF f
<1> QED BY <1>3, <1>4

LEMMA FromLT ==
  ASSUME NEW w, IsWidth(w), NEW u \in BOOLEAN, NEW v \in Word(w)
  PROVE  LET f == From(w, "LT", v, ~u)
         IN /\ f \in ConstantRanges(w) /\ ~Wraps(f, u)
            /\ \A x \in Word(w) : Contains(f, x) <=> Val(w, u, x) < Val(w, u, v)
<1> DEFINE f == From(w, "LT", v, ~u)
           min == IF u THEN 0 ELSE SMinValue(w)
<1>1. f = IF v = min THEN EmptyRange(w) ELSE Between(w, min, v)
  BY DEF From
<1>3. CASE v = min
  <2>1. f = EmptyRange(w)
    BY <1>1, <1>3
  <2>2. \A x \in Word(w) : ~(Val(w, u, x) < Val(w, u, v))
    BY <1>3, WordFacts DEF Val, SVal, IsNeg
  <2>3. ~Wraps(EmptyRange(w), u)
    <3>1. EmptyRange(w).lower = EmptyRange(w).upper /\ EmptyRange(w).lower \in Word(w)
      BY BoundsAre DEF EmptyRange, Between
    <3> QED BY <3>1, TrivialRanges, WrapsIs, WordFacts DEF SVal
  <2> QED BY <2>1, <2>2, <2>3, TrivialRanges, TrivialContents
<1>4. CASE v # min
  <2>1. f = Between(w, min, v)
    BY <1>1, <1>4
  <2>2. min \in Word(w)
    BY BoundsAre
  <2>3. f \in ConstantRanges(w) /\ f.lower = min /\ f.upper = v
    BY <1>4, <2>1, <2>2, ProperRange DEF Between
  <2> HIDE DEF f
  <2>4. ~Wraps(f, u)
    BY <2>2, <2>3, WrapsIs, WordFacts DEF SVal, IsNeg
  <2>5. ASSUME NEW x \in Word(w)
        PROVE  Contains(f, x) <=> Val(w, u, x) < Val(w, u, v)
    <3>1. CASE u
      BY <1>4, <2>2, <2>3, <3>1, WordFacts DEF Contains, IsUpperWrapped, Val
    <3>2. CASE ~u
      BY <1>4, <2>2, <2>3, <3>2, WordFacts DEF Contains, IsUpperWrapped, Val, SVal, IsNeg
    <3> QED BY <3>1, <3>2
  <2> QED BY <2>3, <2>4, <2>5 DEF f
<1> QED BY <1>3, <1>4

\* What is in one range and not in the other is in their difference.
LEMMA DifferenceContains ==
  ASSUME NEW w, IsWidth(w), NEW r \in ConstantRanges(w), NEW s \in ConstantRanges(w)
  PROVE  /\ Difference(r, s) \in ConstantRanges(w)
         /\ \A v \in Word(w) : Contains(r, v) /\ ~Contains(s, v)
               => Contains(Difference(r, s), v) /\ ~IsEmptySet(Difference(r, s))
<1>1. InverseOf(s) \in ConstantRanges(w) /\ \A v \in Word(w) : ~Contains(s, v) => Contains(InverseOf(s), v)
  <2>1. CASE IsFullSet(s)
    BY <2>1, TrivialRanges, TrivialContents, RangeFields DEF InverseOf
  <2>2. CASE ~IsFullSet(s) /\ IsEmptySet(s)
    BY <2>2, TrivialRanges, TrivialContents, RangeFields DEF InverseOf
  <2>3. CASE ~IsFullSet(s) /\ ~IsEmptySet(s)
    <3>1. /\ InverseOf(s) = Between(w, s.upper, s.lower) /\ s.lower # s.upper
          /\ s.upper \in Word(w) /\ s.lower \in Word(w)
      BY <2>3, RangeFields DEF InverseOf, IsFullSet, IsEmptySet
    <3> QED BY <3>1, ProperRange, WordFacts DEF Contains, IsUpperWrapped, Between
  <2> QED BY <2>1, <2>2, <2>3
<1> QED BY <1>1, IntersectionContains, TrivialContents DEF Difference

\* What a program computes when it casts a word.
LEMMA CastFoldedIs ==
  ASSUME NEW w, IsWidth(w), NEW dst, IsWidth(dst), NEW u \in BOOLEAN, NEW du \in BOOLEAN, NEW ov,
         NEW a \in Word(w)
  PROVE  LET x == Val(w, u, a)
             c == CastFolded(w, u, dst, du, ov, a)
         IN /\ c \in Word(dst) /\ x \in Int
            /\ ov # "SATURATING" \/ (MinOf(dst, du) <= x /\ x <= MaxOf(dst, du)) => c = Cut(dst, x)
            /\ ov = "SATURATING" /\ x < MinOf(dst, du) => c = Cut(dst, MinOf(dst, du))
            /\ ov = "SATURATING" /\ x > MaxOf(dst, du) => c = MaxOf(dst, du)
<1> DEFINE x == Val(w, u, a)
<1>1. x \in Int
  BY ReadingIs
<1>2. /\ MinOf(dst, du) \in Int /\ MaxOf(dst, du) \in Word(dst) /\ MaxOf(dst, du) \in Int
      /\ MinOf(dst, du) <= MaxOf(dst, du)
  <2>1. CASE du
    BY <2>1, WordFacts, BoundsAre DEF UMaxValue, MaxOf, MinOf
  <2>2. CASE ~du
    BY <2>2, WordFacts, BoundsAre DEF SMaxValue, MaxOf, MinOf
  <2> QED BY <2>1, <2>2
<1>3. Cut(dst, x) \in Word(dst) /\ Cut(dst, MinOf(dst, du)) \in Word(dst)
  BY <1>1, <1>2, CutFacts
<1> HIDE DEF x
<1> QED BY <1>1, <1>2, <1>3 DEF CastFolded, Fit, x

-----------------------------------------------------------------------------
(* Casts that keep the signedness.                                         *)

CastKinds == {"THROWING", "WRAPPING", "SATURATING"}

\* The ends of a narrower type are words of the wider one.
LEMMA EndsAre ==
  ASSUME NEW dst, NEW w, Narrower(dst, w), NEW u \in BOOLEAN
  PROVE  /\ LowEnd(w, dst, u) \in Word(w) /\ Val(w, u, LowEnd(w, dst, u)) = MinOf(dst, u)
         /\ HighEnd(dst, u) \in Word(w) /\ Val(w, u, HighEnd(dst, u)) = MaxOf(dst, u)
<1>0. /\ IsWidth(dst) /\ IsWidth(w)
      /\ 2 * Size(dst) <= Size(w) /\ Size(w) \in Int /\ Size(dst) \in Int /\ 2 <= Size(dst)
      /\ Size(w) = 2 * SMinValue(w) /\ SMinValue(w) \in Int
      /\ Size(dst) = 2 * SMinValue(dst) /\ SMinValue(dst) \in Int /\ SMinValue(dst) \in Word(dst)
  BY NarrowerFacts, WordFacts, BoundsAre DEF Narrower
<1>1. CASE u
  BY <1>0, <1>1 DEF LowEnd, HighEnd, MinOf, MaxOf, UMaxValue, Val, Word
<1>2. CASE ~u
  <2>1. SExt(dst, w, SMinValue(dst)) = SMinValue(dst) - Size(dst) + Size(w)
    BY <1>0, ExtendedWord DEF IsNeg
  <2>2. LowEnd(w, dst, u) = Size(w) - SMinValue(dst) /\ HighEnd(dst, u) = SMinValue(dst) - 1
    BY <1>0, <1>2, <2>1 DEF LowEnd, HighEnd, SMaxValue
  <2>3. MinOf(dst, u) = -SMinValue(dst) /\ MaxOf(dst, u) = SMinValue(dst) - 1
    BY <1>2 DEF MinOf, MaxOf, SMaxValue
  <2> QED BY <1>0, <1>2, <2>2, <2>3 DEF Val, SVal, IsNeg, Word
<1> QED BY <1>1, <1>2

\* The part of a range that does not wrap from a word on, and up to one.
LEMMA PartsAre ==
  ASSUME NEW w, IsWidth(w), NEW u \in BOOLEAN, NEW r \in ConstantRanges(w), NEW v \in Word(w)
  PROVE  LET from == IntersectWith(From(w, "GE", v, ~u), r, Prefer(u))
             upTo == IntersectWith(From(w, "LE", v, ~u), r, Prefer(u))
         IN /\ from \in ConstantRanges(w) /\ upTo \in ConstantRanges(w)
            /\ \A x \in Word(w) : Contains(r, x) /\ Val(w, u, v) <= Val(w, u, x) => Contains(from, x)
            /\ \A x \in Word(w) : Contains(from, x) => Val(w, u, v) <= Val(w, u, x)
            /\ \A x \in Word(w) : Contains(r, x) /\ Val(w, u, x) <= Val(w, u, v) => Contains(upTo, x)
            /\ \A x \in Word(w) : Contains(upTo, x) => Val(w, u, x) <= Val(w, u, v)
            /\ ~Wraps(r, u) => \A x \in Word(w) : Contains(from, x) \/ Contains(upTo, x) => Contains(r, x)
            /\ ~Wraps(r, u) => ~Wraps(from, u) /\ ~Wraps(upTo, u)
BY FromGE, FromLE, IntersectionContains, IntersectionWithin, IntersectionConvex

\* NCSameSignessInner: the words that fit are kept, the others give an end of the type.
LEMMA SameSignessInnerContains ==
  ASSUME NEW dst, NEW w, Narrower(dst, w), NEW u \in BOOLEAN, NEW ov \in CastKinds,
         NEW src \in ConstantRanges(w), ~Wraps(src, u)
  PROVE  LET t == NCSameSignessInner(src, dst, u, ov)
         IN /\ t \in ConstantRanges(dst)
            /\ \A a \in Word(w) : /\ Contains(src, a)
                                  /\ ~(ov = "THROWING" /\ CastOverflows(w, u, dst, u, a))
                                  => Contains(t, CastFolded(w, u, dst, u, ov, a))
<1> DEFINE t == NCSameSignessInner(src, dst, u, ov)
           pref == Prefer(u)
           higherPart == IntersectWith(From(w, "GE", LowEnd(w, dst, u), ~u), src, pref)
           unchangedPart == IntersectWith(From(w, "LE", HighEnd(dst, u), ~u), higherPart, pref)
           res == Truncate(unchangedPart, dst)
           withMin == IF IsEmptySet(Difference(src, higherPart)) THEN res
                      ELSE UnionWith(res, Single(dst, Cut(dst, MinOf(dst, u))), pref)
           withMax == IF IsEmptySet(Difference(higherPart, unchangedPart)) THEN withMin
                      ELSE UnionWith(withMin, Single(dst, MaxOf(dst, u)), pref)
<1>0. IsWidth(dst) /\ IsWidth(w) /\ src.width = w
  BY RangeFields DEF Narrower
<1>1. CASE IsFullSet(src)
  <2>0. ~IsEmptySet(src)
    BY <1>0, <1>1, RangeFields DEF IsEmptySet, IsFullSet
  <2>1. t = FullRange(dst)
    BY <1>1, <2>0 DEF NCSameSignessInner
  <2> QED BY <1>0, <2>1, TrivialRanges, TrivialContents
<1>2. CASE IsEmptySet(src)
  <2>1. ~IsFullSet(src)
    BY <1>0, <1>2, RangeFields DEF IsEmptySet, IsFullSet
  <2>2. t = EmptyRange(dst)
    BY <1>2, <2>1 DEF NCSameSignessInner
  <2> QED BY <1>0, <1>2, <2>2, TrivialRanges, TrivialContents
<1>3. CASE ~IsFullSet(src) /\ ~IsEmptySet(src)
  <2>1. t = IF src = unchangedPart \/ ov = "THROWING" THEN res
            ELSE IF ov = "WRAPPING" THEN FullRange(dst) ELSE withMax
    BY <1>0, <1>3 DEF NCSameSignessInner
  <2>2. /\ higherPart \in ConstantRanges(w) /\ ~Wraps(higherPart, u)
        /\ \A x \in Word(w) : Contains(src, x) /\ MinOf(dst, u) <= Val(w, u, x) => Contains(higherPart, x)
        /\ \A x \in Word(w) : Contains(higherPart, x) => MinOf(dst, u) <= Val(w, u, x)
    BY <1>0, EndsAre, PartsAre
  <2> HIDE DEF higherPart
  <2>3. /\ unchangedPart \in ConstantRanges(w)
        /\ \A x \in Word(w) : Contains(higherPart, x) /\ Val(w, u, x) <= MaxOf(dst, u) => Contains(unchangedPart, x)
        /\ \A x \in Word(w) : Contains(unchangedPart, x) => Val(w, u, x) <= MaxOf(dst, u)
        /\ \A x \in Word(w) : Contains(unchangedPart, x) => Contains(higherPart, x)
    BY <1>0, <2>2, EndsAre, PartsAre
  <2> HIDE DEF unchangedPart
  <2>4. /\ res \in ConstantRanges(dst)
        /\ \A x \in Word(w) : Contains(unchangedPart, x) => Contains(res, Cut(dst, x))
    BY <2>3, TruncateContains
  <2> HIDE DEF res
  <2>5. Cut(dst, MinOf(dst, u)) \in Word(dst) /\ MaxOf(dst, u) \in Word(dst)
    <3>1. CASE u
      BY <1>0, <3>1, BoundsAre, WordFacts, CutFacts DEF MaxOf, MinOf
    <3>2. CASE ~u
      BY <1>0, <3>2, BoundsAre, WordFacts, CutFacts DEF MaxOf, MinOf
    <3> QED BY <3>1, <3>2
  <2>6. /\ withMin \in ConstantRanges(dst)
        /\ \A x \in Word(dst) : Contains(res, x) => Contains(withMin, x)
        /\ ~IsEmptySet(Difference(src, higherPart)) => Contains(withMin, Cut(dst, MinOf(dst, u)))
    BY <1>0, <2>4, <2>5, SingleContents, UnionContains
  <2> HIDE DEF withMin
  <2>7. /\ withMax \in ConstantRanges(dst)
        /\ \A x \in Word(dst) : Contains(withMin, x) => Contains(withMax, x)
        /\ ~IsEmptySet(Difference(higherPart, unchangedPart)) => Contains(withMax, MaxOf(dst, u))
    BY <1>0, <2>5, <2>6, SingleContents, UnionContains
  <2> HIDE DEF withMax
  <2>8. t \in ConstantRanges(dst)
    BY <1>0, <2>1, <2>4, <2>7, TrivialRanges
  <2>9. ASSUME NEW a \in Word(w), Contains(src, a), ~(ov = "THROWING" /\ CastOverflows(w, u, dst, u, a))
        PROVE  Contains(t, CastFolded(w, u, dst, u, ov, a))
    <3> DEFINE x == Val(w, u, a)
               c == CastFolded(w, u, dst, u, ov, a)
    <3>1. /\ c \in Word(dst) /\ x \in Int
          /\ ov # "SATURATING" \/ (MinOf(dst, u) <= x /\ x <= MaxOf(dst, u)) => c = Cut(dst, a)
          /\ ov = "SATURATING" /\ x < MinOf(dst, u) => c = Cut(dst, MinOf(dst, u))
          /\ ov = "SATURATING" /\ x > MaxOf(dst, u) => c = MaxOf(dst, u)
      BY <1>0, CastFoldedIs, ReadingCut
    <3>2. MinOf(dst, u) \in Int /\ MaxOf(dst, u) \in Int
      BY <1>0, ClampFacts
    <3> HIDE DEF c
    <3>3. CASE Contains(unchangedPart, a)
      <4>1. /\ MinOf(dst, u) <= x /\ x <= MaxOf(dst, u)
        BY <2>2, <2>3, <3>3
      <4>2. c = Cut(dst, a) /\ Contains(res, c)
        BY <2>4, <3>1, <3>3, <4>1
      <4> QED BY <1>0, <2>1, <2>6, <2>7, <3>1, <4>2, TrivialContents, TrivialRanges DEF c
    <3>4. CASE ~Contains(unchangedPart, a)
      <4>1. src # unchangedPart
        BY <2>9, <3>4
      <4>2. x < MinOf(dst, u) \/ x > MaxOf(dst, u)
        BY <2>2, <2>3, <2>9, <3>1, <3>2, <3>4
      <4>3. ov # "THROWING"
        BY <2>9, <3>1, <3>2, <4>2 DEF CastOverflows, InType
      <4>4. CASE ov = "WRAPPING"
        BY <1>0, <2>1, <4>1, <4>4, TrivialContents, TrivialRanges DEF c
      <4>5. CASE ov = "SATURATING"
        <5>1. t = withMax
          BY <2>1, <4>1, <4>5
        <5>2. CASE x < MinOf(dst, u)
          <6>1. ~Contains(higherPart, a)
            BY <2>2, <3>1, <3>2, <5>2
          <6>2. ~IsEmptySet(Difference(src, higherPart))
            BY <1>0, <2>2, <2>9, <6>1, DifferenceContains
          <6> QED BY <2>5, <2>6, <2>7, <3>1, <4>5, <5>1, <5>2, <6>2 DEF c
        <5>3. CASE ~(x < MinOf(dst, u))
          <6>1. x > MaxOf(dst, u) /\ Contains(higherPart, a)
            BY <2>2, <2>9, <3>1, <3>2, <4>2, <5>3
          <6>2. ~IsEmptySet(Difference(higherPart, unchangedPart))
            BY <1>0, <2>2, <2>3, <3>4, <6>1, DifferenceContains
          <6> QED BY <2>7, <3>1, <4>5, <5>1, <6>1, <6>2 DEF c
        <5> QED BY <5>2, <5>3
      <4> QED BY <4>3, <4>4, <4>5 DEF CastKinds
    <3> QED BY <3>3, <3>4 DEF c
  <2> QED BY <2>8, <2>9
<1> QED BY <1>1, <1>2, <1>3

\* The ends of a type, and that it has the readings of its words.
LEMMA TypeIs ==
  ASSUME NEW w, IsWidth(w), NEW u \in BOOLEAN
  PROVE  /\ Size(w) \in Int /\ SMinValue(w) \in Int /\ 1 <= SMinValue(w) /\ Size(w) = 2 * SMinValue(w)
         /\ MinOf(w, u) = IF u THEN 0 ELSE -SMinValue(w)
         /\ MaxOf(w, u) = IF u THEN Size(w) - 1 ELSE SMinValue(w) - 1
         /\ MaxOf(w, u) \in Word(w)
         /\ \A a \in Word(w) : MinOf(w, u) <= Val(w, u, a) /\ Val(w, u, a) <= MaxOf(w, u)
<1>1. /\ Size(w) \in Int /\ SMinValue(w) \in Int /\ 1 <= SMinValue(w) /\ Size(w) = 2 * SMinValue(w)
  BY WordFacts, BoundsAre
<1>2. CASE u
  BY <1>1, <1>2 DEF MinOf, MaxOf, UMaxValue, Val, Word
<1>3. CASE ~u
  BY <1>1, <1>3 DEF MinOf, MaxOf, SMaxValue, Val, SVal, IsNeg, Word
<1> QED BY <1>1, <1>2, <1>3

\* A wrapping range is in two parts that do not wrap (SplitWrapping).
LEMMA SplitWrappingCovers ==
  ASSUME NEW w, IsWidth(w), NEW u \in BOOLEAN, NEW r \in ConstantRanges(w), Wraps(r, u)
  PROVE  /\ \A i \in {1, 2} : SplitWrapping(r, u)[i] \in ConstantRanges(w) /\ ~Wraps(SplitWrapping(r, u)[i], u)
         /\ \A v \in Word(w) : Contains(r, v) => \/ Contains(SplitWrapping(r, u)[1], v)
                                                 \/ Contains(SplitWrapping(r, u)[2], v)
<1>1. /\ SplitWrapping(r, u)[1] = From(w, "LT", r.upper, ~u)
      /\ SplitWrapping(r, u)[2] = From(w, "GE", r.lower, ~u)
  BY RangeFields DEF SplitWrapping
<1>2. r.lower \in Word(w) /\ r.upper \in Word(w)
  BY RangeFields
<1>3. ASSUME NEW v \in Word(w), Contains(r, v)
      PROVE  Val(w, u, v) < Val(w, u, r.upper) \/ Val(w, u, r.lower) <= Val(w, u, v)
  <2>1. CASE u
    BY <1>2, <1>3, <2>1, WrapsIs, WordFacts DEF Contains, IsUpperWrapped, IsFullSet, Val
  <2>2. CASE ~u
    BY <1>2, <1>3, <2>2, WrapsIs, WordFacts DEF Contains, IsUpperWrapped, IsFullSet, Val, SVal, IsNeg
  <2> QED BY <2>1, <2>2
<1> QED BY <1>1, <1>2, <1>3, FromLT, FromGE

\* Two widths as they occur in a program.
Related(w, dst) ==
    /\ w \in Nat /\ dst \in Nat /\ IsWidth(w) /\ IsWidth(dst)
    /\ w < dst => Narrower(w, dst)
    /\ dst < w => Narrower(dst, w)

\* A cast of a word is sound when the range contains what the program computes.
CastSound(r, w, u, dst, du, ov, t) ==
    /\ t \in ConstantRanges(dst)
    /\ \A a \in Word(w) : Contains(r, a) /\ ~(ov = "THROWING" /\ CastOverflows(w, u, dst, du, a))
                          => Contains(t, CastFolded(w, u, dst, du, ov, a))

\* A range converted in two parts.
LEMMA PartsSound ==
  ASSUME NEW w, NEW dst, IsWidth(w), IsWidth(dst), NEW r \in ConstantRanges(w), NEW u \in BOOLEAN, NEW du \in BOOLEAN, NEW ov, Wraps(r, u),
         NEW s, CastSound(SplitWrapping(r, u)[1], w, u, dst, du, ov, s),
         NEW t, CastSound(SplitWrapping(r, u)[2], w, u, dst, du, ov, t), NEW pref
  PROVE  CastSound(r, w, u, dst, du, ov, UnionWith(s, t, pref))
<1>1. /\ UnionWith(s, t, pref) \in ConstantRanges(dst)
      /\ \A v \in Word(dst) : Contains(s, v) \/ Contains(t, v) => Contains(UnionWith(s, t, pref), v)
  BY UnionContains DEF CastSound
<1>2. \A a \in Word(w) : CastFolded(w, u, dst, du, ov, a) \in Word(dst)
  BY CastFoldedIs
<1> QED BY <1>1, <1>2, SplitWrappingCovers DEF CastSound

LEMMA SameSignessContains ==
  ASSUME NEW w, NEW dst, Related(w, dst), NEW u \in BOOLEAN, NEW ov \in CastKinds, NEW r \in ConstantRanges(w)
  PROVE  CastSound(r, w, u, dst, u, ov, NumericConversionWithSameSigness(r, dst, u, ov))
<1> DEFINE t == NumericConversionWithSameSigness(r, dst, u, ov)
<1>0. IsWidth(w) /\ IsWidth(dst) /\ w \in Nat /\ dst \in Nat /\ r.width = w
  BY RangeFields DEF Related
<1>1. CASE w = dst
  <2>1. t = r
    BY <1>0, <1>1 DEF NumericConversionWithSameSigness
  <2>2. ASSUME NEW a \in Word(w) PROVE CastFolded(w, u, dst, u, ov, a) = a
    <3>1. CastFolded(w, u, dst, u, ov, a) = Cut(w, Val(w, u, a))
      BY <1>0, <1>1, TypeIs, CastFoldedIs
    <3>2. a \in Int /\ Val(w, u, a) \in {a, a - Size(w)} /\ 0 <= a /\ a < Size(w) /\ Size(w) \in Int
      BY <1>0, WordFacts, ReadingIs
    <3> QED BY <1>0, <3>1, <3>2, CutFacts
  <2> QED BY <1>1, <2>1, <2>2 DEF CastSound
<1>2. CASE w < dst
  <2>0. Narrower(w, dst)
    BY <1>2 DEF Related
  <2>1. t = IF u THEN ZeroExtend(r, dst) ELSE SignExtend(r, dst)
    BY <1>0, <1>2 DEF NumericConversionWithSameSigness
  <2>2. CASE u
    <3>1. ASSUME NEW a \in Word(w) PROVE CastFolded(w, u, dst, u, ov, a) = a
      <4>1. a \in Int /\ 0 <= a /\ a < Size(dst) /\ Size(dst) \in Int
        BY <1>0, <2>0, WordFacts, NarrowerFacts
      <4>2. Val(w, u, a) = a /\ MinOf(dst, u) = 0 /\ MaxOf(dst, u) = Size(dst) - 1
        BY <1>0, <2>2, TypeIs DEF Val
      <4>3. CastFolded(w, u, dst, u, ov, a) = Cut(dst, a)
        BY <1>0, <4>1, <4>2, CastFoldedIs
      <4> QED BY <1>0, <4>1, <4>3, CutFacts
    <3>2. /\ t \in ConstantRanges(dst)
          /\ \A a \in Word(w) : Contains(r, a) => Contains(t, a)
      BY <2>0, <2>1, <2>2, ZeroExtendContains
    <3> QED BY <3>1, <3>2 DEF CastSound
  <2>3. CASE ~u
    <3>1. ASSUME NEW a \in Word(w) PROVE CastFolded(w, u, dst, u, ov, a) = SExt(w, dst, a)
      <4>1. /\ SVal(w, a) \in Int /\ -SMinValue(w) <= SVal(w, a) /\ SVal(w, a) < SMinValue(w)
            /\ SMinValue(w) \in Int
        BY <1>0, WordFacts DEF SVal, IsNeg
      <4>2. SMinValue(w) <= SMinValue(dst) /\ SMinValue(dst) \in Int
        BY <1>0, <2>0, NarrowerFacts, TypeIs
      <4>3. Val(w, u, a) = SVal(w, a) /\ MinOf(dst, u) = -SMinValue(dst) /\ MaxOf(dst, u) = SMinValue(dst) - 1
        BY <2>3 DEF Val, MinOf, MaxOf, SMaxValue
      <4>4. CastFolded(w, u, dst, u, ov, a) = Cut(dst, SVal(w, a))
        BY <1>0, <4>1, <4>2, <4>3, CastFoldedIs
      <4> QED BY <4>4 DEF SExt
    <3> QED BY <2>0, <2>1, <2>3, <3>1, SignExtendContains DEF CastSound
  <2> QED BY <2>2, <2>3
<1>3. CASE w > dst /\ Wraps(r, u)
  <2>0. Narrower(dst, w)
    BY <1>0, <1>3 DEF Related
  <2> DEFINE p == SplitWrapping(r, u)
  <2>1. t = UnionWith(NCSameSignessInner(p[1], dst, u, ov), NCSameSignessInner(p[2], dst, u, ov), Prefer(u))
    BY <1>0, <1>3 DEF NumericConversionWithSameSigness
  <2>2. \A i \in {1, 2} : CastSound(p[i], w, u, dst, u, ov, NCSameSignessInner(p[i], dst, u, ov))
    BY <1>0, <1>3, <2>0, SplitWrappingCovers, SameSignessInnerContains DEF CastSound
  <2> QED BY <1>0, <1>3, <2>1, <2>2, PartsSound
<1>4. CASE w > dst /\ ~Wraps(r, u)
  <2>0. Narrower(dst, w)
    BY <1>0, <1>4 DEF Related
  <2>1. t = NCSameSignessInner(r, dst, u, ov)
    BY <1>0, <1>4 DEF NumericConversionWithSameSigness
  <2> QED BY <1>4, <2>0, <2>1, SameSignessInnerContains DEF CastSound
<1> QED BY <1>0, <1>1, <1>2, <1>3, <1>4

-----------------------------------------------------------------------------
(* Casts from unsigned to signed.                                          *)

LEMMA LowerContained ==
  ASSUME NEW w, IsWidth(w), NEW r \in ConstantRanges(w), ~IsEmptySet(r)
  PROVE  Contains(r, r.lower)
<1>1. CASE IsFullSet(r)
  BY <1>1, TrivialContents
<1>2. CASE ~IsFullSet(r)
  <2>1. r.lower # r.upper
    BY <1>2, RangeFields DEF IsFullSet, IsEmptySet
  <2> QED BY <2>1, RangeFields, WordFacts DEF Contains, IsUpperWrapped
<1> QED BY <1>1, <1>2

\* A range that starts at a word up to h, or is full.
StartsBy(r, h) == r.lower <= h \/ IsFullSet(r)

LEMMA UnionStarts ==
  ASSUME NEW w, IsWidth(w), NEW r \in ConstantRanges(w), NEW s \in ConstantRanges(w), NEW pref,
         NEW h \in Int, StartsBy(r, h), StartsBy(s, h)
  PROVE  StartsBy(UnionWith(r, s, pref), h)
<1> DEFINE t == UnionWith(r, s, pref)
<1>0. r.width = w /\ s.width = w /\ IsFullSet(FullRange(w))
  BY RangeFields, TrivialRanges
<1>1. CASE IsFullSet(r) \/ IsEmptySet(s)
  BY <1>1 DEF UnionWith
<1>2. CASE ~(IsFullSet(r) \/ IsEmptySet(s)) /\ (IsFullSet(s) \/ IsEmptySet(r))
  BY <1>2 DEF UnionWith
<1>3. CASE ~IsFullSet(r) /\ ~IsEmptySet(s) /\ ~IsFullSet(s) /\ ~IsEmptySet(r)
  <2>0. r.lower <= h /\ s.lower <= h /\ r.lower \in Int /\ s.lower \in Int
    BY <1>3, RangeFields, WordFacts DEF StartsBy
  <2>1. CASE IsUpperWrapped(r) /\ IsUpperWrapped(s)
    <3>1. t = UnionBothWrapped(r, s)
      BY <1>3, <2>1 DEF UnionWith
    <3> QED BY <1>0, <2>0, <3>1 DEF UnionBothWrapped, UMin, Between, StartsBy
  <2>2. CASE IsUpperWrapped(r) /\ ~IsUpperWrapped(s)
    <3>1. t = UnionWrappedWithUnwrapped(r, s, pref)
      BY <1>3, <2>2 DEF UnionWith
    <3>2. r.lower \in Int /\ r.upper \in Int /\ s.lower \in Int /\ s.upper \in Int
      BY RangeFields, WordFacts
    <3>3. t \in {r, FullRange(w), OneGapClosed(r, s, pref), Between(w, r.lower, s.upper), Between(w, s.lower, r.upper)}
      BY <1>0, <3>1, <3>2 DEF UnionWrappedWithUnwrapped
    <3>4. OneGapClosed(r, s, pref) \in {Between(w, r.lower, s.upper), Between(w, s.lower, r.upper)}
      BY <1>0, PreferredIs DEF OneGapClosed
    <3> QED BY <1>0, <2>0, <3>3, <3>4 DEF Between, StartsBy
  <2>3. CASE ~IsUpperWrapped(r) /\ IsUpperWrapped(s)
    <3>1. t = UnionWrappedWithUnwrapped(s, r, pref)
      BY <1>3, <2>3 DEF UnionWith
    <3>2. r.lower \in Int /\ r.upper \in Int /\ s.lower \in Int /\ s.upper \in Int
      BY RangeFields, WordFacts
    <3>3. t \in {s, FullRange(w), OneGapClosed(s, r, pref), Between(w, r.lower, s.upper), Between(w, s.lower, r.upper)}
      BY <1>0, <3>1, <3>2 DEF UnionWrappedWithUnwrapped
    <3>4. OneGapClosed(s, r, pref) \in {Between(w, r.lower, s.upper), Between(w, s.lower, r.upper)}
      BY <1>0, PreferredIs DEF OneGapClosed
    <3> QED BY <1>0, <2>0, <3>3, <3>4 DEF Between, StartsBy
  <2>4. CASE ~IsUpperWrapped(r) /\ ~IsUpperWrapped(s)
    <3>1. t = UnionBothUnwrapped(r, s, pref)
      BY <1>3, <2>4 DEF UnionWith
    <3>2. OneGapClosed(r, s, pref) \in {Between(w, r.lower, s.upper), Between(w, s.lower, r.upper)}
      BY <1>0, PreferredIs DEF OneGapClosed
    <3>3. \/ t = OneGapClosed(r, s, pref) \/ t = FullRange(w)
          \/ \E x : t = Between(w, UMin(r.lower, s.lower), x)
      BY <1>0, <3>1 DEF UnionBothUnwrapped
    <3> QED BY <1>0, <2>0, <3>2, <3>3 DEF Between, StartsBy, UMin
  <2> QED BY <2>1, <2>2, <2>3, <2>4
<1> QED BY <1>1, <1>2, <1>3

\* TruncWithUpperWrapped: a range that starts within the narrower type.
LEMMA TruncUpperContains ==
  ASSUME NEW dst, NEW w, Narrower(dst, w), NEW u \in BOOLEAN, NEW r \in ConstantRanges(w),
         StartsBy(r, HighEnd(dst, u))
  PROVE  LET t == TruncWithUpperWrapped(r, dst, u)
         IN /\ t \in ConstantRanges(dst)
            /\ \A v \in Word(w) : Contains(r, v) => Contains(t, Cut(dst, v))
<1> DEFINE h == HighEnd(dst, u)
           t == TruncWithUpperWrapped(r, dst, u)
<1>0. /\ IsWidth(dst) /\ IsWidth(w) /\ r.width = w
      /\ 2 * Size(dst) <= Size(w) /\ Size(w) \in Int /\ Size(dst) \in Int /\ 2 <= Size(dst)
      /\ Size(dst) = 2 * SMinValue(dst) /\ SMinValue(dst) \in Int /\ 1 <= SMinValue(dst)
  BY NarrowerFacts, TypeIs, RangeFields DEF Narrower
<1>1. h \in Int /\ h = IF u THEN Size(dst) - 1 ELSE SMinValue(dst) - 1
  BY <1>0 DEF HighEnd, UMaxValue, SMaxValue
<1> HIDE DEF h
<1>2. Cut(w, h + 1) = h + 1
  BY <1>0, <1>1, CutFacts
<1>3. CASE r.upper # h + 1
  <2>1. t = Truncate(r, dst)
    BY <1>0, <1>2, <1>3 DEF TruncWithUpperWrapped, h
  <2> QED BY <2>1, TruncateContains
<1>4. CASE r.upper = h + 1
  <2>1. ~IsFullSet(r)
    BY <1>0, <1>1, <1>4 DEF IsFullSet, UMaxValue
  <2>2. r.lower \in Int /\ 0 <= r.lower /\ r.lower <= h /\ r.lower < Size(dst)
    BY <1>0, <1>1, <2>1, RangeFields, WordFacts DEF StartsBy, h
  <2>3. Cut(w, r.upper - 1) = h /\ Cut(dst, h) = h /\ Cut(dst, r.lower) = r.lower
    BY <1>0, <1>1, <1>4, <2>2, CutFacts
  <2>4. t = NonEmpty(dst, r.lower, Cut(dst, h + 1))
    BY <1>0, <1>2, <1>4, <2>3 DEF TruncWithUpperWrapped, h, Trunc
  <2>5. Cut(dst, h + 1) = IF u THEN 0 ELSE h + 1
    BY <1>0, <1>1, CutFacts
  <2>6. ASSUME NEW v \in Word(w), Contains(r, v)
        PROVE  v \in Int /\ r.lower <= v /\ v <= h /\ Cut(dst, v) = v
    <3>1. v \in Int /\ 0 <= v
      BY <1>0, WordFacts
    <3>2. r.lower <= v /\ v <= h
      BY <1>1, <1>4, <2>2, <2>6, <3>1 DEF Contains, IsUpperWrapped
    <3> QED BY <1>0, <1>1, <3>1, <3>2, CutFacts
  <2>7. CASE r.lower = Cut(dst, h + 1)
    BY <1>0, <2>4, <2>7, TrivialRanges, TrivialContents DEF NonEmpty
  <2>8. CASE r.lower # Cut(dst, h + 1)
    <3>1. t = Between(dst, r.lower, IF u THEN 0 ELSE h + 1)
      BY <2>4, <2>5, <2>8 DEF NonEmpty
    <3>2. r.lower \in Word(dst) /\ (IF u THEN 0 ELSE h + 1) \in Word(dst)
      BY <1>0, <1>1, <2>2 DEF Word
    <3>3. t \in ConstantRanges(dst)
      BY <1>0, <2>5, <2>8, <3>1, <3>2, ProperRange
    <3>4. \A v \in Int : r.lower <= v /\ v <= h => Contains(Between(dst, r.lower, IF u THEN 0 ELSE h + 1), v)
      BY <1>1, <2>2, <2>5, <2>8 DEF Contains, Between, IsUpperWrapped
    <3> QED BY <2>6, <3>1, <3>3, <3>4
  <2> QED BY <2>7, <2>8
<1> QED BY <1>3, <1>4

UnsignedToSigned(u, du) == u /\ ~du

\* NCU2SInner: an unsigned range that does not wrap, in a type that is no wider.
LEMMA U2SInnerContains ==
  ASSUME NEW w, NEW dst, Related(w, dst), dst <= w, NEW ov \in CastKinds,
         NEW u \in BOOLEAN, NEW du \in BOOLEAN, UnsignedToSigned(u, du), NEW src \in ConstantRanges(w), ~Wraps(src, u)
  PROVE  CastSound(src, w, u, dst, du, ov, NCU2SInner(src, dst, ov))
<1> DEFINE t == NCU2SInner(src, dst, ov)
           h == SMaxValue(dst)
           unchanged == IntersectWith(From(w, "LE", h, FALSE), src, "Unsigned")
           cut(r) == IF w > dst THEN TruncWithUpperWrapped(r, dst, du) ELSE r
           clipped == UnionWith(unchanged, Single(w, h), "Signed")
<1>0. /\ IsWidth(w) /\ IsWidth(dst) /\ w \in Nat /\ dst \in Nat /\ src.width = w
      /\ w > dst => Narrower(dst, w)
  BY RangeFields DEF Related
<1>1. /\ SMinValue(dst) \in Int /\ 1 <= SMinValue(dst) /\ Size(dst) = 2 * SMinValue(dst) /\ Size(w) \in Int
      /\ Size(dst) <= Size(w) /\ h = SMinValue(dst) - 1 /\ h \in Int /\ h \in Word(w) /\ h \in Word(dst)
      /\ HighEnd(dst, du) = h /\ MaxOf(dst, du) = h /\ MinOf(dst, du) = -SMinValue(dst)
  <2>1. /\ SMinValue(dst) \in Int /\ 1 <= SMinValue(dst) /\ Size(dst) = 2 * SMinValue(dst) /\ Size(w) \in Int
    BY <1>0, TypeIs
  <2>2. Size(dst) <= Size(w)
    <3>1. CASE w = dst
      BY <2>1, <3>1
    <3>2. CASE w > dst
      BY <1>0, <2>1, <3>2, NarrowerFacts
    <3> QED BY <1>0, <3>1, <3>2
  <2> QED BY <2>1, <2>2 DEF SMaxValue, Word, HighEnd, MaxOf, MinOf, UnsignedToSigned
<1> HIDE DEF h
<1>2. /\ unchanged \in ConstantRanges(w)
      /\ \A x \in Word(w) : Contains(src, x) /\ x <= h => Contains(unchanged, x)
      /\ \A x \in Word(w) : Contains(unchanged, x) => x <= h
  <2>1. Prefer(u) = "Unsigned" /\ (~u) = FALSE /\ \A v \in Word(w) : Val(w, u, v) = v
    BY DEF Prefer, Val, UnsignedToSigned
  <2>2. unchanged = IntersectWith(From(w, "LE", h, ~u), src, Prefer(u))
    BY <2>1
  <2> DEFINE i == IntersectWith(From(w, "LE", h, ~u), src, Prefer(u))
  <2>3. /\ i \in ConstantRanges(w)
        /\ \A x \in Word(w) : Contains(src, x) /\ Val(w, u, x) <= Val(w, u, h) => Contains(i, x)
        /\ \A x \in Word(w) : Contains(i, x) => Val(w, u, x) <= Val(w, u, h)
    BY <1>0, <1>1, PartsAre
  <2>4. unchanged = i
    BY <2>2
  <2> HIDE DEF unchanged, i
  <2> QED BY <1>1, <2>1, <2>3, <2>4
<1> HIDE DEF unchanged
<1>3. StartsBy(unchanged, h)
  <2>1. CASE IsEmptySet(unchanged)
    BY <1>1, <2>1 DEF StartsBy, IsEmptySet
  <2>2. CASE ~IsEmptySet(unchanged)
    BY <1>0, <1>2, <2>2, LowerContained, RangeFields DEF StartsBy
  <2> QED BY <2>1, <2>2
<1>4. /\ clipped \in ConstantRanges(w) /\ Contains(clipped, h) /\ StartsBy(clipped, h)
      /\ \A x \in Word(w) : Contains(unchanged, x) => Contains(clipped, x)
  <2>1. Single(w, h) \in ConstantRanges(w) /\ Contains(Single(w, h), h)
    BY <1>0, <1>1, SingleContents
  <2>2. StartsBy(Single(w, h), h)
    BY <1>1 DEF StartsBy, Single, Between
  <2> QED BY <1>0, <1>1, <1>2, <1>3, <2>1, <2>2, UnionContains, UnionStarts
<1> HIDE DEF clipped
<1>5. ASSUME NEW r \in ConstantRanges(w), StartsBy(r, h)
      PROVE  /\ cut(r) \in ConstantRanges(dst)
             /\ \A v \in Word(w) : Contains(r, v) => Contains(cut(r), Cut(dst, v))
  <2>1. CASE w = dst
    <3>1. \A v \in Word(w) : Cut(dst, v) = v
      BY <1>0, <2>1, WordFacts, CutFacts
    <3>2. cut(r) = r
      BY <1>0, <2>1
    <3> HIDE DEF cut
    <3> QED BY <1>5, <2>1, <3>1, <3>2
  <2>2. CASE w > dst
    <3>1. cut(r) = TruncWithUpperWrapped(r, dst, du) /\ Narrower(dst, w) /\ StartsBy(r, HighEnd(dst, du))
      BY <1>0, <1>1, <1>5, <2>2
    <3> HIDE DEF cut
    <3> QED BY <3>1, TruncUpperContains
  <2> QED BY <1>0, <2>1, <2>2
<1>6. t = IF IsEmptySet(src) THEN EmptyRange(dst)
          ELSE IF unchanged = src \/ ov = "THROWING" THEN cut(unchanged)
          ELSE IF ov = "SATURATING" THEN cut(clipped)
          ELSE IF w = dst THEN src ELSE FullRange(dst)
  <2>1. du = FALSE
    BY DEF UnsignedToSigned
  <2> QED BY <1>0, <2>1 DEF NCU2SInner, unchanged, clipped, h
<1>7. /\ cut(unchanged) \in ConstantRanges(dst) /\ cut(clipped) \in ConstantRanges(dst)
      /\ \A v \in Word(w) : Contains(unchanged, v) => Contains(cut(unchanged), Cut(dst, v))
      /\ \A v \in Word(w) : Contains(clipped, v) => Contains(cut(clipped), Cut(dst, v))
  BY <1>2, <1>3, <1>4, <1>5
<1> HIDE DEF cut
<1>8. t \in ConstantRanges(dst)
  BY <1>0, <1>6, <1>7, TrivialRanges
<1> HIDE DEF t
<1>9. ASSUME NEW a \in Word(w), Contains(src, a), ~(ov = "THROWING" /\ CastOverflows(w, u, dst, du, a))
      PROVE  Contains(t, CastFolded(w, u, dst, du, ov, a))
  <2> DEFINE c == CastFolded(w, u, dst, du, ov, a)
  <2>1. Val(w, u, a) = a /\ a \in Int /\ 0 <= a
    BY <1>0, WordFacts DEF Val, UnsignedToSigned
  <2>2. /\ ov # "SATURATING" \/ a <= h => c = Cut(dst, a)
        /\ ov = "SATURATING" /\ a > h => c = h
    <3>1. /\ ov # "SATURATING" \/ (MinOf(dst, du) <= Val(w, u, a) /\ Val(w, u, a) <= MaxOf(dst, du))
             => c = Cut(dst, Val(w, u, a))
          /\ ov = "SATURATING" /\ Val(w, u, a) > MaxOf(dst, du) => c = MaxOf(dst, du)
      BY <1>0, CastFoldedIs
    <3> HIDE DEF c
    <3>2. MinOf(dst, du) <= a
      BY <1>1, <2>1
    <3> QED BY <1>1, <2>1, <3>1, <3>2
  <2> HIDE DEF c
  <2>3. ~IsEmptySet(src)
    BY <1>0, <1>9, TrivialContents
  <2>4. CASE a <= h
    <3>1. Contains(unchanged, a) /\ c = Cut(dst, a)
      BY <1>2, <1>9, <2>2, <2>4
    <3>2. Contains(cut(unchanged), c) /\ Contains(cut(clipped), c)
      BY <1>4, <1>7, <3>1
    <3>3. w = dst => c = a
      BY <1>0, <2>1, <3>1, WordFacts, CutFacts
    <3> QED BY <1>0, <1>6, <1>9, <2>3, <3>2, <3>3, TrivialRanges, TrivialContents DEF c
  <2>5. CASE a > h
    <3>1. ~Contains(unchanged, a) /\ unchanged # src
      BY <1>1, <1>2, <1>9, <2>1, <2>5
    <3>2. ov # "THROWING"
      <4>1. ~InType(dst, du, a)
        BY <1>1, <2>1, <2>5 DEF InType
      <4> QED BY <1>9, <2>1, <4>1 DEF CastOverflows
    <3>3. CASE ov = "SATURATING"
      <4>1. c = h /\ Cut(dst, h) = h
        BY <1>0, <1>1, <2>2, <2>5, <3>3, WordFacts, CutFacts
      <4> QED BY <1>1, <1>4, <1>6, <1>7, <2>3, <3>1, <3>3, <4>1 DEF c
    <3>4. CASE ov = "WRAPPING"
      <4>1. w = dst => c = a
        BY <1>0, <2>1, <2>2, <3>4, WordFacts, CutFacts
      <4> QED BY <1>0, <1>6, <1>9, <2>3, <3>1, <3>4, <4>1, TrivialRanges, TrivialContents DEF c
    <3> QED BY <3>2, <3>3, <3>4 DEF CastKinds
  <2> QED BY <1>1, <2>1, <2>4, <2>5 DEF c
<1> QED BY <1>8, <1>9 DEF CastSound, t

LEMMA U2SContains ==
  ASSUME NEW w, NEW dst, Related(w, dst), NEW ov \in CastKinds, NEW r \in ConstantRanges(w),
         NEW u \in BOOLEAN, NEW du \in BOOLEAN, UnsignedToSigned(u, du)
  PROVE  CastSound(r, w, u, dst, du, ov, NumericConversionU2S(r, dst, ov))
<1> DEFINE t == NumericConversionU2S(r, dst, ov)
<1>0. IsWidth(w) /\ IsWidth(dst) /\ w \in Nat /\ dst \in Nat /\ r.width = w
  BY RangeFields DEF Related
<1>1. CASE dst > w
  <2>0. Narrower(w, dst)
    BY <1>1, <1>0 DEF Related
  <2>1. t = ZeroExtend(r, dst)
    BY <1>0, <1>1 DEF NumericConversionU2S
  <2>2. ASSUME NEW a \in Word(w) PROVE CastFolded(w, u, dst, du, ov, a) = a
    <3>1. a \in Int /\ 0 <= a /\ a < Size(w) /\ Val(w, u, a) = a
      BY <1>0, WordFacts DEF Val, UnsignedToSigned
    <3>2. /\ 2 * Size(w) <= Size(dst) /\ Size(dst) \in Int /\ Size(dst) = 2 * SMinValue(dst) /\ SMinValue(dst) \in Int
          /\ Size(w) \in Int /\ MinOf(dst, du) = -SMinValue(dst) /\ MaxOf(dst, du) = SMinValue(dst) - 1
      BY <1>0, <2>0, NarrowerFacts, TypeIs DEF UnsignedToSigned
    <3>3. CastFolded(w, u, dst, du, ov, a) = Cut(dst, a)
      <4>1. MinOf(dst, du) <= a /\ a <= MaxOf(dst, du)
        BY <3>1, <3>2
      <4> QED BY <1>0, <3>1, <4>1, CastFoldedIs
    <3> QED BY <1>0, <3>1, <3>2, <3>3, CutFacts
  <2>3. t \in ConstantRanges(dst) /\ \A a \in Word(w) : Contains(r, a) => Contains(t, a)
    BY <2>0, <2>1, ZeroExtendContains
  <2> QED BY <2>2, <2>3 DEF CastSound
<1>2. CASE ~(dst > w) /\ ~IsWrappedSet(r)
  <2>1. t = NCU2SInner(r, dst, ov) /\ ~Wraps(r, u) /\ dst <= w
    BY <1>0, <1>2 DEF NumericConversionU2S, Wraps, UnsignedToSigned
  <2> QED BY <2>1, U2SInnerContains
<1>3. CASE ~(dst > w) /\ IsWrappedSet(r)
  <2> DEFINE p == SplitWrapping(r, u)
  <2>1. t = UnionWith(NCU2SInner(p[1], dst, ov), NCU2SInner(p[2], dst, ov), "Signed") /\ Wraps(r, u) /\ dst <= w
    BY <1>0, <1>3 DEF NumericConversionU2S, Wraps, UnsignedToSigned
  <2>2. \A i \in {1, 2} : CastSound(p[i], w, u, dst, du, ov, NCU2SInner(p[i], dst, ov))
    BY <1>0, <2>1, SplitWrappingCovers, U2SInnerContains
  <2> QED BY <1>0, <2>1, <2>2, PartsSound
<1> QED BY <1>1, <1>2, <1>3

-----------------------------------------------------------------------------
(* Casts from signed to unsigned.                                          *)

SignedToUnsigned(u, du) == ~u /\ du

\* A range of words below m is an interval that does not wrap.
LEMMA BelowIs ==
  ASSUME NEW w, IsWidth(w), NEW r \in ConstantRanges(w), NEW m \in Int, m < Size(w),
         \A x \in Word(w) : Contains(r, x) => x < m
  PROVE  IsEmptySet(r) \/ (r.lower < r.upper /\ r.upper <= m)
<1> SUFFICES ASSUME ~IsEmptySet(r) PROVE r.lower < r.upper /\ r.upper <= m
  OBVIOUS
<1>1. r.lower \in Word(w) /\ r.upper \in Word(w)
  BY RangeFields
<1>2. r.lower \in Int /\ r.upper \in Int /\ 0 <= r.upper /\ r.upper < Size(w) /\ r.lower < Size(w) /\ 0 <= r.lower
      /\ Size(w) \in Int /\ 2 <= Size(w)
  BY <1>1, WordFacts
<1>3. Size(w) - 1 \in Word(w) /\ ~Contains(r, Size(w) - 1)
  BY <1>2 DEF Word
<1>4. r.lower < r.upper
  <2>1. ~IsFullSet(r)
    BY <1>3, TrivialContents
  <2>2. r.lower # r.upper
    BY <2>1, RangeFields DEF IsFullSet, IsEmptySet
  <2> QED BY <1>2, <1>3, <2>2 DEF Contains, IsUpperWrapped
<1>5. r.upper - 1 \in Word(w) /\ Contains(r, r.upper - 1)
  BY <1>2, <1>4 DEF Contains, IsUpperWrapped, Word
<1> QED BY <1>2, <1>4, <1>5

\* The part of a range without the negative values.
LEMMA NonNegativeContents ==
  ASSUME NEW w, IsWidth(w), NEW u \in BOOLEAN, NEW du \in BOOLEAN, SignedToUnsigned(u, du),
         NEW src \in ConstantRanges(w)
  PROVE  LET n == NonNegative(src)
         IN /\ n \in ConstantRanges(w)
            /\ \A x \in Word(w) : Contains(src, x) /\ x < SMinValue(w) => Contains(n, x)
            /\ \A x \in Word(w) : Contains(n, x) => x < SMinValue(w)
            /\ IsEmptySet(n) \/ (n.lower < n.upper /\ n.upper <= SMinValue(w))
<1> DEFINE n == NonNegative(src)
           f == From(w, "GE", 0, ~u)
<1>0. /\ src.width = w /\ 0 \in Word(w) /\ Size(w) \in Int /\ Size(w) = 2 * SMinValue(w) /\ SMinValue(w) \in Int
      /\ 1 <= SMinValue(w)
  BY RangeFields, BoundsAre, TypeIs
<1>1. n = IntersectWith(src, f, Prefer(u))
  BY <1>0 DEF NonNegative, SignedToUnsigned, Prefer
<1>2. f \in ConstantRanges(w) /\ ~Wraps(f, u) /\ \A x \in Word(w) : Contains(f, x) <=> Val(w, u, 0) <= Val(w, u, x)
  BY <1>0, FromGE
<1>3. \A x \in Word(w) : Contains(f, x) <=> x < SMinValue(w)
  BY <1>0, <1>2, WordFacts DEF Val, SVal, IsNeg, SignedToUnsigned
<1> HIDE DEF n, f
<1>4. n \in ConstantRanges(w) /\ \A x \in Word(w) : Contains(src, x) /\ x < SMinValue(w) => Contains(n, x)
  BY <1>1, <1>2, <1>3, IntersectionContains
<1>5. \A x \in Word(w) : Contains(n, x) => x < SMinValue(w)
  BY <1>1, <1>2, <1>3, IntersectionWithin
<1>6. IsEmptySet(n) \/ (n.lower < n.upper /\ n.upper <= SMinValue(w))
  BY <1>0, <1>4, <1>5, BelowIs
<1> QED BY <1>4, <1>5, <1>6 DEF n

\* The part of a range of nonnegative values that fits a narrower unsigned type.
LEMMA FittingContents ==
  ASSUME NEW dst, NEW w, Narrower(dst, w), NEW u \in BOOLEAN, NEW du \in BOOLEAN, SignedToUnsigned(u, du),
         NEW n \in ConstantRanges(w), IsEmptySet(n) \/ (n.lower < n.upper /\ n.upper <= SMinValue(w))
  PROVE  LET t == IntersectWith(n, From(w, "LE", UMaxValue(dst), TRUE), "Smallest")
         IN /\ t \in ConstantRanges(w)
            /\ \A x \in Word(w) : Contains(n, x) /\ x <= UMaxValue(dst) => Contains(t, x)
            /\ \A x \in Word(w) : Contains(t, x) => x <= UMaxValue(dst) /\ Contains(n, x)
            /\ StartsBy(t, UMaxValue(dst))
<1> DEFINE h == UMaxValue(dst)
           f == From(w, "LE", h, ~u)
           t == IntersectWith(n, f, "Smallest")
<1>0. /\ IsWidth(dst) /\ IsWidth(w)
      /\ Size(dst) <= SMinValue(w) /\ Size(w) \in Int /\ Size(dst) \in Int /\ 2 <= Size(dst)
      /\ Size(w) = 2 * SMinValue(w) /\ SMinValue(w) \in Int
  BY NarrowerFacts, TypeIs DEF Narrower
<1>1. h = Size(dst) - 1 /\ h \in Word(w) /\ h \in Int
  BY <1>0 DEF UMaxValue, Word
<1> HIDE DEF h
<1>2. From(w, "LE", h, TRUE) = f
  BY DEF SignedToUnsigned
<1>3. f \in ConstantRanges(w) /\ \A x \in Word(w) : Contains(f, x) <=> Val(w, u, x) <= Val(w, u, h)
  BY <1>0, <1>1, FromLE
<1>4. \A x \in Word(w) : x < SMinValue(w) => (Contains(f, x) <=> x <= h)
  BY <1>0, <1>1, <1>3, WordFacts DEF Val, SVal, IsNeg, SignedToUnsigned
<1>5. f = IF h = SMaxValue(w) THEN FullRange(w) ELSE Between(w, SMinValue(w), Cut(w, h + 1))
  BY DEF From, SignedToUnsigned
<1>6. Cut(w, h + 1) = Size(dst)
  BY <1>0, <1>1, CutFacts
<1> HIDE DEF f
<1>7. ASSUME NEW x \in Word(w), Contains(n, x) PROVE x < SMinValue(w)
  <2>1. n.lower < n.upper /\ n.upper <= SMinValue(w) /\ n.lower \in Int /\ n.upper \in Int /\ x \in Int
    BY <1>0, <1>7, TrivialContents, RangeFields, WordFacts
  <2> QED BY <1>0, <1>7, <2>1 DEF Contains, IsUpperWrapped
<1>8. t \in ConstantRanges(w) /\ \A x \in Word(w) : Contains(n, x) /\ x <= h => Contains(t, x)
  BY <1>0, <1>3, <1>4, <1>7, IntersectionContains
<1>9. ASSUME NEW x \in Word(w), Contains(t, x) PROVE x <= h /\ Contains(n, x)
  <2>1. CASE IsEmptySet(n)
    <3>1. t = n
      BY <2>1 DEF IntersectWith
    <3> QED BY <1>0, <1>9, <2>1, <3>1, TrivialContents
  <2>2. CASE ~IsEmptySet(n) /\ h = SMaxValue(w)
    <3>1. IsFullSet(f)
      BY <1>0, <1>5, <2>2, TrivialRanges
    <3>2. t = n
      BY <3>1 DEF IntersectWith
    <3>3. x \in Int /\ Contains(n, x)
      BY <1>0, <1>9, <3>2, WordFacts
    <3> QED BY <1>0, <1>7, <2>2, <3>3 DEF SMaxValue
  <2>3. CASE ~IsEmptySet(n) /\ h # SMaxValue(w)
    <3>1. f.lower = SMinValue(w) /\ f.upper = Size(dst) /\ f.width = w /\ Size(dst) < SMinValue(w)
      BY <1>0, <1>1, <1>5, <1>6, <2>3 DEF Between, SMaxValue
    <3>2. /\ n.lower \in Int /\ n.upper \in Int /\ 0 <= n.lower /\ n.lower < n.upper /\ n.upper <= SMinValue(w)
          /\ n.upper < Size(w) /\ n.width = w
      BY <1>0, <2>3, RangeFields, WordFacts
    <3>3. t = IntersectWrappedWithUnwrapped(f, n, "Smallest")
      BY <1>0, <3>1, <3>2 DEF IntersectWith, IsEmptySet, IsFullSet, IsUpperWrapped
    <3>4. t = IF n.lower >= Size(dst) THEN EmptyRange(w)
              ELSE IF n.upper < Size(dst) THEN n ELSE Between(w, n.lower, Size(dst))
      BY <1>0, <3>1, <3>2, <3>3 DEF IntersectWrappedWithUnwrapped
    <3> HIDE DEF t
    <3>5. x \in Int /\ 0 <= x
      BY <1>0, WordFacts
    <3> QED BY <1>0, <1>1, <1>9, <3>2, <3>4, <3>5 DEF Contains, IsUpperWrapped, EmptyRange, Between, IsFullSet, UMaxValue
  <2> QED BY <2>1, <2>2, <2>3
<1> HIDE DEF t
<1>10. StartsBy(t, h)
  <2>1. CASE IsEmptySet(t)
    BY <1>0, <1>1, <2>1 DEF StartsBy, IsEmptySet
  <2>2. CASE ~IsEmptySet(t)
    BY <1>0, <1>8, <1>9, <2>2, LowerContained, RangeFields DEF StartsBy
  <2> QED BY <2>1, <2>2
<1> QED BY <1>2, <1>8, <1>9, <1>10 DEF t, h

\* NCS2UInner: a signed range, in a narrower unsigned type.
LEMMA S2UTruncContains ==
  ASSUME NEW w, NEW dst, Narrower(dst, w), NEW ov \in CastKinds,
         NEW u \in BOOLEAN, NEW du \in BOOLEAN, SignedToUnsigned(u, du), NEW src \in ConstantRanges(w)
  PROVE  CastSound(src, w, u, dst, du, ov, NCS2UInnerTrunc(src, dst, ov))
<1> DEFINE t == NCS2UInnerTrunc(src, dst, ov)
           h == UMaxValue(dst)
           n == NonNegative(src)
           neg == Difference(src, n)
           unchanged == IntersectWith(n, From(w, "LE", h, TRUE), "Smallest")
           withMin == IF IsEmptySet(neg) THEN unchanged ELSE UnionWith(unchanged, Single(w, 0), "Unsigned")
           withMax == IF unchanged = n THEN withMin ELSE UnionWith(withMin, Single(w, h), "Unsigned")
           cut(r) == TruncWithUpperWrapped(r, dst, du)
<1>0. /\ IsWidth(dst) /\ IsWidth(w) /\ src.width = w
      /\ Size(dst) <= SMinValue(w) /\ Size(w) \in Int /\ Size(dst) \in Int /\ 2 <= Size(dst)
      /\ Size(w) = 2 * SMinValue(w) /\ SMinValue(w) \in Int
  BY NarrowerFacts, TypeIs, RangeFields DEF Narrower
<1>1. /\ h = Size(dst) - 1 /\ h \in Word(w) /\ h \in Word(dst) /\ h \in Int /\ 0 \in Word(w) /\ 0 \in Word(dst) /\ 0 <= h
      /\ HighEnd(dst, du) = h /\ MinOf(dst, du) = 0 /\ MaxOf(dst, du) = h
  BY <1>0 DEF UMaxValue, Word, HighEnd, MinOf, MaxOf, SignedToUnsigned
<1>2. t = IF IsEmptySet(src) THEN EmptyRange(dst)
          ELSE IF unchanged = src \/ ov = "THROWING" THEN cut(unchanged)
          ELSE IF ov = "SATURATING" THEN cut(withMax) ELSE FullRange(dst)
  <2>1. du = TRUE
    BY DEF SignedToUnsigned
  <2> QED BY <1>0, <2>1 DEF NCS2UInnerTrunc
<1> HIDE DEF h, t
<1>3. /\ n \in ConstantRanges(w)
      /\ \A x \in Word(w) : Contains(src, x) /\ x < SMinValue(w) => Contains(n, x)
      /\ \A x \in Word(w) : Contains(n, x) => x < SMinValue(w)
      /\ IsEmptySet(n) \/ (n.lower < n.upper /\ n.upper <= SMinValue(w))
  BY <1>0, NonNegativeContents
<1> HIDE DEF n
<1>4. /\ unchanged \in ConstantRanges(w)
      /\ \A x \in Word(w) : Contains(n, x) /\ x <= h => Contains(unchanged, x)
      /\ \A x \in Word(w) : Contains(unchanged, x) => x <= h
      /\ StartsBy(unchanged, h)
  BY <1>3, FittingContents DEF h
<1> HIDE DEF unchanged
<1>5. \A x \in Word(w) : Contains(src, x) /\ ~Contains(n, x) => ~IsEmptySet(neg)
  BY <1>0, <1>3, DifferenceContains
<1> HIDE DEF neg
<1>6. /\ Single(w, 0) \in ConstantRanges(w) /\ Contains(Single(w, 0), 0) /\ StartsBy(Single(w, 0), h)
      /\ Single(w, h) \in ConstantRanges(w) /\ Contains(Single(w, h), h) /\ StartsBy(Single(w, h), h)
  BY <1>0, <1>1, SingleContents DEF StartsBy, Single, Between
<1>7. /\ withMin \in ConstantRanges(w) /\ StartsBy(withMin, h)
      /\ \A x \in Word(w) : Contains(unchanged, x) => Contains(withMin, x)
      /\ ~IsEmptySet(neg) => Contains(withMin, 0)
  BY <1>0, <1>1, <1>4, <1>6, UnionContains, UnionStarts
<1> HIDE DEF withMin
<1>8. /\ withMax \in ConstantRanges(w) /\ StartsBy(withMax, h)
      /\ \A x \in Word(w) : Contains(withMin, x) => Contains(withMax, x)
      /\ unchanged # n => Contains(withMax, h)
  BY <1>0, <1>1, <1>6, <1>7, UnionContains, UnionStarts
<1> HIDE DEF withMax
<1>9. /\ cut(unchanged) \in ConstantRanges(dst) /\ cut(withMax) \in ConstantRanges(dst)
      /\ \A v \in Word(w) : Contains(unchanged, v) => Contains(cut(unchanged), Cut(dst, v))
      /\ \A v \in Word(w) : Contains(withMax, v) => Contains(cut(withMax), Cut(dst, v))
  BY <1>1, <1>4, <1>8, TruncUpperContains
<1> HIDE DEF cut
<1>10. t \in ConstantRanges(dst)
  BY <1>0, <1>2, <1>9, TrivialRanges
<1>11. ASSUME NEW a \in Word(w), Contains(src, a), ~(ov = "THROWING" /\ CastOverflows(w, u, dst, du, a))
       PROVE  Contains(t, CastFolded(w, u, dst, du, ov, a))
  <2> DEFINE c == CastFolded(w, u, dst, du, ov, a)
             x == Val(w, u, a)
  <2>1. a \in Int /\ 0 <= a /\ a < Size(w) /\ x \in Int /\ x = IF a < SMinValue(w) THEN a ELSE a - Size(w)
    BY <1>0, WordFacts DEF Val, SVal, IsNeg, SignedToUnsigned
  <2>2. /\ ov # "SATURATING" \/ (0 <= x /\ x <= h) => c = Cut(dst, x)
        /\ ov = "SATURATING" /\ x < 0 => c = Cut(dst, 0)
        /\ ov = "SATURATING" /\ x > h => c = h
    BY <1>0, <1>1, CastFoldedIs
  <2>3. ~IsEmptySet(src)
    BY <1>0, <1>11, TrivialContents
  <2>4. ov = "THROWING" => 0 <= x /\ x <= h
    BY <1>1, <1>11, <2>1 DEF CastOverflows, InType
  <2> HIDE DEF c, x
  <2>5. CASE a <= h
    <3>1. a < SMinValue(w)
      BY <1>0, <1>1, <2>1, <2>5
    <3>2. Contains(unchanged, a) /\ c = Cut(dst, a)
      BY <1>3, <1>4, <1>11, <2>1, <2>2, <2>5, <3>1
    <3>3. Contains(cut(unchanged), c) /\ Contains(cut(withMax), c)
      BY <1>7, <1>8, <1>9, <3>2
    <3> QED BY <1>0, <1>2, <2>3, <3>3, TrivialRanges, TrivialContents DEF c
  <2>6. CASE a > h
    <3>1. ~Contains(unchanged, a) /\ unchanged # src
      BY <1>1, <1>4, <1>11, <2>1, <2>6
    <3>2. ov # "THROWING"
      BY <1>0, <1>1, <2>1, <2>4, <2>6
    <3>3. CASE ov = "SATURATING" /\ a < SMinValue(w)
      <4>1. unchanged # n
        BY <1>3, <1>11, <3>1, <3>3
      <4>2. c = h /\ Cut(dst, h) = h
        BY <1>0, <1>1, <2>1, <2>2, <2>6, <3>3, CutFacts
      <4> QED BY <1>1, <1>2, <1>8, <1>9, <2>3, <3>1, <3>3, <4>1, <4>2 DEF c
    <3>4. CASE ov = "SATURATING" /\ ~(a < SMinValue(w))
      <4>1. ~IsEmptySet(neg)
        BY <1>3, <1>5, <1>11, <3>4
      <4>2. c = Cut(dst, 0)
        BY <1>0, <2>1, <2>2, <3>4
      <4> QED BY <1>1, <1>2, <1>7, <1>8, <1>9, <2>3, <3>1, <3>4, <4>1, <4>2 DEF c
    <3>5. CASE ov = "WRAPPING"
      BY <1>0, <1>2, <2>3, <3>1, <3>5, TrivialRanges, TrivialContents
    <3> QED BY <3>2, <3>3, <3>4, <3>5 DEF CastKinds
  <2> QED BY <1>1, <2>1, <2>5, <2>6
<1> QED BY <1>10, <1>11 DEF CastSound, t

\* What is left of a signed range without its nonnegative values: an interval of
\* negative values.
LEMMA NegativeContents ==
  ASSUME NEW w, IsWidth(w), NEW u \in BOOLEAN, NEW du \in BOOLEAN, SignedToUnsigned(u, du),
         NEW src \in ConstantRanges(w), NEW x \in Word(w),
         Contains(Difference(src, NonNegative(src)), x)
  PROVE  SMinValue(w) <= x
<1> DEFINE m == SMinValue(w)
           f == From(w, "GE", 0, ~u)
           n == NonNegative(src)
           inv == InverseOf(n)
           d == Difference(src, n)
<1>0. /\ src.width = w /\ 0 \in Word(w) /\ Size(w) \in Int /\ Size(w) = 2 * m /\ m \in Int /\ 1 <= m
      /\ x \in Int /\ 0 <= x /\ x < Size(w)
  BY RangeFields, BoundsAre, TypeIs, WordFacts
<1>1. n = IntersectWith(src, f, "Signed")
  BY <1>0 DEF NonNegative, SignedToUnsigned
<1>2. f = Between(w, 0, m)
  <2>1. f = Between(w, 0, Cut(w, SMaxValue(w) + 1))
    BY <1>0 DEF From, SignedToUnsigned
  <2>2. Cut(w, SMaxValue(w) + 1) = m
    BY <1>0, CutFacts DEF SMaxValue
  <2> QED BY <2>1, <2>2
<1>3. /\ n \in ConstantRanges(w)
      /\ \A v \in Word(w) : Contains(src, v) /\ v < m => Contains(n, v)
      /\ \A v \in Word(w) : Contains(n, v) => v < m
      /\ IsEmptySet(n) \/ (n.lower < n.upper /\ n.upper <= m)
  BY <1>0, NonNegativeContents
<1>4. d = IntersectWith(src, inv, "Smallest")
  BY DEF Difference
<1> HIDE DEF n, f, d, m
<1>5. CASE IsEmptySet(n)
  <2>1. IsFullSet(inv)
    <3>1. ~IsFullSet(n)
      BY <1>0, <1>3, <1>5, TrivialContents
    <3>2. inv = FullRange(w)
      BY <1>3, <1>5, <3>1, RangeFields DEF InverseOf
    <3> QED BY <3>2, TrivialRanges
  <2>2. d = src
    BY <1>4, <2>1 DEF IntersectWith
  <2>3. Contains(src, x) /\ ~Contains(n, x)
    BY <1>3, <1>5, <2>2, TrivialContents DEF d, n
  <2> QED BY <1>0, <1>3, <2>3 DEF m
<1>6. CASE ~IsEmptySet(n)
  <2>1. /\ n.lower \in Int /\ n.upper \in Int /\ 0 <= n.lower /\ n.lower < n.upper /\ n.upper <= m
        /\ n.width = w
    BY <1>3, <1>6, RangeFields, WordFacts
  <2>2. inv = Between(w, n.upper, n.lower)
    <3>1. ~IsFullSet(n)
      BY <2>1 DEF IsFullSet
    <3> QED BY <1>6, <2>1, <3>1 DEF InverseOf
  <2> HIDE DEF inv
  <2>3. Contains(d, x)
    BY DEF d, n
  <2>4. CASE IsFullSet(src)
    <3>1. n = f
      <4>1. ~IsEmptySet(f) /\ ~IsFullSet(f)
        BY <1>0, <1>2 DEF IsEmptySet, IsFullSet, Between
      <4>2. ~IsEmptySet(src)
        BY <1>0, <2>4, RangeFields DEF IsEmptySet, IsFullSet
      <4> QED BY <1>1, <2>4, <4>1, <4>2 DEF IntersectWith
    <3>2. inv = Between(w, m, 0)
      BY <1>2, <2>2, <3>1 DEF Between
    <3>3. ~IsFullSet(inv) /\ ~IsEmptySet(inv)
      BY <1>0, <3>2 DEF IsEmptySet, IsFullSet, Between
    <3>4. d = inv
      <4>2. ~IsEmptySet(src)
        BY <1>0, <2>4, RangeFields DEF IsEmptySet, IsFullSet
      <4> QED BY <1>4, <2>4, <3>3, <4>2 DEF IntersectWith
    <3> QED BY <1>0, <2>3, <3>2, <3>4 DEF Contains, IsUpperWrapped, Between, m
  <2>5. CASE ~IsFullSet(src) /\ IsEmptySet(src)
    <3>1. d = src
      BY <1>4, <2>5 DEF IntersectWith
    <3> QED BY <2>3, <2>5, <3>1, TrivialContents
  <2>6. CASE ~IsFullSet(src) /\ ~IsEmptySet(src)
    <3>1. /\ src.lower \in Int /\ src.upper \in Int /\ 0 <= src.lower /\ 0 <= src.upper
          /\ src.lower < Size(w) /\ src.upper < Size(w) /\ src.lower # src.upper
      BY <2>6, RangeFields, WordFacts DEF IsFullSet, IsEmptySet
    <3>2. /\ f.width = w /\ f.lower = 0 /\ f.upper = m
          /\ inv.width = w /\ inv.lower = n.upper /\ inv.upper = n.lower
      BY <1>2, <2>2 DEF Between
    <3>3. /\ ~IsEmptySet(f) /\ ~IsFullSet(f) /\ ~IsUpperWrapped(f)
          /\ ~IsEmptySet(inv) /\ ~IsFullSet(inv) /\ IsUpperWrapped(inv)
      BY <1>0, <2>1, <3>2 DEF IsEmptySet, IsFullSet, IsUpperWrapped
    <3>4. CASE ~IsUpperWrapped(src)
      <4>1. src.lower < src.upper
        BY <3>1, <3>4 DEF IsUpperWrapped
      <4>2. n = IntersectBothUnwrapped(src, f)
        BY <1>1, <2>6, <3>3, <3>4 DEF IntersectWith
      <4>3. n.lower = src.lower /\ n.upper = (IF src.upper <= m THEN src.upper ELSE m)
        BY <1>0, <1>6, <3>1, <3>2, <4>1, <4>2 DEF IntersectBothUnwrapped, Between, EmptyRange, IsEmptySet
      <4>4. d = IntersectWrappedWithUnwrapped(inv, src, "Smallest")
        BY <1>4, <2>6, <3>3, <3>4 DEF IntersectWith
      <4>5. d = IF src.upper <= m THEN EmptyRange(w) ELSE Between(w, m, src.upper)
        BY <1>0, <2>1, <3>1, <3>2, <4>1, <4>3, <4>4 DEF IntersectWrappedWithUnwrapped
      <4>6. d # EmptyRange(w)
        BY <2>3, TrivialRanges, TrivialContents
      <4>7. d = Between(w, m, src.upper) /\ m < src.upper
        BY <1>0, <3>1, <4>5, <4>6
      <4>8. Contains(d, x) <=> m <= x /\ x < src.upper
        BY <1>0, <3>1, <4>7 DEF Contains, IsUpperWrapped, Between
      <4> QED BY <2>3, <4>8 DEF m
    <3>5. CASE IsUpperWrapped(src)
      <4>1. src.upper < src.lower
        BY <3>1, <3>5 DEF IsUpperWrapped
      <4>2. n = IntersectWrappedWithUnwrapped(src, f, "Signed")
        BY <1>1, <2>6, <3>3, <3>5 DEF IntersectWith
      <4>3. d = IntersectBothWrapped(src, inv, "Smallest")
        BY <1>4, <2>6, <3>3, <3>5 DEF IntersectWith
      <4>4. CASE src.upper > m
        <5>1. n = f
          BY <1>0, <3>1, <3>2, <4>1, <4>2, <4>4 DEF IntersectWrappedWithUnwrapped
        <5>2. d = GetPreferredRange(src, inv, "Smallest")
          BY <1>0, <3>1, <3>2, <4>1, <4>3, <4>4, <5>1 DEF IntersectBothWrapped
        <5>3. Cut(w, src.upper - src.lower) = src.upper - src.lower + Size(w) /\ Cut(w, inv.upper - inv.lower) = m
          BY <1>0, <3>1, <3>2, <4>1, <5>1, CutFacts
        <5>4. ~IsSizeStrictlySmallerThan(src, inv)
          BY <1>0, <3>1, <3>3, <4>1, <4>4, <5>3 DEF IsSizeStrictlySmallerThan
        <5>5. d = inv
          BY <5>2, <5>4 DEF GetPreferredRange
        <5> QED BY <1>0, <2>3, <3>2, <5>1, <5>5 DEF Contains, IsUpperWrapped, m
      <4>5. CASE src.upper <= m /\ 0 < src.upper /\ m <= src.lower
        <5>1. n.lower = 0 /\ n.upper = src.upper
          BY <1>0, <3>1, <3>2, <4>2, <4>5 DEF IntersectWrappedWithUnwrapped, Between
        <5>2. d = Between(w, src.lower, 0)
          BY <1>0, <3>1, <3>2, <4>1, <4>3, <4>5, <5>1 DEF IntersectBothWrapped
        <5> QED BY <1>0, <2>3, <3>1, <4>5, <5>2 DEF Contains, IsUpperWrapped, Between, IsFullSet, UMaxValue, m
      <4>6. CASE src.upper <= m /\ 0 < src.upper /\ src.lower < m
        <5>1. n = GetPreferredRange(src, f, "Signed")
          BY <1>0, <3>1, <3>2, <4>2, <4>6 DEF IntersectWrappedWithUnwrapped
        <5>2. IsSignWrappedSet(src)
          BY <1>0, <3>1, <4>1, <4>6 DEF IsSignWrappedSet, IsUpperSignWrapped, Slt, SVal, IsNeg, m
        <5>3. ~IsSignWrappedSet(f)
          BY <3>2 DEF IsSignWrappedSet, m
        <5>4. n = f
          BY <5>1, <5>2, <5>3 DEF GetPreferredRange
        <5>5. d = inv
          BY <1>0, <3>1, <3>2, <4>1, <4>3, <4>6, <5>4 DEF IntersectBothWrapped
        <5> QED BY <1>0, <2>3, <3>2, <5>4, <5>5 DEF Contains, IsUpperWrapped, m
      <4>7. CASE src.upper = 0
        <5>1. n.lower = src.lower /\ n.upper = m /\ src.lower < m
          BY <1>0, <1>6, <3>1, <3>2, <4>1, <4>2, <4>7 DEF IntersectWrappedWithUnwrapped, Between, EmptyRange, IsEmptySet
        <5>2. d = Between(w, m, 0)
          BY <1>0, <3>1, <3>2, <4>1, <4>3, <4>7, <5>1 DEF IntersectBothWrapped
        <5> QED BY <1>0, <2>3, <5>2 DEF Contains, IsUpperWrapped, Between, IsFullSet, UMaxValue, m
      <4> QED BY <1>0, <3>1, <4>4, <4>5, <4>6, <4>7
    <3> QED BY <3>4, <3>5
  <2> QED BY <2>4, <2>5, <2>6
<1> QED BY <1>5, <1>6

\* A word and its sign extension, also when the type does not grow.
LEMMA ExtendedNegative ==
  ASSUME NEW w, NEW dst, IsWidth(w), IsWidth(dst), w = dst \/ Narrower(w, dst), NEW a \in Word(w), SMinValue(w) <= a
  PROVE  SExt(w, dst, a) \in Word(dst) /\ SExt(w, dst, a) = a - Size(w) + Size(dst) /\ Size(w) <= Size(dst)
<1>1. CASE w = dst
  <2>1. SVal(w, a) = a - Size(w) /\ a \in Int /\ 0 <= a /\ a < Size(w) /\ Size(w) \in Int
    BY WordFacts DEF SVal, IsNeg
  <2>2. SExt(w, dst, a) = Cut(w, a - Size(w))
    BY <1>1, <2>1 DEF SExt
  <2>3. Cut(w, a - Size(w)) = a
    BY <2>1, CutFacts
  <2> QED BY <1>1, <2>1, <2>2, <2>3
<1>2. CASE Narrower(w, dst)
  <2>1. IsNeg(w, a)
    BY WordFacts DEF IsNeg
  <2>2. Size(w) \in Int /\ 2 <= Size(w) /\ Size(dst) \in Int /\ 2 * Size(w) <= Size(dst)
    BY <1>2, WordFacts, NarrowerFacts
  <2>3. SExt(w, dst, a) \in Word(dst) /\ SExt(w, dst, a) = a - Size(w) + Size(dst)
    BY <1>2, <2>1, ExtendedWord
  <2> QED BY <2>2, <2>3
<1> QED BY <1>1, <1>2

\* The range of the sign extensions of an interval of negative values.
LEMMA ExtendedRange ==
  ASSUME NEW w, NEW dst, IsWidth(w), IsWidth(dst), w = dst \/ Narrower(w, dst), NEW r \in ConstantRanges(w),
         ~IsEmptySet(r), \A x \in Word(w) : Contains(r, x) => SMinValue(w) <= x
  PROVE  LET t == Between(dst, SExt(w, dst, SMinOf(r)), Cut(dst, SExt(w, dst, SMaxOf(r)) + 1))
         IN /\ t \in ConstantRanges(dst)
            /\ \A x \in Word(w) : Contains(r, x) => Contains(t, SExt(w, dst, x))
<1> DEFINE lo == SMinOf(r)
           hi == SMaxOf(r)
           m == SMinValue(w)
           e == Size(dst) - Size(w)
           t == Between(dst, SExt(w, dst, lo), Cut(dst, SExt(w, dst, hi) + 1))
<1>0. /\ 0 \in Word(w) /\ Size(w) \in Int /\ Size(w) = 2 * m /\ m \in Int /\ 1 <= m /\ Size(dst) \in Int
      /\ r.width = w /\ r.lower \in Word(w) /\ r.upper \in Word(w)
      /\ r.lower \in Int /\ r.upper \in Int /\ 0 <= r.lower /\ 0 <= r.upper /\ r.lower < Size(w) /\ r.upper < Size(w)
  BY RangeFields, BoundsAre, TypeIs, WordFacts
<1>1. ~Contains(r, 0)
  BY <1>0
<1>2. ~IsFullSet(r) /\ r.lower # r.upper
  <2>1. ~IsFullSet(r)
    BY <1>1, TrivialContents
  <2> QED BY <2>1, RangeFields DEF IsFullSet, IsEmptySet
<1>3. m <= r.lower
  BY <1>0, LowerContained
<1>4. r.upper = 0 \/ r.lower < r.upper
  BY <1>0, <1>1, <1>2 DEF Contains, IsUpperWrapped
<1>5. lo = r.lower
  BY <1>0, <1>2, <1>3, <1>4 DEF SMinOf, IsSignWrappedSet, IsUpperSignWrapped, Slt, SVal, IsNeg
<1>6. hi = IF r.upper = 0 THEN Size(w) - 1 ELSE r.upper - 1
  <2>1. /\ r.upper = 0 => Cut(w, r.upper - 1) = Size(w) - 1
        /\ 1 <= r.upper => Cut(w, r.upper - 1) = r.upper - 1
    BY <1>0, CutFacts
  <2>2. ~IsUpperSignWrapped(r) \/ r.upper = 0
    BY <1>0, <1>2, <1>3, <1>4 DEF IsUpperSignWrapped, Slt, SVal, IsNeg
  <2>3. ~IsUpperSignWrapped(r)
    BY <1>0, <1>2, <1>3, <1>4 DEF IsUpperSignWrapped, Slt, SVal, IsNeg
  <2> QED BY <1>0, <1>2, <2>1, <2>3 DEF SMaxOf
<1> HIDE DEF lo, hi
<1>7. lo \in Word(w) /\ hi \in Word(w) /\ m <= lo /\ lo <= hi /\ lo \in Int /\ hi \in Int /\ hi < Size(w)
  BY <1>0, <1>3, <1>4, <1>5, <1>6 DEF Word
<1>8. ASSUME NEW x \in Word(w), m <= x
      PROVE  x \in Int /\ SExt(w, dst, x) \in Word(dst) /\ SExt(w, dst, x) = x + e /\ 0 <= e
  <2>1. SExt(w, dst, x) \in Word(dst) /\ SExt(w, dst, x) = x - Size(w) + Size(dst) /\ Size(w) <= Size(dst)
    BY <1>8, ExtendedNegative
  <2> QED BY <1>0, <2>1, WordFacts
<1>9. e \in Int /\ 0 <= e /\ Size(w) + e = Size(dst)
  BY <1>0, <1>7, <1>8
<1>10. /\ SExt(w, dst, lo) \in Word(dst) /\ SExt(w, dst, lo) = lo + e /\ SExt(w, dst, hi) = hi + e
  BY <1>0, <1>7, <1>8
<1> HIDE DEF e, m
<1> DEFINE up == Cut(dst, SExt(w, dst, hi) + 1)
<1>11. /\ up \in Word(dst)
       /\ up = IF hi = Size(w) - 1 THEN 0 ELSE hi + e + 1
  <2>1. hi + e + 1 \in Int /\ 0 <= hi + e + 1 /\ hi + e + 1 <= Size(dst) /\ (hi + e + 1 = Size(dst) <=> hi = Size(w) - 1)
    BY <1>0, <1>7, <1>9
  <2>2. SExt(w, dst, hi) + 1 = hi + e + 1
    BY <1>7, <1>9, <1>10
  <2>3. Cut(dst, hi + e + 1) \in Word(dst)
        /\ (hi + e + 1 < Size(dst) => Cut(dst, hi + e + 1) = hi + e + 1)
        /\ (hi + e + 1 = Size(dst) => Cut(dst, hi + e + 1) = 0)
    <3>1. PICK i \in Int : i = hi + e + 1
      BY <2>1
    <3> QED BY <1>0, <1>7, <1>9, <2>1, <3>1, CutFacts
  <2> QED BY <1>0, <2>1, <2>2, <2>3
<1>12. t = Between(dst, lo + e, up) /\ lo + e # up /\ lo + e \in Word(dst)
  BY <1>0, <1>7, <1>9, <1>10, <1>11
<1> HIDE DEF up, t
<1>13. t \in ConstantRanges(dst)
  BY <1>11, <1>12, ProperRange
<1>14. ASSUME NEW x \in Word(w), Contains(r, x) PROVE Contains(t, SExt(w, dst, x))
  <2>1. m <= x /\ x \in Int /\ SExt(w, dst, x) = x + e
    BY <1>8, <1>14 DEF m
  <2>2. lo <= x /\ x <= hi
    BY <1>0, <1>2, <1>4, <1>5, <1>6, <1>14, <2>1, WordFacts DEF Contains, IsUpperWrapped
  <2>3. t.lower = lo + e /\ t.upper = up
    BY <1>12 DEF Between
  <2>4. Contains(t, x + e)
    BY <1>0, <1>7, <1>9, <1>11, <2>1, <2>2, <2>3 DEF Contains, IsUpperWrapped
  <2> QED BY <2>1, <2>4
<1> QED BY <1>13, <1>14 DEF t, up, lo, hi

\* NCS2UInner: a signed range, in an unsigned type that is no narrower.
LEMMA S2UExtendContains ==
  ASSUME NEW w, NEW dst, Related(w, dst), w <= dst, NEW ov \in CastKinds,
         NEW u \in BOOLEAN, NEW du \in BOOLEAN, SignedToUnsigned(u, du), NEW src \in ConstantRanges(w)
  PROVE  CastSound(src, w, u, dst, du, ov, NCS2UInnerExtend(src, dst, ov))
<1> DEFINE t == NCS2UInnerExtend(src, dst, ov)
           n == NonNegative(src)
           neg == Difference(src, n)
           wide(r) == IF w = dst THEN r ELSE ZeroExtend(r, dst)
           withMin == IF IsEmptySet(neg) THEN n ELSE UnionWith(n, Single(w, 0), "Smallest")
           below == Between(dst, SExt(w, dst, SMinOf(neg)), Cut(dst, SExt(w, dst, SMaxOf(neg)) + 1))
           folded == UnionWith(below, wide(n), "Unsigned")
<1>0. /\ IsWidth(dst) /\ IsWidth(w) /\ src.width = w /\ 0 \in Word(w) /\ 0 \in Word(dst)
      /\ Size(w) \in Int /\ Size(dst) \in Int /\ 2 <= Size(w)
      /\ Size(w) = 2 * SMinValue(w) /\ SMinValue(w) \in Int
  <2>1. IsWidth(dst) /\ IsWidth(w)
    BY DEF Related
  <2>2. src.width = w /\ 0 \in Word(w) /\ 0 \in Word(dst)
    BY <2>1, BoundsAre, RangeFields
  <2>3. Size(dst) \in Int
    BY <2>1, TypeIs
  <2> QED BY <2>1, <2>2, <2>3, WordFacts
<1>1. w = dst \/ Narrower(w, dst)
  BY DEF Related
<1>2. Size(w) <= Size(dst)
  BY <1>0, <1>1, NarrowerFacts
<1>3. t = IF IsEmptySet(src) THEN EmptyRange(dst)
          ELSE IF n = src \/ ov = "THROWING" THEN wide(n)
          ELSE IF ov = "SATURATING" THEN wide(withMin) ELSE folded
  BY <1>0 DEF NCS2UInnerExtend
<1> HIDE DEF t
<1>4. /\ n \in ConstantRanges(w)
      /\ \A x \in Word(w) : Contains(src, x) /\ x < SMinValue(w) => Contains(n, x)
      /\ \A x \in Word(w) : Contains(n, x) => x < SMinValue(w)
      /\ IsEmptySet(n) \/ (n.lower < n.upper /\ n.upper <= SMinValue(w))
  BY <1>0, NonNegativeContents
<1>5. /\ neg \in ConstantRanges(w)
      /\ \A x \in Word(w) : Contains(src, x) /\ ~Contains(n, x) => Contains(neg, x) /\ ~IsEmptySet(neg)
      /\ \A x \in Word(w) : Contains(neg, x) => SMinValue(w) <= x
  BY <1>0, <1>4, DifferenceContains, NegativeContents
<1> HIDE DEF neg
<1>6. ASSUME NEW r \in ConstantRanges(w)
      PROVE  /\ wide(r) \in ConstantRanges(dst)
             /\ \A v \in Word(w) : Contains(r, v) => v \in Word(dst) /\ Contains(wide(r), v)
  <2>1. CASE w = dst
    <3>1. wide(r) = r
      BY <2>1
    <3> HIDE DEF wide
    <3> QED BY <2>1, <3>1
  <2>2. CASE w # dst
    <3>1. wide(r) = ZeroExtend(r, dst)
      BY <2>2
    <3> HIDE DEF wide
    <3> QED BY <1>1, <2>2, <3>1, ZeroExtendContains
  <2> QED BY <2>1, <2>2
<1> HIDE DEF wide
<1>7. Single(w, 0) \in ConstantRanges(w) /\ Contains(Single(w, 0), 0)
  BY <1>0, SingleContents
<1>8. /\ withMin \in ConstantRanges(w)
      /\ \A x \in Word(w) : Contains(n, x) => Contains(withMin, x)
      /\ ~IsEmptySet(neg) => Contains(withMin, 0)
  BY <1>0, <1>4, <1>7, UnionContains
<1> HIDE DEF withMin
<1>9. ASSUME ~IsEmptySet(neg)
      PROVE  /\ folded \in ConstantRanges(dst)
             /\ \A v \in Word(w) : Contains(n, v) => Contains(folded, v)
             /\ \A v \in Word(w) : Contains(neg, v) => Contains(folded, SExt(w, dst, v))
  <2>1. /\ below \in ConstantRanges(dst)
        /\ \A v \in Word(w) : Contains(neg, v) => Contains(below, SExt(w, dst, v))
    BY <1>0, <1>1, <1>5, <1>9, ExtendedRange
  <2> HIDE DEF below
  <2>2. wide(n) \in ConstantRanges(dst) /\ \A v \in Word(w) : Contains(n, v) => v \in Word(dst) /\ Contains(wide(n), v)
    BY <1>4, <1>6
  <2>3. \A v \in Word(w) : Contains(neg, v) => SExt(w, dst, v) \in Word(dst)
    BY <1>0, <1>1, <1>5, ExtendedNegative
  <2>4. /\ folded \in ConstantRanges(dst)
        /\ \A v \in Word(dst) : Contains(below, v) \/ Contains(wide(n), v) => Contains(folded, v)
    BY <1>0, <2>1, <2>2, UnionContains
  <2> HIDE DEF folded
  <2> QED BY <2>1, <2>2, <2>3, <2>4
<1>10. ASSUME n # src, ~IsEmptySet(src) PROVE ~IsEmptySet(neg)
  <2> SUFFICES ASSUME IsEmptySet(neg) PROVE FALSE
    OBVIOUS
  <2>1. \A x \in Word(w) : Contains(src, x) => x < SMinValue(w)
    BY <1>4, <1>5
  <2>2. src.lower < src.upper /\ src.upper <= SMinValue(w)
    BY <1>0, <1>10, <2>1, BelowIs
  <2>3. src.lower \in Int /\ src.upper \in Int /\ 0 <= src.lower /\ src.upper < Size(w) /\ 1 <= SMinValue(w)
    BY <1>0, RangeFields, WordFacts
  <2>4. From(w, "GE", 0, TRUE) = Between(w, 0, SMinValue(w))
    <3>1. Cut(w, SMaxValue(w) + 1) = SMinValue(w)
      BY <1>0, <2>3, CutFacts DEF SMaxValue
    <3> QED BY <1>0, <2>3, <3>1 DEF From
  <2> DEFINE f == Between(w, 0, SMinValue(w))
  <2>5. f.lower = 0 /\ f.upper = SMinValue(w) /\ f.width = w
    BY DEF Between
  <2>6. n = IntersectWith(src, f, "Signed")
    BY <1>0, <2>4 DEF NonNegative
  <2> HIDE DEF f, n
  <2>7. /\ ~IsEmptySet(f) /\ ~IsFullSet(f) /\ ~IsUpperWrapped(f)
        /\ ~IsEmptySet(src) /\ ~IsFullSet(src) /\ ~IsUpperWrapped(src)
    BY <1>0, <1>10, <2>2, <2>3, <2>5 DEF IsEmptySet, IsFullSet, IsUpperWrapped
  <2>8. n = IntersectBothUnwrapped(src, f)
    BY <2>6, <2>7 DEF IntersectWith
  <2>9. n = src
    BY <1>0, <2>2, <2>3, <2>5, <2>8 DEF IntersectBothUnwrapped
  <2> QED BY <1>10, <2>9 DEF n
<1> HIDE DEF n, folded
<1>11. t \in ConstantRanges(dst)
  BY <1>0, <1>3, <1>4, <1>6, <1>8, <1>9, <1>10, TrivialRanges
<1>12. ASSUME NEW a \in Word(w), Contains(src, a), ~(ov = "THROWING" /\ CastOverflows(w, u, dst, du, a))
       PROVE  Contains(t, CastFolded(w, u, dst, du, ov, a))
  <2> DEFINE c == CastFolded(w, u, dst, du, ov, a)
             x == Val(w, u, a)
  <2>0. MinOf(dst, du) = 0 /\ MaxOf(dst, du) = Size(dst) - 1
    BY DEF MinOf, MaxOf, UMaxValue, SignedToUnsigned
  <2>1. /\ a \in Int /\ 0 <= a /\ a < Size(w) /\ x \in Int /\ x = IF a < SMinValue(w) THEN a ELSE a - Size(w)
        /\ x = SVal(w, a)
    BY <1>0, WordFacts DEF Val, SVal, IsNeg, SignedToUnsigned
  <2>2. /\ ov # "SATURATING" \/ (0 <= x /\ x <= Size(dst) - 1) => c = Cut(dst, x)
        /\ ov = "SATURATING" /\ x < 0 => c = Cut(dst, 0)
    BY <1>0, <2>0, CastFoldedIs
  <2>3. ~IsEmptySet(src)
    BY <1>0, <1>12, TrivialContents
  <2>4. ov = "THROWING" => 0 <= x
    BY <1>12, <2>0, <2>1 DEF CastOverflows, InType
  <2> HIDE DEF c, x
  <2>5. CASE a < SMinValue(w)
    <3>0. x = a
      BY <2>1, <2>5
    <3>1. x = a /\ 0 <= x /\ x <= Size(dst) - 1
      <4>1. Size(w) <= Size(dst) /\ Size(w) \in Int /\ Size(dst) \in Int /\ 0 <= a /\ a < Size(w) /\ a \in Int
        BY <1>0, <1>2, <2>1
      <4>2. 0 <= a /\ a <= Size(dst) - 1
        BY <4>1
      <4> QED BY <3>0, <4>2
    <3>2. c = a
      BY <1>0, <2>1, <2>2, <3>1, CutFacts
    <3>3. Contains(n, a)
      BY <1>4, <1>12, <2>5
    <3>4. Contains(wide(n), a) /\ Contains(wide(withMin), a) /\ (~IsEmptySet(neg) => Contains(folded, a))
      BY <1>4, <1>6, <1>8, <1>9, <3>3
    <3> QED BY <1>3, <1>10, <2>3, <3>2, <3>4 DEF c
  <2>6. CASE ~(a < SMinValue(w))
    <3>1. ~Contains(n, a) /\ n # src /\ x < 0 /\ ov # "THROWING"
      BY <1>0, <1>4, <1>12, <2>1, <2>4, <2>6
    <3>2. Contains(neg, a) /\ ~IsEmptySet(neg)
      BY <1>5, <1>12, <3>1
    <3>3. CASE ov = "SATURATING"
      <4>1. c = 0
        BY <1>0, <2>2, <3>1, <3>3, CutFacts DEF Word
      <4>2. Contains(wide(withMin), 0)
        BY <1>0, <1>6, <1>8, <3>2
      <4> QED BY <1>3, <2>3, <3>1, <3>3, <4>1, <4>2 DEF c
    <3>4. CASE ov = "WRAPPING"
      <4>1. c = SExt(w, dst, a)
        BY <2>1, <2>2, <3>4 DEF SExt
      <4>2. Contains(folded, c)
        BY <1>9, <3>2, <4>1
      <4> QED BY <1>3, <2>3, <3>1, <3>4, <4>2 DEF c
    <3> QED BY <3>1, <3>3, <3>4 DEF CastKinds
  <2> QED BY <2>5, <2>6
<1> QED BY <1>11, <1>12 DEF CastSound, t

LEMMA S2UContains ==
  ASSUME NEW w, NEW dst, Related(w, dst), NEW ov \in CastKinds, NEW r \in ConstantRanges(w),
         NEW u \in BOOLEAN, NEW du \in BOOLEAN, SignedToUnsigned(u, du)
  PROVE  CastSound(r, w, u, dst, du, ov, NumericConversionS2U(r, dst, ov))
<1> DEFINE t == NumericConversionS2U(r, dst, ov)
<1>0. IsWidth(w) /\ IsWidth(dst) /\ w \in Nat /\ dst \in Nat /\ r.width = w
  BY RangeFields DEF Related
<1>1. CASE dst >= w
  <2>1. t = NCS2UInnerExtend(r, dst, ov)
    BY <1>0, <1>1 DEF NumericConversionS2U
  <2> QED BY <1>1, <2>1, S2UExtendContains
<1>2. CASE ~(dst >= w) /\ ~IsSignWrappedSet(r)
  <2>1. t = NCS2UInnerTrunc(r, dst, ov) /\ Narrower(dst, w)
    BY <1>0, <1>2 DEF NumericConversionS2U, Related
  <2> QED BY <2>1, S2UTruncContains
<1>3. CASE ~(dst >= w) /\ IsSignWrappedSet(r)
  <2> DEFINE p == SplitWrapping(r, u)
  <2>1. t = UnionWith(NCS2UInnerTrunc(p[1], dst, ov), NCS2UInnerTrunc(p[2], dst, ov), "Unsigned") /\ Wraps(r, u)
        /\ Narrower(dst, w)
    <3>1. u = FALSE
      BY DEF SignedToUnsigned
    <3>2. Narrower(dst, w)
      BY <1>0, <1>3 DEF Related
    <3>3. p = SplitWrapping(r, FALSE) /\ Wraps(r, u)
      BY <1>3, <3>1 DEF Wraps
    <3> HIDE DEF p
    <3> QED BY <1>0, <1>3, <3>2, <3>3 DEF NumericConversionS2U
  <2>2. \A i \in {1, 2} : CastSound(p[i], w, u, dst, du, ov, NCS2UInnerTrunc(p[i], dst, ov))
    BY <1>0, <2>1, SplitWrappingCovers, S2UTruncContains
  <2> QED BY <1>0, <2>1, <2>2, PartsSound
<1> QED BY <1>1, <1>2, <1>3

-----------------------------------------------------------------------------
(* Casts between any two types of a program.                               *)

\* NumericConversion: for every value that does not throw, the converted range
\* contains what the program computes.
LEMMA ConversionSound ==
  ASSUME NEW w, NEW dst, Related(w, dst), NEW ov \in CastKinds, NEW r \in ConstantRanges(w),
         NEW u \in BOOLEAN, NEW du \in BOOLEAN
  PROVE  CastSound(r, w, u, dst, du, ov, NumericConversion(r, dst, u, du, ov))
<1>1. CASE u = du
  <2>1. NumericConversion(r, dst, u, du, ov) = NumericConversionWithSameSigness(r, dst, u, ov)
    BY <1>1 DEF NumericConversion
  <2> QED BY <1>1, <2>1, SameSignessContains
<1>2. CASE u # du /\ UnsignedToSigned(u, du)
  <2>1. NumericConversion(r, dst, u, du, ov) = NumericConversionU2S(r, dst, ov)
    BY <1>2 DEF NumericConversion, UnsignedToSigned
  <2> QED BY <1>2, <2>1, U2SContains
<1>3. CASE u # du /\ SignedToUnsigned(u, du)
  <2>1. NumericConversion(r, dst, u, du, ov) = NumericConversionS2U(r, dst, ov)
    BY <1>3 DEF NumericConversion, SignedToUnsigned
  <2> QED BY <1>3, <2>1, S2UContains
<1> QED BY <1>1, <1>2, <1>3 DEF UnsignedToSigned, SignedToUnsigned

\* The domains of numbers without symbolic bounds, as an expression reads them.
LEMMA DomainRead ==
  ASSUME NEW w, IsWidth(w), NEW u \in BOOLEAN, NEW v,
         \/ v = TopValue
         \/ \E d \in [numeric : ConstantRanges(w), symbolics : {NoBounds}, unsignedFlag : BOOLEAN] : v = SIntRange(d)
  PROVE  GetSIntDomainFromState(v, w, u)
            \in [numeric : ConstantRanges(w), symbolics : {NoBounds}, unsignedFlag : BOOLEAN]
<1>1. CASE v = TopValue
  <2>1. GetSIntDomainFromState(v, w, u) = Top(w, u)
    BY <1>1 DEF GetSIntDomainFromState, TopValue
  <2>2. FullRange(w) \in ConstantRanges(w)
    BY TrivialRanges
  <2> QED BY <2>1, <2>2 DEF Top, Domain
<1>2. ASSUME NEW d \in [numeric : ConstantRanges(w), symbolics : {NoBounds}, unsignedFlag : BOOLEAN], v = SIntRange(d)
      PROVE  GetSIntDomainFromState(v, w, u) = d
  BY <1>2 DEF GetSIntDomainFromState, SIntRange
<1> QED BY <1>1, <1>2

\* An unsigned range without words above the signed maximum has one reading.
LEMMA FitsReading ==
  ASSUME NEW w, IsWidth(w), NEW u \in BOOLEAN, NEW r \in ConstantRanges(w), FitsSigned(r, u),
         NEW a \in Word(w), Contains(r, a)
  PROVE  SVal(w, a) = Val(w, u, a)
BY RangeFields DEF FitsSigned, Elements, Val, SVal

\* A word without the highest bit has one reading.
LEMMA SameReading ==
  ASSUME NEW w, IsWidth(w), NEW r \in ConstantRanges(w), FitsSigned(r, TRUE), NEW a \in Word(w), Contains(r, a),
         NEW u, NEW f
  PROVE  Val(w, u, a) = Val(w, f, a)
<1>1. SVal(w, a) = Val(w, TRUE, a)
  BY FitsReading
<1> QED BY <1>1 DEF Val

\* A domain is read by its own signedness: that of the type, or no word of the range
\* has the highest bit.
ReadsAs(d, u) == d.unsignedFlag = u \/ FitsSigned(d.numeric, TRUE)

\* ComputeTypeCast.
LEMMA TypeCastSound ==
  ASSUME NEW w, NEW dst, Related(w, dst), NEW u \in BOOLEAN, NEW du \in BOOLEAN, NEW ov \in CastKinds,
         NEW d \in [numeric : ConstantRanges(w), symbolics : {NoBounds}, unsignedFlag : BOOLEAN], ReadsAs(d, u),
         NEW a \in Word(w), Contains(d.numeric, a), ~(ov = "THROWING" /\ CastOverflows(w, u, dst, du, a))
  PROVE  LET c == NumericTypeCast(d, dst, du, ov)
         IN /\ CastFolded(w, u, dst, du, ov, a) \in Word(dst)
            /\ c \in [numeric : ConstantRanges(dst), symbolics : {NoBounds}, unsignedFlag : BOOLEAN]
            /\ Contains(c.numeric, CastFolded(w, u, dst, du, ov, a))
<1>1. PICK r \in ConstantRanges(w), f \in BOOLEAN : r = d.numeric /\ f = d.unsignedFlag
  OBVIOUS
<1> DEFINE n == NumericConversion(r, dst, f, du, ov)
           c == NumericTypeCast(d, dst, du, ov)
           v == CastFolded(w, u, dst, du, ov, a)
<1>2. IsWidth(w) /\ IsWidth(dst) /\ Contains(r, a)
  BY <1>1 DEF Related
<1>3. Val(w, u, a) = Val(w, f, a)
  <2>1. CASE f = u
    BY <2>1
  <2>2. CASE FitsSigned(r, TRUE)
    BY <1>2, <2>2, SameReading
  <2> QED BY <1>1, <2>1, <2>2 DEF ReadsAs
<1>4. /\ v = CastFolded(w, f, dst, du, ov, a)
      /\ ~(ov = "THROWING" /\ CastOverflows(w, f, dst, du, a))
  BY <1>3 DEF CastFolded, CastOverflows
<1>5. ~IsEmptySet(r)
  BY <1>2, TrivialContents
<1>6. c = Domain(n, NoBounds, f)
  BY <1>1, <1>5 DEF NumericTypeCast, IsBottom
<1>7. CastSound(r, w, f, dst, du, ov, n)
  BY ConversionSound
<1>8. v \in Word(dst)
  BY <1>2, CastFoldedIs
<1>9. n \in ConstantRanges(dst) /\ Contains(n, v)
  BY <1>2, <1>4, <1>7 DEF CastSound
<1> HIDE DEF c, n, v
<1> QED BY <1>6, <1>8, <1>9 DEF Domain, c, v

\* Any two integer types of a program.
LEMMA WidthsRelated ==
  ASSUME NEW v \in Widths, NEW w \in Widths
  PROVE  Related(v, w)
<1>1. ASSUME NEW x \in Widths, NEW y \in Widths, x < y
      PROVE  Narrower(x, y)
  <2>1. /\ IsWidth(x) /\ IsWidth(y) /\ Size(y) % (2 * Size(x)) = 0
    BY <1>1, WidthsAssumption DEF IsWidth
  <2>2. PICK n \in Nat \ {0} : n = Size(x)
    BY <2>1 DEF IsWidth
  <2>3. PICK m \in Nat \ {0} : m = Size(y) /\ m = 2 * SMinValue(y)
    BY <2>1 DEF IsWidth
  <2>4. PICK t \in Nat \ {0} : t = 2 * n
    BY <2>2
  <2>5. m % t = 0
    BY <2>1, <2>2, <2>3, <2>4
  <2>6. PICK k \in Int : m = k * t
    <3>1. (m \div t) \in Int /\ m = (m \div t) * t + (m % t)
      BY SMT
    <3> QED BY <2>5, <3>1
  <2>7. k >= 1
    <3>1. CASE k <= 0
      <4>1. PICK j \in Nat : j = -k
        BY <3>1
      <4>2. j * t >= 0
        BY SMT
      <4>3. k * t = -(j * t)
        BY <4>1
      <4> QED BY <2>6, <4>2, <4>3
    <3> QED BY <3>1
  <2>8. k * t = 2 * (k * n)
    BY <2>4
  <2>9. SMinValue(y) = k * n
    <3>1. SMinValue(y) \in Int
      BY <2>1 DEF IsWidth, SMinValue
    <3>2. k * n \in Int
      BY <2>6, <2>2
    <3> QED BY <2>3, <2>6, <2>8, <3>1, <3>2
  <2> QED BY <2>1, <2>2, <2>7, <2>9 DEF Narrower
<1>2. v \in Nat /\ w \in Nat /\ IsWidth(v) /\ IsWidth(w)
  BY WidthsAssumption DEF IsWidth
<1> QED BY <1>1, <1>2 DEF Related

-----------------------------------------------------------------------------
(* The analysis.                                                           *)

IInv == TypeOK /\ Sound

\* The domain of a variable is that of a word of its type.
LEMMA DomainIs ==
  ASSUME TypeOK
  PROVE  /\ IsWidth(width)
         /\ domain \in [numeric : ConstantRanges(width), symbolics : {NoBounds}, unsignedFlag : BOOLEAN]
<1>1. IsWidth(width)
  BY WidthsAssumption DEF TypeOK, WidthsAssumption, IsWidth
<1> QED BY <1>1, DomainRead DEF TypeOK, domain

\* A state of the analysis that is TOP or has a range with the value keeps the invariant.
LEMMA KeepsInvariant ==
  ASSUME width' \in Widths, uns' \in BOOLEAN, value' \in Word(width'),
         \/ valueDomain' = TopValue
         \/ \E d \in [numeric : ConstantRanges(width'), symbolics : {NoBounds}, unsignedFlag : BOOLEAN] :
               valueDomain' = SIntRange(d) /\ Contains(d.numeric, value')
  PROVE  IInv'
<1>1. TypeOK'
  BY DEF TypeOK
<1>2. CASE valueDomain' = TopValue
  <2>1. domain' = Top(width', uns')
    BY <1>2 DEF domain, GetSIntDomainFromState, TopValue
  <2>2. IsWidth(width')
    BY WidthsAssumption DEF WidthsAssumption, IsWidth
  <2>3. domain'.numeric = FullRange(width')
    BY <2>1 DEF Top, Domain
  <2>4. Contains(FullRange(width'), value')
    BY <2>2, TrivialRanges, TrivialContents
  <2> QED BY <1>1, <2>3, <2>4 DEF IInv, Sound
<1>3. ASSUME NEW d \in [numeric : ConstantRanges(width'), symbolics : {NoBounds}, unsignedFlag : BOOLEAN],
             valueDomain' = SIntRange(d), Contains(d.numeric, value')
      PROVE  IInv'
  <2>1. domain' = d
    BY <1>3 DEF domain, GetSIntDomainFromState, SIntRange
  <2> QED BY <1>1, <1>3, <2>1 DEF IInv, Sound
<1> QED BY <1>2, <1>3

\* What is known beside another path: either state may be joined into the other.
LEMMA JoinedSound ==
  ASSUME NEW w, IsWidth(w), NEW a \in Word(w),
         NEW d \in [numeric : ConstantRanges(w), symbolics : {NoBounds}, unsignedFlag : BOOLEAN],
         NEW e \in [numeric : ConstantRanges(w), symbolics : {NoBounds}, unsignedFlag : BOOLEAN],
         Contains(d.numeric, a) \/ Contains(e.numeric, a)
  PROVE  LET j == SIntRangeJoin(d, e)
         IN /\ j \in [numeric : ConstantRanges(w), symbolics : {NoBounds}, unsignedFlag : BOOLEAN]
            /\ Contains(j.numeric, a)
<1>1. e.numeric \in ConstantRanges(w) /\ e = Domain(e.numeric, NoBounds, e.unsignedFlag)
  BY DEF Domain
<1>2. /\ SIntRangeJoin(d, Domain(e.numeric, NoBounds, e.unsignedFlag))
            \in [numeric : ConstantRanges(w), symbolics : {NoBounds}, unsignedFlag : BOOLEAN]
      /\ Contains(SIntRangeJoin(d, Domain(e.numeric, NoBounds, e.unsignedFlag)).numeric, a)
  <2>1. PICK s \in ConstantRanges(w) : s = e.numeric
    BY <1>1
  <2>2. PICK g : g = e.unsignedFlag
    OBVIOUS
  <2> QED BY <2>1, <2>2, JoinSound
<1> QED BY <1>1, <1>2

LEMMA SumsAndCastsInvariant ==
  ASSUME Operations \subseteq Sums, CastStrategies \subseteq CastKinds, ~FlagMayDiffer
  PROVE  Spec => []IInv
<1>0. \A w \in Widths : IsWidth(w)
  BY WidthsAssumption DEF WidthsAssumption, IsWidth
<1>1. Init => IInv
  <2> SUFFICES ASSUME Init PROVE IInv
    OBVIOUS
  <2>1. width \in Widths /\ IsWidth(width) /\ uns \in BOOLEAN /\ value \in Word(width)
    BY <1>0 DEF Init
  <2>2. CASE valueDomain = TopValue
    <3>1. domain = Top(width, uns)
      BY <2>2 DEF domain, GetSIntDomainFromState, TopValue
    <3> QED BY <2>1, <2>2, <3>1, TrivialRanges, TrivialContents DEF IInv, TypeOK, Sound, Top, Domain
  <2>3. CASE valueDomain = SIntRange(FromLiteral(width, uns, value))
    <3> DEFINE d == FromLiteral(width, uns, value)
    <3>1. domain = d
      BY <2>3 DEF domain, GetSIntDomainFromState, SIntRange
    <3>2. d \in [numeric : ConstantRanges(width), symbolics : {NoBounds}, unsignedFlag : BOOLEAN] /\ Contains(d.numeric, value)
      BY <2>1, SingleContents DEF FromLiteral, Domain
    <3> HIDE DEF d
    <3>3. valueDomain = SIntRange(d)
      BY <2>3 DEF d
    <3> QED BY <2>1, <3>1, <3>2, <3>3 DEF IInv, TypeOK, Sound
  <2> QED BY <2>2, <2>3 DEF Init
<1>2. IInv /\ [Next]_vars => IInv'
  <2> SUFFICES ASSUME IInv, [Next]_vars PROVE IInv'
    OBVIOUS
  <2> DEFINE Domains(w) == [numeric : ConstantRanges(w), symbolics : {NoBounds}, unsignedFlag : BOOLEAN]
  <2>0. /\ width \in Widths /\ IsWidth(width) /\ uns \in BOOLEAN /\ value \in Word(width)
        /\ domain \in Domains(width) /\ domain.numeric \in ConstantRanges(width)
        /\ Contains(domain.numeric, value)
    BY DomainIs DEF IInv, TypeOK, Sound
  <2>1. CASE BinaryExpr
    <3>1. PICK op \in Operations, ov \in Strategies, other \in Others :
             /\ valueDomain' = HandleBinaryExpr(op, ov, uns, domain.numeric, other)
             /\ \E b \in Elements(other) : value' = Folded(width, uns, op, ov, value, b)
             /\ UNCHANGED <<width, uns>>
      BY <2>1 DEF BinaryExpr
    <3>2. PICK b \in Elements(other) : value' = Folded(width, uns, op, ov, value, b)
      BY <3>1
    <3>3. other \in ConstantRanges(width) /\ b \in Word(width) /\ Contains(other, b) /\ op \in Sums
      BY <2>0, <3>2, RangeFields DEF Others, Elements
    <3>4. value' \in Word(width)
      BY <2>0, <3>2, <3>3, FoldedIs
    <3> DEFINE res == NumericBinaryExpr(op, ov, uns, domain.numeric, other)
    <3>5. res \in Domains(width) /\ Contains(res.numeric, value')
      BY <2>0, <3>2, <3>3, BinaryExprSound
    <3>6. valueDomain' = TopValue \/ valueDomain' = SIntRange(res)
      BY <3>1 DEF HandleBinaryExpr
    <3> HIDE DEF res
    <3> QED BY <2>0, <3>1, <3>4, <3>5, <3>6, KeepsInvariant
  <2>2. CASE TypeCast
    <3>1. PICK dst \in Widths, dstUns \in BOOLEAN, ov \in CastStrategies :
             /\ ReadAsTyped
             /\ ~(ov = "THROWING" /\ CastOverflows(width, uns, dst, dstUns, value))
             /\ value' = CastFolded(width, uns, dst, dstUns, ov, value)
             /\ valueDomain' = SIntRange(NumericTypeCast(domain, dst, dstUns, ov))
             /\ width' = dst
             /\ uns' = dstUns
      BY <2>2 DEF TypeCast
    <3>2. Related(width, dst) /\ ov \in CastKinds
      BY <2>0, WidthsRelated
    <3>3. domain.unsignedFlag = uns \/ FitsSigned(domain.numeric, TRUE)
      BY <3>1 DEF ReadAsTyped
    <3> DEFINE c == NumericTypeCast(domain, dst, dstUns, ov)
    <3>4. value' \in Word(dst) /\ c \in Domains(dst) /\ Contains(c.numeric, value')
      <4>1. PICK d \in Domains(width) : d = domain
        BY <2>0
      <4>2. ReadsAs(d, uns)
        BY <3>3, <4>1 DEF ReadsAs
      <4>3. Contains(d.numeric, value) /\ ~(ov = "THROWING" /\ CastOverflows(width, uns, dst, dstUns, value))
        BY <2>0, <3>1, <4>1
      <4>4. /\ CastFolded(width, uns, dst, dstUns, ov, value) \in Word(dst)
            /\ NumericTypeCast(d, dst, dstUns, ov) \in Domains(dst)
            /\ Contains(NumericTypeCast(d, dst, dstUns, ov).numeric, CastFolded(width, uns, dst, dstUns, ov, value))
        BY <2>0, <3>1, <3>2, <4>1, <4>2, <4>3, TypeCastSound
      <4> QED BY <3>1, <4>1, <4>4
    <3>5. valueDomain' = SIntRange(c)
      BY <3>1
    <3> HIDE DEF c
    <3> QED BY <3>1, <3>4, <3>5, KeepsInvariant
  <2>3. CASE Join
    <3>1. PICK other \in {TopValue} \cup {SIntRange(Domain(r, NoBounds, u)) : r \in Others, u \in BOOLEAN} :
             /\ valueDomain' \in {Joined(valueDomain, other), Joined(other, valueDomain)}
             /\ UNCHANGED <<width, uns, value>>
      BY <2>3 DEF Join
    <3>2. CASE valueDomain = TopValue \/ other = TopValue
      <4>1. valueDomain' = TopValue
        BY <3>1, <3>2 DEF Joined, TopValue
      <4> QED BY <2>0, <3>1, <4>1, KeepsInvariant
    <3>3. CASE valueDomain # TopValue /\ other # TopValue
      <4>1. PICK d \in Domains(width) : valueDomain = SIntRange(d)
        BY <3>3 DEF IInv, TypeOK
      <4>2. d = domain
        BY <4>1 DEF domain, GetSIntDomainFromState, SIntRange
      <4>3. PICK r \in Others, u \in BOOLEAN : other = SIntRange(Domain(r, NoBounds, u))
        BY <3>1, <3>3
      <4>4. PICK e \in Domains(width) : e = Domain(r, NoBounds, u)
        <5>1. r \in ConstantRanges(width)
          BY <4>3 DEF Others
        <5> QED BY <4>3, <5>1 DEF Domain
      <4>5. valueDomain' = SIntRange(SIntRangeJoin(d, e)) \/ valueDomain' = SIntRange(SIntRangeJoin(e, d))
        BY <3>1, <4>1, <4>3, <4>4 DEF Joined, SIntRange
      <4>6. \A j \in {SIntRangeJoin(d, e), SIntRangeJoin(e, d)} : j \in Domains(width) /\ Contains(j.numeric, value)
        <5>1. Contains(d.numeric, value)
          BY <2>0, <4>2
        <5> QED BY <2>0, <5>1, JoinedSound
      <4> QED BY <2>0, <3>1, <4>5, <4>6, KeepsInvariant
    <3> QED BY <3>2, <3>3
  <2>4. CASE UNCHANGED vars
    BY <2>4 DEF vars, IInv, TypeOK, Sound, domain
  <2> QED BY <2>1, <2>2, <2>3, <2>4 DEF Next
<1> QED BY <1>1, <1>2, PTL DEF Spec

\* Sums, differences and joins of any width, under every overflow strategy, and
\* casts between any two types keep a value inside the range the analysis has for
\* it (ComputeAdd, ComputeSub, CheckSingleValueOverflow, NumericConversion,
\* ValueDomain::Join), as long as no cast reads a range with words of the highest bit
\* by the signedness of another type (~FlagMayDiffer, ReadAsTyped).  What multiplications and divisions do is model-checked only.
THEOREM SumsAndCastsSound ==
  ASSUME Operations \subseteq Sums, CastStrategies \subseteq CastKinds, ~FlagMayDiffer
  PROVE  Spec => []Sound
<1>1. IInv => Sound
  BY DEF IInv
<1> QED BY <1>1, SumsAndCastsInvariant, PTL

\* Wherever the range of a variable contains its value, a comparison with any
\* other range that the analysis decides has the answer the program computes
\* (ComputeTotalOrderingIntBinop, ComputeEqualityIntBinop), for every width.
THEOREM AnswersFollow ==
  ASSUME TypeOK, Sound
  PROVE  AnswersSound
<1>0. /\ IsWidth(width) /\ uns \in BOOLEAN /\ value \in Word(width)
      /\ domain.numeric \in ConstantRanges(width) /\ Contains(domain.numeric, value)
      /\ domain = Domain(domain.numeric, NoBounds, domain.unsignedFlag)
  <2>1. PICK d \in [numeric : ConstantRanges(width), symbolics : {NoBounds}, unsignedFlag : BOOLEAN] : d = domain
    BY DomainIs
  <2> QED BY <2>1, DomainIs DEF TypeOK, Sound, Domain
<1>1. SUFFICES ASSUME NEW rel \in Equalities \cup Orderings, NEW other \in Others, NEW b \in Elements(other)
               PROVE  /\ ComputeRelIntBinop(rel, uns, "x", domain, "y", Domain(other, NoBounds, uns))
                           \subseteq {Holds(rel, Val(width, uns, value), Val(width, uns, b))}
                      /\ ComputeRelIntBinop(rel, uns, "y", Domain(other, NoBounds, uns), "x", domain)
                           \subseteq {Holds(rel, Val(width, uns, b), Val(width, uns, value))}
  BY DEF AnswersSound
<1>2. other \in ConstantRanges(width) /\ b \in Word(width) /\ Contains(other, b)
  BY <1>0, RangeFields DEF Others, Elements
<1> QED BY <1>0, <1>2, AnswerSound

\* No comparison of a variable computed by sums, differences, casts and joins is
\* decided against the program, whatever the widths of the types
\* (ValueRangeAnalysis.cpp, HandleBranchTerminator relies on it when it drops a block).
THEOREM SumsAndCastsAnswered ==
  ASSUME Operations \subseteq Sums, CastStrategies \subseteq CastKinds, ~FlagMayDiffer
  PROVE  Spec => []AnswersSound
<1>1. IInv => AnswersSound
  BY AnswersFollow DEF IInv
<1> QED BY <1>1, SumsAndCastsInvariant, PTL

-----------------------------------------------------------------------------
(* The best range for a set.                                               *)

\* The cases of BestCover.
LEMMA BestCoverIs ==
  ASSUME NEW r, NEW S, NEW pref
  PROVE  /\ S = {} /\ S # Word(r.width) => (BestCover(r, S, pref) <=> IsEmptySet(r))
         /\ S # {} /\ S = Word(r.width) => (BestCover(r, S, pref) <=> IsFullSet(r))
         /\ S # {} /\ S # Word(r.width) =>
               (BestCover(r, S, pref) <=> \/ Elements(r) = S
                                         \/ /\ r \in Covers(r.width, S)
                                            /\ \A c \in Covers(r.width, S) : ~Better(c, r, pref))
<1>1. CASE S = {} /\ S # Word(r.width)
  BY <1>1 DEF BestCover
<1>2. CASE S # {} /\ S = Word(r.width)
  BY <1>2 DEF BestCover
<1>3. CASE S # {} /\ S # Word(r.width)
  BY <1>3 DEF BestCover
<1> QED BY <1>1, <1>2, <1>3

\* A range with exactly the words of a set is best.
LEMMA ExactIsBest ==
  ASSUME NEW w, IsWidth(w), NEW z \in ConstantRanges(w), NEW S \in SUBSET Word(w), NEW pref,
         \A v \in Word(w) : Contains(z, v) <=> v \in S
  PROVE  BestCover(z, S, pref)
<1>1. z.width = w /\ Elements(z) = S
  BY RangeFields DEF Elements
<1>2. CASE z.lower # z.upper
  <2>1. z.lower \in Word(w) /\ z.upper \in Word(w) /\ z.lower \in S /\ z.upper \notin S
    BY <1>2, RangeFields, WordFacts DEF Contains, IsUpperWrapped
  <2>2. S # {} /\ S # Word(z.width) /\ Elements(z) = S
    BY <1>1, <2>1
  <2> QED BY <2>2, BestCoverIs
<1>3. CASE z.lower = z.upper
  <2>1. 0 \in Word(w)
    BY BoundsAre, WordFacts
  <2>2. CASE IsFullSet(z)
    <3>1. S = Word(w)
      BY <2>2, TrivialContents
    <3>2. S # {} /\ S = Word(z.width)
      BY <1>1, <2>1, <3>1
    <3> QED BY <2>2, <3>2, BestCoverIs
  <2>3. CASE IsEmptySet(z)
    <3>1. S = {}
      BY <2>3, TrivialContents
    <3>2. S # Word(z.width)
      BY <1>1, <2>1, <3>1
    <3>3. BestCover(z, S, pref) <=> IsEmptySet(z)
      BY <3>1, <3>2, BestCoverIs
    <3> QED BY <2>3, <3>3
  <2>4. IsFullSet(z) \/ IsEmptySet(z)
    BY <1>1, <1>3, RangeFields, WordFacts DEF IsFullSet, IsEmptySet
  <2> QED BY <2>2, <2>3, <2>4
<1> QED BY <1>2, <1>3

\* The words of a proper range are as many as lie between its bounds.
LEMMA SizeIs ==
  ASSUME NEW w, IsWidth(w), NEW r \in ConstantRanges(w), r.lower # r.upper
  PROVE  /\ Cardinality(Elements(r)) = Cut(w, r.upper - r.lower)
         /\ Cardinality(Elements(r)) \in Nat
<1>1. PICK l \in Int, u \in Int, n \in Int : l = r.lower /\ u = r.upper /\ n = Size(w)
  BY RangeFields, WordFacts
<1>2. 0 <= l /\ l < n /\ 0 <= u /\ u < n /\ r.width = w /\ Word(w) = 0..(n - 1) /\ l # u
  BY <1>1, RangeFields, WordFacts DEF Word, UMaxValue
<1>3. CASE l < u
  <2>1. Elements(r) = l..(u - 1)
    BY <1>1, <1>2, <1>3 DEF Elements, Contains, IsUpperWrapped
  <2>2. Cardinality(l..(u - 1)) = u - l
    BY <1>3, FS_Interval
  <2>3. Cut(w, u - l) = u - l
    <3>1. 0 <= u - l /\ u - l < n /\ u - l \in Int
      BY <1>2, <1>3
    <3>2. 0 <= u - l /\ u - l < Size(w)
      BY <1>1, <3>1
    <3> QED BY <3>1, <3>2, CutFacts
  <2> QED BY <1>1, <1>3, <2>1, <2>2, <2>3
<1>4. CASE u < l
  <2>1. Elements(r) = (l..(n - 1)) \cup (0..(u - 1))
    BY <1>1, <1>2, <1>4 DEF Elements, Contains, IsUpperWrapped
  <2>2. /\ IsFiniteSet(l..(n - 1)) /\ Cardinality(l..(n - 1)) = n - l
        /\ IsFiniteSet(0..(u - 1)) /\ Cardinality(0..(u - 1)) = u
    <3>1. n - 1 \in Int /\ u - 1 \in Int /\ 0 \in Int
      OBVIOUS
    <3>2. /\ IsFiniteSet(l..(n - 1)) /\ Cardinality(l..(n - 1)) = IF l > n - 1 THEN 0 ELSE (n - 1) - l + 1
      BY <3>1, FS_Interval
    <3>3. /\ IsFiniteSet(0..(u - 1)) /\ Cardinality(0..(u - 1)) = IF 0 > u - 1 THEN 0 ELSE (u - 1) - 0 + 1
      BY <3>1, FS_Interval
    <3> QED BY <1>2, <3>2, <3>3
  <2>3. (l..(n - 1)) \cap (0..(u - 1)) = {}
    BY <1>4
  <2>4. Cardinality((l..(n - 1)) \cap (0..(u - 1))) = 0
    BY <2>3, FS_EmptySet
  <2>5. Cardinality((l..(n - 1)) \cup (0..(u - 1))) = (n - l) + u
    <3> DEFINE A == l..(n - 1)
               B == 0..(u - 1)
    <3>1. IsFiniteSet(A) /\ IsFiniteSet(B) /\ Cardinality(A) = n - l /\ Cardinality(B) = u /\ Cardinality(A \cap B) = 0
      BY <2>2, <2>4
    <3> HIDE DEF A, B
    <3>2. Cardinality(A \cup B) = Cardinality(A) + Cardinality(B) - Cardinality(A \cap B)
      BY <3>1, FS_Union
    <3>3. Cardinality(A \cup B) = (n - l) + u - 0
      BY <3>1, <3>2
    <3>4. Cardinality(A \cup B) = (n - l) + u
      BY <3>3
    <3> QED BY <3>4 DEF A, B
  <2>6. Cut(w, u - l) = u - l + n
    <3>1. -n <= u - l /\ u - l < 0 /\ u - l \in Int
      BY <1>2, <1>4
    <3>2. -Size(w) <= u - l /\ u - l < 0
      BY <1>1, <3>1
    <3>3. Cut(w, u - l) = (u - l) + Size(w)
      BY <3>1, <3>2, CutFacts
    <3> QED BY <1>1, <3>3
  <2> QED BY <1>1, <1>2, <1>4, <2>1, <2>5, <2>6
<1> QED BY <1>2, <1>3, <1>4

\* The gap before a word of a set is the distance to the word before it.
LEMMA GapIs ==
  ASSUME NEW w, NEW S, NEW v, NEW k \in 1..Size(w), Size(w) \in Int, Cut(w, v - k) \in S,
         \A j \in 1..(k - 1) : Cut(w, v - j) \notin S
  PROVE  GapBefore(w, S, v) = k
<1> DEFINE Gap(i) == Cut(w, v - i) \in S /\ \A j \in 1..(i - 1) : Cut(w, v - j) \notin S
<1>1. Gap(k)
  OBVIOUS
<1>2. ASSUME NEW i \in 1..Size(w), Gap(i) PROVE i = k
  <2>1. ~(k < i)
    BY <1>1, <1>2
  <2>2. ~(i < k)
    BY <1>1, <1>2
  <2> QED BY <2>1, <2>2
<1> HIDE DEF Gap
<1>3. (CHOOSE i \in 1..Size(w) : Gap(i)) = k
  BY <1>1, <1>2
<1> QED BY <1>3 DEF GapBefore, Gap

\* S consists of the words from xl to xu and those from yl to yu, with a gap on
\* both sides; the first ones may go around the greatest word.
TwoInside(w, S, xl, xu, yl, yu) ==
    /\ xl < xu /\ xu < yl /\ yl < yu
    /\ \A v \in Word(w) : (v \in S) <=> ((xl <= v /\ v < xu) \/ (yl <= v /\ v < yu))
OneAround(w, S, xl, xu, yl, yu) ==
    /\ xu < yl /\ yl < yu /\ yu < xl
    /\ \A v \in Word(w) : (v \in S) <=> (xl <= v \/ v < xu \/ (yl <= v /\ v < yu))
TwoArcs(w, S, xl, xu, yl, yu) ==
    /\ {xl, xu, yl, yu} \subseteq Word(w) /\ S \subseteq Word(w)
    /\ TwoInside(w, S, xl, xu, yl, yu) \/ OneAround(w, S, xl, xu, yl, yu)

\* The word before another.
LEMMA BeforeIs ==
  ASSUME NEW w, IsWidth(w), NEW v \in Word(w), NEW j \in 1..Size(w)
  PROVE  /\ j <= v => Cut(w, v - j) = v - j
         /\ v < j => Cut(w, v - j) = (v - j) + Size(w)
         /\ Cut(w, v - j) \in Word(w)
<1>1. PICK n \in Int : n = Size(w) /\ 0 <= v /\ v < n /\ v \in Int /\ Word(w) = 0..(n - 1)
  BY WordFacts DEF Word, UMaxValue
<1>2. v - j \in Int /\ j \in Int /\ 1 <= j /\ j <= n
  BY <1>1
<1>3. CASE j <= v
  <2>1. 0 <= v - j /\ v - j < n
    BY <1>1, <1>2, <1>3
  <2>2. 0 <= v - j /\ v - j < Size(w)
    BY <1>1, <2>1
  <2>3. Cut(w, v - j) = v - j /\ Cut(w, v - j) \in Word(w)
    BY <1>2, <2>2, CutFacts
  <2> QED BY <1>1, <1>2, <1>3, <2>3
<1>4. CASE v < j
  <2>1. -n <= v - j /\ v - j < 0
    BY <1>1, <1>2, <1>4
  <2>2. -Size(w) <= v - j /\ v - j < 0
    BY <1>1, <2>1
  <2>3. Cut(w, v - j) = (v - j) + Size(w) /\ Cut(w, v - j) \in Word(w)
    BY <1>2, <2>2, CutFacts
  <2> QED BY <1>1, <1>2, <1>4, <2>3
<1> QED BY <1>1, <1>2, <1>3, <1>4

\* The gaps before the arcs are the only ones.
LEMMA GapsOfTwoArcs ==
  ASSUME NEW w, IsWidth(w), NEW S, NEW xl, NEW xu, NEW yl, NEW yu, TwoArcs(w, S, xl, xu, yl, yu)
  PROVE  /\ xl \in S /\ GapBefore(w, S, xl) > 1 /\ Cut(w, xl + 1 - GapBefore(w, S, xl)) = yu
         /\ yl \in S /\ GapBefore(w, S, yl) > 1 /\ Cut(w, yl + 1 - GapBefore(w, S, yl)) = xu
         /\ \A u \in S : GapBefore(w, S, u) > 1 => u \in {xl, yl}
<1>1. PICK n \in Int : n = Size(w) /\ Word(w) = 0..(n - 1) /\ 2 <= n
  <2>1. 0 \in Word(w)
    BY BoundsAre
  <2> QED BY <2>1, WordFacts DEF Word, UMaxValue
<1>2. xl \in 0..(n - 1) /\ xu \in 0..(n - 1) /\ yl \in 0..(n - 1) /\ yu \in 0..(n - 1)
  BY <1>1 DEF TwoArcs, TwoInside, OneAround
<1>3. \A v \in 0..(n - 1) : \A j \in 1..n : /\ j <= v => Cut(w, v - j) = v - j
                                            /\ v < j => Cut(w, v - j) = (v - j) + n
  BY <1>1, BeforeIs
<1>4. xl \in S /\ yl \in S
  BY <1>1, <1>2 DEF TwoArcs, TwoInside, OneAround
<1> DEFINE k == IF yu < xl THEN xl - yu + 1 ELSE xl - yu + 1 + n
           l == yl - xu + 1
<1>5. k \in 1..n /\ k > 1 /\ l \in 1..n /\ l > 1 /\ xu < yl
  BY <1>1, <1>2 DEF TwoArcs, TwoInside, OneAround
<1>6. GapBefore(w, S, xl) = k
  <2>1. ASSUME NEW j \in 1..k PROVE Cut(w, xl - j) \in S <=> j = k
    <3>1. j \in 1..n
      BY <1>5
    <3>2. PICK p \in 0..(n - 1) : p = Cut(w, xl - j) /\ p = IF j <= xl THEN xl - j ELSE (xl - j) + n
      <4>1. Cut(w, xl - j) = IF j <= xl THEN xl - j ELSE (xl - j) + n
        <5>1. xl \in Word(w) /\ j \in 1..Size(w)
          BY <1>1, <1>2, <3>1
        <5>2. (j <= xl => Cut(w, xl - j) = xl - j) /\ (xl < j => Cut(w, xl - j) = (xl - j) + n)
          BY <1>1, <5>1, BeforeIs
        <5>3. j <= xl \/ xl < j
          BY <1>2, <3>1
        <5> QED BY <1>2, <3>1, <5>2, <5>3
      <4>2. (IF j <= xl THEN xl - j ELSE (xl - j) + n) \in 0..(n - 1)
        BY <1>2, <3>1
      <4> QED BY <4>1, <4>2
    <3>3. CASE TwoInside(w, S, xl, xu, yl, yu)
      <4>1. (p \in S) <=> ((xl <= p /\ p < xu) \/ (yl <= p /\ p < yu))
        BY <1>1, <3>3 DEF TwoInside
      <4>2. ((xl <= p /\ p < xu) \/ (yl <= p /\ p < yu)) <=> j = k
        BY <1>2, <3>2, <3>3 DEF TwoInside
      <4> QED BY <3>2, <4>1, <4>2
    <3>4. CASE OneAround(w, S, xl, xu, yl, yu)
      <4>1. (p \in S) <=> (xl <= p \/ p < xu \/ (yl <= p /\ p < yu))
        BY <1>1, <3>4 DEF OneAround
      <4>2. (xl <= p \/ p < xu \/ (yl <= p /\ p < yu)) <=> j = k
        BY <1>2, <3>2, <3>4 DEF OneAround
      <4> QED BY <3>2, <4>1, <4>2
    <3> QED BY <3>3, <3>4 DEF TwoArcs
  <2> HIDE DEF k
  <2>2. Cut(w, xl - k) \in S
    BY <1>5, <2>1
  <2>3. \A j \in 1..(k - 1) : Cut(w, xl - j) \notin S
    BY <1>5, <2>1
  <2> QED BY <1>1, <1>5, <2>2, <2>3, GapIs
<1>7. GapBefore(w, S, yl) = l
  <2>1. ASSUME NEW j \in 1..l PROVE Cut(w, yl - j) \in S <=> j = l
    <3>1. j \in 1..n
      BY <1>5
    <3>2. PICK p \in 0..(n - 1) : p = Cut(w, yl - j) /\ p = IF j <= yl THEN yl - j ELSE (yl - j) + n
      <4>1. Cut(w, yl - j) = IF j <= yl THEN yl - j ELSE (yl - j) + n
        <5>1. yl \in Word(w) /\ j \in 1..Size(w)
          BY <1>1, <1>2, <3>1
        <5>2. (j <= yl => Cut(w, yl - j) = yl - j) /\ (yl < j => Cut(w, yl - j) = (yl - j) + n)
          BY <1>1, <5>1, BeforeIs
        <5>3. j <= yl \/ yl < j
          BY <1>2, <3>1
        <5> QED BY <1>2, <3>1, <5>2, <5>3
      <4>2. (IF j <= yl THEN yl - j ELSE (yl - j) + n) \in 0..(n - 1)
        BY <1>2, <3>1
      <4> QED BY <4>1, <4>2
    <3>3. CASE TwoInside(w, S, xl, xu, yl, yu)
      <4>1. (p \in S) <=> ((xl <= p /\ p < xu) \/ (yl <= p /\ p < yu))
        BY <1>1, <3>3 DEF TwoInside
      <4>2. ((xl <= p /\ p < xu) \/ (yl <= p /\ p < yu)) <=> j = l
        BY <1>2, <3>2, <3>3 DEF TwoInside
      <4> QED BY <3>2, <4>1, <4>2
    <3>4. CASE OneAround(w, S, xl, xu, yl, yu)
      <4>1. (p \in S) <=> (xl <= p \/ p < xu \/ (yl <= p /\ p < yu))
        BY <1>1, <3>4 DEF OneAround
      <4>2. (xl <= p \/ p < xu \/ (yl <= p /\ p < yu)) <=> j = l
        BY <1>2, <3>2, <3>4 DEF OneAround
      <4> QED BY <3>2, <4>1, <4>2
    <3> QED BY <3>3, <3>4 DEF TwoArcs
  <2> HIDE DEF l
  <2>2. Cut(w, yl - l) \in S
    BY <1>5, <2>1
  <2>3. \A j \in 1..(l - 1) : Cut(w, yl - j) \notin S
    BY <1>5, <2>1
  <2> QED BY <1>1, <1>5, <2>2, <2>3, GapIs
<1>8. Cut(w, xl + 1 - k) = yu
  <2>1. (k - 1) \in 1..n /\ xl + 1 - k = xl - (k - 1)
    BY <1>2, <1>5
  <2> QED BY <1>1, <1>2, <1>3, <2>1
<1>9. Cut(w, yl + 1 - l) = xu
  <2>1. (l - 1) \in 1..n /\ yl + 1 - l = yl - (l - 1) /\ l - 1 = yl - xu
    BY <1>2, <1>5
  <2> QED BY <1>1, <1>2, <1>3, <2>1
<1>10. ASSUME NEW u \in S, u \notin {xl, yl} PROVE GapBefore(w, S, u) = 1
  <2>1. u \in 0..(n - 1)
    BY <1>1 DEF TwoArcs, TwoInside, OneAround
  <2>2. Cut(w, u - 1) \in S
    <3>1. 1 \in 1..n
      BY <1>1
    <3>2. CASE 1 <= u
      <4>1. Cut(w, u - 1) = u - 1 /\ u - 1 \in 0..(n - 1)
        BY <1>3, <2>1, <3>1, <3>2
      <4> QED BY <1>1, <1>2, <1>10, <2>1, <4>1 DEF TwoArcs, TwoInside, OneAround
    <3>3. CASE u < 1
      <4>1. Cut(w, u - 1) = n - 1 /\ n - 1 \in 0..(n - 1) /\ u = 0
        BY <1>1, <1>3, <2>1, <3>1, <3>3
      <4> QED BY <1>1, <1>2, <1>10, <2>1, <4>1 DEF TwoArcs, TwoInside, OneAround
    <3> QED BY <2>1, <3>2, <3>3
  <2>3. 1 \in 1..Size(w) /\ Size(w) \in Int /\ \A j \in 1..(1 - 1) : Cut(w, u - j) \notin S
    BY <1>1
  <2> QED BY <2>2, <2>3, GapIs
<1> HIDE DEF k, l
<1>11. \A u \in S : GapBefore(w, S, u) > 1 => u \in {xl, yl}
  BY <1>10
<1> QED BY <1>4, <1>5, <1>6, <1>7, <1>8, <1>9, <1>11

\* Two ranges cover such a set and close one of its gaps.
LEMMA CoversOfTwoArcs ==
  ASSUME NEW w, IsWidth(w), NEW S, NEW xl, NEW xu, NEW yl, NEW yu, TwoArcs(w, S, xl, xu, yl, yu)
  PROVE  Covers(w, S) = {Between(w, xl, yu), Between(w, yl, xu)}
<1> DEFINE Starts == {u \in S : GapBefore(w, S, u) > 1}
           C(v) == Between(w, v, Cut(w, v + 1 - GapBefore(w, S, v)))
<1>1. Starts = {xl, yl}
  BY GapsOfTwoArcs
<1>2. C(xl) = Between(w, xl, yu) /\ C(yl) = Between(w, yl, xu)
  BY GapsOfTwoArcs
<1>3. Covers(w, S) = {C(v) : v \in Starts}
  BY DEF Covers
<1> HIDE DEF Starts, C
<1> QED BY <1>1, <1>2, <1>3

\* The preferred one of them is best.
LEMMA PreferredIsBest ==
  ASSUME NEW w, IsWidth(w), NEW S, NEW xl, NEW xu, NEW yl, NEW yu, TwoArcs(w, S, xl, xu, yl, yu),
         NEW pref \in Preferences, NEW a, NEW b, {a, b} = {Between(w, xl, yu), Between(w, yl, xu)}
  PROVE  BestCover(GetPreferredRange(a, b, pref), S, pref)
<1>1. Covers(w, S) = {a, b}
  BY CoversOfTwoArcs
<1>2. xl # yu /\ yl # xu /\ xl \in Word(w) /\ xu \in Word(w) /\ yl \in Word(w) /\ yu \in Word(w)
  BY WordFacts DEF TwoArcs, TwoInside, OneAround
<1>3. /\ Between(w, xl, yu) \in ConstantRanges(w) /\ Between(w, yl, xu) \in ConstantRanges(w)
      /\ Between(w, xl, yu).lower # Between(w, xl, yu).upper
      /\ Between(w, yl, xu).lower # Between(w, yl, xu).upper
      /\ Between(w, xl, yu).width = w /\ Between(w, yl, xu).width = w
  BY <1>2, ProperRange DEF Between
<1>4. a \in ConstantRanges(w) /\ b \in ConstantRanges(w) /\ a.lower # a.upper /\ b.lower # b.upper
      /\ a.width = w /\ b.width = w
  <2>1. a \in {Between(w, xl, yu), Between(w, yl, xu)} /\ b \in {Between(w, xl, yu), Between(w, yl, xu)}
    OBVIOUS
  <2> QED BY <1>3, <2>1
<1>5. PICK m \in Nat, k \in Nat : m = Cardinality(Elements(a)) /\ k = Cardinality(Elements(b))
  BY <1>4, SizeIs
<1>6. IsSizeStrictlySmallerThan(a, b) <=> (m < k)
  <2>1. m = Cut(w, a.upper - a.lower) /\ k = Cut(w, b.upper - b.lower)
    BY <1>4, <1>5, SizeIs
  <2> QED BY <1>4, <2>1 DEF IsSizeStrictlySmallerThan, IsFullSet
<1> DEFINE W(x) == IF pref = "Unsigned" THEN IsWrappedSet(x) ELSE pref = "Signed" /\ IsSignWrappedSet(x)
<1>7. GetPreferredRange(a, b, pref) =
         IF W(a) # W(b) THEN (IF W(a) THEN b ELSE a) ELSE IF IsSizeStrictlySmallerThan(a, b) THEN a ELSE b
  BY DEF GetPreferredRange
<1>8. \A x, y : Better(x, y, pref) <=> IF W(x) # W(y) THEN W(y)
                                       ELSE Cardinality(Elements(x)) < Cardinality(Elements(y))
  <2> DEFINE V(x) == pref # "Smallest" /\ Wraps(x, pref = "Unsigned")
  <2>1. \A x, y : Better(x, y, pref) <=> IF V(x) # V(y) THEN V(y)
                                         ELSE Cardinality(Elements(x)) < Cardinality(Elements(y))
    BY DEF Better
  <2>2. ASSUME NEW x PROVE V(x) = W(x)
    <3>1. CASE pref = "Unsigned"
      BY <3>1 DEF Wraps, IsWrappedSet
    <3>2. CASE pref = "Signed"
      BY <3>2 DEF Wraps, IsSignWrappedSet
    <3>3. CASE pref = "Smallest"
      BY <3>3
    <3> QED BY <3>1, <3>2, <3>3 DEF Preferences
  <2> HIDE DEF V, W
  <2> QED BY <2>1, <2>2
<1> HIDE DEF W
<1>9. PICK z : z = GetPreferredRange(a, b, pref)
  OBVIOUS
<1>10. z \in {a, b} /\ ~Better(a, z, pref) /\ ~Better(b, z, pref)
  <2>1. CASE W(a) # W(b)
    <3>1. CASE W(a)
      <4>1. ~W(b) /\ z = b
        BY <1>7, <1>9, <2>1, <3>1
      <4>2. ~Better(a, b, pref)
        BY <1>8, <2>1, <4>1
      <4>3. ~Better(b, b, pref)
        BY <1>5, <1>8
      <4> QED BY <4>1, <4>2, <4>3
    <3>2. CASE ~W(a)
      <4>1. z = a
        BY <1>7, <1>9, <2>1, <3>2
      <4>2. ~Better(b, a, pref)
        BY <1>8, <2>1, <3>2
      <4>3. ~Better(a, a, pref)
        BY <1>5, <1>8
      <4> QED BY <4>1, <4>2, <4>3
    <3> QED BY <3>1, <3>2
  <2>2. CASE W(a) = W(b)
    <3>1. (Better(a, b, pref) <=> m < k) /\ (Better(b, a, pref) <=> k < m)
      BY <1>5, <1>8, <2>2
    <3>2. ~Better(a, a, pref) /\ ~Better(b, b, pref)
      BY <1>5, <1>8
    <3>3. CASE m < k
      <4>1. z = a
        BY <1>6, <1>7, <1>9, <2>2, <3>3
      <4> QED BY <3>1, <3>2, <3>3, <4>1
    <3>4. CASE ~(m < k)
      <4>1. z = b
        BY <1>6, <1>7, <1>9, <2>2, <3>4
      <4> QED BY <3>1, <3>2, <3>4, <4>1
    <3> QED BY <3>3, <3>4
  <2> QED BY <2>1, <2>2
<1>11. z.width = w
  BY <1>4, <1>10
<1>12. S # {} /\ S # Word(w)
  <2>1. xl \in S /\ xu \notin S
    BY <1>2, WordFacts DEF TwoArcs, TwoInside, OneAround
  <2> QED BY <1>2, <2>1
<1>13. z \in Covers(w, S) /\ \A c \in Covers(w, S) : ~Better(c, z, pref)
  BY <1>1, <1>10
<1>14. BestCover(z, S, pref)
  BY <1>11, <1>12, <1>13, BestCoverIs
<1> QED BY <1>9, <1>14

-----------------------------------------------------------------------------
(* Unions and intersections are best.                                      *)

\* Either of the two may be named first.
LEMMA GapClosedIsBest ==
  ASSUME NEW w, IsWidth(w), NEW S, NEW xl, NEW xu, NEW yl, NEW yu, TwoArcs(w, S, xl, xu, yl, yu),
         NEW pref \in Preferences, NEW z,
         \/ z = GetPreferredRange(Between(w, xl, yu), Between(w, yl, xu), pref)
         \/ z = GetPreferredRange(Between(w, yl, xu), Between(w, xl, yu), pref)
  PROVE  BestCover(z, S, pref)
<1>1. CASE z = GetPreferredRange(Between(w, xl, yu), Between(w, yl, xu), pref)
  BY <1>1, PreferredIsBest
<1>2. CASE z = GetPreferredRange(Between(w, yl, xu), Between(w, xl, yu), pref)
  <2>1. {Between(w, yl, xu), Between(w, xl, yu)} = {Between(w, xl, yu), Between(w, yl, xu)}
    OBVIOUS
  <2> QED BY <1>2, <2>1, PreferredIsBest
<1> QED BY <1>1, <1>2

\* Two ranges that wrap leave at most one gap.
LEMMA BothWrappedUnionBest ==
  ASSUME NEW w, IsWidth(w), NEW r \in ConstantRanges(w), NEW s \in ConstantRanges(w), NEW pref \in Preferences,
         IsUpperWrapped(r), IsUpperWrapped(s)
  PROVE  BestCover(UnionBothWrapped(r, s), Elements(r) \cup Elements(s), pref)
<1>1. \A v \in Word(w) : Contains(UnionBothWrapped(r, s), v) <=> v \in Elements(r) \cup Elements(s)
  BY RangeFields, WordFacts
     DEF UnionBothWrapped, Contains, Elements, IsFullSet, IsUpperWrapped, FullRange, Between, UMin, UMax
<1>2. Elements(r) \cup Elements(s) \in SUBSET Word(w)
  BY RangeFields DEF Elements
<1> QED BY <1>1, <1>2, BothWrappedUnion, ExactIsBest

\* A range between the two ends of one that wraps leaves two gaps.
LEMMA MixedUnionBest ==
  ASSUME NEW w, IsWidth(w), NEW r \in ConstantRanges(w), NEW s \in ConstantRanges(w), NEW pref \in Preferences,
         IsUpperWrapped(r), ~IsUpperWrapped(s), s.lower # s.upper
  PROVE  BestCover(UnionWrappedWithUnwrapped(r, s, pref), Elements(r) \cup Elements(s), pref)
<1> DEFINE S == Elements(r) \cup Elements(s)
           z == UnionWrappedWithUnwrapped(r, s, pref)
<1>1. S \in SUBSET Word(w)
  BY RangeFields DEF Elements
<1>2. CASE ~(s.lower > r.upper /\ s.lower < r.lower /\ s.upper < r.lower)
  <2>1. \A v \in Word(w) : Contains(z, v) <=> v \in S
    BY <1>2, RangeFields, WordFacts
       DEF UnionWrappedWithUnwrapped, Contains, Elements, IsFullSet, IsUpperWrapped, FullRange, Between
  <2> QED BY <1>1, <2>1, MixedUnion, ExactIsBest
<1>3. CASE s.lower > r.upper /\ s.lower < r.lower /\ s.upper < r.lower
  <2>1. OneAround(w, S, r.lower, r.upper, s.lower, s.upper)
    BY <1>3, RangeFields, WordFacts DEF OneAround, Elements, Contains, IsUpperWrapped
  <2>2. TwoArcs(w, S, r.lower, r.upper, s.lower, s.upper)
    BY <1>1, <2>1, RangeFields DEF TwoArcs
  <2>3. z = OneGapClosed(r, s, pref)
    BY <1>3, RangeFields, WordFacts DEF UnionWrappedWithUnwrapped
  <2>4. z = GetPreferredRange(Between(w, r.lower, s.upper), Between(w, s.lower, r.upper), pref)
    BY <2>3, RangeFields DEF OneGapClosed
  <2>5. BestCover(z, S, pref)
    BY <2>2, <2>4, GapClosedIsBest
  <2> QED BY <2>5
<1> QED BY <1>2, <1>3

\* Two ranges apart leave two gaps, of which one goes around the greatest word.
LEMMA BothUnwrappedUnionBest ==
  ASSUME NEW w, IsWidth(w), NEW r \in ConstantRanges(w), NEW s \in ConstantRanges(w), NEW pref \in Preferences,
         r.lower < r.upper, s.lower < s.upper
  PROVE  BestCover(UnionBothUnwrapped(r, s, pref), Elements(r) \cup Elements(s), pref)
<1> DEFINE S == Elements(r) \cup Elements(s)
           z == UnionBothUnwrapped(r, s, pref)
<1>1. S \in SUBSET Word(w)
  BY RangeFields DEF Elements
<1>2. CASE ~(s.upper < r.lower \/ r.upper < s.lower)
  <2>1. /\ Cut(w, r.upper - 1) = r.upper - 1
        /\ Cut(w, s.upper - 1) = s.upper - 1
    BY RangeFields, WordFacts, CutFacts
  <2>2. \A v \in Word(w) : Contains(z, v) <=> v \in S
    BY <1>2, <2>1, RangeFields, WordFacts
       DEF UnionBothUnwrapped, Contains, Elements, IsFullSet, IsUpperWrapped, FullRange, Between, UMin
  <2> QED BY <1>1, <2>2, BothUnwrappedUnion, ExactIsBest
<1>3. CASE s.upper < r.lower \/ r.upper < s.lower
  <2>1. z = GetPreferredRange(Between(w, r.lower, s.upper), Between(w, s.lower, r.upper), pref)
    BY <1>3, RangeFields DEF UnionBothUnwrapped, OneGapClosed
  <2>2. CASE s.upper < r.lower
    <3>1. TwoInside(w, S, s.lower, s.upper, r.lower, r.upper)
      BY <2>2, RangeFields, WordFacts DEF TwoInside, Elements, Contains, IsUpperWrapped
    <3>2. TwoArcs(w, S, s.lower, s.upper, r.lower, r.upper)
      BY <1>1, <3>1, RangeFields DEF TwoArcs
    <3>3. BestCover(z, S, pref)
      BY <2>1, <3>2, GapClosedIsBest
    <3> QED BY <3>3
  <2>3. CASE r.upper < s.lower
    <3>1. TwoInside(w, S, r.lower, r.upper, s.lower, s.upper)
      BY <2>3, RangeFields, WordFacts DEF TwoInside, Elements, Contains, IsUpperWrapped
    <3>2. TwoArcs(w, S, r.lower, r.upper, s.lower, s.upper)
      BY <1>1, <3>1, RangeFields DEF TwoArcs
    <3>3. BestCover(z, S, pref)
      BY <2>1, <3>2, GapClosedIsBest
    <3> QED BY <3>3
  <2> QED BY <1>3, <2>2, <2>3
<1> QED BY <1>2, <1>3

\* Two ranges that wrap meet around the greatest word, and again where one reaches the other.
LEMMA BothWrappedIntersectionBest ==
  ASSUME NEW w, IsWidth(w), NEW r \in ConstantRanges(w), NEW s \in ConstantRanges(w), NEW pref \in Preferences,
         IsUpperWrapped(r), IsUpperWrapped(s)
  PROVE  BestCover(IntersectBothWrapped(r, s, pref), Elements(r) \cap Elements(s), pref)
<1> DEFINE S == Elements(r) \cap Elements(s)
           z == IntersectBothWrapped(r, s, pref)
<1>1. S \in SUBSET Word(w)
  BY RangeFields DEF Elements
<1>2. r = Between(w, r.lower, r.upper) /\ s = Between(w, s.lower, s.upper)
  BY RangeFields
<1>3. CASE s.lower < r.upper
  <2>1. OneAround(w, S, r.lower, s.upper, s.lower, r.upper)
    BY <1>3, RangeFields, WordFacts DEF OneAround, Elements, Contains, IsUpperWrapped
  <2>2. TwoArcs(w, S, r.lower, s.upper, s.lower, r.upper)
    BY <1>1, <2>1, RangeFields DEF TwoArcs
  <2>3. z = GetPreferredRange(r, s, pref)
    BY <1>3, RangeFields, WordFacts DEF IntersectBothWrapped, IsUpperWrapped
  <2>4. z = GetPreferredRange(Between(w, r.lower, r.upper), Between(w, s.lower, s.upper), pref)
    BY <1>2, <2>3
  <2>5. BestCover(z, S, pref)
    BY <2>2, <2>4, GapClosedIsBest
  <2> QED BY <2>5
<1>4. CASE s.upper > r.lower
  <2>1. OneAround(w, S, s.lower, r.upper, r.lower, s.upper)
    BY <1>4, RangeFields, WordFacts DEF OneAround, Elements, Contains, IsUpperWrapped
  <2>2. TwoArcs(w, S, s.lower, r.upper, r.lower, s.upper)
    BY <1>1, <2>1, RangeFields DEF TwoArcs
  <2>3. z = GetPreferredRange(r, s, pref)
    BY <1>4, RangeFields, WordFacts DEF IntersectBothWrapped, IsUpperWrapped
  <2>4. z = GetPreferredRange(Between(w, r.lower, r.upper), Between(w, s.lower, s.upper), pref)
    BY <1>2, <2>3
  <2>5. BestCover(z, S, pref)
    BY <2>2, <2>4, GapClosedIsBest
  <2> QED BY <2>5
<1>5. CASE ~(s.lower < r.upper) /\ ~(s.upper > r.lower)
  <2>1. \A v \in Word(w) : Contains(z, v) <=> v \in S
    BY <1>5, RangeFields, WordFacts
       DEF IntersectBothWrapped, Contains, Elements, IsFullSet, IsUpperWrapped, Between
  <2> QED BY <1>1, <2>1, BothWrappedIntersection, ExactIsBest
<1> QED BY <1>3, <1>4, <1>5

\* A range may meet both ends of one that wraps.
LEMMA MixedIntersectionBest ==
  ASSUME NEW w, IsWidth(w), NEW r \in ConstantRanges(w), NEW s \in ConstantRanges(w), NEW pref \in Preferences,
         IsUpperWrapped(r), s.lower < s.upper
  PROVE  BestCover(IntersectWrappedWithUnwrapped(r, s, pref), Elements(r) \cap Elements(s), pref)
<1> DEFINE S == Elements(r) \cap Elements(s)
           z == IntersectWrappedWithUnwrapped(r, s, pref)
<1>1. S \in SUBSET Word(w)
  BY RangeFields DEF Elements
<1>2. r = Between(w, r.lower, r.upper) /\ s = Between(w, s.lower, s.upper)
  BY RangeFields
<1>3. CASE s.lower < r.upper /\ s.upper > r.lower
  <2>1. TwoInside(w, S, s.lower, r.upper, r.lower, s.upper)
    BY <1>3, RangeFields, WordFacts DEF TwoInside, Elements, Contains, IsUpperWrapped
  <2>2. TwoArcs(w, S, s.lower, r.upper, r.lower, s.upper)
    BY <1>1, <2>1, RangeFields DEF TwoArcs
  <2>3. z = GetPreferredRange(r, s, pref)
    BY <1>3, RangeFields, WordFacts DEF IntersectWrappedWithUnwrapped, IsUpperWrapped
  <2>4. z = GetPreferredRange(Between(w, r.lower, r.upper), Between(w, s.lower, s.upper), pref)
    BY <1>2, <2>3
  <2>5. BestCover(z, S, pref)
    BY <2>2, <2>4, GapClosedIsBest
  <2> QED BY <2>5
<1>4. CASE ~(s.lower < r.upper /\ s.upper > r.lower)
  <2>1. \A v \in Word(w) : Contains(z, v) <=> v \in S
    BY <1>4, RangeFields, WordFacts
       DEF IntersectWrappedWithUnwrapped, Contains, Elements, IsFullSet, IsUpperWrapped, EmptyRange, Between, UMaxValue
  <2> QED BY <1>1, <2>1, MixedIntersection, ExactIsBest
<1> QED BY <1>3, <1>4

\* Two ranges that do not wrap meet in one.
LEMMA BothUnwrappedIntersectionBest ==
  ASSUME NEW w, IsWidth(w), NEW r \in ConstantRanges(w), NEW s \in ConstantRanges(w), NEW pref \in Preferences,
         r.lower < r.upper, s.lower < s.upper
  PROVE  BestCover(IntersectBothUnwrapped(r, s), Elements(r) \cap Elements(s), pref)
<1>1. Elements(r) \cap Elements(s) \in SUBSET Word(w)
  BY RangeFields DEF Elements
<1>2. \A v \in Word(w) : Contains(IntersectBothUnwrapped(r, s), v) <=> v \in Elements(r) \cap Elements(s)
  BY RangeFields, WordFacts
     DEF IntersectBothUnwrapped, Contains, Elements, IsFullSet, IsUpperWrapped, EmptyRange, Between, UMaxValue
<1> QED BY <1>1, <1>2, BothUnwrappedIntersection, ExactIsBest

\* A union or intersection is the best range for its words, for any width.
LEMMA UnionIsBest ==
  ASSUME NEW w, IsWidth(w), NEW r \in ConstantRanges(w), NEW s \in ConstantRanges(w), NEW pref \in Preferences
  PROVE  BestCover(UnionWith(r, s, pref), Elements(r) \cup Elements(s), pref)
<1>0. Elements(r) \cup Elements(s) \in SUBSET Word(w) /\ Elements(r) = {v \in Word(w) : Contains(r, v)}
      /\ Elements(s) = {v \in Word(w) : Contains(s, v)}
  BY RangeFields DEF Elements
<1>1. CASE IsFullSet(r) \/ IsEmptySet(s)
  <2>1. UnionWith(r, s, pref) = r
    BY <1>1 DEF UnionWith
  <2>2. \A v \in Word(w) : Contains(r, v) <=> v \in Elements(r) \cup Elements(s)
    BY <1>0, <1>1, TrivialContents
  <2> QED BY <1>0, <2>1, <2>2, ExactIsBest
<1>2. CASE ~(IsFullSet(r) \/ IsEmptySet(s)) /\ (IsFullSet(s) \/ IsEmptySet(r))
  <2>1. UnionWith(r, s, pref) = s
    BY <1>2 DEF UnionWith
  <2>2. \A v \in Word(w) : Contains(s, v) <=> v \in Elements(r) \cup Elements(s)
    BY <1>0, <1>2, TrivialContents
  <2> QED BY <1>0, <2>1, <2>2, ExactIsBest
<1>3. CASE ~IsFullSet(r) /\ ~IsEmptySet(s) /\ ~IsFullSet(s) /\ ~IsEmptySet(r)
  <2>0. r.lower # r.upper /\ s.lower # s.upper
    BY <1>3, RangeFields DEF IsFullSet, IsEmptySet
  <2>1. /\ ~IsUpperWrapped(r) => r.lower < r.upper
        /\ ~IsUpperWrapped(s) => s.lower < s.upper
    BY <2>0, RangeFields, WordFacts DEF IsUpperWrapped
  <2>2. CASE IsUpperWrapped(r) /\ IsUpperWrapped(s)
    <3>1. UnionWith(r, s, pref) = UnionBothWrapped(r, s)
      BY <1>3, <2>2 DEF UnionWith
    <3> QED BY <2>2, <3>1, BothWrappedUnionBest
  <2>3. CASE IsUpperWrapped(r) /\ ~IsUpperWrapped(s)
    <3>1. UnionWith(r, s, pref) = UnionWrappedWithUnwrapped(r, s, pref)
      BY <1>3, <2>3 DEF UnionWith
    <3> QED BY <2>0, <2>3, <3>1, MixedUnionBest
  <2>4. CASE ~IsUpperWrapped(r) /\ IsUpperWrapped(s)
    <3>1. UnionWith(r, s, pref) = UnionWrappedWithUnwrapped(s, r, pref)
      BY <1>3, <2>4 DEF UnionWith
    <3>2. Elements(r) \cup Elements(s) = Elements(s) \cup Elements(r)
      OBVIOUS
    <3> QED BY <2>0, <2>4, <3>1, <3>2, MixedUnionBest
  <2>5. CASE ~IsUpperWrapped(r) /\ ~IsUpperWrapped(s)
    <3>1. UnionWith(r, s, pref) = UnionBothUnwrapped(r, s, pref)
      BY <1>3, <2>5 DEF UnionWith
    <3> QED BY <2>1, <2>5, <3>1, BothUnwrappedUnionBest
  <2> QED BY <2>2, <2>3, <2>4, <2>5
<1> QED BY <1>1, <1>2, <1>3

\* The same for the words that two ranges have in common.
LEMMA IntersectionIsBest ==
  ASSUME NEW w, IsWidth(w), NEW r \in ConstantRanges(w), NEW s \in ConstantRanges(w), NEW pref \in Preferences
  PROVE  BestCover(IntersectWith(r, s, pref), Elements(r) \cap Elements(s), pref)
<1>0. Elements(r) \cap Elements(s) \in SUBSET Word(w) /\ Elements(r) = {v \in Word(w) : Contains(r, v)}
      /\ Elements(s) = {v \in Word(w) : Contains(s, v)}
  BY RangeFields DEF Elements
<1>1. CASE IsEmptySet(r) \/ IsFullSet(s)
  <2>1. IntersectWith(r, s, pref) = r
    BY <1>1 DEF IntersectWith
  <2>2. \A v \in Word(w) : Contains(r, v) <=> v \in Elements(r) \cap Elements(s)
    BY <1>0, <1>1, TrivialContents
  <2> QED BY <1>0, <2>1, <2>2, ExactIsBest
<1>2. CASE ~(IsEmptySet(r) \/ IsFullSet(s)) /\ (IsEmptySet(s) \/ IsFullSet(r))
  <2>1. IntersectWith(r, s, pref) = s
    BY <1>2 DEF IntersectWith
  <2>2. \A v \in Word(w) : Contains(s, v) <=> v \in Elements(r) \cap Elements(s)
    BY <1>0, <1>2, TrivialContents
  <2> QED BY <1>0, <2>1, <2>2, ExactIsBest
<1>3. CASE ~IsFullSet(r) /\ ~IsEmptySet(s) /\ ~IsFullSet(s) /\ ~IsEmptySet(r)
  <2>0. r.lower # r.upper /\ s.lower # s.upper
    BY <1>3, RangeFields DEF IsFullSet, IsEmptySet
  <2>1. /\ ~IsUpperWrapped(r) => r.lower < r.upper
        /\ ~IsUpperWrapped(s) => s.lower < s.upper
    BY <2>0, RangeFields, WordFacts DEF IsUpperWrapped
  <2>2. CASE IsUpperWrapped(r) /\ IsUpperWrapped(s)
    <3>1. IntersectWith(r, s, pref) = IntersectBothWrapped(r, s, pref)
      BY <1>3, <2>2 DEF IntersectWith
    <3> QED BY <2>2, <3>1, BothWrappedIntersectionBest
  <2>3. CASE IsUpperWrapped(r) /\ ~IsUpperWrapped(s)
    <3>1. IntersectWith(r, s, pref) = IntersectWrappedWithUnwrapped(r, s, pref)
      BY <1>3, <2>3 DEF IntersectWith
    <3> QED BY <2>1, <2>3, <3>1, MixedIntersectionBest
  <2>4. CASE ~IsUpperWrapped(r) /\ IsUpperWrapped(s)
    <3>1. IntersectWith(r, s, pref) = IntersectWrappedWithUnwrapped(s, r, pref)
      BY <1>3, <2>4 DEF IntersectWith
    <3>2. Elements(r) \cap Elements(s) = Elements(s) \cap Elements(r)
      OBVIOUS
    <3> QED BY <2>1, <2>4, <3>1, <3>2, MixedIntersectionBest
  <2>5. CASE ~IsUpperWrapped(r) /\ ~IsUpperWrapped(s)
    <3>1. IntersectWith(r, s, pref) = IntersectBothUnwrapped(r, s)
      BY <1>3, <2>5 DEF IntersectWith
    <3> QED BY <2>1, <2>5, <3>1, BothUnwrappedIntersectionBest
  <2> QED BY <2>2, <2>3, <2>4, <2>5
<1> QED BY <1>1, <1>2, <1>3

\* Whatever the range of a variable is: with any other range of its type it joins and
\* intersects as exactly as a range can, and where two ranges are possible the result is
\* the one the caller prefers (UnionWith, IntersectWith, GetPreferredRange).
THEOREM JoinsArePrecise == TypeOK => JoinPrecise
<1> SUFFICES ASSUME TypeOK, NEW other \in Others, NEW pref \in Preferences
             PROVE  /\ BestCover(UnionWith(domain.numeric, other, pref), Elements(domain.numeric) \cup Elements(other), pref)
                    /\ BestCover(IntersectWith(domain.numeric, other, pref), Elements(domain.numeric) \cap Elements(other), pref)
  BY DEF JoinPrecise
<1>1. IsWidth(width) /\ domain.numeric \in ConstantRanges(width) /\ other \in ConstantRanges(width)
  BY DomainIs DEF Others
<1> QED BY <1>1, UnionIsBest, IntersectionIsBest

\* In every path of sums, differences, casts and joins each union and intersection with
\* the range of the variable is exact, or the preferred one of the smallest.
THEOREM SumsAndCastsPrecise ==
  ASSUME Operations \subseteq Sums, CastStrategies \subseteq CastKinds, ~FlagMayDiffer
  PROVE  Spec => []JoinPrecise
<1>1. IInv => JoinPrecise
  BY JoinsArePrecise DEF IInv
<1> QED BY <1>1, SumsAndCastsInvariant, PTL

-----------------------------------------------------------------------------
(* Symbolic bounds.                                                        *)

\* The type of the symbols and the one with a bit less.
LEMMA WidthIs ==
  /\ IsWidth(Width) /\ IsWidth(Width - 1) /\ Related(Width - 1, Width)
  /\ Width \in Nat /\ Width - 1 \in Nat /\ Width - 1 < Width
<1>1. IsWidth(Width) /\ IsWidth(Width - 1) /\ Width \in Nat \ {0} /\ Size(Width) = 2 * Size(Width - 1)
  BY WidthAssumption DEF WidthAssumption, IsWidth
<1>2. PICK n \in Nat \ {0} : n = Size(Width - 1)
  BY <1>1 DEF IsWidth
<1>3. SMinValue(Width) = n
  <2>1. PICK h \in Int : h = SMinValue(Width)
    BY <1>1 DEF IsWidth, SMinValue
  <2> QED BY <1>1, <1>2, <2>1 DEF IsWidth
<1>4. Narrower(Width - 1, Width)
  <2>1. SMinValue(Width) = 1 * Size(Width - 1) /\ 1 \in Nat \ {0}
    BY <1>2, <1>3
  <2> QED BY <1>1, <2>1 DEF Narrower
<1>5. Width - 1 \in Nat /\ Width - 1 < Width /\ ~(Width < Width - 1)
  BY <1>1
<1> QED BY <1>1, <1>4, <1>5 DEF Related

\* The integers of a type are the readings of its words.
LEMMA ReadingOfCut ==
  ASSUME NEW w, IsWidth(w), NEW u \in BOOLEAN, NEW i \in Int, InType(w, u, i)
  PROVE  Cut(w, i) \in Word(w) /\ Val(w, u, Cut(w, i)) = i
<1>1. PICK h \in Int : h = SMinValue(w) /\ 1 <= h /\ Size(w) = 2 * h
  BY WordFacts, BoundsAre
<1>2. CASE u
  <2>1. 0 <= i /\ i < Size(w)
    BY <1>1, <1>2 DEF InType, MinOf, MaxOf, UMaxValue
  <2>2. Cut(w, i) = i /\ Cut(w, i) \in Word(w)
    BY <2>1, CutFacts
  <2> QED BY <1>2, <2>2 DEF Val
<1>3. CASE ~u
  <2>1. -h <= i /\ i < h
    BY <1>1, <1>3 DEF InType, MinOf, MaxOf, SMaxValue
  <2>2. CASE 0 <= i
    <3>1. Cut(w, i) = i /\ Cut(w, i) \in Word(w)
      BY <1>1, <2>1, <2>2, CutFacts
    <3>2. ~IsNeg(w, i)
      BY <1>1, <2>1 DEF IsNeg
    <3> QED BY <1>3, <3>1, <3>2 DEF Val, SVal
  <2>3. CASE i < 0
    <3>1. Cut(w, i) = i + Size(w) /\ Cut(w, i) \in Word(w)
      BY <1>1, <2>1, <2>3, CutFacts
    <3>2. IsNeg(w, i + Size(w)) /\ (i + Size(w)) - Size(w) = i
      BY <1>1, <2>1 DEF IsNeg
    <3> QED BY <1>3, <3>1, <3>2 DEF Val, SVal
  <2> QED BY <2>2, <2>3
<1> QED BY <1>2, <1>3

\* Every word reads as an integer of the type, and is the word of that integer.
LEMMA CutOfReading ==
  ASSUME NEW w, IsWidth(w), NEW u \in BOOLEAN, NEW v \in Word(w)
  PROVE  Val(w, u, v) \in Int /\ InType(w, u, Val(w, u, v)) /\ Cut(w, Val(w, u, v)) = v
<1>1. PICK h \in Int, n \in Int : h = SMinValue(w) /\ n = Size(w) /\ 1 <= h /\ n = 2 * h
  BY WordFacts, BoundsAre
<1>2. v \in Int /\ 0 <= v /\ v < n
  BY <1>1, WordFacts
<1>3. Cut(w, v) = v
  BY <1>1, <1>2, CutFacts
<1>4. CASE u
  <2>1. Val(w, u, v) = v
    BY <1>4 DEF Val
  <2>2. v \in 0..(n - 1)
    BY <1>1, <1>2
  <2> QED BY <1>1, <1>2, <1>3, <1>4, <2>1, <2>2 DEF InType, MinOf, MaxOf, UMaxValue
<1>5. CASE ~u
  <2>1. PICK i \in Int : i = IF v >= h THEN v - n ELSE v
    BY <1>1, <1>2
  <2>2. Val(w, u, v) = i
    BY <1>1, <1>5, <2>1 DEF Val, SVal, IsNeg
  <2>3. i \in (-h)..(h - 1)
    BY <1>1, <1>2, <2>1
  <2>4. MinOf(w, u) = -h /\ MaxOf(w, u) = h - 1
    BY <1>1, <1>5 DEF MinOf, MaxOf, SMaxValue
  <2>5. Cut(w, i) = v
    <3>1. -Size(w) <= i /\ i < 0 => Cut(w, i) = i + Size(w)
      BY CutFacts
    <3> QED BY <1>1, <1>2, <1>3, <2>1, <3>1
  <2> QED BY <2>2, <2>3, <2>4, <2>5 DEF InType
<1> QED BY <1>4, <1>5

\* A sum or difference that does not overflow is that of the values, not only modulo 2^w.
LEMMA SumReading ==
  ASSUME NEW w, IsWidth(w), NEW u \in BOOLEAN, NEW op \in Sums, NEW a \in Word(w), NEW b \in Word(w),
         ~IsOverflow(w, u, op, a, b)
  PROVE  /\ Folded(w, u, op, "THROWING", a, b) \in Word(w)
         /\ Val(w, u, Folded(w, u, op, "THROWING", a, b))
              = IF op = "ADD" THEN Val(w, u, a) + Val(w, u, b) ELSE Val(w, u, a) - Val(w, u, b)
<1>1. PICK x \in Int, y \in Int : x = Val(w, u, a) /\ y = Val(w, u, b)
  BY ReadingIs
<1>2. PICK i \in Int : i = IF op = "ADD" THEN x + y ELSE x - y
  OBVIOUS
<1>3. Exact(op, x, y) = i
  BY <1>2 DEF Exact, Sums
<1>4. InType(w, u, i)
  BY <1>1, <1>3 DEF IsOverflow
<1>5. Folded(w, u, op, "THROWING", a, b) = Cut(w, i)
  BY <1>1, <1>3 DEF Folded, Fit
<1> QED BY <1>1, <1>2, <1>4, <1>5, ReadingOfCut

\* Negate contains the negations of the words of a range that is not full and does not
\* start at the smallest signed value (ComputeSub has no bound for one that does).
LEMMA NegateContains ==
  ASSUME NEW w, IsWidth(w), NEW r \in ConstantRanges(w), NEW a \in Word(w), Contains(r, a), ~IsFullSet(r),
         r.lower # SMinValue(w)
  PROVE  Negate(r) \in ConstantRanges(w) /\ Contains(Negate(r), Cut(w, -a))
<1>0. ~IsEmptySet(r) /\ r.width = w /\ r.lower \in Word(w) /\ r.upper \in Word(w) /\ r.lower # r.upper
  <2>1. r.lower # r.upper
    BY DEF Contains
  <2>2. ~IsEmptySet(r)
    BY <2>1 DEF IsEmptySet
  <2> QED BY <2>1, <2>2, RangeFields
<1>1. PICK n \in Int : n = Size(w) /\ 2 <= n
  BY WordFacts
<1>2. PICK l \in Int, u \in Int : l = r.lower /\ u = r.upper /\ 0 <= l /\ l < n /\ 0 <= u /\ u < n /\ l # u
  BY <1>0, <1>1, WordFacts
<1>3. a \in Int /\ 0 <= a /\ a < n
  BY <1>1, WordFacts
<1>4. PICK nl \in Word(w) : nl = Cut(w, 1 - u)
  BY CutFacts
<1>5. PICK nu \in Word(w) : nu = Cut(w, 1 - l)
  BY CutFacts
<1>6. PICK na \in Word(w) : na = Cut(w, -a)
  <2>1. -a \in Int
    BY <1>3
  <2> QED BY <2>1, CutFacts
<1>7. nl = (IF u <= 1 THEN 1 - u ELSE 1 - u + n) /\ nu = (IF l <= 1 THEN 1 - l ELSE 1 - l + n)
  BY <1>1, <1>2, <1>4, <1>5, CutFacts
<1>8. na = IF a = 0 THEN 0 ELSE n - a
  BY <1>1, <1>3, <1>6, CutFacts
<1>9. IF l > u THEN l <= a \/ a < u ELSE l <= a /\ a < u
  BY <1>0, <1>2 DEF Contains, IsUpperWrapped
<1>10. nl # nu /\ (IF nl > nu THEN nl <= na \/ na < nu ELSE nl <= na /\ na < nu)
  BY <1>1, <1>2, <1>3, <1>7, <1>8, <1>9
<1>11. Negate(r) = Between(w, nl, nu)
  BY <1>0, <1>2, <1>4, <1>5 DEF Negate
<1>12. Between(w, nl, nu) \in ConstantRanges(w)
  BY <1>10, ProperRange
<1>13. Contains(Between(w, nl, nu), na)
  BY <1>10 DEF Between, Contains, IsUpperWrapped
<1> QED BY <1>6, <1>11, <1>12, <1>13

-----------------------------------------------------------------------------
(* Comparisons through bounds.                                             *)

\* The bound r lets a value lie the distance i from its symbol.
Allows(w, r, i) ==
    /\ r \in ConstantRanges(w)
    /\ \E c \in Word(w) : Contains(r, c) /\ SVal(w, c) = i

\* A comparison of differences is one of values.
LEMMA DistanceHolds ==
  ASSUME NEW x \in Int, NEW y \in Int, NEW z \in Int, NEW rel \in Equalities \cup Orderings
  PROVE  /\ Holds(rel, x - y, 0) = Holds(rel, x, y)
         /\ Holds(rel, x - z, y - z) = Holds(rel, x, y)
         /\ rel \in Equalities => Holds(rel, y - x, 0) = Holds(rel, x, y)
         /\ rel \in Orderings => /\ SymbolicNeg(rel) \in Orderings
                                 /\ Holds(SymbolicNeg(rel), y - x, 0) = Holds(rel, x, y)
<1>1. CASE rel = "LT"
  BY <1>1 DEF Holds, SymbolicNeg, Orderings, Equalities
<1>2. CASE rel = "LE"
  BY <1>2 DEF Holds, SymbolicNeg, Orderings, Equalities
<1>3. CASE rel = "GT"
  BY <1>3 DEF Holds, SymbolicNeg, Orderings, Equalities
<1>4. CASE rel = "GE"
  BY <1>4 DEF Holds, SymbolicNeg, Orderings, Equalities
<1>5. CASE rel = "EQUAL"
  BY <1>5 DEF Holds, Orderings, Equalities
<1>6. CASE rel = "NOTEQUAL"
  BY <1>6 DEF Holds, Orderings, Equalities
<1> QED BY <1>1, <1>2, <1>3, <1>4, <1>5, <1>6 DEF Orderings, Equalities

\* The word 0 reads as 0, alone in the range a bound is compared with.
LEMMA ZeroReading ==
  ASSUME NEW w, IsWidth(w)
  PROVE  /\ 0 \in Word(w) /\ SVal(w, 0) = 0 /\ Val(w, FALSE, 0) = 0
         /\ Single(w, 0) \in ConstantRanges(w) /\ Contains(Single(w, 0), 0)
<1>1. 0 \in Word(w) /\ SMinValue(w) \in Int /\ 1 <= SMinValue(w)
  BY BoundsAre, WordFacts
<1> QED BY <1>1, SingleContents DEF Val, SVal, IsNeg

\* Two bounds for one symbol, compared as signed ranges.
LEMMA CommonOrdering ==
  ASSUME NEW w, IsWidth(w), NEW rel \in Orderings, NEW r, NEW i, Allows(w, r, i), NEW s, NEW j, Allows(w, s, j)
  PROVE  Compare(rel, r, s, FALSE) \subseteq {Holds(rel, i, j)}
<1>1. PICK a \in Word(w) : Contains(r, a) /\ SVal(w, a) = i
  BY DEF Allows
<1>2. PICK b \in Word(w) : Contains(s, b) /\ SVal(w, b) = j
  BY DEF Allows
<1>3. r \in ConstantRanges(w) /\ s \in ConstantRanges(w)
  BY DEF Allows
<1>4. Val(w, FALSE, a) = i /\ Val(w, FALSE, b) = j
  BY <1>1, <1>2 DEF Val
<1>5. Compare(rel, r, s, FALSE) \subseteq {Holds(rel, Val(w, FALSE, a), Val(w, FALSE, b))}
  BY <1>1, <1>2, <1>3, CompareSound
<1> QED BY <1>4, <1>5

\* The same for the equalities.
LEMMA CommonEquality ==
  ASSUME NEW w, IsWidth(w), NEW rel \in Equalities, NEW r, NEW i, Allows(w, r, i), NEW s, NEW j, Allows(w, s, j),
         NEW pref
  PROVE  CompareEquality(rel, r, s, pref) \subseteq {Holds(rel, i, j)}
<1>1. PICK a \in Word(w) : Contains(r, a) /\ SVal(w, a) = i
  BY DEF Allows
<1>2. PICK b \in Word(w) : Contains(s, b) /\ SVal(w, b) = j
  BY DEF Allows
<1>3. r \in ConstantRanges(w) /\ s \in ConstantRanges(w)
  BY DEF Allows
<1>4. Val(w, FALSE, a) = i /\ Val(w, FALSE, b) = j
  BY <1>1, <1>2 DEF Val
<1>5. CompareEquality(rel, r, s, pref) \subseteq {Holds(rel, Val(w, FALSE, a), Val(w, FALSE, b))}
  BY <1>1, <1>2, <1>3, EqualitySound
<1> QED BY <1>4, <1>5

\* A bound for the other operand itself is compared with 0.
LEMMA BoundOrdering ==
  ASSUME NEW w, IsWidth(w), NEW rel \in Orderings, NEW r, NEW i, Allows(w, r, i)
  PROVE  Compare(rel, r, Single(w, 0), FALSE) \subseteq {Holds(rel, i, 0)}
<1>1. Allows(w, Single(w, 0), 0)
  BY ZeroReading DEF Allows
<1> QED BY <1>1, CommonOrdering

\* BoundEquality decides by a single difference, or by 0 lying outside the bound.
LEMMA BoundEqualitySound ==
  ASSUME NEW w, IsWidth(w), NEW rel \in Equalities, NEW r, NEW i, Allows(w, r, i), NEW also
  PROVE  BoundEquality(rel, r, also) \subseteq {Holds(rel, i, 0)}
<1>1. PICK c \in Word(w) : Contains(r, c) /\ SVal(w, c) = i
  BY DEF Allows
<1>2. r \in ConstantRanges(w)
  BY DEF Allows
<1>3. c = 0 <=> i = 0
  <2>1. Val(w, FALSE, c) = Val(w, FALSE, 0) <=> c = 0
    <3>1. 0 \in Word(w) /\ c \in Word(w)
      BY ZeroReading
    <3> QED BY <3>1, ReadingIs
  <2> QED BY <1>1, <2>1, ZeroReading DEF Val
<1>4. c \in Int /\ i \in Int
  <2>1. Val(w, FALSE, c) \in Int
    BY ReadingIs
  <2> QED BY <1>1, <2>1, WordFacts DEF Val
<1>5. Holds(rel, c, 0) = Holds(rel, i, 0)
  BY <1>3, <1>4 DEF Holds, Equalities
<1>6. CASE IsSingleElement(r)
  <2>1. c = r.lower
    BY <1>1, <1>2, <1>6, SingleContents
  <2> QED BY <1>5, <1>6, <2>1 DEF BoundEquality
<1>7. CASE ~IsSingleElement(r) /\ ~Contains(r, 0)
  <2>1. c # 0
    BY <1>1, <1>7
  <2>2. Holds(rel, i, 0) = (rel = "NOTEQUAL")
    BY <1>3, <2>1 DEF Holds, Equalities
  <2>3. BoundEquality(rel, r, also) \subseteq {rel = "NOTEQUAL"}
    BY <1>7 DEF BoundEquality
  <2> QED BY <2>2, <2>3
<1>8. CASE ~IsSingleElement(r) /\ Contains(r, 0)
  BY <1>8 DEF BoundEquality
<1> QED BY <1>6, <1>7, <1>8

\* The answer is that of a source that has one.
LEMMA FirstDecidedFrom ==
  ASSUME NEW a, NEW b, NEW c, NEW d, NEW S, a \subseteq S, b \subseteq S, c \subseteq S, d \subseteq S
  PROVE  FirstDecided(<<a, b, c, d>>) \subseteq S
<1> DEFINE answers == <<a, b, c, d>>
           decided == {i \in DOMAIN answers : answers[i] # {}}
<1>1. DOMAIN answers = {1, 2, 3, 4} /\ \A i \in DOMAIN answers : answers[i] \subseteq S
  OBVIOUS
<1>2. CASE decided = {}
  BY <1>2 DEF FirstDecided
<1>3. CASE decided # {}
  <2>1. decided \subseteq {1, 2, 3, 4}
    BY <1>1
  <2> HIDE DEF decided
  <2>2. \E i \in decided : \A j \in decided : i <= j
    <3>1. CASE 1 \in decided
      BY <2>1, <3>1
    <3>2. CASE 1 \notin decided /\ 2 \in decided
      BY <2>1, <3>2
    <3>3. CASE 1 \notin decided /\ 2 \notin decided /\ 3 \in decided
      BY <2>1, <3>3
    <3>4. CASE 1 \notin decided /\ 2 \notin decided /\ 3 \notin decided
      <4>1. 4 \in decided /\ \A j \in decided : j = 4
        BY <1>3, <2>1, <3>4
      <4> QED BY <4>1
    <3> QED BY <3>1, <3>2, <3>3, <3>4
  <2>3. (CHOOSE i \in decided : \A j \in decided : i <= j) \in decided
    BY <2>2
  <2>4. FirstDecided(answers) = answers[CHOOSE i \in decided : \A j \in decided : i <= j]
    BY <1>3 DEF FirstDecided, decided
  <2>5. decided \subseteq DOMAIN answers
    BY DEF decided
  <2>6. PICK k \in decided : k = CHOOSE i \in decided : \A j \in decided : i <= j
    BY <2>3
  <2>7. FirstDecided(answers) = answers[k] /\ answers[k] \subseteq S
    BY <1>1, <2>4, <2>5, <2>6
  <2> QED BY <2>7
<1> QED BY <1>2, <1>3

-----------------------------------------------------------------------------
(* What a domain says of a value, in a program with the symbols of q.      *)

SymbolDomains ==
    [numeric : ConstantRanges(Width), symbolics : UNION {[T -> ConstantRanges(Width)] : T \in SUBSET Nat}, unsignedFlag : BOOLEAN]
Distance(u, q, v, t) == Val(Width, u, v) - Val(Width, u, q[t].value)
Describes(u, q, d, v) ==
    /\ Contains(d.numeric, v)
    /\ \A t \in DOMAIN d.symbolics : t \in 1..Len(q) /\ Allows(Width, d.symbolics[t], Distance(u, q, v, t))

\* Every symbol is described by its domain.
Described(u, q) ==
    /\ u \in BOOLEAN
    /\ q \in Seq([value : Word(Width), domain : SymbolDomains])
    /\ \A s \in 1..Len(q) : Describes(u, q, q[s].domain, q[s].value)

\* A described value may be added: the bounds of the earlier ones do not mention it.
LEMMA DescribedExtends ==
  ASSUME NEW u, NEW q, Described(u, q), NEW v \in Word(Width), NEW d \in SymbolDomains, Describes(u, q, d, v)
  PROVE  Described(u, Append(q, [value |-> v, domain |-> d]))
<1> DEFINE E == [value : Word(Width), domain : SymbolDomains]
           e == [value |-> v, domain |-> d]
<1>1. q \in Seq(E) /\ e \in E
  BY DEF Described
<1> HIDE DEF E
<1>2. PICK p : p = Append(q, e)
  OBVIOUS
<1>3. /\ p \in Seq(E) /\ Len(p) = Len(q) + 1 /\ Len(q) \in Nat
      /\ p[Len(q) + 1] = e /\ \A s \in 1..Len(q) : p[s] = q[s]
  BY <1>1, <1>2
<1>4. ASSUME NEW c, NEW x, Describes(u, q, c, x) PROVE Describes(u, p, c, x)
  <2>1. \A t \in 1..Len(q) : t \in 1..Len(p) /\ Distance(u, p, x, t) = Distance(u, q, x, t)
    BY <1>3 DEF Distance
  <2> QED BY <1>4, <2>1 DEF Describes
<1>5. ASSUME NEW s \in 1..Len(p) PROVE Describes(u, p, p[s].domain, p[s].value)
  <2>1. CASE s \in 1..Len(q)
    <3>1. Describes(u, q, q[s].domain, q[s].value)
      BY <2>1 DEF Described
    <3> QED BY <1>3, <1>4, <2>1, <3>1
  <2>2. CASE s = Len(q) + 1
    <3>1. p[s].domain = d /\ p[s].value = v
      BY <1>3, <2>2
    <3> QED BY <1>4, <3>1
  <2> QED BY <1>3, <2>1, <2>2
<1>6. Described(u, p)
  BY <1>3, <1>5 DEF Described, E
<1> QED BY <1>2, <1>6

\* A domain without bounds, or with those of the code.
LEMMA DomainFields ==
  ASSUME NEW n \in ConstantRanges(Width), NEW u \in BOOLEAN, NEW T \in SUBSET Nat, NEW f \in [T -> ConstantRanges(Width)]
  PROVE  /\ Domain(n, f, u) \in SymbolDomains /\ Domain(n, f, u).numeric = n /\ Domain(n, f, u).symbolics = f
         /\ DOMAIN f = T
BY DEF Domain, SymbolDomains

\* A range without bounds describes every value in it.
LEMMA WithoutBounds ==
  ASSUME NEW n \in ConstantRanges(Width), NEW u \in BOOLEAN, NEW q, NEW v, Contains(n, v)
  PROVE  Domain(n, NoBounds, u) \in SymbolDomains /\ Describes(u, q, Domain(n, NoBounds, u), v)
<1>1. NoBounds \in [{} -> ConstantRanges(Width)] /\ {} \in SUBSET Nat
  BY DEF NoBounds
<1>2. PICK d \in SymbolDomains : d = Domain(n, NoBounds, u) /\ d.numeric = n /\ d.symbolics = NoBounds /\ DOMAIN NoBounds = {}
  <2>1. PICK T \in SUBSET Nat : T = {}
    OBVIOUS
  <2>2. PICK f \in [T -> ConstantRanges(Width)] : f = NoBounds
    BY <1>1, <2>1
  <2>3. Domain(n, f, u) \in SymbolDomains /\ Domain(n, f, u).numeric = n /\ Domain(n, f, u).symbolics = f /\ DOMAIN f = T
    BY DomainFields
  <2> QED BY <2>1, <2>2, <2>3
<1>3. Describes(u, q, d, v)
  BY <1>2 DEF Describes
<1> QED BY <1>2, <1>3

\* Bounded drops the bounds or leaves them.
LEMMA BoundedDescribes ==
  ASSUME NEW n \in ConstantRanges(Width), NEW u \in BOOLEAN, NEW q, NEW v, Contains(n, v),
         NEW T \in SUBSET Nat, NEW f \in [T -> ConstantRanges(Width)],
         \A t \in T : t \in 1..Len(q) /\ Allows(Width, f[t], Distance(u, q, v, t)), NEW ov
  PROVE  Bounded(n, ov, f, u) \in SymbolDomains /\ Describes(u, q, Bounded(n, ov, f, u), v)
<1>1. Domain(n, f, u) \in SymbolDomains /\ Describes(u, q, Domain(n, f, u), v)
  <2>1. PICK d \in SymbolDomains : d = Domain(n, f, u) /\ d.numeric = n /\ d.symbolics = f /\ DOMAIN f = T
    BY DomainFields
  <2>2. Describes(u, q, d, v)
    BY <2>1 DEF Describes
  <2> QED BY <2>1, <2>2
<1>2. Bounded(n, ov, f, u) \in {Domain(n, f, u), Domain(n, NoBounds, u)}
  BY DEF Bounded
<1> QED BY <1>1, <1>2, WithoutBounds

\* An operand is a symbol of the program or a literal.
IsOperand(u, q, o) ==
    /\ o.value \in Word(Width) /\ o.domain.numeric \in ConstantRanges(Width) /\ Contains(o.domain.numeric, o.value)
    /\ \/ o.symbol = 0 /\ IsSingleElement(o.domain.numeric)
       \/ o.symbol \in 1..Len(q) /\ o.value = q[o.symbol].value /\ o.domain = q[o.symbol].domain

\* The operands of a binary expression are described.
LEMMA OperandsAre ==
  ASSUME Described(unsigned, values), NEW o \in Operands
  PROVE  IsOperand(unsigned, values, o)
<1>1. CASE \E v \in Literals : o = Literal(v)
  <2>1. PICK v \in Literals : o = Literal(v)
    BY <1>1
  <2>2. v \in Word(Width) /\ IsWidth(Width)
    BY WidthAssumption, WidthIs DEF WidthAssumption
  <2>3. Single(Width, v) \in ConstantRanges(Width) /\ Contains(Single(Width, v), v)
    BY <2>2, SingleContents
  <2>4. IsSingleElement(Single(Width, v))
    BY DEF IsSingleElement, Single, Between
  <2>5. o.symbol = 0 /\ o.value = v /\ o.domain.numeric = Single(Width, v)
    BY <2>1 DEF Literal, FromLiteral, Domain
  <2> QED BY <2>2, <2>3, <2>4, <2>5 DEF IsOperand
<1>2. CASE \E s \in Symbols : o = Operand(s)
  <2>1. PICK s \in Symbols : o = Operand(s)
    BY <1>2
  <2> DEFINE E == [value : Word(Width), domain : SymbolDomains]
  <2>2. values \in Seq(E)
    BY DEF Described
  <2>3. s \in 1..Len(values) /\ values[s] \in E
    <3> HIDE DEF E
    <3>1. DOMAIN values = 1..Len(values)
      BY <2>2
    <3> QED BY <2>1, <2>2, <3>1 DEF Symbols
  <2>4. values[s].value \in Word(Width) /\ values[s].domain.numeric \in ConstantRanges(Width)
    BY <2>3 DEF SymbolDomains
  <2>5. Contains(values[s].domain.numeric, values[s].value)
    BY <2>3 DEF Described, Describes
  <2>6. o.symbol = s /\ o.value = values[s].value /\ o.domain = values[s].domain
    BY <2>1 DEF Operand
  <2> QED BY <2>3, <2>4, <2>5, <2>6 DEF IsOperand
<1> QED BY <1>1, <1>2 DEF Operands

-----------------------------------------------------------------------------
(* The domains of the symbols a step defines.                              *)

\* ComputeAdd: the sum lies the other operand above each operand.
LEMMA AddDescribes ==
  ASSUME NEW u, NEW q, Described(u, q), NEW l, IsOperand(u, q, l), NEW r, IsOperand(u, q, r),
         ~IsOverflow(Width, u, "ADD", l.value, r.value)
  PROVE  LET v == Folded(Width, u, "ADD", "THROWING", l.value, r.value)
             d == ComputeAdd("THROWING", u, l.symbol, l.domain.numeric, r.symbol, r.domain.numeric)
         IN d \in SymbolDomains /\ Describes(u, q, d, v)
<1> DEFINE ln == l.domain.numeric
           rn == r.domain.numeric
           v == Folded(Width, u, "ADD", "THROWING", l.value, r.value)
           f == AddBounds(l.symbol, r.symbol, ln, rn, u)
           n == SumRange("THROWING", u, ln, rn)
           above(x, y) == ~IsSingleElement(x) /\ ~IsFullSet(y) /\ FitsSigned(y, u)
           T == {t \in {l.symbol, r.symbol} : (t = l.symbol /\ above(ln, rn)) \/ (t = r.symbol /\ above(rn, ln))}
<1>0. /\ IsWidth(Width) /\ u \in BOOLEAN /\ "ADD" \in Sums
      /\ l.value \in Word(Width) /\ ln \in ConstantRanges(Width) /\ Contains(ln, l.value)
      /\ r.value \in Word(Width) /\ rn \in ConstantRanges(Width) /\ Contains(rn, r.value)
  BY WidthIs DEF Described, IsOperand, Sums
<1>1. v \in Word(Width) /\ Val(Width, u, v) = Val(Width, u, l.value) + Val(Width, u, r.value)
  BY <1>0, SumReading
<1>2. n \in ConstantRanges(Width) /\ Contains(n, v)
  <2>1. n = ComputeNumeric("ADD", "THROWING", u, ln, rn)
    BY DEF ComputeNumeric
  <2> QED BY <1>0, <2>1, SumRangeSound
<1>3. Val(Width, u, l.value) \in Int /\ Val(Width, u, r.value) \in Int
  BY <1>0, ReadingIs
<1>4. f = [t \in T |-> IF t = l.symbol THEN rn ELSE ln]
  BY DEF AddBounds
<1>5. ASSUME NEW o, IsOperand(u, q, o), ~IsSingleElement(o.domain.numeric)
      PROVE  o.symbol \in 1..Len(q) /\ o.symbol \in Nat /\ o.value = q[o.symbol].value /\ o.domain = q[o.symbol].domain
  BY <1>5 DEF IsOperand
<1>6. ASSUME NEW t \in T PROVE t \in 1..Len(q) /\ t \in Nat /\ Allows(Width, f[t], Distance(u, q, v, t))
  <2>1. CASE t = l.symbol /\ above(ln, rn)
    <3>1. t \in 1..Len(q) /\ t \in Nat /\ l.value = q[t].value
      BY <1>5, <2>1
    <3>2. SVal(Width, r.value) = Val(Width, u, r.value)
      BY <1>0, <2>1, FitsReading
    <3>3. Distance(u, q, v, t) = SVal(Width, r.value)
      BY <1>1, <1>3, <3>1, <3>2 DEF Distance
    <3>4. f[t] = rn
      BY <1>4, <2>1
    <3> QED BY <1>0, <3>1, <3>3, <3>4 DEF Allows
  <2>2. CASE t = r.symbol /\ above(rn, ln)
    <3>1. t \in 1..Len(q) /\ t \in Nat /\ r.value = q[t].value /\ r.domain = q[t].domain
      BY <1>5, <2>2
    <3>2. SVal(Width, l.value) = Val(Width, u, l.value)
      BY <1>0, <2>2, FitsReading
    <3>3. Distance(u, q, v, t) = SVal(Width, l.value)
      BY <1>1, <1>3, <3>1, <3>2 DEF Distance
    <3>4. f[t] = ln
      <4>1. CASE t = l.symbol
        <5>1. l.domain = q[t].domain
          BY <3>1, <4>1 DEF IsOperand
        <5> QED BY <1>4, <3>1, <4>1, <5>1
      <4>2. CASE t # l.symbol
        BY <1>4, <4>2
      <4> QED BY <4>1, <4>2
    <3> QED BY <1>0, <3>1, <3>3, <3>4 DEF Allows
  <2> QED BY <2>1, <2>2
<1> HIDE DEF n, v, f, T
<1>7. T \in SUBSET Nat /\ f \in [T -> ConstantRanges(Width)]
  BY <1>0, <1>4, <1>6
<1>8. Bounded(n, "THROWING", f, u) \in SymbolDomains /\ Describes(u, q, Bounded(n, "THROWING", f, u), v)
  BY <1>0, <1>2, <1>6, <1>7, BoundedDescribes
<1> QED BY <1>8 DEF ComputeAdd, n, v, f

\* The negation of a word of the subtrahend is a signed number.
LEMMA NegatedReading ==
  ASSUME IsWidth(Width), unsigned \in BOOLEAN, NEW r \in ConstantRanges(Width), Negatable(r),
         NEW a \in Word(Width), Contains(r, a)
  PROVE  Cut(Width, -a) \in Word(Width) /\ SVal(Width, Cut(Width, -a)) = -Val(Width, unsigned, a)
<1>1. PICK n \in Int, h \in Int : n = Size(Width) /\ h = SMinValue(Width) /\ n = 2 * h /\ 1 <= h
  BY WordFacts
<1>2. a \in Int /\ 0 <= a /\ a < n
  BY <1>1, WordFacts
<1>3. PICK i \in Int : i = Val(Width, unsigned, a)
  BY ReadingIs
<1>4. -h <= -i /\ -i < h
  <2>1. a \in Elements(r)
    BY RangeFields DEF Elements
  <2>2. -i \in MinOf(Width, FALSE)..MaxOf(Width, FALSE)
    BY <1>3, <2>1 DEF Negatable
  <2>3. MinOf(Width, FALSE) = -h /\ MaxOf(Width, FALSE) = h - 1
    BY <1>1, BoundsAre
  <2>4. -i \in (-h)..(h - 1)
    BY <2>2, <2>3
  <2> QED BY <1>1, <2>4
<1>5. i = a \/ i = a - n
  <2>1. Val(Width, unsigned, a) \in {a, a - Size(Width)}
    BY ReadingIs
  <2> QED BY <1>1, <1>3, <2>1
<1>6. PICK m \in Int : m = -a
  BY <1>2
<1>7. PICK c \in Word(Width) : c = Cut(Width, -a) /\ c = IF a = 0 THEN 0 ELSE n - a
  <2>1. Cut(Width, m) \in Word(Width)
    BY CutFacts
  <2>2. 0 <= m /\ m < Size(Width) => Cut(Width, m) = m
    BY CutFacts
  <2>3. -Size(Width) <= m /\ m < 0 => Cut(Width, m) = m + Size(Width)
    BY CutFacts
  <2>4. Cut(Width, m) = IF a = 0 THEN 0 ELSE n - a
    BY <1>1, <1>2, <1>6, <2>2, <2>3
  <2> QED BY <1>6, <2>1, <2>4
<1>8. SVal(Width, c) = IF c >= h THEN c - n ELSE c
  BY <1>1 DEF SVal, IsNeg
<1>9. (IF c >= h THEN c - n ELSE c) = -i
  BY <1>1, <1>2, <1>3, <1>4, <1>5, <1>7
<1> QED BY <1>3, <1>7, <1>8, <1>9

\* A range of such words starts at the smallest signed value only when that is all of it.
LEMMA NegatableStart ==
  ASSUME IsWidth(Width), unsigned \in BOOLEAN, NEW r \in ConstantRanges(Width), Negatable(r), ~IsFullSet(r),
         NEW a \in Word(Width), Contains(r, a), r # Single(r.width, SMinValue(r.width))
  PROVE  r.lower # SMinValue(Width)
<1> SUFFICES ASSUME r.lower = SMinValue(Width) PROVE FALSE
  OBVIOUS
<1>1. PICK n \in Int, h \in Int : n = Size(Width) /\ h = SMinValue(Width) /\ n = 2 * h /\ 1 <= h
  BY WordFacts
<1>2. r.lower # r.upper
  BY DEF Contains
<1>3. r.width = Width /\ r.lower = h /\ r.upper \in Word(Width) /\ h \in Word(Width) /\ r = Between(Width, r.lower, r.upper)
  BY <1>1, RangeFields
<1>4. PICK t \in Int : t = r.upper /\ 0 <= t /\ t < n /\ t # h
  BY <1>1, <1>2, <1>3, WordFacts
<1>5. \A c \in Word(Width) : Contains(r, c) <=> IF h > t THEN h <= c \/ c < t ELSE h <= c /\ c < t
  BY <1>2, <1>3, <1>4 DEF Contains, IsUpperWrapped
<1>6. \A c \in Word(Width) : Contains(r, c) => -h <= -Val(Width, unsigned, c) /\ -Val(Width, unsigned, c) < h
  <2>1. MinOf(Width, FALSE) = -h /\ MaxOf(Width, FALSE) = h - 1
    BY <1>1, BoundsAre
  <2>2. ASSUME NEW c \in Word(Width), Contains(r, c)
        PROVE  -h <= -Val(Width, unsigned, c) /\ -Val(Width, unsigned, c) < h
    <3>1. PICK i \in Int : i = Val(Width, unsigned, c)
      BY ReadingIs
    <3>2. c \in Elements(r)
      BY <1>3, <2>2 DEF Elements
    <3>3. -i \in MinOf(Width, FALSE)..MaxOf(Width, FALSE)
      BY <3>1, <3>2 DEF Negatable
    <3>4. -i \in (-h)..(h - 1)
      BY <2>1, <3>3
    <3>5. -h <= -i /\ -i < h
      BY <1>1, <3>4
    <3> QED BY <3>1, <3>5
  <2> QED BY <2>2
<1>7. Contains(r, h)
  BY <1>1, <1>3, <1>4, <1>5
<1>8. unsigned
  <2>1. ~unsigned => Val(Width, unsigned, h) = h - n
    BY <1>1 DEF Val, SVal, IsNeg
  <2> QED BY <1>1, <1>3, <1>6, <1>7, <2>1
<1>9. \A c \in Word(Width) : Contains(r, c) => c <= h
  <2>1. ASSUME NEW c \in Word(Width), Contains(r, c) PROVE c <= h
    <3>1. Val(Width, unsigned, c) = c /\ c \in Int
      BY <1>8, WordFacts DEF Val
    <3> QED BY <1>1, <1>6, <2>1, <3>1
  <2> QED BY <2>1
<1>10. t = h + 1 \/ (h + 1 = n /\ t = 0)
  <2>1. CASE h + 1 < n
    <3>1. h + 1 \in Word(Width)
      BY <1>1, <2>1 DEF Word
    <3>2. ~Contains(r, h + 1)
      BY <1>1, <1>9, <3>1
    <3> QED BY <1>1, <1>4, <1>5, <2>1, <3>1, <3>2
  <2>2. CASE h + 1 >= n
    <3>1. h = 1 /\ n = 2
      BY <1>1, <2>2
    <3> QED BY <1>4, <3>1
  <2> QED BY <1>1, <2>1, <2>2
<1>11. t = Cut(Width, h + 1)
  <2>1. PICK m \in Int : m = h + 1
    BY <1>1
  <2>2. (m < n => Cut(Width, m) = m) /\ (m = n => Cut(Width, m) = 0)
    <3>1. Size(Width) <= m /\ m < 2 * Size(Width) => Cut(Width, m) = m - Size(Width)
      BY CutFacts
    <3>2. 0 <= m /\ m < Size(Width) => Cut(Width, m) = m
      BY CutFacts
    <3> QED BY <1>1, <2>1, <3>1, <3>2
  <2>3. m <= n
    BY <1>1, <2>1
  <2>4. t = m \/ (m = n /\ t = 0)
    BY <1>10, <2>1
  <2>5. t = Cut(Width, m)
    BY <1>1, <1>4, <2>2, <2>3, <2>4
  <2> QED BY <2>1, <2>5
<1>12. r = Single(Width, h)
  BY <1>3, <1>4, <1>11 DEF Single
<1> QED BY <1>1, <1>3, <1>12

\* ComputeSub: the difference lies the negated right operand above the left one.
LEMMA SubDescribes ==
  ASSUME NEW q, Described(unsigned, q), NEW l, IsOperand(unsigned, q, l), NEW r, IsOperand(unsigned, q, r),
         ~IsOverflow(Width, unsigned, "SUB", l.value, r.value), Negatable(r.domain.numeric)
  PROVE  LET v == Folded(Width, unsigned, "SUB", "THROWING", l.value, r.value)
             d == ComputeSub("THROWING", unsigned, l.symbol, l.domain.numeric, r.domain.numeric)
         IN d \in SymbolDomains /\ Describes(unsigned, q, d, v)
<1> DEFINE u == unsigned
           ln == l.domain.numeric
           rn == r.domain.numeric
           v == Folded(Width, u, "SUB", "THROWING", l.value, r.value)
           f == SubBounds(l.symbol, ln, rn)
           n == DifferenceRange("THROWING", u, ln, rn)
<1>0. /\ IsWidth(Width) /\ u \in BOOLEAN /\ "SUB" \in Sums
      /\ l.value \in Word(Width) /\ ln \in ConstantRanges(Width) /\ Contains(ln, l.value)
      /\ r.value \in Word(Width) /\ rn \in ConstantRanges(Width) /\ Contains(rn, r.value)
  BY WidthIs DEF Described, IsOperand, Sums
<1>1. v \in Word(Width) /\ Val(Width, u, v) = Val(Width, u, l.value) - Val(Width, u, r.value)
  <2>1. "SUB" # "ADD"
    OBVIOUS
  <2> QED BY <1>0, <2>1, SumReading
<1>2. n \in ConstantRanges(Width) /\ Contains(n, v)
  <2>1. n = ComputeNumeric("SUB", "THROWING", u, ln, rn)
    BY DEF ComputeNumeric
  <2> QED BY <1>0, <2>1, SumRangeSound
<1>3. Val(Width, u, l.value) \in Int /\ Val(Width, u, r.value) \in Int
  BY <1>0, ReadingIs
<1>4. CASE ~IsSingleElement(ln) /\ ~IsFullSet(rn) /\ rn # Single(rn.width, SMinValue(rn.width))
  <2>1. l.symbol \in 1..Len(q) /\ l.symbol \in Nat /\ l.value = q[l.symbol].value
    BY <1>4 DEF IsOperand
  <2>2. f = [s \in {l.symbol} |-> Negate(rn)]
    BY <1>4 DEF SubBounds
  <2>3. rn.lower # SMinValue(Width)
    BY <1>0, <1>4, NegatableStart
  <2>4. Negate(rn) \in ConstantRanges(Width) /\ Contains(Negate(rn), Cut(Width, -r.value))
    BY <1>0, <1>4, <2>3, NegateContains
  <2>5. Cut(Width, -r.value) \in Word(Width) /\ SVal(Width, Cut(Width, -r.value)) = -Val(Width, u, r.value)
    BY <1>0, NegatedReading
  <2>6. Allows(Width, Negate(rn), Distance(u, q, v, l.symbol))
    <3>1. Distance(u, q, v, l.symbol) = -Val(Width, u, r.value)
      BY <1>1, <1>3, <2>1 DEF Distance
    <3> QED BY <2>4, <2>5, <3>1 DEF Allows
  <2>7. {l.symbol} \in SUBSET Nat /\ f \in [{l.symbol} -> ConstantRanges(Width)]
        /\ \A t \in {l.symbol} : t \in 1..Len(q) /\ Allows(Width, f[t], Distance(u, q, v, t))
    BY <2>1, <2>2, <2>4, <2>6
  <2> HIDE DEF n, v, f
  <2>8. Bounded(n, "THROWING", f, u) \in SymbolDomains /\ Describes(u, q, Bounded(n, "THROWING", f, u), v)
    BY <1>0, <1>2, <2>7, BoundedDescribes
  <2> QED BY <2>8 DEF ComputeSub, n, v, f
<1>5. CASE ~(~IsSingleElement(ln) /\ ~IsFullSet(rn) /\ rn # Single(rn.width, SMinValue(rn.width)))
  <2>1. f = NoBounds
    BY <1>5 DEF SubBounds
  <2>2. ComputeSub("THROWING", u, l.symbol, ln, rn) = Domain(n, NoBounds, u)
    BY <2>1 DEF ComputeSub, Bounded
  <2> QED BY <1>0, <1>2, <2>2, WithoutBounds
<1> QED BY <1>4, <1>5

\* HandleBinaryExpr, single values included.
LEMMA BinaryDescribes ==
  ASSUME NEW q, Described(unsigned, q), NEW l, IsOperand(unsigned, q, l), NEW r, IsOperand(unsigned, q, r),
         NEW op \in Sums, ~IsOverflow(Width, unsigned, op, l.value, r.value),
         op = "SUB" => Negatable(r.domain.numeric)
  PROVE  /\ Folded(Width, unsigned, op, "THROWING", l.value, r.value) \in Word(Width)
         /\ BinaryDomain(op, l, r) \in SymbolDomains
         /\ Describes(unsigned, q, BinaryDomain(op, l, r), Folded(Width, unsigned, op, "THROWING", l.value, r.value))
<1> DEFINE ln == l.domain.numeric
           rn == r.domain.numeric
           v == Folded(Width, unsigned, op, "THROWING", l.value, r.value)
<1>0. /\ IsWidth(Width) /\ unsigned \in BOOLEAN
      /\ l.value \in Word(Width) /\ ln \in ConstantRanges(Width) /\ Contains(ln, l.value)
      /\ r.value \in Word(Width) /\ rn \in ConstantRanges(Width) /\ Contains(rn, r.value)
  BY WidthIs DEF Described, IsOperand
<1>1. v \in Word(Width)
  BY <1>0, SumReading
<1>2. CASE IsSingleElement(ln) /\ IsSingleElement(rn)
  <2>1. l.value = ln.lower /\ r.value = rn.lower
    BY <1>0, <1>2, SingleContents
  <2>2. BinaryDomain(op, l, r) = FromLiteral(Width, unsigned, v)
    BY <1>2, <2>1 DEF BinaryDomain
  <2>3. Single(Width, v) \in ConstantRanges(Width) /\ Contains(Single(Width, v), v)
    BY <1>0, <1>1, SingleContents
  <2> QED BY <1>0, <1>1, <2>2, <2>3, WithoutBounds DEF FromLiteral
<1>3. CASE ~(IsSingleElement(ln) /\ IsSingleElement(rn)) /\ op = "ADD"
  <2>1. BinaryDomain(op, l, r) = ComputeAdd("THROWING", unsigned, l.symbol, ln, r.symbol, rn)
    BY <1>3 DEF BinaryDomain
  <2> QED BY <1>0, <1>1, <1>3, <2>1, AddDescribes
<1>4. CASE ~(IsSingleElement(ln) /\ IsSingleElement(rn)) /\ op # "ADD"
  <2>1. op = "SUB"
    BY <1>4 DEF Sums
  <2>2. BinaryDomain(op, l, r) = ComputeSub("THROWING", unsigned, l.symbol, ln, rn)
    BY <1>4 DEF BinaryDomain
  <2> QED BY <1>0, <1>1, <2>1, <2>2, SubDescribes
<1> QED BY <1>2, <1>3, <1>4

\* The fields of the domain of a symbol.
LEMMA SymbolDomainFields ==
  ASSUME NEW d \in SymbolDomains
  PROVE  /\ d.numeric \in ConstantRanges(Width) /\ d.unsignedFlag \in BOOLEAN /\ DOMAIN d.symbolics \subseteq Nat
         /\ \A k \in DOMAIN d.symbolics : d.symbolics[k] \in ConstantRanges(Width)
<1>1. PICK f : f = d.symbolics
  OBVIOUS
<1>2. f \in UNION {[T -> ConstantRanges(Width)] : T \in SUBSET Nat}
  BY <1>1 DEF SymbolDomains
<1>3. PICK T \in SUBSET Nat : f \in [T -> ConstantRanges(Width)]
  BY <1>2
<1>4. d.numeric \in ConstantRanges(Width) /\ d.unsignedFlag \in BOOLEAN
  BY DEF SymbolDomains
<1> QED BY <1>1, <1>3, <1>4

\* SIntRange::Join: what two domains say in common holds for the value of either.
LEMMA MergeDescribes ==
  ASSUME NEW u, NEW q, Described(u, q), NEW v,
         NEW d \in SymbolDomains, NEW e \in SymbolDomains, ~IsSame(d, e),
         v \in Word(Width), Describes(u, q, d, v) \/ Describes(u, q, e, v)
  PROVE  SIntRangeJoin(d, e) \in SymbolDomains /\ Describes(u, q, SIntRangeJoin(d, e), v)
<1> DEFINE bound(k) == UnionWith(d.symbolics[k], e.symbolics[k], "Smallest")
           T == {k \in DOMAIN d.symbolics \cap DOMAIN e.symbolics : ~IsFullSet(bound(k))}
           f == [k \in T |-> bound(k)]
<1>0. /\ IsWidth(Width) /\ d.numeric \in ConstantRanges(Width) /\ e.numeric \in ConstantRanges(Width) /\ d.unsignedFlag \in BOOLEAN
      /\ DOMAIN d.symbolics \subseteq Nat /\ DOMAIN e.symbolics \subseteq Nat
      /\ \A k \in DOMAIN d.symbolics : d.symbolics[k] \in ConstantRanges(Width)
      /\ \A k \in DOMAIN e.symbolics : e.symbolics[k] \in ConstantRanges(Width)
  BY WidthIs, SymbolDomainFields
<1>1. PICK n \in ConstantRanges(Width) : n = UnionWith(d.numeric, e.numeric, "Smallest") /\ Contains(n, v)
  <2>1. Contains(d.numeric, v) \/ Contains(e.numeric, v)
    BY DEF Describes
  <2> QED BY <1>0, <2>1, UnionContains
<1>2. ~IsEmptySet(n)
  <2>1. IsEmptySet(n) => Contains(n, v) = FALSE
    BY <1>0, <1>1, TrivialContents
  <2> QED BY <1>1, <2>1
<1>3. SIntRangeJoin(d, e) = Domain(n, f, d.unsignedFlag)
  BY <1>1, <1>2 DEF SIntRangeJoin, JoinChanges, Unions
<1>4. ASSUME NEW k \in T
      PROVE  k \in Nat /\ bound(k) \in ConstantRanges(Width) /\ k \in 1..Len(q) /\ Allows(Width, bound(k), Distance(u, q, v, k))
  <2>1. k \in DOMAIN d.symbolics /\ k \in DOMAIN e.symbolics
    OBVIOUS
  <2>2. k \in 1..Len(q) /\ (Allows(Width, d.symbolics[k], Distance(u, q, v, k)) \/ Allows(Width, e.symbolics[k], Distance(u, q, v, k)))
    BY <2>1 DEF Describes
  <2>3. PICK c \in Word(Width) : /\ Contains(d.symbolics[k], c) \/ Contains(e.symbolics[k], c)
                                 /\ SVal(Width, c) = Distance(u, q, v, k)
    BY <2>2 DEF Allows
  <2>4. bound(k) \in ConstantRanges(Width) /\ Contains(bound(k), c)
    BY <1>0, <2>1, <2>3, UnionContains
  <2> QED BY <1>0, <2>1, <2>2, <2>3, <2>4 DEF Allows
<1>5. T \in SUBSET Nat /\ f \in [T -> ConstantRanges(Width)] /\ \A k \in T : f[k] = bound(k)
  BY <1>4
<1> HIDE DEF T, f, bound
<1>6. PICK j \in SymbolDomains : j = Domain(n, f, d.unsignedFlag) /\ j.numeric = n /\ j.symbolics = f /\ DOMAIN f = T
  BY <1>0, <1>5, DomainFields
<1>7. Describes(u, q, j, v)
  BY <1>1, <1>4, <1>5, <1>6 DEF Describes
<1> QED BY <1>3, <1>6, <1>7

\* GetSIntDomainFromState, NumericConversion to a wider type.
LEMMA ParameterDescribes ==
  ASSUME NEW u \in BOOLEAN, NEW q, NEW v \in Word(Width)
  PROVE  LET widened == NumericConversion(Top(Width - 1, u).numeric, Width, u, u, "THROWING")
         IN /\ Top(Width, u) \in SymbolDomains /\ Describes(u, q, Top(Width, u), v)
            /\ InType(Width - 1, u, Val(Width, u, v)) =>
                  Domain(widened, NoBounds, u) \in SymbolDomains /\ Describes(u, q, Domain(widened, NoBounds, u), v)
<1>0. IsWidth(Width) /\ IsWidth(Width - 1) /\ Related(Width - 1, Width)
  BY WidthIs
<1>1. Top(Width, u) \in SymbolDomains /\ Describes(u, q, Top(Width, u), v)
  <2>1. FullRange(Width) \in ConstantRanges(Width) /\ Contains(FullRange(Width), v)
    BY <1>0, TrivialRanges, TrivialContents
  <2> QED BY <2>1, WithoutBounds DEF Top
<1>2. ASSUME InType(Width - 1, u, Val(Width, u, v))
      PROVE  LET widened == NumericConversion(Top(Width - 1, u).numeric, Width, u, u, "THROWING")
             IN Domain(widened, NoBounds, u) \in SymbolDomains /\ Describes(u, q, Domain(widened, NoBounds, u), v)
  <2>1. PICK i \in Int : i = Val(Width, u, v) /\ InType(Width, u, i) /\ Cut(Width, i) = v
    BY <1>0, CutOfReading
  <2>2. PICK a \in Word(Width - 1) : Val(Width - 1, u, a) = i
    BY <1>0, <1>2, <2>1, ReadingOfCut
  <2>3. PICK r \in ConstantRanges(Width - 1) : r = Top(Width - 1, u).numeric /\ Contains(r, a)
    BY <1>0, TrivialRanges, TrivialContents DEF Top, Domain
  <2>4. PICK t : t = NumericConversion(r, Width, u, u, "THROWING")
    OBVIOUS
  <2>5. CastSound(r, Width - 1, u, Width, u, "THROWING", t)
    BY <1>0, <2>4, ConversionSound DEF CastKinds
  <2>6. ~CastOverflows(Width - 1, u, Width, u, a)
    BY <2>1, <2>2 DEF CastOverflows
  <2>7. CastFolded(Width - 1, u, Width, u, "THROWING", a) = v
    BY <2>1, <2>2 DEF CastFolded, Fit
  <2>8. t \in ConstantRanges(Width) /\ Contains(t, v)
    BY <2>3, <2>5, <2>6, <2>7 DEF CastSound
  <2> QED BY <2>3, <2>4, <2>8, WithoutBounds
<1> QED BY <1>1, <1>2

-----------------------------------------------------------------------------
(* Decided comparisons of two symbols.                                     *)

\* Each way to decide a comparison of two symbols gives the program's answer.
LEMMA SymbolAnswerSound ==
  ASSUME NEW u, NEW q, Described(u, q), NEW s \in 1..Len(q), NEW t \in 1..Len(q), NEW rel \in Equalities \cup Orderings
  PROVE  ComputeRelIntBinop(rel, u, s, q[s].domain, t, q[t].domain)
            \subseteq {Holds(rel, Val(Width, u, q[s].value), Val(Width, u, q[t].value))}
<1> DEFINE E == [value : Word(Width), domain : SymbolDomains]
<1>1. PICK ad, bd, av, bv : ad = q[s].domain /\ bd = q[t].domain /\ av = q[s].value /\ bv = q[t].value
  OBVIOUS
<1>2. /\ ad \in SymbolDomains /\ bd \in SymbolDomains /\ av \in Word(Width) /\ bv \in Word(Width)
      /\ Describes(u, q, ad, av) /\ Describes(u, q, bd, bv) /\ u \in BOOLEAN /\ IsWidth(Width)
  <2>1. q \in Seq(E)
    BY DEF Described
  <2>2. q[s] \in E /\ q[t] \in E
    <3> HIDE DEF E
    <3> QED BY <2>1
  <2> QED BY <1>1, <2>2, WidthIs DEF Described
<1>3. PICK x \in Int, y \in Int : x = Val(Width, u, av) /\ y = Val(Width, u, bv)
  BY <1>2, ReadingIs
<1>4. /\ ad.numeric \in ConstantRanges(Width) /\ bd.numeric \in ConstantRanges(Width)
      /\ Contains(ad.numeric, av) /\ Contains(bd.numeric, bv) /\ ad.numeric.width = Width
  BY <1>2, SymbolDomainFields, RangeFields DEF Describes
<1>5. ASSUME NEW k \in DOMAIN ad.symbolics
      PROVE  /\ k = t => Allows(Width, ad.symbolics[k], x - y)
             /\ \E z \in Int : /\ z = Val(Width, u, q[k].value)
                               /\ Allows(Width, ad.symbolics[k], x - z)
  <2>1. k \in 1..Len(q) /\ Allows(Width, ad.symbolics[k], x - Val(Width, u, q[k].value))
    BY <1>2, <1>3 DEF Describes, Distance
  <2>2. Val(Width, u, q[k].value) \in Int
    <3>1. q \in Seq(E)
      BY DEF Described
    <3>2. q[k] \in E
      <4> HIDE DEF E
      <4> QED BY <2>1, <3>1
    <3> QED BY <1>2, <3>2, ReadingIs
  <2> QED BY <1>1, <1>3, <2>1, <2>2
<1>6. ASSUME NEW k \in DOMAIN bd.symbolics
      PROVE  /\ k = s => Allows(Width, bd.symbolics[k], y - x)
             /\ \A z : z = Val(Width, u, q[k].value) => Allows(Width, bd.symbolics[k], y - z)
  BY <1>1, <1>2, <1>3 DEF Describes, Distance
<1> DEFINE zero == Single(ad.numeric.width, 0)
           aForB == {ad.symbolics[k] : k \in DOMAIN ad.symbolics \cap {t}}
           bForA == {bd.symbolics[k] : k \in DOMAIN bd.symbolics \cap {s}}
           common == DOMAIN ad.symbolics \cap DOMAIN bd.symbolics
           answer == {Holds(rel, x, y)}
<1>7. \A r \in aForB : Allows(Width, r, x - y)
  BY <1>5
<1>8. \A r \in bForA : Allows(Width, r, y - x)
  BY <1>6
<1>9. \A k \in common : \E z \in Int : Allows(Width, ad.symbolics[k], x - z) /\ Allows(Width, bd.symbolics[k], y - z)
  BY <1>5, <1>6
<1> HIDE DEF aForB, bForA, common
<1>10. CASE s = t
  <2>1. x = y
    BY <1>1, <1>3, <1>10
  <2>2. ComputeRelIntBinop(rel, u, s, ad, t, bd) = {rel \in {"EQUAL", "LE", "GE"}}
    BY <1>10 DEF ComputeRelIntBinop
  <2>3. Holds(rel, x, y) = (rel \in {"EQUAL", "LE", "GE"})
    BY <2>1 DEF Holds, Equalities, Orderings
  <2> QED BY <1>1, <1>3, <2>2, <2>3
<1>11. CASE s # t /\ rel \in Equalities
  <2> DEFINE a1 == CompareEquality(rel, ad.numeric, bd.numeric, Prefer(ad.unsignedFlag))
             a2 == UNION {BoundEquality(rel, r, FALSE) : r \in aForB}
             a3 == UNION {BoundEquality(rel, r, TRUE) : r \in bForA}
             a4 == UNION {CompareEquality(rel, ad.symbolics[k], bd.symbolics[k], "Signed") : k \in common}
  <2>1. a1 \subseteq answer
    BY <1>2, <1>3, <1>4, <1>11, EqualitySound
  <2>2. a2 \subseteq answer
    <3>1. ASSUME NEW r \in aForB PROVE BoundEquality(rel, r, FALSE) \subseteq answer
      <4>1. BoundEquality(rel, r, FALSE) \subseteq {Holds(rel, x - y, 0)}
        BY <1>2, <1>7, <1>11, BoundEqualitySound
      <4> QED BY <4>1, DistanceHolds
    <3> QED BY <3>1
  <2>3. a3 \subseteq answer
    <3>1. ASSUME NEW r \in bForA PROVE BoundEquality(rel, r, TRUE) \subseteq answer
      <4>1. BoundEquality(rel, r, TRUE) \subseteq {Holds(rel, y - x, 0)}
        BY <1>2, <1>8, <1>11, BoundEqualitySound
      <4> QED BY <1>11, <4>1, DistanceHolds
    <3> QED BY <3>1
  <2>4. a4 \subseteq answer
    <3>1. ASSUME NEW k \in common PROVE CompareEquality(rel, ad.symbolics[k], bd.symbolics[k], "Signed") \subseteq answer
      <4>1. PICK z \in Int : Allows(Width, ad.symbolics[k], x - z) /\ Allows(Width, bd.symbolics[k], y - z)
        BY <1>9
      <4>2. CompareEquality(rel, ad.symbolics[k], bd.symbolics[k], "Signed") \subseteq {Holds(rel, x - z, y - z)}
        BY <1>2, <1>11, <4>1, CommonEquality
      <4> QED BY <4>2, DistanceHolds
    <3> QED BY <3>1
  <2>5. \/ ComputeRelIntBinop(rel, u, s, ad, t, bd) = {}
        \/ ComputeRelIntBinop(rel, u, s, ad, t, bd) = FirstDecided(<<a1, a2, a3, a4>>)
    BY <1>11 DEF ComputeRelIntBinop, aForB, bForA, common
  <2> HIDE DEF a1, a2, a3, a4, answer
  <2>6. FirstDecided(<<a1, a2, a3, a4>>) \subseteq answer
    BY <2>1, <2>2, <2>3, <2>4, FirstDecidedFrom
  <2>7. ComputeRelIntBinop(rel, u, s, ad, t, bd) \subseteq answer
    BY <2>5, <2>6
  <2> QED BY <1>1, <1>3, <2>7 DEF answer
<1>12. CASE s # t /\ rel \notin Equalities
  <2> DEFINE a1 == Compare(rel, ad.numeric, bd.numeric, u)
             a2 == UNION {Compare(rel, r, zero, FALSE) : r \in aForB}
             a3 == UNION {Compare(SymbolicNeg(rel), r, zero, FALSE) : r \in bForA}
             a4 == UNION {Compare(rel, ad.symbolics[k], bd.symbolics[k], FALSE) : k \in common}
  <2>0. rel \in Orderings /\ zero = Single(Width, 0)
    BY <1>4, <1>12
  <2>1. a1 \subseteq answer
    BY <1>2, <1>3, <1>4, <2>0, CompareSound
  <2>2. a2 \subseteq answer
    <3>1. ASSUME NEW r \in aForB PROVE Compare(rel, r, zero, FALSE) \subseteq answer
      <4>1. Compare(rel, r, Single(Width, 0), FALSE) \subseteq {Holds(rel, x - y, 0)}
        BY <1>2, <1>7, <2>0, BoundOrdering
      <4> QED BY <2>0, <4>1, DistanceHolds
    <3> QED BY <3>1
  <2>3. a3 \subseteq answer
    <3>1. ASSUME NEW r \in bForA PROVE Compare(SymbolicNeg(rel), r, zero, FALSE) \subseteq answer
      <4>1. SymbolicNeg(rel) \in Orderings /\ Holds(SymbolicNeg(rel), y - x, 0) = Holds(rel, x, y)
        BY <2>0, DistanceHolds
      <4>2. Compare(SymbolicNeg(rel), r, Single(Width, 0), FALSE) \subseteq {Holds(SymbolicNeg(rel), y - x, 0)}
        BY <1>2, <1>8, <4>1, BoundOrdering
      <4> QED BY <2>0, <4>1, <4>2
    <3> QED BY <3>1
  <2>4. a4 \subseteq answer
    <3>1. ASSUME NEW k \in common PROVE Compare(rel, ad.symbolics[k], bd.symbolics[k], FALSE) \subseteq answer
      <4>1. PICK z \in Int : Allows(Width, ad.symbolics[k], x - z) /\ Allows(Width, bd.symbolics[k], y - z)
        BY <1>9
      <4>2. Compare(rel, ad.symbolics[k], bd.symbolics[k], FALSE) \subseteq {Holds(rel, x - z, y - z)}
        BY <1>2, <2>0, <4>1, CommonOrdering
      <4>3. Holds(rel, x - z, y - z) = Holds(rel, x, y)
        BY DistanceHolds
      <4> QED BY <4>2, <4>3
    <3> QED BY <3>1
  <2>5. \/ ComputeRelIntBinop(rel, u, s, ad, t, bd) = {}
        \/ ComputeRelIntBinop(rel, u, s, ad, t, bd) = FirstDecided(<<a1, a2, a3, a4>>)
    BY <1>12 DEF ComputeRelIntBinop, aForB, bForA, common
  <2> HIDE DEF a1, a2, a3, a4, answer
  <2>6. FirstDecided(<<a1, a2, a3, a4>>) \subseteq answer
    BY <2>1, <2>2, <2>3, <2>4, FirstDecidedFrom
  <2>7. ComputeRelIntBinop(rel, u, s, ad, t, bd) \subseteq answer
    BY <2>5, <2>6
  <2> QED BY <1>1, <1>3, <2>7 DEF answer
<1> QED BY <1>10, <1>11, <1>12

-----------------------------------------------------------------------------
(* The program.                                                            *)

SymbolsInv == Described(unsigned, values)

\* Whatever the program defines: parameters, sums, differences, merged stores.
LEMMA SymbolsInvariant ==
  ASSUME ~AnySubtrahend, ~EqualMerges
  PROVE  SymbolSpec => []SymbolsInv
<1>1. SymbolInit => SymbolsInv
  <2> SUFFICES ASSUME SymbolInit PROVE Described(unsigned, values)
    BY DEF SymbolsInv
  <2>1. values = <<>> /\ unsigned \in BOOLEAN /\ Len(values) = 0
    BY DEF SymbolInit
  <2>2. values \in Seq([value : Word(Width), domain : SymbolDomains])
    BY <2>1
  <2> QED BY <2>1, <2>2 DEF Described
<1>2. SymbolsInv /\ [SymbolNext]_symbolVars => SymbolsInv'
  <2> SUFFICES ASSUME Described(unsigned, values), [SymbolNext]_symbolVars PROVE Described(unsigned', values')
    BY DEF SymbolsInv
  <2> DEFINE E == [value : Word(Width), domain : SymbolDomains]
  <2>0. values \in Seq(E) /\ unsigned \in BOOLEAN
    BY DEF Described
  <2>1. ASSUME NEW v \in Word(Width), NEW d \in SymbolDomains, Describes(unsigned, values, d, v), Define(v, d)
        PROVE  Described(unsigned', values')
    <3>1. Described(unsigned, Append(values, [value |-> v, domain |-> d]))
      BY <2>1, DescribedExtends
    <3>2. values' = Append(values, [value |-> v, domain |-> d]) /\ unsigned' = unsigned
      BY <2>1 DEF Define
    <3> QED BY <3>1, <3>2
  <2>2. CASE Parameter
    <3>1. PICK v \in Word(Width) :
             LET widened == NumericConversion(Top(Width - 1, unsigned).numeric, Width, unsigned, unsigned, "THROWING")
             IN \/ Define(v, Top(Width, unsigned))
                \/ /\ InType(Width - 1, unsigned, Val(Width, unsigned, v))
                   /\ Define(v, Domain(widened, NoBounds, unsigned))
      BY <2>2 DEF Parameter
    <3> QED BY <2>0, <2>1, <3>1, ParameterDescribes
  <2>3. CASE SymbolicBinaryExpr
    <3>1. PICK op \in {"ADD", "SUB"}, l \in Operands, r \in Operands :
             /\ op = "ADD" \/ Negatable(r.domain.numeric)
             /\ ~IsOverflow(Width, unsigned, op, l.value, r.value)
             /\ Define(Folded(Width, unsigned, op, "THROWING", l.value, r.value), BinaryDomain(op, l, r))
      BY <2>3 DEF SymbolicBinaryExpr
    <3>2. IsOperand(unsigned, values, l) /\ IsOperand(unsigned, values, r) /\ op \in Sums
          /\ (op = "SUB" => Negatable(r.domain.numeric))
      BY <3>1, OperandsAre DEF Sums
    <3>3. /\ Folded(Width, unsigned, op, "THROWING", l.value, r.value) \in Word(Width)
          /\ BinaryDomain(op, l, r) \in SymbolDomains
          /\ Describes(unsigned, values, BinaryDomain(op, l, r), Folded(Width, unsigned, op, "THROWING", l.value, r.value))
      BY <3>1, <3>2, BinaryDescribes
    <3> QED BY <2>1, <3>1, <3>3
  <2>4. CASE LoadMerged
    <3>0. PICK s \in Symbols, t \in Symbols :
             /\ ~IsSame(values[s].domain, values[t].domain)
             /\ \E taken \in {s, t} :
                   Define(values[taken].value, SIntRangeJoin(values[s].domain, values[t].domain))
      BY <2>4 DEF LoadMerged
    <3>1. PICK taken \in {s, t} : Define(values[taken].value, SIntRangeJoin(values[s].domain, values[t].domain))
      BY <3>0
    <3>2. s \in 1..Len(values) /\ t \in 1..Len(values) /\ values[s] \in E /\ values[t] \in E
      <4> HIDE DEF E
      <4>1. DOMAIN values = 1..Len(values)
        BY <2>0
      <4> QED BY <2>0, <4>1 DEF Symbols
    <3>3. /\ values[s].domain \in SymbolDomains /\ values[t].domain \in SymbolDomains /\ values[taken].value \in Word(Width)
          /\ Describes(unsigned, values, values[s].domain, values[s].value)
          /\ Describes(unsigned, values, values[t].domain, values[t].value)
      BY <3>2 DEF Described
    <3>4. /\ SIntRangeJoin(values[s].domain, values[t].domain) \in SymbolDomains
          /\ Describes(unsigned, values, SIntRangeJoin(values[s].domain, values[t].domain), values[taken].value)
      BY <3>0, <3>3, MergeDescribes
    <3> QED BY <2>1, <3>1, <3>3, <3>4
  <2>5. CASE UNCHANGED symbolVars
    BY <2>5 DEF symbolVars
  <2> QED BY <2>2, <2>3, <2>4, <2>5 DEF SymbolNext
<1> QED BY <1>1, <1>2, PTL DEF SymbolSpec

\* In every program of sums, differences and merged stores the range of a symbol holds its
\* value, and a symbolic bound holds the distance to the other symbol (ComputeAdd, ComputeSub,
\* NumericBoundToSignedSymbolicBound, SIntRange::Join), for every width and any number of
\* symbols, where no range is negated that has no signed reading and no two domains with one
\* numeric range are joined.
THEOREM SymbolsDescribed ==
  ASSUME ~AnySubtrahend, ~EqualMerges
  PROVE  SymbolSpec => []DomainSound
<1>1. SymbolsInv => DomainSound
  <2> SUFFICES ASSUME Described(unsigned, values), NEW s \in Last
               PROVE  /\ Contains(values[s].domain.numeric, values[s].value)
                      /\ \A t \in DOMAIN values[s].domain.symbolics :
                            Val(Width, unsigned, values[s].value) - Val(Width, unsigned, values[t].value)
                                \in {SVal(Width, c) : c \in Elements(values[s].domain.symbolics[t])}
    BY DEF SymbolsInv, DomainSound
  <2>1. s \in 1..Len(values)
    <3>1. values \in Seq([value : Word(Width), domain : SymbolDomains])
      BY DEF Described
    <3>2. DOMAIN values = 1..Len(values)
      BY <3>1
    <3> QED BY <3>2 DEF Last, Symbols
  <2>2. Describes(unsigned, values, values[s].domain, values[s].value)
    BY <2>1 DEF Described
  <2>3. ASSUME NEW t \in DOMAIN values[s].domain.symbolics
        PROVE  Val(Width, unsigned, values[s].value) - Val(Width, unsigned, values[t].value)
                   \in {SVal(Width, c) : c \in Elements(values[s].domain.symbolics[t])}
    <3>1. PICK r : r = values[s].domain.symbolics[t]
      OBVIOUS
    <3>2. Allows(Width, r, Distance(unsigned, values, values[s].value, t))
      BY <2>2, <3>1 DEF Describes
    <3>3. PICK c \in Word(Width) : Contains(r, c) /\ SVal(Width, c) = Distance(unsigned, values, values[s].value, t)
      BY <3>2 DEF Allows
    <3>4. c \in Elements(r)
      BY <3>2, <3>3, WidthIs, RangeFields DEF Allows, Elements
    <3> QED BY <3>1, <3>3, <3>4 DEF Distance
  <2> QED BY <2>2, <2>3 DEF Describes
<1> QED BY <1>1, SymbolsInvariant, PTL

\* A comparison of two symbols that the analysis decides by their ranges, by the bound of
\* one for the other, or by bounds of both for a third, has the answer of the program
\* (ComputeRelIntBinop), under the same conditions.
THEOREM SymbolsAnswered ==
  ASSUME ~AnySubtrahend, ~EqualMerges
  PROVE  SymbolSpec => []ComparisonsSound
<1>1. SymbolsInv => ComparisonsSound
  <2> SUFFICES ASSUME Described(unsigned, values) PROVE ComparisonsSound
    BY DEF SymbolsInv
  <2>1. Symbols = 1..Len(values) /\ Last \subseteq 1..Len(values)
    <3>1. values \in Seq([value : Word(Width), domain : SymbolDomains])
      BY DEF Described
    <3>2. DOMAIN values = 1..Len(values)
      BY <3>1
    <3> QED BY <3>2 DEF Last, Symbols
  <2> QED BY <2>1, SymbolAnswerSound DEF ComparisonsSound
<1> QED BY <1>1, SymbolsInvariant, PTL
==============================================================================
