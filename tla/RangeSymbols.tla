---------------------------- MODULE RangeSymbols -----------------------------
(***************************************************************************)
(* The symbolic bounds of the range analysis (SIntDomain.cpp,              *)
(* ValueRangeAnalysis.cpp).  A program defines values one after the other  *)
(* - parameters, sums, differences, values loaded after two branches       *)
(* stored different ones - and the analysis has a domain for each.  A      *)
(* bound relates a value to one defined before it, so a wrong bound shows  *)
(* only when two values are compared that took several steps to define.    *)
(*                                                                         *)
(* All values have one integer type; overflows throw, which ends the path. *)
(***************************************************************************)
EXTENDS SIntDomain, Sequences

CONSTANTS Width,      \* bound: the width of the type (8 to 64 in the code)
          MaxValues,  \* bound: values the program defines
          Literals,   \* bound: words that occur as literals
          AnySubtrahend, \* bound: whether a range is subtracted whose negation has no signed reading
          EqualMerges \* bound: whether domains with the same numeric range are joined

\* A type has 2^w words, an even number, and one bit less halves it; the proofs use
\* no more of the width than this.
ASSUME WidthAssumption ==
    /\ Width \in Nat \ {0} /\ Literals \subseteq Word(Width)
    /\ \A w \in {Width - 1, Width} : Size(w) \in Nat \ {0} /\ Size(w) = 2 * SMinValue(w)
    /\ Size(Width) = 2 * Size(Width - 1)

VARIABLES unsigned, \* the signedness of the type
          values    \* sequence of [value, domain]; an index is the symbol
symbolVars == <<unsigned, values>>

Symbols == DOMAIN values
Define(v, d) == values' = Append(values, [value |-> v, domain |-> d]) /\ UNCHANGED unsigned

SymbolInit == unsigned \in BOOLEAN /\ values = <<>>

-----------------------------------------------------------------------------
\* A parameter, or one of a type with a bit less, cast to this type: NumericCast
\* between types of one signedness keeps no bounds.
Parameter ==
    /\ Len(values) < 2
    /\ \E v \in Word(Width) :
          LET narrow == Top(Width - 1, unsigned).numeric
              widened == NumericConversion(narrow, Width, unsigned, unsigned, "THROWING")
          IN \/ Define(v, Top(Width, unsigned))
             \/ /\ InType(Width - 1, unsigned, Val(Width, unsigned, v))
                /\ Define(v, Domain(widened, NoBounds, unsigned))

\* A literal is a symbol of its own, which is in no bound.
Literal(v) == [symbol |-> 0, value |-> v, domain |-> FromLiteral(Width, unsigned, v)]
Operand(s) == [symbol |-> s, value |-> values[s].value, domain |-> values[s].domain]
Operands == {Literal(v) : v \in Literals} \cup {Operand(s) : s \in Symbols}

\* HandleBinaryExpr.  Single values are folded.
BinaryDomain(op, l, r) ==
    LET ln == l.domain.numeric
        rn == r.domain.numeric
    IN IF IsSingleElement(ln) /\ IsSingleElement(rn)
       THEN IF IsOverflow(Width, unsigned, op, ln.lower, rn.lower) THEN Top(Width, unsigned)
            ELSE FromLiteral(Width, unsigned, Folded(Width, unsigned, op, "THROWING", ln.lower, rn.lower))
       ELSE IF op = "ADD" THEN ComputeAdd("THROWING", unsigned, l.symbol, ln, r.symbol, rn)
       ELSE ComputeSub("THROWING", unsigned, l.symbol, ln, rn)

Negatable(r) == \A c \in Elements(r) : -Val(Width, unsigned, c) \in MinOf(Width, FALSE)..MaxOf(Width, FALSE)

SymbolicBinaryExpr ==
    /\ Len(values) \in 1..(MaxValues - 1)
    /\ \E op \in {"ADD", "SUB"}, l \in Operands, r \in Operands :
          /\ l.symbol # 0 \/ r.symbol # 0
          /\ op = "ADD" \/ AnySubtrahend \/ Negatable(r.domain.numeric)
          /\ ~IsOverflow(Width, unsigned, op, l.value, r.value)
          /\ Define(Folded(Width, unsigned, op, "THROWING", l.value, r.value), BinaryDomain(op, l, r))

\* One branch stores s in a variable, the other stores t; then it is loaded.
LoadMerged ==
    /\ Len(values) < MaxValues
    /\ \E s \in Symbols, t \in Symbols :
          /\ s # t
          /\ EqualMerges \/ ~IsSame(values[s].domain, values[t].domain)
          /\ \E taken \in {s, t} :
                Define(values[taken].value, SIntRangeJoin(values[s].domain, values[t].domain))

SymbolNext == Parameter \/ SymbolicBinaryExpr \/ LoadMerged
SymbolSpec == SymbolInit /\ [][SymbolNext]_symbolVars

-----------------------------------------------------------------------------
\* The value defined last; the properties of those before it held when they were.
Last == {Len(values)} \cap Symbols

\* A domain describes its value: the range contains it, and a bound says how far it
\* lies from another value, as a signed number, through any chain of sums,
\* differences and joins (ComputeAdd, ComputeSub, NumericBoundToSignedSymbolicBound,
\* ConstantRange::Negate, SIntRange::Join).
DomainSound ==
    \A s \in Last :
        /\ Contains(values[s].domain.numeric, values[s].value)
        /\ \A t \in DOMAIN values[s].domain.symbolics :
              Val(Width, unsigned, values[s].value) - Val(Width, unsigned, values[t].value)
                  \in {SVal(Width, c) : c \in Elements(values[s].domain.symbolics[t])}

\* A comparison the analysis decides has the answer the program computes:
\* HandleBranchTerminator drops the other branch.
ComparisonsSound ==
    \A s \in Last : \A t \in Symbols, rel \in Equalities \cup Orderings :
        LET x == Val(Width, unsigned, values[s].value)
            y == Val(Width, unsigned, values[t].value)
        IN /\ ComputeRelIntBinop(rel, unsigned, s, values[s].domain, t, values[t].domain) \subseteq {Holds(rel, x, y)}
           /\ ComputeRelIntBinop(rel, unsigned, t, values[t].domain, s, values[s].domain) \subseteq {Holds(rel, y, x)}
=============================================================================
