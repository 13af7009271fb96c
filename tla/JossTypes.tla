------------------------------ MODULE JossTypes ------------------------------
(***************************************************************************)
(* The types of Joss (src/pkg/typesystem/types.go), which the analyzer and *)
(* the runtime share: what may be assigned to what, which strings count as *)
(* numbers, and integers that fault instead of wrapping.                   *)
(*                                                                         *)
(* A type is [k, of]: its kind, and the element of an array or the members *)
(* of a union.  Maps, channels, callables and classes are left out.        *)
(***************************************************************************)
EXTENDS Integers, Sequences, SequencesExt, FiniteSets

CONSTANTS
    MinInt, MaxInt,  \* math.MinInt64, math.MaxInt64
    MaxExact,        \* 2^53: above it a float64 holds the even integers only
    Numerals         \* the strings that are numbers: string -> quarters

ASSUME TypesAssumption == MinInt < 0 /\ MaxInt = -MinInt - 1 /\ MaxExact \in 1 .. MaxInt

Of(k)        == [k |-> k, of |-> <<>>]
ArrayOf(t)   == [k |-> "array", of |-> <<t>>]
Unknown == Of("unknown")
Void    == Of("void")
Mixed   == Of("mixed")
Null    == Of("null")
Integer == Of("int")
Float   == Of("float")
Decimal == Of("decimal")
String  == Of("string")
Bool    == Of("bool")
Array   == Of("array")
Object  == Of("object")

Members(t) == IF t.k = "union" THEN t.of ELSE <<t>>

\* Parse of a name with `|': members of members, each once.
RECURSIVE Once(_)
Once(ts) == IF ts = <<>> THEN <<>>
            ELSE LET rest == Once(Front(ts)) IN
                 IF Last(ts) \in ToSet(rest) THEN rest ELSE Append(rest, Last(ts))
UnionOf(ts) ==
    LET ms == Once(FlattenSeq([i \in DOMAIN ts |-> Members(ts[i])]))
    IN IF Len(ms) = 1 THEN ms[1] ELSE [k |-> "union", of |-> ms]
Nullable(t) == UnionOf(<<t, Null>>)

IsKnown(t)   == t.k \notin {"unknown", "null", "mixed"}
IsNumeric(t) == \A m \in ToSet(Members(t)) : m.k \in {"int", "float", "decimal"}

\* Type.Without
Without(t, kind) ==
    LET rest == SelectSeq(Members(t), LAMBDA m : m.k # kind)
    IN IF rest = <<>> THEN Unknown ELSE UnionOf(rest)

\* Whether a value of type s may be assigned to a destination d.  Containers
\* are invariant; a container without a type of elements goes with any.
RECURSIVE Assignable(_, _)
Assignable(d, s) ==
    \/ {d.k, s.k} \cap {"mixed", "unknown"} # {}
    \/ /\ s.k = "union" /\ \A m \in ToSet(s.of) : Assignable(d, m)
    \/ /\ d.k = "union" /\ s.k # "union" /\ \E m \in ToSet(d.of) : Assignable(m, s)
    \/ /\ d.k = s.k /\ d.k # "union"
       /\ d.k = "array" /\ d.of # <<>> /\ s.of # <<>> =>
             Assignable(d.of[1], s.of[1]) /\ Assignable(s.of[1], d.of[1])
    \/ d.k = "decimal" /\ s.k = "int"

\* What an inferred variable becomes: the first concrete type stays.
MergeInference(current, candidate) ==
    IF current.k # "mixed" /\ ~IsKnown(current) /\ IsKnown(candidate) THEN candidate ELSE current

(***************************************************************************)
(* Values: an integer, a float or a decimal in quarters, a string, a       *)
(* Boolean, null, an array with its elements.                              *)
(***************************************************************************)
IntV(n)  == <<"int", n>>
BoolV(b) == <<"bool", b>>
StrV(s)  == <<"string", s>>
NullV    == <<"null">>
NoValue  == <<>>                \* a conversion that fails

Truthy == {"true", "1", "yes"}
Falsy  == {"false", "0", "no", ""}
\* CoerceString, for a destination that is no union.
Coerced(k, s) ==
    CASE k = "int" /\ s \in DOMAIN Numerals /\ Numerals[s] % 4 = 0 -> IntV(Numerals[s] \div 4)
      [] k = "float" /\ s \in DOMAIN Numerals -> <<"float", Numerals[s]>>
      [] k = "decimal" /\ s \in DOMAIN Numerals -> StrV(s)    \* a clean string, still a string
      [] k = "bool" /\ s \in Truthy \cup Falsy -> BoolV(s \in Truthy)
      [] OTHER -> NoValue
CoerceString(d, s) ==
    LET fit == SelectSeq(Members(d), LAMBDA m : Coerced(m.k, s) # NoValue)
    IN IF fit = <<>> THEN NoValue ELSE Coerced(fit[1].k, s)

(***************************************************************************)
(* CheckedIntBinary and CheckedIntNegate: a result or a fault.             *)
(***************************************************************************)
Overflow       == <<"fault", "overflow">>
DivisionByZero == <<"fault", "division_by_zero">>
InRange(n)     == IF n \in MinInt .. MaxInt THEN IntV(n) ELSE Overflow
Abs(n)         == IF n < 0 THEN -n ELSE n
Sign(n)        == IF n < 0 THEN -1 ELSE 1
Quo(a, b)      == Sign(a) * Sign(b) * (Abs(a) \div Abs(b))     \* Go's division
CheckedIntBinary(op, a, b) ==
    CASE op = "+" -> InRange(a + b)
      [] op = "-" -> InRange(a - b)
      [] op = "*" -> InRange(a * b)
      [] op \in {"/", "%"} /\ b = 0 -> DivisionByZero
      [] op = "/" /\ b # 0 -> InRange(Quo(a, b))
      [] op = "%" /\ b # 0 -> IntV(a - b * Quo(a, b))
      [] OTHER -> IntV(0)
CheckedIntNegate(a) == InRange(-a)
IntExactlyRepresentableAsFloat64(n) == n \in -MaxExact .. MaxExact \/ n % 2 = 0
=============================================================================
