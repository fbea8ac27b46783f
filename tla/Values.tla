------------------------------- MODULE Values -------------------------------
(***************************************************************************)
(* The values of wamp::Variant: their equality and order, of arrays and    *)
(* objects in terms of what it is for elements, and the conversions of     *)
(* scalars.  Module Variant closes the recursion over elements.            *)
(*                                                                         *)
(* A variant is <<type, value>>.  A real is counted in halves, and has a   *)
(* mantissa of MantissaBits, as a double has fewer than Int has bits; the  *)
(* infinities come after MaxReal, and NaN is one more number that never    *)
(* takes part in a comparison as one.  Strings and blobs stand for their   *)
(* place in the order of strings and of blobs, and keys likewise.          *)
(***************************************************************************)
EXTENDS Integers, Sequences, FiniteSets

CONSTANTS
    IntBits,          \* width of Int and UInt: 64 in the code
    NarrowBits,       \* width of a narrower integer that a caller may ask for
    MantissaBits,     \* 53 in the code; what is out of its reach is rounded
    MaxReal           \* the largest finite real, above whatever an integer becomes

ASSUME VariantAssumption ==
    /\ IntBits \in Nat /\ NarrowBits \in 1 .. IntBits
    /\ MantissaBits \in 1 .. IntBits
    /\ MaxReal \in Nat /\ MaxReal > 2^(IntBits + 1)

VARIABLE
    input             \* what is computed on: it names a part of the library first

TypeIds == << "null", "boolean", "integer", "uint", "real", "string", "blob", "array", "object" >>

TypeId(v) == CHOOSE i \in DOMAIN TypeIds : TypeIds[i] = v[1]

Null == << "null", 0 >>

isNumber(v) == v[1] \in {"integer", "uint", "real"}
isSigned(v) == v[1] \in {"integer", "real"}

-----------------------------------------------------------------------------
(* Numbers *)

Infinity == MaxReal + 1
NaN == Infinity + 1

isNaN(v) == v = << "real", NaN >>
isFinite(v) == v[1] = "real" => -MaxReal <= v[2] /\ v[2] <= MaxReal

Abs(n) == IF n < 0 THEN -n ELSE n

\* The real nearest to h halves, the even one of two.
Round(h) ==
    LET a == Abs(h)
        k == CHOOSE e \in 0 .. IntBits + 1 :
                /\ a < 2^(MantissaBits + e)
                /\ e = 0 \/ a >= 2^(MantissaBits + e - 1)
        q == a \div 2^k
        r == a % 2^k
        n == (IF 2*r > 2^k \/ (2*r = 2^k /\ q % 2 = 1) THEN q + 1 ELSE q) * 2^k
    IN IF h < 0 THEN -n ELSE n

\* v as the common type of v and w.  A negative Int never meets a UInt here.
Common(v, w) ==
    CASE v[1] = "real"                   -> v[2]
      [] v[1] # "real" /\ w[1] = "real"  -> Round(2 * v[2])
      [] OTHER                           -> v[2]

\* IEEE 754: whatever is compared with NaN is neither less nor equal.
Unordered(v, w) == isNaN(v) \/ isNaN(w)

\* v is negative and w has a type that cannot be.  NaN < 0 is false.
NegativeAgainst(v, w) == isSigned(v) /\ ~isSigned(w) /\ v[2] < 0

NumbersEqual(v, w) ==
    /\ ~NegativeAgainst(v, w) /\ ~NegativeAgainst(w, v)
    /\ ~Unordered(v, w) /\ Common(v, w) = Common(w, v)

\* Mutant: a negative Int is compared with a UInt as it stands in memory.
MutNumbersLess(v, w) ==
    LET Bits(x) == IF x[1] = "real" THEN x[2] ELSE x[2] % 2^IntBits
    IN IF isSigned(v) # isSigned(w) THEN Bits(v) < Bits(w) ELSE Common(v, w) < Common(w, v)

NumbersLess(v, w) ==
    \/ NegativeAgainst(v, w)
    \/ ~NegativeAgainst(w, v) /\ ~Unordered(v, w) /\ Common(v, w) < Common(w, v)

-----------------------------------------------------------------------------
(* Equality and order *)

\* The keys of an object in the order in which std::map has them
Members(object) ==
    CHOOSE s \in [1 .. Cardinality(DOMAIN object) -> DOMAIN object] :
        /\ \A i, j \in DOMAIN s : i < j => s[i] < s[j]
        /\ \A k \in DOMAIN object : \E i \in DOMAIN s : s[i] = k

\* VariantEquivalentTo: operator==, which Same is for elements
EqualTo(v, w, Same(_, _)) ==
    IF isNumber(v) /\ isNumber(w) THEN NumbersEqual(v, w)
    ELSE /\ v[1] = w[1]
         /\ CASE v[1] = "array"  -> /\ Len(v[2]) = Len(w[2])
                                    /\ \A i \in DOMAIN v[2] : Same(v[2][i], w[2][i])
              [] v[1] = "object" -> /\ DOMAIN v[2] = DOMAIN w[2]
                                    /\ \A k \in DOMAIN v[2] : Same(v[2][k], w[2][k])
              [] OTHER           -> v[2] = w[2]

\* VariantNotEquivalentTo: operator!= with a value that is not a variant,
\* written out a second time instead of being derived from ==
NotEqualTo(v, w, Same(_, _)) ==
    CASE isNumber(v) /\ isNumber(w) ->
            \/ NegativeAgainst(v, w) \/ NegativeAgainst(w, v)
            \/ Unordered(v, w) \/ Common(v, w) # Common(w, v)
      [] ~(isNumber(v) /\ isNumber(w)) /\ v[1] # w[1] -> TRUE
      [] v[1] = w[1] /\ v[1] = "array" ->
            Len(v[2]) # Len(w[2]) \/ \E i \in DOMAIN v[2] : ~Same(v[2][i], w[2][i])
      [] v[1] = w[1] /\ v[1] = "object" ->
            DOMAIN v[2] # DOMAIN w[2] \/ \E k \in DOMAIN v[2] : ~Same(v[2][k], w[2][k])
      [] OTHER -> v[2] # w[2]

\* std::lexicographical_compare with an order for elements
LexLess(s, t, Below(_, _)) ==
    \E n \in 0 .. Len(s) :
        /\ n <= Len(t)
        /\ \A i \in 1 .. n : ~Below(s[i], t[i]) /\ ~Below(t[i], s[i])
        /\ n < Len(t) /\ (n = Len(s) \/ Below(s[n+1], t[n+1]))

\* std::pair's order of members
PairLess(p, q, Below(_, _)) == p[1] < q[1] \/ (p[1] = q[1] /\ Below(p[2], q[2]))

\* Variant::LessThan: operator<, which Below is for elements.  Values of two
\* types that are not both numbers are in the order of their types.
LessThan(v, w, Below(_, _)) ==
    LET Pairs(object) == [i \in 1 .. Cardinality(DOMAIN object) |->
                            << Members(object)[i], object[Members(object)[i]] >>]
        MemberLess(p, q) == PairLess(p, q, Below)
    IN CASE isNumber(v) /\ isNumber(w) -> NumbersLess(v, w)
         [] ~(isNumber(v) /\ isNumber(w)) /\ v[1] # w[1] -> TypeId(v) < TypeId(w)
         [] v[1] = w[1] /\ v[1] = "null" -> FALSE
         [] v[1] = w[1] /\ v[1] = "boolean" -> ~v[2] /\ w[2]
         [] v[1] = w[1] /\ v[1] \in {"string", "blob"} -> v[2] < w[2]
         [] v[1] = w[1] /\ v[1] = "array" -> LexLess(v[2], w[2], Below)
         [] v[1] = w[1] /\ v[1] = "object" -> LexLess(Pairs(v[2]), Pairs(w[2]), MemberLess)

-----------------------------------------------------------------------------
(* Conversions.  A C++ type is <<name>>, or <<name, argument, ...>> in       *)
(* module Variant.                                                         *)

Scalars == {"null", "bool", "int", "narrow", "uint", "real", "string", "blob"}

\* ArgTraits<T>::FieldType
FieldType(T) ==
    CASE T[1] = "null" -> "null"     [] T[1] = "bool" -> "boolean"
      [] T[1] \in {"int", "narrow"} -> "integer"
      [] T[1] = "uint" -> "uint"     [] T[1] = "real" -> "real"
      [] T[1] = "string" -> "string" [] T[1] = "blob" -> "blob"
      [] T[1] = "vector" -> "array"  [] T[1] = "map" -> "object"

Wrap(n, bits) == ((n + 2^(bits - 1)) % 2^bits) - 2^(bits - 1)

\* static_cast<T> of a field of a type that C++ converts.  The code does not ask
\* whether an integer type can hold a real: of one that it cannot, such as NaN and
\* the infinities, C++ makes an undefined value; here it is one of the type.
Cast(T, v) ==
    LET Whole == CASE v[1] = "boolean" -> IF v[2] THEN 1 ELSE 0
                   [] v[1] = "real" -> IF v[2] < 0 THEN -((-v[2]) \div 2) ELSE v[2] \div 2
                   [] OTHER -> v[2]
    IN CASE T[1] = "bool"   -> IF v[1] = "boolean" THEN v[2] ELSE v[2] # 0
         [] T[1] = "int"    -> Wrap(Whole, IntBits)
         [] T[1] = "narrow" -> Wrap(Whole, NarrowBits)
         [] T[1] = "uint"   -> Whole % 2^IntBits
         [] T[1] = "real"   -> IF v[1] = "real" THEN v[2] ELSE Round(2 * Whole)

Ok(x) == << "ok", x >>
Conversion == << "Conversion" >>
Access == << "Access" >>

\* The first failure of a sequence of conversions, or Build(their results)
Gather(results, Build(_)) ==
    LET failed == { i \in DOMAIN results : results[i][1] # "ok" }
    IN IF failed = {} THEN Ok(Build([i \in DOMAIN results |-> results[i][2]]))
       ELSE results[CHOOSE i \in failed : \A j \in failed : i <= j]

\* emplace of every member: a key that is there already keeps its value
Emplaced(old, keys, xs) ==
    [k \in DOMAIN old \cup { keys[i] : i \in DOMAIN keys } |->
        IF k \in DOMAIN old THEN old[k] ELSE xs[CHOOSE i \in DOMAIN keys : keys[i] = k]]

\* VariantConvertTo: the same type is copied, and the types that C++ converts
\* implicitly are cast
ToScalar(T, v) ==
    CASE FieldType(T) = v[1] /\ T[1] # "narrow" -> Ok(v[2])
      [] /\ {FieldType(T), v[1]} \subseteq {"boolean", "integer", "uint", "real"}
         /\ FieldType(T) # v[1] \/ T[1] = "narrow" -> Ok(Cast(T, v))
      [] OTHER -> Conversion

InOrder(xs) == xs
=============================================================================
