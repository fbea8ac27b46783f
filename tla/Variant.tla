------------------------------ MODULE Variant ------------------------------
(***************************************************************************)
(* wamp::Variant as a value (module Values), through every nesting: its    *)
(* equality and order, and its conversions from and to C++ types.  What    *)
(* its storage does is module Storage.                                     *)
(***************************************************************************)
EXTENDS Values
LOCAL INSTANCE SequencesExt

-----------------------------------------------------------------------------
(* Equality and order *)

\* operator==, operator!= and operator<, of which the first and the last are
\* their own for the elements of arrays and objects
RECURSIVE Equal(_, _)
Equal(v, w) == EqualTo(v, w, Equal)

NotEqual(v, w) == NotEqualTo(v, w, Equal)

RECURSIVE Less(_, _)
Less(v, w) == LessThan(v, w, Less)

\* Array == std::tuple and Array != std::tuple, the latter stopping at the
\* first element that is != to its counterpart
EqualsTuple(array, tuple) ==
    Len(array) = Len(tuple) /\ \A i \in DOMAIN tuple : Equal(array[i], tuple[i])

NotEqualsTuple(array, tuple) ==
    Len(array) # Len(tuple) \/ \E i \in DOMAIN tuple : NotEqual(array[i], tuple[i])

\* Variant == std::optional and !=; the optional is << >> or << value >>
EqualsOptional(v, opt) == IF opt = << >> THEN v[1] = "null" ELSE Equal(v, opt[1])
NotEqualsOptional(v, opt) == IF opt = << >> THEN v[1] # "null" ELSE NotEqual(v, opt[1])

-----------------------------------------------------------------------------
(* Conversions.  A C++ type is <<name>> or <<name, argument, ...>>:         *)
(* "struct" is a user type whose convert() names two members, the second   *)
(* with a fallback; "elements" one whose convert() uses operator[].        *)

\* ArgTraits<T>::isValid: T is bound to a field as it is
RECURSIVE isValidArg(_)
isValidArg(T) ==
    \/ T[1] \in Scalars
    \/ T[1] \in {"vector", "map"} /\ (T[2][1] = "variant" \/ isValidArg(T[2]))

\* What T() is.
RECURSIVE Default(_)
Default(T) ==
    CASE T[1] = "bool" -> FALSE
      [] T[1] \in Scalars \ {"bool"} -> 0
      [] T[1] = "variant" -> Null
      [] T[1] \in {"vector", "map", "unordered_map", "optional"} -> << >>
      [] T[1] = "set" -> {}
      [] T[1] = "array" -> << Default(T[2]), Default(T[2]) >>
      [] T[1] \in {"tuple", "struct", "elements"} -> << Default(T[2]), Default(T[3]) >>

RECURSIVE From(_, _)

\* Variant's constructors and convertFrom for std::vector and std::map, and the
\* convert() of std::array, std::unordered_map, std::set, std::optional and
\* std::tuple; then what ToVariantConverter's operators make of a user type
FromVector(T, x) == << "array", [i \in DOMAIN x |-> From(T[2], x[i])] >>
FromMap(T, x) == << "object", [k \in DOMAIN x |-> From(T[2], x[k])] >>
FromArray(T, x) == << "array", [i \in DOMAIN x |-> From(T[2], x[i])] >>
FromUnorderedMap(T, x) == << "object", [k \in DOMAIN x |-> From(T[2], x[k])] >>
FromStdSet(T, x) == LET elems == SetToSortSeq(x, <)
                 IN << "array", [i \in DOMAIN elems |-> From(T[2], elems[i])] >>
FromOptional(T, x) == IF x = << >> THEN Null ELSE From(T[2], x[1])
FromTuple(T, x) == << "array", << From(T[2], x[1]), From(T[3], x[2]) >> >>
FromMembers(T, x) ==
    << IF T[1] = "struct" THEN "object" ELSE "array", << From(T[2], x[1]), From(T[3], x[2]) >> >>

\* Variant::from
From(T, x) ==
    CASE T[1] \in Scalars -> << FieldType(T), x >>
      [] T[1] = "variant" -> x
      [] T[1] = "vector" -> FromVector(T, x)
      [] T[1] = "map" -> FromMap(T, x)
      [] T[1] = "array" -> FromArray(T, x)
      [] T[1] = "unordered_map" -> FromUnorderedMap(T, x)
      [] T[1] = "set" -> FromStdSet(T, x)
      [] T[1] = "optional" -> FromOptional(T, x)
      [] T[1] = "tuple" -> FromTuple(T, x)
      [] T[1] \in {"struct", "elements"} -> FromMembers(T, x)

\* Mutant: the loop over the elements starts at the second.
MutElements(old, xs) == old \o SubSeq(xs, 2, Len(xs))

\* push_back of every element to what the vector holds already
Elements(old, xs) == old \o xs

\* FromVariantConverter::operator() and operator[]: a missing member or
\* element, and every error of its own conversion, is a Conversion
Extracted(r) == IF r[1] = "ok" THEN r ELSE Conversion

\* Variant::to(value), where value is old before the call
RECURSIVE ToInto(_, _, _)

ElementsTo(T, v) == [i \in DOMAIN v[2] |-> ToInto(T[2], v[2][i], Default(T[2]))]
MembersTo(T, v) ==
    LET keys == Members(v[2])
    IN [i \in DOMAIN keys |-> ToInto(T[2], v[2][keys[i]], Default(T[2]))]

\* Without a variant of the right type there is a Conversion where the visitor
\* VariantConvertTo is used, and where convertTo gets at the field, an Access.
WrongField(T) == IF isValidArg(T) THEN Conversion ELSE Access

\* std::vector and std::map
ToVector(T, v, old) ==
    LET Into(xs) == Elements(old, xs)
    IN CASE v[1] # "array" -> WrongField(T)
         [] v[1] = "array" /\ T[2][1] = "variant" -> Ok(v[2])
         [] OTHER -> Gather(ElementsTo(T, v), Into)

ToMap(T, v, old) ==
    LET Into(xs) == Emplaced(old, Members(v[2]), xs)
    IN CASE v[1] # "object" -> WrongField(T)
         [] v[1] = "object" /\ T[2][1] = "variant" -> Ok(v[2])
         [] OTHER -> Gather(MembersTo(T, v), Into)

\* The types with a convert() of their own, of which none keeps what it held
\* but the elements of a tuple
ToUnorderedMap(T, v) ==
    LET Fresh(xs) == Emplaced(<< >>, Members(v[2]), xs)
    IN IF v[1] = "object" THEN Gather(MembersTo(T, v), Fresh) ELSE Conversion

ToOptional(T, v) ==
    IF v[1] = "null" THEN Ok(<< >>) ELSE Gather(<< ToInto(T[2], v, Default(T[2])) >>, InOrder)

ToStdSet(T, v) ==
    LET AsSet(xs) == { xs[i] : i \in DOMAIN xs }
    IN IF v[1] = "array" THEN Gather(ElementsTo(T, v), AsSet) ELSE Conversion

ToArray(T, v) ==
    IF v[1] = "array" /\ Len(v[2]) = 2 THEN Gather(ElementsTo(T, v), InOrder) ELSE Conversion

ToTuple(T, v, old) ==
    IF v[1] = "array" /\ Len(v[2]) = 2
      THEN Gather(<< ToInto(T[2], v[2][1], old[1]), ToInto(T[3], v[2][2], old[2]) >>, InOrder)
      ELSE Conversion

\* User types: FromVariantConverter's operator[] and operator()(key, value), and
\* operator()(key, value, fallback) for the second member
Member(S, v, k, old) ==
    Extracted(IF k \in DOMAIN v[2] THEN ToInto(S, v[2][k], old[k]) ELSE Conversion)

ToElements(T, v, old) ==
    IF v[1] = "array"
      THEN Gather(<< Member(T[2], v, 1, old), Member(T[3], v, 2, old) >>, InOrder)
      ELSE Conversion

ToStruct(T, v, old) ==
    LET second == IF 2 \in DOMAIN v[2] THEN Member(T[3], v, 2, old) ELSE Ok(Default(T[3]))
    IN IF v[1] = "object" THEN Gather(<< Member(T[2], v, 1, old), second >>, InOrder)
       ELSE Conversion

ToInto(T, v, old) ==
    CASE T[1] = "variant" -> Ok(v)
      [] T[1] \in Scalars -> ToScalar(T, v)
      [] T[1] = "vector" -> ToVector(T, v, old)
      [] T[1] = "map" -> ToMap(T, v, old)
      [] T[1] = "unordered_map" -> ToUnorderedMap(T, v)
      [] T[1] = "optional" -> ToOptional(T, v)
      [] T[1] = "set" -> ToStdSet(T, v)
      [] T[1] = "array" -> ToArray(T, v)
      [] T[1] = "tuple" -> ToTuple(T, v, old)
      [] T[1] = "elements" -> ToElements(T, v, old)
      [] T[1] = "struct" -> ToStruct(T, v, old)

\* Variant::to<T>()
To(T, v) == ToInto(T, v, Default(T))
=============================================================================
