------------------------------- MODULE MCData -------------------------------
(***************************************************************************)
(* The parts of the library that only compute, each over its own inputs:   *)
(* variants and conversions, argument unpacking, codecs, frame headers and *)
(* the storage of their classes.  A behaviour is about one of them: it     *)
(* begins with one input, held in "input", or with a class of objects or   *)
(* a frame.                                                                *)
(***************************************************************************)
EXTENDS Variant, Unpacking, Codec, Storage, RawsockHeader, Messages
LOCAL INSTANCE TLC

vars == << input, mem, headerVars >>

-----------------------------------------------------------------------------
(* Inputs *)

V(T, x) == << T, x >>

\* Variants of every type, with numbers on both sides of what is exact and of
\* what fits an Int, NaN and the infinities, and composites that differ in one
\* element or in length.
Leaves ==
    {Null, V("boolean", FALSE), V("boolean", TRUE)}
    \cup { V("integer", n) : n \in {-16, -1, 0, 1, 8, 9, 15} }
    \cup { V("uint", n) : n \in {0, 1, 8, 9, 16, 31} }
    \cup { V("real", h) : h \in {-2, -1, 0, 2, 3, 16, 32, -Infinity, Infinity, NaN} }
    \cup { V("string", s) : s \in {0, 1} } \cup { V("blob", b) : b \in {0, 1} }

Composites ==
    LET one == V("integer", 1)
        unsigned == V("uint", 1)
        blob == V("blob", 1)
        nan == V("real", NaN)
    IN { V("array", s) : s \in { << >>, << one >>, << unsigned >>, << one, Null >>, << Null, one >>,
                                 << blob, one >>, << one, blob, one >>, << blob, blob >>,
                                 << nan >>, << V("real", -Infinity), one >> } }
       \cup { V("object", o) : o \in { << >>, << one >>, << unsigned, Null >>, << one, blob >>, << blob, one >>, << nan, one >> } }
       \cup { V("array", << V("array", << blob >>), V("object", << one >>) >>),
              V("object", << V("array", << >>), V("object", << V("string", 1) >>) >>),
              V("array", << V("string", 3), one >>) }

TheVariants == Leaves \cup Composites

OrderInputs == { << "order", x, y >> : x \in TheVariants, y \in TheVariants }

\* A C++ type with the values of it that are converted
Typed ==
    LET ints == {-2, 0, 1}
        int == << "int" >>
        string == << "string" >>
        maybe == << "optional", int >>
        of(T, xs) == { << T, x >> : x \in xs }
        pair == << "tuple", int, string >>
    IN of(<< "null" >>, {0}) \cup of(<< "bool" >>, BOOLEAN)
       \cup of(int, {-16, 15}) \cup of(<< "narrow" >>, {-4, 3})
       \cup of(<< "uint" >>, {0, 31}) \cup of(<< "real" >>, {-3, 2, Infinity, NaN}) \cup of(string, {0, 1}) \cup of(<< "blob" >>, {1})
       \cup of(<< "variant" >>, {Null, V("uint", 1)})
       \cup of(<< "vector", int >>, {<< >>, << 1 >>, << 1, 0 >>})
       \cup of(<< "vector", << "vector", int >> >>, {<< << 1 >>, << >> >>})
       \cup of(<< "vector", << "variant" >> >>, {<< Null, V("blob", 1) >>})
       \cup of(<< "vector", maybe >>, {<< >>, << << >>, << 1 >> >>})
       \cup of(<< "vector", pair >>, {<< << 1, 0 >> >>})
       \cup of(<< "map", int >>, {<< >>, << 1, 0 >>})
       \cup of(<< "map", maybe >>, {<< << 1 >>, << >> >>})
       \cup of(<< "unordered_map", int >>, {<< >>, << 1, 0 >>})
       \cup of(maybe, {<< >>, << 1 >>}) \cup of(<< "optional", maybe >>, {<< >>, << << 1 >> >>, << << >> >>})
       \cup of(<< "set", int >>, {{}, {0, 1}}) \cup of(<< "array", int >>, {<< 1, 0 >>})
       \cup of(pair, {<< 1, 0 >>}) \cup of(<< "tuple", maybe, << "vector", int >> >>, {<< << >>, << 1 >> >>})
       \cup of(<< "struct", int, string >>, {<< 1, 0 >>})
       \cup of(<< "struct", << "vector", pair >>, maybe >>, {<< << << 1, 0 >> >>, << 1 >> >>})
       \cup of(<< "elements", int, << "set", int >> >>, {<< 1, {0} >>})

Types == { tx[1] : tx \in Typed }

\* What proofs assume of conversions holds of Variant::to.
ASSUME ToConverts == \A T \in Types, v \in TheVariants : Converts(T, v)

ConversionInputs == { << "conversion", tx >> : tx \in Typed }

\* Arguments of a message and the types that a slot wants of them
ArgumentInputs ==
    LET lists == {<< >>} \cup { << v >> : v \in Leaves \cup Composites }
                 \cup { << V("integer", 1), v >> : v \in {Null, V("string", 1), V("array", << Null >>)} }
        wanted == {<< >>} \cup { << T >> : T \in Types } \cup { << << "int" >>, T >> : T \in Types }
    IN { << "arguments", args, types >> : args \in lists, types \in wanted }

\* Whatever a parser may report of a map with a key that is not a string
KeyTokens ==
    LET ends == << << "uint64", 1 >>, << "end_object" >> >>
    IN { << << "begin_object" >>, key >> \o ends :
            key \in {<< "string", 1 >>, << "uint64", 1 >>, << "null", 0 >>, << "double", 1 >>, << "blob", 1 >>} }

CodecInputs ==
    { << "codec", v >> : v \in TheVariants }
    \cup { << "keys", t >> : t \in KeyTokens }
    \cup { << "bytes", b >> : b \in UNION { [1 .. n -> {0, 1, 130, 255}] : n \in 0 .. 4 } }
    \cup { << "text", t >> : t \in UNION { [1 .. n -> {0, 37, 64, 65}] : n \in {0, 1, 3, 4} } }
    \cup { << "text", t \o u >> : t \in [1 .. 4 -> {37, 64}], u \in [1 .. 4 -> {37, 64}] }

\* Arrays of fields as a codec gives them: for each type what its row says, cut
\* short or too long, or with one field of another type; and first fields that
\* are no type.
FieldLists ==
    LET field(T) == CASE T = "string" -> << T, 1 >> [] T \in {"array", "object"} -> << T, << >> >>
                      [] OTHER -> << T, 1 >>
        longest(t) == [i \in 1 .. Len(Schema[t].fieldTypes) + 1 |->
                        IF i = 1 THEN Integer(MsgTypeNumber[t])
                        ELSE IF i <= Len(Schema[t].fieldTypes) THEN field(Schema[t].fieldTypes[i]) ELSE Null]
        cut(t, n) == SubSeq(longest(t), 1, n)
        lists == UNION { { cut(t, n) : n \in 1 .. Len(longest(t)) } : t \in DOMAIN Schema }
        others == {"null", "integer", "uint", "string", "array", "object"}
    IN {<< >>} \cup { << Integer(n), Integer(1), Integer(1) >> : n \in {-1, 0, 7, 71, 255, 256 + 50} }
       \cup lists
       \cup UNION { { [l EXCEPT ![i] = field(T)] : i \in DOMAIN l, T \in others } : l \in lists }

\* What a router may say of its roles: role 1 or 2 with features 1 and 2
Details ==
    LET map(f) == << "object", f >>
        flags == {Null, Integer(1), V("boolean", FALSE), V("boolean", TRUE)}
        roles == {Null, map(<< >>), map(<< Null >>), map(<< map(<< >>) >>)}
                 \cup { map(<< map(<< x, V("boolean", TRUE) >>) >>) : x \in flags }
        known == {Null} \cup { map(<< r >>) : r \in roles } \cup { map(<< r, q >>) : r \in roles, q \in roles }
    IN {<< >>} \cup { (rolesKey :> d) : d \in known }

Demands == {<< >>} \cup { (r :> f) : r \in {1, 2}, f \in SUBSET {1, 2} }
           \cup { << f, g >> : f \in SUBSET {1, 2}, g \in SUBSET {1, 2} }

MessageInputs ==
    { << "fields", f >> : f \in FieldLists }
    \cup { << "new", t, id >> : t \in DOMAIN Schema, id \in {1, 2} }
    \cup { << "progress", v >> : v \in TheVariants }
    \cup { << "rpc", asked >> : asked \in {<< >>, << FALSE >>, << TRUE >>, << TRUE, FALSE >>} }
    \cup { << "roles", d, demanded >> : d \in Details, demanded \in Demands }

StorageInputs == { << "storage", class >> : class \in {"Variant", "Outcome", "ErrorOr", "Subscription"} }

NoInput == << "none" >>

-----------------------------------------------------------------------------
NoFrame == stage = "off" /\ header = 0 /\ sent = NoResult /\ result = NoResult /\ limit = 0

Init ==
    \/ /\ input \in OrderInputs \cup ConversionInputs \cup ArgumentInputs \cup CodecInputs \cup MessageInputs
       /\ StorageInit /\ NoFrame
    \/ input \in StorageInputs /\ StorageInit /\ NoFrame
    \/ input = NoInput /\ StorageInit /\ HeaderInit

Next ==
    \/ input \in StorageInputs /\ StorageNext(input[2]) /\ UNCHANGED << input, headerVars >>
    \/ HeaderNext /\ UNCHANGED << input, mem >>

Spec == Init /\ [][Next]_vars

-----------------------------------------------------------------------------
\* A number that a real can hold, as nearly all are below 2^53.
Exact(v) == v[1] \in {"integer", "uint"} => Round(2 * v[2]) = 2 * v[2]

RECURSIVE HoldsNaN(_)
HoldsNaN(v) == isNaN(v) \/ (v[1] \in {"array", "object"} /\ \E i \in DOMAIN v[2] : HoldsNaN(v[2][i]))

\* Variants may be keys of associative containers: without NaN and among numbers
\* that reals can hold, the infinities included, < is a strict weak order over
\* values of all types, and two variants are equivalent under it if and only if
\* they are equal.  Of all numbers and of NaN at any depth, < is asymmetric, == is
\* symmetric, != is its opposite wherever it is written out on its own, and what
\* holds NaN is equal to nothing, itself included.
OrderIsStrictWeak ==
    input[1] = "order" =>
        LET x == input[2]
            y == input[3]
        IN /\ NotEqual(x, y) = ~Equal(x, y) /\ Equal(x, y) = Equal(y, x)
           /\ x[1] = "array" /\ y[1] = "array" => NotEqualsTuple(x[2], y[2]) = ~EqualsTuple(x[2], y[2])
           /\ \A opt \in {<< >>, << y >>} : NotEqualsOptional(x, opt) = ~EqualsOptional(x, opt)
           /\ ~(Less(x, y) /\ Less(y, x))
           /\ HoldsNaN(x) => ~Equal(x, y)
           /\ Exact(x) /\ Exact(y) /\ ~HoldsNaN(x) /\ ~HoldsNaN(y) =>
                /\ Equal(x, y) <=> ~Less(x, y) /\ ~Less(y, x)
                /\ \A z \in { v \in TheVariants : Exact(v) /\ ~HoldsNaN(v) } :
                        Less(x, y) /\ Less(y, z) => Less(x, z)

\* A type one of whose values, not being null, becomes null.
RECURSIVE Ambiguous(_)
Ambiguous(T) ==
    \/ T[1] = "optional" /\ T[2][1] \in {"optional", "null", "variant"}
    \/ \E i \in 2 .. Len(T) : Ambiguous(T[i])

\* What Variant::from makes of a value, Variant::to turns back into it, through
\* every nesting of containers, tuples, optionals and user types, with the one
\* exception of an optional of something that may be null itself.
ConversionRoundTrip ==
    input[1] = "conversion" =>
        LET T == input[2][1]
            x == input[2][2]
        IN ~Ambiguous(T) => To(T, From(T, x)) = Ok(x)

\* jsoncons' encoder does not know of a blob: what follows it is not separated
\* from it, if nothing was written to the same composite before.
RECURSIVE Unseparated(_)
Unseparated(v) ==
    LET first(i) == \A j \in DOMAIN v[2] : j < i => v[2][j][1] = "blob"
    IN /\ v[1] \in {"array", "object"}
       /\ \/ \E i \in DOMAIN v[2] : Unseparated(v[2][i])
          \/ \E i \in DOMAIN v[2] : /\ i > 1 /\ first(i)
                                    /\ v[1] = "object" \/ v[2][i][1] # "blob"

RECURSIVE HoldsNulString(_)
HoldsNulString(v) ==
    \/ v[1] = "string" /\ v[2] \in NulStrings
    \/ v[1] \in {"array", "object"} /\ \E i \in DOMAIN v[2] : HoldsNulString(v[2][i])

\* v with null in place of the reals that JSON has no numbers for
RECURSIVE JsonValue(_)
JsonValue(v) ==
    CASE v[1] \in {"array", "object"} -> << v[1], [i \in DOMAIN v[2] |-> JsonValue(v[2][i])] >>
      [] v[1] \notin {"array", "object"} -> IF isFinite(v) THEN v ELSE Null

\* v == w, but that NaN is the same as NaN
RECURSIVE Survives(_, _)
Survives(v, w) == (isNaN(v) /\ isNaN(w)) \/ EqualTo(v, w, Survives)

\* What is encoded in a binary format is decoded to a variant that equals it, with
\* NaN where there was NaN.  What is encoded in JSON is decoded to a variant that
\* equals it but for null in place of NaN and of the infinities, if and only if
\* there are no strings that begin with U+0000 and nothing comes behind a blob
\* without a separator.  A map with a
\* key that is not a string is refused.  Base64 turns bytes into text and back,
\* and refuses a text that no bytes have.
CodecRoundTrip ==
    CASE input[1] = "codec" ->
            LET v == input[2]
                Gives(r, w) == r[1] = "ok" /\ Survives(w, r[2])
            IN /\ Gives(DecodeBinary(EncodeBinary(v)), v)
               /\ Gives(DecodeJson(JsonText(v)), JsonValue(v)) <=> ~Unseparated(v) /\ ~HoldsNulString(v)
      [] input[1] = "keys" ->
            DecodeBinary(input[2])[1] = IF input[2][2][1] = "string" THEN "ok" ELSE "expectedStringKey"
      [] input[1] = "bytes" -> DecodeBase64(EncodeBase64(input[2])) = Ok(input[2])
      [] input[1] = "text" ->
            LET t == input[2]
                padding == { i \in DOMAIN t : t[i] = pad }
            IN DecodeBase64(t)[1] = "ok" <=>
                /\ Len(t) % 4 = 0 /\ \A i \in DOMAIN t : t[i] <= pad
                /\ padding \in {{}, {Len(t)}, {Len(t) - 1, Len(t)}}
      [] OTHER -> TRUE
=============================================================================
