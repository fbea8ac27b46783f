------------------------------- MODULE Codec -------------------------------
(***************************************************************************)
(* The codecs: the visitors that hand a variant to an encoder, and the     *)
(* visitor that builds a variant from what a parser reports.  Encoders and *)
(* parsers are jsoncons'; what they are given and what they report is a    *)
(* sequence of tokens here, which for JSON includes the punctuation, as    *)
(* the visitor of the repository writes blobs past the encoder.            *)
(***************************************************************************)
EXTENDS Variant
LOCAL INSTANCE SequencesExt

CONSTANT
    NulStrings        \* the strings that begin with the character U+0000

-----------------------------------------------------------------------------
(* Base64.  A character stands for its sextet; 64 is the padding, and what  *)
(* is above it belongs to no sextet.                                        *)

pad == 64

\* One turn of the loop of Base64::encode, for the one to three bytes it takes
EncodeTriplet(b) ==
    CASE Len(b) = 1 -> << b[1] \div 4, (b[1] % 4) * 16, pad, pad >>
      [] Len(b) = 2 -> << b[1] \div 4, (b[1] % 4) * 16 + b[2] \div 16, (b[2] % 16) * 4, pad >>
      [] Len(b) = 3 -> << b[1] \div 4, (b[1] % 4) * 16 + b[2] \div 16,
                          (b[2] % 16) * 4 + b[3] \div 64, b[3] % 64 >>

RECURSIVE EncodeBase64(_)
EncodeBase64(bytes) ==
    IF bytes = << >> THEN << >>
    ELSE LET n == IF Len(bytes) < 3 THEN Len(bytes) ELSE 3
         IN EncodeTriplet(SubSeq(bytes, 1, n)) \o EncodeBase64(SubSeq(bytes, n + 1, Len(bytes)))

\* sextetFromChar: padding counts as zero where it is allowed
sextetFromChar(c, padAllowed) ==
    CASE c < pad -> << "ok", c >>
      [] c = pad -> IF padAllowed THEN << "ok", 0 >> ELSE << "badBase64Padding" >>
      [] c > pad -> << "badBase64Char" >>

Bytes3(s) == << s[1] * 4 + s[2] \div 16, (s[2] % 16) * 16 + s[3] \div 4, (s[3] % 4) * 64 + s[4] >>

tripletFromQuad(quad, padAllowed) ==
    Gather([i \in 1 .. 4 |-> sextetFromChar(quad[i], padAllowed)], Bytes3)

\* The last quad, which may be padded
DecodeLast(quad) ==
    LET triplet == tripletFromQuad(quad, TRUE)
        count == IF quad[3] = pad THEN 1 ELSE IF quad[4] = pad THEN 2 ELSE 3
    IN CASE triplet[1] # "ok" -> triplet
         [] triplet[1] = "ok" /\ (pad \in {quad[1], quad[2]} \/ (quad[3] = pad /\ quad[4] # pad)) ->
                << "badBase64Padding" >>
         [] OTHER -> << "ok", SubSeq(triplet[2], 1, count) >>

RECURSIVE DecodeQuads(_)
DecodeQuads(text) ==
    IF Len(text) = 4 THEN DecodeLast(text)
    ELSE LET first == tripletFromQuad(SubSeq(text, 1, 4), FALSE)
             rest == DecodeQuads(SubSeq(text, 5, Len(text)))
         IN CASE first[1] # "ok" -> first
              [] first[1] = "ok" /\ rest[1] # "ok" -> rest
              [] OTHER -> << "ok", first[2] \o rest[2] >>

DecodeBase64(text) ==
    CASE text = << >> -> << "ok", << >> >>
      [] Len(text) % 4 # 0 -> << "badBase64Length" >>
      [] OTHER -> DecodeQuads(text)

-----------------------------------------------------------------------------
(* Encoding *)

ScalarToken(v) ==
    CASE v[1] = "integer" -> << "int64", v[2] >>
      [] v[1] = "uint" -> << "uint64", v[2] >>
      [] v[1] = "real" -> << "double", v[2] >>
      [] OTHER -> v

\* VariantEncodingVisitor: what a binary encoder is given
RECURSIVE Tokens(_)
Tokens(v) ==
    LET Each == [i \in DOMAIN v[2] |-> Tokens(v[2][i])]
        keys == Members(v[2])
        EachMember == [i \in DOMAIN keys |-> << << "key", keys[i] >> >> \o Tokens(v[2][keys[i]])]
    IN CASE v[1] = "array" -> << << "begin_array" >> >> \o FlattenSeq(Each) \o << << "end_array" >> >>
         [] v[1] = "object" -> << << "begin_object" >> >> \o FlattenSeq(EachMember) \o << << "end_object" >> >>
         [] OTHER -> << ScalarToken(v) >>

\* The JSON text so far; for every level, how many elements the encoder has
\* counted; and for every level of the visitor, whether it is an array and
\* has elements.
EmptyText == [text |-> << >>, counts |-> << >>, context |-> << [isArray |-> FALSE, isPopulated |-> FALSE] >>]

Write(st, tokens) == [st EXCEPT !.text = @ \o tokens]

\* A value of the encoder: it separates it from what it has counted in an array.
EncoderSeparates(st) ==
    IF st.counts # << >> /\ Last(st.counts).isArray /\ Last(st.counts).count > 0
      THEN Write(st, << << "," >> >>) ELSE st
EncoderCounts(st) ==
    IF st.counts = << >> THEN st ELSE [st EXCEPT !.counts[Len(st.counts)].count = @ + 1]
\* JSON has no numbers for NaN and the infinities.
JsonToken(token) == IF token[1] = "double" /\ ~isFinite(<< "real", token[2] >>) THEN Null ELSE token
EncoderValue(st, token) == EncoderCounts(Write(EncoderSeparates(st), << JsonToken(token) >>))
EncoderKey(st, key) ==
    Write(st, (IF Last(st.counts).count > 0 THEN << << "," >> >> ELSE << >>)
                \o << << "string", key >>, << ":" >> >>)
EncoderBegin(st, isArray) ==
    LET w == Write(EncoderSeparates(st), << << IF isArray THEN "[" ELSE "{" >> >>)
    IN [w EXCEPT !.counts = Append(@, [isArray |-> isArray, count |-> 0])]
EncoderEnd(st) ==
    LET w == Write(st, << << IF Last(st.counts).isArray THEN "]" ELSE "}" >> >>)
    IN EncoderCounts([w EXCEPT !.counts = Front(@)])

\* JsonVariantEncodingVisitor
next(st) == [st EXCEPT !.context[Len(st.context)].isPopulated = TRUE]
enter(st, isArray) == [st EXCEPT !.context = Append(@, [isArray |-> isArray, isPopulated |-> FALSE])]
leave(st) == [st EXCEPT !.context = Front(@)]
needsArraySeparator(st) == Last(st.context).isArray /\ Last(st.context).isPopulated

\* operator()(const Blob&) writes to the sink itself, and the encoder does
\* not know of it.
WriteBlob(st, blob) ==
    next(Write(st, (IF needsArraySeparator(st) THEN << << "," >> >> ELSE << >>) \o << << "base64", blob >> >>))

RECURSIVE WriteJson(_, _)
WriteJson(st, v) ==
    LET WriteElement(w, e) == WriteJson(w, e)
        WriteMember(w, k) == WriteJson(EncoderKey(w, k), v[2][k])
    IN CASE v[1] = "blob" -> WriteBlob(st, v[2])
         [] v[1] = "array" ->
                next(leave(EncoderEnd(FoldLeft(WriteElement, EncoderBegin(enter(st, TRUE), TRUE), v[2]))))
         [] v[1] = "object" ->
                next(leave(EncoderEnd(FoldLeft(WriteMember, EncoderBegin(enter(st, FALSE), FALSE), Members(v[2])))))
         [] OTHER -> next(EncoderValue(st, ScalarToken(v)))

JsonText(v) == WriteJson(EmptyText, v).text

-----------------------------------------------------------------------------
(* Parsing *)

\* What a parser of MessagePack or CBOR reports: a key is a string, and a
\* number that is not negative is unsigned, whatever it was written as.
Parsed(token) ==
    CASE token[1] = "key" -> << "string", token[2] >>
      [] token[1] = "int64" /\ token[2] >= 0 -> << "uint64", token[2] >>
      [] OTHER -> token

\* A strict JSON parser.  It holds the composites that are open and what
\* may come next, and reports the same tokens.
JsonParser == [open |-> << >>, may |-> "value", out |-> << >>, ec |-> "none"]

AfterValue(open) == CASE open = << >> -> "end"
                      [] open # << >> /\ Last(open) = "[" -> "comma or ]"
                      [] open # << >> /\ Last(open) = "{" -> "comma or }"

ParseStep(p, t) ==
    LET Reports(token, open, may) == [p EXCEPT !.out = Append(@, token), !.open = open, !.may = may]
        isValue == p.may \in {"value", "value or ]"}
        Closed == Front(p.open)
    IN CASE p.ec # "none" -> p
         [] p.ec = "none" /\ t[1] = "[" /\ isValue -> Reports(<< "begin_array" >>, Append(p.open, "["), "value or ]")
         [] p.ec = "none" /\ t[1] = "{" /\ isValue -> Reports(<< "begin_object" >>, Append(p.open, "{"), "key or }")
         [] p.ec = "none" /\ t[1] = "]" /\ p.may \in {"value or ]", "comma or ]"} ->
                Reports(<< "end_array" >>, Closed, AfterValue(Closed))
         [] p.ec = "none" /\ t[1] = "}" /\ p.may \in {"key or }", "comma or }"} ->
                Reports(<< "end_object" >>, Closed, AfterValue(Closed))
         [] p.ec = "none" /\ t[1] = "," /\ p.may = "comma or ]" -> [p EXCEPT !.may = "value"]
         [] p.ec = "none" /\ t[1] = "," /\ p.may = "comma or }" -> [p EXCEPT !.may = "key"]
         [] p.ec = "none" /\ t[1] = ":" /\ p.may = "colon" -> [p EXCEPT !.may = "value"]
         [] p.ec = "none" /\ t[1] = "string" /\ p.may \in {"key", "key or }"} ->
                Reports(<< "key", t[2] >>, p.open, "colon")
         [] p.ec = "none" /\ t[1] \notin {"[", "]", "{", "}", ",", ":"} /\ isValue ->
                Reports(Parsed(t), p.open, AfterValue(p.open))
         [] OTHER -> [p EXCEPT !.ec = "syntax"]

-----------------------------------------------------------------------------
(* Decoding: VariantDecodingVisitorBase.  A context is the path from the    *)
(* root to a composite that is open, as the code keeps a pointer to it.     *)

Visitor == [variant |-> Null, hasRoot |-> FALSE, stack |-> << >>, key |-> 0, ec |-> "none"]

RECURSIVE At(_, _)
At(v, path) == IF path = << >> THEN v ELSE At(v[2][Head(path)], Tail(path))

With(f, k, x) == [j \in DOMAIN f \cup {k} |-> IF j = k THEN x ELSE f[j]]

\* v with x under the key or index k of the composite at the path
RECURSIVE Put(_, _, _, _)
Put(v, path, k, x) ==
    << v[1], IF path = << >> THEN With(v[2], k, x)
             ELSE With(v[2], Head(path), Put(v[2][Head(path)], Tail(path), k, x)) >>

Context(path) == [path |-> path, keyIsDone |-> FALSE]

\* Mutant: the key of a member is not asked for again.
MutAddObjectElement(st, x, isComposite) ==
    LET ctx == Last(st.stack)
        stack == st.stack
    IN [st EXCEPT !.variant = Put(@, ctx.path, st.key, x),
                  !.stack = IF isComposite THEN Append(stack, Context(Append(ctx.path, st.key))) ELSE stack]

addObjectElement(st, x, isComposite) ==
    LET ctx == Last(st.stack)
        stack == [st.stack EXCEPT ![Len(st.stack)].keyIsDone = FALSE]
    IN IF ~ctx.keyIsDone THEN [st EXCEPT !.ec = "expectedStringKey"]
       ELSE [st EXCEPT !.variant = Put(@, ctx.path, st.key, x),
                       !.stack = IF isComposite THEN Append(stack, Context(Append(ctx.path, st.key))) ELSE stack]

addArrayElement(st, x, isComposite) ==
    LET ctx == Last(st.stack)
        n == Len(At(st.variant, ctx.path)[2]) + 1
    IN [st EXCEPT !.variant = Put(@, ctx.path, n, x),
                  !.stack = IF isComposite THEN Append(@, Context(Append(ctx.path, n))) ELSE @]

addRoot(st, x, isComposite) ==
    [st EXCEPT !.variant = x, !.hasRoot = TRUE, !.stack = IF isComposite THEN << Context(<< >>) >> ELSE << >>]

inObject(st) == st.stack # << >> /\ At(st.variant, Last(st.stack).path)[1] = "object"

put(st, x, isComposite) ==
    CASE st.stack = << >> -> addRoot(st, x, isComposite)
      [] st.stack # << >> /\ ~inObject(st) -> addArrayElement(st, x, isComposite)
      [] inObject(st) -> addObjectElement(st, x, isComposite)

putKey(st, k) == [st EXCEPT !.key = k, !.stack[Len(st.stack)].keyIsDone = TRUE]

\* visit_begin_array and visit_begin_object do not look at the error of put.
beginComposite(st, x) == [put(st, x, TRUE) EXCEPT !.ec = st.ec]

\* pop_back() of an empty vector is undefined; the assertion stands for it.
endComposite(st) == IF st.stack = << >> THEN [st EXCEPT !.ec = "assertion"] ELSE [st EXCEPT !.stack = Front(@)]

\* visit_uint64: what fits an Int becomes one
FromUint64(n) == IF n < 2^(IntBits - 1) THEN << "integer", n >> ELSE << "uint", n >>

\* VariantJsonDecodingVisitor::visit_string and ::visit_key; and
\* VariantDecodingVisitor::visit_string, which takes a key where one is due
JsonString(st, s) ==
    IF s \in NulStrings THEN [st EXCEPT !.ec = "badBase64"] ELSE put(st, << "string", s >>, FALSE)

putStringOrKey(st, s) ==
    IF inObject(st) /\ ~Last(st.stack).keyIsDone THEN putKey(st, s) ELSE put(st, << "string", s >>, FALSE)

Visit(st, t, isJson) ==
    CASE st.ec # "none" -> st
      [] st.ec = "none" /\ t[1] = "begin_array" -> beginComposite(st, << "array", << >> >>)
      [] st.ec = "none" /\ t[1] = "begin_object" -> beginComposite(st, << "object", << >> >>)
      [] st.ec = "none" /\ t[1] \in {"end_array", "end_object"} -> endComposite(st)
      [] st.ec = "none" /\ t[1] = "key" -> putKey(st, t[2])
      [] st.ec = "none" /\ t[1] = "string" -> IF isJson THEN JsonString(st, t[2]) ELSE putStringOrKey(st, t[2])
      [] st.ec = "none" /\ t[1] = "base64" -> put(st, << "blob", t[2] >>, FALSE)
      [] st.ec = "none" /\ t[1] = "uint64" -> put(st, FromUint64(t[2]), FALSE)
      [] st.ec = "none" /\ t[1] = "int64" -> put(st, << "integer", t[2] >>, FALSE)
      [] st.ec = "none" /\ t[1] = "double" -> put(st, << "real", t[2] >>, FALSE)
      [] OTHER -> put(st, t, FALSE)

Visited(tokens, isJson) ==
    LET Step(st, t) == Visit(st, t, isJson) IN FoldLeft(Step, Visitor, tokens)

\* GenericDecoder::decode, on what the parser reports
DecodeBinary(tokens) ==
    LET st == Visited(tokens, FALSE)
    IN IF st.ec = "none" THEN Ok(st.variant) ELSE << st.ec >>

EncodeBinary(v) == LET t == Tokens(v) IN [i \in DOMAIN t |-> Parsed(t[i])]

\* JsonDecoderImpl::decode
DecodeJson(text) ==
    LET p == FoldLeft(ParseStep, JsonParser, text)
        st == Visited(p.out, TRUE)
    IN CASE st.ec # "none" -> << st.ec >>
         [] st.ec = "none" /\ (p.ec # "none" \/ (p.out # << >> /\ p.may # "end")) -> << "syntax" >>
         [] st.ec = "none" /\ p.ec = "none" /\ p.out = << >> -> << "emptyInput" >>
         [] OTHER -> Ok(st.variant)
=============================================================================
