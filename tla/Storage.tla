------------------------------ MODULE Storage ------------------------------
(***************************************************************************)
(* The storage of Variant, Outcome, ErrorOr, and of subscriptions and      *)
(* registrations.  Variant and Outcome are a tag beside a union whose      *)
(* members are constructed and destroyed by hand, so that every            *)
(* constructor, assignment and swap is a sequence of such steps.  A step   *)
(* that the language does not define (destroying what is not there,        *)
(* constructing over a live object, reading it as another type) is a       *)
(* fault, and so is an object that nobody destroys.                        *)
(*                                                                         *)
(* A field is << type, content >>, and content 0 is what std::move leaves  *)
(* behind in a string, an array, a Result or an Error.                     *)
(***************************************************************************)
EXTENDS Integers, Sequences

CONSTANTS
    VariantCells, OutcomeCells, ErrorOrCells,   \* the objects of each class
    HandleCells,      \* of Subscription or Registration
    ScopedCells,      \* of ScopedSubscription or ScopedRegistration
    Contents          \* what can be told apart within a type

VARIABLE mem

Dead == "dead"
Raw == << "raw", 0 >>

VariantTypes == {"null", "integer", "string", "array"}
OutcomeTypes == {"deferred", "result", "error"}

\* Access<TField>: an object of these types has nothing to construct or destroy
Trivial(T) == T \in {"null", "integer", "deferred"}

FieldsOf(types) ==
    { << T, x >> : T \in types \ {"null", "deferred"}, x \in Contents }
        \cup { << T, 0 >> : T \in types \cap {"null", "deferred"} }

Moved(field) == IF Trivial(field[1]) THEN field ELSE << field[1], 0 >>

Scratch == "scratch"    \* the temporary objects of an operation
Unions == VariantCells \cup OutcomeCells
Places == Unions \cup {Scratch}
Handles == HandleCells \cup ScopedCells
StorageCells == Unions \cup ErrorOrCells \cup Handles

\* An object has one class.
ASSUME CellsAssumption ==
    /\ Scratch \notin Unions
    /\ VariantCells \cap OutcomeCells = {}
    /\ ErrorOrCells \cap (Unions \cup Handles) = {}
    /\ Unions \cap Handles = {}

ASSUME ContentsAssumption == Contents \subseteq Nat \ {0}

-----------------------------------------------------------------------------
(* The steps, each from one state of the memory to the next *)

Faulty(m, what) == [m EXCEPT !.faults = @ \cup {what}]

\* get<T>(): the field read as a T
Reads(m, c, T) == IF Trivial(T) \/ m.field[c][1] = T THEN m ELSE Faulty(m, "read as another type")

\* constructAs<T>
constructAs(m, c, f) ==
    LET w == IF m.field[c] = Raw \/ Trivial(m.field[c][1]) THEN m ELSE Faulty(m, "constructed over a live object")
    IN [w EXCEPT !.field[c] = f]

\* destructAs<T>
destructAs(m, c, T) ==
    LET w == Reads(m, c, T)
    IN IF Trivial(T) THEN m ELSE [w EXCEPT !.field[c] = Raw]

Assign(m, c, f) == [Reads(m, c, f[1]) EXCEPT !.field[c] = f]

Tagged(m, c, T) == [m EXCEPT !.tag[c] = T]

-----------------------------------------------------------------------------
(* Variant *)

\* Mutant: the tag is set and the old field is left as it is.
MutAssignValue(m, c, f) ==
    IF m.tag[c] = f[1] THEN Assign(m, c, f) ELSE Tagged(constructAs(m, c, f), c, f[1])

\* operator=(T value)
AssignValue(m, c, f) ==
    IF m.tag[c] = f[1] THEN Assign(m, c, f)
    ELSE Tagged(constructAs(destructAs(m, c, m.tag[c]), c, f), c, f[1])

Nullify(m, c) == AssignValue(m, c, << "null", 0 >>)

Construct(m, c, f) == constructAs(Tagged(m, c, f[1]), c, f)

\* Variant(const Variant&), with the visitor Construct
CopyConstruct(m, c, d) == Construct(Reads(m, d, m.tag[d]), c, m.field[d])

\* Variant(Variant&&), with the visitor MoveConstruct
MoveConstruct(m, c, d) ==
    LET w == Construct(Reads(m, d, m.tag[d]), c, m.field[d])
    IN Nullify([w EXCEPT !.field[d] = Moved(@)], d)

\* ~Variant
Destroy(m, c) == [Nullify(m, c) EXCEPT !.tag[c] = Dead, !.field[c] = Raw]

\* The visitor Swap.  Between two types, each side is assigned T{} before it
\* is destroyed.
Swap(m, c, d) ==
    LET left == m.field[c]
        right == m.field[d]
        m1 == constructAs(destructAs(Assign(m, c, << left[1], 0 >>), c, m.tag[c]), c, right)
        m2 == constructAs(destructAs(Assign(m1, d, << right[1], 0 >>), d, m.tag[d]), d, left)
    IN IF m.tag[c] = m.tag[d]
         THEN [Reads(Reads(m, c, m.tag[c]), d, m.tag[d]) EXCEPT !.field[c] = right, !.field[d] = left]
         ELSE [m2 EXCEPT !.tag[c] = m.tag[d], !.tag[d] = m.tag[c]]

\* operator=(const Variant&): copy to a temporary object and swap with it
CopyAssign(m, c, d) ==
    IF c = d THEN m ELSE Destroy(Swap(CopyConstruct(m, Scratch, d), Scratch, c), Scratch)

\* operator=(Variant&&), with the visitor MoveAssign
MoveAssign(m, c, d) ==
    LET f == m.field[d]
        w == IF m.tag[c] = m.tag[d] THEN Assign(m, c, f)
             ELSE Tagged(constructAs(destructAs(m, c, m.tag[c]), c, f), c, f[1])
    IN IF c = d THEN m ELSE Nullify([w EXCEPT !.field[d] = Moved(@)], d)

-----------------------------------------------------------------------------
(* Outcome *)

destruct(m, c) == destructAs(m, c, m.tag[c])

copyFrom(m, c, d) == Construct(Reads(m, d, m.tag[d]), c, m.field[d])

moveFrom(m, c, d) ==
    LET w == Construct(Reads(m, d, m.tag[d]), c, m.field[d])
        v == destruct([w EXCEPT !.field[d] = Moved(@)], d)
    IN [v EXCEPT !.tag[d] = "deferred", !.field[d] = << "deferred", 0 >>]

DestroyOutcome(m, c) == [destruct(m, c) EXCEPT !.tag[c] = Dead, !.field[c] = Raw]

\* operator=(const Outcome&)
AssignOutcome(m, c, d) ==
    IF m.tag[c] # m.tag[d] THEN copyFrom(destruct(m, c), c, d)
    ELSE Assign(m, c, m.field[d])

\* operator=(Outcome&&): between equal types, the other one keeps its type
MoveOutcome(m, c, d) ==
    IF m.tag[c] # m.tag[d] THEN moveFrom(destruct(m, c), c, d)
    ELSE [Assign(m, c, m.field[d]) EXCEPT !.field[d] = Moved(@)]

-----------------------------------------------------------------------------
(* ErrorOr *)

Indeterminate == -1     \* no content

\* ErrorOr(value_type)
OfValue(x) == [value |-> x, error |-> 0, hasError |-> FALSE]

\* ErrorOr(Unexpected<G>), which leaves a value_ of scalar type uninitialized
OfUnexpected(e) == [value |-> Indeterminate, error |-> e, hasError |-> TRUE]

\* operator=(value_type), emplace and setValue
emplace(r, x) == [r EXCEPT !.value = x, !.error = 0, !.hasError = FALSE]

\* operator=(Unexpected<G>) and setError
setError(r, e) == [r EXCEPT !.error = e, !.value = 0, !.hasError = TRUE]

\* What std::move leaves, by the members' own moves
MovedResult(r) == IF r.value = Indeterminate THEN r ELSE [r EXCEPT !.value = 0]

\* checkError
has_value(r) == ~r.hasError

-----------------------------------------------------------------------------
(* Subscription and Registration, and their scoped forms *)

NoHandle == [subscriber |-> FALSE, id |-> 0]
Handle(n) == [subscriber |-> TRUE, id |-> n]

\* Subscription(const Subscription&) and operator=(const Subscription&)
CopyHandle(m, c, d) == [m EXCEPT !.handles[c] = m.handles[d]]

\* Subscription(Subscription&&) and operator=(Subscription&&)
MoveHandle(m, c, d) == [m EXCEPT !.handles[c] = m.handles[d], !.handles[d] = NoHandle]

\* unsubscribe() and unregister(), whose effect on the session is in SessionApi
Unsubscribe(m, c) ==
    IF m.handles[c].subscriber THEN [m EXCEPT !.unsubscribed = @ \cup {m.handles[c].id}] ELSE m

\* What comes before a scoped object is assigned to or destroyed
Relinquish(m, c) == IF c \in ScopedCells \cap m.living THEN Unsubscribe(m, c) ELSE m

-----------------------------------------------------------------------------
\* tag and field of the unions, the members of ErrorOr and of handles and which of
\* these exist, what went wrong, the handles that were unsubscribed, and the operation called last
StorageInit ==
    mem = [tag |-> [c \in Places |-> Dead], field |-> [c \in Places |-> Raw],
           results |-> [c \in ErrorOrCells |-> OfValue(0)], handles |-> [c \in Handles |-> NoHandle],
           living |-> {}, faults |-> {}, unsubscribed |-> {}, op |-> << >>]

Alive(c) == mem.tag[c] # Dead

Lives(c) == c \in mem.living

Do(op, m) == mem' = [m EXCEPT !.op = op]

VariantStep(c, d) ==
    \/ ~Alive(c) /\ \E f \in FieldsOf(VariantTypes) : Do(<< "make", c, f >>, Construct(mem, c, f))
    \/ ~Alive(c) /\ Alive(d) /\ Do(<< "copy", c, d >>, CopyConstruct(mem, c, d))
    \/ ~Alive(c) /\ Alive(d) /\ Do(<< "move", c, d >>, MoveConstruct(mem, c, d))
    \/ Alive(c) /\ \E f \in FieldsOf(VariantTypes) : Do(<< "make", c, f >>, AssignValue(mem, c, f))
    \/ Alive(c) /\ Alive(d) /\ Do(<< "copy", c, d >>, CopyAssign(mem, c, d))
    \/ Alive(c) /\ Alive(d) /\ Do(<< "move", c, d >>, MoveAssign(mem, c, d))
    \/ Alive(c) /\ Alive(d) /\ c # d /\ Do(<< "swap", c, d >>, Swap(mem, c, d))
    \/ Alive(c) /\ Do(<< "drop", c >>, Destroy(mem, c))

OutcomeStep(c, d) ==
    \/ ~Alive(c) /\ \E f \in FieldsOf(OutcomeTypes) : Do(<< "make", c, f >>, Construct(mem, c, f))
    \/ ~Alive(c) /\ Alive(d) /\ Do(<< "copy", c, d >>, copyFrom(mem, c, d))
    \/ ~Alive(c) /\ Alive(d) /\ Do(<< "move", c, d >>, moveFrom(mem, c, d))
    \/ Alive(c) /\ Alive(d) /\ Do(<< "copy", c, d >>, AssignOutcome(mem, c, d))
    \/ Alive(c) /\ Alive(d) /\ c # d /\ Do(<< "move", c, d >>, MoveOutcome(mem, c, d))
    \/ Alive(c) /\ Do(<< "drop", c >>, DestroyOutcome(mem, c))

ErrorOrStep(c, d) ==
    LET r == mem.results
        Becomes(x) == [mem EXCEPT !.results[c] = x, !.living = @ \cup {c}]
    IN \/ \E x \in Contents : Do(<< "make", c, << "done", x >> >>,
                                  Becomes(IF Lives(c) THEN emplace(r[c], x) ELSE OfValue(x)))
       \/ \E e \in Contents : Do(<< "make", c, << "failure", e >> >>,
                                  Becomes(IF Lives(c) THEN setError(r[c], e) ELSE OfUnexpected(e)))
       \/ Lives(d) /\ Do(<< "copy", c, d >>, Becomes(r[d]))
       \/ Lives(d) /\ c # d /\ Do(<< "move", c, d >>, [Becomes(r[d]) EXCEPT !.results[d] = MovedResult(@)])
       \/ Lives(c) /\ Lives(d) /\ Do(<< "swap", c, d >>, [Becomes(r[d]) EXCEPT !.results[d] = r[c]])
       \* std::move(x).value(), and value_or of one that has a value
       \/ Lives(c) /\ has_value(r[c]) /\ Do(<< "take", c >>, Becomes(MovedResult(r[c])))
       \/ Lives(c) /\ Do(<< "drop", c >>, [Becomes(OfValue(0)) EXCEPT !.living = @ \ {c}])

HandleStep(c, d) ==
    LET m == [Relinquish(mem, c) EXCEPT !.living = @ \cup {c}]
        Becomes(h) == [m EXCEPT !.handles[c] = h]
    IN \/ \E n \in Contents : Do(<< "make", c, << "handle", n >> >>, Becomes(Handle(n)))
       \/ Do(<< "make", c, << "handle", 0 >> >>, Becomes(NoHandle))
       \/ Lives(d) /\ Do(<< "copy", c, d >>, CopyHandle(m, c, d))
       \/ Lives(d) /\ Do(<< "move", c, d >>, MoveHandle(m, c, d))
       \/ Lives(c) /\ c \in ScopedCells /\ Do(<< "release", c >>, [mem EXCEPT !.handles[c] = NoHandle])
       \/ Lives(c) /\ Do(<< "drop", c >>, [Becomes(NoHandle) EXCEPT !.living = @ \ {c}])

\* The classes have nothing to do with each other.
StorageNext(class) ==
    \/ class = "Variant" /\ \E c \in VariantCells, d \in VariantCells : VariantStep(c, d)
    \/ class = "Outcome" /\ \E c \in OutcomeCells, d \in OutcomeCells : OutcomeStep(c, d)
    \/ class = "ErrorOr" /\ \E c \in ErrorOrCells, d \in ErrorOrCells : ErrorOrStep(c, d)
    \/ class = "Subscription" /\ \E c \in Handles, d \in Handles : HandleStep(c, d)

-----------------------------------------------------------------------------
Corrupt == << "corrupt", 0 >>

\* The value that a union holds: its field, if it is of the type that the
\* tag says, and if nothing has gone wrong yet.
HeldByUnion(c) ==
    CASE mem.faults # {} \/ mem.tag[Scratch] # Dead -> Corrupt
      [] mem.faults = {} /\ mem.tag[Scratch] = Dead /\ ~Alive(c) -> IF mem.field[c] = Raw THEN Raw ELSE Corrupt
      [] OTHER -> IF mem.field[c][1] = mem.tag[c] THEN mem.field[c] ELSE Corrupt

HeldByErrorOr(r) == IF r.hasError THEN << "failure", r.error >> ELSE << "done", r.value >>

Held == [c \in StorageCells |->
            CASE c \in Unions -> HeldByUnion(c)
              [] c \in ErrorOrCells -> IF Lives(c) THEN HeldByErrorOr(mem.results[c]) ELSE Raw
              [] c \in Handles -> IF Lives(c) THEN << "handle", mem.handles[c].id >> ELSE Raw]

\* A variant is null once its value was moved, and a handle empty; an outcome may
\* keep its type; a failure is not taken away.
Left(f) == CASE f[1] \in VariantTypes -> {<< "null", 0 >>}
             [] f[1] \in OutcomeTypes -> {Moved(f), << "deferred", 0 >>}
             [] f[1] = "done" -> {<< "done", 0 >>}
             [] f[1] = "failure" -> {f}
             [] f[1] = "handle" -> {<< "handle", 0 >>}

Cells == INSTANCE ValueCells WITH
    Cells <- StorageCells,
    Scoped <- ScopedCells,
    Values <- FieldsOf(VariantTypes \cup OutcomeTypes)
                \cup ({"done", "failure"} \X Contents) \cup ({"handle"} \X (Contents \cup {0})),
    None <- Raw,
    Empty <- << "handle", 0 >>,
    MovedFrom <- Left,
    val <- Held,
    ended <- { << "handle", n >> : n \in mem.unsubscribed },
    op <- mem.op

\* Whatever is constructed, assigned, copied, moved, swapped and destroyed, in
\* any order, every Variant, Outcome, ErrorOr, Subscription and Registration holds
\* the value that its users put into it, nothing is destroyed twice, read as what
\* it is not or read uninitialized, nothing is left behind, and a scoped handle
\* unsubscribes what it loses and nothing else: the storage implements plain
\* cells of values.
ImplementsValueCells == Cells!Spec
=============================================================================
