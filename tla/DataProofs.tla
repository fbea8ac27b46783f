----------------------------- MODULE DataProofs -----------------------------
(***************************************************************************)
(* The parts that only compute, proved for inputs of any size: the storage *)
(* of Variant, Outcome, ErrorOr and the handles implements plain cells of  *)
(* values, for any objects and contents; a frame of any type and length    *)
(* survives its header; arguments that do not convert are answered; the    *)
(* order of variants of any depth is a strict weak one, but for NaN; and   *)
(* messages fit what their classes and the two ends read of them.          *)
(***************************************************************************)
EXTENDS Storage, RawsockHeader, Unpacking, Messages, TLAPS, WellFoundedInduction, FiniteSetTheorems

Classes == {"Variant", "Outcome", "ErrorOr", "Subscription"}

\* Any operation on objects of any class.
StorageSpec == StorageInit /\ [][\E class \in Classes : StorageNext(class)]_mem

-----------------------------------------------------------------------------
(* The inductive invariant *)

\* Types of values, tags of unions, and what a place in memory may hold
Types == VariantTypes \cup OutcomeTypes
Tags == Types \cup {Dead}
FieldValues == (Types \cup {"raw"}) \X Nat

\* A memory with the unions' tags and fields of the right types.
Typed(m) ==
    /\ m = [tag |-> m.tag, field |-> m.field, results |-> m.results, handles |-> m.handles,
            living |-> m.living, faults |-> m.faults, unsubscribed |-> m.unsubscribed,
            op |-> m.op]
    /\ m.tag \in [Places -> Tags] /\ m.field \in [Places -> FieldValues]

Gone(m, c) == m.tag[c] = Dead /\ m.field[c] = Raw
Holds(m, c, types) == m.tag[c] \in types /\ m.field[c][1] = m.tag[c]

\* Every union that lives has a field of the type that its tag says, the others
\* have none, and no temporary object is left.
UnionsInv ==
    /\ Typed(mem) /\ mem.faults = {} /\ Gone(mem, Scratch)
    /\ \A c \in VariantCells : Gone(mem, c) \/ Holds(mem, c, VariantTypes)
    /\ \A c \in OutcomeCells : Gone(mem, c) \/ Holds(mem, c, OutcomeTypes)

\* A result that has a value has a determinate one.
ResultsInv ==
    /\ mem.results \in [ErrorOrCells -> [value : Int, error : Int, hasError : BOOLEAN]]
    /\ \A c \in ErrorOrCells : ~mem.results[c].hasError => mem.results[c].value # Indeterminate

\* A handle has a subscriber if and only if it has an ID.
HandlesInv ==
    /\ mem.handles \in [Handles -> [subscriber : BOOLEAN, id : Nat]]
    /\ \A c \in Handles : mem.handles[c].subscriber <=> mem.handles[c].id # 0

Inv == UnionsInv /\ ResultsInv /\ HandlesInv

-----------------------------------------------------------------------------
(* The steps within an operation *)

\* From m to w, nothing but the tag and the field of c has changed.
Rest(w, m) ==
    /\ Typed(w)
    /\ w.results = m.results /\ w.handles = m.handles /\ w.living = m.living
    /\ w.faults = m.faults /\ w.unsubscribed = m.unsubscribed
Sets(w, m, c, T, f) ==
    /\ Rest(w, m)
    /\ w.tag[c] = T /\ w.field[c] = f
    /\ \A e \in Places \ {c} : w.tag[e] = m.tag[e] /\ w.field[e] = m.field[e]

\* What a field is, and what std::move makes of one
LEMMA FieldFacts ==
    /\ Raw \in FieldValues /\ Raw[1] = "raw"
    /\ \A f \in FieldValues : f = << f[1], f[2] >> /\ f[2] \in Nat
    /\ \A T \in Types : << T, 0 >> \in FieldValues /\ << T, 0 >>[1] = T
    /\ \A f \in FieldValues : f # Raw => Moved(f) \in FieldValues /\ Moved(f)[1] = f[1]
    /\ ~Trivial("raw")
  BY DEF FieldValues, Raw, Moved, Trivial, Types, VariantTypes, OutcomeTypes

\* Writing a field changes that field.
LEMMA PutField ==
    ASSUME NEW m, Typed(m), NEW c \in Places, NEW f \in FieldValues
    PROVE  Sets([m EXCEPT !.field[c] = f], m, c, m.tag[c], f)
<1> DEFINE w == [m EXCEPT !.field[c] = f]
<1>1. w = [tag |-> m.tag, field |-> [m.field EXCEPT ![c] = f], results |-> m.results,
           handles |-> m.handles, living |-> m.living, faults |-> m.faults,
           unsubscribed |-> m.unsubscribed, op |-> m.op]
  BY DEF Typed
<1>2. [m.field EXCEPT ![c] = f] \in [Places -> FieldValues]
  BY DEF Typed
<1> HIDE DEF w
<1>3. Typed(w)
  BY <1>1, <1>2 DEF Typed
<1>4. \A e \in Places : w.field[e] = IF e = c THEN f ELSE m.field[e]
  BY <1>1 DEF Typed
<1>5. Sets(w, m, c, m.tag[c], f)
  BY <1>1, <1>3, <1>4 DEF Sets, Rest
<1> QED
  BY <1>5 DEF w

\* Writing a tag changes that tag.
LEMMA PutTag ==
    ASSUME NEW m, Typed(m), NEW c \in Places, NEW T \in Tags
    PROVE  Sets([m EXCEPT !.tag[c] = T], m, c, T, m.field[c])
<1> DEFINE w == [m EXCEPT !.tag[c] = T]
<1>1. w = [tag |-> [m.tag EXCEPT ![c] = T], field |-> m.field, results |-> m.results,
           handles |-> m.handles, living |-> m.living, faults |-> m.faults,
           unsubscribed |-> m.unsubscribed, op |-> m.op]
  BY DEF Typed
<1>2. [m.tag EXCEPT ![c] = T] \in [Places -> Tags]
  BY DEF Typed
<1> HIDE DEF w
<1>3. Typed(w)
  BY <1>1, <1>2 DEF Typed
<1>4. \A e \in Places : w.tag[e] = IF e = c THEN T ELSE m.tag[e]
  BY <1>1 DEF Typed
<1>5. Sets(w, m, c, T, m.field[c])
  BY <1>1, <1>3, <1>4 DEF Sets, Rest
<1> QED
  BY <1>5 DEF w

\* constructAs() where nothing is to be destroyed is without a fault.
LEMMA ConstructsAs ==
    ASSUME NEW m, Typed(m), NEW c \in Places, NEW f \in FieldValues,
           m.field[c] = Raw \/ Trivial(m.field[c][1])
    PROVE  Sets(constructAs(m, c, f), m, c, m.tag[c], f)
<1>1. constructAs(m, c, f) = [m EXCEPT !.field[c] = f]
  BY DEF constructAs
<1> QED
  BY <1>1, PutField

\* A field of the type of the tag is read as what it is.
LEMMA ReadsRight ==
    ASSUME NEW m, NEW c, m.field[c][1] = m.tag[c]
    PROVE  Reads(m, c, m.tag[c]) = m
  BY DEF Reads

\* What a destroyed field leaves
Remains(f) == IF Trivial(f[1]) THEN f ELSE Raw

\* destructAs() of what is there is without a fault, and leaves room for another.
LEMMA DestructsAs ==
    ASSUME NEW m, Typed(m), NEW c \in Places, NEW T, m.field[c][1] = T
    PROVE  /\ Sets(destructAs(m, c, T), m, c, m.tag[c], Remains(m.field[c]))
           /\ Remains(m.field[c]) = Raw \/ Trivial(Remains(m.field[c])[1])
<1>1. Reads(m, c, T) = m
  BY DEF Reads
<1>2. m.field[c] \in FieldValues
  BY DEF Typed
<1>3. CASE Trivial(T)
  <2>1. destructAs(m, c, T) = m /\ Remains(m.field[c]) = m.field[c]
    BY <1>3 DEF destructAs, Remains
  <2> QED
    BY <1>3, <2>1 DEF Sets, Rest
<1>4. CASE ~Trivial(T)
  <2>1. destructAs(m, c, T) = [m EXCEPT !.field[c] = Raw] /\ Remains(m.field[c]) = Raw
    BY <1>1, <1>4 DEF destructAs, Remains
  <2> QED
    BY <2>1, PutField, FieldFacts
<1> QED
  BY <1>3, <1>4

\* An assignment between objects of one type is without a fault.
LEMMA Assigns ==
    ASSUME NEW m, Typed(m), NEW c \in Places, NEW f \in FieldValues, m.field[c][1] = f[1]
    PROVE  Sets(Assign(m, c, f), m, c, m.tag[c], f)
<1>1. Reads(m, c, f[1]) = m
  BY DEF Reads
<1>2. Assign(m, c, f) = [m EXCEPT !.field[c] = f]
  BY <1>1 DEF Assign
<1> QED
  BY <1>2, PutField

\* Two steps on the same object, or on two.
LEMMA Again ==
    ASSUME NEW u, NEW v, NEW m, NEW c \in Places, NEW T, NEW f, NEW U, NEW g,
           Sets(v, m, c, T, f), Sets(u, v, c, U, g)
    PROVE  Sets(u, m, c, U, g)
  BY DEF Sets, Rest

-----------------------------------------------------------------------------
(* The operations of Variant *)

\* A field is replaced by another.
LEMMA DestructConstruct ==
    ASSUME NEW m, Typed(m), NEW c \in Places, m.field[c][1] = m.tag[c], NEW f \in FieldValues
    PROVE  Sets(constructAs(destructAs(m, c, m.tag[c]), c, f), m, c, m.tag[c], f)
<1> DEFINE v == destructAs(m, c, m.tag[c])
<1>1. /\ Sets(v, m, c, m.tag[c], Remains(m.field[c]))
      /\ Remains(m.field[c]) = Raw \/ Trivial(Remains(m.field[c])[1])
  BY DestructsAs
<1> HIDE DEF v
<1>2. Typed(v) /\ (v.field[c] = Raw \/ Trivial(v.field[c][1])) /\ v.tag[c] = m.tag[c]
  BY <1>1 DEF Sets, Rest
<1>3. Sets(constructAs(v, c, f), v, c, v.tag[c], f)
  BY <1>2, ConstructsAs
<1>4. Sets(constructAs(v, c, f), m, c, m.tag[c], f)
  BY <1>1, <1>2, <1>3, Again
<1> QED
  BY <1>4 DEF v

\* A tag that follows the field
LEMMA Retagged ==
    ASSUME NEW w, NEW m, NEW c \in Places, NEW T, NEW f \in FieldValues, f[1] \in Types,
           Sets(w, m, c, T, f)
    PROVE  Sets(Tagged(w, c, f[1]), m, c, f[1], f)
<1>1. Sets(Tagged(w, c, f[1]), w, c, f[1], w.field[c])
  BY PutTag DEF Sets, Rest, Tagged, Tags
<1>2. w.field[c] = f
  BY DEF Sets
<1> QED
  BY <1>1, <1>2, Again

\* operator=(T) leaves the value.
LEMMA AssignsValue ==
    ASSUME NEW m, Typed(m), NEW c \in Places, m.field[c][1] = m.tag[c],
           NEW f \in FieldValues, f[1] \in Types
    PROVE  Sets(AssignValue(m, c, f), m, c, f[1], f)
<1>1. CASE m.tag[c] = f[1]
  BY <1>1, Assigns DEF AssignValue
<1>2. CASE m.tag[c] # f[1]
  BY <1>2, DestructConstruct, Retagged DEF AssignValue
<1> QED
  BY <1>1, <1>2

\* Null is a field.
LEMMA NullFact == << "null", 0 >> \in FieldValues /\ << "null", 0 >>[1] = "null" /\ "null" \in Types
  BY DEF FieldValues, Types, VariantTypes

\* What is set to null is null.
LEMMA Nullifies ==
    ASSUME NEW m, Typed(m), NEW c \in Places, m.field[c][1] = m.tag[c]
    PROVE  Sets(Nullify(m, c), m, c, "null", << "null", 0 >>)
  BY AssignsValue, NullFact DEF Nullify

\* A constructor leaves the value.
LEMMA Constructs ==
    ASSUME NEW m, Typed(m), NEW c \in Places, m.field[c] = Raw \/ Trivial(m.field[c][1]),
           NEW f \in FieldValues, f[1] \in Types
    PROVE  Sets(Construct(m, c, f), m, c, f[1], f)
<1> DEFINE v == Tagged(m, c, f[1])
<1>1. Sets(v, m, c, f[1], m.field[c])
  BY PutTag DEF Tagged, Tags
<1> HIDE DEF v
<1>2. Typed(v) /\ v.tag[c] = f[1] /\ v.field[c] = m.field[c]
  BY <1>1 DEF Sets, Rest
<1>3. Sets(constructAs(v, c, f), v, c, f[1], f)
  BY <1>2, ConstructsAs
<1> QED
  BY <1>1, <1>3, Again DEF Construct, v

\* From m to w, the objects c and d have changed.
Sets2(w, m, c, T, f, d, U, g) ==
    /\ Rest(w, m)
    /\ w.tag[c] = T /\ w.field[c] = f /\ w.tag[d] = U /\ w.field[d] = g
    /\ \A e \in Places \ {c, d} : w.tag[e] = m.tag[e] /\ w.field[e] = m.field[e]

\* A step on one object and a step on another
LEMMA Both ==
    ASSUME NEW u, NEW v, NEW m, NEW c \in Places, NEW d \in Places, c # d,
           NEW T, NEW f, NEW U, NEW g,
           Sets(v, m, c, T, f), Sets(u, v, d, U, g)
    PROVE  Sets2(u, m, c, T, f, d, U, g)
  BY DEF Sets, Sets2, Rest

\* Two objects have changed, and the second changes again.
LEMMA BothThenSecond ==
    ASSUME NEW u, NEW v, NEW m, NEW c \in Places, NEW d \in Places, c # d,
           NEW T, NEW f, NEW U, NEW g, NEW U2, NEW g2,
           Sets2(v, m, c, T, f, d, U, g), Sets(u, v, d, U2, g2)
    PROVE  Sets2(u, m, c, T, f, d, U2, g2)
  BY DEF Sets, Sets2, Rest

\* The other one is moved from, and set to null.
LEMMA MovesAway ==
    ASSUME NEW w, NEW m, Typed(m), NEW c \in Places, NEW d \in Places, c # d,
           m.tag[d] \in Types, m.field[d][1] = m.tag[d],
           Sets(w, m, c, m.tag[d], m.field[d])
    PROVE  Sets2(Nullify([w EXCEPT !.field[d] = Moved(@)], d), m,
                 c, m.tag[d], m.field[d], d, "null", << "null", 0 >>)
<1> DEFINE f == m.field[d]
           v == [w EXCEPT !.field[d] = Moved(f)]
<1>1. Typed(w) /\ w.field[d] = f /\ w.tag[d] = m.tag[d]
  BY DEF Sets, Rest
<1>2. f \in FieldValues /\ f # Raw
  BY FieldFacts DEF Typed, Types, VariantTypes, OutcomeTypes
<1>3. Moved(f) \in FieldValues /\ Moved(f)[1] = m.tag[d]
  BY <1>2, FieldFacts
<1>4. [w EXCEPT !.field[d] = Moved(@)] = v
  BY <1>1 DEF Typed
<1> HIDE DEF f
<1>5. Sets(v, w, d, m.tag[d], Moved(f))
  BY <1>1, <1>3, PutField
<1> HIDE DEF v
<1>6. Typed(v) /\ v.field[d][1] = v.tag[d]
  BY <1>3, <1>5 DEF Sets, Rest
<1>7. Sets(Nullify(v, d), v, d, "null", << "null", 0 >>)
  BY <1>6, Nullifies
<1>8. Sets2(v, m, c, m.tag[d], f, d, m.tag[d], Moved(f))
  BY <1>5, Both DEF f
<1>9. Sets2(Nullify(v, d), m, c, m.tag[d], f, d, "null", << "null", 0 >>)
  BY <1>7, <1>8, BothThenSecond
<1> QED
  BY <1>4, <1>9 DEF f

\* The move constructor takes the value, and leaves null.
LEMMA MoveConstructs ==
    ASSUME NEW m, Typed(m), NEW c \in Places, NEW d \in Places, m.field[c] = Raw, c # d,
           m.tag[d] \in Types, m.field[d][1] = m.tag[d]
    PROVE  Sets2(MoveConstruct(m, c, d), m, c, m.tag[d], m.field[d], d, "null", << "null", 0 >>)
<1>1. Reads(m, d, m.tag[d]) = m
  BY ReadsRight
<1>2. m.field[d] \in FieldValues
  BY DEF Typed
<1>3. Sets(Construct(m, c, m.field[d]), m, c, m.tag[d], m.field[d])
  BY <1>2, Constructs
<1> QED
  BY <1>1, <1>3, MovesAway DEF MoveConstruct

\* The destructor leaves nothing.
LEMMA Destroys ==
    ASSUME NEW m, Typed(m), NEW c \in Places, m.field[c][1] = m.tag[c]
    PROVE  Sets(Destroy(m, c), m, c, Dead, Raw)
<1> DEFINE v == Nullify(m, c)
           u == [v EXCEPT !.tag[c] = Dead]
           w == [u EXCEPT !.field[c] = Raw]
<1>1. Sets(v, m, c, "null", << "null", 0 >>)
  BY Nullifies
<1> HIDE DEF v
<1>2. Typed(v)
  BY <1>1 DEF Sets, Rest
<1>3. Sets(u, v, c, Dead, v.field[c])
  BY <1>2, PutTag DEF Tags
<1>4. [v EXCEPT !.tag[c] = Dead, !.field[c] = Raw] = w
  BY <1>2 DEF Typed
<1> HIDE DEF u
<1>5. Typed(u) /\ u.tag[c] = Dead
  BY <1>3 DEF Sets, Rest
<1>6. Sets(w, u, c, Dead, Raw)
  BY <1>5, PutField, FieldFacts
<1> HIDE DEF w
<1>7. Sets(w, m, c, Dead, Raw)
  BY <1>1, <1>3, <1>6, Again
<1> QED
  BY <1>4, <1>7 DEF Destroy, v

\* The move assignment takes the value, and leaves null.
LEMMA MoveAssigns ==
    ASSUME NEW m, Typed(m), NEW c \in Places, NEW d \in Places, c # d,
           m.field[c][1] = m.tag[c], m.tag[d] \in Types, m.field[d][1] = m.tag[d]
    PROVE  Sets2(MoveAssign(m, c, d), m, c, m.tag[d], m.field[d], d, "null", << "null", 0 >>)
<1> DEFINE f == m.field[d]
           w == IF m.tag[c] = m.tag[d] THEN Assign(m, c, f)
                ELSE Tagged(constructAs(destructAs(m, c, m.tag[c]), c, f), c, f[1])
<1>1. f \in FieldValues /\ f[1] = m.tag[d]
  BY DEF Typed
<1>2. Sets(w, m, c, m.tag[d], m.field[d])
  <2>1. CASE m.tag[c] = m.tag[d]
    BY <1>1, <2>1, Assigns
  <2>2. CASE m.tag[c] # m.tag[d]
    BY <1>1, <2>2, DestructConstruct, Retagged
  <2> QED
    BY <2>1, <2>2
<1> HIDE DEF w
<1>3. Sets2(Nullify([w EXCEPT !.field[d] = Moved(@)], d), m,
            c, m.tag[d], m.field[d], d, "null", << "null", 0 >>)
  BY <1>2, MovesAway
<1>4. MoveAssign(m, c, d) = Nullify([w EXCEPT !.field[d] = Moved(@)], d)
  BY DEF MoveAssign, w
<1> QED
  BY <1>3, <1>4

\* One side of a swap between two types
LEMMA Refills ==
    ASSUME NEW m, Typed(m), NEW c \in Places, NEW T \in Types, m.field[c][1] = T, NEW f \in FieldValues
    PROVE  Sets(constructAs(destructAs(Assign(m, c, << T, 0 >>), c, T), c, f), m, c, m.tag[c], f)
<1> DEFINE v == Assign(m, c, << T, 0 >>)
           u == destructAs(v, c, T)
<1>1. << T, 0 >> \in FieldValues /\ << T, 0 >>[1] = T
  BY FieldFacts
<1>2. Sets(v, m, c, m.tag[c], << T, 0 >>)
  BY <1>1, Assigns
<1> HIDE DEF v
<1>3. Typed(v) /\ v.field[c][1] = T /\ v.tag[c] = m.tag[c]
  BY <1>1, <1>2 DEF Sets, Rest
<1>4. /\ Sets(u, v, c, v.tag[c], Remains(v.field[c]))
      /\ Remains(v.field[c]) = Raw \/ Trivial(Remains(v.field[c])[1])
  BY <1>3, DestructsAs
<1> HIDE DEF u
<1>5. Typed(u) /\ (u.field[c] = Raw \/ Trivial(u.field[c][1])) /\ u.tag[c] = m.tag[c]
  BY <1>3, <1>4 DEF Sets, Rest
<1>6. Sets(constructAs(u, c, f), u, c, m.tag[c], f)
  BY <1>5, ConstructsAs
<1>7. Sets(constructAs(u, c, f), m, c, m.tag[c], f)
  BY <1>2, <1>4, <1>6, Again
<1> QED
  BY <1>7 DEF u, v

\* Two objects have changed, and their tags change.
LEMMA BothThenTags ==
    ASSUME NEW v, NEW m, NEW c \in Places, NEW d \in Places, c # d,
           NEW T, NEW f, NEW U, NEW g, NEW T2 \in Tags, NEW U2 \in Tags,
           Sets2(v, m, c, T, f, d, U, g)
    PROVE  Sets2([v EXCEPT !.tag[c] = T2, !.tag[d] = U2], m, c, T2, f, d, U2, g)
<1> DEFINE u == [v EXCEPT !.tag[c] = T2]
           w == [u EXCEPT !.tag[d] = U2]
<1>1. Typed(v) /\ v.field[c] = f /\ v.field[d] = g
  BY DEF Sets2, Rest
<1>2. Sets(u, v, c, T2, f)
  BY <1>1, PutTag
<1>3. [v EXCEPT !.tag[c] = T2, !.tag[d] = U2] = w
  OBVIOUS
<1> HIDE DEF u
<1>4. Typed(u) /\ u.field[d] = g
  BY <1>1, <1>2 DEF Sets, Rest
<1>5. Sets(w, u, d, U2, g)
  BY <1>4, PutTag
<1> HIDE DEF w
<1>6. Sets2(w, m, c, T2, f, d, U2, g)
  BY <1>2, <1>5 DEF Sets, Sets2, Rest
<1> QED
  BY <1>3, <1>6

\* swap() exchanges the values.
LEMMA Swaps ==
    ASSUME NEW m, Typed(m), NEW c \in Places, NEW d \in Places, c # d,
           m.tag[c] \in Types, m.field[c][1] = m.tag[c],
           m.tag[d] \in Types, m.field[d][1] = m.tag[d]
    PROVE  Sets2(Swap(m, c, d), m, c, m.tag[d], m.field[d], d, m.tag[c], m.field[c])
<1> DEFINE left == m.field[c]
           right == m.field[d]
<1>1. left \in FieldValues /\ right \in FieldValues
  BY DEF Typed
<1>2. CASE m.tag[c] = m.tag[d]
  <2> DEFINE u == [m EXCEPT !.field[c] = right]
             w == [u EXCEPT !.field[d] = left]
  <2>1. Reads(Reads(m, c, m.tag[c]), d, m.tag[d]) = m
    BY ReadsRight
  <2>2. Swap(m, c, d) = w
    BY <1>2, <2>1 DEF Swap
  <2>3. Sets(u, m, c, m.tag[c], right)
    BY <1>1, PutField
  <2> HIDE DEF u
  <2>4. Typed(u) /\ u.tag[d] = m.tag[d]
    BY <2>3 DEF Sets, Rest
  <2>5. Sets(w, u, d, m.tag[d], left)
    BY <1>1, <2>4, PutField
  <2> HIDE DEF w
  <2>6. Sets2(w, m, c, m.tag[c], right, d, m.tag[d], left)
    BY <2>3, <2>5, Both
  <2> QED
    BY <1>2, <2>2, <2>6
<1>3. CASE m.tag[c] # m.tag[d]
  <2> DEFINE m1 == constructAs(destructAs(Assign(m, c, << left[1], 0 >>), c, m.tag[c]), c, right)
             m2 == constructAs(destructAs(Assign(m1, d, << right[1], 0 >>), d, m.tag[d]), d, left)
             w == [m2 EXCEPT !.tag[c] = m.tag[d], !.tag[d] = m.tag[c]]
  <2>1. Swap(m, c, d) = w
    BY <1>3 DEF Swap
  <2>2. Sets(m1, m, c, m.tag[c], right)
    BY <1>1, Refills
  <2> HIDE DEF m1
  <2>3. Typed(m1) /\ m1.field[d][1] = m.tag[d] /\ m1.tag[d] = m.tag[d]
    BY <2>2 DEF Sets, Rest
  <2>4. Sets(m2, m1, d, m.tag[d], left)
    BY <1>1, <2>3, Refills
  <2> HIDE DEF m2
  <2>5. Sets2(m2, m, c, m.tag[c], right, d, m.tag[d], left)
    BY <2>2, <2>4, Both
  <2>6. Sets2(w, m, c, m.tag[d], right, d, m.tag[c], left)
    BY <2>5, BothThenTags DEF Tags
  <2> QED
    BY <2>1, <2>6
<1> QED
  BY <1>2, <1>3

\* The copy constructor copies the value.
LEMMA CopyConstructs ==
    ASSUME NEW m, Typed(m), NEW c \in Places, NEW d \in Places, m.field[c] = Raw,
           m.tag[d] \in Types, m.field[d][1] = m.tag[d]
    PROVE  Sets(CopyConstruct(m, c, d), m, c, m.tag[d], m.field[d])
<1>1. Reads(m, d, m.tag[d]) = m
  BY ReadsRight
<1>2. m.field[d] \in FieldValues
  BY DEF Typed
<1> QED
  BY <1>1, <1>2, Constructs DEF CopyConstruct

\* The copy assignment copies the value, and leaves no temporary object.
LEMMA CopyAssigns ==
    ASSUME NEW m, Typed(m), NEW c \in Unions, NEW d \in Unions, Gone(m, Scratch),
           m.tag[c] \in Types, m.field[c][1] = m.tag[c],
           m.tag[d] \in Types, m.field[d][1] = m.tag[d]
    PROVE  Sets(CopyAssign(m, c, d), m, c, m.tag[d], m.field[d])
<1>1. CASE c = d
  BY <1>1 DEF CopyAssign, Sets, Rest
<1>2. CASE c # d
  <2> DEFINE u == CopyConstruct(m, Scratch, d)
             v == Swap(u, Scratch, c)
             w == Destroy(v, Scratch)
  <2>1. Scratch \in Places /\ c \in Places /\ d \in Places /\ Scratch # c /\ Scratch # d
    BY CellsAssumption DEF Places
  <2>2. Sets(u, m, Scratch, m.tag[d], m.field[d])
    BY <2>1, CopyConstructs DEF Gone
  <2> HIDE DEF u
  <2>3. /\ Typed(u) /\ u.tag[c] = m.tag[c] /\ u.field[c] = m.field[c]
        /\ u.tag[Scratch] = m.tag[d] /\ u.field[Scratch] = m.field[d]
    BY <2>1, <2>2 DEF Sets, Rest
  <2>4. Sets2(v, u, Scratch, m.tag[c], m.field[c], c, m.tag[d], m.field[d])
    BY <2>1, <2>3, Swaps
  <2> HIDE DEF v
  <2>5. Typed(v) /\ v.field[Scratch][1] = v.tag[Scratch]
    BY <2>4 DEF Sets2, Rest
  <2>6. Sets(w, v, Scratch, Dead, Raw)
    BY <2>1, <2>5, Destroys
  <2> HIDE DEF w
  <2>7. Rest(w, m)
    BY <2>2, <2>4, <2>6 DEF Sets, Sets2, Rest
  <2>8. w.tag[c] = m.tag[d] /\ w.field[c] = m.field[d]
    BY <2>1, <2>4, <2>6 DEF Sets, Sets2
  <2>9. \A e \in Places \ {c} : w.tag[e] = m.tag[e] /\ w.field[e] = m.field[e]
    BY <2>1, <2>2, <2>4, <2>6 DEF Sets, Sets2, Gone
  <2>10. Sets(w, m, c, m.tag[d], m.field[d])
    BY <2>7, <2>8, <2>9 DEF Sets
  <2> QED
    BY <1>2, <2>10 DEF CopyAssign, u, v, w
<1> QED
  BY <1>1, <1>2

-----------------------------------------------------------------------------
(* The operations of Outcome *)

\* copyFrom() copies the value.
LEMMA CopiesFrom ==
    ASSUME NEW m, Typed(m), NEW c \in Places, NEW d \in Places,
           m.field[c] = Raw \/ Trivial(m.field[c][1]),
           m.tag[d] \in Types, m.field[d][1] = m.tag[d]
    PROVE  Sets(copyFrom(m, c, d), m, c, m.tag[d], m.field[d])
<1>1. Reads(m, d, m.tag[d]) = m
  BY ReadsRight
<1>2. m.field[d] \in FieldValues
  BY DEF Typed
<1> QED
  BY <1>1, <1>2, Constructs DEF copyFrom

\* The other one is moved from and keeps its type.
LEMMA MovesOut ==
    ASSUME NEW w, NEW m, Typed(m), NEW c \in Places, NEW d \in Places, c # d,
           m.tag[d] \in Types, m.field[d][1] = m.tag[d],
           Sets(w, m, c, m.tag[d], m.field[d])
    PROVE  /\ Sets2([w EXCEPT !.field[d] = Moved(@)], m,
                    c, m.tag[d], m.field[d], d, m.tag[d], Moved(m.field[d]))
           /\ Moved(m.field[d])[1] = m.tag[d]
<1> DEFINE f == m.field[d]
           v == [w EXCEPT !.field[d] = Moved(f)]
<1>1. Typed(w) /\ w.field[d] = f /\ w.tag[d] = m.tag[d]
  BY DEF Sets, Rest
<1>2. f \in FieldValues /\ f # Raw
  BY FieldFacts DEF Typed, Types, VariantTypes, OutcomeTypes
<1>3. Moved(f) \in FieldValues /\ Moved(f)[1] = m.tag[d]
  BY <1>2, FieldFacts
<1>4. [w EXCEPT !.field[d] = Moved(@)] = v
  BY <1>1 DEF Typed
<1> HIDE DEF f
<1>5. Sets(v, w, d, m.tag[d], Moved(f))
  BY <1>1, <1>3, PutField
<1> HIDE DEF v
<1>6. Sets2(v, m, c, m.tag[d], f, d, m.tag[d], Moved(f))
  BY <1>5, Both DEF f
<1> QED
  BY <1>3, <1>4, <1>6 DEF f

\* moveFrom() takes the value, and leaves a deferment.
LEMMA MovesFrom ==
    ASSUME NEW m, Typed(m), NEW c \in Places, NEW d \in Places, c # d,
           m.field[c] = Raw \/ Trivial(m.field[c][1]),
           m.tag[d] \in Types, m.field[d][1] = m.tag[d]
    PROVE  Sets2(moveFrom(m, c, d), m, c, m.tag[d], m.field[d], d, "deferred", << "deferred", 0 >>)
<1> DEFINE f == m.field[d]
           w == Construct(Reads(m, d, m.tag[d]), c, f)
           v == [w EXCEPT !.field[d] = Moved(@)]
           u == destruct(v, d)
           t == [u EXCEPT !.tag[d] = "deferred"]
           s == [t EXCEPT !.field[d] = << "deferred", 0 >>]
<1>1. Sets(w, m, c, m.tag[d], f)
  BY CopiesFrom DEF copyFrom
<1> HIDE DEF w
<1>2. Sets2(v, m, c, m.tag[d], f, d, m.tag[d], Moved(f)) /\ Moved(f)[1] = m.tag[d]
  BY <1>1, MovesOut
<1> HIDE DEF v
<1>3. Typed(v) /\ v.field[d][1] = v.tag[d]
  BY <1>2 DEF Sets2, Rest
<1>4. Sets(u, v, d, v.tag[d], Remains(v.field[d]))
  BY <1>3, DestructsAs DEF destruct
<1> HIDE DEF u
<1>5. Typed(u)
  BY <1>4 DEF Sets, Rest
<1>6. [u EXCEPT !.tag[d] = "deferred", !.field[d] = << "deferred", 0 >>] = s
  BY <1>5 DEF Typed
<1>7. Sets(t, u, d, "deferred", u.field[d])
  BY <1>5, PutTag DEF Tags, Types, OutcomeTypes
<1> HIDE DEF t
<1>8. Typed(t) /\ t.tag[d] = "deferred" /\ << "deferred", 0 >> \in FieldValues
  BY <1>7, FieldFacts DEF Sets, Rest, Types, OutcomeTypes
<1>9. Sets(s, t, d, "deferred", << "deferred", 0 >>)
  BY <1>8, PutField
<1> HIDE DEF s
<1>10. Sets(s, v, d, "deferred", << "deferred", 0 >>)
  BY <1>4, <1>7, <1>9, Again
<1>11. Sets2(s, m, c, m.tag[d], f, d, "deferred", << "deferred", 0 >>)
  BY <1>2, <1>10, BothThenSecond
<1> QED
  BY <1>6, <1>11 DEF moveFrom, u, v, w

\* The destructor leaves nothing.
LEMMA DestroysOutcome ==
    ASSUME NEW m, Typed(m), NEW c \in Places, m.field[c][1] = m.tag[c]
    PROVE  Sets(DestroyOutcome(m, c), m, c, Dead, Raw)
<1> DEFINE v == destruct(m, c)
           u == [v EXCEPT !.tag[c] = Dead]
           w == [u EXCEPT !.field[c] = Raw]
<1>1. Sets(v, m, c, m.tag[c], Remains(m.field[c]))
  BY DestructsAs DEF destruct
<1> HIDE DEF v
<1>2. Typed(v)
  BY <1>1 DEF Sets, Rest
<1>3. Sets(u, v, c, Dead, v.field[c])
  BY <1>2, PutTag DEF Tags
<1>4. [v EXCEPT !.tag[c] = Dead, !.field[c] = Raw] = w
  BY <1>2 DEF Typed
<1> HIDE DEF u
<1>5. Typed(u) /\ u.tag[c] = Dead
  BY <1>3 DEF Sets, Rest
<1>6. Sets(w, u, c, Dead, Raw)
  BY <1>5, PutField, FieldFacts
<1> HIDE DEF w
<1>7. Sets(w, m, c, Dead, Raw)
  BY <1>1, <1>3, <1>6, Again
<1> QED
  BY <1>4, <1>7 DEF DestroyOutcome, v

\* A live outcome after destruct(), which is about to be given a new field
LEMMA Emptied ==
    ASSUME NEW m, Typed(m), NEW c \in Places, NEW d \in Places, c # d,
           m.field[c][1] = m.tag[c]
    PROVE  /\ Typed(destruct(m, c))
           /\ Sets(destruct(m, c), m, c, m.tag[c], Remains(m.field[c]))
           /\ destruct(m, c).field[c] = Raw \/ Trivial(destruct(m, c).field[c][1])
           /\ destruct(m, c).tag[d] = m.tag[d] /\ destruct(m, c).field[d] = m.field[d]
<1> DEFINE v == destruct(m, c)
<1>1. /\ Sets(v, m, c, m.tag[c], Remains(m.field[c]))
      /\ Remains(m.field[c]) = Raw \/ Trivial(Remains(m.field[c])[1])
  BY DestructsAs DEF destruct
<1> HIDE DEF v
<1>2. /\ Typed(v) /\ (v.field[c] = Raw \/ Trivial(v.field[c][1]))
      /\ v.tag[d] = m.tag[d] /\ v.field[d] = m.field[d]
  BY <1>1 DEF Sets, Rest
<1> QED
  BY <1>1, <1>2 DEF v

\* The copy assignment copies the value.
LEMMA AssignsOutcome ==
    ASSUME NEW m, Typed(m), NEW c \in Places, NEW d \in Places,
           m.field[c][1] = m.tag[c], m.tag[d] \in Types, m.field[d][1] = m.tag[d]
    PROVE  Sets(AssignOutcome(m, c, d), m, c, m.tag[d], m.field[d])
<1>1. CASE m.tag[c] = m.tag[d]
  <2>1. m.field[d] \in FieldValues
    BY DEF Typed
  <2> QED
    BY <1>1, <2>1, Assigns DEF AssignOutcome
<1>2. CASE m.tag[c] # m.tag[d]
  <2> DEFINE v == destruct(m, c)
             w == copyFrom(v, c, d)
  <2>1. /\ Typed(v) /\ Sets(v, m, c, m.tag[c], Remains(m.field[c]))
        /\ (v.field[c] = Raw \/ Trivial(v.field[c][1]))
        /\ v.tag[d] = m.tag[d] /\ v.field[d] = m.field[d]
    BY <1>2, Emptied
  <2> HIDE DEF v
  <2>2. Sets(w, v, c, m.tag[d], m.field[d])
    BY <2>1, CopiesFrom
  <2>3. Sets(w, m, c, m.tag[d], m.field[d])
    BY <2>1, <2>2, Again
  <2> QED
    BY <1>2, <2>3 DEF AssignOutcome, v
<1> QED
  BY <1>1, <1>2

\* Of two outcomes of one type, the one that is moved from keeps it.
LEMMA MovesOutcome ==
    ASSUME NEW m, Typed(m), NEW c \in Places, NEW d \in Places, c # d,
           m.field[c][1] = m.tag[c], m.tag[d] \in Types, m.field[d][1] = m.tag[d]
    PROVE  \/ /\ Sets2(MoveOutcome(m, c, d), m, c, m.tag[d], m.field[d],
                       d, m.tag[d], Moved(m.field[d]))
              /\ Moved(m.field[d])[1] = m.tag[d]
           \/ Sets2(MoveOutcome(m, c, d), m, c, m.tag[d], m.field[d],
                    d, "deferred", << "deferred", 0 >>)
<1>1. CASE m.tag[c] = m.tag[d]
  <2> DEFINE w == Assign(m, c, m.field[d])
  <2>1. m.field[d] \in FieldValues
    BY DEF Typed
  <2>2. Sets(w, m, c, m.tag[d], m.field[d])
    BY <1>1, <2>1, Assigns
  <2> HIDE DEF w
  <2>3. /\ Sets2([w EXCEPT !.field[d] = Moved(@)], m,
                 c, m.tag[d], m.field[d], d, m.tag[d], Moved(m.field[d]))
        /\ Moved(m.field[d])[1] = m.tag[d]
    BY <2>2, MovesOut
  <2> QED
    BY <1>1, <2>3 DEF MoveOutcome, w
<1>2. CASE m.tag[c] # m.tag[d]
  <2> DEFINE v == destruct(m, c)
             w == moveFrom(v, c, d)
  <2>1. /\ Typed(v) /\ Sets(v, m, c, m.tag[c], Remains(m.field[c]))
        /\ (v.field[c] = Raw \/ Trivial(v.field[c][1]))
        /\ v.tag[d] = m.tag[d] /\ v.field[d] = m.field[d]
    BY <1>2, Emptied
  <2> HIDE DEF v
  <2>2. Sets2(w, v, c, m.tag[d], m.field[d], d, "deferred", << "deferred", 0 >>)
    BY <2>1, MovesFrom
  <2>3. Sets2(w, m, c, m.tag[d], m.field[d], d, "deferred", << "deferred", 0 >>)
    BY <2>1, <2>2 DEF Sets, Sets2, Rest
  <2> QED
    BY <1>2, <2>3 DEF MoveOutcome, v
<1> QED
  BY <1>1, <1>2

-----------------------------------------------------------------------------
(* What the objects hold *)

HeldOf(m) ==
    [c \in StorageCells |->
        IF c \in Unions THEN m.field[c]
        ELSE IF c \notin m.living THEN Raw
        ELSE IF c \in ErrorOrCells THEN HeldByErrorOr(m.results[c])
        ELSE << "handle", m.handles[c].id >>]

\* While the invariant holds, nothing is corrupt.
LEMMA HeldIs == Inv => Held = HeldOf(mem)
<1> SUFFICES ASSUME Inv PROVE Held = HeldOf(mem)
  OBVIOUS
<1>1. /\ mem.faults = {} /\ mem.tag[Scratch] = Dead
      /\ \A c \in Unions : Gone(mem, c) \/ Holds(mem, c, Types)
  BY DEF Inv, UnionsInv, Gone, Holds, Types, Unions
<1>2. \A c \in Unions : HeldByUnion(c) = mem.field[c]
  BY <1>1 DEF HeldByUnion, Alive, Gone, Holds, Types, VariantTypes, OutcomeTypes, Dead
<1>3. \A c \in StorageCells : Held[c] = HeldOf(mem)[c]
  BY <1>2, CellsAssumption DEF Held, HeldOf, StorageCells, Lives
<1> QED
  BY <1>3, Zenon DEF Held, HeldOf

\* The same, after a step
LEMMA HeldIsNext == Inv' => Held' = HeldOf(mem')
<1> SUFFICES ASSUME Inv' PROVE Held' = HeldOf(mem')
  OBVIOUS
<1>1. /\ mem'.faults = {} /\ mem'.tag[Scratch] = Dead
      /\ \A c \in Unions : Gone(mem', c) \/ Holds(mem', c, Types)
  BY DEF Inv, UnionsInv, Gone, Holds, Types, Unions
<1>2. \A c \in Unions : HeldByUnion(c)' = mem'.field[c]
  BY <1>1 DEF HeldByUnion, Alive, Gone, Holds, Types, VariantTypes, OutcomeTypes, Dead
<1>3. \A c \in StorageCells : Held'[c] = HeldOf(mem')[c]
  BY <1>2, CellsAssumption DEF Held, HeldOf, StorageCells, Lives
<1> QED
  BY <1>3, Zenon DEF Held, HeldOf

\* The tag and the field that an object may be given
Fits(c, T, f) ==
    \/ T = Dead /\ f = Raw
    \/ f[1] = T /\ T \in (IF c \in VariantCells THEN VariantTypes ELSE OutcomeTypes)

\* A union that lives has a field of its type, and another has none.
LEMMA UnionFacts ==
    ASSUME Inv
    PROVE  /\ Typed(mem) /\ Gone(mem, Scratch)
           /\ \A c \in Unions :
                /\ Fits(c, mem.tag[c], mem.field[c])
                /\ ~Alive(c) => mem.field[c] = Raw
                /\ Alive(c) => /\ mem.tag[c] \in Types /\ mem.field[c][1] = mem.tag[c]
                               /\ Held[c] # Raw
                /\ Held[c] = mem.field[c]
<1>1. Typed(mem) /\ Gone(mem, Scratch)
  BY DEF Inv, UnionsInv
<1>2. ASSUME NEW c \in Unions
      PROVE  /\ Fits(c, mem.tag[c], mem.field[c])
             /\ ~Alive(c) => mem.field[c] = Raw
             /\ Alive(c) => mem.tag[c] \in Types /\ mem.field[c][1] = mem.tag[c]
  BY <1>2, CellsAssumption
     DEF Inv, UnionsInv, Unions, Fits, Gone, Holds, Alive, Types, VariantTypes, OutcomeTypes, Dead
<1>3. ASSUME NEW c \in Unions
      PROVE  Held[c] = mem.field[c]
  BY <1>3, HeldIs DEF HeldOf, StorageCells
<1>4. ASSUME NEW c \in Unions, Alive(c)
      PROVE  Held[c] # Raw
  BY <1>2, <1>3, <1>4 DEF Raw, Types, VariantTypes, OutcomeTypes
<1> QED
  BY <1>1, <1>2, <1>3, <1>4

\* What an operation on unions leaves alone
LEMMA UnionsOnly ==
    ASSUME Inv, NEW w, Rest(w, mem), NEW o, Do(o, w), Gone(w, Scratch),
           \A c \in Unions : Fits(c, w.tag[c], w.field[c])
    PROVE  /\ Inv' /\ mem'.op = o /\ mem'.unsubscribed = mem.unsubscribed
           /\ mem'.field = w.field /\ mem'.living = mem.living
           /\ mem'.results = mem.results /\ mem'.handles = mem.handles
<1>1. mem' = [tag |-> w.tag, field |-> w.field, results |-> w.results, handles |-> w.handles,
              living |-> w.living, faults |-> w.faults, unsubscribed |-> w.unsubscribed,
              op |-> o]
  BY DEF Do, Rest, Typed
<1>2. w.tag \in [Places -> Tags] /\ w.field \in [Places -> FieldValues] /\ w.faults = {}
  BY DEF Rest, Typed, Inv, UnionsInv
<1>3. Typed(mem') /\ mem'.faults = {} /\ Gone(mem', Scratch)
  BY <1>1, <1>2 DEF Typed, Gone
<1>4. /\ \A c \in VariantCells : Gone(mem', c) \/ Holds(mem', c, VariantTypes)
      /\ \A c \in OutcomeCells : Gone(mem', c) \/ Holds(mem', c, OutcomeTypes)
  BY <1>1, CellsAssumption DEF Gone, Holds, Fits, Unions
<1>5. UnionsInv'
  BY <1>3, <1>4 DEF UnionsInv
<1>6. mem'.results = mem.results /\ mem'.handles = mem.handles
  BY <1>1 DEF Rest
<1>7. ResultsInv' /\ HandlesInv'
  BY <1>6 DEF Inv, ResultsInv, HandlesInv
<1> QED
  BY <1>1, <1>5, <1>6, <1>7 DEF Inv, Rest

\* An operation that sets one union preserves the invariant, and the others hold what they held.
LEMMA SetsOne ==
    ASSUME Inv, NEW c \in Unions, NEW w, NEW T, NEW f, Sets(w, mem, c, T, f), Fits(c, T, f),
           NEW o, Do(o, w)
    PROVE  /\ Inv' /\ mem'.op = o /\ mem'.unsubscribed = mem.unsubscribed
           /\ Held' = [Held EXCEPT ![c] = f]
<1>1. c # Scratch /\ Scratch \in Places /\ Unions \subseteq Places
  BY CellsAssumption DEF Places
<1>2. Rest(w, mem)
  BY DEF Sets
<1>3. Gone(w, Scratch)
  BY <1>1, UnionFacts DEF Sets, Gone
<1>4. \A e \in Unions : Fits(e, w.tag[e], w.field[e])
  BY <1>1, UnionFacts DEF Sets
<1>5. /\ Inv' /\ mem'.op = o /\ mem'.unsubscribed = mem.unsubscribed
      /\ mem'.field = w.field /\ mem'.living = mem.living
      /\ mem'.results = mem.results /\ mem'.handles = mem.handles
  BY <1>2, <1>3, <1>4, UnionsOnly
<1>6. HeldOf(mem') = [HeldOf(mem) EXCEPT ![c] = f]
  BY <1>1, <1>5 DEF HeldOf, Sets, StorageCells
<1> QED
  BY <1>5, <1>6, HeldIs, HeldIsNext

\* An operation that sets two unions preserves the invariant, and the others hold what they held.
LEMMA SetsTwo ==
    ASSUME Inv, NEW c \in Unions, NEW d \in Unions, c # d, NEW w, NEW T, NEW f, NEW U, NEW g,
           Sets2(w, mem, c, T, f, d, U, g), Fits(c, T, f), Fits(d, U, g), NEW o, Do(o, w)
    PROVE  /\ Inv' /\ mem'.op = o /\ mem'.unsubscribed = mem.unsubscribed
           /\ Held' = [Held EXCEPT ![c] = f, ![d] = g]
<1>1. c # Scratch /\ d # Scratch /\ Scratch \in Places /\ Unions \subseteq Places
  BY CellsAssumption DEF Places
<1>2. Rest(w, mem)
  BY DEF Sets2
<1>3. Gone(w, Scratch)
  BY <1>1, UnionFacts DEF Sets2, Gone
<1>4. \A e \in Unions : Fits(e, w.tag[e], w.field[e])
  BY <1>1, UnionFacts DEF Sets2
<1>5. /\ Inv' /\ mem'.op = o /\ mem'.unsubscribed = mem.unsubscribed
      /\ mem'.field = w.field /\ mem'.living = mem.living
      /\ mem'.results = mem.results /\ mem'.handles = mem.handles
  BY <1>2, <1>3, <1>4, UnionsOnly
<1>6. HeldOf(mem') = [HeldOf(mem) EXCEPT ![c] = f, ![d] = g]
  BY <1>1, <1>5 DEF HeldOf, Sets2, StorageCells
<1> QED
  BY <1>5, <1>6, HeldIs, HeldIsNext

-----------------------------------------------------------------------------
(* Every operation is one of the cells' *)

Ended == { << "handle", n >> : n \in mem.unsubscribed }
Putable == FieldsOf(VariantTypes \cup OutcomeTypes)
             \cup ({"done", "failure"} \X Contents) \cup ({"handle"} \X (Contents \cup {0}))

\* A union is not a scoped handle, and ends nothing.
LEMMA UnionEndsNothing ==
    ASSUME NEW c \in Unions, mem'.unsubscribed = mem.unsubscribed
    PROVE  c \in StorageCells /\ Cells!Ends(c)
<1>1. c \in StorageCells /\ c \notin ScopedCells
  BY CellsAssumption DEF StorageCells, Handles
<1>2. Ended' = Ended
  BY DEF Ended
<1> QED
  BY <1>1, <1>2 DEF Cells!Ends, Ended

\* What a union may be made from
LEMMA FieldsFit ==
    /\ \A f \in FieldsOf(VariantTypes) : f \in FieldValues /\ f[1] \in VariantTypes /\ f \in Putable
    /\ \A f \in FieldsOf(OutcomeTypes) : f \in FieldValues /\ f[1] \in OutcomeTypes /\ f \in Putable
  BY ContentsAssumption DEF FieldsOf, FieldValues, Types, VariantTypes, OutcomeTypes, Putable

\* A step that gives an object a new value is a Make of the cells.
LEMMA IsMake ==
    ASSUME NEW c \in StorageCells, NEW f \in Putable, mem'.op = << "make", c, f >>,
           Held' = [Held EXCEPT ![c] = f], Cells!Ends(c)
    PROVE  Cells!Next
  BY DEF Cells!Next, Cells!Make, Putable

\* A step that leaves an object without a value is a Drop of the cells.
LEMMA IsDrop ==
    ASSUME NEW c \in StorageCells, mem'.op = << "drop", c >>,
           Held' = [Held EXCEPT ![c] = Raw], Cells!Ends(c)
    PROVE  Cells!Next
  BY DEF Cells!Next, Cells!Drop

\* A step that gives an object another one's value is a Copy of the cells.
LEMMA IsCopy ==
    ASSUME NEW c \in StorageCells, NEW d \in StorageCells, mem'.op = << "copy", c, d >>,
           Held[d] # Raw, Held' = [Held EXCEPT ![c] = Held[d]], Cells!Ends(c)
    PROVE  Cells!Next
  BY DEF Cells!Next, Cells!Copy

\* A step that gives an object another one's value, and leaves what may be left, is a Move.
LEMMA IsMove ==
    ASSUME NEW c \in StorageCells, NEW d \in StorageCells, mem'.op = << "move", c, d >>,
           Held[d] # Raw, NEW left \in Left(Held[d]) \cup (IF c = d THEN {Held[d]} ELSE {}),
           Held' = [Held EXCEPT ![c] = Held[d], ![d] = left], Cells!Ends(c)
    PROVE  Cells!Next
  BY DEF Cells!Next, Cells!Move

\* A step that exchanges two values is a Swap of the cells.
LEMMA IsSwap ==
    ASSUME NEW c \in StorageCells, NEW d \in StorageCells, mem'.op = << "swap", c, d >>,
           Held' = [Held EXCEPT ![c] = Held[d], ![d] = Held[c]],
           mem'.unsubscribed = mem.unsubscribed
    PROVE  Cells!Next
<1>1. UNCHANGED { << "handle", n >> : n \in mem.unsubscribed }
  OBVIOUS
<1> QED
  BY <1>1 DEF Cells!Next, Cells!Swap

\* Every operation on variants is one of the cells.
LEMMA VariantSteps ==
    ASSUME Inv, NEW c \in VariantCells, NEW d \in VariantCells, VariantStep(c, d)
    PROVE  Inv' /\ Cells!Next
<1>1. c \in Unions /\ d \in Unions /\ c \in Places /\ d \in Places
      /\ c \in StorageCells /\ d \in StorageCells
  BY DEF Unions, Places, StorageCells
<1>2. /\ Typed(mem) /\ Gone(mem, Scratch)
      /\ \A e \in {c, d} : /\ Fits(e, mem.tag[e], mem.field[e]) /\ Held[e] = mem.field[e]
                           /\ ~Alive(e) => mem.field[e] = Raw
                           /\ Alive(e) => /\ mem.tag[e] \in Types /\ mem.field[e][1] = mem.tag[e]
                                          /\ Held[e] # Raw
  BY <1>1, UnionFacts
<1>3. /\ \A f : f[1] \in VariantTypes => Fits(c, f[1], f)
      /\ Fits(d, "null", << "null", 0 >>) /\ Fits(c, Dead, Raw)
      /\ Alive(d) => Fits(c, mem.tag[d], mem.field[d])
      /\ Alive(c) => Fits(d, mem.tag[c], mem.field[c])
  BY <1>2 DEF Fits, VariantTypes, Alive
\* In Left(f), f is of a Variant's type.
<1>4. Alive(d) => Left(Held[d]) = {<< "null", 0 >>}
  <2> SUFFICES ASSUME Alive(d) PROVE Left(Held[d]) = {<< "null", 0 >>}
    OBVIOUS
  <2>1. Held[d][1] \in VariantTypes
    BY <1>2 DEF Fits, Alive
  <2> QED
    BY <2>1 DEF Left, VariantTypes, OutcomeTypes
<1>5. ASSUME NEW f \in FieldsOf(VariantTypes), NEW w, Sets(w, mem, c, f[1], f),
             Do(<< "make", c, f >>, w)
      PROVE  Inv' /\ Cells!Next
  <2>1. f \in Putable /\ Fits(c, f[1], f)
    BY <1>3, FieldsFit
  <2>2. /\ Inv' /\ mem'.op = << "make", c, f >> /\ mem'.unsubscribed = mem.unsubscribed
        /\ Held' = [Held EXCEPT ![c] = f]
    BY <1>1, <1>5, <2>1, SetsOne
  <2> QED
    BY <1>1, <2>1, <2>2, UnionEndsNothing, IsMake
<1>6. ASSUME Alive(d), NEW w, Sets(w, mem, c, mem.tag[d], mem.field[d]),
             Do(<< "copy", c, d >>, w)
      PROVE  Inv' /\ Cells!Next
  <2>1. /\ Inv' /\ mem'.op = << "copy", c, d >> /\ mem'.unsubscribed = mem.unsubscribed
        /\ Held' = [Held EXCEPT ![c] = Held[d]]
    BY <1>1, <1>2, <1>3, <1>6, SetsOne
  <2> QED
    BY <1>1, <1>2, <1>6, <2>1, UnionEndsNothing, IsCopy
<1>7. ASSUME Alive(d), c # d, NEW w,
             Sets2(w, mem, c, mem.tag[d], mem.field[d], d, "null", << "null", 0 >>),
             Do(<< "move", c, d >>, w)
      PROVE  Inv' /\ Cells!Next
  <2>1. /\ Inv' /\ mem'.op = << "move", c, d >> /\ mem'.unsubscribed = mem.unsubscribed
        /\ Held' = [Held EXCEPT ![c] = Held[d], ![d] = << "null", 0 >>]
    BY <1>1, <1>2, <1>3, <1>7, SetsTwo
  <2> QED
    BY <1>1, <1>2, <1>4, <1>7, <2>1, UnionEndsNothing, IsMove
<1>8. CASE ~Alive(c) /\ \E f \in FieldsOf(VariantTypes) : Do(<< "make", c, f >>, Construct(mem, c, f))
  <2>1. PICK f \in FieldsOf(VariantTypes) : Do(<< "make", c, f >>, Construct(mem, c, f))
    BY <1>8
  <2>2. Sets(Construct(mem, c, f), mem, c, f[1], f)
    BY <1>1, <1>2, <1>8, FieldsFit, Constructs DEF Types
  <2> QED
    BY <1>5, <2>1, <2>2
<1>9. CASE ~Alive(c) /\ Alive(d) /\ Do(<< "copy", c, d >>, CopyConstruct(mem, c, d))
  BY <1>1, <1>2, <1>6, <1>9, CopyConstructs
<1>10. CASE ~Alive(c) /\ Alive(d) /\ Do(<< "move", c, d >>, MoveConstruct(mem, c, d))
  <2>1. c # d
    BY <1>10
  <2> QED
    BY <1>1, <1>2, <1>7, <1>10, <2>1, MoveConstructs
<1>11. CASE Alive(c) /\ \E f \in FieldsOf(VariantTypes) : Do(<< "make", c, f >>, AssignValue(mem, c, f))
  <2>1. PICK f \in FieldsOf(VariantTypes) : Do(<< "make", c, f >>, AssignValue(mem, c, f))
    BY <1>11
  <2>2. Sets(AssignValue(mem, c, f), mem, c, f[1], f)
    BY <1>1, <1>2, <1>11, FieldsFit, AssignsValue DEF Types
  <2> QED
    BY <1>5, <2>1, <2>2
<1>12. CASE Alive(c) /\ Alive(d) /\ Do(<< "copy", c, d >>, CopyAssign(mem, c, d))
  BY <1>1, <1>2, <1>6, <1>12, CopyAssigns
<1>13. CASE Alive(c) /\ Alive(d) /\ Do(<< "move", c, d >>, MoveAssign(mem, c, d))
  <2>1. CASE c # d
    BY <1>1, <1>2, <1>7, <1>13, <2>1, MoveAssigns
  <2>2. CASE c = d
    <3>1. Sets(MoveAssign(mem, c, d), mem, c, mem.tag[d], mem.field[d])
      BY <1>2, <2>2 DEF MoveAssign, Sets, Rest
    <3>2. /\ Inv' /\ mem'.op = << "move", c, d >> /\ mem'.unsubscribed = mem.unsubscribed
          /\ Held' = [Held EXCEPT ![c] = Held[d]]
      BY <1>1, <1>2, <1>3, <1>13, <3>1, SetsOne
    <3>3. Held' = [Held EXCEPT ![c] = Held[d], ![d] = Held[d]]
      BY <2>2, <3>2
    <3>4. Held[d] \in Left(Held[d]) \cup (IF c = d THEN {Held[d]} ELSE {})
      BY <2>2
    <3> QED
      BY <1>1, <1>2, <1>13, <3>2, <3>3, <3>4, UnionEndsNothing, IsMove
  <2> QED
    BY <2>1, <2>2
<1>14. CASE Alive(c) /\ Alive(d) /\ c # d /\ Do(<< "swap", c, d >>, Swap(mem, c, d))
  <2>1. Sets2(Swap(mem, c, d), mem, c, mem.tag[d], mem.field[d], d, mem.tag[c], mem.field[c])
    BY <1>1, <1>2, <1>14, Swaps
  <2>2. /\ Inv' /\ mem'.op = << "swap", c, d >> /\ mem'.unsubscribed = mem.unsubscribed
        /\ Held' = [Held EXCEPT ![c] = mem.field[d], ![d] = mem.field[c]]
    BY <1>1, <1>2, <1>3, <1>14, <2>1, SetsTwo
  <2> QED
    BY <1>1, <1>2, <2>2, IsSwap
<1>15. CASE Alive(c) /\ Do(<< "drop", c >>, Destroy(mem, c))
  <2>1. Sets(Destroy(mem, c), mem, c, Dead, Raw)
    BY <1>1, <1>2, <1>15, Destroys
  <2>2. /\ Inv' /\ mem'.op = << "drop", c >> /\ mem'.unsubscribed = mem.unsubscribed
        /\ Held' = [Held EXCEPT ![c] = Raw]
    BY <1>1, <1>3, <1>15, <2>1, SetsOne
  <2> QED
    BY <1>1, <2>2, UnionEndsNothing, IsDrop
<1> QED
  BY <1>8, <1>9, <1>10, <1>11, <1>12, <1>13, <1>14, <1>15 DEF VariantStep

\* Every operation on outcomes is one of the cells.
LEMMA OutcomeSteps ==
    ASSUME Inv, NEW c \in OutcomeCells, NEW d \in OutcomeCells, OutcomeStep(c, d)
    PROVE  Inv' /\ Cells!Next
<1>1. /\ c \in Unions /\ d \in Unions /\ c \in Places /\ d \in Places
      /\ c \in StorageCells /\ d \in StorageCells /\ c \notin VariantCells /\ d \notin VariantCells
  BY CellsAssumption DEF Unions, Places, StorageCells
<1>2. /\ Typed(mem)
      /\ \A e \in {c, d} : /\ Fits(e, mem.tag[e], mem.field[e]) /\ Held[e] = mem.field[e]
                           /\ ~Alive(e) => mem.field[e] = Raw
                           /\ Alive(e) => /\ mem.tag[e] \in Types /\ mem.field[e][1] = mem.tag[e]
                                          /\ Held[e] # Raw
  BY <1>1, UnionFacts
<1>3. /\ \A f : f[1] \in OutcomeTypes => Fits(c, f[1], f) /\ Fits(d, f[1], f)
      /\ Fits(d, "deferred", << "deferred", 0 >>) /\ Fits(c, Dead, Raw)
      /\ Alive(d) => mem.tag[d] \in OutcomeTypes /\ Fits(c, mem.tag[d], mem.field[d])
  BY <1>1, <1>2 DEF Fits, OutcomeTypes, Alive
<1>4. Alive(d) => Left(Held[d]) = {Moved(mem.field[d]), << "deferred", 0 >>}
  <2> SUFFICES ASSUME Alive(d) PROVE Left(Held[d]) = {Moved(mem.field[d]), << "deferred", 0 >>}
    OBVIOUS
  <2>1. Held[d][1] \in OutcomeTypes /\ Held[d] = mem.field[d]
    BY <1>2, <1>3
  <2> QED
    BY <2>1 DEF Left, VariantTypes, OutcomeTypes
<1>5. ASSUME Alive(d), NEW w, Sets(w, mem, c, mem.tag[d], mem.field[d]),
             Do(<< "copy", c, d >>, w)
      PROVE  Inv' /\ Cells!Next
  <2>1. /\ Inv' /\ mem'.op = << "copy", c, d >> /\ mem'.unsubscribed = mem.unsubscribed
        /\ Held' = [Held EXCEPT ![c] = Held[d]]
    BY <1>1, <1>2, <1>3, <1>5, SetsOne
  <2> QED
    BY <1>1, <1>2, <1>5, <2>1, UnionEndsNothing, IsCopy
<1>6. ASSUME Alive(d), c # d, NEW w, NEW U, NEW left \in Left(Held[d]), Fits(d, U, left),
             Sets2(w, mem, c, mem.tag[d], mem.field[d], d, U, left),
             Do(<< "move", c, d >>, w)
      PROVE  Inv' /\ Cells!Next
  <2>1. /\ Inv' /\ mem'.op = << "move", c, d >> /\ mem'.unsubscribed = mem.unsubscribed
        /\ Held' = [Held EXCEPT ![c] = Held[d], ![d] = left]
    BY <1>1, <1>2, <1>3, <1>6, SetsTwo
  <2> QED
    BY <1>1, <1>2, <1>6, <2>1, UnionEndsNothing, IsMove
<1>7. CASE ~Alive(c) /\ \E f \in FieldsOf(OutcomeTypes) : Do(<< "make", c, f >>, Construct(mem, c, f))
  <2>1. PICK f \in FieldsOf(OutcomeTypes) : Do(<< "make", c, f >>, Construct(mem, c, f))
    BY <1>7
  <2>2. Sets(Construct(mem, c, f), mem, c, f[1], f)
    BY <1>1, <1>2, <1>7, FieldsFit, Constructs DEF Types
  <2>3. f \in Putable /\ Fits(c, f[1], f)
    BY <1>3, FieldsFit
  <2>4. /\ Inv' /\ mem'.op = << "make", c, f >> /\ mem'.unsubscribed = mem.unsubscribed
        /\ Held' = [Held EXCEPT ![c] = f]
    BY <1>1, <2>1, <2>2, <2>3, SetsOne
  <2> QED
    BY <1>1, <2>3, <2>4, UnionEndsNothing, IsMake
<1>8. CASE ~Alive(c) /\ Alive(d) /\ Do(<< "copy", c, d >>, copyFrom(mem, c, d))
  BY <1>1, <1>2, <1>5, <1>8, CopiesFrom
<1>9. CASE ~Alive(c) /\ Alive(d) /\ Do(<< "move", c, d >>, moveFrom(mem, c, d))
  <2>1. c # d
    BY <1>9
  <2>2. Sets2(moveFrom(mem, c, d), mem, c, mem.tag[d], mem.field[d],
              d, "deferred", << "deferred", 0 >>)
    BY <1>1, <1>2, <1>9, <2>1, MovesFrom
  <2>3. << "deferred", 0 >> \in Left(Held[d])
    BY <1>4, <1>9
  <2> QED
    BY <1>3, <1>6, <1>9, <2>1, <2>2, <2>3
<1>10. CASE Alive(c) /\ Alive(d) /\ Do(<< "copy", c, d >>, AssignOutcome(mem, c, d))
  BY <1>1, <1>2, <1>5, <1>10, AssignsOutcome
<1>11. CASE Alive(c) /\ Alive(d) /\ c # d /\ Do(<< "move", c, d >>, MoveOutcome(mem, c, d))
  <2>1. \/ /\ Sets2(MoveOutcome(mem, c, d), mem, c, mem.tag[d], mem.field[d],
                    d, mem.tag[d], Moved(mem.field[d]))
           /\ Moved(mem.field[d])[1] = mem.tag[d]
        \/ Sets2(MoveOutcome(mem, c, d), mem, c, mem.tag[d], mem.field[d],
                 d, "deferred", << "deferred", 0 >>)
    BY <1>1, <1>2, <1>11, MovesOutcome
  <2>2. << "deferred", 0 >> \in Left(Held[d]) /\ Moved(mem.field[d]) \in Left(Held[d])
    BY <1>4, <1>11
  <2> QED
    BY <1>3, <1>6, <1>11, <2>1, <2>2
<1>12. CASE Alive(c) /\ Do(<< "drop", c >>, DestroyOutcome(mem, c))
  <2>1. Sets(DestroyOutcome(mem, c), mem, c, Dead, Raw)
    BY <1>1, <1>2, <1>12, DestroysOutcome
  <2>2. /\ Inv' /\ mem'.op = << "drop", c >> /\ mem'.unsubscribed = mem.unsubscribed
        /\ Held' = [Held EXCEPT ![c] = Raw]
    BY <1>1, <1>3, <1>12, <2>1, SetsOne
  <2> QED
    BY <1>1, <2>2, UnionEndsNothing, IsDrop
<1> QED
  BY <1>7, <1>8, <1>9, <1>10, <1>11, <1>12 DEF OutcomeStep

-----------------------------------------------------------------------------
(* ErrorOr and the handles *)

\* An operation that writes the members of an ErrorOr or of a handle
Written(R, H, L, U, o) ==
    mem' = [tag |-> mem.tag, field |-> mem.field, results |-> R, handles |-> H, living |-> L,
            faults |-> mem.faults, unsubscribed |-> U, op |-> o]

\* Writing the members of another class leaves the unions as they are.
LEMMA UnionsKept ==
    ASSUME Inv, NEW R, NEW H, NEW L, NEW U, NEW o, Written(R, H, L, U, o)
    PROVE  /\ UnionsInv' /\ mem'.field = mem.field /\ mem'.results = R /\ mem'.handles = H
           /\ mem'.living = L /\ mem'.unsubscribed = U /\ mem'.op = o
<1>1. /\ mem'.tag = mem.tag /\ mem'.field = mem.field /\ mem'.faults = mem.faults
      /\ mem'.results = R /\ mem'.handles = H
      /\ mem'.living = L /\ mem'.unsubscribed = U /\ mem'.op = o
  BY DEF Written
<1>2. Typed(mem')
  BY <1>1 DEF Written, Typed, Inv, UnionsInv
<1> QED
  BY <1>1, <1>2 DEF Inv, UnionsInv, Gone, Holds

\* The memory is a record of these fields.
LEMMA MemIs ==
    ASSUME Inv
    PROVE  mem = [tag |-> mem.tag, field |-> mem.field, results |-> mem.results,
                  handles |-> mem.handles, living |-> mem.living, faults |-> mem.faults,
                  unsubscribed |-> mem.unsubscribed, op |-> mem.op]
  BY DEF Inv, UnionsInv, Typed

Result == [value : Int, error : Int, hasError : BOOLEAN]
Determinate(r) == ~r.hasError => r.value # Indeterminate

\* What an ErrorOr holds
LEMMA ErrorOrFacts ==
    ASSUME Inv, NEW c \in ErrorOrCells
    PROVE  /\ mem.results[c] \in Result /\ Determinate(mem.results[c])
           /\ c \in StorageCells /\ c \notin Unions /\ c \notin Handles
           /\ Lives(c) => /\ Held[c] = HeldByErrorOr(mem.results[c])
                          /\ Held[c] # Raw
<1>1. mem.results[c] \in Result /\ Determinate(mem.results[c])
  BY DEF Inv, ResultsInv, Result, Determinate
<1>2. c \in StorageCells /\ c \notin Unions /\ c \notin Handles
  BY CellsAssumption DEF StorageCells
<1>3. Lives(c) => Held[c] = HeldByErrorOr(mem.results[c])
  BY <1>2, HeldIs DEF HeldOf, Lives
<1> QED
  BY <1>1, <1>2, <1>3 DEF HeldByErrorOr, Raw

\* An operation leaves c and d with the results r and s.
Wrote(c, d, r, s, o) ==
    Written([mem.results EXCEPT ![c] = r, ![d] = s], mem.handles, mem.living \cup {c},
            mem.unsubscribed, o)

\* Writing two results preserves the invariant, and the others hold what they held.
LEMMA ErrorOrWrites ==
    ASSUME Inv, NEW c \in ErrorOrCells, NEW d \in ErrorOrCells, NEW r \in Result, NEW s \in Result,
           Determinate(r), Determinate(s), c = d \/ Lives(d), NEW o,
           Wrote(c, d, r, s, o)
    PROVE  /\ Inv' /\ mem'.op = o /\ mem'.unsubscribed = mem.unsubscribed
           /\ Held' = [Held EXCEPT ![c] = HeldByErrorOr(r), ![d] = HeldByErrorOr(s)]
<1> DEFINE R == [mem.results EXCEPT ![c] = r, ![d] = s]
<1>1. /\ UnionsInv' /\ mem'.field = mem.field /\ mem'.results = R /\ mem'.handles = mem.handles
      /\ mem'.living = mem.living \cup {c} /\ mem'.unsubscribed = mem.unsubscribed /\ mem'.op = o
  BY UnionsKept DEF Wrote
<1>2. R \in [ErrorOrCells -> Result]
  BY DEF Inv, ResultsInv, Result
<1>3. \A e \in ErrorOrCells : R[e] = IF e = d THEN s ELSE IF e = c THEN r ELSE mem.results[e]
  BY DEF Inv, ResultsInv, Result
<1> HIDE DEF R
<1>4. Inv'
  BY <1>1, <1>2, <1>3, ErrorOrFacts DEF Inv, ResultsInv, HandlesInv, Result, Determinate
<1>5. c \in StorageCells /\ d \in StorageCells /\ c \notin Unions /\ d \notin Unions
  BY ErrorOrFacts
<1>6. HeldOf(mem') = [HeldOf(mem) EXCEPT ![c] = HeldByErrorOr(r), ![d] = HeldByErrorOr(s)]
  BY <1>1, <1>3, <1>5, CellsAssumption DEF HeldOf, Lives, StorageCells
<1> QED
  BY <1>1, <1>4, <1>6, HeldIs, HeldIsNext

\* An object that is not scoped ends nothing.
LEMMA EndsNothing ==
    ASSUME NEW c, c \notin ScopedCells, mem'.unsubscribed = mem.unsubscribed
    PROVE  Cells!Ends(c)
<1>1. Ended' = Ended
  BY DEF Ended
<1> QED
  BY <1>1 DEF Cells!Ends, Ended

\* A step that takes the value of an object away is a Take of the cells.
LEMMA IsTake ==
    ASSUME NEW c \in StorageCells, mem'.op = << "take", c >>, Held[c] # Raw,
           NEW left \in Left(Held[c]), Held' = [Held EXCEPT ![c] = left],
           mem'.unsubscribed = mem.unsubscribed
    PROVE  Cells!Next
<1>1. UNCHANGED { << "handle", n >> : n \in mem.unsubscribed }
  OBVIOUS
<1> QED
  BY <1>1 DEF Cells!Next, Cells!Take

\* Of what is moved away, a failure stays and a value does not.
LEMMA MovedResults ==
    ASSUME NEW r \in Result, Determinate(r)
    PROVE  /\ MovedResult(r) \in Result /\ Determinate(MovedResult(r))
           /\ Left(HeldByErrorOr(r)) = {HeldByErrorOr(MovedResult(r))}
<1>1. MovedResult(r) = IF r.value = -1 THEN r
                       ELSE [value |-> 0, error |-> r.error, hasError |-> r.hasError]
  BY DEF MovedResult, Result, Indeterminate
<1>2. MovedResult(r) \in Result /\ Determinate(MovedResult(r))
  BY <1>1 DEF Result, Determinate, Indeterminate
<1>3. r.hasError => Left(HeldByErrorOr(r)) = {HeldByErrorOr(MovedResult(r))}
  BY <1>1 DEF HeldByErrorOr, Left, VariantTypes, OutcomeTypes
<1>4. ~r.hasError => Left(HeldByErrorOr(r)) = {HeldByErrorOr(MovedResult(r))}
  BY <1>1 DEF HeldByErrorOr, Left, VariantTypes, OutcomeTypes, Determinate, Indeterminate
<1> QED
  BY <1>2, <1>3, <1>4 DEF Result

\* Every operation on an ErrorOr is one of the cells.
LEMMA ErrorOrSteps ==
    ASSUME Inv, NEW c \in ErrorOrCells, NEW d \in ErrorOrCells, ErrorOrStep(c, d)
    PROVE  Inv' /\ Cells!Next
<1> DEFINE r == mem.results
           Becomes(x) == [mem EXCEPT !.results[c] = x, !.living = @ \cup {c}]
<1>1. \A e \in {c, d} : /\ r[e] \in Result /\ Determinate(r[e])
                        /\ e \in StorageCells /\ e \notin Unions /\ e \notin ScopedCells
                        /\ Lives(e) => Held[e] = HeldByErrorOr(r[e]) /\ Held[e] # Raw
  BY ErrorOrFacts DEF Handles
<1>2. r \in [ErrorOrCells -> Result]
  BY DEF Inv, ResultsInv, Result
<1>3. ASSUME NEW x, NEW o, Do(o, Becomes(x))
      PROVE  Written([r EXCEPT ![c] = x], mem.handles, mem.living \cup {c}, mem.unsubscribed, o)
  BY <1>3, MemIs DEF Do, Written
<1>4. ASSUME NEW x \in Result, Determinate(x), NEW o, Do(o, Becomes(x))
      PROVE  /\ Inv' /\ mem'.op = o /\ mem'.unsubscribed = mem.unsubscribed
             /\ Held' = [Held EXCEPT ![c] = HeldByErrorOr(x)]
  <2>1. [r EXCEPT ![c] = x] = [r EXCEPT ![c] = x, ![c] = x]
    BY <1>2
  <2>2. Wrote(c, c, x, x, o)
    BY <1>3, <1>4, <2>1 DEF Wrote
  <2>3. /\ Inv' /\ mem'.op = o /\ mem'.unsubscribed = mem.unsubscribed
        /\ Held' = [Held EXCEPT ![c] = HeldByErrorOr(x), ![c] = HeldByErrorOr(x)]
    BY <1>4, <2>2, ErrorOrWrites
  <2> QED
    BY <2>3
<1>5. CASE \E x \in Contents : Do(<< "make", c, << "done", x >> >>,
                                  Becomes(IF Lives(c) THEN emplace(r[c], x) ELSE OfValue(x)))
  <2>1. PICK x \in Contents : Do(<< "make", c, << "done", x >> >>,
                                  Becomes(IF Lives(c) THEN emplace(r[c], x) ELSE OfValue(x)))
    BY <1>5
  <2> DEFINE y == IF Lives(c) THEN emplace(r[c], x) ELSE OfValue(x)
  <2>2. y = [value |-> x, error |-> 0, hasError |-> FALSE] /\ x \in Nat \ {0}
    BY <1>1, ContentsAssumption DEF emplace, OfValue, Result
  <2> HIDE DEF y
  <2>3. y \in Result /\ Determinate(y) /\ HeldByErrorOr(y) = << "done", x >>
    BY <2>2 DEF Result, Determinate, HeldByErrorOr, Indeterminate
  <2>4. Do(<< "make", c, << "done", x >> >>, Becomes(y))
    BY <2>1 DEF y
  <2>5. << "done", x >> \in Putable
    BY DEF Putable
  <2>6. /\ Inv' /\ mem'.op = << "make", c, << "done", x >> >> /\ mem'.unsubscribed = mem.unsubscribed
        /\ Held' = [Held EXCEPT ![c] = << "done", x >>]
    BY <1>4, <2>3, <2>4
  <2> QED
    BY <1>1, <2>5, <2>6, EndsNothing, IsMake
<1>6. CASE \E e \in Contents : Do(<< "make", c, << "failure", e >> >>,
                                  Becomes(IF Lives(c) THEN setError(r[c], e) ELSE OfUnexpected(e)))
  <2>1. PICK e \in Contents : Do(<< "make", c, << "failure", e >> >>,
                                  Becomes(IF Lives(c) THEN setError(r[c], e) ELSE OfUnexpected(e)))
    BY <1>6
  <2> DEFINE y == IF Lives(c) THEN setError(r[c], e) ELSE OfUnexpected(e)
  <2>2. /\ y = [value |-> IF Lives(c) THEN 0 ELSE -1, error |-> e, hasError |-> TRUE]
        /\ e \in Nat \ {0}
    BY <1>1, ContentsAssumption DEF setError, OfUnexpected, Result, Indeterminate
  <2> HIDE DEF y
  <2>3. y \in Result /\ Determinate(y) /\ HeldByErrorOr(y) = << "failure", e >>
    BY <2>2 DEF Result, Determinate, HeldByErrorOr, Indeterminate
  <2>4. Do(<< "make", c, << "failure", e >> >>, Becomes(y))
    BY <2>1 DEF y
  <2>5. << "failure", e >> \in Putable
    BY DEF Putable
  <2>6. /\ Inv' /\ mem'.op = << "make", c, << "failure", e >> >>
        /\ mem'.unsubscribed = mem.unsubscribed
        /\ Held' = [Held EXCEPT ![c] = << "failure", e >>]
    BY <1>4, <2>3, <2>4
  <2> QED
    BY <1>1, <2>5, <2>6, EndsNothing, IsMake
<1>7. CASE Lives(d) /\ Do(<< "copy", c, d >>, Becomes(r[d]))
  <2>1. /\ Inv' /\ mem'.op = << "copy", c, d >> /\ mem'.unsubscribed = mem.unsubscribed
        /\ Held' = [Held EXCEPT ![c] = Held[d]]
    BY <1>1, <1>4, <1>7
  <2> QED
    BY <1>1, <1>7, <2>1, EndsNothing, IsCopy
<1>8. CASE Lives(d) /\ c # d /\ Do(<< "move", c, d >>,
                                   [Becomes(r[d]) EXCEPT !.results[d] = MovedResult(@)])
  <2> DEFINE s == MovedResult(r[d])
  <2>1. s \in Result /\ Determinate(s) /\ Left(HeldByErrorOr(r[d])) = {HeldByErrorOr(s)}
    BY <1>1, MovedResults
  <2>2. Wrote(c, d, r[d], s, << "move", c, d >>)
    BY <1>2, <1>8, MemIs DEF Do, Written, Wrote
  <2> HIDE DEF s
  <2>3. /\ Inv' /\ mem'.op = << "move", c, d >> /\ mem'.unsubscribed = mem.unsubscribed
        /\ Held' = [Held EXCEPT ![c] = HeldByErrorOr(r[d]), ![d] = HeldByErrorOr(s)]
    BY <1>1, <1>8, <2>1, <2>2, ErrorOrWrites
  <2>4. HeldByErrorOr(s) \in Left(Held[d]) /\ Held[d] = HeldByErrorOr(r[d])
    BY <1>1, <1>8, <2>1
  <2> QED
    BY <1>1, <1>8, <2>3, <2>4, EndsNothing, IsMove
<1>9. CASE Lives(c) /\ Lives(d) /\ Do(<< "swap", c, d >>, [Becomes(r[d]) EXCEPT !.results[d] = r[c]])
  <2>1. Wrote(c, d, r[d], r[c], << "swap", c, d >>)
    BY <1>9, MemIs DEF Do, Written, Wrote
  <2>2. /\ Inv' /\ mem'.op = << "swap", c, d >> /\ mem'.unsubscribed = mem.unsubscribed
        /\ Held' = [Held EXCEPT ![c] = HeldByErrorOr(r[d]), ![d] = HeldByErrorOr(r[c])]
    BY <1>1, <1>9, <2>1, ErrorOrWrites
  <2> QED
    BY <1>1, <1>9, <2>2, IsSwap
<1>10. CASE Lives(c) /\ has_value(r[c]) /\ Do(<< "take", c >>, Becomes(MovedResult(r[c])))
  <2> DEFINE s == MovedResult(r[c])
  <2>1. s \in Result /\ Determinate(s) /\ Left(HeldByErrorOr(r[c])) = {HeldByErrorOr(s)}
    BY <1>1, MovedResults
  <2>2. /\ Inv' /\ mem'.op = << "take", c >> /\ mem'.unsubscribed = mem.unsubscribed
        /\ Held' = [Held EXCEPT ![c] = HeldByErrorOr(s)]
    BY <1>4, <1>10, <2>1
  <2>3. HeldByErrorOr(s) \in Left(Held[c])
    BY <1>1, <1>10, <2>1
  <2> QED
    BY <1>1, <1>10, <2>2, <2>3, IsTake
<1>11. CASE Lives(c) /\ Do(<< "drop", c >>, [Becomes(OfValue(0)) EXCEPT !.living = @ \ {c}])
  <2> DEFINE R == [r EXCEPT ![c] = OfValue(0)]
             L == (mem.living \cup {c}) \ {c}
  <2>1. Written(R, mem.handles, L, mem.unsubscribed, << "drop", c >>)
    BY <1>11, MemIs DEF Do, Written
  <2>2. OfValue(0) \in Result /\ Determinate(OfValue(0))
    BY DEF OfValue, Result, Determinate, Indeterminate
  <2>3. /\ R \in [ErrorOrCells -> Result]
        /\ \A e \in ErrorOrCells : R[e] = IF e = c THEN OfValue(0) ELSE r[e]
    BY <1>2, <2>2
  <2> HIDE DEF R
  <2>4. /\ UnionsInv' /\ mem'.field = mem.field /\ mem'.results = R /\ mem'.handles = mem.handles
        /\ mem'.living = L /\ mem'.unsubscribed = mem.unsubscribed /\ mem'.op = << "drop", c >>
    BY <2>1, UnionsKept
  <2>5. Inv'
    BY <2>2, <2>3, <2>4, ErrorOrFacts DEF Inv, ResultsInv, HandlesInv, Result, Determinate
  <2>6. HeldOf(mem') = [HeldOf(mem) EXCEPT ![c] = Raw]
    BY <1>1, <2>3, <2>4, CellsAssumption DEF HeldOf, StorageCells
  <2>7. Held' = [Held EXCEPT ![c] = Raw]
    BY <2>5, <2>6, HeldIs, HeldIsNext
  <2> QED
    BY <1>1, <2>4, <2>5, <2>7, EndsNothing, IsDrop
<1> QED
  BY <1>5, <1>6, <1>7, <1>8, <1>9, <1>10, <1>11 DEF ErrorOrStep

HandleType == [subscriber : BOOLEAN, id : Nat]
Sound(h) == h \in HandleType /\ (h.subscriber <=> h.id # 0)

\* What a handle holds
LEMMA HandleFacts ==
    ASSUME Inv, NEW c \in Handles
    PROVE  /\ Sound(mem.handles[c])
           /\ c \in StorageCells /\ c \notin Unions /\ c \notin ErrorOrCells
           /\ Lives(c) => Held[c] = << "handle", mem.handles[c].id >> /\ Held[c] # Raw
           /\ ~Lives(c) => Held[c] = Raw
<1>1. Sound(mem.handles[c])
  BY DEF Inv, HandlesInv, HandleType, Sound
<1>2. c \in StorageCells /\ c \notin Unions /\ c \notin ErrorOrCells
  BY CellsAssumption DEF StorageCells
<1>3. /\ Lives(c) => Held[c] = << "handle", mem.handles[c].id >>
      /\ ~Lives(c) => Held[c] = Raw
  BY <1>2, HeldIs DEF HeldOf, Lives
<1> QED
  BY <1>1, <1>2, <1>3 DEF Raw

\* What a scoped object unsubscribes from before it is assigned to or destroyed
Lost(c) == IF c \in ScopedCells \cap mem.living /\ mem.handles[c].subscriber
           THEN {mem.handles[c].id} ELSE {}

\* Nothing but the set of unsubscribed handles changes.
LEMMA Relinquishes ==
    ASSUME Inv, NEW c \in Handles
    PROVE  Relinquish(mem, c) =
             [tag |-> mem.tag, field |-> mem.field, results |-> mem.results,
              handles |-> mem.handles, living |-> mem.living, faults |-> mem.faults,
              unsubscribed |-> mem.unsubscribed \cup Lost(c), op |-> mem.op]
<1>1. CASE c \in ScopedCells \cap mem.living /\ mem.handles[c].subscriber
  <2>1. Lost(c) = {mem.handles[c].id}
    BY <1>1 DEF Lost
  <2> QED
    BY <1>1, <2>1, MemIs DEF Relinquish, Unsubscribe
<1>2. CASE ~(c \in ScopedCells \cap mem.living /\ mem.handles[c].subscriber)
  <2>1. Relinquish(mem, c) = mem
    BY <1>2 DEF Relinquish, Unsubscribe
  <2>2. mem.unsubscribed \cup Lost(c) = mem.unsubscribed
    BY <1>2 DEF Lost
  <2> QED
    BY <2>1, <2>2, MemIs
<1> QED
  BY <1>1, <1>2

\* A scoped object ends what it holds, unless it holds nothing.
LEMMA LosesWhatItHolds ==
    ASSUME Inv, NEW c \in Handles, mem'.unsubscribed = mem.unsubscribed \cup Lost(c)
    PROVE  Cells!Ends(c)
<1> DEFINE G(S) == { << "handle", n >> : n \in S }
           X == IF c \in ScopedCells THEN {Held[c]} \ {Raw, << "handle", 0 >>} ELSE {}
<1>1. G(Lost(c)) = X
  <2>1. CASE c \in ScopedCells /\ Lives(c)
    <3>1. Held[c] = << "handle", mem.handles[c].id >> /\ Held[c] # Raw
      BY <2>1, HandleFacts
    <3>2. mem.handles[c].subscriber <=> mem.handles[c].id # 0
      BY HandleFacts DEF Sound
    <3>3. CASE mem.handles[c].subscriber
      <4>1. Lost(c) = {mem.handles[c].id}
        BY <2>1, <3>3 DEF Lost, Lives
      <4>2. X = {<< "handle", mem.handles[c].id >>}
        BY <2>1, <3>1, <3>2, <3>3
      <4> QED
        BY <4>1, <4>2
    <3>4. CASE ~mem.handles[c].subscriber
      <4>1. Lost(c) = {}
        BY <3>4 DEF Lost
      <4>2. X = {}
        BY <3>1, <3>2, <3>4
      <4> QED
        BY <4>1, <4>2
    <3> QED
      BY <3>3, <3>4
  <2>2. CASE ~(c \in ScopedCells /\ Lives(c))
    <3>1. Lost(c) = {}
      BY <2>2 DEF Lost, Lives
    <3>2. X = {}
      BY <2>2, HandleFacts
    <3> QED
      BY <3>1, <3>2
  <2> QED
    BY <2>1, <2>2
<1>2. G(mem'.unsubscribed) = G(mem.unsubscribed) \cup G(Lost(c))
  OBVIOUS
<1>3. G(mem'.unsubscribed) = G(mem.unsubscribed) \cup X
  BY <1>1, <1>2
<1> QED
  BY <1>3 DEF Cells!Ends

\* An operation leaves c and d with the handles h and k.
WroteHandles(c, d, h, k, o) ==
    Written(mem.results, [mem.handles EXCEPT ![c] = h, ![d] = k], mem.living \cup {c},
            mem.unsubscribed \cup Lost(c), o)

\* Writing two handles preserves the invariant, and the others hold what they held.
LEMMA HandleWrites ==
    ASSUME Inv, NEW c \in Handles, NEW d \in Handles, NEW h, NEW k, Sound(h), Sound(k),
           c = d \/ Lives(d), NEW o, WroteHandles(c, d, h, k, o)
    PROVE  /\ Inv' /\ mem'.op = o /\ Cells!Ends(c)
           /\ Held' = [Held EXCEPT ![c] = << "handle", h.id >>, ![d] = << "handle", k.id >>]
<1> DEFINE H == [mem.handles EXCEPT ![c] = h, ![d] = k]
<1>1. /\ UnionsInv' /\ mem'.field = mem.field /\ mem'.results = mem.results /\ mem'.handles = H
      /\ mem'.living = mem.living \cup {c} /\ mem'.op = o
      /\ mem'.unsubscribed = mem.unsubscribed \cup Lost(c)
  BY UnionsKept DEF WroteHandles
<1>2. H \in [Handles -> HandleType]
  BY DEF Inv, HandlesInv, HandleType, Sound
<1>3. \A e \in Handles : H[e] = IF e = d THEN k ELSE IF e = c THEN h ELSE mem.handles[e]
  BY DEF Inv, HandlesInv
<1> HIDE DEF H
<1>4. Inv'
  BY <1>1, <1>2, <1>3, HandleFacts DEF Inv, ResultsInv, HandlesInv, HandleType, Sound
<1>5. /\ c \in StorageCells /\ d \in StorageCells /\ c \notin Unions /\ d \notin Unions
      /\ c \notin ErrorOrCells /\ d \notin ErrorOrCells
  BY HandleFacts
<1>6. HeldOf(mem') = [HeldOf(mem) EXCEPT ![c] = << "handle", h.id >>, ![d] = << "handle", k.id >>]
  BY <1>1, <1>3, <1>5, CellsAssumption DEF HeldOf, Lives, StorageCells
<1>7. Held' = [Held EXCEPT ![c] = << "handle", h.id >>, ![d] = << "handle", k.id >>]
  BY <1>4, <1>6, HeldIs, HeldIsNext
<1> QED
  BY <1>1, <1>4, <1>7, LosesWhatItHolds

\* A step that empties a scoped object, and ends nothing, is a Release of the cells.
LEMMA IsRelease ==
    ASSUME NEW c \in ScopedCells, c \in StorageCells, mem'.op = << "release", c >>,
           Held' = [Held EXCEPT ![c] = << "handle", 0 >>], mem'.unsubscribed = mem.unsubscribed
    PROVE  Cells!Next
<1>1. UNCHANGED { << "handle", n >> : n \in mem.unsubscribed }
  OBVIOUS
<1> QED
  BY <1>1 DEF Cells!Next, Cells!Release

\* Every operation on handles is one of the cells.
LEMMA HandleSteps ==
    ASSUME Inv, NEW c \in Handles, NEW d \in Handles, HandleStep(c, d)
    PROVE  Inv' /\ Cells!Next
<1> DEFINE m == [Relinquish(mem, c) EXCEPT !.living = @ \cup {c}]
           Becomes(h) == [m EXCEPT !.handles[c] = h]
<1>1. \A e \in {c, d} :
         /\ Sound(mem.handles[e]) /\ e \in StorageCells /\ e \notin Unions /\ e \notin ErrorOrCells
         /\ Lives(e) => Held[e] = << "handle", mem.handles[e].id >> /\ Held[e] # Raw
  BY HandleFacts
<1>2. mem.handles \in [Handles -> HandleType]
  BY DEF Inv, HandlesInv, HandleType
<1>3. m = [tag |-> mem.tag, field |-> mem.field, results |-> mem.results,
           handles |-> mem.handles, living |-> mem.living \cup {c}, faults |-> mem.faults,
           unsubscribed |-> mem.unsubscribed \cup Lost(c), op |-> mem.op]
  BY Relinquishes
<1> HIDE DEF m
<1>4. Sound(NoHandle) /\ NoHandle.id = 0
  BY DEF NoHandle, Sound, HandleType
<1>5. ASSUME NEW h, Sound(h), NEW o, Do(o, Becomes(h))
      PROVE  /\ Inv' /\ mem'.op = o /\ Cells!Ends(c)
             /\ Held' = [Held EXCEPT ![c] = << "handle", h.id >>]
  <2>1. [mem.handles EXCEPT ![c] = h] = [mem.handles EXCEPT ![c] = h, ![c] = h]
    BY <1>2
  <2>2. Written(mem.results, [mem.handles EXCEPT ![c] = h], mem.living \cup {c},
                mem.unsubscribed \cup Lost(c), o)
    BY <1>3, <1>5 DEF Do, Written
  <2>3. WroteHandles(c, c, h, h, o)
    BY <2>1, <2>2 DEF WroteHandles
  <2>4. /\ Inv' /\ mem'.op = o /\ Cells!Ends(c)
        /\ Held' = [Held EXCEPT ![c] = << "handle", h.id >>, ![c] = << "handle", h.id >>]
    BY <1>5, <2>3, HandleWrites
  <2> QED
    BY <2>4
<1>6. CASE \E n \in Contents : Do(<< "make", c, << "handle", n >> >>, Becomes(Handle(n)))
  <2>1. PICK n \in Contents : Do(<< "make", c, << "handle", n >> >>, Becomes(Handle(n)))
    BY <1>6
  <2>2. Sound(Handle(n)) /\ Handle(n).id = n /\ << "handle", n >> \in Putable
    BY ContentsAssumption DEF Handle, Sound, HandleType, Putable
  <2>3. /\ Inv' /\ mem'.op = << "make", c, << "handle", n >> >> /\ Cells!Ends(c)
        /\ Held' = [Held EXCEPT ![c] = << "handle", n >>]
    BY <1>5, <2>1, <2>2
  <2> QED
    BY <1>1, <2>2, <2>3, IsMake
<1>7. CASE Do(<< "make", c, << "handle", 0 >> >>, Becomes(NoHandle))
  <2>1. << "handle", 0 >> \in Putable
    BY DEF Putable
  <2>2. /\ Inv' /\ mem'.op = << "make", c, << "handle", 0 >> >> /\ Cells!Ends(c)
        /\ Held' = [Held EXCEPT ![c] = << "handle", 0 >>]
    BY <1>4, <1>5, <1>7
  <2> QED
    BY <1>1, <2>1, <2>2, IsMake
<1>8. CASE Lives(d) /\ Do(<< "copy", c, d >>, CopyHandle(m, c, d))
  <2>1. CopyHandle(m, c, d) = Becomes(mem.handles[d])
    BY <1>3 DEF CopyHandle
  <2>2. /\ Inv' /\ mem'.op = << "copy", c, d >> /\ Cells!Ends(c)
        /\ Held' = [Held EXCEPT ![c] = Held[d]]
    BY <1>1, <1>5, <1>8, <2>1
  <2> QED
    BY <1>1, <1>8, <2>2, IsCopy
<1>9. CASE Lives(d) /\ Do(<< "move", c, d >>, MoveHandle(m, c, d))
  <2>1. WroteHandles(c, d, mem.handles[d], NoHandle, << "move", c, d >>)
    BY <1>3, <1>9 DEF WroteHandles, Written, MoveHandle, Do
  <2>2. /\ Inv' /\ mem'.op = << "move", c, d >> /\ Cells!Ends(c)
        /\ Held' = [Held EXCEPT ![c] = << "handle", mem.handles[d].id >>,
                                ![d] = << "handle", NoHandle.id >>]
    BY <1>1, <1>4, <1>9, <2>1, HandleWrites
  <2>3. Held' = [Held EXCEPT ![c] = Held[d], ![d] = << "handle", 0 >>]
    BY <1>1, <1>4, <1>9, <2>2
  <2>4. Left(Held[d]) = {<< "handle", 0 >>}
    BY <1>1, <1>9 DEF Left, VariantTypes, OutcomeTypes
  <2>5. << "handle", 0 >> \in Left(Held[d]) \cup (IF c = d THEN {Held[d]} ELSE {})
    BY <2>4
  <2> QED
    BY <1>1, <1>9, <2>2, <2>3, <2>5, IsMove
<1>10. CASE Lives(c) /\ c \in ScopedCells /\ Do(<< "release", c >>, [mem EXCEPT !.handles[c] = NoHandle])
  <2> DEFINE H == [mem.handles EXCEPT ![c] = NoHandle]
  <2>1. Written(mem.results, H, mem.living, mem.unsubscribed, << "release", c >>)
    BY <1>10, MemIs DEF Do, Written
  <2>2. /\ H \in [Handles -> HandleType]
        /\ \A e \in Handles : H[e] = IF e = c THEN NoHandle ELSE mem.handles[e]
    BY <1>2, <1>4 DEF Sound
  <2> HIDE DEF H
  <2>3. /\ UnionsInv' /\ mem'.field = mem.field /\ mem'.results = mem.results /\ mem'.handles = H
        /\ mem'.living = mem.living /\ mem'.unsubscribed = mem.unsubscribed
        /\ mem'.op = << "release", c >>
    BY <2>1, UnionsKept
  <2>4. Inv'
    BY <1>4, <2>2, <2>3, HandleFacts DEF Inv, ResultsInv, HandlesInv, HandleType, Sound
  <2>5. HeldOf(mem') = [HeldOf(mem) EXCEPT ![c] = << "handle", 0 >>]
    BY <1>1, <1>4, <1>10, <2>2, <2>3 DEF HeldOf, StorageCells, Lives
  <2>6. Held' = [Held EXCEPT ![c] = << "handle", 0 >>]
    BY <2>4, <2>5, HeldIs, HeldIsNext
  <2> QED
    BY <1>1, <1>10, <2>3, <2>4, <2>6, IsRelease
<1>11. CASE Lives(c) /\ Do(<< "drop", c >>, [Becomes(NoHandle) EXCEPT !.living = @ \ {c}])
  <2> DEFINE H == [mem.handles EXCEPT ![c] = NoHandle]
             L == (mem.living \cup {c}) \ {c}
  <2>1. Written(mem.results, H, L, mem.unsubscribed \cup Lost(c), << "drop", c >>)
    BY <1>3, <1>11 DEF Do, Written
  <2>2. /\ H \in [Handles -> HandleType]
        /\ \A e \in Handles : H[e] = IF e = c THEN NoHandle ELSE mem.handles[e]
    BY <1>2, <1>4 DEF Sound
  <2> HIDE DEF H
  <2>3. /\ UnionsInv' /\ mem'.field = mem.field /\ mem'.results = mem.results /\ mem'.handles = H
        /\ mem'.living = L /\ mem'.unsubscribed = mem.unsubscribed \cup Lost(c)
        /\ mem'.op = << "drop", c >>
    BY <2>1, UnionsKept
  <2>4. Inv'
    BY <1>4, <2>2, <2>3, HandleFacts DEF Inv, ResultsInv, HandlesInv, HandleType, Sound
  <2>5. HeldOf(mem') = [HeldOf(mem) EXCEPT ![c] = Raw]
    BY <1>1, <2>2, <2>3 DEF HeldOf, StorageCells
  <2>6. Held' = [Held EXCEPT ![c] = Raw]
    BY <2>4, <2>5, HeldIs, HeldIsNext
  <2> QED
    BY <1>1, <2>3, <2>4, <2>6, LosesWhatItHolds, IsDrop
<1> QED
  BY <1>6, <1>7, <1>8, <1>9, <1>10, <1>11 DEF HandleStep, m

-----------------------------------------------------------------------------
(* The storage implements the cells *)

\* At first there are no objects, and the cells are empty.
LEMMA Starts == StorageInit => Inv /\ Cells!Init
<1> SUFFICES ASSUME StorageInit PROVE Inv /\ Cells!Init
  OBVIOUS
<1>1. /\ mem.tag = [c \in Places |-> Dead] /\ mem.field = [c \in Places |-> Raw]
      /\ mem.results = [c \in ErrorOrCells |-> OfValue(0)]
      /\ mem.handles = [c \in Handles |-> NoHandle]
      /\ mem.living = {} /\ mem.faults = {} /\ mem.unsubscribed = {} /\ mem.op = << >>
  BY DEF StorageInit
<1>2. Typed(mem)
  BY <1>1, FieldFacts DEF StorageInit, Typed, Tags
<1>3. \A c \in Places : Gone(mem, c)
  BY <1>1 DEF Gone
<1>4. UnionsInv
  BY <1>1, <1>2, <1>3 DEF UnionsInv, Places, Unions
<1>5. ResultsInv /\ HandlesInv
  BY <1>1 DEF ResultsInv, HandlesInv, OfValue, NoHandle, Indeterminate
<1>6. Inv
  BY <1>4, <1>5 DEF Inv
<1>7. HeldOf(mem) = [c \in StorageCells |-> Raw]
  BY <1>1 DEF HeldOf, StorageCells, Unions, Places
<1>8. Held = [c \in StorageCells |-> Raw]
  BY <1>6, <1>7, HeldIs
<1>9. { << "handle", n >> : n \in mem.unsubscribed } = {}
  BY <1>1
<1>10. Cells!Init
  BY <1>1, <1>8, <1>9 DEF Cells!Init
<1> QED
  BY <1>6, <1>10

\* Every operation preserves the invariant, and is one of the cells.
LEMMA Steps == Inv /\ (\E class \in Classes : StorageNext(class)) => Inv' /\ Cells!Next
<1> SUFFICES ASSUME Inv, NEW class \in Classes, StorageNext(class) PROVE Inv' /\ Cells!Next
  OBVIOUS
<1>1. CASE \E c \in VariantCells, d \in VariantCells : VariantStep(c, d)
  BY <1>1, VariantSteps
<1>2. CASE \E c \in OutcomeCells, d \in OutcomeCells : OutcomeStep(c, d)
  BY <1>2, OutcomeSteps
<1>3. CASE \E c \in ErrorOrCells, d \in ErrorOrCells : ErrorOrStep(c, d)
  BY <1>3, ErrorOrSteps
<1>4. CASE \E c \in Handles, d \in Handles : HandleStep(c, d)
  BY <1>4, HandleSteps
<1> QED
  BY <1>1, <1>2, <1>3, <1>4 DEF StorageNext

\* A step that leaves the memory alone leaves the cells alone.
LEMMA Stutters ==
    UNCHANGED mem => UNCHANGED << Held, { << "handle", n >> : n \in mem.unsubscribed }, mem.op >>
  BY DEF Held, HeldByUnion, Lives, Alive

\* No operation on a Variant, an Outcome, an ErrorOr or a handle, and no sequence
\* of them, ever constructs over a live object, destroys what is not there, reads
\* a union as another type, or leaves a temporary object behind; and a handle has a
\* subscriber if and only if it has an ID (variant.ipp, peerdata.ipp, erroror.hpp,
\* subscription.ipp, registration.ipp).
THEOREM StorageIsSound == StorageSpec => []Inv
<1>1. StorageInit => Inv
  BY Starts
<1>2. Inv /\ [\E class \in Classes : StorageNext(class)]_mem => Inv'
  <2>1. Inv /\ (\E class \in Classes : StorageNext(class)) => Inv'
    BY Steps
  <2>2. Inv /\ UNCHANGED mem => Inv'
    BY DEF Inv, UnionsInv, ResultsInv, HandlesInv
  <2> QED
    BY <2>1, <2>2
<1> QED
  BY <1>1, <1>2, PTL DEF StorageSpec

\* Every operation on the objects does what the cells' operation of its name does,
\* for any objects of each class and any contents: the storage implements plain
\* cells of values (variant.ipp, peerdata.ipp, erroror.hpp, subscription.ipp,
\* registration.ipp).
THEOREM StorageImplementsCells == StorageSpec => ImplementsValueCells
<1>1. StorageInit => Cells!Init
  BY Starts
<1>2. Inv /\ [\E class \in Classes : StorageNext(class)]_mem
        => [Cells!Next]_<< Held, { << "handle", n >> : n \in mem.unsubscribed }, mem.op >>
  BY Steps, Stutters
<1> QED
  BY <1>1, <1>2, StorageIsSound, PTL DEF StorageSpec, ImplementsValueCells, Cells!Spec

-----------------------------------------------------------------------------
(* The frame header *)

\* A frame of any type and length, not only of those about the limit
AnyFrame ==
    \/ \E t \in {wamp, ping, pong}, n \in Nat : Send(t, n)
    \/ \E t \in 0 .. 255, n \in Nat : ForeignSend(t, n)
    \/ processHeader

HeaderSpec == HeaderInit /\ [][AnyFrame]_headerVars

\* A header on its way holds the type and the length that were sent, as long as
\* the length fits.
HeaderInv ==
    /\ limit \in Int
    /\ sent.type \in Nat /\ sent.length \in Nat /\ sent = [type |-> sent.type, length |-> sent.length]
    /\ stage = "sent" /\ sent.length < 2^24 => header = sent.type * 2^24 + sent.length
    /\ FrameSurvives

\* The two parts of a header are read as they were put in.
LEMMA HeaderParts ==
    \A t, n \in Nat : n < 2^24 => /\ Length(t * 2^24 + n) = n /\ MsgType(t * 2^24 + n) = t
                                  /\ t \in 0 .. 2 => Header(t, n) = t * 2^24 + n
<1>1. 2^24 = 16777216
  OBVIOUS
<1> QED
  BY <1>1 DEF Length, MsgType, Header

\* A frame that fits the header (the type in its eight bits, the length in its 24)
\* is read as the frame that was sent, and is refused only for a length above the
\* receiver's limit or for a type that does not exist, whatever its type and
\* length (RawsockHeader, RawsockTransport::processHeader).
THEOREM FramesSurvive == HeaderSpec => []FrameSurvives
<1>1. HeaderInit => HeaderInv
  <2> SUFFICES ASSUME HeaderInit PROVE HeaderInv
    OBVIOUS
  <2>1. PICK l \in Limits : limit = 2^(l + 9)
    BY DEF HeaderInit, byteLengthOf
  <2>2. l + 9 \in Nat
    BY LimitsAssumption
  <2>3. \A k \in Nat : 2^k \in Int
    OBVIOUS
  <2>4. limit \in Int
    BY <2>1, <2>2, <2>3
  <2> QED
    BY <2>4 DEF HeaderInit, HeaderInv, FrameSurvives, NoResult
<1>2. HeaderInv /\ [AnyFrame]_headerVars => HeaderInv'
  <2> SUFFICES ASSUME HeaderInv, [AnyFrame]_headerVars PROVE HeaderInv'
    OBVIOUS
  <2>1. ASSUME NEW t \in {wamp, ping, pong}, NEW n \in Nat, Send(t, n) PROVE HeaderInv'
    <3>1. t \in Nat /\ t \in 0 .. 2
      BY DEF wamp, ping, pong
    <3>2. n < 2^24 => header' = t * 2^24 + n
      BY <2>1, <3>1, HeaderParts DEF Send
    <3> QED
      BY <2>1, <3>1, <3>2 DEF Send, HeaderInv, FrameSurvives
  <2>2. ASSUME NEW t \in 0 .. 255, NEW n \in Nat, ForeignSend(t, n) PROVE HeaderInv'
    BY <2>2 DEF ForeignSend, HeaderInv, FrameSurvives
  <2>3. ASSUME processHeader PROVE HeaderInv'
    <3>1. sent.length < 2^24 => Length(header) = sent.length /\ MsgType(header) = sent.type
      BY <2>3, HeaderParts DEF processHeader, HeaderInv
    <3>2. CASE Accepts(header, limit)
      BY <2>3, <3>1, <3>2 DEF processHeader, Accepts, HeaderInv, FrameSurvives
    <3>3. CASE ~Accepts(header, limit)
      BY <2>3, <3>1, <3>3 DEF processHeader, Accepts, msgTypeIsValid, HeaderInv, FrameSurvives
    <3> QED
      BY <3>2, <3>3
  <2>4. CASE UNCHANGED headerVars
    BY <2>4 DEF headerVars, HeaderInv, FrameSurvives
  <2> QED
    BY <2>1, <2>2, <2>3, <2>4 DEF AnyFrame
<1>3. HeaderInv => FrameSurvives
  BY DEF HeaderInv
<1> QED
  BY <1>1, <1>2, <1>3, PTL DEF HeaderSpec

-----------------------------------------------------------------------------
(* The least number of a set, for induction by the least counterexample *)

\* A set of natural numbers that is not empty has a least one: the first
\* failure of a loop of the code, and the smallest counterexample of a proof.
LEMMA LeastOf ==
    ASSUME NEW S, S \subseteq Nat, S # {}
    PROVE  \E m \in S : \A n \in S : m <= n
<1> DEFINE R == OpToRel(<, Nat)
<1>1. IsWellFoundedOn(R, Nat)
  BY NatLessThanWellFounded
<1>2. \A m, n \in Nat : n < m => << n, m >> \in R
  BY DEF OpToRel
<1> HIDE DEF R
<1>3. PICK m \in S : \A n \in S : ~(<< n, m >> \in R)
  BY <1>1, WFMin
<1>4. \A n \in S : ~(n < m)
  BY <1>2, <1>3
<1> QED
  BY <1>3, <1>4

-----------------------------------------------------------------------------
(* Argument unpacking *)

\* Results of conversions, each of which succeeds or throws
ConversionResults(results) == \A i \in DOMAIN results : results[i][1] = "ok" \/ results[i] \in {Conversion, Access}

\* A loop of conversions stops at the first one that throws: what is thrown is
\* one of the two errors, or else all have succeeded.
LEMMA GatherFails ==
    ASSUME NEW n \in Nat, NEW results, DOMAIN results = 1 .. n, ConversionResults(results)
    PROVE  LET r == Gather(results, InOrder)
           IN \/ /\ r = Ok([i \in 1 .. n |-> results[i][2]])
                 /\ \A i \in 1 .. n : results[i][1] = "ok"
              \/ r \in {Conversion, Access} /\ \E i \in 1 .. n : results[i][1] # "ok"
<1> DEFINE failed == { i \in DOMAIN results : results[i][1] # "ok" }
           least == CHOOSE i \in failed : \A j \in failed : i <= j
<1>1. CASE failed = {}
  BY <1>1 DEF Gather, InOrder
<1>2. CASE failed # {}
  <2>1. \E i \in failed : \A j \in failed : i <= j
    <3>1. failed \subseteq Nat
      OBVIOUS
    <3> HIDE DEF failed
    <3> QED
      BY <1>2, <3>1, LeastOf
  <2>2. least \in failed
    BY <2>1
  <2>3. Gather(results, InOrder) = results[least]
    BY <1>2 DEF Gather
  <2> HIDE DEF least
  <2>4. results[least] \in {Conversion, Access} /\ results[least][1] # "ok"
    BY <2>2 DEF ConversionResults
  <2> QED
    BY <2>2, <2>3, <2>4
<1> QED
  BY <1>1, <1>2

\* convertTo throws nothing but the two errors, and moveTo, where it succeeds,
\* gives what convertTo gives.
LEMMA ConversionsGathered ==
    ASSUME NEW Vs, NEW Ts, \A T \in Ts, v \in Vs : Converts(T, v),
           NEW args \in Seq(Vs), NEW types \in Seq(Ts)
    PROVE  LET values == convertTo(args, types)
               moved == moveTo(args, types)
           IN /\ moved[1] = "ok" => moved = values
              /\ values[1] # "ok" => values \in {Conversion, Access}
<1> DEFINE n == Least(Len(args), Len(types))
           to == [i \in 1 .. n |-> ConvertTo(types[i], args[i])]
           Field(v, T) == IF T[1] \in Scalars /\ T[1] # "narrow" /\ FieldType(T) = v[1]
                            THEN Ok(v[2]) ELSE Access
           move == [i \in 1 .. n |-> Field(args[i], types[i])]
<1>1. n \in Nat /\ \A i \in 1 .. n : args[i] \in Vs /\ types[i] \in Ts
  BY DEF Least
<1>2. convertTo(args, types) = Gather(to, InOrder)
  BY DEF convertTo
<1>3. moveTo(args, types) = Gather(move, InOrder)
  BY DEF moveTo
<1>4. DOMAIN to = 1 .. n /\ DOMAIN move = 1 .. n
  OBVIOUS
<1>5. ConversionResults(to)
  BY <1>1 DEF ConversionResults, Converts
<1>6. ConversionResults(move)
  BY DEF ConversionResults, Ok
<1>7. \A i \in 1 .. n : move[i][1] = "ok" => move[i] = to[i]
  <2> SUFFICES ASSUME NEW i \in 1 .. n, move[i][1] = "ok" PROVE move[i] = to[i]
    OBVIOUS
  <2>1. types[i][1] \in Scalars /\ types[i][1] # "narrow" /\ FieldType(types[i]) = args[i][1] /\ move[i] = Ok(args[i][2])
    BY DEF Access
  <2>2. to[i] = ToScalar(types[i], args[i])
    BY <1>1, <2>1 DEF Converts
  <2>3. ToScalar(types[i], args[i]) = Ok(args[i][2])
    BY <2>1 DEF ToScalar
  <2> QED
    BY <2>1, <2>2, <2>3
<1> HIDE DEF n, to, move
<1>8. \/ Gather(to, InOrder) = Ok([i \in 1 .. n |-> to[i][2]]) /\ (\A i \in 1 .. n : to[i][1] = "ok")
      \/ Gather(to, InOrder) \in {Conversion, Access} /\ \E i \in 1 .. n : to[i][1] # "ok"
  BY <1>1, <1>4, <1>5, GatherFails
<1>9. \/ Gather(move, InOrder) = Ok([i \in 1 .. n |-> move[i][2]]) /\ (\A i \in 1 .. n : move[i][1] = "ok")
      \/ Gather(move, InOrder) \in {Conversion, Access} /\ \E i \in 1 .. n : move[i][1] # "ok"
  BY <1>1, <1>4, <1>6, GatherFails
<1>10. Ok(1)[1] = "ok" /\ Conversion[1] # "ok" /\ Access[1] # "ok" /\ \A x : Ok(x)[1] = "ok"
  BY DEF Ok, Conversion, Access
<1>11. Gather(move, InOrder)[1] = "ok" => Gather(move, InOrder) = Gather(to, InOrder)
  <2> SUFFICES ASSUME Gather(move, InOrder)[1] = "ok" PROVE Gather(move, InOrder) = Gather(to, InOrder)
    OBVIOUS
  <2>1. \A i \in 1 .. n : move[i][1] = "ok" /\ move[i] = to[i]
    BY <1>7, <1>9, <1>10
  <2>2. [i \in 1 .. n |-> move[i][2]] = [i \in 1 .. n |-> to[i][2]]
    BY <2>1
  <2> QED
    BY <1>8, <1>9, <1>10, <2>1, <2>2
<1> QED
  BY <1>2, <1>3, <1>8, <1>10, <1>11

\* Arguments of any number, for slots of any number of types of any kind:
\* messages with arguments that are too few or do not convert never reach a slot,
\* and are answered, logged or dropped, whichever wrapper the slot is in.
THEOREM BadArgumentsAlwaysAnswered ==
    ASSUME NEW Vs, NEW Ts, \A T \in Ts, v \in Vs : Converts(T, v),
           NEW args \in Seq(Vs), NEW types \in Seq(Ts),
           input = << "arguments", args, types >>
    PROVE  BadArgumentsAnswered
<1> DEFINE values == convertTo(args, types)
           moved == moveTo(args, types)
<1>1. /\ moved[1] = "ok" => moved = values
      /\ values[1] # "ok" => values \in {Conversion, Access}
  BY ConversionsGathered
<1>2. Len(args) \in Nat /\ Len(types) \in Nat
  OBVIOUS
<1>3. ASSUME NEW w \in Wrappers, NEW slot \in Slots, Possible(w, slot)
      PROVE  LET d == Deliver(w, args, types, slot)
             IN /\ d.called <=> Len(args) >= Len(types) /\ values[1] = "ok"
                /\ d.called => d.values = values[2]
                /\ ~d.called => d.ends \in IF w.rpc THEN {InvalidArgument} ELSE {"warned", "dropped"}
                /\ d.ends = "escapes" => d.called /\ w.coro /\ ~w.rpc /\ slot = "Error"
  <2> DEFINE call == Unpacked(w, args, types, slot)
             ok == ~TooFew(args, types) /\ values[1] = "ok"
  <2>1. ok <=> Len(args) >= Len(types) /\ values[1] = "ok"
    BY <1>2 DEF TooFew
  <2>2. call = IF w.coro THEN Spawned(args, types, slot, w.rpc) ELSE Invoked(args, types, slot)
    <3>1. w = [coro |-> w.coro, rpc |-> w.rpc, simple |-> w.simple] /\ w.coro \in BOOLEAN /\ w.rpc \in BOOLEAN /\ w.simple \in BOOLEAN
      BY DEF Wrappers
    <3>2. ASSUME NEW coro \in BOOLEAN, NEW rpc \in BOOLEAN, NEW simple \in BOOLEAN
          PROVE  Unpacked([coro |-> coro, rpc |-> rpc, simple |-> simple], args, types, slot) =
                    IF coro THEN Spawned(args, types, slot, rpc) ELSE Invoked(args, types, slot)
      BY DEF Unpacked, EventUnpacker, SimpleEventUnpacker, InvocationUnpacker, SimpleInvocationUnpacker,
         CoroEventUnpacker, SimpleCoroEventUnpacker, CoroInvocationUnpacker, SimpleCoroInvocationUnpacker
    <3> QED
      BY <3>1, <3>2
  <2>3. CASE ~w.coro
    <3>1. call = IF ok THEN Called(values[2], slot)
                 ELSE NotCalled(IF TooFew(args, types) THEN InvalidArgument ELSE UnpackError(values))
      BY <2>2, <2>3 DEF Invoked
    <3>2. ~ok /\ ~TooFew(args, types) => UnpackError(values) \in {InvalidArgument, "Access"}
      BY <1>1 DEF UnpackError, Conversion, Access
    <3>3. ~call.spawned
      BY <3>1 DEF Called, NotCalled
    <3>4. Deliver(w, args, types, slot) = [call EXCEPT !.ends = IF w.rpc THEN postRpcRequest(@) ELSE postEvent(@)]
      BY <3>3 DEF Deliver, Wrappers
    <3> HIDE DEF call, ok
    <3>5. CASE ok
      <4>1. Deliver(w, args, types, slot) =
               [called |-> TRUE, values |-> values[2], spawned |-> FALSE,
                ends |-> IF w.rpc THEN postRpcRequest(slot) ELSE postEvent(slot)]
        BY <3>1, <3>4, <3>5 DEF Called
      <4>2. postRpcRequest(slot) # "escapes" /\ postEvent(slot) # "escapes"
        BY DEF postRpcRequest, postEvent, Slots, BadType, InvalidArgument, UserError
      <4> QED
        BY <4>1, <4>2, <3>5, <2>1
    <3>6. CASE ~ok
      <4> DEFINE why == IF TooFew(args, types) THEN InvalidArgument ELSE UnpackError(values)
      <4>1. Deliver(w, args, types, slot) =
               [called |-> FALSE, values |-> << >>, spawned |-> FALSE,
                ends |-> IF w.rpc THEN postRpcRequest(why) ELSE postEvent(why)]
        BY <3>1, <3>4, <3>6 DEF NotCalled
      <4>2. why \in {InvalidArgument, "Access"}
        BY <3>2, <3>6 DEF ok
      <4>3. postRpcRequest(why) = InvalidArgument /\ postEvent(why) = "warned"
        BY <4>2 DEF postRpcRequest, postEvent, BadType, InvalidArgument
      <4> HIDE DEF why
      <4> QED
        BY <4>1, <4>3, <3>6, <2>1 DEF InvalidArgument
    <3> QED
      BY <3>5, <3>6
  <2>4. CASE w.coro
    <3>1. call = Spawned(args, types, slot, w.rpc)
      BY <2>2, <2>4
    <3>2. CASE TooFew(args, types)
      <4>1. call = NotCalled(InvalidArgument) /\ ~call.spawned
        BY <3>1, <3>2 DEF Spawned, NotCalled
      <4>2. Deliver(w, args, types, slot) = [call EXCEPT !.ends = IF w.rpc THEN postRpcRequest(@) ELSE postEvent(@)]
        BY <4>1 DEF Deliver, Wrappers
      <4> HIDE DEF call
      <4>3. Deliver(w, args, types, slot) =
               [called |-> FALSE, values |-> << >>, spawned |-> FALSE,
                ends |-> IF w.rpc THEN postRpcRequest(InvalidArgument) ELSE postEvent(InvalidArgument)]
        BY <4>1, <4>2 DEF NotCalled
      <4>4. postRpcRequest(InvalidArgument) = InvalidArgument /\ postEvent(InvalidArgument) = "warned"
        BY DEF postRpcRequest, postEvent, BadType, InvalidArgument
      <4> QED
        BY <4>3, <4>4, <3>2, <2>1 DEF InvalidArgument
    <3>3. CASE ~TooFew(args, types) /\ values[1] = "ok"
      <4>1. call = [called |-> TRUE, values |-> values[2], spawned |-> TRUE,
                    ends |-> IF w.rpc THEN RpcCoroEnd(slot) ELSE EventCoroEnd(slot)]
        BY <3>1, <3>3 DEF Spawned, Called
      <4>2. Deliver(w, args, types, slot) = call
        BY <4>1 DEF Deliver
      <4> HIDE DEF call
      <4>3. RpcCoroEnd(slot) # "escapes" /\ (EventCoroEnd(slot) = "escapes" => slot = "Error")
        BY DEF RpcCoroEnd, EventCoroEnd, Slots, BadType, InvalidArgument, UserError
      <4> QED
        BY <4>1, <4>2, <4>3, <3>3, <2>1, <2>4
    <3>4. CASE ~TooFew(args, types) /\ values[1] # "ok"
      <4>1. call = [called |-> FALSE, values |-> << >>, spawned |-> TRUE,
                    ends |-> IF w.rpc THEN RpcCoroEnd(values[1]) ELSE EventCoroEnd(values[1])]
        BY <3>1, <3>4 DEF Spawned, NotCalled
      <4>2. Deliver(w, args, types, slot) = call
        BY <4>1 DEF Deliver
      <4> HIDE DEF call
      <4>3. RpcCoroEnd(values[1]) = InvalidArgument /\ EventCoroEnd(values[1]) = "dropped"
        BY <1>1, <3>4 DEF RpcCoroEnd, EventCoroEnd, BadType, Conversion, Access
      <4> QED
        BY <4>1, <4>2, <4>3, <3>4, <2>1 DEF InvalidArgument
    <3> QED
      BY <3>2, <3>3, <3>4
  <2>5. w.coro \in BOOLEAN
    BY DEF Wrappers
  <2> QED
    BY <2>3, <2>4, <2>5
<1>4. input[1] = "arguments" /\ input[2] = args /\ input[3] = types
  OBVIOUS
<1> HIDE DEF values, moved
<1> QED
  BY <1>1, <1>3, <1>4 DEF BadArgumentsAnswered, values, moved

-----------------------------------------------------------------------------
(* Orders *)

\* rel is a strict weak order on S: asymmetric, and what is between is
\* comparable with one of the two.
StrictWeak(S, rel) ==
    \A x, y, z \in S :
        /\ ~(<< x, y >> \in rel /\ << y, x >> \in rel)
        /\ << x, z >> \in rel => << x, y >> \in rel \/ << y, z >> \in rel

\* Of two elements of S at most one is before the other.
Asymmetric(S, rel) == \A x, y \in S : ~(<< x, y >> \in rel /\ << y, x >> \in rel)

\* One of the two is before the other.
Apart(x, y, rel) == << x, y >> \in rel \/ << y, x >> \in rel

\* What a strict weak order has for three of its elements: it is transitive, and
\* so is being equivalent under it.
LEMMA OrderFacts ==
    ASSUME NEW S, NEW rel, StrictWeak(S, rel), NEW x \in S, NEW y \in S, NEW z \in S
    PROVE  /\ << x, y >> \in rel /\ << y, z >> \in rel => << x, z >> \in rel
           /\ << x, y >> \in rel /\ ~Apart(y, z, rel) => << x, z >> \in rel
           /\ ~Apart(x, y, rel) /\ << y, z >> \in rel => << x, z >> \in rel
           /\ ~Apart(x, y, rel) /\ ~Apart(y, z, rel) => ~Apart(x, z, rel)
           /\ ~Apart(x, x, rel)
  BY DEF StrictWeak, Apart

\* LexLess for an order that is a set of pairs
Before(s, t, rel) ==
    \E n \in 0 .. Len(s) :
        /\ n <= Len(t)
        /\ \A i \in 1 .. n : ~Apart(s[i], t[i], rel)
        /\ n < Len(t) /\ (n = Len(s) \/ << s[n+1], t[n+1] >> \in rel)

\* Sequences of which neither is before the other, element by element
Alike(s, t, rel) == Len(s) = Len(t) /\ \A i \in 1 .. Len(s) : ~Apart(s[i], t[i], rel)

\* Of two sequences at most one comes before the other.
LEMMA BeforeAsym ==
    ASSUME NEW S, NEW rel, Asymmetric(S, rel), NEW s \in Seq(S), NEW t \in Seq(S)
    PROVE  ~(Before(s, t, rel) /\ Before(t, s, rel))
<1> SUFFICES ASSUME Before(s, t, rel), Before(t, s, rel) PROVE FALSE
  OBVIOUS
<1>1. PICK n \in 0 .. Len(s) : /\ n <= Len(t)
                               /\ \A i \in 1 .. n : ~Apart(s[i], t[i], rel)
                               /\ n < Len(t) /\ (n = Len(s) \/ << s[n+1], t[n+1] >> \in rel)
  BY DEF Before
<1>2. PICK m \in 0 .. Len(t) : /\ m <= Len(s)
                               /\ \A i \in 1 .. m : ~Apart(t[i], s[i], rel)
                               /\ m < Len(s) /\ (m = Len(t) \/ << t[m+1], s[m+1] >> \in rel)
  BY DEF Before
<1>3. Len(s) \in Nat /\ Len(t) \in Nat
  OBVIOUS
<1>4. CASE n < m
  <2>1. n + 1 \in 1 .. m /\ n # Len(s)
    BY <1>1, <1>2, <1>3, <1>4
  <2> QED
    BY <1>1, <1>2, <2>1 DEF Apart
<1>5. CASE m < n
  <2>1. m + 1 \in 1 .. n /\ m # Len(t)
    BY <1>1, <1>2, <1>3, <1>5
  <2> QED
    BY <1>1, <1>2, <2>1 DEF Apart
<1>6. CASE n = m
  <2>1. n # Len(s) /\ n # Len(t) /\ n + 1 \in 1 .. Len(s) /\ n + 1 \in 1 .. Len(t)
    BY <1>1, <1>2, <1>3, <1>6
  <2>2. s[n+1] \in S /\ t[n+1] \in S
    BY <2>1
  <2>3. << s[n+1], t[n+1] >> \in rel /\ << t[n+1], s[n+1] >> \in rel
    BY <1>1, <1>2, <1>6, <2>1
  <2> DEFINE a == s[n+1]
             b == t[n+1]
  <2>4. a \in S /\ b \in S /\ << a, b >> \in rel /\ << b, a >> \in rel
    BY <2>2, <2>3
  <2> HIDE DEF a, b
  <2> QED
    BY <2>4 DEF Asymmetric
<1> QED
  BY <1>1, <1>2, <1>3, <1>4, <1>5, <1>6

\* A strict weak order is asymmetric.
LEMMA WeakIsAsym ==
    ASSUME NEW S, NEW rel, StrictWeak(S, rel)
    PROVE  Asymmetric(S, rel)
  BY DEF StrictWeak, Asymmetric

\* The first place where two sequences differ, or one of them ends, decides
\* which comes first.  There is a first place as there is a least number.
LEMMA BeforeTotal ==
    ASSUME NEW S, NEW rel, StrictWeak(S, rel), NEW s \in Seq(S), NEW t \in Seq(S)
    PROVE  Before(s, t, rel) \/ Before(t, s, rel) \/ Alike(s, t, rel)
<1> DEFINE Ends(k) == k = Len(s) \/ k = Len(t) \/ Apart(s[k+1], t[k+1], rel)
           K == { k \in Nat : Ends(k) }
<1>1. Len(s) \in Nat /\ Len(t) \in Nat
  OBVIOUS
<1>2. K \subseteq Nat /\ Len(s) \in K /\ Len(t) \in K
  BY <1>1
<1>3. K # {}
  BY <1>2
<1> HIDE DEF K
<1>4. PICK k \in K : \A j \in K : k <= j
  BY <1>2, <1>3, LeastOf
<1>5. k \in Nat /\ Ends(k) /\ \A j \in Nat : j < k => ~Ends(j)
  BY <1>4 DEF K
<1>6. k <= Len(s) /\ k <= Len(t)
  BY <1>2, <1>4
<1>7. \A i \in 1 .. k : ~Apart(s[i], t[i], rel) /\ ~Apart(t[i], s[i], rel)
  <2> SUFFICES ASSUME NEW i \in 1 .. k PROVE ~Apart(s[i], t[i], rel) /\ ~Apart(t[i], s[i], rel)
    OBVIOUS
  <2>1. i - 1 \in Nat /\ i - 1 < k /\ (i - 1) + 1 = i
    BY <1>5
  <2>2. ~Ends(i - 1)
    BY <1>5, <2>1
  <2>3. ~Apart(s[i], t[i], rel)
    BY <2>1, <2>2
  <2> QED
    BY <2>3 DEF Apart
<1>8. CASE k = Len(s) /\ k = Len(t)
  BY <1>7, <1>8 DEF Alike
<1>9. CASE k = Len(s) /\ k # Len(t)
  <2>1. k \in 0 .. Len(s) /\ k < Len(t)
    BY <1>1, <1>5, <1>6, <1>9
  <2> QED
    BY <1>6, <1>7, <1>9, <2>1 DEF Before
<1>10. CASE k # Len(s) /\ k = Len(t)
  <2>1. k \in 0 .. Len(t) /\ k < Len(s)
    BY <1>1, <1>5, <1>6, <1>10
  <2> QED
    BY <1>6, <1>7, <1>10, <2>1 DEF Before
<1>11. CASE k # Len(s) /\ k # Len(t)
  <2>1. k \in 0 .. Len(t) /\ k \in 0 .. Len(s) /\ k < Len(s) /\ k < Len(t)
    BY <1>1, <1>5, <1>6, <1>11
  <2>2. << s[k+1], t[k+1] >> \in rel \/ << t[k+1], s[k+1] >> \in rel
    BY <1>5, <1>11 DEF Apart
  <2>3. CASE << s[k+1], t[k+1] >> \in rel
    BY <1>6, <1>7, <2>1, <2>3 DEF Before
  <2>4. CASE << t[k+1], s[k+1] >> \in rel
    BY <1>6, <1>7, <2>1, <2>4 DEF Before
  <2> QED
    BY <2>2, <2>3, <2>4
<1> QED
  BY <1>8, <1>9, <1>10, <1>11

\* One after the other: the first difference of the two decides.
LEMMA BeforeTransitive ==
    ASSUME NEW S, NEW rel, StrictWeak(S, rel), NEW s \in Seq(S), NEW t \in Seq(S), NEW u \in Seq(S),
           Before(s, t, rel), Before(t, u, rel)
    PROVE  Before(s, u, rel)
<1>1. PICK n \in 0 .. Len(s) : /\ n <= Len(t)
                               /\ \A i \in 1 .. n : ~Apart(s[i], t[i], rel)
                               /\ n < Len(t) /\ (n = Len(s) \/ << s[n+1], t[n+1] >> \in rel)
  BY DEF Before
<1>2. PICK m \in 0 .. Len(t) : /\ m <= Len(u)
                               /\ \A i \in 1 .. m : ~Apart(t[i], u[i], rel)
                               /\ m < Len(u) /\ (m = Len(t) \/ << t[m+1], u[m+1] >> \in rel)
  BY DEF Before
<1>3. Len(s) \in Nat /\ Len(t) \in Nat /\ Len(u) \in Nat
  OBVIOUS
<1> DEFINE k == IF n < m THEN n ELSE m
<1>4. k \in 0 .. Len(s) /\ k <= n /\ k <= m /\ k < Len(u) /\ k <= Len(u)
  BY <1>1, <1>2, <1>3
<1>5. \A i \in 1 .. k : ~Apart(s[i], u[i], rel)
  <2> SUFFICES ASSUME NEW i \in 1 .. k PROVE ~Apart(s[i], u[i], rel)
    OBVIOUS
  <2>1. i \in 1 .. n /\ i \in 1 .. m /\ i \in 1 .. Len(s) /\ i \in 1 .. Len(t) /\ i \in 1 .. Len(u)
    BY <1>1, <1>2, <1>3, <1>4
  <2>2. s[i] \in S /\ t[i] \in S /\ u[i] \in S
    BY <2>1
  <2> QED
    BY <1>1, <1>2, <2>1, <2>2, OrderFacts
<1>6. k = Len(s) \/ << s[k+1], u[k+1] >> \in rel
  <2> SUFFICES ASSUME k # Len(s) PROVE << s[k+1], u[k+1] >> \in rel
    OBVIOUS
  <2>1. k + 1 \in 1 .. Len(s) /\ k + 1 \in 1 .. Len(t) /\ k + 1 \in 1 .. Len(u)
    BY <1>1, <1>2, <1>3, <1>4
  <2> DEFINE a == s[k+1]
             b == t[k+1]
             c == u[k+1]
  <2>2. a \in S /\ b \in S /\ c \in S
    BY <2>1
  <2>3. CASE n < m
    <3>1. k = n /\ k + 1 \in 1 .. m
      BY <1>1, <1>2, <2>3
    <3>2. << a, b >> \in rel /\ ~Apart(b, c, rel)
      BY <1>1, <1>2, <3>1
    <3>3. << a, c >> \in rel
      <4> HIDE DEF a, b, c
      <4> QED
        BY <3>2, <2>2, OrderFacts
    <3> QED
      BY <3>3
  <2>4. CASE m < n
    <3>1. k = m /\ k + 1 \in 1 .. n /\ m # Len(t)
      BY <1>1, <1>2, <1>3, <2>4
    <3>2. ~Apart(a, b, rel) /\ << b, c >> \in rel
      BY <1>1, <1>2, <3>1
    <3>3. << a, c >> \in rel
      <4> HIDE DEF a, b, c
      <4> QED
        BY <3>2, <2>2, OrderFacts
    <3> QED
      BY <3>3
  <2>5. CASE n = m
    <3>1. k = n /\ k = m /\ m # Len(t)
      BY <1>1, <1>2, <1>3, <2>5
    <3>2. << a, b >> \in rel /\ << b, c >> \in rel
      BY <1>1, <1>2, <3>1
    <3>3. << a, c >> \in rel
      <4> HIDE DEF a, b, c
      <4> QED
        BY <3>2, <2>2, OrderFacts
    <3> QED
      BY <3>3
  <2>6. << a, c >> \in rel
    BY <1>1, <1>2, <2>3, <2>4, <2>5
  <2> QED
    BY <2>6
<1> HIDE DEF k
<1> QED
  BY <1>4, <1>5, <1>6 DEF Before

\* Sequences that are alike come before the same ones.
LEMMA AlikeBefore ==
    ASSUME NEW S, NEW rel, StrictWeak(S, rel), NEW s \in Seq(S), NEW t \in Seq(S), NEW u \in Seq(S),
           Alike(s, t, rel), Before(s, u, rel)
    PROVE  Before(t, u, rel)
<1>1. PICK n \in 0 .. Len(s) : /\ n <= Len(u)
                               /\ \A i \in 1 .. n : ~Apart(s[i], u[i], rel)
                               /\ n < Len(u) /\ (n = Len(s) \/ << s[n+1], u[n+1] >> \in rel)
  BY DEF Before
<1>2. Len(s) = Len(t) /\ \A i \in 1 .. Len(s) : ~Apart(t[i], s[i], rel)
  BY DEF Alike, Apart
<1>3. Len(s) \in Nat /\ Len(t) \in Nat /\ Len(u) \in Nat
  OBVIOUS
<1>4. \A i \in 1 .. n : ~Apart(t[i], u[i], rel)
  <2> SUFFICES ASSUME NEW i \in 1 .. n PROVE ~Apart(t[i], u[i], rel)
    OBVIOUS
  <2>1. i \in 1 .. Len(s) /\ i \in 1 .. Len(t) /\ i \in 1 .. Len(u)
    BY <1>1, <1>2, <1>3
  <2>2. s[i] \in S /\ t[i] \in S /\ u[i] \in S
    BY <2>1
  <2> QED
    BY <1>1, <1>2, <2>1, <2>2, OrderFacts
<1>5. n = Len(t) \/ << t[n+1], u[n+1] >> \in rel
  <2> SUFFICES ASSUME n # Len(s) PROVE << t[n+1], u[n+1] >> \in rel
    BY <1>2
  <2>1. n + 1 \in 1 .. Len(s) /\ n + 1 \in 1 .. Len(t) /\ n + 1 \in 1 .. Len(u)
    BY <1>1, <1>2, <1>3
  <2> DEFINE a == s[n+1]
             b == t[n+1]
             c == u[n+1]
  <2>2. a \in S /\ b \in S /\ c \in S
    BY <2>1
  <2>3. ~Apart(b, a, rel) /\ << a, c >> \in rel
    BY <1>1, <1>2, <2>1
  <2>4. << b, c >> \in rel
    <3> HIDE DEF a, b, c
    <3> QED
      BY <2>2, <2>3, OrderFacts
  <2> QED
    BY <2>4
<1> QED
  BY <1>1, <1>2, <1>4, <1>5 DEF Before

\* std::lexicographical_compare: sequences of what is in a strict weak order
\* are in one, and neither of two comes before the other if and only if they
\* are alike.
LEMMA SequencesInOrder ==
    ASSUME NEW S, NEW rel, StrictWeak(S, rel), NEW s \in Seq(S), NEW t \in Seq(S), NEW u \in Seq(S)
    PROVE  /\ ~(Before(s, t, rel) /\ Before(t, s, rel))
           /\ Before(s, u, rel) => Before(s, t, rel) \/ Before(t, u, rel)
           /\ ~Before(s, t, rel) /\ ~Before(t, s, rel) <=> Alike(s, t, rel)
<1>1. ~(Before(s, t, rel) /\ Before(t, s, rel))
  BY WeakIsAsym, BeforeAsym
<1>2. Before(s, t, rel) \/ Before(t, s, rel) \/ Alike(s, t, rel)
  BY BeforeTotal
<1>3. Alike(s, t, rel) => ~Before(s, t, rel)
  <2> SUFFICES ASSUME Alike(s, t, rel), Before(s, t, rel) PROVE FALSE
    OBVIOUS
  <2>1. Before(t, t, rel)
    BY AlikeBefore
  <2> QED
    BY <2>1, WeakIsAsym, BeforeAsym
<1>4. Alike(s, t, rel) => Alike(t, s, rel)
  BY DEF Alike, Apart
<1>5. Alike(t, s, rel) => ~Before(t, s, rel)
  <2> SUFFICES ASSUME Alike(t, s, rel), Before(t, s, rel) PROVE FALSE
    OBVIOUS
  <2>1. Before(s, s, rel)
    BY AlikeBefore
  <2> QED
    BY <2>1, WeakIsAsym, BeforeAsym
<1>6. Before(s, u, rel) => Before(s, t, rel) \/ Before(t, u, rel)
  <2> SUFFICES ASSUME Before(s, u, rel), ~Before(s, t, rel) PROVE Before(t, u, rel)
    OBVIOUS
  <2>1. CASE Before(t, s, rel)
    BY <2>1, BeforeTransitive
  <2>2. CASE Alike(s, t, rel)
    BY <2>2, AlikeBefore
  <2> QED
    BY <1>2, <2>1, <2>2
<1> QED
  BY <1>1, <1>2, <1>3, <1>4, <1>5, <1>6

-----------------------------------------------------------------------------
(* The keys of objects *)

\* A finite set has one element less without one of its elements.
LEMMA WithoutOne ==
    ASSUME NEW E, IsFiniteSet(E), NEW e \in E
    PROVE  /\ IsFiniteSet(E \ {e}) /\ Cardinality(E) \in Nat
           /\ Cardinality(E \ {e}) \in Nat /\ Cardinality(E \ {e}) = Cardinality(E) - 1
<1>1. IsFiniteSet(E \ {e}) /\ Cardinality(E \ {e}) = Cardinality(E) - 1
  BY FS_RemoveElement
<1>2. Cardinality(E) \in Nat
  BY FS_CardinalityType
<1>3. Cardinality(E \ {e}) \in Nat
  BY <1>1, FS_CardinalityType
<1> QED
  BY <1>1, <1>2, <1>3

\* D has a largest element.
HasLargest(D) == \E m \in D : \A x \in D : x <= m

\* A finite set of integers that is not empty has a largest one: otherwise the
\* smallest counterexample, without one element, is a smaller one.
LEMMA LargestOf ==
    ASSUME NEW D \in SUBSET Int, IsFiniteSet(D), D # {}
    PROVE  HasLargest(D)
<1> DEFINE Bad(E, n) == E \in SUBSET Int /\ IsFiniteSet(E) /\ E # {} /\ Cardinality(E) = n /\ ~HasLargest(E)
           Sizes == { n \in Nat : \E E \in SUBSET Int : Bad(E, n) }
<1> SUFFICES ASSUME ~HasLargest(D) PROVE FALSE
  OBVIOUS
<1>1. Cardinality(D) \in Sizes
  BY FS_CardinalityType
<1>2. Sizes \subseteq Nat /\ Sizes # {}
  BY <1>1
<1> HIDE DEF Sizes
<1>3. PICK n \in Sizes : \A j \in Sizes : n <= j
  BY <1>2, LeastOf
<1>4. PICK E \in SUBSET Int : Bad(E, n)
  BY <1>3 DEF Sizes
<1>5. PICK e \in E : TRUE
  BY <1>4
<1> DEFINE F == E \ {e}
<1>6. F \in SUBSET Int /\ IsFiniteSet(F) /\ Cardinality(F) = n - 1 /\ n - 1 \in Nat
  BY <1>4, <1>5, WithoutOne
<1>7. n - 1 \notin Sizes
  BY <1>2, <1>3, <1>6
<1>8. F = {} \/ HasLargest(F)
  BY <1>6, <1>7 DEF Sizes
<1>9. e \in Int /\ \A x \in E : x \in Int /\ (x = e \/ x \in F)
  BY <1>4, <1>5
<1>10. CASE F = {}
  <2>1. \A x \in E : x <= e
    BY <1>9, <1>10
  <2> QED
    BY <1>4, <1>5, <2>1 DEF HasLargest
<1>11. CASE HasLargest(F)
  <2>1. PICK m \in F : \A x \in F : x <= m
    BY <1>11 DEF HasLargest
  <2>2. \/ e <= m /\ \A x \in E : x <= m
        \/ m <= e /\ \A x \in E : x <= e
    BY <1>6, <1>9, <2>1
  <2> QED
    BY <1>4, <1>5, <2>1, <2>2 DEF HasLargest
<1> QED
  BY <1>8, <1>10, <1>11

\* s goes through D in increasing order.
Enumerates(s, D) ==
    /\ s \in [1 .. Cardinality(D) -> D]
    /\ \A i, j \in DOMAIN s : i < j => s[i] < s[j]
    /\ \A k \in D : \E i \in DOMAIN s : s[i] = k

\* A finite set of keys has an enumeration in increasing order.
LEMMA EnumerationOf ==
    ASSUME NEW D \in SUBSET Int, IsFiniteSet(D)
    PROVE  \E s : Enumerates(s, D)
<1> DEFINE Bad(E, n) == E \in SUBSET Int /\ IsFiniteSet(E) /\ Cardinality(E) = n /\ ~\E s : Enumerates(s, E)
           Sizes == { n \in Nat : \E E \in SUBSET Int : Bad(E, n) }
<1> SUFFICES ASSUME ~\E s : Enumerates(s, D) PROVE FALSE
  OBVIOUS
<1>1. Cardinality(D) \in Sizes
  BY FS_CardinalityType
<1>2. Sizes \subseteq Nat /\ Sizes # {}
  BY <1>1
<1> HIDE DEF Sizes
<1>3. PICK n \in Sizes : \A j \in Sizes : n <= j
  BY <1>2, LeastOf
<1>4. PICK E \in SUBSET Int : Bad(E, n)
  BY <1>3 DEF Sizes
<1>5. CASE E = {}
  <2>1. Cardinality(E) = 0
    BY <1>5, FS_EmptySet
  <2> DEFINE s == [i \in 1 .. 0 |-> 0]
  <2>2. Enumerates(s, E)
    BY <1>5, <2>1 DEF Enumerates
  <2> QED
    BY <1>4, <2>2
<1>6. CASE E # {}
  <2>1. PICK m \in E : \A x \in E : x <= m
    BY <1>4, <1>6, LargestOf DEF HasLargest
  <2> DEFINE F == E \ {m}
  <2>2. F \in SUBSET Int /\ IsFiniteSet(F) /\ Cardinality(F) = n - 1 /\ n - 1 \in Nat /\ Cardinality(E) = n
    BY <1>4, <2>1, WithoutOne
  <2>3. n - 1 \notin Sizes
    BY <1>2, <1>3, <2>2
  <2>4. PICK r : Enumerates(r, F)
    BY <2>2, <2>3 DEF Sizes
  <2> DEFINE s == [i \in 1 .. n |-> IF i = n THEN m ELSE r[i]]
  <2>5. r \in [1 .. n - 1 -> F] /\ n \in Nat
    <3>1. n \in Nat
      BY <1>2, <1>3
    <3> QED
      BY <2>2, <2>4, <3>1 DEF Enumerates
  <2>6. DOMAIN r = 1 .. n - 1 /\ DOMAIN s = 1 .. n /\ n \in 1 .. n /\ s[n] = m
    BY <2>2, <2>5
  <2>7. \A i \in 1 .. n : i # n => i \in 1 .. n - 1 /\ s[i] = r[i] /\ r[i] \in F
    BY <2>5
  <2> HIDE DEF s
  <2>8. s \in [1 .. n -> E]
    BY <2>1, <2>5, <2>6, <2>7 DEF s
  <2>9. \A i, j \in 1 .. n : i < j => s[i] < s[j]
    <3> SUFFICES ASSUME NEW i \in 1 .. n, NEW j \in 1 .. n, i < j PROVE s[i] < s[j]
      OBVIOUS
    <3>1. i # n
      BY <2>5
    <3>2. CASE j = n
      <4>1. s[i] \in F /\ s[j] = m /\ s[i] # m
        BY <2>6, <2>7, <3>1, <3>2
      <4>2. s[i] \in Int /\ m \in Int /\ s[i] <= m
        BY <1>4, <2>1, <4>1
      <4> QED
        BY <4>1, <4>2
    <3>3. CASE j # n
      <4>1. r[i] < r[j]
        BY <2>4, <2>6, <2>7, <3>1, <3>3 DEF Enumerates
      <4> QED
        BY <4>1, <2>7, <3>1, <3>3
    <3> QED
      BY <3>2, <3>3
  <2>10. \A k \in E : \E i \in 1 .. n : s[i] = k
    <3> SUFFICES ASSUME NEW k \in E PROVE \E i \in 1 .. n : s[i] = k
      OBVIOUS
    <3>1. CASE k = m
      BY <2>6, <3>1
    <3>2. CASE k # m
      <4>1. PICK i \in 1 .. n - 1 : r[i] = k
        BY <2>4, <2>6, <3>2 DEF Enumerates
      <4>2. i \in 1 .. n /\ i # n
        BY <2>5
      <4> QED
        BY <4>1, <4>2, <2>7
    <3> QED
      BY <3>1, <3>2
  <2>11. Enumerates(s, E)
    BY <2>2, <2>6, <2>8, <2>9, <2>10 DEF Enumerates
  <2> QED
    BY <1>4, <2>11
<1> QED
  BY <1>5, <1>6

\* Members is such an enumeration.
LEMMA MembersEnumerate ==
    ASSUME NEW f, DOMAIN f \in SUBSET Int, IsFiniteSet(DOMAIN f)
    PROVE  Enumerates(Members(f), DOMAIN f)
<1> DEFINE D == DOMAIN f
<1>1. \E s \in [1 .. Cardinality(D) -> D] :
        /\ \A i, j \in DOMAIN s : i < j => s[i] < s[j]
        /\ \A k \in D : \E i \in DOMAIN s : s[i] = k
  BY EnumerationOf DEF Enumerates
<1> QED
  BY <1>1 DEF Members, Enumerates

-----------------------------------------------------------------------------
(* Variants of any depth *)

\* The variants without elements whose numbers a real can hold, the infinities
\* among the reals and NaN not
ScalarValues ==
    UNION { {Null}, {"boolean"} \X BOOLEAN,
            {"integer"} \X { n \in Int : Round(2 * n) = 2 * n },
            {"uint"} \X { n \in Nat : Round(2 * n) = 2 * n },
            {"real"} \X (-Infinity .. Infinity), {"string", "blob"} \X Int }

\* The sets of keys that an object may have
KeySets == { K \in SUBSET Int : IsFiniteSet(K) }

\* The variants whose elements, if they have any, are in S
Nested(S) ==
    UNION { ScalarValues, {"array"} \X Seq(S), {"object"} \X UNION { [K -> S] : K \in KeySets } }

\* The place of a type in the order of types, where numbers share one
Group(v) ==
    CASE v[1] = "null" -> 1
      [] v[1] = "boolean" -> 2
      [] isNumber(v) -> 3
      [] v[1] = "string" -> 6
      [] v[1] = "blob" -> 7
      [] v[1] = "array" -> 8
      [] v[1] = "object" -> 9

\* The place of a scalar among those of its group
Place(v) ==
    CASE v[1] = "null" -> 0
      [] v[1] = "boolean" -> IF v[2] THEN 1 ELSE 0
      [] v[1] \in {"integer", "uint"} -> 2 * v[2]
      [] OTHER -> v[2]

\* The members of an object, in the order of their keys
PairsOf(f) == [i \in 1 .. Cardinality(DOMAIN f) |-> << Members(f)[i], f[Members(f)[i]] >>]

\* std::pair's order of members, as a relation
PairRel(S, rel) ==
    { pq \in (Int \X S) \X (Int \X S) :
        \/ pq[1][1] < pq[2][1]
        \/ pq[1][1] = pq[2][1] /\ << pq[1][2], pq[2][2] >> \in rel }

\* The order of types first, then of values of one type, in which elements are
\* in the order rel
Ordered(v, w, S, rel) ==
    \/ Group(v) < Group(w)
    \/ /\ Group(v) = Group(w)
       /\ CASE Group(v) = 8 -> Before(v[2], w[2], rel)
            [] Group(v) = 9 -> Before(PairsOf(v[2]), PairsOf(w[2]), PairRel(S, rel))
            [] OTHER -> Place(v) < Place(w)

\* What a scalar's type tells of its value.
LEMMA ScalarCases ==
    ASSUME NEW v \in ScalarValues
    PROVE  /\ Place(v) \in Int /\ Group(v) \in {1, 2, 3, 6, 7}
           /\ v[1] \in {"null", "boolean", "integer", "uint", "real", "string", "blob"}
           /\ v[1] = "null" => v[2] = 0
           /\ v[1] = "boolean" => v[2] \in BOOLEAN
           /\ v[1] \in {"integer", "uint", "real", "string", "blob"} => v[2] \in Int
           /\ v[1] = "uint" => v[2] >= 0
           /\ v[1] \in {"integer", "uint"} => Round(2 * v[2]) = 2 * v[2]
           /\ v[1] = "real" => v[2] # NaN
<1> USE VariantAssumption
<1>1. CASE v = Null
  BY <1>1 DEF Null, Place, Group
<1>2. CASE v \in {"boolean"} \X BOOLEAN
  BY <1>2 DEF Place, Group
<1>3. CASE v \in {"integer"} \X { n \in Int : Round(2 * n) = 2 * n }
  BY <1>3 DEF Place, Group, isNumber
<1>4. CASE v \in {"uint"} \X { n \in Nat : Round(2 * n) = 2 * n }
  BY <1>4 DEF Place, Group, isNumber
<1>5. CASE v \in {"real"} \X (-Infinity .. Infinity)
  <2>1. Infinity \in Int /\ NaN = Infinity + 1
    BY DEF Infinity, NaN
  <2> QED
    BY <1>5, <2>1 DEF Place, Group, isNumber
<1>6. CASE v \in {"string", "blob"} \X Int
  BY <1>6 DEF Place, Group, isNumber
<1> QED
  BY <1>1, <1>2, <1>3, <1>4, <1>5, <1>6 DEF ScalarValues

\* A variant is a scalar, an array of elements or an object of members.
LEMMA NestedCases ==
    ASSUME NEW S, NEW v \in Nested(S)
    PROVE  \/ v \in ScalarValues /\ Group(v) \in {1, 2, 3, 6, 7}
           \/ v[1] = "array" /\ Group(v) = 8 /\ v[2] \in Seq(S)
           \/ /\ v[1] = "object" /\ Group(v) = 9
              /\ DOMAIN v[2] \in SUBSET Int /\ IsFiniteSet(DOMAIN v[2]) /\ v[2] \in [DOMAIN v[2] -> S]
<1>1. CASE v \in ScalarValues
  BY <1>1, ScalarCases
<1>2. CASE v \in {"array"} \X Seq(S)
  BY <1>2 DEF Group, isNumber
<1>3. CASE v \in {"object"} \X UNION { [K -> S] : K \in KeySets }
  <2>1. v[1] = "object" /\ \E K \in KeySets : v[2] \in [K -> S]
    BY <1>3
  <2>2. DOMAIN v[2] \in SUBSET Int /\ IsFiniteSet(DOMAIN v[2]) /\ v[2] \in [DOMAIN v[2] -> S]
    BY <2>1 DEF KeySets
  <2> QED
    BY <2>1, <2>2 DEF Group, isNumber
<1> QED
  BY <1>1, <1>2, <1>3 DEF Nested

\* The variants of the arrays' place are arrays.
LEMMA ArrayOf ==
    ASSUME NEW S, NEW v \in Nested(S), Group(v) = 8
    PROVE  v[1] = "array" /\ v[2] \in Seq(S)
  BY NestedCases

\* The variants of the objects' place are objects, with a finite set of keys.
LEMMA ObjectOf ==
    ASSUME NEW S, NEW v \in Nested(S), Group(v) = 9
    PROVE  /\ v[1] = "object"
           /\ DOMAIN v[2] \in SUBSET Int /\ IsFiniteSet(DOMAIN v[2]) /\ v[2] \in [DOMAIN v[2] -> S]
  BY NestedCases

\* The variants of the other places are scalars.
LEMMA ScalarOf ==
    ASSUME NEW S, NEW v \in Nested(S), Group(v) \notin {8, 9}
    PROVE  v \in ScalarValues /\ Place(v) \in Int
  BY NestedCases, ScalarCases

\* std::pair: the order of members is asymmetric if that of their values is.
LEMMA PairsAsym ==
    ASSUME NEW S, NEW rel, Asymmetric(S, rel)
    PROVE  Asymmetric(Int \X S, PairRel(S, rel))
<1> SUFFICES ASSUME NEW p \in Int \X S, NEW q \in Int \X S
             PROVE  ~(<< p, q >> \in PairRel(S, rel) /\ << q, p >> \in PairRel(S, rel))
  BY DEF Asymmetric
<1>1. p[1] \in Int /\ q[1] \in Int /\ p[2] \in S /\ q[2] \in S
  OBVIOUS
<1>2. ~(<< p[2], q[2] >> \in rel /\ << q[2], p[2] >> \in rel)
  BY <1>1 DEF Asymmetric
<1> QED
  BY <1>1, <1>2 DEF PairRel

\* std::pair: members are in a strict weak order if their values are.
LEMMA PairsInOrder ==
    ASSUME NEW S, NEW rel, StrictWeak(S, rel)
    PROVE  StrictWeak(Int \X S, PairRel(S, rel))
<1>1. ASSUME NEW p \in Int \X S, NEW q \in Int \X S
      PROVE  << p, q >> \in PairRel(S, rel) <=>
                p[1] < q[1] \/ (p[1] = q[1] /\ << p[2], q[2] >> \in rel)
  BY DEF PairRel
<1>2. ASSUME NEW p \in Int \X S, NEW q \in Int \X S, NEW r \in Int \X S
      PROVE  /\ ~(<< p, q >> \in PairRel(S, rel) /\ << q, p >> \in PairRel(S, rel))
             /\ << p, r >> \in PairRel(S, rel) => << p, q >> \in PairRel(S, rel) \/ << q, r >> \in PairRel(S, rel)
  <2>1. p[1] \in Int /\ q[1] \in Int /\ r[1] \in Int /\ p[2] \in S /\ q[2] \in S /\ r[2] \in S
    OBVIOUS
  <2>2. /\ ~(<< p[2], q[2] >> \in rel /\ << q[2], p[2] >> \in rel)
        /\ << p[2], r[2] >> \in rel => << p[2], q[2] >> \in rel \/ << q[2], r[2] >> \in rel
    BY <2>1 DEF StrictWeak
  <2> QED
    BY <1>1, <2>1, <2>2
<1> QED
  BY <1>2 DEF StrictWeak

\* A function on 1 .. n is a sequence.
LEMMA IsSequence ==
    ASSUME NEW T, NEW n \in Nat, NEW g \in [1 .. n -> T]
    PROVE  g \in Seq(T) /\ Len(g) = n
  OBVIOUS

\* std::map: the members of an object, in the order of their keys.
LEMMA PairsOfObject ==
    ASSUME NEW S, NEW f, DOMAIN f \in SUBSET Int, IsFiniteSet(DOMAIN f), f \in [DOMAIN f -> S]
    PROVE  /\ PairsOf(f) \in Seq(Int \X S) /\ Len(PairsOf(f)) = Cardinality(DOMAIN f)
           /\ Cardinality(DOMAIN f) \in Nat
<1>1. Enumerates(Members(f), DOMAIN f)
  BY MembersEnumerate
<1>2. Cardinality(DOMAIN f) \in Nat
  BY FS_CardinalityType
<1>3. \A i \in 1 .. Cardinality(DOMAIN f) : << Members(f)[i], f[Members(f)[i]] >> \in Int \X S
  BY <1>1 DEF Enumerates
<1>4. PairsOf(f) \in [1 .. Cardinality(DOMAIN f) -> Int \X S]
  BY <1>3 DEF PairsOf
<1> QED
  BY <1>2, <1>4, IsSequence

\* If the order of elements is asymmetric, so is that of the variants made of them.
LEMMA NestedAsym ==
    ASSUME NEW S, NEW rel, Asymmetric(S, rel), NEW x \in Nested(S), NEW y \in Nested(S)
    PROVE  ~(Ordered(x, y, S, rel) /\ Ordered(y, x, S, rel))
<1>1. Group(x) \in Nat /\ Group(y) \in Nat
  BY NestedCases
<1>2. ASSUME NEW v \in Nested(S), Group(v) = 8 PROVE v[2] \in Seq(S)
  BY <1>2, ArrayOf
<1>3. ASSUME NEW v \in Nested(S), Group(v) = 9 PROVE PairsOf(v[2]) \in Seq(Int \X S)
  <2>1. DOMAIN v[2] \in SUBSET Int /\ IsFiniteSet(DOMAIN v[2]) /\ v[2] \in [DOMAIN v[2] -> S]
    BY <1>3, ObjectOf
  <2> QED
    BY <2>1, PairsOfObject
<1>4. ASSUME NEW v \in Nested(S), Group(v) \notin {8, 9} PROVE Place(v) \in Int
  BY <1>4, ScalarOf
<1>5. Asymmetric(Int \X S, PairRel(S, rel))
  BY PairsAsym
<1>6. ASSUME NEW v \in Nested(S), NEW w \in Nested(S), Group(v) = 8, Group(w) = 8
      PROVE  Ordered(v, w, S, rel) <=> Before(v[2], w[2], rel)
  BY <1>6 DEF Ordered
<1>7. ASSUME NEW v \in Nested(S), NEW w \in Nested(S), Group(v) = 9, Group(w) = 9
      PROVE  Ordered(v, w, S, rel) <=> Before(PairsOf(v[2]), PairsOf(w[2]), PairRel(S, rel))
  BY <1>7 DEF Ordered
<1>8. CASE Group(x) # Group(y)
  BY <1>1, <1>8 DEF Ordered
<1>9. CASE Group(x) = Group(y) /\ Group(x) = 8
  <2>1. x[2] \in Seq(S) /\ y[2] \in Seq(S)
    BY <1>2, <1>9
  <2> QED
    BY <1>6, <1>9, <2>1, BeforeAsym
<1>10. CASE Group(x) = Group(y) /\ Group(x) = 9
  <2>1. PairsOf(x[2]) \in Seq(Int \X S) /\ PairsOf(y[2]) \in Seq(Int \X S)
    BY <1>3, <1>10
  <2> QED
    BY <1>5, <1>7, <1>10, <2>1, BeforeAsym
<1>11. CASE Group(x) = Group(y) /\ Group(x) \notin {8, 9}
  BY <1>1, <1>4, <1>11 DEF Ordered
<1> QED
  BY <1>8, <1>9, <1>10, <1>11

\* If elements are in a strict weak order, so are the variants made of them.
LEMMA NestedInOrder ==
    ASSUME NEW S, NEW rel, StrictWeak(S, rel), NEW x \in Nested(S), NEW y \in Nested(S), NEW z \in Nested(S)
    PROVE  /\ ~(Ordered(x, y, S, rel) /\ Ordered(y, x, S, rel))
           /\ Ordered(x, z, S, rel) => Ordered(x, y, S, rel) \/ Ordered(y, z, S, rel)
<1>1. Group(x) \in Nat /\ Group(y) \in Nat /\ Group(z) \in Nat
  BY NestedCases
<1>2. ASSUME NEW v \in Nested(S), Group(v) = 8 PROVE v[2] \in Seq(S)
  BY <1>2, ArrayOf
<1>3. ASSUME NEW v \in Nested(S), Group(v) = 9 PROVE PairsOf(v[2]) \in Seq(Int \X S)
  <2>1. DOMAIN v[2] \in SUBSET Int /\ IsFiniteSet(DOMAIN v[2]) /\ v[2] \in [DOMAIN v[2] -> S]
    BY <1>3, ObjectOf
  <2> QED
    BY <2>1, PairsOfObject
<1>4. ASSUME NEW v \in Nested(S), Group(v) \notin {8, 9} PROVE Place(v) \in Int
  BY <1>4, ScalarOf
<1>5. StrictWeak(Int \X S, PairRel(S, rel))
  BY PairsInOrder
<1>6. ASSUME NEW v \in Nested(S), NEW w \in Nested(S), Group(v) = 8, Group(w) = 8
      PROVE  Ordered(v, w, S, rel) <=> Before(v[2], w[2], rel)
  BY <1>6 DEF Ordered
<1>7. ASSUME NEW v \in Nested(S), NEW w \in Nested(S), Group(v) = 9, Group(w) = 9
      PROVE  Ordered(v, w, S, rel) <=> Before(PairsOf(v[2]), PairsOf(w[2]), PairRel(S, rel))
  BY <1>7 DEF Ordered
<1>8. ~(Ordered(x, y, S, rel) /\ Ordered(y, x, S, rel))
  BY WeakIsAsym, NestedAsym
<1>9. Ordered(x, z, S, rel) => Ordered(x, y, S, rel) \/ Ordered(y, z, S, rel)
  <2>1. CASE ~(Group(x) = Group(y) /\ Group(y) = Group(z))
    BY <1>1, <2>1 DEF Ordered
  <2>2. CASE Group(x) = Group(y) /\ Group(y) = Group(z) /\ Group(x) = 8
    <3>1. x[2] \in Seq(S) /\ y[2] \in Seq(S) /\ z[2] \in Seq(S)
      BY <1>2, <2>2
    <3>2. Before(x[2], z[2], rel) => Before(x[2], y[2], rel) \/ Before(y[2], z[2], rel)
      BY <3>1, SequencesInOrder
    <3> QED
      BY <1>6, <2>2, <3>2
  <2>3. CASE Group(x) = Group(y) /\ Group(y) = Group(z) /\ Group(x) = 9
    <3> DEFINE p == PairsOf(x[2])
               q == PairsOf(y[2])
               r == PairsOf(z[2])
               below == PairRel(S, rel)
    <3>1. p \in Seq(Int \X S) /\ q \in Seq(Int \X S) /\ r \in Seq(Int \X S)
      BY <1>3, <2>3
    <3>2. Before(p, r, below) => Before(p, q, below) \/ Before(q, r, below)
      BY <1>5, <3>1, SequencesInOrder
    <3> QED
      BY <1>7, <2>3, <3>2
  <2>4. CASE Group(x) = Group(y) /\ Group(y) = Group(z) /\ Group(x) \notin {8, 9}
    BY <1>1, <1>4, <2>4 DEF Ordered
  <2> QED
    BY <2>1, <2>2, <2>3, <2>4
<1> QED
  BY <1>8, <1>9

\* Neither of two variants comes before the other if and only if they are of
\* one place, and what they are made of is pairwise equivalent.
LEMMA NestedAlike ==
    ASSUME NEW S, NEW rel, StrictWeak(S, rel), NEW v \in Nested(S), NEW w \in Nested(S)
    PROVE  ~Ordered(v, w, S, rel) /\ ~Ordered(w, v, S, rel) <=>
              /\ Group(v) = Group(w)
              /\ Group(v) = 8 => Alike(v[2], w[2], rel)
              /\ Group(v) = 9 => /\ DOMAIN v[2] = DOMAIN w[2]
                                 /\ \A k \in DOMAIN v[2] : ~Apart(v[2][k], w[2][k], rel)
              /\ Group(v) \notin {8, 9} => Place(v) = Place(w)
<1>1. Group(v) \in Nat /\ Group(w) \in Nat
  BY NestedCases
<1>2. CASE Group(v) # Group(w)
  BY <1>1, <1>2 DEF Ordered
<1>3. CASE Group(v) = Group(w) /\ Group(v) = 8
  <2>1. v[2] \in Seq(S) /\ w[2] \in Seq(S)
    BY <1>3, ArrayOf
  <2>2. ~Before(v[2], w[2], rel) /\ ~Before(w[2], v[2], rel) <=> Alike(v[2], w[2], rel)
    BY <2>1, SequencesInOrder
  <2>3. /\ Ordered(v, w, S, rel) <=> Before(v[2], w[2], rel)
        /\ Ordered(w, v, S, rel) <=> Before(w[2], v[2], rel)
    BY <1>3 DEF Ordered
  <2> QED
    BY <1>3, <2>2, <2>3
<1>4. CASE Group(v) = Group(w) /\ Group(v) = 9
  <2> DEFINE f == v[2]
             g == w[2]
             p == PairsOf(f)
             q == PairsOf(g)
             below == PairRel(S, rel)
  <2>1. /\ DOMAIN f \in SUBSET Int /\ IsFiniteSet(DOMAIN f) /\ f \in [DOMAIN f -> S]
        /\ DOMAIN g \in SUBSET Int /\ IsFiniteSet(DOMAIN g) /\ g \in [DOMAIN g -> S]
    BY <1>4, ObjectOf
  <2>2. /\ Ordered(v, w, S, rel) <=> Before(p, q, below)
        /\ Ordered(w, v, S, rel) <=> Before(q, p, below)
    BY <1>4 DEF Ordered
  <2> HIDE DEF f, g
  <2>3. /\ p \in Seq(Int \X S) /\ Len(p) = Cardinality(DOMAIN f) /\ Cardinality(DOMAIN f) \in Nat
        /\ q \in Seq(Int \X S) /\ Len(q) = Cardinality(DOMAIN g) /\ Cardinality(DOMAIN g) \in Nat
    BY <2>1, PairsOfObject
  <2>4. /\ \A i \in 1 .. Len(p) : p[i] = << Members(f)[i], f[Members(f)[i]] >>
        /\ \A i \in 1 .. Len(q) : q[i] = << Members(g)[i], g[Members(g)[i]] >>
    BY <2>3 DEF PairsOf
  <2>5. Enumerates(Members(f), DOMAIN f) /\ Enumerates(Members(g), DOMAIN g)
    BY <2>1, MembersEnumerate
  <2>6. StrictWeak(Int \X S, below)
    BY PairsInOrder
  <2> HIDE DEF p, q
  <2>7. ~Before(p, q, below) /\ ~Before(q, p, below) <=> Alike(p, q, below)
    BY <2>3, <2>6, SequencesInOrder
  <2>8. ASSUME NEW a \in Int, NEW b \in Int, NEW x \in S, NEW y \in S
        PROVE  ~Apart(<< a, x >>, << b, y >>, below) <=> a = b /\ ~Apart(x, y, rel)
    <3>1. << a, x >> \in Int \X S /\ << b, y >> \in Int \X S
      OBVIOUS
    <3>2. << << a, x >>, << b, y >> >> \in below <=> a < b \/ (a = b /\ << x, y >> \in rel)
      BY <3>1 DEF PairRel
    <3>3. << << b, y >>, << a, x >> >> \in below <=> b < a \/ (b = a /\ << y, x >> \in rel)
      BY <3>1 DEF PairRel
    <3> QED
      BY <3>2, <3>3 DEF Apart
  <2> HIDE DEF below
  <2>9. \A i \in 1 .. Len(p) : Members(f)[i] \in DOMAIN f /\ Members(f)[i] \in Int /\ f[Members(f)[i]] \in S
    BY <2>1, <2>3, <2>5 DEF Enumerates
  <2>10. \A i \in 1 .. Len(q) : Members(g)[i] \in DOMAIN g /\ Members(g)[i] \in Int /\ g[Members(g)[i]] \in S
    BY <2>1, <2>3, <2>5 DEF Enumerates
  <2>11. ASSUME Alike(p, q, below)
         PROVE  DOMAIN f = DOMAIN g /\ \A k \in DOMAIN f : ~Apart(f[k], g[k], rel)
    <3>1. Len(p) = Len(q)
      BY <2>11 DEF Alike
    <3>2. \A i \in 1 .. Len(p) : Members(f)[i] = Members(g)[i] /\ ~Apart(f[Members(f)[i]], g[Members(f)[i]], rel)
      <4> SUFFICES ASSUME NEW i \in 1 .. Len(p)
                   PROVE  Members(f)[i] = Members(g)[i] /\ ~Apart(f[Members(f)[i]], g[Members(f)[i]], rel)
        OBVIOUS
      <4>1. ~Apart(p[i], q[i], below)
        BY <2>11 DEF Alike
      <4>2. ~Apart(<< Members(f)[i], f[Members(f)[i]] >>, << Members(g)[i], g[Members(g)[i]] >>, below)
        BY <2>4, <3>1, <4>1
      <4>3. Members(f)[i] = Members(g)[i] /\ ~Apart(f[Members(f)[i]], g[Members(g)[i]], rel)
        BY <2>8, <2>9, <2>10, <3>1, <4>2
      <4> QED
        BY <4>3
    <3>3. \A k \in DOMAIN f : \E i \in 1 .. Len(p) : Members(f)[i] = k
      BY <2>3, <2>5 DEF Enumerates
    <3>4. \A k \in DOMAIN g : \E i \in 1 .. Len(q) : Members(g)[i] = k
      BY <2>3, <2>5 DEF Enumerates
    <3>5. DOMAIN f = DOMAIN g
      <4>1. ASSUME NEW k \in DOMAIN f PROVE k \in DOMAIN g
        <5>1. PICK i \in 1 .. Len(p) : Members(f)[i] = k
          BY <3>3
        <5>2. Members(g)[i] = k /\ Members(g)[i] \in DOMAIN g
          BY <2>10, <3>1, <3>2, <5>1
        <5> QED
          BY <5>2
      <4>2. ASSUME NEW k \in DOMAIN g PROVE k \in DOMAIN f
        <5>1. PICK i \in 1 .. Len(q) : Members(g)[i] = k
          BY <3>4
        <5>2. Members(f)[i] = k /\ Members(f)[i] \in DOMAIN f
          BY <2>9, <3>1, <3>2, <5>1
        <5> QED
          BY <5>2
      <4> QED
        BY <4>1, <4>2
    <3>6. \A k \in DOMAIN f : ~Apart(f[k], g[k], rel)
      BY <3>2, <3>3
    <3> QED
      BY <3>5, <3>6
  <2>12. ASSUME DOMAIN f = DOMAIN g, \A k \in DOMAIN f : ~Apart(f[k], g[k], rel)
         PROVE  Alike(p, q, below)
    <3>1. Members(f) = Members(g) /\ Len(p) = Len(q)
      BY <2>3, <2>12 DEF Members
    <3>2. ASSUME NEW i \in 1 .. Len(p) PROVE ~Apart(p[i], q[i], below)
      <4> DEFINE k == Members(f)[i]
      <4>1. k \in DOMAIN f /\ k \in Int /\ f[k] \in S /\ g[k] \in S
        BY <2>9, <2>10, <3>1
      <4>2. p[i] = << k, f[k] >> /\ q[i] = << k, g[k] >>
        BY <2>4, <3>1
      <4>3. ~Apart(f[k], g[k], rel)
        BY <2>12, <4>1
      <4> HIDE DEF k
      <4> QED
        BY <2>8, <4>1, <4>2, <4>3
    <3> QED
      BY <3>1, <3>2 DEF Alike
  <2>13. ~Ordered(v, w, S, rel) /\ ~Ordered(w, v, S, rel) <=>
            DOMAIN f = DOMAIN g /\ \A k \in DOMAIN f : ~Apart(f[k], g[k], rel)
    BY <2>2, <2>7, <2>11, <2>12
  <2> QED
    BY <1>4, <2>13 DEF f, g
<1>5. CASE Group(v) = Group(w) /\ Group(v) \notin {8, 9}
  <2>1. Place(v) \in Int /\ Place(w) \in Int
    BY <1>5, ScalarOf
  <2> QED
    BY <1>1, <1>5, <2>1 DEF Ordered
<1> QED
  BY <1>2, <1>3, <1>4, <1>5

\* Numbers are compared by what they are, whatever their types.
LEMMA NumbersCompare ==
    ASSUME NEW v \in ScalarValues, NEW w \in ScalarValues, isNumber(v), isNumber(w)
    PROVE  /\ NumbersLess(v, w) <=> Place(v) < Place(w)
           /\ NumbersEqual(v, w) <=> Place(v) = Place(w)
<1>1. /\ v[1] \in {"integer", "uint", "real"} /\ w[1] \in {"integer", "uint", "real"}
      /\ v[2] \in Int /\ w[2] \in Int
      /\ v[1] = "uint" => v[2] >= 0
      /\ w[1] = "uint" => w[2] >= 0
      /\ v[1] # "real" => Round(2 * v[2]) = 2 * v[2]
      /\ w[1] # "real" => Round(2 * w[2]) = 2 * w[2]
      /\ ~isNaN(v) /\ ~isNaN(w)
  BY ScalarCases DEF isNumber, isNaN
<1>2. /\ Place(v) = IF v[1] = "real" THEN v[2] ELSE 2 * v[2]
      /\ Place(w) = IF w[1] = "real" THEN w[2] ELSE 2 * w[2]
  BY <1>1 DEF Place
<1>3. /\ Common(v, w) = IF v[1] # "real" /\ w[1] # "real" THEN v[2] ELSE Place(v)
      /\ Common(w, v) = IF v[1] # "real" /\ w[1] # "real" THEN w[2] ELSE Place(w)
  BY <1>1, <1>2 DEF Common
<1>4. /\ NegativeAgainst(v, w) <=> v[1] # "uint" /\ w[1] = "uint" /\ v[2] < 0
      /\ NegativeAgainst(w, v) <=> w[1] # "uint" /\ v[1] = "uint" /\ w[2] < 0
  BY <1>1 DEF NegativeAgainst, isSigned
<1> QED
  BY <1>1, <1>2, <1>3, <1>4 DEF NumbersLess, NumbersEqual, Unordered

\* The place of each type among the enumerators of TypeId.
LEMMA TypeIdIs ==
    /\ \A v : v[1] = "null" => TypeId(v) = 1
    /\ \A v : v[1] = "boolean" => TypeId(v) = 2
    /\ \A v : v[1] = "integer" => TypeId(v) = 3
    /\ \A v : v[1] = "uint" => TypeId(v) = 4
    /\ \A v : v[1] = "real" => TypeId(v) = 5
    /\ \A v : v[1] = "string" => TypeId(v) = 6
    /\ \A v : v[1] = "blob" => TypeId(v) = 7
    /\ \A v : v[1] = "array" => TypeId(v) = 8
    /\ \A v : v[1] = "object" => TypeId(v) = 9
<1>1. DOMAIN TypeIds = 1 .. 9
  BY DEF TypeIds
<1>2. /\ TypeIds[1] = "null" /\ TypeIds[2] = "boolean" /\ TypeIds[3] = "integer" /\ TypeIds[4] = "uint"
      /\ TypeIds[5] = "real" /\ TypeIds[6] = "string" /\ TypeIds[7] = "blob" /\ TypeIds[8] = "array"
      /\ TypeIds[9] = "object"
  BY DEF TypeIds
<1>3. \A i \in 1 .. 9 : i \in {1, 2, 3, 4, 5, 6, 7, 8, 9}
  OBVIOUS
<1> QED
  BY <1>1, <1>2, <1>3 DEF TypeId

\* The place of a variant, type by type.
LEMMA GroupIs ==
    ASSUME NEW S, NEW v \in Nested(S)
    PROVE  /\ v[1] = "null" => Group(v) = 1
           /\ v[1] = "boolean" => Group(v) = 2
           /\ isNumber(v) => Group(v) = 3
           /\ v[1] = "string" => Group(v) = 6
           /\ v[1] = "blob" => Group(v) = 7
           /\ v[1] = "array" => Group(v) = 8
           /\ v[1] = "object" => Group(v) = 9
           /\ v[1] \in {"null", "boolean", "integer", "uint", "real", "string", "blob", "array", "object"}
<1>1. v[1] \in {"null", "boolean", "integer", "uint", "real", "string", "blob", "array", "object"}
  BY NestedCases, ScalarCases
<1> QED
  BY <1>1 DEF Group, isNumber

\* operator< and operator== in which those of elements are relations
LexBy(s, t, rel) == LET Below(x, y) == << x, y >> \in rel IN LexLess(s, t, Below)
LexPairsBy(s, t, rel) ==
    LET Below(x, y) == << x, y >> \in rel
        MemberLess(p, q) == PairLess(p, q, Below)
    IN LexLess(s, t, MemberLess)
LessBy(v, w, rel) == LET Below(x, y) == << x, y >> \in rel IN LessThan(v, w, Below)
EqualBy(v, w, rel) == LET Same(x, y) == << x, y >> \in rel IN EqualTo(v, w, Same)
NotEqualBy(v, w, rel) == LET Same(x, y) == << x, y >> \in rel IN NotEqualTo(v, w, Same)

\* std::lexicographical_compare of elements is the order of sequences.
LEMMA LexIsBefore ==
    ASSUME NEW s, NEW t, NEW rel
    PROVE  LexBy(s, t, rel) <=> Before(s, t, rel)
  BY DEF LexBy, LexLess, Before, Apart

\* std::lexicographical_compare of members is the order of their sequences.
LEMMA LexPairsIsBefore ==
    ASSUME NEW S, NEW rel, NEW s \in Seq(Int \X S), NEW t \in Seq(Int \X S)
    PROVE  LexPairsBy(s, t, rel) <=> Before(s, t, PairRel(S, rel))
<1> DEFINE below == PairRel(S, rel)
           Below(x, y) == << x, y >> \in rel
           MemberLess(p, q) == PairLess(p, q, Below)
<1>1. Len(s) \in Nat /\ Len(t) \in Nat
  OBVIOUS
<1>2. ASSUME NEW p \in Int \X S, NEW q \in Int \X S
      PROVE  << p, q >> \in below <=> MemberLess(p, q)
  <2>1. p[1] \in Int /\ q[1] \in Int /\ p[2] \in S /\ q[2] \in S
    OBVIOUS
  <2> QED
    BY <2>1 DEF PairRel, PairLess
<1> HIDE DEF below, MemberLess
<1>3. ASSUME NEW i \in Nat, i >= 1, i <= Len(s), i <= Len(t)
      PROVE  /\ << s[i], t[i] >> \in below <=> MemberLess(s[i], t[i])
             /\ << t[i], s[i] >> \in below <=> MemberLess(t[i], s[i])
  <2>1. i \in 1 .. Len(s) /\ i \in 1 .. Len(t)
    BY <1>1, <1>3
  <2>2. s[i] \in Int \X S /\ t[i] \in Int \X S
    BY <2>1
  <2> QED
    BY <1>2, <2>2
<1>4. ASSUME NEW n \in 0 .. Len(s)
      PROVE  (/\ n <= Len(t)
              /\ \A i \in 1 .. n : ~MemberLess(s[i], t[i]) /\ ~MemberLess(t[i], s[i])
              /\ n < Len(t) /\ (n = Len(s) \/ MemberLess(s[n+1], t[n+1]))) <=>
             (/\ n <= Len(t)
              /\ \A i \in 1 .. n : ~Apart(s[i], t[i], below)
              /\ n < Len(t) /\ (n = Len(s) \/ << s[n+1], t[n+1] >> \in below))
  <2>1. n < Len(t) /\ n # Len(s) => (MemberLess(s[n+1], t[n+1]) <=> << s[n+1], t[n+1] >> \in below)
    <3> SUFFICES ASSUME n < Len(t), n # Len(s)
                 PROVE  MemberLess(s[n+1], t[n+1]) <=> << s[n+1], t[n+1] >> \in below
      OBVIOUS
    <3> DEFINE i == n + 1
    <3>1. i \in Nat /\ i >= 1 /\ i <= Len(s) /\ i <= Len(t)
      BY <1>1
    <3> HIDE DEF i
    <3>2. MemberLess(s[i], t[i]) <=> << s[i], t[i] >> \in below
      BY <1>3, <3>1
    <3> QED
      BY <3>2 DEF i
  <2>2. n <= Len(t) => \A i \in 1 .. n :
           ~MemberLess(s[i], t[i]) /\ ~MemberLess(t[i], s[i]) <=> ~Apart(s[i], t[i], below)
    BY <1>1, <1>3, SMTT(30) DEF Apart
  <2> QED
    BY <2>1, <2>2
<1>5. LexLess(s, t, MemberLess) <=> Before(s, t, below)
  BY <1>4 DEF LexLess, Before
<1> QED
  BY <1>5 DEF below, MemberLess, LexPairsBy

\* Variant::LessThan is the order by place and then by value.
LEMMA NestedLess ==
    ASSUME NEW S, NEW rel, NEW v \in Nested(S), NEW w \in Nested(S)
    PROVE  LessBy(v, w, rel) <=> Ordered(v, w, S, rel)
<1>1. CASE isNumber(v) /\ isNumber(w)
  <2>1. LessBy(v, w, rel) <=> NumbersLess(v, w)
    <3>1. v[1] \in {"integer", "uint", "real"}
      BY <1>1 DEF isNumber
    <3> QED
      BY <1>1, <3>1 DEF LessBy, LessThan
  <2>2. Group(v) = 3 /\ Group(w) = 3
    BY <1>1, GroupIs
  <2>3. v \in ScalarValues /\ w \in ScalarValues
    BY <2>2, ScalarOf
  <2>4. Ordered(v, w, S, rel) <=> Place(v) < Place(w)
    BY <2>2 DEF Ordered
  <2> QED
    BY <1>1, <2>1, <2>3, <2>4, NumbersCompare
<1>2. CASE ~(isNumber(v) /\ isNumber(w)) /\ v[1] # w[1]
  <2>1. LessBy(v, w, rel) <=> TypeId(v) < TypeId(w)
    BY <1>2 DEF LessBy, LessThan
  <2>2. \/ TypeId(v) \in 3 .. 5 /\ Group(v) = 3 /\ isNumber(v)
        \/ TypeId(v) = Group(v) /\ Group(v) \in {1, 2, 6, 7, 8, 9}
    BY GroupIs, TypeIdIs DEF isNumber
  <2>3. \/ TypeId(w) \in 3 .. 5 /\ Group(w) = 3 /\ isNumber(w)
        \/ TypeId(w) = Group(w) /\ Group(w) \in {1, 2, 6, 7, 8, 9}
    BY GroupIs, TypeIdIs DEF isNumber
  <2>4. Group(v) # Group(w)
    BY <1>2, GroupIs DEF isNumber
  <2> QED
    BY <1>2, <2>1, <2>2, <2>3, <2>4 DEF Ordered
<1>3. CASE v[1] = w[1] /\ v[1] \in {"null", "boolean", "string", "blob"}
  <2>1. ~isNumber(v)
    BY <1>3 DEF isNumber
  <2>2. Group(v) = Group(w) /\ Group(v) \notin {8, 9}
    BY <1>3, GroupIs
  <2>3. v \in ScalarValues /\ w \in ScalarValues
    BY <2>2, ScalarOf
  <2>4. Ordered(v, w, S, rel) <=> Place(v) < Place(w)
    BY <2>2, <2>3, ScalarCases DEF Ordered
  <2>5. CASE v[1] = "null"
    BY <1>3, <2>1, <2>4, <2>5 DEF LessBy, LessThan, Place
  <2>6. CASE v[1] = "boolean"
    <3>1. v[2] \in BOOLEAN /\ w[2] \in BOOLEAN
      BY <1>3, <2>3, <2>6, ScalarCases
    <3>2. Place(v) = (IF v[2] THEN 1 ELSE 0) /\ Place(w) = (IF w[2] THEN 1 ELSE 0)
      BY <1>3, <2>6 DEF Place
    <3>3. LessBy(v, w, rel) <=> ~v[2] /\ w[2]
      BY <1>3, <2>1, <2>6 DEF LessBy, LessThan
    <3> QED
      BY <2>4, <3>1, <3>2, <3>3
  <2>7. CASE v[1] \in {"string", "blob"}
    <3>1. Place(v) = v[2] /\ Place(w) = w[2]
      BY <1>3, <2>7 DEF Place
    <3>2. LessBy(v, w, rel) <=> v[2] < w[2]
      BY <1>3, <2>1, <2>7 DEF LessBy, LessThan
    <3> QED
      BY <2>4, <3>1, <3>2
  <2> QED
    BY <1>3, <2>5, <2>6, <2>7
<1>4. CASE v[1] = w[1] /\ v[1] = "array"
  <2>1. Group(v) = 8 /\ Group(w) = 8 /\ ~isNumber(v)
    BY <1>4, GroupIs DEF isNumber
  <2>2. v[2] \in Seq(S) /\ w[2] \in Seq(S)
    BY <2>1, ArrayOf
  <2>3. LessBy(v, w, rel) <=> LexBy(v[2], w[2], rel)
    BY <1>4, <2>1 DEF LessBy, LexBy, LessThan
  <2>4. Ordered(v, w, S, rel) <=> Before(v[2], w[2], rel)
    BY <2>1 DEF Ordered
  <2> QED
    BY <2>2, <2>3, <2>4, LexIsBefore
<1>5. CASE v[1] = w[1] /\ v[1] = "object"
  <2>1. Group(v) = 9 /\ Group(w) = 9 /\ ~isNumber(v)
    BY <1>5, GroupIs DEF isNumber
  <2>2. PairsOf(v[2]) \in Seq(Int \X S) /\ PairsOf(w[2]) \in Seq(Int \X S)
    BY <2>1, ObjectOf, PairsOfObject
  <2>3. LessBy(v, w, rel) <=> LexPairsBy(PairsOf(v[2]), PairsOf(w[2]), rel)
    BY <1>5, <2>1 DEF LessBy, LexPairsBy, LessThan, PairsOf
  <2>4. Ordered(v, w, S, rel) <=> Before(PairsOf(v[2]), PairsOf(w[2]), PairRel(S, rel))
    BY <2>1 DEF Ordered
  <2> QED
    BY <2>2, <2>3, <2>4, LexPairsIsBefore
<1>6. v[1] = w[1] => \/ isNumber(v) /\ isNumber(w)
                     \/ v[1] \in {"null", "boolean", "string", "blob", "array", "object"}
  BY GroupIs DEF isNumber
<1> QED
  BY <1>1, <1>2, <1>3, <1>4, <1>5, <1>6

\* VariantEquivalentTo is equivalence under that order, if == is for elements.
LEMMA NestedEqual ==
    ASSUME NEW S, NEW less, StrictWeak(S, less), NEW equal,
           \A x, y \in S : << x, y >> \in equal <=> ~Apart(x, y, less),
           NEW v \in Nested(S), NEW w \in Nested(S)
    PROVE  EqualBy(v, w, equal) <=> ~Ordered(v, w, S, less) /\ ~Ordered(w, v, S, less)
<1>1. CASE isNumber(v) /\ isNumber(w)
  <2>1. EqualBy(v, w, equal) <=> NumbersEqual(v, w)
    BY <1>1 DEF EqualBy, EqualTo
  <2>2. Group(v) = 3 /\ Group(w) = 3
    BY <1>1, GroupIs
  <2>3. v \in ScalarValues /\ w \in ScalarValues
    BY <2>2, ScalarOf
  <2> QED
    BY <1>1, <2>1, <2>2, <2>3, NumbersCompare, NestedAlike
<1>2. CASE ~(isNumber(v) /\ isNumber(w)) /\ v[1] # w[1]
  <2>1. ~EqualBy(v, w, equal)
    BY <1>2 DEF EqualBy, EqualTo
  <2>2. Group(v) # Group(w)
    BY <1>2, GroupIs DEF isNumber
  <2> QED
    BY <2>1, <2>2, NestedAlike
<1>3. CASE v[1] = w[1] /\ v[1] \in {"null", "boolean", "string", "blob"}
  <2>1. EqualBy(v, w, equal) <=> v[2] = w[2]
    BY <1>3 DEF EqualBy, EqualTo, isNumber
  <2>2. Group(v) = Group(w) /\ Group(v) \notin {8, 9}
    BY <1>3, GroupIs
  <2>3. v \in ScalarValues /\ w \in ScalarValues
    BY <2>2, ScalarOf
  <2>4. v[2] = w[2] <=> Place(v) = Place(w)
    <3>1. CASE v[1] = "null"
      BY <1>3, <2>3, <3>1, ScalarCases DEF Place
    <3>2. CASE v[1] = "boolean"
      <4>1. v[2] \in BOOLEAN /\ w[2] \in BOOLEAN
        BY <1>3, <2>3, <3>2, ScalarCases
      <4>2. Place(v) = (IF v[2] THEN 1 ELSE 0) /\ Place(w) = (IF w[2] THEN 1 ELSE 0)
        BY <1>3, <3>2 DEF Place
      <4> QED
        BY <4>1, <4>2
    <3>3. CASE v[1] \in {"string", "blob"}
      BY <1>3, <3>3 DEF Place
    <3> QED
      BY <1>3, <3>1, <3>2, <3>3
  <2> QED
    BY <2>1, <2>2, <2>4, NestedAlike
<1>4. CASE v[1] = w[1] /\ v[1] = "array"
  <2>1. Group(v) = 8 /\ Group(w) = 8 /\ ~isNumber(v)
    BY <1>4, GroupIs DEF isNumber
  <2>2. v[2] \in Seq(S) /\ w[2] \in Seq(S)
    BY <2>1, ArrayOf
  <2>3. EqualBy(v, w, equal) <=>
          Len(v[2]) = Len(w[2]) /\ \A i \in DOMAIN v[2] : << v[2][i], w[2][i] >> \in equal
    BY <1>4, <2>1 DEF EqualBy, EqualTo
  <2>4. DOMAIN v[2] = 1 .. Len(v[2])
    BY <2>2
  <2>5. ASSUME Len(v[2]) = Len(w[2]), NEW i \in 1 .. Len(v[2])
        PROVE  << v[2][i], w[2][i] >> \in equal <=> ~Apart(v[2][i], w[2][i], less)
    <3>1. v[2][i] \in S /\ w[2][i] \in S
      BY <2>2, <2>5
    <3> QED
      BY <3>1
  <2>6. EqualBy(v, w, equal) <=> Alike(v[2], w[2], less)
    BY <2>3, <2>4, <2>5 DEF Alike
  <2> QED
    BY <2>1, <2>6, NestedAlike
<1>5. CASE v[1] = w[1] /\ v[1] = "object"
  <2>1. Group(v) = 9 /\ Group(w) = 9 /\ ~isNumber(v)
    BY <1>5, GroupIs DEF isNumber
  <2>2. v[2] \in [DOMAIN v[2] -> S] /\ w[2] \in [DOMAIN w[2] -> S]
    BY <2>1, ObjectOf
  <2>3. EqualBy(v, w, equal) <=>
          DOMAIN v[2] = DOMAIN w[2] /\ \A k \in DOMAIN v[2] : << v[2][k], w[2][k] >> \in equal
    BY <1>5, <2>1 DEF EqualBy, EqualTo
  <2>4. ASSUME DOMAIN v[2] = DOMAIN w[2], NEW k \in DOMAIN v[2]
        PROVE  << v[2][k], w[2][k] >> \in equal <=> ~Apart(v[2][k], w[2][k], less)
    <3>1. v[2][k] \in S /\ w[2][k] \in S
      BY <2>2, <2>4
    <3> QED
      BY <3>1
  <2>5. EqualBy(v, w, equal) <=>
          DOMAIN v[2] = DOMAIN w[2] /\ \A k \in DOMAIN v[2] : ~Apart(v[2][k], w[2][k], less)
    BY <2>3, <2>4
  <2> QED
    BY <2>1, <2>5, NestedAlike
<1>6. v[1] = w[1] => \/ isNumber(v) /\ isNumber(w)
                     \/ v[1] \in {"null", "boolean", "string", "blob", "array", "object"}
  BY GroupIs DEF isNumber
<1> QED
  BY <1>1, <1>2, <1>3, <1>4, <1>5, <1>6

\* operator!= is the opposite of operator==, whatever it is given.
LEMMA NotEqualIsOpposite ==
    ASSUME NEW equal, NEW v, NEW w
    PROVE  NotEqualBy(v, w, equal) <=> ~EqualBy(v, w, equal)
<1>1. CASE isNumber(v) /\ isNumber(w)
  <2>1. v[1] \in {"integer", "uint", "real"}
    BY <1>1 DEF isNumber
  <2> QED
    BY <1>1, <2>1 DEF NotEqualBy, EqualBy, NotEqualTo, EqualTo, NumbersEqual
<1>2. CASE ~(isNumber(v) /\ isNumber(w)) /\ v[1] # w[1]
  BY <1>2 DEF NotEqualBy, EqualBy, NotEqualTo, EqualTo
<1>3. CASE ~(isNumber(v) /\ isNumber(w)) /\ v[1] = w[1]
  BY <1>3 DEF NotEqualBy, EqualBy, NotEqualTo, EqualTo
<1> QED
  BY <1>1, <1>2, <1>3

\* The variants of each depth, and < and == as their equations define them
IsVariants(V) == V[0] = {} /\ \A n \in Nat : V[n + 1] = Nested(V[n])
AreOperators(V, equal, less) ==
    \A n \in Nat : \A v, w \in V[n] :
        /\ << v, w >> \in equal <=> EqualBy(v, w, equal)
        /\ << v, w >> \in less <=> LessBy(v, w, less)

\* Variants of any depth may be keys of associative containers: < is a strict
\* weak order among all of them whose numbers a real can hold, the infinities
\* included and NaN excluded, two variants are equivalent under it if and only if
\* ==, which is transitive, holds for them, and != as it is written out on its own
\* is the opposite of ==.  Here < and == are any relations that satisfy the
\* recursive equations of the code.  What is left of this with NaN is theorem
\* VariantsWithNaN; of an Int or UInt that is rounded when it meets a real, beyond
\* 2^53, it says nothing.
THEOREM VariantsInOrder ==
    ASSUME NEW V, IsVariants(V), NEW equal, NEW less, AreOperators(V, equal, less),
           NEW n \in Nat, NEW x \in V[n], NEW y \in V[n], NEW z \in V[n]
    PROVE  /\ ~(<< x, y >> \in less /\ << y, x >> \in less)
           /\ << x, y >> \in less /\ << y, z >> \in less => << x, z >> \in less
           /\ << x, y >> \in equal <=> ~(<< x, y >> \in less) /\ ~(<< y, x >> \in less)
           /\ << x, y >> \in equal /\ << y, z >> \in equal => << x, z >> \in equal
           /\ NotEqualBy(x, y, equal) <=> ~(<< x, y >> \in equal)
<1> DEFINE Good(S) == StrictWeak(S, less) /\ \A v, w \in S : << v, w >> \in equal <=> ~Apart(v, w, less)
           Bad == { m \in Nat : ~Good(V[m]) }
<1>1. ASSUME NEW m \in Nat, Good(V[m]) PROVE Good(V[m + 1])
  <2> DEFINE S == V[m]
             T == V[m + 1]
  <2>1. T = Nested(S) /\ m + 1 \in Nat
    BY DEF IsVariants
  <2>2. ASSUME NEW v \in T, NEW w \in T
        PROVE  /\ << v, w >> \in less <=> Ordered(v, w, S, less)
               /\ << v, w >> \in equal <=> ~Ordered(v, w, S, less) /\ ~Ordered(w, v, S, less)
    <3>1. /\ << v, w >> \in equal <=> EqualBy(v, w, equal)
          /\ << v, w >> \in less <=> LessBy(v, w, less)
      BY <2>1 DEF AreOperators
    <3>2. v \in Nested(S) /\ w \in Nested(S)
      BY <2>1
    <3>3. LessBy(v, w, less) <=> Ordered(v, w, S, less)
      BY <3>2, NestedLess
    <3>4. EqualBy(v, w, equal) <=> ~Ordered(v, w, S, less) /\ ~Ordered(w, v, S, less)
      BY <1>1, <3>2, NestedEqual
    <3> QED
      BY <3>1, <3>3, <3>4
  <2>3. StrictWeak(T, less)
    <3> SUFFICES ASSUME NEW u \in T, NEW v \in T, NEW w \in T
                 PROVE  /\ ~(<< u, v >> \in less /\ << v, u >> \in less)
                        /\ << u, w >> \in less => << u, v >> \in less \/ << v, w >> \in less
      BY DEF StrictWeak
    <3>1. u \in Nested(S) /\ v \in Nested(S) /\ w \in Nested(S) /\ StrictWeak(S, less)
      BY <1>1, <2>1
    <3>2. /\ ~(Ordered(u, v, S, less) /\ Ordered(v, u, S, less))
          /\ Ordered(u, w, S, less) => Ordered(u, v, S, less) \/ Ordered(v, w, S, less)
      BY <3>1, NestedInOrder
    <3> QED
      BY <2>2, <3>2
  <2>4. \A v, w \in T : << v, w >> \in equal <=> ~Apart(v, w, less)
    BY <2>2 DEF Apart
  <2> QED
    BY <2>3, <2>4
<1>2. Good(V[0])
  BY DEF IsVariants, StrictWeak
<1>3. Good(V[n])
  <2> SUFFICES ASSUME ~Good(V[n]) PROVE FALSE
    OBVIOUS
  <2>1. Bad \subseteq Nat /\ n \in Bad
    OBVIOUS
  <2> HIDE DEF Good
  <2>2. \A m \in Nat : m \in Bad <=> ~Good(V[m])
    OBVIOUS
  <2> HIDE DEF Bad
  <2>3. PICK m \in Bad : \A j \in Bad : m <= j
    BY <2>1, LeastOf
  <2>4. m # 0 /\ m \in Nat
    BY <1>2, <2>1, <2>2
  <2>5. m - 1 \in Nat /\ (m - 1) + 1 = m /\ m - 1 \notin Bad
    BY <2>3, <2>4, <2>1
  <2>6. Good(V[m - 1])
    BY <2>2, <2>5
  <2>7. Good(V[m])
    BY <1>1, <2>5, <2>6
  <2> QED
    BY <2>2, <2>3, <2>4, <2>7
<1>4. NotEqualBy(x, y, equal) <=> ~(<< x, y >> \in equal)
  BY NotEqualIsOpposite DEF AreOperators
<1>5. StrictWeak(V[n], less) /\ \A v, w \in V[n] : << v, w >> \in equal <=> ~Apart(v, w, less)
  BY <1>3
<1>6. /\ << x, y >> \in less /\ << y, z >> \in less => << x, z >> \in less
      /\ ~Apart(x, y, less) /\ ~Apart(y, z, less) => ~Apart(x, z, less)
  BY <1>5, OrderFacts
<1>7. ~(<< x, y >> \in less /\ << y, x >> \in less)
  BY <1>5 DEF StrictWeak
<1> QED
  BY <1>4, <1>5, <1>6, <1>7 DEF Apart

-----------------------------------------------------------------------------
(* Variants with NaN *)

\* The variants whose elements, if they have any, are in S, and NaN
NestedOrNaN(S) == Nested(S) \cup {<< "real", NaN >>}

\* NaN has nothing before it and nothing behind it among numbers, and has its
\* place among the types.
LEMMA NaNAsym ==
    ASSUME NEW S, NEW rel, NEW v, isNaN(v), NEW w \in NestedOrNaN(S)
    PROVE  /\ ~(LessBy(v, w, rel) /\ LessBy(w, v, rel))
           /\ isNumber(w) => ~LessBy(v, w, rel) /\ ~LessBy(w, v, rel)
<1>1. isNumber(v) /\ v[1] = "real" /\ Unordered(v, w) /\ Unordered(w, v)
  BY DEF isNumber, isNaN, Unordered
<1>2. CASE isNumber(w)
  <2>1. w[1] \in {"integer", "uint", "real"}
    BY <1>2 DEF isNumber
  <2>2. ~NegativeAgainst(v, w)
    <3>1. v[2] = MaxReal + 2 /\ MaxReal \in Nat
      BY VariantAssumption DEF isNaN, NaN, Infinity
    <3> QED
      BY <3>1 DEF NegativeAgainst
  <2>3. ~NegativeAgainst(w, v)
    BY <1>1 DEF NegativeAgainst, isSigned
  <2>4. ~NumbersLess(v, w) /\ ~NumbersLess(w, v)
    BY <1>1, <2>2, <2>3 DEF NumbersLess
  <2> QED
    BY <1>1, <1>2, <2>1, <2>4 DEF LessBy, LessThan
<1>3. CASE ~isNumber(w)
  <2>1. w \in Nested(S)
    BY <1>3 DEF NestedOrNaN, isNumber
  <2>2. w[1] \in {"null", "boolean", "string", "blob", "array", "object"}
    BY <1>3, <2>1, GroupIs DEF isNumber
  <2>3. TypeId(v) \in Nat /\ TypeId(w) \in Nat
    BY <1>1, <2>2, TypeIdIs
  <2>4. /\ LessBy(v, w, rel) <=> TypeId(v) < TypeId(w)
        /\ LessBy(w, v, rel) <=> TypeId(w) < TypeId(v)
    BY <1>1, <1>3, <2>2 DEF LessBy, LessThan
  <2> QED
    BY <1>3, <2>3, <2>4
<1> QED
  BY <1>2, <1>3

\* operator< is asymmetric if it is for elements.
LEMMA LessAsym ==
    ASSUME NEW S, NEW rel, Asymmetric(S, rel), NEW v \in NestedOrNaN(S), NEW w \in NestedOrNaN(S)
    PROVE  ~(LessBy(v, w, rel) /\ LessBy(w, v, rel))
<1>1. CASE isNaN(v)
  BY <1>1, NaNAsym
<1>2. CASE isNaN(w)
  BY <1>2, NaNAsym
<1>3. CASE ~isNaN(v) /\ ~isNaN(w)
  <2>1. v \in Nested(S) /\ w \in Nested(S)
    BY <1>3 DEF NestedOrNaN, isNaN
  <2> QED
    BY <2>1, NestedLess, NestedAsym
<1> QED
  BY <1>1, <1>2, <1>3

\* operator== is symmetric if it is for elements, and NaN equals nothing.
LEMMA EqualSym ==
    ASSUME NEW S, NEW equal, \A x, y \in S : << x, y >> \in equal => << y, x >> \in equal,
           NEW v \in NestedOrNaN(S), NEW w \in NestedOrNaN(S), EqualBy(v, w, equal)
    PROVE  EqualBy(w, v, equal) /\ ~isNaN(v)
<1>1. CASE isNumber(v) /\ isNumber(w)
  <2>1. NumbersEqual(v, w)
    BY <1>1 DEF EqualBy, EqualTo
  <2>2. NumbersEqual(w, v) /\ ~isNaN(v)
    BY <2>1 DEF NumbersEqual, Unordered
  <2> QED
    BY <1>1, <2>2 DEF EqualBy, EqualTo
<1>2. CASE ~(isNumber(v) /\ isNumber(w))
  <2>1. v[1] = w[1] /\ ~isNumber(v) /\ ~isNumber(w)
    BY <1>2 DEF EqualBy, EqualTo, isNumber
  <2>2. ~isNaN(v) /\ ~isNaN(w)
    BY <2>1 DEF isNaN, isNumber
  <2>3. v \in Nested(S) /\ w \in Nested(S)
    BY <2>2 DEF NestedOrNaN, isNaN
  <2>4. CASE v[1] = "array"
    <3>1. v[2] \in Seq(S) /\ w[2] \in Seq(S)
      BY <2>1, <2>3, <2>4, GroupIs, ArrayOf
    <3>2. Len(v[2]) = Len(w[2]) /\ \A i \in DOMAIN v[2] : << v[2][i], w[2][i] >> \in equal
      BY <2>1, <2>4 DEF EqualBy, EqualTo
    <3>3. DOMAIN v[2] = 1 .. Len(v[2]) /\ DOMAIN w[2] = 1 .. Len(v[2])
      BY <3>1, <3>2
    <3>4. ASSUME NEW i \in DOMAIN w[2] PROVE << w[2][i], v[2][i] >> \in equal
      <4>1. v[2][i] \in S /\ w[2][i] \in S
        BY <3>1, <3>3
      <4> QED
        BY <3>2, <3>3, <4>1
    <3> QED
      BY <2>1, <2>2, <2>4, <3>2, <3>4 DEF EqualBy, EqualTo
  <2>5. CASE v[1] = "object"
    <3>1. v[2] \in [DOMAIN v[2] -> S] /\ w[2] \in [DOMAIN w[2] -> S]
      BY <2>1, <2>3, <2>5, GroupIs, ObjectOf
    <3>2. DOMAIN v[2] = DOMAIN w[2] /\ \A k \in DOMAIN v[2] : << v[2][k], w[2][k] >> \in equal
      BY <2>1, <2>5 DEF EqualBy, EqualTo
    <3>3. ASSUME NEW k \in DOMAIN w[2] PROVE << w[2][k], v[2][k] >> \in equal
      <4>1. v[2][k] \in S /\ w[2][k] \in S
        BY <3>1, <3>2
      <4> QED
        BY <3>2, <4>1
    <3> QED
      BY <2>1, <2>2, <2>5, <3>2, <3>3 DEF EqualBy, EqualTo
  <2>6. CASE v[1] \notin {"array", "object"}
    BY <2>1, <2>2, <2>6 DEF EqualBy, EqualTo
  <2> QED
    BY <2>4, <2>5, <2>6
<1> QED
  BY <1>1, <1>2

\* The variants of each depth, NaN included
IsVariantsOrNaN(V) == V[0] = {} /\ \A n \in Nat : V[n + 1] = NestedOrNaN(V[n])

\* What is left of the order of variants when NaN may be anywhere in them, at any
\* depth: < is asymmetric, == is symmetric and != is its opposite.  NaN is equal
\* to nothing, but neither before nor behind any number: it is equivalent under <
\* to numbers that are not equivalent to each other, so that < is no strict weak
\* order with it.
THEOREM VariantsWithNaN ==
    ASSUME NEW V, IsVariantsOrNaN(V), NEW equal, NEW less, AreOperators(V, equal, less),
           NEW n \in Nat, NEW x \in V[n], NEW y \in V[n]
    PROVE  /\ ~(<< x, y >> \in less /\ << y, x >> \in less)
           /\ << x, y >> \in equal => << y, x >> \in equal
           /\ NotEqualBy(x, y, equal) <=> ~(<< x, y >> \in equal)
           /\ isNaN(x) => ~(<< x, y >> \in equal)
           /\ isNaN(x) /\ isNumber(y) => ~(<< x, y >> \in less) /\ ~(<< y, x >> \in less)
<1> DEFINE Good(S) == Asymmetric(S, less) /\ \A v, w \in S : << v, w >> \in equal => << w, v >> \in equal
           Bad == { m \in Nat : ~Good(V[m]) }
<1>1. ASSUME NEW m \in Nat, Good(V[m]), NEW v \in V[m + 1], NEW w \in V[m + 1]
      PROVE  /\ ~(<< v, w >> \in less /\ << w, v >> \in less)
             /\ << v, w >> \in equal => << w, v >> \in equal /\ ~isNaN(v)
             /\ isNaN(v) /\ isNumber(w) => ~(<< v, w >> \in less) /\ ~(<< w, v >> \in less)
  <2>1. v \in NestedOrNaN(V[m]) /\ w \in NestedOrNaN(V[m]) /\ m + 1 \in Nat
    BY DEF IsVariantsOrNaN
  <2>2. /\ << v, w >> \in equal <=> EqualBy(v, w, equal)
        /\ << w, v >> \in equal <=> EqualBy(w, v, equal)
        /\ << v, w >> \in less <=> LessBy(v, w, less)
        /\ << w, v >> \in less <=> LessBy(w, v, less)
    BY <2>1 DEF AreOperators
  <2>3. ~(LessBy(v, w, less) /\ LessBy(w, v, less))
    BY <1>1, <2>1, LessAsym
  <2>4. EqualBy(v, w, equal) => EqualBy(w, v, equal) /\ ~isNaN(v)
    BY <1>1, <2>1, EqualSym
  <2>5. isNaN(v) /\ isNumber(w) => ~LessBy(v, w, less) /\ ~LessBy(w, v, less)
    BY <2>1, NaNAsym
  <2> QED
    BY <2>2, <2>3, <2>4, <2>5
<1>2. Good(V[0])
  BY DEF IsVariantsOrNaN, Asymmetric
<1>3. ASSUME NEW m \in Nat, Good(V[m]) PROVE Good(V[m + 1])
  BY <1>1, <1>3 DEF Asymmetric
<1>4. ASSUME NEW k \in Nat PROVE Good(V[k])
  <2> SUFFICES ASSUME ~Good(V[k]) PROVE FALSE
    OBVIOUS
  <2>1. Bad \subseteq Nat /\ k \in Bad
    OBVIOUS
  <2> HIDE DEF Good
  <2>2. \A m \in Nat : m \in Bad <=> ~Good(V[m])
    OBVIOUS
  <2> HIDE DEF Bad
  <2>3. PICK m \in Bad : \A j \in Bad : m <= j
    BY <2>1, LeastOf
  <2>4. m # 0 /\ m \in Nat
    BY <1>2, <2>1, <2>2
  <2>5. m - 1 \in Nat /\ (m - 1) + 1 = m /\ m - 1 \notin Bad
    BY <2>3, <2>4, <2>1
  <2>6. Good(V[m - 1])
    BY <2>2, <2>5
  <2>7. Good(V[m])
    BY <1>3, <2>5, <2>6
  <2> QED
    BY <2>2, <2>3, <2>4, <2>7
<1>5. n # 0
  BY DEF IsVariantsOrNaN
<1>6. n - 1 \in Nat /\ (n - 1) + 1 = n
  BY <1>5
<1>7. Good(V[n - 1]) /\ x \in V[(n - 1) + 1] /\ y \in V[(n - 1) + 1]
  BY <1>4, <1>6
<1>8. NotEqualBy(x, y, equal) <=> ~(<< x, y >> \in equal)
  BY NotEqualIsOpposite DEF AreOperators
<1> HIDE DEF Good
<1> QED
  BY <1>1, <1>6, <1>7, <1>8

-----------------------------------------------------------------------------
(* The table of messages and their classes *)

\* The enumerators of WampMsgType differ from each other and fit 8 bits.
LEMMA Numbers ==
    /\ DOMAIN MsgTypeNumber = WampMsgType /\ DOMAIN Schema = WampMsgType
    /\ \A t \in WampMsgType : MsgTypeNumber[t] \in Nat /\ MsgTypeNumber[t] < 256
    /\ \A t, u \in WampMsgType : MsgTypeNumber[t] = MsgTypeNumber[u] => t = u
<1>1. DOMAIN MsgTypeNumber = WampMsgType
  BY DEF MsgTypeNumber, WampMsgType
<1>2. DOMAIN Schema = WampMsgType
  BY DEF Schema, WampMsgType
<1>3. \A t \in WampMsgType : MsgTypeNumber[t] \in Nat /\ MsgTypeNumber[t] < 256
  BY DEF MsgTypeNumber, WampMsgType
<1>4. \A t, u \in WampMsgType : MsgTypeNumber[t] = MsgTypeNumber[u] => t = u
  BY DEF MsgTypeNumber, WampMsgType
<1> QED
  BY <1>1, <1>2, <1>3, <1>4

\* What a row of the table and the class of a message agree on
RowIs(t, minSize, fieldTypes, optionsAt, argsAt, reads) ==
    /\ Schema[t].minSize = minSize /\ Schema[t].fieldTypes = fieldTypes
    /\ MessageClass(t, 0).optionsPos = optionsAt /\ MessageClass(t, 0).argsPos = argsAt
    /\ MessageClass(t, 0).reads = reads

\* Every position that the class of a message reads is there in every message
\* of the type, with the type that it is read as.  Arguments are what may be left
\* out, and are last.
RowFits(t) ==
    LET s == Schema[t]
        c == MessageClass(t, 0)
        n == Len(s.fieldTypes)
    IN /\ s.minSize \in Nat /\ n \in Nat /\ 2 <= s.minSize /\ s.minSize <= n
       /\ s.fieldTypes[1] = "integer"
       /\ \A r \in c.reads : r[1] \in Nat /\ r[1] < s.minSize /\ s.fieldTypes[r[1] + 1] = r[2]
       /\ c.optionsPos # None =>
             c.optionsPos \in Nat /\ c.optionsPos > 0 /\ c.optionsPos < s.minSize /\ s.fieldTypes[c.optionsPos + 1] = "object"
       /\ c.argsPos # None =>
             /\ c.argsPos = s.minSize /\ n = c.argsPos + 2
             /\ s.fieldTypes[c.argsPos + 1] = "array" /\ s.fieldTypes[c.argsPos + 2] = "object"
       /\ t \in hasRequestId => s.fieldTypes[2] = "integer"

\* The row and the class of HELLO, CHALLENGE and AUTHENTICATE.
LEMMA HelloRow ==
    ASSUME NEW t \in {"hello", "challenge", "authenticate"}
    PROVE  RowFits(t) /\ RowIs(t, 3, << "integer", "string", "object" >>, 2, 0, {<< 1, "string" >>})
<1> DEFINE types == << "integer", "string", "object" >>
           reads == {<< 1, "string" >>}
<1>1. RowIs(t, 3, types, 2, 0, reads)
  BY SMTT(30) DEF RowIs, Schema, Row, None, Fields, MessageClass, HelloMessage, ChallengeMessage, AuthenticateMessage
<1>2. Len(types) = 3 /\ types[1] = "integer" /\ \A r \in reads : r[1] \in Nat /\ r[1] < 3 /\ types[r[1] + 1] = r[2]
  OBVIOUS
<1>3. t \notin hasRequestId
  BY DEF hasRequestId
<1>4. types[3] = "object"
  OBVIOUS
<1>6. RowFits(t)
  <2> HIDE DEF types, reads
  <2> QED
    BY <1>1, <1>2, <1>3, <1>4 DEF RowFits, RowIs, None
<1> QED
  BY <1>1, <1>6

\* The row and the class of WELCOME, CANCEL and INTERRUPT.
LEMMA WelcomeRow ==
    ASSUME NEW t \in {"welcome", "cancel", "interrupt"}
    PROVE  RowFits(t) /\ RowIs(t, 3, << "integer", "integer", "object" >>, 2, 0, {<< 1, "integer" >>})
<1> DEFINE types == << "integer", "integer", "object" >>
           reads == {<< 1, "integer" >>}
<1>1. RowIs(t, 3, types, 2, 0, reads)
  BY SMTT(30) DEF RowIs, Schema, Row, None, Fields, MessageClass, WelcomeMessage, CancelMessage, InterruptMessage
<1>2. Len(types) = 3 /\ types[1] = "integer" /\ \A r \in reads : r[1] \in Nat /\ r[1] < 3 /\ types[r[1] + 1] = r[2]
  OBVIOUS
<1>3. types[2] = "integer"
  OBVIOUS
<1>4. types[3] = "object"
  OBVIOUS
<1>6. RowFits(t)
  <2> HIDE DEF types, reads
  <2> QED
    BY <1>1, <1>2, <1>3, <1>4 DEF RowFits, RowIs, None
<1> QED
  BY <1>1, <1>6

\* The row and the class of ABORT and GOODBYE.
LEMMA AbortRow ==
    ASSUME NEW t \in {"abort", "goodbye"}
    PROVE  RowFits(t) /\ RowIs(t, 3, << "integer", "object", "string" >>, 1, 0, {<< 2, "string" >>})
<1> DEFINE types == << "integer", "object", "string" >>
           reads == {<< 2, "string" >>}
<1>1. RowIs(t, 3, types, 1, 0, reads)
  BY SMTT(30) DEF RowIs, Schema, Row, None, Fields, MessageClass, AbortMessage, GoodbyeMessage
<1>2. Len(types) = 3 /\ types[1] = "integer" /\ \A r \in reads : r[1] \in Nat /\ r[1] < 3 /\ types[r[1] + 1] = r[2]
  OBVIOUS
<1>3. t \notin hasRequestId
  BY DEF hasRequestId
<1>4. types[2] = "object"
  OBVIOUS
<1>6. RowFits(t)
  <2> HIDE DEF types, reads
  <2> QED
    BY <1>1, <1>2, <1>3, <1>4 DEF RowFits, RowIs, None
<1> QED
  BY <1>1, <1>6

\* The row and the class of ERROR.
LEMMA ErrorRow ==
    ASSUME NEW t \in {"error"}
    PROVE  RowFits(t) /\ RowIs(t, 5, << "integer", "integer", "integer", "object", "string", "array", "object" >>, 3, 5, {<< 1, "integer" >>, << 2, "integer" >>, << 4, "string" >>})
<1> DEFINE types == << "integer", "integer", "integer", "object", "string", "array", "object" >>
           reads == {<< 1, "integer" >>, << 2, "integer" >>, << 4, "string" >>}
<1>1. RowIs(t, 5, types, 3, 5, reads)
  BY SMTT(30) DEF RowIs, Schema, Row, None, Fields, MessageClass, ErrorMessage
<1>2. Len(types) = 7 /\ types[1] = "integer" /\ \A r \in reads : r[1] \in Nat /\ r[1] < 5 /\ types[r[1] + 1] = r[2]
  OBVIOUS
<1>3. types[2] = "integer"
  OBVIOUS
<1>4. types[4] = "object"
  OBVIOUS
<1>5. types[6] = "array" /\ types[7] = "object"
  OBVIOUS
<1>6. RowFits(t)
  <2> HIDE DEF types, reads
  <2> QED
    BY <1>1, <1>2, <1>3, <1>4, <1>5 DEF RowFits, RowIs, None
<1> QED
  BY <1>1, <1>6

\* The row and the class of PUBLISH and CALL.
LEMMA CallRow ==
    ASSUME NEW t \in {"publish", "call"}
    PROVE  RowFits(t) /\ RowIs(t, 4, << "integer", "integer", "object", "string", "array", "object" >>, 2, 4, {<< 1, "integer" >>, << 3, "string" >>})
<1> DEFINE types == << "integer", "integer", "object", "string", "array", "object" >>
           reads == {<< 1, "integer" >>, << 3, "string" >>}
<1>1. RowIs(t, 4, types, 2, 4, reads)
  BY SMTT(30) DEF RowIs, Schema, Row, None, Fields, MessageClass, PublishMessage, CallMessage
<1>2. Len(types) = 6 /\ types[1] = "integer" /\ \A r \in reads : r[1] \in Nat /\ r[1] < 4 /\ types[r[1] + 1] = r[2]
  OBVIOUS
<1>3. types[2] = "integer"
  OBVIOUS
<1>4. types[3] = "object"
  OBVIOUS
<1>5. types[5] = "array" /\ types[6] = "object"
  OBVIOUS
<1>6. RowFits(t)
  <2> HIDE DEF types, reads
  <2> QED
    BY <1>1, <1>2, <1>3, <1>4, <1>5 DEF RowFits, RowIs, None
<1> QED
  BY <1>1, <1>6

\* The row and the class of the messages of two IDs.
LEMMA IdsRow ==
    ASSUME NEW t \in {"published", "subscribed", "unsubscribe", "registered", "unregister"}
    PROVE  RowFits(t) /\ RowIs(t, 3, << "integer", "integer", "integer" >>, 0, 0, {<< 1, "integer" >>, << 2, "integer" >>})
<1> DEFINE types == << "integer", "integer", "integer" >>
           reads == {<< 1, "integer" >>, << 2, "integer" >>}
<1>1. RowIs(t, 3, types, 0, 0, reads)
  BY SMTT(30) DEF RowIs, Schema, Row, None, Fields, MessageClass, PublishedMessage, SubscribedMessage, UnsubscribeMessage, RegisteredMessage, UnregisterMessage
<1>2. Len(types) = 3 /\ types[1] = "integer" /\ \A r \in reads : r[1] \in Nat /\ r[1] < 3 /\ types[r[1] + 1] = r[2]
  OBVIOUS
<1>3. types[2] = "integer"
  OBVIOUS
<1>6. RowFits(t)
  <2> HIDE DEF types, reads
  <2> QED
    BY <1>1, <1>2, <1>3 DEF RowFits, RowIs, None
<1> QED
  BY <1>1, <1>6

\* The row and the class of SUBSCRIBE and REGISTER.
LEMMA SubscribeRow ==
    ASSUME NEW t \in {"subscribe", "enroll"}
    PROVE  RowFits(t) /\ RowIs(t, 4, << "integer", "integer", "object", "string" >>, 2, 0, {<< 1, "integer" >>, << 3, "string" >>})
<1> DEFINE types == << "integer", "integer", "object", "string" >>
           reads == {<< 1, "integer" >>, << 3, "string" >>}
<1>1. RowIs(t, 4, types, 2, 0, reads)
  BY SMTT(30) DEF RowIs, Schema, Row, None, Fields, MessageClass, SubscribeMessage, RegisterMessage
<1>2. Len(types) = 4 /\ types[1] = "integer" /\ \A r \in reads : r[1] \in Nat /\ r[1] < 4 /\ types[r[1] + 1] = r[2]
  OBVIOUS
<1>3. types[2] = "integer"
  OBVIOUS
<1>4. types[3] = "object"
  OBVIOUS
<1>6. RowFits(t)
  <2> HIDE DEF types, reads
  <2> QED
    BY <1>1, <1>2, <1>3, <1>4 DEF RowFits, RowIs, None
<1> QED
  BY <1>1, <1>6

\* The row and the class of UNSUBSCRIBED and UNREGISTERED.
LEMMA UnsubscribedRow ==
    ASSUME NEW t \in {"unsubscribed", "unregistered"}
    PROVE  RowFits(t) /\ RowIs(t, 2, << "integer", "integer" >>, 0, 0, {<< 1, "integer" >>})
<1> DEFINE types == << "integer", "integer" >>
           reads == {<< 1, "integer" >>}
<1>1. RowIs(t, 2, types, 0, 0, reads)
  BY SMTT(30) DEF RowIs, Schema, Row, None, Fields, MessageClass, UnsubscribedMessage, UnregisteredMessage
<1>2. Len(types) = 2 /\ types[1] = "integer" /\ \A r \in reads : r[1] \in Nat /\ r[1] < 2 /\ types[r[1] + 1] = r[2]
  OBVIOUS
<1>3. types[2] = "integer"
  OBVIOUS
<1>6. RowFits(t)
  <2> HIDE DEF types, reads
  <2> QED
    BY <1>1, <1>2, <1>3 DEF RowFits, RowIs, None
<1> QED
  BY <1>1, <1>6

\* The row and the class of EVENT and INVOCATION.
LEMMA EventRow ==
    ASSUME NEW t \in {"event", "invocation"}
    PROVE  RowFits(t) /\ RowIs(t, 4, << "integer", "integer", "integer", "object", "array", "object" >>, 3, 4, {<< 1, "integer" >>, << 2, "integer" >>})
<1> DEFINE types == << "integer", "integer", "integer", "object", "array", "object" >>
           reads == {<< 1, "integer" >>, << 2, "integer" >>}
<1>1. RowIs(t, 4, types, 3, 4, reads)
  BY SMTT(30) DEF RowIs, Schema, Row, None, Fields, MessageClass, EventMessage, InvocationMessage
<1>2. Len(types) = 6 /\ types[1] = "integer" /\ \A r \in reads : r[1] \in Nat /\ r[1] < 4 /\ types[r[1] + 1] = r[2]
  OBVIOUS
<1>3. types[2] = "integer"
  OBVIOUS
<1>4. types[4] = "object"
  OBVIOUS
<1>5. types[5] = "array" /\ types[6] = "object"
  OBVIOUS
<1>6. RowFits(t)
  <2> HIDE DEF types, reads
  <2> QED
    BY <1>1, <1>2, <1>3, <1>4, <1>5 DEF RowFits, RowIs, None
<1> QED
  BY <1>1, <1>6

\* The row and the class of RESULT and YIELD.
LEMMA ResultRow ==
    ASSUME NEW t \in {"result", "yield"}
    PROVE  RowFits(t) /\ RowIs(t, 3, << "integer", "integer", "object", "array", "object" >>, 2, 3, {<< 1, "integer" >>})
<1> DEFINE types == << "integer", "integer", "object", "array", "object" >>
           reads == {<< 1, "integer" >>}
<1>1. RowIs(t, 3, types, 2, 3, reads)
  BY SMTT(30) DEF RowIs, Schema, Row, None, Fields, MessageClass, ResultMessage, YieldMessage
<1>2. Len(types) = 5 /\ types[1] = "integer" /\ \A r \in reads : r[1] \in Nat /\ r[1] < 3 /\ types[r[1] + 1] = r[2]
  OBVIOUS
<1>3. types[2] = "integer"
  OBVIOUS
<1>4. types[3] = "object"
  OBVIOUS
<1>5. types[4] = "array" /\ types[5] = "object"
  OBVIOUS
<1>6. RowFits(t)
  <2> HIDE DEF types, reads
  <2> QED
    BY <1>1, <1>2, <1>3, <1>4, <1>5 DEF RowFits, RowIs, None
<1> QED
  BY <1>1, <1>6

\* The positions that every message class reads fit the row of its type.
LEMMA TableFits == \A t \in WampMsgType : RowFits(t)
  BY HelloRow, WelcomeRow, AbortRow, ErrorRow, CallRow, IdsRow, SubscribeRow, UnsubscribedRow, EventRow, ResultRow DEF WampMsgType

-----------------------------------------------------------------------------
(* Sequences of fields *)

\* A sequence of anything
IsSeq(f) == \E S : f \in Seq(S)

\* The length and the domain of a sequence of anything.
LEMMA SeqFacts ==
    ASSUME NEW f, IsSeq(f)
    PROVE  Len(f) \in Nat /\ DOMAIN f = 1 .. Len(f)
  BY DEF IsSeq

\* push_back leaves the elements that are there alone.
LEMMA SeqAppend ==
    ASSUME NEW f, IsSeq(f), NEW x
    PROVE  /\ IsSeq(Append(f, x)) /\ Len(Append(f, x)) = Len(f) + 1
           /\ Append(f, x)[Len(f) + 1] = x
           /\ \A i \in 1 .. Len(f) : Append(f, x)[i] = f[i]
<1>1. PICK S : f \in Seq(S)
  BY DEF IsSeq
<1>2. f \in Seq(S \cup {x}) /\ x \in S \cup {x}
  BY <1>1
<1>3. Append(f, x) \in Seq(S \cup {x})
  BY <1>2
<1>4. IsSeq(Append(f, x))
  BY <1>3 DEF IsSeq
<1> QED
  BY <1>2, <1>4

-----------------------------------------------------------------------------
(* Messages that fit their rows *)

\* Fields as the row of t has them
TypedAs(f, t) ==
    /\ IsSeq(f) /\ Len(f) >= Schema[t].minSize /\ Len(f) <= Len(Schema[t].fieldTypes)
    /\ \A i \in 1 .. Len(f) : f[i][1] = Schema[t].fieldTypes[i]
    /\ f[1] = Integer(MsgTypeNumber[t])

\* A message as parse() gives it
Fit(m) ==
    /\ m = [type |-> m.type, fields |-> m.fields]
    /\ m.type \in WampMsgType /\ TypedAs(m.fields, m.type)

\* parseMsgType finds the type that has the number in the first field.
LEMMA TypeParsed ==
    ASSUME NEW f, IsSeq(f), f # << >>, NEW t \in WampMsgType, f[1][1] = "integer", f[1][2] = MsgTypeNumber[t]
    PROVE  parseMsgType(f) = t
<1> DEFINE types == { u \in DOMAIN MsgTypeNumber : MsgTypeNumber[u] = f[1][2] }
<1>1. types = {t}
  BY Numbers
<1>2. parseMsgType(f) = CHOOSE u \in types : TRUE
  BY <1>1 DEF parseMsgType
<1> QED
  BY <1>1, <1>2

\* A message that fits is accepted as what it is.
LEMMA FitParses ==
    ASSUME NEW m, Fit(m)
    PROVE  parse(m.fields) = Ok(m)
<1> DEFINE f == m.fields
           t == m.type
<1>1. t \in WampMsgType /\ TypedAs(f, t) /\ RowFits(t)
  BY TableFits DEF Fit
<1>2. Len(f) \in Nat /\ DOMAIN f = 1 .. Len(f) /\ IsSeq(f)
  BY <1>1, SeqFacts DEF TypedAs
<1>3. Len(f) >= 2 /\ Len(f) \in Schema[t].minSize .. Len(Schema[t].fieldTypes) /\ f # << >>
  BY <1>1, <1>2 DEF TypedAs, RowFits
<1>4. f[1] = Integer(MsgTypeNumber[t]) /\ f[1][1] = "integer" /\ f[1][2] = MsgTypeNumber[t]
  BY <1>1 DEF TypedAs, Integer
<1>5. parseMsgType(f) = t
  BY <1>1, <1>2, <1>3, <1>4, TypeParsed
<1>6. t # "none"
  BY <1>1 DEF WampMsgType
<1>7. [f EXCEPT ![1] = Integer(MsgTypeNumber[t])] = f
  BY <1>2, <1>3, <1>4 DEF IsSeq
<1>8. WampMessage(t, f) = m
  BY <1>7 DEF WampMessage, Fit
<1> QED
  BY <1>1, <1>2, <1>3, <1>5, <1>6, <1>8 DEF parse, TypedAs

\* What is accepted fits, and is what the fields were.
LEMMA ParsedFits ==
    ASSUME NEW S, NEW f \in Seq(STRING \X S), parse(f)[1] = "ok"
    PROVE  Fit(parse(f)[2]) /\ parse(f)[2].fields = f
<1> DEFINE t == parseMsgType(f)
<1>1. /\ t # "none" /\ Len(f) \in Schema[t].minSize .. Len(Schema[t].fieldTypes)
      /\ \A i \in DOMAIN f : f[i][1] = Schema[t].fieldTypes[i]
      /\ parse(f) = Ok(WampMessage(t, f))
  BY DEF parse, protocolViolation
<1>2. f # << >> /\ f[1][1] = "integer" /\ t \in WampMsgType /\ MsgTypeNumber[t] = f[1][2]
  <2> DEFINE types == { u \in DOMAIN MsgTypeNumber : MsgTypeNumber[u] = f[1][2] }
  <2>1. f # << >> /\ f[1][1] = "integer" /\ types # {} /\ t = CHOOSE u \in types : TRUE
    BY <1>1 DEF parseMsgType
  <2>2. t \in types
    BY <2>1
  <2> QED
    BY <2>1, <2>2, Numbers
<1>3. IsSeq(f) /\ Len(f) \in Nat /\ DOMAIN f = 1 .. Len(f) /\ Len(f) >= 1
  BY <1>2 DEF IsSeq
<1>4. f[1] = Integer(MsgTypeNumber[t])
  BY <1>2, <1>3 DEF Integer
<1>5. [f EXCEPT ![1] = Integer(MsgTypeNumber[t])] = f
  BY <1>3, <1>4
<1> HIDE DEF t
<1>6. parse(f)[2] = [type |-> t, fields |-> f]
  BY <1>1, <1>5 DEF WampMessage, Ok
<1>7. RowFits(t)
  BY <1>2, TableFits
<1>8. Len(f) >= Schema[t].minSize /\ Len(f) <= Len(Schema[t].fieldTypes)
  BY <1>1, <1>3, <1>7 DEF RowFits
<1>9. TypedAs(f, t)
  BY <1>1, <1>3, <1>4, <1>8 DEF TypedAs
<1> QED
  BY <1>2, <1>6, <1>9 DEF Fit

\* The field at a position that every message of its type has
LEMMA FieldThere ==
    ASSUME NEW m, Fit(m), NEW i \in Nat, i < Len(m.fields)
    PROVE  FieldAs(m, i, Schema[m.type].fieldTypes[i + 1]) = Ok(m.fields[i + 1][2])
<1>1. Len(m.fields) \in Nat
  BY SeqFacts DEF Fit, TypedAs
<1>2. i + 1 \in 1 .. Len(m.fields) /\ ~(i >= Len(m.fields))
  BY <1>1
<1>3. m.fields[i + 1][1] = Schema[m.type].fieldTypes[i + 1]
  BY <1>2 DEF Fit, TypedAs
<1> QED
  BY <1>2, <1>3 DEF FieldAs

\* w fits as m does, and has the same fields but for the i-th
Instead(w, m, i) ==
    /\ Fit(w) /\ w.type = m.type /\ Len(w.fields) = Len(m.fields)
    /\ \A j \in 1 .. Len(m.fields) : j # i => w.fields[j] = m.fields[j]

\* A message that is made of fields that fit.
LEMMA FitRecord ==
    ASSUME NEW t \in WampMsgType, NEW f, TypedAs(f, t)
    PROVE  Fit([type |-> t, fields |-> f])
  BY DEF Fit

\* A field of the same type may take the place of another that is not the first.
LEMMA FieldReplaced ==
    ASSUME NEW m, Fit(m), NEW i \in Nat, i >= 2, i <= Len(m.fields), NEW x, x[1] = Schema[m.type].fieldTypes[i],
           NEW w, w = [m EXCEPT !.fields[i] = x]
    PROVE  Instead(w, m, i) /\ w.fields[i] = x
<1> DEFINE f == m.fields
           g == [f EXCEPT ![i] = x]
           t == m.type
<1>1. w = [type |-> t, fields |-> g] /\ t \in WampMsgType /\ TypedAs(f, t)
  BY DEF Fit
<1>2. Len(f) \in Nat /\ IsSeq(f) /\ i \in 1 .. Len(f) /\ 1 \in 1 .. Len(f)
  BY <1>1, SeqFacts DEF TypedAs
<1>3. IsSeq(g) /\ Len(g) = Len(f) /\ \A j \in 1 .. Len(f) : g[j] = IF j = i THEN x ELSE f[j]
  <2>1. PICK S : f \in Seq(S)
    BY <1>2 DEF IsSeq
  <2>2. f \in Seq(S \cup {x}) /\ x \in S \cup {x}
    BY <2>1
  <2>3. g \in Seq(S \cup {x})
    BY <1>2, <2>2
  <2>4. IsSeq(g)
    BY <2>3 DEF IsSeq
  <2> QED
    BY <1>2, <2>2, <2>4
<1> HIDE DEF g
<1>4. TypedAs(g, t)
  BY <1>1, <1>2, <1>3 DEF TypedAs
<1>5. Fit(w)
  <2>1. Fit([type |-> t, fields |-> g])
    BY <1>1, <1>4, FitRecord, Zenon
  <2> QED
    BY <1>1, <2>1, Zenon
<1>6. w.fields = g /\ w.type = t
  BY <1>1
<1>7. w.fields[i] = x /\ \A j \in 1 .. Len(f) : j # i => w.fields[j] = f[j]
  BY <1>2, <1>3, <1>6
<1> QED
  BY <1>3, <1>5, <1>6, <1>7 DEF g, Instead

\* The next field of the row may be appended.
LEMMA FieldAppended ==
    ASSUME NEW m, Fit(m), NEW x, Len(m.fields) < Len(Schema[m.type].fieldTypes),
           x[1] = Schema[m.type].fieldTypes[Len(m.fields) + 1]
    PROVE  LET w == [m EXCEPT !.fields = Append(@, x)]
           IN /\ Fit(w) /\ w.type = m.type /\ w.fields = Append(m.fields, x)
              /\ Len(w.fields) = Len(m.fields) + 1
              /\ \A j \in 1 .. Len(m.fields) : w.fields[j] = m.fields[j]
<1> DEFINE w == [m EXCEPT !.fields = Append(@, x)]
           f == m.fields
           g == Append(f, x)
           t == m.type
<1>1. w = [type |-> t, fields |-> g] /\ t \in WampMsgType /\ TypedAs(f, t) /\ RowFits(t)
  BY TableFits DEF Fit
<1>2. Len(f) \in Nat /\ IsSeq(f) /\ 1 \in 1 .. Len(f)
  BY <1>1, SeqFacts DEF TypedAs, RowFits
<1>3. IsSeq(g) /\ Len(g) = Len(f) + 1 /\ g[Len(f) + 1] = x /\ \A j \in 1 .. Len(f) : g[j] = f[j]
  BY <1>2, SeqAppend
<1> HIDE DEF w, g
<1>4. \A j \in 1 .. Len(g) : g[j][1] = Schema[t].fieldTypes[j]
  <2> SUFFICES ASSUME NEW j \in 1 .. Len(g) PROVE g[j][1] = Schema[t].fieldTypes[j]
    OBVIOUS
  <2>1. CASE j = Len(f) + 1
    BY <1>3, <2>1
  <2>2. CASE j # Len(f) + 1
    <3>1. j \in 1 .. Len(f)
      BY <1>2, <1>3, <2>2
    <3> QED
      BY <1>1, <1>3, <3>1 DEF TypedAs
  <2> QED
    BY <2>1, <2>2
<1>5. TypedAs(g, t)
  <2>1. Len(g) >= Schema[t].minSize /\ Len(g) <= Len(Schema[t].fieldTypes)
    BY <1>1, <1>2, <1>3 DEF TypedAs, RowFits
  <2>2. g[1] = Integer(MsgTypeNumber[t])
    BY <1>1, <1>2, <1>3 DEF TypedAs
  <2> QED
    BY <1>3, <1>4, <2>1, <2>2 DEF TypedAs
<1>6. Fit(w)
  BY <1>1, <1>5 DEF Fit
<1>7. w.fields = g /\ w.type = t
  BY <1>1
<1> QED
  BY <1>3, <1>6, <1>7 DEF w, g

\* args() and kwargs(): what is not there is appended, and is of its type.
LEMMA ArgsThere ==
    ASSUME NEW m, Fit(m), argsPos(m) # None
    PROVE  LET p == argsPos(m)
               a == argsOf(m)
               k == kwargsOf(m)
           IN /\ p \in Nat /\ p >= 2 /\ p = Schema[m.type].minSize /\ Len(Schema[m.type].fieldTypes) = p + 2
              /\ Schema[m.type].fieldTypes[p + 1] = "array" /\ Schema[m.type].fieldTypes[p + 2] = "object"
              /\ Fit(a) /\ a.type = m.type /\ Len(a.fields) >= p + 1
              /\ Fit(k) /\ k.type = m.type /\ Len(k.fields) = p + 2
              /\ \A j \in 1 .. p : a.fields[j] = m.fields[j] /\ k.fields[j] = m.fields[j]
<1> DEFINE p == argsPos(m)
           t == m.type
           types == Schema[t].fieldTypes
           a == argsOf(m)
           k == kwargsOf(m)
<1>1. t \in WampMsgType /\ TypedAs(m.fields, t) /\ RowFits(t) /\ Len(m.fields) \in Nat
  BY TableFits, SeqFacts DEF Fit, TypedAs
<1>2. p \in Nat /\ p >= 2 /\ p = Schema[t].minSize /\ Len(types) = p + 2 /\ types[p + 1] = "array" /\ types[p + 2] = "object"
  BY <1>1 DEF RowFits, argsPos
<1>3. Len(m.fields) >= p /\ Len(m.fields) <= p + 2
  BY <1>1, <1>2 DEF TypedAs
<1>4. Fit(a) /\ a.type = t /\ Len(a.fields) >= p + 1 /\ Len(a.fields) <= p + 2 /\ Len(a.fields) \in Nat
      /\ (Len(m.fields) <= p + 1 => Len(a.fields) = p + 1) /\ \A j \in 1 .. p : a.fields[j] = m.fields[j]
  <2>1. CASE Len(m.fields) <= p
    <3> DEFINE x == << "array", << >> >>
    <3>1. a = [m EXCEPT !.fields = Append(@, x)]
      BY <2>1 DEF argsOf
    <3>2. Len(m.fields) = p /\ x[1] = types[p + 1]
      BY <1>1, <1>2, <1>3, <2>1
    <3>3. Fit(a) /\ a.type = t /\ Len(a.fields) = Len(m.fields) + 1 /\ \A j \in 1 .. Len(m.fields) : a.fields[j] = m.fields[j]
      <4> HIDE DEF x, a
      <4>1. Len(m.fields) < Len(types) /\ x[1] = types[Len(m.fields) + 1]
        BY <1>2, <3>2
      <4> QED
        BY <3>1, <4>1, FieldAppended
    <3> QED
      BY <1>2, <3>2, <3>3
  <2>2. CASE ~(Len(m.fields) <= p)
    <3>1. a = m
      BY <2>2 DEF argsOf
    <3> QED
      BY <1>1, <1>2, <1>3, <2>2, <3>1
  <2> QED
    BY <2>1, <2>2
<1>5. Fit(k) /\ k.type = t /\ Len(k.fields) = p + 2 /\ \A j \in 1 .. p : k.fields[j] = m.fields[j]
  <2>1. CASE Len(m.fields) <= p + 1
    <3>1. k = [a EXCEPT !.fields = Append(@, NoOptions)] /\ Len(a.fields) = p + 1
      BY <1>4, <2>1 DEF kwargsOf
    <3>2. NoOptions[1] = "object"
      BY DEF NoOptions
    <3> HIDE DEF a, k
    <3>3. Len(a.fields) < Len(Schema[a.type].fieldTypes) /\ NoOptions[1] = Schema[a.type].fieldTypes[Len(a.fields) + 1]
      BY <1>2, <1>4, <3>1, <3>2, SMTT(30)
    <3>4. Fit(k) /\ k.type = a.type /\ Len(k.fields) = Len(a.fields) + 1 /\ \A j \in 1 .. Len(a.fields) : k.fields[j] = a.fields[j]
      BY <1>4, <3>1, <3>3, FieldAppended
    <3> QED
      BY <1>2, <1>4, <3>1, <3>4
  <2>2. CASE ~(Len(m.fields) <= p + 1)
    <3>1. k = m
      BY <2>2 DEF kwargsOf
    <3> QED
      BY <1>1, <1>2, <1>3, <2>2, <3>1
  <2> QED
    BY <2>1, <2>2
<1> QED
  BY <1>2, <1>4, <1>5

\* Nothing that the accessors of a message that fits read is missing or of
\* another type.
LEMMA FitReadable ==
    ASSUME NEW m, Fit(m)
    PROVE  Readable(m)
<1> DEFINE t == m.type
           types == Schema[t].fieldTypes
           class == MessageClass(t, 0)
<1>1. t \in WampMsgType /\ TypedAs(m.fields, t) /\ RowFits(t) /\ Len(m.fields) \in Nat /\ Len(m.fields) >= Schema[t].minSize
  BY TableFits, SeqFacts DEF Fit, TypedAs
<1>2. \A x : Ok(x)[1] = "ok"
  BY DEF Ok
<1>3. ASSUME NEW i \in Nat, i < Schema[t].minSize PROVE FieldAs(m, i, types[i + 1])[1] = "ok"
  <2>1. i < Len(m.fields)
    BY <1>1, <1>3 DEF RowFits
  <2> QED
    BY <1>2, <2>1, FieldThere
<1>4. \A r \in class.reads : FieldAs(m, r[1], r[2])[1] = "ok"
  BY <1>1, <1>3 DEF RowFits
<1>5. class.optionsPos # None => options(m)[1] = "ok"
  BY <1>1, <1>3 DEF RowFits, options, optionsPos
<1>6. ASSUME class.argsPos # None
      PROVE  /\ FieldAs(argsOf(m), class.argsPos, "array")[1] = "ok"
             /\ FieldAs(kwargsOf(m), class.argsPos + 1, "object")[1] = "ok"
             /\ parse(kwargsOf(m).fields) = Ok(kwargsOf(m))
  <2> DEFINE p == class.argsPos
             a == argsOf(m)
             k == kwargsOf(m)
  <2>1. argsPos(m) = p
    BY DEF argsPos
  <2>2. /\ p \in Nat /\ types[p + 1] = "array" /\ types[p + 2] = "object"
        /\ Fit(a) /\ a.type = t /\ Len(a.fields) >= p + 1
        /\ Fit(k) /\ k.type = t /\ Len(k.fields) = p + 2
    BY <1>6, <2>1, ArgsThere
  <2> HIDE DEF a, k, p
  <2>3. FieldAs(a, p, types[p + 1])[1] = "ok"
    <3>1. p < Len(a.fields)
      BY <2>2, SeqFacts DEF Fit, TypedAs
    <3> QED
      BY <1>2, <2>2, <3>1, FieldThere
  <2>4. FieldAs(k, p + 1, types[(p + 1) + 1])[1] = "ok"
    <3>1. p + 1 < Len(k.fields) /\ p + 1 \in Nat
      BY <2>2
    <3> QED
      BY <1>2, <2>2, <3>1, FieldThere
  <2>5. types[(p + 1) + 1] = "object"
    BY <2>2
  <2>6. parse(k.fields) = Ok(k)
    BY <2>2, FitParses
  <2> QED
    BY <2>2, <2>3, <2>4, <2>5, <2>6 DEF a, k, p
<1>7. requestId(m)[1] = "ok"
  <2>1. CASE t = "error"
    <3>1. 2 < Schema[t].minSize /\ types[2 + 1] = "integer"
      BY <2>1, ErrorRow DEF RowIs
    <3>2. FieldAs(m, 2, types[2 + 1])[1] = "ok"
      BY <1>3, <3>1
    <3> QED
      BY <2>1, <3>1, <3>2 DEF requestId
  <2>2. CASE t # "error" /\ t \notin hasRequestId
    BY <1>2, <2>2 DEF requestId, idPosition
  <2>3. CASE t # "error" /\ t \in hasRequestId
    <3>1. 1 < Schema[t].minSize /\ types[1 + 1] = "integer"
      BY <1>1, <2>3 DEF RowFits
    <3>2. FieldAs(m, 1, types[1 + 1])[1] = "ok"
      BY <1>3, <3>1
    <3> QED
      BY <2>3, <3>1, <3>2 DEF requestId, idPosition
  <2> QED
    BY <2>1, <2>2, <2>3
<1> QED
  BY <1>4, <1>5, <1>6, <1>7 DEF Readable

\* No accessor of a message that parse() accepts throws.
LEMMA AcceptedIsRead ==
    ASSUME NEW S, NEW f \in Seq(STRING \X S)
    PROVE  FieldsRead(f)
  BY ParsedFits, FitReadable DEF FieldsRead

-----------------------------------------------------------------------------
(* Messages that are made *)

\* The type's number is written over the first field.
LEMMA MessageOf ==
    ASSUME NEW t \in WampMsgType, NEW f, IsSeq(f),
           Len(f) >= Schema[t].minSize, Len(f) <= Len(Schema[t].fieldTypes),
           \A i \in 2 .. Len(f) : f[i][1] = Schema[t].fieldTypes[i]
    PROVE  LET m == WampMessage(t, f)
           IN /\ Fit(m) /\ m.type = t /\ Len(m.fields) = Len(f)
              /\ \A i \in 2 .. Len(f) : m.fields[i] = f[i]
<1> DEFINE x == Integer(MsgTypeNumber[t])
           g == [f EXCEPT ![1] = x]
           m == WampMessage(t, f)
<1>1. m = [type |-> t, fields |-> g] /\ RowFits(t)
  BY TableFits DEF WampMessage
<1>2. Len(f) \in Nat /\ 1 \in 1 .. Len(f)
  BY <1>1, SeqFacts DEF RowFits
<1>3. IsSeq(g) /\ Len(g) = Len(f) /\ g[1] = x /\ \A i \in 2 .. Len(f) : g[i] = f[i]
  <2> HIDE DEF x
  <2>1. PICK S : f \in Seq(S)
    BY DEF IsSeq
  <2>2. f \in Seq(S \cup {x}) /\ x \in S \cup {x}
    BY <2>1
  <2>3. g \in Seq(S \cup {x})
    BY <1>2, <2>2
  <2>4. IsSeq(g)
    BY <2>3 DEF IsSeq
  <2> QED
    BY <1>2, <2>2, <2>4
<1>4. x[1] = "integer"
  BY DEF Integer
<1> HIDE DEF g, m
<1>5. \A i \in 1 .. Len(g) : g[i][1] = Schema[t].fieldTypes[i]
  <2> SUFFICES ASSUME NEW i \in 1 .. Len(g) PROVE g[i][1] = Schema[t].fieldTypes[i]
    OBVIOUS
  <2>1. CASE i = 1
    BY <1>1, <1>3, <1>4, <2>1 DEF RowFits
  <2>2. CASE i # 1
    <3>1. i \in 2 .. Len(f)
      BY <1>2, <1>3, <2>2
    <3> QED
      BY <1>3, <3>1
  <2> QED
    BY <2>1, <2>2
<1>6. Fit(m)
  BY <1>1, <1>3, <1>5 DEF Fit, TypedAs
<1>7. m.fields = g /\ m.type = t
  BY <1>1
<1> QED
  BY <1>3, <1>6, <1>7 DEF m

\* A new message whose fields, the first excepted, are of the types in its row
\* fits: a message of two fields.
LEMMA Message2 ==
    ASSUME NEW t \in WampMsgType, Schema[t].minSize = 2, NEW b, b[1] = Schema[t].fieldTypes[2]
    PROVE  Fit(WampMessage(t, << Zero, b >>)) /\ WampMessage(t, << Zero, b >>).fields[2] = b
<1> DEFINE f == << Zero, b >>
<1>1. f \in Seq({Zero, b}) /\ Len(f) = 2 /\ f[2] = b
  OBVIOUS
<1>2. \A i \in 2 .. 2 : f[i][1] = Schema[t].fieldTypes[i]
  BY <1>1
<1>3. IsSeq(f) /\ Len(f) >= Schema[t].minSize /\ Len(f) <= Len(Schema[t].fieldTypes)
  <2>1. IsSeq(f)
    BY <1>1 DEF IsSeq
  <2> HIDE DEF f
  <2> QED
    BY <1>1, <2>1, TableFits DEF RowFits
<1> HIDE DEF f
<1>5. \A i \in 2 .. Len(f) : f[i][1] = Schema[t].fieldTypes[i]
  BY <1>1, <1>2
<1>6. /\ Fit(WampMessage(t, f)) /\ Len(WampMessage(t, f).fields) = Len(f)
      /\ \A i \in 2 .. Len(f) : WampMessage(t, f).fields[i] = f[i]
  BY <1>3, <1>5, MessageOf
<1>4. Fit(WampMessage(t, f)) /\ WampMessage(t, f).fields[2] = f[2]
  BY <1>1, <1>6
<1> QED
  BY <1>1, <1>4 DEF f

\* The same for a message of three fields.
LEMMA Message3 ==
    ASSUME NEW t \in WampMsgType, Schema[t].minSize = 3, NEW b, NEW c,
           b[1] = Schema[t].fieldTypes[2], c[1] = Schema[t].fieldTypes[3]
    PROVE  /\ Fit(WampMessage(t, << Zero, b, c >>)) /\ WampMessage(t, << Zero, b, c >>).fields[2] = b
           /\ Len(WampMessage(t, << Zero, b, c >>).fields) = 3 /\ WampMessage(t, << Zero, b, c >>).fields[3] = c
<1> DEFINE f == << Zero, b, c >>
<1>1. f \in Seq({Zero, b, c}) /\ Len(f) = 3 /\ f[2] = b /\ f[3] = c
  OBVIOUS
<1>2. \A i \in 2 .. 3 : f[i][1] = Schema[t].fieldTypes[i]
  <2>1. \A i \in 2 .. 3 : i = 2 \/ i = 3
    OBVIOUS
  <2> HIDE DEF f
  <2> QED
    BY <1>1, <2>1
<1>3. IsSeq(f) /\ Len(f) >= Schema[t].minSize /\ Len(f) <= Len(Schema[t].fieldTypes)
  <2>1. IsSeq(f)
    BY <1>1 DEF IsSeq
  <2> HIDE DEF f
  <2> QED
    BY <1>1, <2>1, TableFits DEF RowFits
<1> HIDE DEF f
<1>5. \A i \in 2 .. Len(f) : f[i][1] = Schema[t].fieldTypes[i]
  BY <1>1, <1>2
<1>6. /\ Fit(WampMessage(t, f)) /\ Len(WampMessage(t, f).fields) = Len(f)
      /\ \A i \in 2 .. Len(f) : WampMessage(t, f).fields[i] = f[i]
  BY <1>3, <1>5, MessageOf
<1>4. /\ Fit(WampMessage(t, f)) /\ WampMessage(t, f).fields[2] = f[2] /\ Len(WampMessage(t, f).fields) = 3
      /\ WampMessage(t, f).fields[3] = f[3]
  BY <1>1, <1>6
<1> QED
  BY <1>1, <1>4 DEF f

\* The same for a message of four fields.
LEMMA Message4 ==
    ASSUME NEW t \in WampMsgType, Schema[t].minSize = 4, NEW b, NEW c, NEW d,
           b[1] = Schema[t].fieldTypes[2], c[1] = Schema[t].fieldTypes[3], d[1] = Schema[t].fieldTypes[4]
    PROVE  Fit(WampMessage(t, << Zero, b, c, d >>)) /\ WampMessage(t, << Zero, b, c, d >>).fields[3] = c
<1> DEFINE f == << Zero, b, c, d >>
<1>1. f \in Seq({Zero, b, c, d}) /\ Len(f) = 4 /\ f[2] = b /\ f[3] = c /\ f[4] = d
  OBVIOUS
<1>2. \A i \in 2 .. 4 : f[i][1] = Schema[t].fieldTypes[i]
  <2>1. \A i \in 2 .. 4 : i = 2 \/ i = 3 \/ i = 4
    OBVIOUS
  <2> HIDE DEF f
  <2> QED
    BY <1>1, <2>1
<1>3. IsSeq(f) /\ Len(f) >= Schema[t].minSize /\ Len(f) <= Len(Schema[t].fieldTypes)
  <2>1. IsSeq(f)
    BY <1>1 DEF IsSeq
  <2> HIDE DEF f
  <2> QED
    BY <1>1, <2>1, TableFits DEF RowFits
<1> HIDE DEF f
<1>5. \A i \in 2 .. Len(f) : f[i][1] = Schema[t].fieldTypes[i]
  BY <1>1, <1>2
<1>6. /\ Fit(WampMessage(t, f)) /\ Len(WampMessage(t, f).fields) = Len(f)
      /\ \A i \in 2 .. Len(f) : WampMessage(t, f).fields[i] = f[i]
  BY <1>3, <1>5, MessageOf
<1>4. Fit(WampMessage(t, f)) /\ WampMessage(t, f).fields[3] = f[3]
  BY <1>1, <1>6
<1> QED
  BY <1>1, <1>4 DEF f

\* The same for a message of five fields.
LEMMA Message5 ==
    ASSUME NEW t \in WampMsgType, Schema[t].minSize = 5, NEW b, NEW c, NEW d, NEW e,
           b[1] = Schema[t].fieldTypes[2], c[1] = Schema[t].fieldTypes[3],
           d[1] = Schema[t].fieldTypes[4], e[1] = Schema[t].fieldTypes[5]
    PROVE  Fit(WampMessage(t, << Zero, b, c, d, e >>))
<1> DEFINE f == << Zero, b, c, d, e >>
<1>1. f \in Seq({Zero, b, c, d, e}) /\ Len(f) = 5 /\ f[2] = b /\ f[3] = c /\ f[4] = d /\ f[5] = e
  OBVIOUS
<1>2. \A i \in 2 .. 5 : f[i][1] = Schema[t].fieldTypes[i]
  <2>1. \A i \in 2 .. 5 : i = 2 \/ i = 3 \/ i = 4 \/ i = 5
    OBVIOUS
  <2> HIDE DEF f
  <2> QED
    BY <1>1, <2>1
<1>3. IsSeq(f) /\ Len(f) >= Schema[t].minSize /\ Len(f) <= Len(Schema[t].fieldTypes)
  <2>1. IsSeq(f)
    BY <1>1 DEF IsSeq
  <2> HIDE DEF f
  <2> QED
    BY <1>1, <2>1, TableFits DEF RowFits
<1> HIDE DEF f
<1>5. \A i \in 2 .. Len(f) : f[i][1] = Schema[t].fieldTypes[i]
  BY <1>1, <1>2
<1>6. /\ Fit(WampMessage(t, f)) /\ Len(WampMessage(t, f).fields) = Len(f)
      /\ \A i \in 2 .. Len(f) : WampMessage(t, f).fields[i] = f[i]
  BY <1>3, <1>5, MessageOf
<1>4. Fit(WampMessage(t, f))
  BY <1>1, <1>6
<1> QED
  BY <1>4 DEF f

\* Every message that is new fits, with the exception of a CHALLENGE, which is
\* made without the last of its fields.
LEMMA NewFits ==
    ASSUME NEW t \in WampMsgType \ {"challenge"}, NEW x
    PROVE  Fit(MessageClass(t, x).new) /\ MessageClass(t, x).new.type = t
<1>1. Zero[1] = "integer" /\ NoOptions[1] = "object" /\ (\A n : Integer(n)[1] = "integer") /\ \A u : Uri(u)[1] = "string"
  BY DEF Zero, Integer, Uri, NoOptions
<1>2. \A f : WampMessage(t, f).type = t
  BY DEF WampMessage
<1>3. CASE t \in {"hello", "authenticate"}
  <2>1. MessageClass(t, x).new = WampMessage(t, << Zero, Uri(x), NoOptions >>)
    BY <1>3 DEF MessageClass, HelloMessage, AuthenticateMessage, Fields
  <2>2. Schema[t].minSize = 3 /\ Schema[t].fieldTypes[2] = "string" /\ Schema[t].fieldTypes[3] = "object"
    BY <1>3, HelloRow DEF RowIs
  <2> QED
    BY <1>1, <1>2, <2>1, <2>2, Message3
<1>4. CASE t \in {"welcome", "cancel", "interrupt"}
  <2>1. PICK n : MessageClass(t, x).new = WampMessage(t, << Zero, Integer(n), NoOptions >>)
    BY <1>4 DEF MessageClass, WelcomeMessage, CancelMessage, InterruptMessage, Fields, Zero
  <2>2. Schema[t].minSize = 3 /\ Schema[t].fieldTypes[2] = "integer" /\ Schema[t].fieldTypes[3] = "object"
    BY <1>4, WelcomeRow DEF RowIs
  <2> QED
    BY <1>1, <1>2, <2>1, <2>2, Message3
<1>5. CASE t \in {"abort", "goodbye"}
  <2>1. PICK u : MessageClass(t, x).new = WampMessage(t, << Zero, NoOptions, Uri(u) >>)
    BY <1>5 DEF MessageClass, AbortMessage, GoodbyeMessage, Fields
  <2>2. Schema[t].minSize = 3 /\ Schema[t].fieldTypes[2] = "object" /\ Schema[t].fieldTypes[3] = "string"
    BY <1>5, AbortRow DEF RowIs
  <2> QED
    BY <1>1, <1>2, <2>1, <2>2, Message3
<1>6. CASE t = "error"
  <2>1. MessageClass(t, x).new = WampMessage(t, << Zero, Zero, Zero, NoOptions, Uri(x) >>)
    BY <1>6 DEF MessageClass, ErrorMessage, Fields
  <2>2. /\ Schema[t].minSize = 5 /\ Schema[t].fieldTypes[2] = "integer" /\ Schema[t].fieldTypes[3] = "integer"
        /\ Schema[t].fieldTypes[4] = "object" /\ Schema[t].fieldTypes[5] = "string"
    BY <1>6, ErrorRow DEF RowIs
  <2> QED
    BY <1>1, <1>2, <2>1, <2>2, Message5
<1>7. CASE t \in {"publish", "call", "subscribe", "enroll"}
  <2>1. MessageClass(t, x).new = WampMessage(t, << Zero, Zero, NoOptions, Uri(x) >>)
    BY <1>7 DEF MessageClass, PublishMessage, CallMessage, SubscribeMessage, RegisterMessage, Fields
  <2>2. /\ Schema[t].minSize = 4 /\ Schema[t].fieldTypes[2] = "integer" /\ Schema[t].fieldTypes[3] = "object"
        /\ Schema[t].fieldTypes[4] = "string"
    BY <1>7, CallRow, SubscribeRow DEF RowIs
  <2> QED
    BY <1>1, <1>2, <2>1, <2>2, Message4
<1>8. CASE t \in {"published", "subscribed", "unsubscribe", "registered", "unregister"}
  <2>1. PICK n : MessageClass(t, x).new = WampMessage(t, << Zero, Zero, Integer(n) >>)
    BY <1>8 DEF MessageClass, PublishedMessage, SubscribedMessage, UnsubscribeMessage, RegisteredMessage,
       UnregisterMessage, Fields, Zero
  <2>2. Schema[t].minSize = 3 /\ Schema[t].fieldTypes[2] = "integer" /\ Schema[t].fieldTypes[3] = "integer"
    BY <1>8, IdsRow DEF RowIs
  <2> QED
    BY <1>1, <1>2, <2>1, <2>2, Message3
<1>9. CASE t \in {"unsubscribed", "unregistered"}
  <2>1. MessageClass(t, x).new = WampMessage(t, << Zero, Zero >>)
    BY <1>9 DEF MessageClass, UnsubscribedMessage, UnregisteredMessage, Fields
  <2>2. Schema[t].minSize = 2 /\ Schema[t].fieldTypes[2] = "integer"
    BY <1>9, UnsubscribedRow DEF RowIs
  <2> QED
    BY <1>1, <1>2, <2>1, <2>2, Message2
<1>10. CASE t \in {"event", "invocation"}
  <2>1. MessageClass(t, x).new = WampMessage(t, << Zero, Zero, Zero, NoOptions >>)
    BY <1>10 DEF MessageClass, EventMessage, InvocationMessage, Fields
  <2>2. /\ Schema[t].minSize = 4 /\ Schema[t].fieldTypes[2] = "integer" /\ Schema[t].fieldTypes[3] = "integer"
        /\ Schema[t].fieldTypes[4] = "object"
    BY <1>10, EventRow DEF RowIs
  <2> QED
    BY <1>1, <1>2, <2>1, <2>2, Message4
<1>11. CASE t \in {"result", "yield"}
  <2>1. PICK n : MessageClass(t, x).new = WampMessage(t, << Zero, Integer(n), NoOptions >>)
    BY <1>11 DEF MessageClass, ResultMessage, YieldMessage, Fields, Zero
  <2>2. Schema[t].minSize = 3 /\ Schema[t].fieldTypes[2] = "integer" /\ Schema[t].fieldTypes[3] = "object"
    BY <1>11, ResultRow DEF RowIs
  <2> QED
    BY <1>1, <1>2, <2>1, <2>2, Message3
<1> QED
  BY <1>3, <1>4, <1>5, <1>6, <1>7, <1>8, <1>9, <1>10, <1>11 DEF WampMsgType

\* Assigning a request ID changes no other field.
LEMMA IdAssigned ==
    ASSUME NEW m, Fit(m), NEW id
    PROVE  LET w == setRequestId(m, id)
           IN /\ Fit(w) /\ w.type = m.type /\ Len(w.fields) = Len(m.fields)
              /\ m.type \in hasRequestId => w.fields[2] = Integer(id)
              /\ \A j \in 3 .. Len(m.fields) : w.fields[j] = m.fields[j]
<1> DEFINE w == setRequestId(m, id)
           x == Integer(id)
<1>1. m.type \in WampMsgType /\ RowFits(m.type) /\ Len(m.fields) \in Nat /\ Len(m.fields) >= 2
  BY TableFits, SeqFacts DEF Fit, TypedAs, RowFits
<1>2. CASE m.type \notin hasRequestId
  <2>1. w = m
    BY <1>2 DEF setRequestId, idPosition
  <2> QED
    BY <1>2, <2>1
<1>3. CASE m.type \in hasRequestId
  <2>1. w = [m EXCEPT !.fields[2] = x]
    BY <1>3 DEF setRequestId, idPosition
  <2>2. x[1] = Schema[m.type].fieldTypes[2]
    BY <1>1, <1>3 DEF RowFits, Integer
  <2> HIDE DEF w, x
  <2>3. /\ Fit(w) /\ w.type = m.type /\ Len(w.fields) = Len(m.fields) /\ w.fields[2] = x
        /\ \A j \in 1 .. Len(m.fields) : j # 2 => w.fields[j] = m.fields[j]
    BY <1>1, <2>1, <2>2, FieldReplaced DEF Instead
  <2> QED
    BY <1>1, <2>3 DEF x, w
<1> QED
  BY <1>2, <1>3

\* An option is added to the options, unless it is there.
LEMMA OptionAdded ==
    ASSUME NEW m, Fit(m), optionsPos(m) # None, NEW key, NEW v,
           NEW w, w = withOption(m, key, v), NEW p, p = optionsPos(m)
    PROVE  /\ p \in Nat /\ p > 0 /\ p < Len(m.fields)
           /\ Instead(w, m, p + 1)
           /\ options(m) = Ok(m.fields[p + 1][2])
           /\ options(w) = Ok(Emplaced(m.fields[p + 1][2], << key >>, << v >>))
<1> DEFINE y == Emplaced(m.fields[p + 1][2], << key >>, << v >>)
           x == << "object", y >>
<1>1. m.type \in WampMsgType /\ RowFits(m.type) /\ Len(m.fields) \in Nat /\ Len(m.fields) >= Schema[m.type].minSize
  BY TableFits, SeqFacts DEF Fit, TypedAs
<1>2. p \in Nat /\ p > 0 /\ p < Len(m.fields) /\ Schema[m.type].fieldTypes[p + 1] = "object"
  BY <1>1 DEF RowFits, optionsPos
<1>3. w = [m EXCEPT !.fields[p + 1] = x]
  BY DEF withOption
<1>4. x[1] = "object" /\ x[2] = y
  OBVIOUS
<1> HIDE DEF x, y
<1>5. p + 1 \in Nat /\ p + 1 >= 2 /\ p + 1 <= Len(m.fields)
  BY <1>1, <1>2
<1>10. Instead(w, m, p + 1) /\ w.fields[p + 1] = x
  BY <1>2, <1>3, <1>4, <1>5, FieldReplaced
<1>6. Fit(w) /\ w.type = m.type /\ Len(w.fields) = Len(m.fields) /\ w.fields[p + 1] = x
  BY <1>10 DEF Instead
<1>7. optionsPos(w) = p
  BY <1>6 DEF optionsPos
<1>8. options(w) = Ok(w.fields[p + 1][2])
  BY <1>2, <1>6, <1>7, FieldThere DEF options
<1>9. options(m) = Ok(m.fields[p + 1][2])
  <2>1. options(m) = FieldAs(m, p, "object")
    BY DEF options
  <2> QED
    BY <1>2, <2>1, FieldThere
<1> QED
  BY <1>2, <1>4, <1>6, <1>8, <1>9, <1>10 DEF y

\* Arguments take the place of the arguments, and are appended if there are none.
LEMMA ArgListSet ==
    ASSUME NEW m, Fit(m), argsPos(m) # None, NEW list, NEW w, w = withArgList(m, list)
    PROVE  /\ Fit(w) /\ w.type = m.type
           /\ \A j \in 1 .. argsPos(m) : w.fields[j] = m.fields[j]
<1> DEFINE p == argsPos(m)
           a == argsOf(m)
           x == << "array", list >>
<1>1. /\ p \in Nat /\ p >= 2 /\ Schema[m.type].fieldTypes[p + 1] = "array"
      /\ Fit(a) /\ a.type = m.type /\ Len(a.fields) >= p + 1
      /\ \A j \in 1 .. p : a.fields[j] = m.fields[j]
  BY ArgsThere
<1>2. w = [a EXCEPT !.fields[p + 1] = x]
  BY DEF withArgList
<1>3. x[1] = "array"
  OBVIOUS
<1> HIDE DEF p, a, x
<1>4. Len(a.fields) \in Nat
  BY <1>1, SeqFacts DEF Fit, TypedAs
<1>5. p + 1 \in Nat /\ p + 1 >= 2 /\ p + 1 <= Len(a.fields)
  BY <1>1, <1>4
<1>8. x[1] = Schema[a.type].fieldTypes[p + 1]
  BY <1>1, <1>3
<1>9. Instead(w, a, p + 1)
  BY <1>1, <1>2, <1>5, <1>8, FieldReplaced
<1>6. /\ Fit(w) /\ w.type = a.type
      /\ \A j \in 1 .. Len(a.fields) : j # p + 1 => w.fields[j] = a.fields[j]
  BY <1>9 DEF Instead
<1>7. ASSUME NEW j \in 1 .. p PROVE w.fields[j] = m.fields[j]
  <2>1. j \in 1 .. Len(a.fields) /\ j # p + 1
    BY <1>1, <1>4, <1>5
  <2>2. w.fields[j] = a.fields[j]
    BY <1>6, <2>1
  <2>3. a.fields[j] = m.fields[j]
    BY <1>1
  <2> QED
    BY <2>2, <2>3
<1> QED
  BY <1>1, <1>6, <1>7 DEF p

\* Keyword arguments likewise, after an empty list if there are no arguments.
LEMMA KwargsSet ==
    ASSUME NEW m, Fit(m), argsPos(m) # None, NEW map, NEW w, w = withKwargs(m, map)
    PROVE  /\ Fit(w) /\ w.type = m.type
           /\ \A j \in 1 .. argsPos(m) : w.fields[j] = m.fields[j]
<1> DEFINE p == argsPos(m)
           k == kwargsOf(m)
           x == << "object", map >>
<1>1. /\ p \in Nat /\ p >= 2 /\ Schema[m.type].fieldTypes[p + 2] = "object"
      /\ Fit(k) /\ k.type = m.type /\ Len(k.fields) = p + 2
      /\ \A j \in 1 .. p : k.fields[j] = m.fields[j]
  BY ArgsThere
<1>2. w = [k EXCEPT !.fields[p + 2] = x]
  BY DEF withKwargs
<1>3. x[1] = "object"
  OBVIOUS
<1> HIDE DEF p, k, x
<1>5. p + 2 \in Nat /\ p + 2 >= 2 /\ p + 2 <= Len(k.fields)
  BY <1>1
<1>8. x[1] = Schema[k.type].fieldTypes[p + 2]
  BY <1>1, <1>3
<1>9. Instead(w, k, p + 2)
  BY <1>1, <1>2, <1>5, <1>8, FieldReplaced
<1>6. /\ Fit(w) /\ w.type = k.type
      /\ \A j \in 1 .. Len(k.fields) : j # p + 2 => w.fields[j] = k.fields[j]
  BY <1>9 DEF Instead
<1>7. ASSUME NEW j \in 1 .. p PROVE w.fields[j] = m.fields[j]
  <2>1. j \in 1 .. Len(k.fields) /\ j # p + 2
    BY <1>1, <1>5
  <2>2. w.fields[j] = k.fields[j]
    BY <1>6, <2>1
  <2>3. k.fields[j] = m.fields[j]
    BY <1>1
  <2> QED
    BY <2>2, <2>3
<1> QED
  BY <1>1, <1>6, <1>7 DEF p

\* A message that fits, of type t and with the ID that it was given
Carries(m, t, id) == Fit(m) /\ m.type = t /\ (t \in hasRequestId => m.fields[2] = Integer(id))

\* Options and arguments change neither type nor ID.
LEMMA CarriesOn ==
    ASSUME NEW t, NEW id, NEW m, Carries(m, t, id)
    PROVE  /\ optionsPos(m) # None => \A key, v : Carries(withOption(m, key, v), t, id)
           /\ argsPos(m) # None => \A xs : Carries(withArgList(m, xs), t, id) /\ Carries(withKwargs(m, xs), t, id)
<1>1. Fit(m) /\ m.type = t /\ t \in WampMsgType /\ RowFits(t) /\ Len(m.fields) \in Nat /\ Len(m.fields) >= 2
  BY TableFits, SeqFacts DEF Carries, Fit, TypedAs, RowFits
<1>2. ASSUME optionsPos(m) # None, NEW key, NEW v PROVE Carries(withOption(m, key, v), t, id)
  <2>5. PICK w : w = withOption(m, key, v)
    OBVIOUS
  <2>6. PICK p : p = optionsPos(m)
    OBVIOUS
  <2>1. /\ Fit(w) /\ w.type = m.type /\ \A j \in 1 .. Len(m.fields) : j # p + 1 => w.fields[j] = m.fields[j]
    <3>1. Instead(w, m, p + 1)
      BY <1>1, <1>2, <2>5, <2>6, OptionAdded
    <3> QED
      BY <3>1 DEF Instead
  <2>2. t \in hasRequestId => optionsPos(m) # 1
    <3>1. optionsPos(m) = 1 => m.fields[2][1] = "object"
      BY <1>1, <1>2 DEF Fit, TypedAs, RowFits, optionsPos
    <3> QED
      BY <3>1 DEF Carries, Integer
  <2>3. optionsPos(m) \in Nat
    BY <1>1, <1>2, OptionAdded
  <2>4. t \in hasRequestId => w.fields[2] = m.fields[2]
    BY <1>1, <2>1, <2>2, <2>3, <2>6
  <2> QED
    BY <1>1, <2>1, <2>4, <2>5 DEF Carries
<1>3. ASSUME argsPos(m) # None, NEW xs PROVE Carries(withArgList(m, xs), t, id) /\ Carries(withKwargs(m, xs), t, id)
  <2>1. argsPos(m) \in Nat /\ argsPos(m) >= 2
    BY <1>1, <1>3, ArgsThere
  <2>2. Carries(withArgList(m, xs), t, id)
    <3> DEFINE w == withArgList(m, xs)
    <3>1. Fit(w) /\ w.type = m.type /\ \A j \in 1 .. argsPos(m) : w.fields[j] = m.fields[j]
      BY <1>1, <1>3, ArgListSet
    <3> HIDE DEF w
    <3> QED
      BY <1>1, <2>1, <3>1 DEF Carries, w
  <2>3. Carries(withKwargs(m, xs), t, id)
    <3> DEFINE w == withKwargs(m, xs)
    <3>1. Fit(w) /\ w.type = m.type /\ \A j \in 1 .. argsPos(m) : w.fields[j] = m.fields[j]
      BY <1>1, <1>3, KwargsSet
    <3> HIDE DEF w
    <3> QED
      BY <1>1, <2>1, <3>1 DEF Carries, w
  <2> QED
    BY <2>2, <2>3
<1> QED
  BY <1>2, <1>3

\* However a message is made, it has the type and the ID that it was given.
LEMMA MadeCarries ==
    ASSUME NEW t \in WampMsgType \ {"challenge"}, NEW id, NEW w \in Made(t, id)
    PROVE  Carries(w, t, id)
<1> DEFINE m == setRequestId(MessageClass(t, 1).new, id)
           o == IF optionsPos(m) # None /\ options(m)[1] = "ok" THEN withOption(m, progress, << "boolean", TRUE >>) ELSE m
           list == << Null >>
           empty == << >>
<1>1. Carries(m, t, id)
  BY NewFits, IdAssigned DEF Carries
<1> HIDE DEF m
<1>2. Carries(o, t, id)
  BY <1>1, CarriesOn
<1>3. argsPos(o) = argsPos(m)
  BY <1>1, <1>2 DEF Carries, argsPos
<1>4. w \in {m, o} \/ (argsPos(m) # None /\ w \in {withArgList(o, list), withKwargs(o, list), withKwargs(withArgList(m, list), empty)})
  BY DEF Made, m
<1> HIDE DEF o, list, empty
<1>5. ASSUME argsPos(m) # None
      PROVE  Carries(withArgList(o, list), t, id) /\ Carries(withKwargs(o, list), t, id)
             /\ Carries(withKwargs(withArgList(m, list), empty), t, id)
  <2>1. Carries(withArgList(o, list), t, id) /\ Carries(withKwargs(o, list), t, id) /\ Carries(withArgList(m, list), t, id)
    BY <1>1, <1>2, <1>3, <1>5, CarriesOn
  <2>2. argsPos(withArgList(m, list)) = argsPos(m)
    BY <1>1, <2>1 DEF Carries, argsPos
  <2> QED
    BY <1>5, <2>1, <2>2, CarriesOn
<1> QED
  BY <1>1, <1>2, <1>4, <1>5

\* The ID under which a message with a request ID is known
LEMMA IdOfCarries ==
    ASSUME NEW t \in hasRequestId, NEW id, NEW m, Carries(m, t, id)
    PROVE  requestId(m)[2] = id
<1>1. t # "error"
  BY DEF hasRequestId
<1>2. Fit(m) /\ m.type = t /\ RowFits(t) /\ 1 < Len(m.fields) /\ m.fields[2] = Integer(id)
  BY TableFits, SeqFacts DEF Carries, Fit, TypedAs, RowFits
<1>3. Schema[t].fieldTypes[1 + 1] = "integer"
  BY <1>2 DEF RowFits
<1>4. FieldAs(m, 1, "integer") = Ok(m.fields[1 + 1][2])
  <2>1. FieldAs(m, 1, Schema[m.type].fieldTypes[1 + 1]) = Ok(m.fields[1 + 1][2])
    BY <1>2, FieldThere
  <2> QED
    BY <1>2, <1>3, <2>1
<1> QED
  BY <1>1, <1>2, <1>4 DEF requestId, idPosition, Ok, Integer

\* A reply has the key under which the handler of its request is kept.
LEMMA RepliesFind ==
    ASSUME NEW t \in hasRequestId, NEW r \in hasRequestId, repliesTo(r) = t, NEW id,
           NEW m, Carries(m, t, id), NEW w, Carries(w, r, id)
    PROVE  ReplyKey(w) = requestKey(m)
<1>1. m.type = t /\ w.type = r /\ t # "error" /\ r # "error"
  BY DEF Carries, hasRequestId
<1>2. requestId(m)[2] = id /\ requestId(w)[2] = id
  BY IdOfCarries
<1> QED
  BY <1>1, <1>2 DEF ReplyKey, requestKey

\* So has an ERROR that is about a request.
LEMMA ErrorsFind ==
    ASSUME NEW t \in WampMsgType, NEW id, NEW e, Fit(e), e.type = "error"
    PROVE  ReplyKey(setRequestInfo(e, t, id)) = << MsgTypeNumber[t], id >>
<1> DEFINE x == Integer(MsgTypeNumber[t])
           y == Integer(id)
           u == [e EXCEPT !.fields[2] = x]
           w == [u EXCEPT !.fields[3] = y]
<1>1. w = setRequestInfo(e, t, id)
  BY DEF setRequestInfo
<1>2. x[1] = "integer" /\ y[1] = "integer" /\ x[2] = MsgTypeNumber[t] /\ y[2] = id
  BY DEF Integer
<1>3. Schema["error"].minSize = 5 /\ Schema["error"].fieldTypes[2] = "integer" /\ Schema["error"].fieldTypes[3] = "integer"
  BY ErrorRow DEF RowIs
<1>4. Len(e.fields) \in Nat /\ Len(e.fields) >= 5
  BY <1>3, SeqFacts DEF Fit, TypedAs
<1> HIDE DEF u, w, x, y
<1>5. Instead(u, e, 2) /\ u.fields[2] = x
  <2>1. u = [e EXCEPT !.fields[2] = x] /\ 2 \in Nat /\ 2 >= 2 /\ 2 <= Len(e.fields) /\ x[1] = Schema[e.type].fieldTypes[2]
    BY <1>2, <1>3, <1>4 DEF u
  <2> QED
    BY <2>1, FieldReplaced
<1>6. Fit(u) /\ u.type = "error" /\ Len(u.fields) = Len(e.fields)
  BY <1>5 DEF Instead
<1>7. Instead(w, u, 3) /\ w.fields[3] = y
  <2>1. w = [u EXCEPT !.fields[3] = y] /\ 3 \in Nat /\ 3 >= 2 /\ 3 <= Len(u.fields) /\ y[1] = Schema[u.type].fieldTypes[3]
    BY <1>2, <1>3, <1>4, <1>6 DEF w
  <2> QED
    BY <1>6, <2>1, FieldReplaced
<1>8. Fit(w) /\ w.type = "error" /\ Len(w.fields) >= 5 /\ Len(w.fields) \in Nat /\ w.fields[2] = x /\ w.fields[3] = y
  BY <1>4, <1>5, <1>6, <1>7 DEF Instead
<1>9. FieldAs(w, 1, "integer") = Ok(MsgTypeNumber[t])
  <2>1. FieldAs(w, 1, Schema[w.type].fieldTypes[1 + 1]) = Ok(w.fields[1 + 1][2])
    <3>1. Fit(w) /\ 1 \in Nat /\ 1 < Len(w.fields)
      BY <1>8
    <3> QED
      BY <3>1, FieldThere
  <2> QED
    BY <1>2, <1>3, <1>8, <2>1
<1>10. FieldAs(w, 2, "integer") = Ok(id)
  <2>1. FieldAs(w, 2, Schema[w.type].fieldTypes[2 + 1]) = Ok(w.fields[2 + 1][2])
    <3>1. Fit(w) /\ 2 \in Nat /\ 2 < Len(w.fields)
      BY <1>8
    <3> QED
      BY <3>1, FieldThere
  <2> QED
    BY <1>2, <1>3, <1>8, <2>1
<1>11. requestId(w)[2] = id
  BY <1>8, <1>10 DEF requestId, Ok
<1>12. requestType(w) = MsgTypeNumber[t]
  <2>1. requestType(w) = MsgTypeNumber[t] % 256
    BY <1>9 DEF requestType, Ok
  <2>2. MsgTypeNumber[t] \in Nat /\ MsgTypeNumber[t] < 256
    BY Numbers
  <2> QED
    BY <2>1, <2>2
<1> QED
  BY <1>1, <1>8, <1>11, <1>12 DEF ReplyKey, requestKey

\* A result becomes the YIELD with the same options and arguments.
LEMMA ResultYields ==
    ASSUME NEW m, Fit(m), m.type = "result", NEW id
    PROVE  LET y == yieldMessageOf(m, id)
           IN /\ parse(y.fields) = Ok(y) /\ y.type = "yield"
              /\ FieldAs(y, 1, "integer") = Ok(id) /\ options(y) = options(m) /\ Len(y.fields) = Len(m.fields)
<1> DEFINE u == setRequestId(m, id)
           f == u.fields
           y == yieldMessageOf(m, id)
<1>1. "result" \in hasRequestId /\ "yield" \in WampMsgType
  BY DEF hasRequestId, WampMsgType
<1>2. /\ Fit(u) /\ u.type = "result" /\ Len(f) = Len(m.fields) /\ f[2] = Integer(id)
      /\ \A j \in 3 .. Len(m.fields) : f[j] = m.fields[j]
  BY <1>1, IdAssigned
<1>3. y = WampMessage("yield", f)
  BY DEF yieldMessageOf, setType
<1>4. /\ Schema["yield"].minSize = 3 /\ Schema["result"].minSize = 3
      /\ Schema["yield"].fieldTypes = Schema["result"].fieldTypes
      /\ Schema["yield"].fieldTypes[2] = "integer" /\ Schema["yield"].fieldTypes[3] = "object"
      /\ MessageClass("yield", 0).optionsPos = 2 /\ MessageClass("result", 0).optionsPos = 2
  BY ResultRow DEF RowIs
<1> HIDE DEF f, y, u
<1>5. IsSeq(f) /\ Len(f) \in Nat /\ Len(f) >= 3 /\ Len(f) <= Len(Schema["yield"].fieldTypes)
      /\ \A i \in 1 .. Len(f) : f[i][1] = Schema["yield"].fieldTypes[i]
  BY <1>2, <1>4, SeqFacts DEF Fit, TypedAs, f
<1>6. \A i \in 2 .. Len(f) : f[i][1] = Schema["yield"].fieldTypes[i]
  BY <1>5
<1>7. /\ Fit(y) /\ y.type = "yield" /\ Len(y.fields) = Len(f)
      /\ \A i \in 2 .. Len(f) : y.fields[i] = f[i]
  BY <1>1, <1>3, <1>4, <1>5, <1>6, MessageOf
<1>8. y.fields[2] = Integer(id) /\ y.fields[3] = m.fields[3]
  BY <1>2, <1>5, <1>7
<1>9. FieldAs(y, 1, "integer") = Ok(id)
  <2>1. FieldAs(y, 1, Schema[y.type].fieldTypes[1 + 1]) = Ok(y.fields[1 + 1][2])
    <3>1. Fit(y) /\ 1 \in Nat /\ 1 < Len(y.fields)
      BY <1>5, <1>7
    <3> QED
      BY <3>1, FieldThere
  <2> QED
    BY <1>4, <1>7, <1>8, <2>1 DEF Integer
<1>10. options(y) = options(m)
  <2>1. options(y) = FieldAs(y, 2, "object") /\ options(m) = FieldAs(m, 2, "object")
    BY <1>4, <1>7 DEF options, optionsPos
  <2>2. FieldAs(y, 2, Schema[y.type].fieldTypes[2 + 1]) = Ok(y.fields[2 + 1][2])
    <3>1. Fit(y) /\ 2 \in Nat /\ 2 < Len(y.fields)
      BY <1>5, <1>7
    <3> QED
      BY <3>1, FieldThere
  <2>3. FieldAs(m, 2, Schema[m.type].fieldTypes[2 + 1]) = Ok(m.fields[2 + 1][2])
    <3>1. Fit(m) /\ 2 \in Nat /\ 2 < Len(m.fields)
      BY <1>2, <1>5
    <3> QED
      BY <3>1, FieldThere
  <2> QED
    BY <1>4, <1>7, <1>8, <2>1, <2>2, <2>3
<1>11. parse(y.fields) = Ok(y)
  BY <1>7, FitParses
<1> QED
  BY <1>2, <1>7, <1>9, <1>10, <1>11 DEF y

\* A cancellation is accepted, and is about the call that is cancelled.
LEMMA CancellationFits ==
    ASSUME NEW id, NEW how
    PROVE  LET c == CallCancellation(id, how) IN parse(c.fields) = Ok(c) /\ FieldAs(c, 1, "integer") = Ok(id)
<1> DEFINE n == CancelMessage(id).new
           c == CallCancellation(id, how)
<1>1. "cancel" \in WampMsgType \ {"challenge"} /\ MessageClass("cancel", id) = CancelMessage(id)
  BY DEF WampMsgType, MessageClass
<1>2. Fit(n) /\ n.type = "cancel"
  BY <1>1, NewFits
<1>3. /\ Schema["cancel"].minSize = 3 /\ Schema["cancel"].fieldTypes[2] = "integer" /\ Schema["cancel"].fieldTypes[3] = "object"
      /\ MessageClass("cancel", 0).optionsPos = 2
  BY WelcomeRow DEF RowIs
<1>4. n.fields[2] = Integer(id)
  <2>1. n = WampMessage("cancel", << Zero, Integer(id), NoOptions >>)
    BY DEF CancelMessage, Fields
  <2>2. Integer(id)[1] = "integer" /\ NoOptions[1] = "object"
    BY DEF Integer, NoOptions
  <2> QED
    BY <1>1, <1>3, <2>1, <2>2, Message3
<1>5. c = withOption(n, mode, << "string", how >>) /\ optionsPos(n) = 2 /\ optionsPos(n) # None
  BY <1>2, <1>3 DEF CallCancellation, optionsPos, None
<1>6. Len(n.fields) \in Nat /\ Len(n.fields) >= 3
  BY <1>2, <1>3, SeqFacts DEF Fit, TypedAs
<1> HIDE DEF n, c
<1>7. Instead(c, n, 2 + 1)
  BY <1>2, <1>5, OptionAdded
<1>8. Fit(c) /\ c.type = "cancel" /\ c.fields[2] = Integer(id) /\ Len(c.fields) = Len(n.fields)
  BY <1>2, <1>4, <1>6, <1>7 DEF Instead
<1>9. FieldAs(c, 1, "integer") = Ok(id)
  <2>1. FieldAs(c, 1, Schema[c.type].fieldTypes[1 + 1]) = Ok(c.fields[1 + 1][2])
    <3>1. Fit(c) /\ 1 < Len(c.fields) /\ 1 \in Nat
      BY <1>6, <1>8
    <3> QED
      BY <3>1, FieldThere
  <2> QED
    BY <1>3, <1>8, <2>1 DEF Integer
<1> QED
  BY <1>8, <1>9, FitParses DEF c

\* What is sent, and what is answered to it, for every type and ID
LEMMA SentAsMade ==
    ASSUME NEW t \in WampMsgType, NEW id
    PROVE  AsSent(t, id)
<1> SUFFICES ASSUME NEW m \in Made(t, id)
             PROVE  /\ t # "challenge" => parse(m.fields) = Ok(m)
                    /\ \A r \in DOMAIN Schema : repliesTo(r) = t /\ t \in hasRequestId /\ r \in hasRequestId =>
                            \A reply \in Made(r, id) : ReplyKey(reply) = requestKey(m)
                    /\ \A e \in Made("error", id) : ReplyKey(setRequestInfo(e, t, id)) = << MsgTypeNumber[t], id >>
                    /\ t = "result" =>
                            LET y == yieldMessageOf(m, id + 1)
                            IN /\ parse(y.fields) = Ok(y) /\ y.type = "yield"
                               /\ FieldAs(y, 1, "integer") = Ok(id + 1) /\ options(y) = options(m)
                               /\ Len(y.fields) = Len(m.fields)
                    /\ t = "cancel" => \A how \in 1 .. 3 :
                            LET c == CallCancellation(id, how)
                            IN parse(c.fields) = Ok(c) /\ FieldAs(c, 1, "integer") = Ok(id)
  BY DEF AsSent
<1>1. "challenge" \notin hasRequestId /\ DOMAIN Schema = WampMsgType /\ "error" \in WampMsgType
  BY Numbers DEF hasRequestId, WampMsgType
<1>2. t # "challenge" => parse(m.fields) = Ok(m)
  BY MadeCarries, FitParses DEF Carries
<1>3. ASSUME NEW r \in DOMAIN Schema, repliesTo(r) = t, t \in hasRequestId, r \in hasRequestId, NEW reply \in Made(r, id)
      PROVE  ReplyKey(reply) = requestKey(m)
  <2>1. Carries(m, t, id)
    BY <1>1, <1>3, MadeCarries
  <2>2. Carries(reply, r, id)
    BY <1>1, <1>3, MadeCarries
  <2> QED
    BY <1>3, <2>1, <2>2, RepliesFind
<1>4. ASSUME NEW e \in Made("error", id) PROVE ReplyKey(setRequestInfo(e, t, id)) = << MsgTypeNumber[t], id >>
  BY <1>1, <1>4, MadeCarries, ErrorsFind DEF Carries
<1>5. ASSUME t = "result" PROVE Fit(m) /\ m.type = "result"
  BY <1>5, MadeCarries DEF Carries
<1> QED
  BY <1>2, <1>3, <1>4, <1>5, ResultYields, CancellationFits

-----------------------------------------------------------------------------
(* Options *)

\* emplace() adds one key, unless it is there.
LEMMA EmplacedOne ==
    ASSUME NEW old, NEW key, NEW v
    PROVE  LET e == Emplaced(old, << key >>, << v >>)
           IN key \in DOMAIN e /\ e[key] = IF key \in DOMAIN old THEN old[key] ELSE v
<1> DEFINE keys == << key >>
           xs == << v >>
           e == Emplaced(old, keys, xs)
           D == DOMAIN old \cup { keys[i] : i \in DOMAIN keys }
<1>1. DOMAIN keys = {1} /\ keys[1] = key /\ xs[1] = v
  OBVIOUS
<1>2. e = [k \in D |-> IF k \in DOMAIN old THEN old[k] ELSE xs[CHOOSE i \in DOMAIN keys : keys[i] = k]]
  BY DEF Emplaced
<1> HIDE DEF e, keys, xs
<1>3. key \in D
  BY <1>1
<1>4. (CHOOSE i \in DOMAIN keys : keys[i] = key) = 1
  BY <1>1
<1> QED
  BY <1>1, <1>2, <1>3, <1>4 DEF e, keys, xs

\* An option that was there keeps its value, and one that was not has the
\* value that it is given.
LEMMA OptionRead ==
    ASSUME NEW m, Fit(m), optionsPos(m) # None, NEW key, NEW v, NEW w, w = withOption(m, key, v)
    PROVE  /\ Fit(w) /\ w.type = m.type
           /\ options(w)[1] = "ok" /\ key \in DOMAIN options(w)[2]
           /\ options(w)[2][key] = IF key \in DOMAIN options(m)[2] THEN options(m)[2][key] ELSE v
<1> DEFINE p == optionsPos(m)
           old == m.fields[p + 1][2]
           e == Emplaced(old, << key >>, << v >>)
<1>1. Instead(w, m, p + 1) /\ options(m) = Ok(old) /\ options(w) = Ok(e)
  BY OptionAdded
<1>2. key \in DOMAIN e /\ e[key] = IF key \in DOMAIN old THEN old[key] ELSE v
  BY EmplacedOne
<1> HIDE DEF e, old, p
<1>3. Fit(w) /\ w.type = m.type
  BY <1>1 DEF Instead
<1>4. options(m)[2] = old /\ options(w)[2] = e /\ options(w)[1] = "ok"
  BY <1>1 DEF Ok
<1> QED
  BY <1>2, <1>3, <1>4

\* A new RESULT and a new CALL have no options.
LEMMA NoOptionsYet ==
    /\ Fit(ResultMessage.new) /\ ResultMessage.new.type = "result" /\ optionsPos(ResultMessage.new) = 2
    /\ options(ResultMessage.new)[2] = << >> /\ Len(ResultMessage.new.fields) = 3
    /\ \A u : /\ Fit(CallMessage(u).new) /\ CallMessage(u).new.type = "call" /\ optionsPos(CallMessage(u).new) = 2
              /\ options(CallMessage(u).new)[2] = << >>
<1>1. Zero[1] = "integer" /\ NoOptions[1] = "object" /\ NoOptions[2] = << >> /\ \A u : Uri(u)[1] = "string"
  BY DEF Zero, Integer, Uri, NoOptions
<1>2. "result" \in WampMsgType /\ "call" \in WampMsgType
  BY DEF WampMsgType
<1>3. ASSUME NEW m, Fit(m), optionsPos(m) = 2, m.fields[3] = NoOptions PROVE options(m)[2] = << >>
  <2>1. optionsPos(m) # None
    BY <1>3 DEF None
  <2>2. PICK w, p : w = withOption(m, 0, 0) /\ p = optionsPos(m)
    OBVIOUS
  <2>3. options(m) = Ok(m.fields[p + 1][2])
    BY <1>3, <2>1, <2>2, OptionAdded
  <2>4. p + 1 = 3
    BY <1>3, <2>2
  <2> QED
    BY <1>1, <1>3, <2>3, <2>4 DEF Ok
<1>4. /\ Fit(ResultMessage.new) /\ ResultMessage.new.type = "result" /\ optionsPos(ResultMessage.new) = 2
      /\ options(ResultMessage.new)[2] = << >> /\ Len(ResultMessage.new.fields) = 3
  <2> DEFINE m == ResultMessage.new
  <2>1. m = WampMessage("result", << Zero, Zero, NoOptions >>)
    BY DEF ResultMessage, Fields
  <2>2. /\ Schema["result"].minSize = 3 /\ Schema["result"].fieldTypes[2] = "integer" /\ Schema["result"].fieldTypes[3] = "object"
        /\ MessageClass("result", 0).optionsPos = 2
    BY ResultRow DEF RowIs
  <2> HIDE DEF m
  <2>3. m.type = "result"
    BY <2>1 DEF WampMessage
  <2>4. Fit(m) /\ m.fields[3] = NoOptions /\ Len(m.fields) = 3
    BY <1>1, <1>2, <2>1, <2>2, Message3
  <2>5. optionsPos(m) = 2
    BY <2>2, <2>3 DEF optionsPos
  <2> QED
    BY <1>3, <2>3, <2>4, <2>5 DEF m
<1>5. ASSUME NEW u
      PROVE  /\ Fit(CallMessage(u).new) /\ CallMessage(u).new.type = "call" /\ optionsPos(CallMessage(u).new) = 2
             /\ options(CallMessage(u).new)[2] = << >>
  <2> DEFINE m == CallMessage(u).new
  <2>1. m = WampMessage("call", << Zero, Zero, NoOptions, Uri(u) >>)
    BY DEF CallMessage, Fields
  <2>2. /\ Schema["call"].minSize = 4 /\ Schema["call"].fieldTypes[2] = "integer" /\ Schema["call"].fieldTypes[3] = "object"
        /\ Schema["call"].fieldTypes[4] = "string" /\ MessageClass("call", 0).optionsPos = 2
    BY CallRow DEF RowIs
  <2> HIDE DEF m
  <2>3. m.type = "call"
    BY <2>1 DEF WampMessage
  <2>4. Fit(m) /\ m.fields[3] = NoOptions
    BY <1>1, <1>2, <2>1, <2>2, Message4
  <2>5. optionsPos(m) = 2
    BY <2>2, <2>3 DEF optionsPos
  <2> QED
    BY <1>3, <2>3, <2>4, <2>5 DEF m
<1> QED
  BY <1>4, <1>5

\* A variant has one of the types, and only Null has the first.
IsVariant(v) == (\E i \in DOMAIN TypeIds : v[1] = TypeIds[i]) /\ (v[1] = "null" => v = Null)

\* Both looks at a result's "progress" are the same conversion.
LEMMA ProgressIsAgreed ==
    ASSUME NEW v, IsVariant(v)
    PROVE  ProgressAgreed(v)
<1> DEFINE n == ResultMessage.new
           m == withOption(n, progress, v)
           B == << "bool" >>
<1>1. /\ Fit(n) /\ n.type = "result" /\ optionsPos(n) = 2 /\ optionsPos(n) # None /\ options(n)[2] = << >>
  BY NoOptionsYet DEF None
<1> HIDE DEF n
<1>2. progress \notin DOMAIN options(n)[2]
  BY <1>1
<1>3. PICK w : w = m
  OBVIOUS
<1>4. /\ Fit(w) /\ w.type = "result" /\ options(w)[1] = "ok" /\ progress \in DOMAIN options(w)[2] /\ options(w)[2][progress] = v
  BY <1>1, <1>2, <1>3, OptionRead
<1>5. Schema["result"].minSize = 3 /\ Schema["result"].fieldTypes[3] = "object"
  BY ResultRow DEF RowIs
<1>6. Len(w.fields) \in Nat /\ Len(w.fields) >= 3 /\ w.fields[3][1] = "object"
  BY <1>4, <1>5, SeqFacts DEF Fit, TypedAs
<1>7. isProgressiveResponse(w) = valueOr(v, B, FALSE)
  <2>1. optionByKey(w, progress) = v
    BY <1>4 DEF optionByKey
  <2>2. ~(w.type # "result" \/ Len(w.fields) < 3 \/ w.fields[3][1] # "object")
    BY <1>4, <1>6
  <2> QED
    BY <2>1, <2>2, Zenon DEF isProgressiveResponse
<1>8. isProgressive(w) = ToScalar(B, v)
  BY <1>4 DEF isProgressive, optionOr
<1>9. isProgressiveResponse(w) = isProgressive(w) \/ v = Null
  BY <1>7, <1>8 DEF valueOr, IsVariant
<1>10. FieldType(B) = "boolean" /\ B[1] = "bool"
  BY DEF FieldType
<1>11. isProgressiveResponse(w)[1] = "ok" \/ v[1] \in {"string", "blob", "array", "object"}
  <2>1. v[1] \in {"null", "boolean", "integer", "uint", "real", "string", "blob", "array", "object"}
    BY DEF IsVariant, TypeIds
  <2>2. \A x : Ok(x)[1] = "ok"
    BY DEF Ok
  <2>3. CASE v[1] = "null"
    BY <1>7, <2>2, <2>3 DEF valueOr
  <2>4. CASE v[1] = "boolean"
    <3>1. ToScalar(B, v) = Ok(v[2])
      BY <1>10, <2>4 DEF ToScalar
    <3> QED
      BY <1>7, <2>2, <2>4, <3>1 DEF valueOr
  <2>5. CASE v[1] \in {"integer", "uint", "real"}
    <3>1. ToScalar(B, v) = Ok(Cast(B, v))
      BY <1>10, <2>5 DEF ToScalar
    <3> QED
      BY <1>7, <2>2, <2>5, <3>1 DEF valueOr
  <2> QED
    BY <2>1, <2>3, <2>4, <2>5
<1> QED
  BY <1>3, <1>9, <1>11 DEF ProgressAgreed, n

\* An ongoing call asks for progressive results, unless they were refused.
LEMMA OngoingCallAsks ==
    ASSUME NEW asked \in Seq(BOOLEAN)
    PROVE  OngoingAsks(asked)
<1> DEFINE IsCall(r) == Fit(r.message) /\ r.message.type = "call" /\ options(r.message)[1] = "ok"
           Option(r) == optionByKey(r.message, receiveProgress)
           Has(r) == receiveProgress \in DOMAIN options(r.message)[2]
<1>1. \A m : m.type = "call" => optionsPos(m) # None
  <2>1. MessageClass("call", 0).optionsPos = 2
    BY CallRow DEF RowIs
  <2> QED
    BY <2>1 DEF optionsPos, None
<1>2. ASSUME NEW r, Fit(r.message), r.message.type = "call", NEW b, NEW w, w = withProgressiveResults(r, b)
      PROVE  /\ Fit(w.message) /\ w.message.type = "call" /\ Has(w) /\ w.progressive = b
             /\ Option(w) = IF Has(r) THEN Option(r) ELSE << "boolean", b >>
  <2> DEFINE v == << "boolean", b >>
             u == withOption(r.message, receiveProgress, v)
  <2>1. w.message = u /\ w.progressive = b
    BY <1>2 DEF withProgressiveResults
  <2> HIDE DEF v
  <2>2. PICK x : x = u
    OBVIOUS
  <2>3. /\ Fit(x) /\ x.type = "call" /\ receiveProgress \in DOMAIN options(x)[2]
        /\ options(x)[2][receiveProgress] =
              IF receiveProgress \in DOMAIN options(r.message)[2] THEN options(r.message)[2][receiveProgress] ELSE v
    BY <1>1, <1>2, <2>2, OptionRead
  <2> HIDE DEF u
  <2>4. Has(w) /\ Option(w) = IF Has(r) THEN Option(r) ELSE v
    BY <2>1, <2>2, <2>3 DEF optionByKey
  <2> QED
    BY <2>1, <2>2, <2>3, <2>4 DEF v
<1>3. /\ Fit(Rpc(1).message) /\ Rpc(1).message.type = "call" /\ ~Has(Rpc(1))
  <2>1. Rpc(1).message = CallMessage(1).new
    BY DEF Rpc
  <2> QED
    BY <2>1, NoOptionsYet
<1> DEFINE one == withProgressiveResults(Rpc(1), asked[1])
           two == withProgressiveResults(one, asked[2])
           r == CASE asked = << >> -> Rpc(1) [] Len(asked) = 1 -> one [] OTHER -> two
           ongoing == withProgressiveResults(r, TRUE)
<1> HIDE DEF Has, Option
<1>4. Fit(one.message) /\ one.message.type = "call" /\ Has(one) /\ Option(one) = << "boolean", asked[1] >>
  BY <1>2, <1>3
<1>5. Fit(two.message) /\ two.message.type = "call" /\ Has(two) /\ Option(two) = << "boolean", asked[1] >>
  <2> HIDE DEF one
  <2> QED
    BY <1>2, <1>4
<1>6. CASE asked = << >>
  <2>1. r = Rpc(1)
    BY <1>6
  <2> HIDE DEF r
  <2>2. ongoing.progressive = TRUE /\ Option(ongoing) = << "boolean", TRUE >>
    BY <1>2, <1>3, <2>1
  <2> QED
    BY <2>2 DEF OngoingAsks, Option, r
<1>7. CASE asked # << >>
  <2>1. r = one \/ r = two
    BY <1>7
  <2>2. asked[1] \in BOOLEAN
    BY <1>7
  <2> HIDE DEF one, two
  <2>3. Fit(r.message) /\ r.message.type = "call" /\ Has(r) /\ Option(r) = << "boolean", asked[1] >>
    BY <1>4, <1>5, <2>1
  <2> HIDE DEF r
  <2>4. ongoing.progressive = TRUE /\ Option(ongoing) = << "boolean", asked[1] >>
    BY <1>2, <2>3
  <2>5. Option(ongoing) = << "boolean", TRUE >> \/ Option(r) = << "boolean", FALSE >>
    BY <2>2, <2>3, <2>4
  <2> QED
    BY <2>4, <2>5 DEF OngoingAsks, Option, r, one, two
<1> QED
  BY <1>6, <1>7

-----------------------------------------------------------------------------
(* Roles and features of a router *)

\* The router's dictionary has the role, with all of the features.
Offers(routerRoles, role, features) ==
    /\ role \in DOMAIN routerRoles /\ routerRoles[role][1] = "object"
    /\ 1 \in DOMAIN routerRoles[role][2] /\ routerRoles[role][2][1][1] = "object"
    /\ \A f \in features : hasFeature(routerRoles[role][2][1][2], f)

\* One turn of the loop in supportsFeatures succeeds if and only if the
\* router's dictionary has all of the role's features.
LEMMA RoleOffered ==
    ASSUME NEW found, NEW role, NEW features
    PROVE  roleSupports(found, role, features) = Ok(TRUE) <=> Offers(found, role, features)
<1> DEFINE All == \A f \in features : hasFeature(found[role][2][1][2], f)
<1>1. Ok(FALSE) # Ok(TRUE) /\ Access # Ok(TRUE)
  BY DEF Ok, Access
<1>2. All \in BOOLEAN
  OBVIOUS
<1>3. Offers(found, role, features) <=>
          /\ role \in DOMAIN found /\ found[role][1] = "object"
          /\ 1 \in DOMAIN found[role][2] /\ found[role][2][1][1] = "object"
          /\ All
  BY DEF Offers
<1>4. roleSupports(found, role, features) =
          IF role \notin DOMAIN found THEN Ok(FALSE)
          ELSE CASE found[role][1] # "object" -> Access
                 [] found[role][1] = "object" /\ 1 \notin DOMAIN found[role][2] -> Ok(FALSE)
                 [] OTHER -> IF found[role][2][1][1] # "object" THEN Access ELSE Ok(All)
  BY DEF roleSupports
<1> HIDE DEF All
<1>5. CASE ~(/\ role \in DOMAIN found /\ found[role][1] = "object"
             /\ 1 \in DOMAIN found[role][2] /\ found[role][2][1][1] = "object")
  BY <1>1, <1>3, <1>4, <1>5
<1>6. CASE /\ role \in DOMAIN found /\ found[role][1] = "object"
           /\ 1 \in DOMAIN found[role][2] /\ found[role][2][1][1] = "object"
  <2>1. roleSupports(found, role, features) = Ok(All)
    BY <1>4, <1>6, Zenon
  <2>2. CASE All
    <3>1. All = TRUE
      BY <1>2, <2>2, Zenon
    <3> QED
      BY <1>3, <1>6, <2>1, <2>2, <3>1, Zenon
  <2>3. CASE ~All
    <3>1. All = FALSE
      BY <1>2, <2>3, Zenon
    <3> QED
      BY <1>1, <1>3, <1>6, <2>1, <2>3, <3>1, Zenon
  <2> QED
    BY <2>2, <2>3
<1> QED
  BY <1>5, <1>6

\* A loop that ends with the first role that is not supported succeeds if and
\* only if there is none.
LEMMA FeaturesOffered ==
    ASSUME NEW m, NEW d, options(m) = Ok(d), NEW D, D \subseteq Nat, NEW F, NEW features \in [D -> F]
    PROVE  supportsFeatures(m, features) = Ok(TRUE) <=>
              \/ D = {}
              \/ /\ rolesKey \in DOMAIN d /\ d[rolesKey][1] = "object"
                 /\ \A role \in D : Offers(d[rolesKey][2], role, features[role])
<1> DEFINE found == options(m)[2][rolesKey]
           stops == { role \in DOMAIN features : roleSupports(found[2], role, features[role]) # Ok(TRUE) }
           first == CHOOSE role \in stops : \A r \in stops : role <= r
<1>1. Ok(FALSE) # Ok(TRUE) /\ Access # Ok(TRUE)
  BY DEF Ok, Access
<1>2. options(m)[2] = d
  BY DEF Ok
<1>3. DOMAIN features = D
  OBVIOUS
<1>4. features = << >> <=> D = {}
  OBVIOUS
<1>5. supportsFeatures(m, features) =
        CASE features = << >> -> Ok(TRUE)
          [] features # << >> /\ rolesKey \notin DOMAIN options(m)[2] -> Ok(FALSE)
          [] OTHER -> CASE found[1] # "object" -> Access
                        [] found[1] = "object" /\ stops = {} -> Ok(TRUE)
                        [] OTHER -> roleSupports(found[2], first, features[first])
  BY Zenon DEF supportsFeatures
<1>6. stops = {} <=> \A role \in D : Offers(found[2], role, features[role])
  <2> HIDE DEF found
  <2> QED
    BY <1>3, RoleOffered
<1>7. stops # {} => first \in stops
  <2>1. stops \subseteq Nat
    BY <1>3
  <2> HIDE DEF stops
  <2> QED
    BY <2>1, LeastOf
<1>8. stops # {} => roleSupports(found[2], first, features[first]) # Ok(TRUE)
  <2> HIDE DEF first, found
  <2> QED
    BY <1>7
<1> HIDE DEF stops, first, found
<1>9. CASE D = {}
  BY <1>4, <1>5, <1>9
<1>10. CASE D # {} /\ rolesKey \notin DOMAIN d
  BY <1>1, <1>2, <1>4, <1>5, <1>10
<1>11. CASE D # {} /\ rolesKey \in DOMAIN d
  <2>1. found = d[rolesKey]
    BY <1>2 DEF found
  <2>2. CASE found[1] # "object"
    BY <1>1, <1>2, <1>4, <1>5, <1>11, <2>1, <2>2
  <2>3. CASE found[1] = "object" /\ stops = {}
    BY <1>1, <1>2, <1>4, <1>5, <1>6, <1>11, <2>1, <2>3
  <2>4. CASE found[1] = "object" /\ stops # {}
    <3>1. supportsFeatures(m, features) = roleSupports(found[2], first, features[first])
      BY <1>2, <1>4, <1>5, <1>11, <2>4
    <3> QED
      BY <1>6, <1>8, <1>11, <2>1, <2>4, <3>1
  <2> QED
    BY <2>2, <2>3, <2>4
<1> QED
  BY <1>9, <1>10, <1>11

\* What the loop finds, and what it looks for
Supported(m, features) == supportsFeatures(m, features) = Ok(TRUE)
AllOffered(d, D, features) ==
    \/ D = {}
    \/ /\ rolesKey \in DOMAIN d /\ d[rolesKey][1] = "object"
       /\ \A role \in D : Offers(d[rolesKey][2], role, features[role])

\* FeaturesOffered under the two names.
LEMMA SupportedIsOffered ==
    ASSUME NEW m, NEW d, options(m) = Ok(d), NEW D, D \subseteq Nat, NEW F, NEW features \in [D -> F]
    PROVE  Supported(m, features) <=> AllOffered(d, D, features)
  BY FeaturesOffered DEF Supported, AllOffered

\* Roles are demanded one by one.
LEMMA OneRoleOffered ==
    ASSUME NEW m, NEW d, options(m) = Ok(d), NEW r
    PROVE  supportsRoles(m, {r}) = Ok(TRUE) <=>
              rolesKey \in DOMAIN d /\ d[rolesKey][1] = "object" /\ r \in DOMAIN d[rolesKey][2]
<1>1. Ok(FALSE) # Ok(TRUE) /\ Access # Ok(TRUE) /\ options(m)[2] = d
  BY DEF Ok, Access
<1> DEFINE found == d[rolesKey]
           Has == {r} \subseteq DOMAIN found[2]
<1>2. Has \in BOOLEAN /\ (Has <=> r \in DOMAIN found[2])
  OBVIOUS
<1>3. supportsRoles(m, {r}) =
        CASE {r} = {} -> Ok(TRUE)
          [] {r} # {} /\ rolesKey \notin DOMAIN d -> Ok(FALSE)
          [] OTHER -> IF found[1] # "object" THEN Access ELSE Ok(Has)
  BY <1>1 DEF supportsRoles
<1> HIDE DEF Has, found
<1>4. CASE ~(rolesKey \in DOMAIN d /\ found[1] = "object")
  BY <1>1, <1>3, <1>4 DEF found
<1>5. CASE rolesKey \in DOMAIN d /\ found[1] = "object"
  <2>1. supportsRoles(m, {r}) = Ok(Has)
    BY <1>3, <1>5
  <2>2. CASE Has
    <3>1. Has = TRUE
      BY <1>2, <2>2, Zenon
    <3> QED
      BY <1>2, <1>5, <2>1, <2>2, <3>1, Zenon DEF found
  <2>3. CASE ~Has
    <3>1. Has = FALSE
      BY <1>2, <2>3, Zenon
    <3> QED
      BY <1>1, <1>2, <1>5, <2>1, <2>3, <3>1, Zenon DEF found
  <2> QED
    BY <2>2, <2>3
<1> QED
  BY <1>4, <1>5

\* Features that are demanded at once are demanded one by one.
LEMMA FeaturesOneByOne ==
    ASSUME NEW d, NEW D, D \subseteq Nat, NEW F, NEW demanded \in [D -> SUBSET F]
    PROVE  FeaturesEach(d, demanded)
<1> DEFINE n == WelcomeMessage.new
           x == << "object", d >>
           m == [n EXCEPT !.fields[3] = x]
           found == d[rolesKey]
           Each(r) == {{}} \cup { {y} : y \in demanded[r] }
           Dictionary == rolesKey \in DOMAIN d /\ found[1] = "object"
<1>1. options(m) = Ok(d)
  <2>1. "welcome" \in WampMsgType \ {"challenge"} /\ MessageClass("welcome", 0) = WelcomeMessage
    BY DEF WampMsgType, MessageClass
  <2>2. Fit(n) /\ n.type = "welcome"
    BY <2>1, NewFits
  <2>3. /\ Schema["welcome"].minSize = 3 /\ Schema["welcome"].fieldTypes[3] = "object"
        /\ MessageClass("welcome", 0).optionsPos = 2
    BY WelcomeRow DEF RowIs
  <2>4. Len(n.fields) \in Nat /\ Len(n.fields) >= 3
    BY <2>2, <2>3, SeqFacts DEF Fit, TypedAs
  <2>5. x[1] = "object" /\ x[2] = d
    OBVIOUS
  <2> HIDE DEF n, x
  <2>6. PICK w : w = m
    OBVIOUS
  <2> HIDE DEF m
  <2>7. w = [n EXCEPT !.fields[3] = x] /\ x[1] = Schema[n.type].fieldTypes[3] /\ 3 \in Nat /\ 3 >= 2 /\ 3 <= Len(n.fields)
    BY <2>2, <2>3, <2>4, <2>5, <2>6 DEF m
  <2>8. Instead(w, n, 3) /\ w.fields[3] = x
    BY <2>2, <2>7, FieldReplaced
  <2>9. Fit(w) /\ w.type = "welcome" /\ 2 < Len(w.fields) /\ 2 \in Nat
    BY <2>2, <2>4, <2>8 DEF Instead
  <2>10. FieldAs(w, 2, Schema[w.type].fieldTypes[2 + 1]) = Ok(w.fields[2 + 1][2])
    <3>1. Fit(w) /\ 2 \in Nat /\ 2 < Len(w.fields)
      BY <2>9
    <3> QED
      BY <3>1, FieldThere
  <2>11. options(w) = FieldAs(w, 2, "object")
    BY <2>3, <2>9 DEF options, optionsPos
  <2>12. options(w) = Ok(d)
    BY <2>3, <2>5, <2>8, <2>9, <2>10, <2>11
  <2> QED
    BY <2>6, <2>12
<1> HIDE DEF n, x, m, found
<1>2. supportsFeatures(m, demanded) = Ok(TRUE) <=>
         D = {} \/ (Dictionary /\ \A role \in D : Offers(found[2], role, demanded[role]))
  <2>1. Supported(m, demanded) <=> AllOffered(d, D, demanded)
    BY <1>1, SupportedIsOffered
  <2> QED
    BY <2>1 DEF Supported, AllOffered, found
<1>3. ASSUME NEW r \in D, NEW f
      PROVE  supportsFeatures(m, [role \in {r} |-> f]) = Ok(TRUE) <=> Dictionary /\ Offers(found[2], r, f)
  <2> DEFINE one == [role \in {r} |-> f]
  <2>1. one \in [{r} -> {f}] /\ {r} \subseteq Nat /\ {r} # {} /\ one[r] = f
    OBVIOUS
  <2> HIDE DEF one
  <2>2. Supported(m, one) <=> AllOffered(d, {r}, one)
    BY <1>1, <2>1, SupportedIsOffered
  <2>3. AllOffered(d, {r}, one) <=> Dictionary /\ Offers(found[2], r, f)
    BY <2>1 DEF AllOffered, found
  <2> QED
    BY <2>2, <2>3 DEF Supported, one
<1>4. \A r : supportsRoles(m, {r}) = Ok(TRUE) <=> Dictionary /\ r \in DOMAIN found[2]
  BY <1>1, OneRoleOffered DEF found
<1>5. ASSUME NEW r \in D
      PROVE  Offers(found[2], r, demanded[r]) <=>
                \A f \in Each(r) : Offers(found[2], r, f) /\ r \in DOMAIN found[2]
  <2>1. demanded[r] \in SUBSET F
    OBVIOUS
  <2>2. ASSUME Offers(found[2], r, demanded[r]), NEW f \in Each(r)
        PROVE  Offers(found[2], r, f) /\ r \in DOMAIN found[2]
    <3>1. f \subseteq demanded[r]
      OBVIOUS
    <3> QED
      BY <2>2, <3>1 DEF Offers
  <2>3. ASSUME \A f \in Each(r) : Offers(found[2], r, f) /\ r \in DOMAIN found[2]
        PROVE  Offers(found[2], r, demanded[r])
    <3>1. {} \in Each(r) /\ \A y \in demanded[r] : {y} \in Each(r)
      OBVIOUS
    <3> HIDE DEF Each
    <3>2. Offers(found[2], r, {}) /\ \A y \in demanded[r] : Offers(found[2], r, {y})
      BY <2>3, <3>1
    <3> QED
      BY <3>2 DEF Offers
  <2> QED
    BY <2>2, <2>3
<1>6. DOMAIN demanded = D /\ \A r \in D : Each(r) # {}
  OBVIOUS
<1> HIDE DEF Dictionary, Each
<1>7. supportsFeatures(m, demanded) = Ok(TRUE) <=>
        \A r \in D : \A f \in Each(r) :
            /\ supportsFeatures(m, [role \in {r} |-> f]) = Ok(TRUE)
            /\ supportsRoles(m, {r}) = Ok(TRUE)
  <2>1. (\A r \in D : \A f \in Each(r) :
            /\ supportsFeatures(m, [role \in {r} |-> f]) = Ok(TRUE)
            /\ supportsRoles(m, {r}) = Ok(TRUE))
        <=> \A r \in D : \A f \in Each(r) : Dictionary /\ Offers(found[2], r, f) /\ r \in DOMAIN found[2]
    BY <1>3, <1>4, Zenon
  <2>2. (\A r \in D : \A f \in Each(r) : Dictionary /\ Offers(found[2], r, f) /\ r \in DOMAIN found[2])
        <=> \A r \in D : Dictionary /\ Offers(found[2], r, demanded[r])
    BY <1>5, <1>6, Zenon
  <2> QED
    BY <1>2, <2>1, <2>2
<1> QED
  BY <1>6, <1>7 DEF FeaturesEach, m, n, x, Each

-----------------------------------------------------------------------------
(* Messages *)

\* Fields with any values, every type and ID, any variants, and any features
\* of any roles
MessageCases(S) ==
    UNION { { << "fields", f >> : f \in Seq(STRING \X S) },
            { << "new", t, id >> : t \in WampMsgType, id \in Int },
            { << "progress", v >> : v \in { x \in S : IsVariant(x) } },
            { << "rpc", asked >> : asked \in Seq(BOOLEAN) },
            { << "roles", d, demanded >> : d \in S, demanded \in UNION { [D -> SUBSET S] : D \in SUBSET Nat } } }

\* Any message that parse() accepts can be read, every message that is sent is
\* accepted as what it was and answered under its key, and the options of results,
\* calls and routers are read alike wherever they are read: what MessagesFit says,
\* for fields of any number with any values, any ID, any variant
\* and features of any number of roles.
THEOREM MessagesAlwaysFit ==
    ASSUME NEW S, input \in MessageCases(S)
    PROVE  MessagesFit
<1>1. CASE input \in { << "fields", f >> : f \in Seq(STRING \X S) }
  <2>1. PICK f \in Seq(STRING \X S) : input = << "fields", f >>
    BY <1>1
  <2>2. FieldsRead(f)
    BY AcceptedIsRead
  <2> QED
    BY <2>1, <2>2 DEF MessagesFit
<1>2. CASE input \in { << "new", t, id >> : t \in WampMsgType, id \in Int }
  <2>1. PICK t \in WampMsgType, id \in Int : input = << "new", t, id >>
    BY <1>2
  <2>2. AsSent(t, id)
    BY SentAsMade
  <2> QED
    BY <2>1, <2>2 DEF MessagesFit
<1>3. CASE input \in { << "progress", v >> : v \in { x \in S : IsVariant(x) } }
  <2>1. PICK v \in S : IsVariant(v) /\ input = << "progress", v >>
    BY <1>3
  <2>2. ProgressAgreed(v)
    BY <2>1, ProgressIsAgreed
  <2> QED
    BY <2>1, <2>2 DEF MessagesFit
<1>4. CASE input \in { << "rpc", asked >> : asked \in Seq(BOOLEAN) }
  <2>1. PICK asked \in Seq(BOOLEAN) : input = << "rpc", asked >>
    BY <1>4
  <2>2. OngoingAsks(asked)
    BY OngoingCallAsks
  <2> QED
    BY <2>1, <2>2 DEF MessagesFit
<1>5. CASE input \in { << "roles", d, demanded >> : d \in S, demanded \in UNION { [D -> SUBSET S] : D \in SUBSET Nat } }
  <2>1. PICK d \in S, demanded \in UNION { [D -> SUBSET S] : D \in SUBSET Nat } : input = << "roles", d, demanded >>
    BY <1>5
  <2>2. PICK D \in SUBSET Nat : demanded \in [D -> SUBSET S]
    BY <2>1
  <2>3. FeaturesEach(d, demanded)
    BY <2>2, FeaturesOneByOne
  <2> QED
    BY <2>1, <2>3 DEF MessagesFit
<1> QED
  BY <1>1, <1>2, <1>3, <1>4, <1>5 DEF MessageCases
=============================================================================
