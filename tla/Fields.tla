------------------------------- MODULE Fields -------------------------------
(***************************************************************************)
(* The classes value, mask and field (oxm/field.hh) and field_set          *)
(* (oxm/field_set.hh) as they are stored: a type, the bits of the value    *)
(* and the bits of the mask, tested whenever an object is constructed.     *)
(* Oxm has the same operations without representation; OperatorsAreOxm and *)
(* SetIsOxm say that these implement them.                                 *)
(*                                                                         *)
(* bits<> is its size and the set of the positions that are 1.  What is    *)
(* thrown is a result; an operator hands on what its operand threw.        *)
(***************************************************************************)
EXTENDS Integers, Oxm

Error(e) == [error |-> e]
Failed(x) == "error" \in DOMAIN x

----------------------------------------------------------------------------
(* Bits and types *)

Bits(n) == [size : {n}, ones : SUBSET (1 .. n)]
None(n) == [size |-> n, ones |-> {}]
All(n) == [size |-> n, ones |-> 1 .. n]

Not(a) == [size |-> a.size, ones |-> (1 .. a.size) \ a.ones]
And(a, b) == [size |-> a.size, ones |-> a.ones \cap b.ones]
Or(a, b) == [size |-> a.size, ones |-> a.ones \cup b.ones]
Xor(a, b) == [size |-> a.size, ones |-> (a.ones \ b.ones) \cup (b.ones \ a.ones)]

\* type::operator==
SameType(t, u) == t.ns = u.ns /\ t.id = u.id

----------------------------------------------------------------------------
(* Construction: value_holder, mask_holder and the main constructors       *)

Value(t, bits) ==
    IF bits.size # t.nbits THEN Error("bad_bit_length") ELSE [type |-> t, value |-> bits]

Exact(x) == x.mask.ones = 1 .. x.mask.size
IsWildcard(x) == x.mask.ones = {}
Fuzzy(x) == ~(Exact(x) \/ IsWildcard(x))

Mask(t, bits) ==
    LET m == [type |-> t, mask |-> bits]
    IN  IF bits.size # t.nbits THEN Error("bad_bit_length")
        ELSE IF ~t.maskable /\ Fuzzy(m) THEN Error("bad_mask")
        ELSE m

FieldKeepsValue(t, v, m) ==
    IF Failed(Value(t, v)) THEN Value(t, v)
    ELSE IF Failed(Mask(t, m)) THEN Mask(t, m)
    ELSE [type |-> t, value |-> v, mask |-> m]

\* m_value &= m_mask
Field(t, v, m) ==
    IF Failed(Value(t, v)) THEN Value(t, v)
    ELSE IF Failed(Mask(t, m)) THEN Mask(t, m)
    ELSE [type |-> t, value |-> And(v, m), mask |-> m]

Wildcard(t) == Field(t, None(t.nbits), None(t.nbits))
ExactField(t, v) == Field(t, v, All(t.nbits))
ValueOf(f) == Value(f.type, f.value)
MaskOf(f) == Mask(f.type, f.mask)

\* The explicit downcasts, which test the type again
CastValue(v, t) == IF SameType(v.type, t) THEN Value(t, v.value) ELSE Error("bad_cast")
CastMask(m, t) == IF SameType(m.type, t) THEN Mask(t, m.mask) ELSE Error("bad_cast")
CastField(f, t) == IF SameType(f.type, t) THEN Field(t, f.value, f.mask) ELSE Error("bad_cast")

----------------------------------------------------------------------------
(* Operators; binop_type tests that both operands have the same type       *)

OneType(a, b, result) ==
    IF Failed(a) THEN a
    ELSE IF Failed(b) THEN b
    ELSE IF ~SameType(a.type, b.type) THEN Error("bad_operands")
    ELSE result

MaskNot(m) == Mask(m.type, Not(m.mask))
MaskOr(a, b) == OneType(a, b, Mask(a.type, Or(a.mask, b.mask)))
MaskXor(a, b) == OneType(a, b, Mask(a.type, Xor(a.mask, b.mask)))
MaskAnd(a, b) == OneType(a, b, Mask(a.type, And(a.mask, b.mask)))

\* value & mask, field & mask
Masked(v, m) == OneType(v, m, Field(v.type, v.value, m.mask))
FieldWiden(f, m) == OneType(f, m, Field(f.type, f.value, And(f.mask, m.mask)))

\* operator==
Equal(f, g) == SameType(f.type, g.type) /\ f.value = g.value /\ f.mask = g.mask

\* field & value, field & field
FieldMatchesValue(f, v) ==
    OneType(f, v, [matches |-> Equal(f, Masked(v, MaskOf(f)))])
FieldsMatch(f, g) ==
    LET m == MaskAnd(MaskOf(f), MaskOf(g))
    IN  IF Failed(m) THEN m
        ELSE [matches |-> Equal(Masked(ValueOf(f), m), Masked(ValueOf(g), m))]

\* value >> field, field >> field
ValueRewrite(v, f) ==
    OneType(v, f, Value(v.type, Or(And(v.value, Not(f.mask)), f.value)))
FieldRewrite(f, g) == Masked(ValueRewrite(ValueOf(f), g), MaskOr(MaskOf(f), MaskOf(g)))

----------------------------------------------------------------------------
(* field_set: fields of different types *)

Find(entries, t) == {f \in entries : SameType(f.type, t)}

SetLoad(entries, m) ==
    LET found == Find(entries, m.type)
    IN  FieldWiden(IF found = {} THEN Wildcard(m.type) ELSE CHOOSE f \in found : TRUE, m)

SetModify(entries, patch) ==
    LET found == Find(entries, patch.type)
        old == IF found = {} THEN patch ELSE CHOOSE f \in found : TRUE
    IN  (entries \ found) \cup {FieldRewrite(old, patch)}

SetErase(entries, m) ==
    LET found == Find(entries, m.type)
        left == {FieldWiden(f, MaskNot(m)) : f \in found}
    IN  (entries \ found) \cup {f \in left : ~IsWildcard(f)}

\* Packet::test, as field_set inherits it, and field_set & Packet
Test(entries, need) == FieldsMatch(SetLoad(entries, MaskOf(need)), need)
SetMatches(entries, pkt) == \A f \in entries : Test(pkt, f).matches

\* The template Packet::load(mask<Type>): the loaded field as one of the type
LoadTyped(entries, m) == CastField(SetLoad(entries, m), m.type)

----------------------------------------------------------------------------
(* The fields of a type, and what they stand for *)

IsType(t) == t.nbits \in Nat /\ t.maskable \in BOOLEAN
MasksOf(t) == {m \in [type : {t}, mask : Bits(t.nbits)] : t.maskable \/ ~Fuzzy(m)}
FieldsOf(t) ==
    {f \in [type : {t}, value : Bits(t.nbits), mask : Bits(t.nbits)] :
       /\ t.maskable \/ ~Fuzzy(f)
       /\ f.value.ones \subseteq f.mask.ones}

Covered(x) == {<<x.type, i>> : i \in x.mask.ones}
Meaning(f) == [b \in Covered(f) |-> IF b[2] \in f.value.ones THEN 1 ELSE 0]
MeaningOfSet(entries) ==
    [b \in UNION {Covered(f) : f \in entries} |->
       IF \E f \in entries : b[1] = f.type /\ b[2] \in f.value.ones THEN 1 ELSE 0]

----------------------------------------------------------------------------
(* Properties *)

\* The operators of field.hh, on two fields and a mask of one type, throw
\* nothing, give fields and masks of this type (so a field that allows no mask
\* never gets a partial one, field.hh:99), and are those of Oxm.  A field
\* matches a value as it matches the field of all bits of the value.
OperatorsAreOxm(f, g, m) ==
    LET t == f.type
    IN  /\ {MaskOr(MaskOf(f), m), MaskAnd(MaskOf(f), m), MaskXor(MaskOf(f), m), MaskNot(m)}
             \subseteq MasksOf(t)
        /\ FieldMatchesValue(f, ValueOf(g)) = FieldsMatch(f, ExactField(t, g.value))
        /\ FieldRewrite(f, g) \in FieldsOf(t)
        /\ Meaning(FieldRewrite(f, g)) = Rewrite(Meaning(f), Meaning(g))
        /\ FieldWiden(f, m) \in FieldsOf(t)
        /\ Meaning(FieldWiden(f, m)) = Widen(Meaning(f), Covered(m))
        /\ FieldsMatch(f, g) = [matches |-> Agree(Meaning(f), Meaning(g))]

\* No operator mixes fields of different types, and none is cast to another
\* type (bad_operands, bad_cast); to its own type everything is cast unchanged.
TypesApart(f, g) ==
    LET Cast(t) == {CastField(f, t), CastMask(MaskOf(f), t), CastValue(ValueOf(f), t)}
    IN  IF SameType(f.type, g.type)
        THEN Cast(g.type) = {f, MaskOf(f), ValueOf(f)}
        ELSE /\ Cast(g.type) = {Error("bad_cast")}
             /\ {FieldRewrite(f, g), FieldWiden(f, MaskOf(g)), FieldsMatch(f, g),
                 FieldMatchesValue(f, ValueOf(g)), MaskXor(MaskOf(f), MaskOf(g))}
                  = {Error("bad_operands")}

\* A field_set (field_set.hh) with one field of a type at most keeps to that
\* through modify and erase, and these, load and the match of packets are the
\* operations of Oxm on all fields together; erase leaves no wildcard.
SetIsOxm(entries, patch) ==
    LET bits == MeaningOfSet(entries)
        m == MaskOf(patch)
        OneOfEach(s) == \A f \in s : f \in FieldsOf(f.type) /\ Find(s, f.type) = {f}
    IN  /\ OneOfEach(SetModify(entries, patch))
        /\ MeaningOfSet(SetModify(entries, patch)) = Modify(bits, Meaning(patch))
        /\ OneOfEach(SetErase(entries, m))
        /\ MeaningOfSet(SetErase(entries, m)) = Erase(bits, Covered(m))
        /\ \A f \in SetErase(entries, m) : IsWildcard(f) => f \in entries /\ ~SameType(f.type, m.type)
        /\ SetLoad(entries, m) \in FieldsOf(m.type) /\ LoadTyped(entries, m) = SetLoad(entries, m)
        /\ Meaning(SetLoad(entries, m)) = Load(bits, Covered(m))

\* field_set & Packet (field_set.hh:101) compares what both have.
SetMatchIsOxm(entries, pkt) ==
    SetMatches(entries, pkt) = Matches(MeaningOfSet(entries), MeaningOfSet(pkt))

=============================================================================
