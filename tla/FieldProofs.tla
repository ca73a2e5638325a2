---------------------------- MODULE FieldProofs ----------------------------
(***************************************************************************)
(* The operators of oxm/field.hh implement those of Oxm, for types of any  *)
(* number of bits.  A field is taken apart into two sets of positions, all *)
(* operators are computed on these, and only then compared with Oxm.       *)
(***************************************************************************)
EXTENDS Fields, TLAPS

OnBits(t, s) == [size |-> t.nbits, ones |-> s]
ValueWith(t, v) == [type |-> t, value |-> OnBits(t, v)]
MaskWith(t, s) == [type |-> t, mask |-> OnBits(t, s)]
FieldWith(t, v, s) == [type |-> t, value |-> OnBits(t, v), mask |-> OnBits(t, s)]

Positions(t) == 1 .. t.nbits
Allowed(t, s) == s \subseteq Positions(t) /\ (t.maskable \/ s = {} \/ s = Positions(t))

----------------------------------------------------------------------------
(* Objects and their parts *)

\* Every field of a type is made of a value within an allowed mask.
LEMMA FieldParts ==
    ASSUME NEW t, IsType(t), NEW f \in FieldsOf(t)
    PROVE  /\ f = FieldWith(t, f.value.ones, f.mask.ones)
           /\ Allowed(t, f.mask.ones)
           /\ f.value.ones \subseteq f.mask.ones
  BY DEF FieldsOf, Bits, Fuzzy, Exact, IsWildcard, IsType, FieldWith, OnBits, Allowed, Positions

\* And so is every mask.
LEMMA MaskParts ==
    ASSUME NEW t, IsType(t), NEW m \in MasksOf(t)
    PROVE  m = MaskWith(t, m.mask.ones) /\ Allowed(t, m.mask.ones)
  BY DEF MasksOf, Bits, Fuzzy, Exact, IsWildcard, IsType, MaskWith, OnBits, Allowed, Positions

\* What is made of these parts is a field or a mask of the type.
LEMMA MadeOfParts ==
    ASSUME NEW t, IsType(t), NEW s, Allowed(t, s), NEW v, v \subseteq s
    PROVE  FieldWith(t, v, s) \in FieldsOf(t) /\ MaskWith(t, s) \in MasksOf(t)
  BY Zenon DEF FieldsOf, MasksOf, Bits, Fuzzy, Exact, IsWildcard, IsType, FieldWith, MaskWith, OnBits,
         Allowed, Positions

\* The members of a field; it was not thrown.
LEMMA FieldMembers ==
    ASSUME NEW t, NEW v, NEW s
    PROVE  /\ FieldWith(t, v, s).type = t
           /\ FieldWith(t, v, s).value = OnBits(t, v)
           /\ FieldWith(t, v, s).mask = OnBits(t, s)
           /\ ~Failed(FieldWith(t, v, s))
  BY DEF FieldWith, Failed

\* The members of a mask; it was not thrown.
LEMMA MaskMembers ==
    ASSUME NEW t, NEW s
    PROVE  MaskWith(t, s).type = t /\ MaskWith(t, s).mask = OnBits(t, s) /\ ~Failed(MaskWith(t, s))
  BY DEF MaskWith, Failed

\* The members of a value; it was not thrown.
LEMMA ValueMembers ==
    ASSUME NEW t, NEW v
    PROVE  ValueWith(t, v).type = t /\ ValueWith(t, v).value = OnBits(t, v) /\ ~Failed(ValueWith(t, v))
  BY DEF ValueWith, Failed

\* operator& of bits<> on sets of positions
LEMMA AndBits ==
    ASSUME NEW t, NEW a, NEW b
    PROVE  And(OnBits(t, a), OnBits(t, b)) = OnBits(t, a \cap b)
  BY DEF And, OnBits

\* operator| of bits<>
LEMMA OrBits ==
    ASSUME NEW t, NEW a, NEW b
    PROVE  Or(OnBits(t, a), OnBits(t, b)) = OnBits(t, a \cup b)
  BY DEF Or, OnBits

\* operator^ of bits<>
LEMMA XorBits ==
    ASSUME NEW t, NEW a, NEW b
    PROVE  Xor(OnBits(t, a), OnBits(t, b)) = OnBits(t, (a \ b) \cup (b \ a))
  BY DEF Xor, OnBits

\* operator~ of bits<>: the other positions of the type
LEMMA NotBits ==
    ASSUME NEW t, NEW a
    PROVE  Not(OnBits(t, a)) = OnBits(t, Positions(t) \ a)
  BY DEF Not, OnBits, Positions

----------------------------------------------------------------------------
(* The constructors throw nothing on bits of the right length *)

\* value_holder compares the number of bits.
LEMMA ValueMade ==
    ASSUME NEW t, NEW v
    PROVE  Value(t, OnBits(t, v)) = ValueWith(t, v)
  BY DEF Value, ValueWith, OnBits

\* mask_holder also asks whether the type allows the mask.
LEMMA MaskMade ==
    ASSUME NEW t, IsType(t), NEW s, Allowed(t, s)
    PROVE  Mask(t, OnBits(t, s)) = MaskWith(t, s)
  BY Zenon DEF Mask, MaskWith, OnBits, Allowed, Positions, Fuzzy, Exact, IsWildcard

\* The main constructor of field clears the value outside of the mask.
LEMMA FieldMade ==
    ASSUME NEW t, IsType(t), NEW v, NEW s, Allowed(t, s)
    PROVE  Field(t, OnBits(t, v), OnBits(t, s)) = FieldWith(t, v \cap s, s)
  <1>1. ~Failed(Value(t, OnBits(t, v)))
    BY ValueMade, ValueMembers
  <1>2. ~Failed(Mask(t, OnBits(t, s)))
    BY MaskMade, MaskMembers
  <1> QED BY <1>1, <1>2, AndBits DEF Field, FieldWith

----------------------------------------------------------------------------
(* The operators on positions *)

\* Operands of one type pass binop_type.
LEMMA SameTypePasses ==
    ASSUME NEW a, NEW b, ~Failed(a), ~Failed(b), a.type = b.type, NEW result
    PROVE  OneType(a, b, result) = result
  BY DEF OneType, SameType

\* Allowed masks are closed under the operators of masks: for a type that
\* allows no mask all of them are all or nothing.
LEMMA AllowedClosed ==
    ASSUME NEW t, NEW a, Allowed(t, a), NEW b, Allowed(t, b)
    PROVE  /\ Allowed(t, a \cap b) /\ Allowed(t, a \cup b)
           /\ Allowed(t, (a \ b) \cup (b \ a)) /\ Allowed(t, Positions(t) \ a)
  BY DEF Allowed

\* operator| of masks: the positions of either
LEMMA MasksUnited ==
    ASSUME NEW t, IsType(t), NEW a, Allowed(t, a), NEW b, Allowed(t, b)
    PROVE  MaskOr(MaskWith(t, a), MaskWith(t, b)) = MaskWith(t, a \cup b)
  <1>1. MaskOr(MaskWith(t, a), MaskWith(t, b)) = Mask(t, OnBits(t, a \cup b))
    BY SameTypePasses, MaskMembers, OrBits DEF MaskOr
  <1>2. Allowed(t, a \cup b)
    BY Zenon, AllowedClosed
  <1> QED BY <1>1, <1>2, MaskMade

\* operator& of masks: the positions in both
LEMMA MasksMet ==
    ASSUME NEW t, IsType(t), NEW a, Allowed(t, a), NEW b, Allowed(t, b)
    PROVE  MaskAnd(MaskWith(t, a), MaskWith(t, b)) = MaskWith(t, a \cap b)
  <1>1. MaskAnd(MaskWith(t, a), MaskWith(t, b)) = Mask(t, OnBits(t, a \cap b))
    BY SameTypePasses, MaskMembers, AndBits DEF MaskAnd
  <1>2. Allowed(t, a \cap b)
    BY Zenon, AllowedClosed
  <1> QED BY <1>1, <1>2, MaskMade

\* operator^ of masks: the positions in one of them
LEMMA MasksDiffer ==
    ASSUME NEW t, IsType(t), NEW a, Allowed(t, a), NEW b, Allowed(t, b)
    PROVE  MaskXor(MaskWith(t, a), MaskWith(t, b)) = MaskWith(t, (a \ b) \cup (b \ a))
  <1>1. MaskXor(MaskWith(t, a), MaskWith(t, b)) = Mask(t, OnBits(t, (a \ b) \cup (b \ a)))
    BY SameTypePasses, MaskMembers, XorBits DEF MaskXor
  <1>2. Allowed(t, (a \ b) \cup (b \ a))
    BY Zenon, AllowedClosed
  <1> QED BY <1>1, <1>2, MaskMade

\* operator~ of a mask: the positions it does not have
LEMMA MaskInverted ==
    ASSUME NEW t, IsType(t), NEW a, Allowed(t, a)
    PROVE  MaskNot(MaskWith(t, a)) = MaskWith(t, Positions(t) \ a)
  <1>1. MaskNot(MaskWith(t, a)) = Mask(t, OnBits(t, Positions(t) \ a))
    BY MaskMembers, NotBits DEF MaskNot
  <1>2. Allowed(t, Positions(t) \ a)
    BY Zenon, AllowedClosed
  <1> QED BY <1>1, <1>2, MaskMade

\* value & mask
LEMMA ValueMasked ==
    ASSUME NEW t, IsType(t), NEW v, NEW m, Allowed(t, m)
    PROVE  Masked(ValueWith(t, v), MaskWith(t, m)) = FieldWith(t, v \cap m, m)
  BY SameTypePasses, ValueMembers, MaskMembers, FieldMade DEF Masked

\* field & mask
LEMMA Widened ==
    ASSUME NEW t, IsType(t), NEW v, NEW s, Allowed(t, s), NEW m, Allowed(t, m)
    PROVE  FieldWiden(FieldWith(t, v, s), MaskWith(t, m)) = FieldWith(t, v \cap (s \cap m), s \cap m)
  <1>1. FieldWiden(FieldWith(t, v, s), MaskWith(t, m)) = Field(t, OnBits(t, v), OnBits(t, s \cap m))
    BY SameTypePasses, FieldMembers, MaskMembers, AndBits DEF FieldWiden
  <1>2. Allowed(t, s \cap m)
    BY AllowedClosed
  <1> QED BY <1>1, <1>2, FieldMade

\* field >> field: the right value, and where it has none the left one
LEMMA Rewritten ==
    ASSUME NEW t, IsType(t), NEW v, NEW s, Allowed(t, s), v \subseteq s,
           NEW w, NEW r, Allowed(t, r), w \subseteq r
    PROVE  FieldRewrite(FieldWith(t, v, s), FieldWith(t, w, r)) = FieldWith(t, (v \ r) \cup w, s \cup r)
  <1> DEFINE f == FieldWith(t, v, s)
             g == FieldWith(t, w, r)
  <1>1. ValueOf(f) = ValueWith(t, v) /\ MaskOf(f) = MaskWith(t, s) /\ MaskOf(g) = MaskWith(t, r)
    BY FieldMembers, ValueMade, MaskMade DEF ValueOf, MaskOf
  <1>2. ValueRewrite(ValueWith(t, v), g) = Value(t, Or(And(OnBits(t, v), Not(OnBits(t, r))), OnBits(t, w)))
    BY SameTypePasses, FieldMembers, ValueMembers DEF ValueRewrite
  <1>3. Or(And(OnBits(t, v), Not(OnBits(t, r))), OnBits(t, w)) = OnBits(t, (v \cap (Positions(t) \ r)) \cup w)
    BY DEF Or, And, Not, OnBits, Positions
  <1>4. v \cap (Positions(t) \ r) = v \ r
    BY DEF Allowed
  <1>5. ValueRewrite(ValueWith(t, v), g) = ValueWith(t, (v \ r) \cup w)
    BY <1>2, <1>3, <1>4, ValueMade
  <1>6. FieldRewrite(f, g) = Masked(ValueWith(t, (v \ r) \cup w), MaskWith(t, s \cup r))
    BY <1>1, <1>5, MasksUnited DEF FieldRewrite
  <1>7. Allowed(t, s \cup r)
    BY Zenon, AllowedClosed
  <1>8. FieldRewrite(f, g) = FieldWith(t, ((v \ r) \cup w) \cap (s \cup r), s \cup r)
    BY <1>6, <1>7, ValueMasked
  <1>9. ((v \ r) \cup w) \cap (s \cup r) = (v \ r) \cup w
    OBVIOUS
  <1> QED BY <1>8, <1>9

\* field & field compares the values where both masks are set.
LEMMA Matched ==
    ASSUME NEW t, IsType(t), NEW v, NEW s, Allowed(t, s), NEW w, NEW r, Allowed(t, r)
    PROVE  FieldsMatch(FieldWith(t, v, s), FieldWith(t, w, r))
             = [matches |-> v \cap (s \cap r) = w \cap (s \cap r)]
  <1> DEFINE f == FieldWith(t, v, s)
             g == FieldWith(t, w, r)
             m == MaskWith(t, s \cap r)
  <1>1. ValueOf(f) = ValueWith(t, v) /\ ValueOf(g) = ValueWith(t, w)
    BY FieldMembers, ValueMade DEF ValueOf
  <1>2. MaskOf(f) = MaskWith(t, s) /\ MaskOf(g) = MaskWith(t, r)
    BY FieldMembers, MaskMade DEF MaskOf
  <1>3. MaskAnd(MaskOf(f), MaskOf(g)) = m
    BY <1>2, MasksMet
  <1>4. ~Failed(m)
    BY MaskMembers
  <1>. Allowed(t, s \cap r)
    BY AllowedClosed
  <1>5. /\ Masked(ValueOf(f), m) = FieldWith(t, v \cap (s \cap r), s \cap r)
        /\ Masked(ValueOf(g), m) = FieldWith(t, w \cap (s \cap r), s \cap r)
    BY <1>1, ValueMasked
  <1>6. FieldsMatch(f, g) = [matches |-> Equal(Masked(ValueOf(f), m), Masked(ValueOf(g), m))]
    BY <1>3, <1>4 DEF FieldsMatch
  <1>7. \A a, b, c : Equal(FieldWith(t, a, c), FieldWith(t, b, c)) = (a = b)
    BY DEF Equal, SameType, FieldWith, OnBits
  <1> QED BY <1>5, <1>6, <1>7

----------------------------------------------------------------------------
(* What the results stand for *)

BitsAt(t, s) == {<<t, i>> : i \in s}
Bit(b, v) == IF b[2] \in v THEN 1 ELSE 0

\* A field stands for its value on the bits of its mask.
LEMMA MeaningOfParts ==
    ASSUME NEW t, NEW v, NEW s
    PROVE  Meaning(FieldWith(t, v, s)) = [b \in BitsAt(t, s) |-> Bit(b, v)]
  BY DEF Meaning, Covered, FieldWith, OnBits, BitsAt, Bit

\* A mask covers the bits at its positions.
LEMMA CoveredByMask ==
    ASSUME NEW t, NEW s
    PROVE  Covered(MaskWith(t, s)) = BitsAt(t, s)
  BY DEF Covered, MaskWith, OnBits, BitsAt

\* The right operand of >> wins on the bits it has.
LEMMA RewriteMeans ==
    ASSUME NEW t, NEW v, NEW s, NEW w, NEW r, w \subseteq r
    PROVE  Meaning(FieldWith(t, (v \ r) \cup w, s \cup r))
             = Rewrite(Meaning(FieldWith(t, v, s)), Meaning(FieldWith(t, w, r)))
  <1> DEFINE f == [b \in BitsAt(t, s) |-> Bit(b, v)]
             g == [b \in BitsAt(t, r) |-> Bit(b, w)]
             h == [b \in BitsAt(t, s \cup r) |-> Bit(b, (v \ r) \cup w)]
  <1>1. Rewrite(f, g) = [b \in BitsAt(t, s) \cup BitsAt(t, r) |-> IF b \in BitsAt(t, r) THEN g[b] ELSE f[b]]
    BY DEF Rewrite
  <1>2. BitsAt(t, s) \cup BitsAt(t, r) = BitsAt(t, s \cup r)
    BY DEF BitsAt
  <1>3. ASSUME NEW b \in BitsAt(t, s \cup r)
        PROVE  h[b] = IF b \in BitsAt(t, r) THEN g[b] ELSE f[b]
    BY <1>3 DEF BitsAt, Bit
  <1>4. h = Rewrite(f, g)
    BY <1>1, <1>2, <1>3
  <1>5. Meaning(FieldWith(t, v, s)) = f /\ Meaning(FieldWith(t, w, r)) = g
    BY MeaningOfParts
  <1>6. Meaning(FieldWith(t, (v \ r) \cup w, s \cup r)) = h
    BY DEF Meaning, Covered, FieldWith, OnBits, BitsAt, Bit
  <1> QED BY <1>4, <1>5, <1>6

\* field & mask restricts the field.
LEMMA WidenMeans ==
    ASSUME NEW t, NEW v, NEW s, NEW m
    PROVE  Meaning(FieldWith(t, v \cap (s \cap m), s \cap m)) = Widen(Meaning(FieldWith(t, v, s)), BitsAt(t, m))
  <1> DEFINE f == [b \in BitsAt(t, s) |-> Bit(b, v)]
             h == [b \in BitsAt(t, s \cap m) |-> Bit(b, v \cap (s \cap m))]
  <1>1. Widen(f, BitsAt(t, m)) = [b \in BitsAt(t, s) \cap BitsAt(t, m) |-> f[b]]
    BY DEF Widen, Restrict
  <1>2. BitsAt(t, s) \cap BitsAt(t, m) = BitsAt(t, s \cap m)
    BY DEF BitsAt
  <1>3. ASSUME NEW b \in BitsAt(t, s \cap m)
        PROVE  h[b] = f[b]
    BY <1>3 DEF BitsAt, Bit
  <1>4. h = Widen(f, BitsAt(t, m))
    BY SMTT(30), <1>1, <1>2, <1>3
  <1>5. Meaning(FieldWith(t, v, s)) = f
    BY MeaningOfParts
  <1>6. Meaning(FieldWith(t, v \cap (s \cap m), s \cap m)) = h
    BY DEF Meaning, Covered, FieldWith, OnBits, BitsAt, Bit
  <1> QED BY <1>4, <1>5, <1>6

\* Values that are equal under both masks agree on the bits that both have.
LEMMA MatchMeans ==
    ASSUME NEW t, NEW v, NEW s, NEW w, NEW r
    PROVE  Agree(Meaning(FieldWith(t, v, s)), Meaning(FieldWith(t, w, r)))
             <=> v \cap (s \cap r) = w \cap (s \cap r)
  <1> DEFINE f == [b \in BitsAt(t, s) |-> Bit(b, v)]
             g == [b \in BitsAt(t, r) |-> Bit(b, w)]
  <1>1. Agree(f, g) <=> \A b \in BitsAt(t, s) \cap BitsAt(t, r) : f[b] = g[b]
    BY DEF Agree
  <1>2. Agree(f, g) <=> \A i \in s \cap r : (i \in v) <=> (i \in w)
    <2>1. ASSUME Agree(f, g), NEW i \in s \cap r
          PROVE  (i \in v) <=> (i \in w)
      <3>1. <<t, i>> \in BitsAt(t, s) \cap BitsAt(t, r)
        BY <2>1 DEF BitsAt
      <3>2. f[<<t, i>>] = g[<<t, i>>]
        BY <1>1, <2>1, <3>1
      <3> QED BY <3>1, <3>2 DEF Bit
    <2>2. ASSUME \A i \in s \cap r : (i \in v) <=> (i \in w),
                 NEW b \in BitsAt(t, s) \cap BitsAt(t, r)
          PROVE  f[b] = g[b]
      BY <2>2 DEF BitsAt, Bit
    <2> QED BY <1>1, <2>1, <2>2
  <1>3. (\A i \in s \cap r : (i \in v) <=> (i \in w)) <=> v \cap (s \cap r) = w \cap (s \cap r)
    OBVIOUS
  <1> QED BY <1>2, <1>3, MeaningOfParts

----------------------------------------------------------------------------

\* The operators of oxm/field.hh on fields and masks of one type throw nothing,
\* stay within the type and are those of Oxm, for every type.
THEOREM OperatorsImplementOxm ==
    ASSUME NEW t, IsType(t), NEW f \in FieldsOf(t), NEW g \in FieldsOf(t), NEW m \in MasksOf(t)
    PROVE  OperatorsAreOxm(f, g, m)
  <1> DEFINE v == f.value.ones
             s == f.mask.ones
             w == g.value.ones
             r == g.mask.ones
             n == m.mask.ones
             P == Positions(t)
  <1>1. f = FieldWith(t, v, s) /\ Allowed(t, s) /\ v \subseteq s
    BY FieldParts
  <1>2. g = FieldWith(t, w, r) /\ Allowed(t, r) /\ w \subseteq r
    BY FieldParts
  <1>3. m = MaskWith(t, n) /\ Allowed(t, n)
    BY MaskParts
  <1> HIDE DEF v, s, w, r, n
  <1>4. f.type = t /\ g.value = OnBits(t, w) /\ MaskOf(f) = MaskWith(t, s) /\ ValueOf(g) = ValueWith(t, w)
    BY <1>1, <1>2, FieldMembers, MaskMade, ValueMade DEF MaskOf, ValueOf
  <1>5. {MaskOr(MaskOf(f), m), MaskAnd(MaskOf(f), m), MaskXor(MaskOf(f), m), MaskNot(m)} \subseteq MasksOf(t)
    <2>1. \A a : Allowed(t, a) => MaskWith(t, a) \in MasksOf(t)
      BY MadeOfParts
    <2>2. /\ Allowed(t, s \cup n) /\ Allowed(t, s \cap n)
          /\ Allowed(t, (s \ n) \cup (n \ s)) /\ Allowed(t, P \ n)
      BY SMTT(30), <1>1, <1>3, AllowedClosed
    <2>3. /\ MaskOr(MaskOf(f), m) = MaskWith(t, s \cup n)
          /\ MaskAnd(MaskOf(f), m) = MaskWith(t, s \cap n)
      BY <1>1, <1>3, <1>4, MasksUnited, MasksMet
    <2>4. MaskXor(MaskOf(f), m) = MaskWith(t, (s \ n) \cup (n \ s))
      BY <1>1, <1>3, <1>4, MasksDiffer
    <2>5. MaskNot(m) = MaskWith(t, P \ n)
      BY <1>3, MaskInverted
    <2> QED BY <2>1, <2>2, <2>3, <2>4, <2>5
  <1>6. FieldMatchesValue(f, ValueOf(g)) = FieldsMatch(f, ExactField(t, g.value))
    <2>1. Allowed(t, P) /\ OnBits(t, P) = All(t.nbits)
      BY DEF Allowed, OnBits, All, Positions
    <2>2. ExactField(t, g.value) = FieldWith(t, w \cap P, P)
      BY <1>4, <2>1, FieldMade DEF ExactField
    <2>3. FieldsMatch(f, ExactField(t, g.value)) = [matches |-> v \cap (s \cap P) = (w \cap P) \cap (s \cap P)]
      BY <1>1, <2>1, <2>2, Matched
    <2>4. v \cap (s \cap P) = v /\ (w \cap P) \cap (s \cap P) = w \cap s
      BY <1>1 DEF Allowed
    <2>5. Masked(ValueOf(g), MaskOf(f)) = FieldWith(t, w \cap s, s)
      BY <1>1, <1>4, ValueMasked
    <2>6. FieldMatchesValue(f, ValueOf(g)) = [matches |-> Equal(f, FieldWith(t, w \cap s, s))]
      BY <1>1, <1>4, <2>5, SameTypePasses, FieldMembers, ValueMembers DEF FieldMatchesValue
    <2>7. Equal(FieldWith(t, v, s), FieldWith(t, w \cap s, s)) = (v = w \cap s)
      BY DEF Equal, SameType, FieldWith, OnBits
    <2> QED BY <1>1, <2>3, <2>4, <2>6, <2>7
  <1>7. FieldRewrite(f, g) = FieldWith(t, (v \ r) \cup w, s \cup r)
    BY <1>1, <1>2, Rewritten
  <1>8. FieldRewrite(f, g) \in FieldsOf(t)
    <2>1. Allowed(t, s \cup r) /\ (v \ r) \cup w \subseteq s \cup r
      BY Zenon, <1>1, <1>2, AllowedClosed
    <2> QED BY <1>7, <2>1, MadeOfParts
  <1>9. Meaning(FieldRewrite(f, g)) = Rewrite(Meaning(f), Meaning(g))
    BY <1>1, <1>2, <1>7, RewriteMeans
  <1>10. FieldWiden(f, m) = FieldWith(t, v \cap (s \cap n), s \cap n)
    BY <1>1, <1>3, Widened
  <1>11. FieldWiden(f, m) \in FieldsOf(t)
    <2>1. Allowed(t, s \cap n) /\ v \cap (s \cap n) \subseteq s \cap n
      BY Zenon, <1>1, <1>3, AllowedClosed
    <2> QED BY <1>10, <2>1, MadeOfParts
  <1>12. Meaning(FieldWiden(f, m)) = Widen(Meaning(f), Covered(m))
    BY <1>1, <1>3, <1>10, WidenMeans, CoveredByMask
  <1>13. FieldsMatch(f, g) = [matches |-> Agree(Meaning(f), Meaning(g))]
    <2>1. FieldsMatch(f, g) = [matches |-> v \cap (s \cap r) = w \cap (s \cap r)]
      BY <1>1, <1>2, Matched
    <2>2. Agree(Meaning(f), Meaning(g)) <=> v \cap (s \cap r) = w \cap (s \cap r)
      BY <1>1, <1>2, MatchMeans
    <2>3. Agree(Meaning(f), Meaning(g)) \in BOOLEAN
      BY DEF Agree
    <2> QED BY <2>1, <2>2, <2>3
  <1> QED BY <1>4, <1>5, <1>6, <1>8, <1>9, <1>11, <1>12, <1>13 DEF OperatorsAreOxm
=============================================================================
