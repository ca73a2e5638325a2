-------------------------------- MODULE Oxm --------------------------------
(***************************************************************************)
(* Masked header fields (oxm/field.hh) and sets of them                    *)
(* (oxm/field_set.hh).                                                     *)
(*                                                                         *)
(* A bit is a pair <<type, position>>.  The class field keeps a value and  *)
(* a mask and clears the value outside of the mask, so a field is a        *)
(* function from the bits of its mask to 0 and 1.  A field_set keeps at    *)
(* most one field of each type and no wildcard: the same thing, with the   *)
(* bits of several types.                                                  *)
(***************************************************************************)
EXTENDS TLC, Functions

\* All fields over a set of bits: value &= mask, in both main constructors.
FieldsOver(bits) == UNION {[m -> {0, 1}] : m \in SUBSET bits}

\* field & mask: keeps the bits of the mask.
Widen(f, mask) == Restrict(f, DOMAIN f \cap mask)

\* field & field: the values agree on the bits that both masks have.
Agree(f, g) == \A b \in DOMAIN f \cap DOMAIN g : f[b] = g[b]

\* field >> field: the right one overwrites, the masks are united.
Rewrite(f, g) ==
    [b \in DOMAIN f \cup DOMAIN g |-> IF b \in DOMAIN g THEN g[b] ELSE f[b]]

\* field_set::load, field_set::modify, field_set::erase, field_set & Packet
Load(fields, mask) == Widen(fields, mask)

Modify(fields, patch) == patch @@ fields

Erase(fields, mask) == Widen(fields, DOMAIN fields \ mask)

Matches(fields, pkt) == Agree(fields, pkt)

============================================================================
