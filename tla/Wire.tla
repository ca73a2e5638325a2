-------------------------------- MODULE Wire --------------------------------
(***************************************************************************)
(* FluidOXMAdapter.cc: a match field in the form OpenFlow sends it.        *)
(*                                                                         *)
(* A field is [type, value, mask] with type = [ns, id, nbits]; value and   *)
(* mask are bits.                                                          *)
(***************************************************************************)
EXTENDS Integers, Sequences, Bitwise

----------------------------------------------------------------------------
(* types/bits.hh: a string of bits of any length as a sequence of bytes,   *)
(* the most significant one first and with zeros above the highest bit.    *)

\* oxm::type::nbytes
Bytes(nbits) == nbits \div 8 + IF nbits % 8 = 0 THEN 0 ELSE 1

\* resize(num_bits): what of a byte remains if it is the highest of nbits
Highest(nbits, byte) == IF nbits % 8 = 0 THEN byte ELSE byte % 2^(nbits % 8)

\* bits(num_bits, buffer + at).  The range of reverse iterators has one byte
\* more, before the buffer, which resize cuts off.
FromBuffer(nbits, buffer, at) ==
    [k \in 1 .. Bytes(nbits) |-> IF k = 1 THEN Highest(nbits, buffer[at + 1]) ELSE buffer[at + k]]

\* to_buffer(buffer + at)
ToBuffer(bits, buffer, at) ==
    [i \in DOMAIN buffer |-> IF i - at \in DOMAIN bits THEN bits[i - at] ELSE buffer[i]]

BitAnd(a, b) == [k \in DOMAIN a |-> a[k] & b[k]]
BitOr(a, b) == [k \in DOMAIN a |-> a[k] | b[k]]
BitNot(nbits, a) == [k \in DOMAIN a |-> IF k = 1 THEN Highest(nbits, 255 - a[k]) ELSE 255 - a[k]]
AllOnes(nbits) == BitNot(nbits, [k \in 1 .. Bytes(nbits) |-> 0])

----------------------------------------------------------------------------
(* Match fields *)

\* OFP_OXM_HEADER_LEN; the header holds class, field, has_mask and length.
HeaderLength == 4
Exact(f) == f.mask = AllOnes(f.type.nbits)

\* The constructor: what OXMTLV keeps of a field.
Adapter(f) ==
    [ns |-> f.type.ns, id |-> f.type.id, has_mask |-> ~Exact(f),
     length |-> Bytes(f.type.nbits) * (IF Exact(f) THEN 1 ELSE 2), field |-> f]

\* OXMTLV::pack and OXMTLV::unpack, of the library
PackHeader(a) ==
    <<a.ns \div 256, a.ns % 256, 2 * a.id + (IF a.has_mask THEN 1 ELSE 0), a.length>>
UnpackHeader(a, buffer) ==
    [a EXCEPT !.ns = 256 * buffer[1] + buffer[2], !.id = buffer[3] \div 2,
              !.has_mask = buffer[3] % 2 = 1, !.length = buffer[4]]

Pack(a) ==
    LET buffer == PackHeader(a) \o [k \in 1 .. a.length |-> 0]
        value == ToBuffer(a.field.value, buffer, HeaderLength)
    IN  IF Exact(a.field) THEN value
        ELSE ToBuffer(a.field.mask, value, HeaderLength + Bytes(a.field.type.nbits))

\* unpack, into an adapter of a field of the same type
Unpack(a, buffer) ==
    LET h == UnpackHeader(a, buffer)
        n == a.field.type.nbits
        mask == IF h.has_mask THEN FromBuffer(n, buffer, HeaderLength + Bytes(n)) ELSE AllOnes(n)
    IN  [h EXCEPT !.field.value = FromBuffer(n, buffer, HeaderLength), !.field.mask = mask]

----------------------------------------------------------------------------
(* What packing is to achieve                                              *)

\* A field that is packed has the length its header states and is unpacked to
\* the same field, of any width, with and without a mask.
UnpackedAsPacked(f, other) ==
    LET buffer == Pack(Adapter(f))
    IN  /\ Len(buffer) = HeaderLength + buffer[4]
        /\ Unpack(Adapter([f EXCEPT !.value = other, !.mask = other]), buffer) = Adapter(f)
=============================================================================
