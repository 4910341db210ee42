------------------------------- MODULE Varint -------------------------------
(***************************************************************************)
(* The integers of nanopb, the protocol buffers of the Firebase pods (Pods/ *)
(* nanopb): pb_encode_varint writes them in groups of seven bits, and      *)
(* pb_decode_varint and pb_decode_varint32 read them, each byte by byte.   *)
(*                                                                         *)
(* The widths are constants: Group for 7, Half for 32, Width for 64, with  *)
(* a part of a group over in both as in the code, and PosLimit for the 256 *)
(* at which the bit position of pb_decode_varint32 starts again. A byte is *)
(* its group of bits and whether another one follows.                      *)
(***************************************************************************)
EXTENDS Integers, FiniteSetsExt

CONSTANTS
    Group, Half, Width, PosLimit,
    Sizes,      \* the bits of integer fields
    AnyBytes,   \* whether the bytes come from somewhere else than the encoder
    MaxBytes    \* bound: bytes of such a number

(* What the constants are assumed to be.                                    *)
VarintConstants ==
    /\ Group \in Nat \ {0} /\ Half \in Nat /\ Width \in Nat /\ PosLimit \in Nat
    /\ Group < Half /\ Half < Width /\ Width < PosLimit
    /\ Half % Group # 0 /\ Width % Group = 1
    /\ Sizes \subseteq 2..Width /\ {Half, Width} \subseteq Sizes
    /\ AnyBytes \in BOOLEAN /\ MaxBytes \in Nat

Kinds == {"varint", "uvarint", "svarint"}
Signed(bits) == -(2^(bits - 1))..(2^(bits - 1) - 1)
Unsigned(bits) == 0..(2^bits - 1)
Byte == [bits: 0..(2^Group - 1), more: BOOLEAN]

VARIABLES
    field,      \* what is sent: kind and size of the field, and the number
    rest,       \* the part of the encoded number that is not written yet
    written,    \* the number of bytes so far
    ended,      \* whether the last byte was written
    d64, d32    \* the two decoders

vars == <<field, rest, written, ended, d64, d32>>

-----------------------------------------------------------------------------
(* pb_enc_varint, pb_enc_uvarint, pb_enc_svarint: the word that is encoded. *)
(* A negative number is extended to the whole word; of a zigzag number the  *)
(* lowest bit is the sign.                                                  *)
ToWord(x) == x % 2^Width
ZigZag(x) == IF x < 0 THEN 2^Width - 1 - ToWord(2 * x) ELSE ToWord(2 * x)
Encoded(kind, x) == IF kind = "svarint" THEN ZigZag(x) ELSE ToWord(x)

(* Casts of a word to a field of some bits.                                 *)
AsUnsigned(w, bits) == w % 2^bits
AsSigned(w, bits) ==
    LET u == w % 2^bits IN IF u >= 2^(bits - 1) THEN u - 2^bits ELSE u

(* pb_decode_svarint.                                                       *)
UnZigZag(w) == IF w % 2 = 1 THEN AsSigned(2^Width - 1 - (w \div 2), Width) ELSE w \div 2

(* pb_dec_varint, pb_dec_uvarint, pb_dec_svarint: the number a field gets,  *)
(* as a set, empty when it is "integer too large". A field of at most Half  *)
(* bits takes the lower Half bits of a varint.                              *)
Fits(x, cut) == IF x = cut THEN {x} ELSE {}

Decoded(kind, bits, w) ==
    CASE kind = "uvarint" -> Fits(w, AsUnsigned(w, bits))
      [] kind = "svarint" -> LET x == UnZigZag(w) IN Fits(x, AsSigned(x, bits))
      [] kind = "varint"  -> LET x == AsSigned(w, IF bits > Half THEN Width ELSE Half)
                             IN  Fits(x, AsSigned(x, bits))

-----------------------------------------------------------------------------
NewDecoder == [status |-> "reads", result |-> 0, pos |-> 0]

Init ==
    /\ \E kind \in Kinds, bits \in Sizes :
        \E x \in IF kind = "uvarint" THEN Unsigned(bits) ELSE Signed(bits) :
            field = [kind |-> kind, bits |-> bits, number |-> x]
    /\ rest = Encoded(field.kind, field.number)
    /\ AnyBytes => field = [kind |-> "uvarint", bits |-> Width, number |-> 0]
    /\ written = 0 /\ ended = FALSE
    /\ d64 = NewDecoder /\ d32 = NewDecoder

(* pb_decode_varint takes a byte.                                           *)
Take64(d, b) ==
    IF d.status # "reads" THEN d
    ELSE IF d.pos >= Width THEN [d EXCEPT !.status = "overflow"]
    ELSE [status |-> IF b.more THEN "reads" ELSE "done",
          result |-> (d.result + b.bits * 2^d.pos) % 2^Width,
          pos |-> d.pos + Group]

(* Mutant: the last byte of a negative number is taken for any other.       *)
AllOnes(pos) == [bits |-> 2^Group - 1, more |-> TRUE]

(* pb_decode_varint32 takes a byte. Past Half bits only zeros may follow,   *)
(* or the ones of a negative number. If the number ends in the group of the *)
(* highest bit, the rest of the group must be zero.                         *)
SignExtension(pos) ==
    IF pos < Width - 1 THEN [bits |-> 2^Group - 1, more |-> TRUE]
    ELSE [bits |-> 1, more |-> FALSE]

HighBits(b) == b.bits \div 2^(Half % Group)
EndOfHalf == (Half \div Group + 1) * Group

Take32(d, b) ==
    LET past == d.pos >= Half
        bad == past /\ b.bits # 0
                    /\ (d.result < 2^(Half - 1) \/ b # SignExtension(d.pos))
        result == IF past THEN d.result ELSE (d.result + b.bits * 2^d.pos) % 2^Half
        pos == (d.pos + Group) % PosLimit
    IN  IF d.status # "reads" THEN d
        ELSE IF bad THEN [d EXCEPT !.status = "overflow"]
        ELSE IF ~b.more /\ d.pos > 0 /\ pos = EndOfHalf /\ HighBits(b) # 0
             THEN [d EXCEPT !.status = "overflow"]
        ELSE [status |-> IF b.more THEN "reads" ELSE "done", result |-> result, pos |-> pos]

(* pb_encode_varint: the next byte, unless the bytes are any.               *)
Mark(w) == [bits |-> w % 2^Group, more |-> w >= 2^Group]

Transfer ==
    /\ ~ended
    /\ \E b \in Byte :
        /\ IF AnyBytes THEN written < MaxBytes ELSE b = Mark(rest)
        /\ ended' = ~b.more
        /\ d64' = Take64(d64, b) /\ d32' = Take32(d32, b)
    /\ rest' = rest \div 2^Group
    /\ written' = written + 1
    /\ UNCHANGED field

Next == Transfer
Spec == Init /\ [][Next]_vars

-----------------------------------------------------------------------------
TypeOK ==
    /\ rest \in Unsigned(Width)
    /\ \A d \in {d64, d32} : d.status \in {"reads", "done", "overflow"}
    /\ d64.result \in Unsigned(Width) /\ d32.result \in Unsigned(Half)
    /\ ~AnyBytes => written <= Width \div Group + 1
    /\ ~AnyBytes /\ ended => rest = 0 /\ d64.status = "done"

(* A number that is encoded for a field is decoded to the same number by a  *)
(* field of the same kind and size, negative ones included. A field of      *)
(* another size takes the number or refuses it, and never takes another     *)
(* one, except that small varint fields are made from 32 bits.              *)
ComesBack ==
    ended /\ ~AnyBytes =>
        \A bits \in Sizes :
            LET got == Decoded(field.kind, bits, d64.result)
            IN  IF bits >= field.bits THEN
                    got = {field.number}
                ELSE \/ got \subseteq {field.number}
                     \/ field.kind = "varint" /\ field.number \notin Signed(Half)

(* pb_decode_varint32 takes every number of 32 bits and every negative one, *)
(* which is sent with 64 bits, and gives its lower 32 bits.                 *)
IsHalf(w) == w < 2^Half \/ w >= 2^Width - 2^(Half - 1)

HalfTakesHalf ==
    ended /\ ~AnyBytes =>
        LET w == Encoded(field.kind, field.number)
        IN  IsHalf(w) => d32.status = "done" /\ d32.result = w % 2^Half

(* It takes no other numbers: a "varint overflow" is an error, but for      *)
(* "trailing 0x80 bytes, or 0xFF for negative".                             *)
HalfNeverCuts ==
    ended /\ d32.status = "done" /\ d64.status = "done" =>
        IsHalf(d64.result) /\ d32.result = d64.result % 2^Half

=============================================================================
