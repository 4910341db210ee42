------------------------------ MODULE MCNanopb ------------------------------
(* nanopb for TLC: its integers, the decoder (all kinds of fields; a union *)
(* that changes often), the encoder (callbacks that answer as they like; the *)
(* way the pods use it). A behaviour is about one of them, part; the variables *)
(* of the others stay Idle, so that the state spaces add up.               *)

VARIABLES
    part,   \* what a behaviour is about
    field, rest, written, ended, d64, d32, msg, heap, fixed, seen, pc, fault,
    wire, struct, says, stack, size, sized, out, result

AllTags == {"req", "opt", "rep", "fix", "sta", "str", "reps", "arr", "sub", "subs",
            "num", "name", "one", "two", "cb", "unknown"}
UnionTags == {"req", "num", "name", "one", "two"}

Ints == INSTANCE Varint WITH
    Group <- 2, Half <- 5, Width <- 9, PosLimit <- 16, Sizes <- {3, 5, 9},
    AnyBytes <- FALSE, MaxBytes <- 0
Fields == INSTANCE ProtoDecode WITH
    Values <- {1, 2}, ArraySize <- 2, MaxPacked <- 2, MaxFields <- 3,
    Tags <- AllTags, Zeroed <- TRUE
Oneof == INSTANCE ProtoDecode WITH
    Values <- {1, 2}, ArraySize <- 2, MaxPacked <- 2, MaxFields <- 4,
    Tags <- UnionTags, Zeroed <- TRUE
Encode == INSTANCE ProtoEncode WITH
    Base <- 4, ArraySize <- 1, MaxBytes <- 3, Steady <- FALSE, Silent <- {}
Steadily == INSTANCE ProtoEncode WITH
    Base <- 4, ArraySize <- 2, MaxBytes <- 2, Steady <- TRUE,
    Silent <- {"top"}

ASSUME /\ Ints!VarintConstants
       /\ Fields!DecodeConstants
       /\ Oneof!DecodeConstants
       /\ Encode!EncodeConstants
       /\ Steadily!EncodeConstants

-----------------------------------------------------------------------------
(* The variables by the modules that have them, and their value where a     *)
(* behaviour is not about one of these.                                     *)
Idle == <<>>

varintVars == <<field, rest, written, ended, d64, d32>>
VarintIdle ==
    /\ field = Idle /\ rest = Idle /\ written = Idle /\ ended = Idle
    /\ d64 = Idle /\ d32 = Idle

protoDecodeVars == <<msg, heap, fixed, seen, pc, fault, wire>>
ProtoDecodeIdle ==
    /\ msg = Idle /\ heap = Idle /\ fixed = Idle /\ seen = Idle /\ pc = Idle
    /\ fault = Idle /\ wire = Idle

protoEncodeVars == <<struct, says, stack, size, sized, out, result>>
ProtoEncodeIdle ==
    /\ struct = Idle /\ says = Idle /\ stack = Idle /\ size = Idle
    /\ sized = Idle /\ out = Idle /\ result = Idle

Init ==
    \/ part = "integers" /\ Ints!Init
       /\ ProtoDecodeIdle /\ ProtoEncodeIdle
    \/ part = "fields" /\ Fields!Init
       /\ VarintIdle /\ ProtoEncodeIdle
    \/ part = "union" /\ Oneof!Init
       /\ VarintIdle /\ ProtoEncodeIdle
    \/ part = "encode" /\ Encode!Init
       /\ VarintIdle /\ ProtoDecodeIdle
    \/ part = "steady" /\ Steadily!Init
       /\ VarintIdle /\ ProtoDecodeIdle

Next ==
    /\ UNCHANGED part
    /\ \/ /\ part = "integers" /\ Ints!Next
          /\ UNCHANGED <<protoDecodeVars, protoEncodeVars>>
       \/ /\ part = "fields" /\ Fields!Next
          /\ UNCHANGED <<varintVars, protoEncodeVars>>
       \/ /\ part = "union" /\ Oneof!Next
          /\ UNCHANGED <<varintVars, protoEncodeVars>>
       \/ /\ part = "encode" /\ Encode!Next
          /\ UNCHANGED <<varintVars, protoDecodeVars>>
       \/ /\ part = "steady" /\ Steadily!Next
          /\ UNCHANGED <<varintVars, protoDecodeVars>>

vars == <<part,
          varintVars, protoDecodeVars, protoEncodeVars>>

Spec == Init /\ [][Next]_vars

-----------------------------------------------------------------------------
(* A number that pb_encode_varint wrote is read back by a field of its      *)
(* size, any other field takes it or refuses it; and pb_decode_varint32     *)
(* takes every number of half the bits and every negative one, and gives    *)
(* the lower half of its bits.                                              *)
IntegersRight == part = "integers" => Ints!TypeOK /\ Ints!ComesBack /\ Ints!HalfTakesHalf

(* Wherever decoding fails, every allocated block is reached from the       *)
(* struct, none is freed twice, and pb_release leaves none. A struct that   *)
(* was decoded without error holds what was sent: of single fields the      *)
(* last, of repeated ones all, of the union what came last.                 *)
DecodingRight ==
    /\ part = "fields" => /\ Fields!TypeOK /\ Fields!NothingLeaks
                          /\ Fields!HoldsWhatWasSent
    /\ part = "union" => /\ Oneof!TypeOK /\ Oneof!NothingLeaks
                         /\ Oneof!HoldsWhatWasSent

(* Whatever callbacks write, pb_encode stays inside its buffer, and a       *)
(* length that was written is the length of what follows it; with callbacks *)
(* that repeat themselves the two passes end the same way, and if they      *)
(* succeed the second fills the buffer that the first one asked for         *)
(* (pb_encode, GDTCCTEncodeBatchedLogRequest).                              *)
EncodingRight ==
    /\ part = "encode" => Encode!TypeOK /\ Encode!InBuffer /\ Encode!LengthsRight
    /\ part = "steady" => Steadily!TypeOK /\ Steadily!FillsExactly
=============================================================================
