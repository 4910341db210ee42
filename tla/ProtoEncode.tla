---------------------------- MODULE ProtoEncode -----------------------------
(***************************************************************************)
(* pb_encode of nanopb (Pods/nanopb/pb_encode.c). The length of a          *)
(* submessage stands before it, so each one is encoded twice: into a       *)
(* stream that only counts, then into the buffer. The pods use the same    *)
(* trick for the whole message (GDTCCTEncodeBatchedLogRequest): they size  *)
(* it, allocate a buffer of just that size and encode into it. A pass that *)
(* fails is only logged: the buffer then has the size that was counted up  *)
(* to the error, and it is returned whatever the second pass came to. A    *)
(* callback field asks the program for its bytes in every pass, and may    *)
(* answer differently.                                                     *)
(*                                                                         *)
(* The message: top has a number, a submessage mid and a callback field;   *)
(* mid has a callback field and a submessage leaf; leaf has a required     *)
(* allocated field, an optional one, a packed array and a callback field.  *)
(* A byte is a cell; only lengths have a value.                            *)
(***************************************************************************)
EXTENDS Integers, FiniteSets, SequencesExt

CONSTANTS
    Base,       \* lengths below it take one byte (128)
    ArraySize,  \* array_size of the packed array
    MaxBytes,   \* bound: bytes of a callback field
    Steady,     \* callbacks answer the same in every pass
    Silent      \* the callback fields, by message, that are not set

(* What the constants are assumed to be.                                    *)
EncodeConstants ==
    /\ Base \in Nat \ {0, 1} /\ ArraySize \in Nat /\ MaxBytes \in Nat
    /\ Steady \in BOOLEAN /\ Silent \subseteq {"top", "mid", "leaf"}

FieldsOf ==
    [top  |-> <<"num", "mid", "cb">>,
     mid  |-> <<"cb", "leaf">>,
     leaf |-> <<"req", "opt", "arr", "cb">>]

VARIABLES
    struct,     \* what is encoded: req and opt there or not, sizes of arr
    says,       \* what each callback answers, if Steady
    stack,      \* the calls of pb_encode, each with its stream
    size,       \* what the sizing pass of the whole message came to, or -1
    sized,      \* the sizing pass succeeded
    out,        \* the buffer, as far as it is written
    result      \* of the pass, and at the end of the second one

vars == <<struct, says, stack, size, sized, out, result>>

(* A call of pb_encode: the message, the fields to come and the stream; and *)
(* once a submessage is in work, its declared size (-1 before it is known). *)
Call(message, sizing, max) ==
    [message |-> message, todo |-> FieldsOf[message], sizing |-> sizing,
     max |-> max, written |-> 0, declared |-> -1]

Current == Last(stack)
Depth == Len(stack)

(* What the callback of a field may do: write some bytes, and give up or not. *)
Answers == [bytes : 0..MaxBytes, ok : BOOLEAN]

Init ==
    /\ struct \in [req : BOOLEAN, opt : BOOLEAN, arr : BoundedSeq({1, 2}, ArraySize + 1)]
    /\ says \in [{"top", "mid", "leaf"} \ Silent -> IF Steady THEN Answers ELSE {[bytes |-> 0, ok |-> TRUE]}]
    /\ stack = <<Call("top", TRUE, 0)>>
    /\ size = -1 /\ sized = FALSE /\ out = <<>> /\ result = "none"

-----------------------------------------------------------------------------
(* A cell has the depth of the call that wrote it; the last cell of a       *)
(* length has the length.                                                   *)
Byte == [depth |-> Depth, length |-> -1]
Bytes(n) == [i \in 1..n |-> Byte]

(* pb_encode_varint of a length.                                            *)
LengthBytes(n) == 1 + Cardinality({k \in 1..3 : n >= Base ^ k})
Length(n) == Append(Bytes(LengthBytes(n) - 1), [depth |-> Depth, length |-> n])

(* pb_write on the stream of a call. A sizing stream has no callback and no *)
(* limit.                                                                   *)
Fits(call, n) == call.sizing \/ n = 0 \/ call.written + n <= call.max

(* Several pb_write after each other, until one does not fit.               *)
Put(call, writes) ==
    LET put(acc, cells) ==
            IF ~acc.ok \/ ~Fits(acc.call, Len(cells)) THEN [acc EXCEPT !.ok = FALSE]
            ELSE [call |-> [acc.call EXCEPT !.written = @ + Len(cells)],
                  cells |-> IF call.sizing THEN <<>> ELSE acc.cells \o cells,
                  ok |-> TRUE]
    IN  FoldLeft(put, [call |-> call, cells |-> <<>>, ok |-> TRUE], writes)

(* Only counted, pb_write(stream, NULL, size).                              *)
Count(call, n) == [call EXCEPT !.written = @ + n]

(* What one turn of the loop of pb_encode does to the stream of the current *)
(* call; the first error ends all calls of the pass.                        *)
Proceed(p, todo) ==
    /\ out' = out \o p.cells
    /\ stack' = Append(Front(stack), [p.call EXCEPT !.todo = IF p.ok THEN todo ELSE @])
    /\ result' = IF p.ok THEN result ELSE "failed"
    /\ UNCHANGED <<struct, says, size, sized>>

Fail == result' = "failed" /\ UNCHANGED <<struct, says, stack, size, sized, out>>

IsNext(field) == result = "none" /\ Current.todo # <<>> /\ Head(Current.todo) = field

-----------------------------------------------------------------------------
(* encode_basic_field.                                                      *)
EncodeNumber ==
    /\ IsNext("num")
    /\ Proceed(Put(Current, <<Bytes(1), Bytes(1)>>), Tail(Current.todo))

EncodeRequired ==
    /\ IsNext("req")
    /\ IF struct.req THEN Proceed(Put(Current, <<Bytes(1), Bytes(1)>>), Tail(Current.todo)) ELSE Fail

EncodeOptional ==
    /\ IsNext("opt")
    /\ Proceed(IF struct.opt THEN Put(Current, <<Bytes(1), Bytes(1)>>)
               ELSE [call |-> Current, cells |-> <<>>, ok |-> TRUE], Tail(Current.todo))

(* encode_array, packed: the entries are sized in a stream of their own.    *)
EncodeArray ==
    /\ IsNext("arr")
    /\ LET entries == struct.arr
           total == FoldLeft(LAMBDA a, b : a + b, 0, entries)
           head == Put(Current, <<Bytes(1), Length(total)>>)
       IN  IF Len(entries) > ArraySize THEN Fail
           ELSE Proceed(IF entries = <<>> THEN [call |-> Current, cells |-> <<>>, ok |-> TRUE]
                        ELSE IF Current.sizing /\ head.ok
                        THEN [head EXCEPT !.call = Count(head.call, total)]
                        ELSE Put(Current, <<Bytes(1), Length(total)>>
                                            \o [i \in 1..Len(entries) |-> Bytes(entries[i])]),
                        Tail(Current.todo))

(* encode_callback_field: the program writes what it likes, or gives up.    *)
EncodeCallback ==
    /\ IsNext("cb")
    /\ LET m == Current.message
       IN  IF m \in Silent THEN Proceed([call |-> Current, cells |-> <<>>, ok |-> TRUE], Tail(Current.todo))
           ELSE \E a \in IF Steady THEN {says[m]} ELSE Answers :
                     LET p == Put(Current, <<Bytes(a.bytes)>>)
                     IN  Proceed([p EXCEPT !.ok = @ /\ a.ok], Tail(Current.todo))

(* pb_encode_submessage, up to the sizing pass.                             *)
SizeSubmessage ==
    /\ \E m \in {"mid", "leaf"} :
        /\ IsNext(m) /\ Current.declared = -1
        /\ LET p == Put(Current, <<Bytes(1)>>)
           IN  /\ out' = out \o p.cells
               /\ IF p.ok THEN stack' = Front(stack) \o <<p.call, Call(m, TRUE, 0)>> /\ UNCHANGED result
                  ELSE stack' = stack /\ result' = "failed"
    /\ UNCHANGED <<struct, says, size, sized>>

Caller == stack[Depth - 1]
Returns == result = "none" /\ Current.todo = <<>>

Room(caller, n) == n

(* Its size is known: a stream that is only sizing counts it; else it is    *)
(* encoded into the buffer, with no more room than it said it needs.        *)
WriteSubmessage ==
    /\ Returns /\ Depth > 1 /\ Caller.declared = -1
    /\ LET n == Current.written
           cells == [i \in 1..LengthBytes(n) |->
                        [depth |-> Depth - 1, length |-> IF i = LengthBytes(n) THEN n ELSE -1]]
           p == Put(Caller, <<cells>>)
           child == Head(Caller.todo)
           rest == SubSeq(stack, 1, Depth - 2)
       IN  /\ out' = out \o p.cells
           /\ IF ~p.ok \/ (~Caller.sizing /\ p.call.written + n > p.call.max)
              THEN stack' = Append(rest, p.call) /\ result' = "failed"
              ELSE /\ stack' = IF Caller.sizing
                               THEN Append(rest, [Count(p.call, n) EXCEPT !.todo = Tail(@)])
                               ELSE rest \o <<[p.call EXCEPT !.declared = n],
                                              Call(child, FALSE, Room(p.call, n))>>
                   /\ UNCHANGED result
    /\ UNCHANGED <<struct, says, size, sized>>

(* It was written: it must have come to the size that stands before it.     *)
(* Mutant: any size is taken.                                               *)
SameSizeUnchecked(declared, written) == TRUE

SameSize(declared, written) == declared = written

CloseSubmessage ==
    /\ Returns /\ Depth > 1 /\ Caller.declared # -1
    /\ IF SameSize(Caller.declared, Current.written)
       THEN /\ stack' = Append(SubSeq(stack, 1, Depth - 2),
                               [Caller EXCEPT !.written = @ + Current.written,
                                              !.todo = Tail(@), !.declared = -1])
            /\ UNCHANGED result
       ELSE stack' = stack /\ result' = "failed"
    /\ UNCHANGED <<struct, says, size, sized, out>>

(* GDTCCTEncodeBatchedLogRequest: pb_encode returned, with true or false;   *)
(* false is only logged.                                                    *)
PassEnds == result = "failed" \/ (Returns /\ Depth = 1)

(* A buffer of the size that was counted, up to the error if there was one. *)
StartWriting ==
    /\ PassEnds /\ size = -1
    /\ size' = stack[1].written
    /\ sized' = (result # "failed")
    /\ stack' = <<Call("top", FALSE, stack[1].written)>>
    /\ result' = "none"
    /\ UNCHANGED <<struct, says, out>>

(* All of the buffer is returned, with the zeros of CFDataSetLength where   *)
(* nothing was written.                                                     *)
Zero == [depth |-> 0, length |-> -1]

Finish ==
    /\ PassEnds /\ size # -1
    /\ out' = out \o [i \in 1..(size - Len(out)) |-> Zero]
    /\ result' = IF result = "failed" THEN "cut" ELSE "done"
    /\ UNCHANGED <<struct, says, stack, size, sized>>

Next ==
    \/ EncodeNumber \/ EncodeRequired \/ EncodeOptional \/ EncodeArray \/ EncodeCallback
    \/ SizeSubmessage \/ WriteSubmessage \/ CloseSubmessage
    \/ StartWriting \/ Finish

Spec == Init /\ [][Next]_vars

-----------------------------------------------------------------------------
TypeOK ==
    /\ result \in {"none", "failed", "cut", "done"} /\ size \in Int /\ sized \in BOOLEAN
    /\ Depth \in 1..3
    /\ \A i \in 1..Depth : stack[i].sizing \/ stack[i].written <= stack[i].max
    /\ \A i \in 1..Len(out) : out[i].depth \in 0..3

(* Whatever the callbacks write in each pass, nothing is written behind the *)
(* end of the buffer, and the streams agree on what is in it.               *)
InBuffer ==
    /\ Len(out) <= IF size = -1 THEN 0 ELSE size
    /\ result = "none" =>
            Len(out) = FoldLeft(LAMBDA n, c : n + (IF c.sizing THEN 0 ELSE c.written), 0, stack)

(* When the encoding succeeds, behind each length stands a submessage (or   *)
(* packed array) of just that length, whatever the callbacks did and even   *)
(* if the sizing pass had failed.                                           *)
LengthsRight ==
    result = "done" =>
        \A i \in {j \in 1..Len(out) : out[j].length >= 0} :
            LET n == out[i].length
            IN  /\ i + n <= Len(out)
                /\ \A j \in (i + 1)..(i + n) : out[j].depth >= out[i].depth
                /\ out[i].depth < 3 =>
                    /\ \A j \in (i + 1)..(i + n) : out[j].depth > out[i].depth
                    /\ i + n < Len(out) => out[i + n + 1].depth <= out[i].depth

(* With callbacks that answer the same in each pass, the two passes end the *)
(* same way: the second fails only if the first did, so that a message is   *)
(* never cut without both errors in the log; and if they succeed, the       *)
(* second fills the buffer to its last byte.                                *)
FillsExactly ==
    Steady =>
        /\ size # -1 /\ sized => result \notin {"failed", "cut"}
        /\ result = "done" => sized /\ Len(out) = size /\ Zero \notin ToSet(out)

=============================================================================
