---------------------------- MODULE ProtoDecode -----------------------------
(***************************************************************************)
(* pb_decode of nanopb: the fields of a message come from a stream one     *)
(* after the other, in any order and number, and are put into a struct     *)
(* with static fields, allocated fields and a union (Pods/nanopb/          *)
(* pb_decode.c). The pods are built with PB_ENABLE_MALLOC.                 *)
(*                                                                         *)
(* The message type has a field for each way a field is decoded:           *)
(*   req, opt    static, required and optional (with has_)                 *)
(*   rep, fix    static arrays, packable, with and without a count         *)
(*   sta         static array of submessages                               *)
(*   str, reps   allocated string, allocated array of allocated strings    *)
(*   arr         allocated array, packable                                 *)
(*   sub, subs   allocated submessage, allocated array of submessages      *)
(*   num, name, one, two   of a oneof: a static number, an allocated       *)
(*               string, a static submessage, an allocated submessage      *)
(*   cb          callback field                                            *)
(* Every submessage has one field, an allocated string. Any other tag is   *)
(* unknown. What is read is abstracted to values; the tags and lengths     *)
(* before them are in module Varint.                                       *)
(***************************************************************************)
EXTENDS Integers, FiniteSets, SequencesExt

CONSTANTS
    Values,     \* what scalars and strings can be
    ArraySize,  \* array_size of rep, fix and sta
    MaxPacked,  \* bound: entries of a packed field
    MaxFields,  \* bound: fields on the wire
    Tags,       \* the fields that come, for a run
    Zeroed      \* the caller's struct is zero before pb_decode (Msg_init_zero)

(* What the constants are assumed to be.                                    *)
DecodeConstants ==
    /\ Values \subseteq Nat \ {0} /\ Zeroed \in BOOLEAN
    /\ ArraySize \in Nat \ {0} /\ MaxPacked \in Nat \ {0} /\ MaxFields \in Nat

Numbers == {"req", "opt", "num"}
Strings == {"str", "reps", "name"}
Submessages == {"sub", "sta", "subs", "one", "two"}
Packable == {"rep", "fix", "arr"}
Union == {"num", "name", "one", "two"}

(* A field on the wire: its value, or the values of a packed field, or of a *)
(* submessage the value of its field, if it is there.                       *)
Field(t, vals, packed) == [tag |-> t, vals |-> vals, packed |-> packed]

Wire ==
    {Field(t, <<v>>, FALSE) : t \in Tags \cap (Numbers \cup Strings \cup Packable), v \in Values}
    \cup {Field(t, p, TRUE) : t \in Tags \cap Packable, p \in BoundedSeq(Values, MaxPacked)}
    \cup {Field(t, p, FALSE) : t \in Tags \cap Submessages, p \in BoundedSeq(Values, 1)}
    \cup {Field(t, <<>>, FALSE) : t \in Tags \cap {"cb", "unknown"}}

VARIABLES
    msg,        \* the struct
    heap,       \* the live blocks, with the string each holds, if any
    fixed,      \* fixed_count_size, of the one field of fixed count
    seen,       \* fields_seen
    pc,
    fault,      \* ghost: a block was freed that was not live
    wire        \* ghost: the fields that were decoded

vars == <<msg, heap, fixed, seen, pc, fault, wire>>

(* A pointer is NULL or a block. cell is the memory of the union: a pointer *)
(* if a pointer field is set, junk if it was used for something else.       *)
NULL == 0
Junk == -1
NoString == 0

-----------------------------------------------------------------------------
(* pb_message_set_to_defaults. The pointer fields of the union set its      *)
(* memory to NULL; the entries of a static array are left as they are.      *)
Defaults ==
    [req |-> {}, opt |-> {}, rep |-> <<>>, fix |-> <<>>,
     sta |-> [count |-> 0, items |-> [i \in 1..ArraySize |-> IF Zeroed THEN NULL ELSE Junk]],
     str |-> NULL,
     reps |-> [at |-> NULL, items |-> <<>>],
     arr |-> [at |-> NULL, items |-> <<>>],
     sub |-> [at |-> NULL, inner |-> NULL],
     subs |-> [at |-> NULL, items |-> <<>>],
     which |-> "none", num |-> {}, cell |-> NULL, inner |-> NULL]

Init ==
    /\ msg = Defaults /\ heap = <<>> /\ fixed = 0 /\ seen = {}
    /\ pc = "fields" /\ fault = FALSE /\ wire = <<>>

(* A decoding in progress: the struct, the heap and whether it went well.   *)
State == [m |-> msg, h |-> heap, ok |-> TRUE, bad |-> FALSE]
Failed(s) == [s EXCEPT !.ok = FALSE]

(* pb_realloc: a block that is there stays.                                 *)
NewBlock(s) == Min(1..(Cardinality(DOMAIN s.h) + 1) \ DOMAIN s.h)
Block(s, p) == IF p = NULL THEN NewBlock(s) ELSE p
With(h, b, v) == [x \in DOMAIN h \cup {b} |-> IF x = b THEN v ELSE h[x]]

(* pb_free; bad when the block is not live.                                 *)
Free(s, p) ==
    IF p = NULL THEN s
    ELSE IF p \notin DOMAIN s.h THEN [s EXCEPT !.bad = TRUE]
    ELSE [s EXCEPT !.h = [x \in DOMAIN s.h \ {p} |-> s.h[x]]]

FreeAll(s, ps) == FoldLeft(Free, s, ps)

(* pb_dec_string into a pointer: the block is allocated or grown before the *)
(* bytes are read into it. Each result is a state and the pointer.          *)
DecString(s, p, v) ==
    LET b == Block(s, p)
    IN  {[s |-> [s EXCEPT !.h = With(s.h, b, v)], p |-> b],
         [s |-> Failed(s), p |-> p],                                 \* too short, no memory
         [s |-> Failed([s EXCEPT !.h = With(s.h, b, NoString)]), p |-> b]}  \* io error

(* pb_decode_noinit of a submessage: the string, if it comes. The stream    *)
(* may be too short, before it or after it.                                 *)
DecSubmessage(s, inner, vals) ==
    {[s |-> Failed(s), p |-> inner]}
    \cup IF vals = <<>> THEN {[s |-> s, p |-> inner]}
         ELSE LET r == DecString(s, inner, vals[1])
              IN  r \cup {[x EXCEPT !.s = Failed(x.s)] : x \in r}

(* pb_decode of a submessage of an array: what fails is released at once,   *)
(* except if only the end of the submessage cannot be read.                 *)
DecEntry(s, vals) ==
    LET r == DecSubmessage(s, NULL, vals)
    IN  {IF x.s.ok THEN x ELSE [s |-> Free(x.s, x.p), p |-> NULL] : x \in r}
        \cup {[x EXCEPT !.s = Failed(x.s)] : x \in {y \in r : y.s.ok}}

-----------------------------------------------------------------------------
(* pb_release_single_field, for the field of a union and for the others.    *)
ReleaseUnion(s) ==
    CASE s.m.which = "name" -> [Free(s, s.m.cell) EXCEPT !.m.cell = NULL]
      [] s.m.which = "two"  ->
            [FreeAll(s, IF s.m.cell = NULL THEN <<>> ELSE <<s.m.inner, s.m.cell>>)
                EXCEPT !.m.cell = NULL, !.m.inner = NULL]
      [] s.m.which = "one"  -> [Free(s, s.m.inner) EXCEPT !.m.inner = NULL]
      [] OTHER -> s

(* Mutant: what the submessage holds is forgotten.                          *)
ReleaseSubOnly(s) ==
    [Free(s, s.m.sub.at) EXCEPT !.m.sub = [at |-> NULL, inner |-> NULL]]

ReleaseSub(s) ==
    [FreeAll(s, <<s.m.sub.inner, s.m.sub.at>>) EXCEPT !.m.sub = [at |-> NULL, inner |-> NULL]]

(* A count that was raised past the end of a static array is cut.           *)
CountedEntries(m) == Min({m.sta.count, ArraySize})

ReleaseStatic(s) ==
    LET n == CountedEntries(s.m)
    IN  [FreeAll(s, SubSeq(s.m.sta.items, 1, n))
            EXCEPT !.m.sta.items = [i \in 1..ArraySize |-> IF i <= n THEN NULL ELSE @[i]]]

(* pb_release of the whole struct. Static fields and which_ stay.           *)
PbRelease(s) ==
    LET r == ReleaseUnion(ReleaseStatic(ReleaseSub(s)))
        none == [at |-> NULL, items |-> <<>>]
    IN  [FreeAll(r, <<r.m.str>> \o r.m.reps.items \o <<r.m.reps.at, r.m.arr.at>>
                        \o r.m.subs.items \o <<r.m.subs.at>>)
            EXCEPT !.m.str = NULL, !.m.reps = none, !.m.arr = none, !.m.subs = none]

-----------------------------------------------------------------------------
(* decode_static_field and decode_pointer_field.                            *)

(* Packed entries go one by one into a static array until it is full; what *)
(* is left then is an error, and one entry may be bad. A single entry is    *)
(* counted before it is decoded, even when there is no room for it.         *)
StaticArray(old, f) ==
    LET room == ArraySize - Len(old)
        stored(n) == old \o SubSeq(f.vals, 1, n)
    IN  {[items |-> stored(n), ok |-> TRUE] : n \in {Len(f.vals)} \cap 0..room}
        \cup IF f.packed
             THEN {[items |-> stored(n), ok |-> FALSE] : n \in 0..Min({room, Len(f.vals)})}
             ELSE {[items |-> Append(old, NoString), ok |-> FALSE]}

(* A static array of submessages: an entry is set to its defaults only when *)
(* its length was read, and released at once if it fails (pb_decode).       *)
StaticEntry(s, vals) ==
    LET n == s.m.sta.count + 1
        counted == [s EXCEPT !.m.sta.count = n]
        clean == [counted EXCEPT !.m.sta.items[n] = NULL]
        kept(r) == [r.s EXCEPT !.m.sta.items[n] = r.p]
    IN  IF n > ArraySize THEN {Failed(counted)}
        ELSE {Failed(counted)} \cup {kept(r) : r \in DecEntry(clean, vals)}

(* The array is allocated for the entries to come; entries and count grow   *)
(* with each one. Of an empty packed field nothing is allocated. A single   *)
(* entry is counted before it is decoded.                                   *)
PointerArray(s, f) ==
    LET b == Block(s, s.m.arr.at)
        grown(more) == [s EXCEPT !.m.arr = [at |-> b, items |-> s.m.arr.items \o more],
                                 !.h = With(s.h, b, NoString)]
    IN  {Failed(s)}
        \cup IF f.vals = <<>> THEN {s}
             ELSE {grown(f.vals)}
                  \cup IF f.packed THEN {Failed(grown(SubSeq(f.vals, 1, n))) : n \in 0..Len(f.vals)}
                       ELSE {Failed(grown(<<NoString>>))}

(* One more entry of an array of strings or submessages: the array grows,   *)
(* the count goes up, and the new entry is NULL before it is decoded.       *)
PointerEntry(s, tag, vals) ==
    LET b == Block(s, s.m[tag].at)
        n == Len(s.m[tag].items) + 1
        grown == [s EXCEPT !.m[tag] = [at |-> b, items |-> Append(@.items, NULL)],
                           !.h = With(s.h, b, NoString)]
        results == IF tag = "reps" THEN DecString(grown, NULL, vals[1])
                   ELSE {[s |-> Failed(grown), p |-> NULL]} \cup DecEntry(grown, vals)
    IN  {Failed(s)} \cup {[r.s EXCEPT !.m[tag].items[n] = r.p] : r \in results}

(* An allocated submessage: the one that is there is released first.        *)
PointerSub(s0, vals) ==
    LET s == IF s0.m.sub.at = NULL THEN s0 ELSE ReleaseSub(s0)
        b == NewBlock(s)
        made == [s EXCEPT !.m.sub = [at |-> b, inner |-> NULL], !.h = With(s.h, b, NoString)]
    IN  {Failed(s)} \cup {[r.s EXCEPT !.m.sub.inner = r.p] : r \in DecSubmessage(made, NULL, vals)}

(* pb_release_union_field: another field of the union is released, and a    *)
(* pointer that is to come starts as NULL.                                  *)
SwitchUnion(s, tag) ==
    IF s.m.which \in {"none", tag} THEN s
    ELSE [ReleaseUnion(s) EXCEPT !.m.cell = IF tag \in {"name", "two"} THEN NULL ELSE @]

(* The fields of the union. A static submessage is cleared when the union   *)
(* held something else; the allocated one is made anew in any case.         *)
DecodeUnion(s0, tag, vals) ==
    LET s == SwitchUnion(s0, tag)
        set(x) == [x EXCEPT !.m.which = tag]
    IN  CASE tag = "num" ->
              {[set(s) EXCEPT !.m.num = {vals[1]}, !.m.cell = Junk], Failed(set(s))}
          [] tag = "name" ->
              {[r.s EXCEPT !.m.cell = r.p] : r \in DecString(set(s), s.m.cell, vals[1])}
          [] tag = "one" ->
              LET clear == IF s.m.which = "one" THEN s
                           ELSE [s EXCEPT !.m.inner = NULL, !.m.cell = Junk]
              IN  {[r.s EXCEPT !.m.inner = r.p] : r \in DecSubmessage(set(clear), clear.m.inner, vals)}
          [] tag = "two" ->
              LET bare == IF s.m.cell = NULL THEN set(s)
                          ELSE set(IF s.m.which = "two" THEN ReleaseUnion(s) ELSE s)
                  b == NewBlock(bare)
                  made == [bare EXCEPT !.m.cell = b, !.m.inner = NULL, !.h = With(bare.h, b, NoString)]
              IN  {Failed(bare)} \cup {[r.s EXCEPT !.m.inner = r.p] : r \in DecSubmessage(made, NULL, vals)}

(* decode_field: what may become of the struct and the heap.                *)
DecodeField(f) ==
    LET s == State
        arrays == IF f.tag = "fix" THEN StaticArray(IF fixed = 0 THEN <<>> ELSE msg.fix, f)
                  ELSE StaticArray(msg.rep, f)
    IN  CASE f.tag \in {"req", "opt"} ->
                  {[s EXCEPT !.m[f.tag] = {f.vals[1]}],
                   IF f.tag = "req" THEN Failed(s) ELSE Failed([s EXCEPT !.m.opt = {NoString}])}
          [] f.tag \in {"rep", "fix"} ->
                  {[s EXCEPT !.m[f.tag] = a.items, !.ok = a.ok] : a \in arrays}
          [] f.tag = "str" ->
                  {[r.s EXCEPT !.m.str = r.p] : r \in DecString(s, msg.str, f.vals[1])}
          [] f.tag = "sta" -> StaticEntry(s, f.vals)
          [] f.tag = "arr" -> PointerArray(s, f)
          [] f.tag \in {"reps", "subs"} -> PointerEntry(s, f.tag, f.vals)
          [] f.tag = "sub" -> PointerSub(s, f.vals)
          [] f.tag \in Union -> DecodeUnion(s, f.tag, f.vals)
          [] f.tag \in {"cb", "unknown"} -> {s, Failed(s)}

(* pb_decode_noinit, one turn of its loop.                                  *)
Decode ==
    /\ pc = "fields" /\ Len(wire) < MaxFields
    /\ \E f \in Wire : \E s \in DecodeField(f) :
        /\ msg' = s.m /\ heap' = s.h
        /\ fault' = (fault \/ s.bad)
        /\ pc' = IF s.ok THEN "fields" ELSE "release"
        /\ wire' = Append(wire, f)
        /\ fixed' = IF f.tag = "fix" THEN Len(s.m.fix) ELSE fixed
        /\ seen' = IF f.tag = "req" THEN seen \cup {"req"} ELSE seen

(* The end of the stream: the array of fixed count must be full, or not     *)
(* there at all, and required fields must have come.                        *)
FixedComplete ==
    (\E i \in 1..Len(wire) : wire[i].tag = "fix") => fixed = ArraySize

End ==
    /\ pc = "fields"
    /\ pc' = IF FixedComplete /\ seen = {"req"} THEN "done" ELSE "release"
    /\ UNCHANGED <<msg, heap, fixed, seen, fault, wire>>

(* pb_decode after an error; the caller once it has used the message. A     *)
(* caller may release after an error too: it must find nothing to free.     *)
Release ==
    /\ pc \in {"release", "done", "failed"}
    /\ LET s == PbRelease(State)
       IN  msg' = s.m /\ heap' = s.h /\ fault' = (fault \/ s.bad)
    /\ pc' = IF pc = "done" THEN "used" ELSE "failed"
    /\ UNCHANGED <<fixed, seen, wire>>

Next == Decode \/ End \/ Release
Spec == Init /\ [][Next]_vars

-----------------------------------------------------------------------------
Blocks(ps) == ToSet(ps) \ {NULL}

(* The blocks the struct leads to.                                          *)
Reachable ==
    Blocks(<<msg.str, msg.reps.at, msg.arr.at, msg.sub.at, msg.sub.inner, msg.subs.at>>
             \o msg.reps.items \o msg.subs.items
             \o SubSeq(msg.sta.items, 1, CountedEntries(msg)))
    \cup CASE msg.which = "name" -> Blocks(<<msg.cell>>)
           [] msg.which = "two"  -> Blocks(<<msg.cell, msg.inner>>)
           [] msg.which = "one"  -> Blocks(<<msg.inner>>)
           [] OTHER -> {}

TypeOK ==
    /\ pc \in {"fields", "release", "done", "failed", "used"}
    /\ pc \in {"fields", "done", "used"} =>
            Len(msg.rep) <= ArraySize /\ fixed <= ArraySize /\ msg.sta.count <= ArraySize
    /\ Len(msg.rep) <= ArraySize + 1 /\ fixed <= ArraySize + 1
    /\ DOMAIN heap \subseteq Nat \ {0}
    /\ msg.which \in Union \cup {"none"}

(* Whatever fields come and wherever the decoding fails, every live block   *)
(* is reached from the struct and every pointer of the struct is live; no   *)
(* block is freed twice, and in the end none is left.                       *)
NothingLeaks ==
    /\ ~fault
    /\ Reachable = DOMAIN heap
    /\ pc \in {"failed", "used"} => DOMAIN heap = {}

(* What a reader of protocol buffers expects: the last value of a field,    *)
(* all values of a repeated field in order.                                 *)
Sent(tag) == SelectSeq(wire, LAMBDA f : f.tag = tag)
LastOf(tag) == IF Sent(tag) = <<>> THEN {} ELSE {Last(Sent(tag)).vals[1]}
AllOf(tag) == FlattenSeq([i \in 1..Len(Sent(tag)) |-> Sent(tag)[i].vals])
Texts(ps) == [i \in 1..Len(ps) |-> heap[ps[i]]]
InUnion == SelectSeq(wire, LAMBDA f : f.tag \in Union)
StringAt(p) == IF p = NULL THEN <<>> ELSE <<heap[p]>>
Contents(ps) == [i \in 1..Len(ps) |-> StringAt(ps[i])]
Received(tag) == [i \in 1..Len(Sent(tag)) |-> Sent(tag)[i].vals]

(* A message that was decoded without an error holds just what was sent:    *)
(* of single fields the last, of repeated fields all, of the union the last *)
(* field that came, with its own content and nothing of another one.        *)
HoldsWhatWasSent ==
    pc = "done" =>
        /\ msg.req = LastOf("req") /\ msg.req # {} /\ msg.opt = LastOf("opt")
        /\ msg.rep = AllOf("rep") /\ msg.fix = AllOf("fix") /\ msg.arr.items = AllOf("arr")
        /\ Sent("str") # <<>> => StringAt(msg.str) = Last(Sent("str")).vals
        /\ Texts(msg.reps.items) = AllOf("reps")
        /\ Contents(msg.subs.items) = Received("subs")
        /\ Contents(SubSeq(msg.sta.items, 1, msg.sta.count)) = Received("sta")
        /\ Sent("sub") # <<>> => StringAt(msg.sub.inner) = Last(Sent("sub")).vals
        /\ InUnion # <<>> =>
            LET last == Last(InUnion)
            IN  /\ msg.which = last.tag
                /\ last.tag = "num" => msg.num = {last.vals[1]}
                /\ last.tag = "name" => StringAt(msg.cell) = last.vals
                /\ last.tag \in {"one", "two"} /\ last.vals # <<>> =>
                        StringAt(msg.inner) = last.vals
                /\ last.tag \in {"one", "two"} /\ last.vals = <<>>
                    /\ (Len(InUnion) = 1 \/ InUnion[Len(InUnion) - 1].tag # last.tag) =>
                        msg.inner = NULL

(* "old data is of same type => merge": a submessage of the union that      *)
(* comes again keeps what only came the first time.                         *)
SameTypeMerges ==
    pc = "done" /\ Len(InUnion) = 2 /\ InUnion[1].tag \in {"one", "two"}
        /\ InUnion[2].tag = InUnion[1].tag /\ InUnion[2].vals = <<>>
            => StringAt(msg.inner) = InUnion[1].vals

(* pb_decode sets the struct to its defaults by itself: no pointer that it  *)
(* did not write is ever freed.                                             *)
NoWildFree == ~fault

=============================================================================
