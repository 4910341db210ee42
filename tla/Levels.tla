------------------------------- MODULE Levels -------------------------------
(***************************************************************************)
(* The levels of sorted tables of LevelDB, which Firebase Database links   *)
(* into the app as its disk cache (Pods/leveldb-library): internal keys,   *)
(* the metadata of a version, the lookups in it, and the choice of a       *)
(* compaction (db/dbformat, db/version_set). Nothing here has state.       *)
(*                                                                         *)
(* A user key is a number; 0 stands for a null lower bound and NumKeys + 1 *)
(* for a null upper bound of a range. An entry is a user key, the sequence *)
(* number of the write and whether the write deleted the key; the value is *)
(* told by the sequence number. The size of a table is its number of       *)
(* entries.                                                                *)
(***************************************************************************)
EXTENDS Integers, FiniteSets, SequencesExt

CONSTANTS
    NumKeys,            \* user keys are 1..NumKeys
    NumLevels,          \* kNumLevels
    MaxMemCompactLevel, \* kMaxMemCompactLevel
    CompactionTrigger,  \* kL0_CompactionTrigger
    LevelOneBytes,      \* MaxBytesForLevel(1)
    GrandParentLimit,   \* MaxGrandParentOverlapBytes
    ExpansionLimit,     \* ExpandedCompactionByteSizeLimit
    MaxFileSize         \* TargetFileSize

(* What the constants are assumed to be.                                    *)
LevelConstants ==
    /\ NumKeys \in Nat \ {0}
    /\ NumLevels \in Nat /\ MaxMemCompactLevel \in 0..(NumLevels - 1)
    /\ NumLevels >= 3
    /\ CompactionTrigger \in Nat \ {0} /\ LevelOneBytes \in Nat \ {0}
    /\ GrandParentLimit \in Nat /\ ExpansionLimit \in Nat
    /\ MaxFileSize \in Nat \ {0}

Keys == 1..NumKeys
LevelSet == 0..(NumLevels - 1)
NoKey == 0
NoLimit == NumKeys + 1

Entry == [key: Keys, seq: Nat \ {0}, del: BOOLEAN]

(* InternalKeyComparator::Compare(a, b) < 0: user keys ascend, sequence     *)
(* numbers descend.                                                         *)
IKLess(a, b) == a.key < b.key \/ (a.key = b.key /\ a.seq > b.seq)

First(S) == CHOOSE e \in S : \A o \in S \ {e} : IKLess(e, o)
Final(S) == CHOOSE e \in S : \A o \in S \ {e} : IKLess(o, e)
Ordered(S) == SetToSortSeq(S, IKLess)

-----------------------------------------------------------------------------
(* Versions: for each level the metadata of its tables, sorted by their     *)
(* smallest keys, then by their numbers.                                    *)
FileMetaData == [number: Nat, file_size: Nat, smallest: Entry, largest: Entry]

MetaOf(number, entries) ==
    [number |-> number, file_size |-> Cardinality(entries),
     smallest |-> First(entries), largest |-> Final(entries)]

BySmallestKey(f, g) ==
    \/ IKLess(f.smallest, g.smallest)
    \/ f.smallest = g.smallest /\ f.number < g.number

NoFiles == [l \in LevelSet |-> <<>>]

FilesOf(v) == UNION {ToSet(v[l]) : l \in LevelSet}
NumbersOf(v) == {f.number : f \in FilesOf(v)}

TotalFileSize(files) == MapThenSumSet(LAMBDA f : f.file_size, files)

(* VersionSet::Builder, one edit: added and deleted are sets of pairs of a  *)
(* level and a table, a level and a number. An added file is not deleted.   *)
BuilderApply(v, added, deleted) ==
    [l \in LevelSet |->
        LET new  == {a[2] : a \in {x \in added : x[1] = l}}
            gone == {d[2] : d \in {x \in deleted : x[1] = l}}
                        \ {f.number : f \in new}
            all  == ToSet(v[l]) \cup new
        IN  SetToSortSeq({f \in all : f.number \notin gone}, BySmallestKey)]

(* The assertion of MaybeAddFile and SaveTo: above level 0 the tables of a  *)
(* level do not overlap.                                                    *)
Disjoint(v) ==
    \A l \in LevelSet \ {0} : \A i \in 2..Len(v[l]) :
        IKLess(v[l][i - 1].largest, v[l][i].smallest)

-----------------------------------------------------------------------------
(* Lookups.                                                                 *)

(* FindFile: binary search for the first table whose largest key is not     *)
(* below ikey; Len(files) + 1 if there is none.                             *)
FindFile(files, ikey) ==
    LET search[left \in 1..(Len(files) + 1), right \in 1..(Len(files) + 1)] ==
            IF left >= right THEN right
            ELSE LET mid == (left + right) \div 2
                 IN  IF IKLess(files[mid].largest, ikey)
                     THEN search[mid + 1, right]
                     ELSE search[left, mid]
    IN  search[1, Len(files) + 1]

AfterFile(key, f) == key > f.largest.key
BeforeFile(key, f) == key < f.smallest.key

(* LookupKey: the first internal key for a user key as of a snapshot.       *)
(* MaxSequenceNumber is above every sequence number of a run.               *)
LookupKey(key, snapshot) == [key |-> key, seq |-> snapshot, del |-> FALSE]
MaxSequenceNumber == 2^20

SomeFileOverlapsRange(v, level, lo, hi) ==
    IF level = 0
    THEN \E f \in ToSet(v[0]) : ~AfterFile(lo, f) /\ ~BeforeFile(hi, f)
    ELSE LET i == IF lo = NoKey THEN 1
                  ELSE FindFile(v[level], LookupKey(lo, MaxSequenceNumber))
         IN  i <= Len(v[level]) /\ ~BeforeFile(hi, v[level][i])

(* GetOverlappingInputs: the tables of a level that touch a range of user   *)
(* keys; at level 0 a table that sticks out widens the range and the search *)
(* starts again.                                                            *)
GetOverlappingInputs(v, level, lo, hi) ==
    LET files == ToSet(v[level])
        touching(from, to) == {f \in files : ~AfterFile(from, f) /\ ~BeforeFile(to, f)}
        from(S) == Min({lo} \cup {f.smallest.key : f \in S})
        to(S)   == Max({hi} \cup {f.largest.key : f \in S})
        closed  == {S \in SUBSET files : touching(from(S), to(S)) \subseteq S}
    IN  IF level > 0 THEN touching(lo, hi)
        ELSE {f \in files : \A S \in closed : f \in S}

(* MemTable::Get and Table::InternalGet with SaveValue: the first entry at  *)
(* or after the lookup key, if it is of the same user key. A table whose    *)
(* first entry there is of another key has nothing for this one.            *)
Seek(entries, ikey) ==
    LET rest == {e \in entries : ~IKLess(e, ikey)}
    IN  {e \in rest : e = First(rest) /\ e.key = ikey.key}

(* The tables Version::Get reads at one level, in the order it reads them.  *)
Candidates(v, level, ikey) ==
    IF level = 0
    THEN SetToSortSeq({f \in ToSet(v[0]) : ~AfterFile(ikey.key, f) /\ ~BeforeFile(ikey.key, f)},
                      LAMBDA f, g : f.number > g.number)
    ELSE LET i == FindFile(v[level], ikey)
         IN  IF i > Len(v[level]) \/ BeforeFile(ikey.key, v[level][i]) THEN <<>>
             ELSE <<v[level][i]>>

(* All of them, level by level, with their levels.                          *)
SearchOrder(v, ikey) ==
    FlattenSeq([i \in 1..NumLevels |->
        LET c == Candidates(v, i - 1, ikey)
        IN  [j \in 1..Len(c) |-> <<i - 1, c[j]>>]])

(* Version::Get: the first table in that order that has an entry decides.   *)
(* The result also tells how many tables were read.                         *)
VersionGet(v, disk, ikey) ==
    LET order == SearchOrder(v, ikey)
        hits  == {i \in 1..Len(order) : Seek(disk[order[i][2].number], ikey) # {}}
    IN  IF hits = {} THEN [found |-> {}, reads |-> Len(order)]
        ELSE [found |-> Seek(disk[order[Min(hits)][2].number], ikey), reads |-> Min(hits)]

(* stats->seek_file: the first table, when a second one was read too.       *)
SeekFile(v, ikey, reads) ==
    IF reads < 2 THEN {} ELSE {SearchOrder(v, ikey)[1]}

(* RecordReadSample with ForEachOverlapping: the first of the tables that   *)
(* may hold the key, when there are two.                                    *)
SampleFile(v, ikey) ==
    LET order == SearchOrder(v, ikey) IN IF Len(order) < 2 THEN {} ELSE {order[1]}

-----------------------------------------------------------------------------
(* Choosing where tables go.                                                *)

PickLevelForMemTableOutput(v, lo, hi) ==
    LET blocked(l) == \/ l = MaxMemCompactLevel
                      \/ SomeFileOverlapsRange(v, l + 1, lo, hi)
                      \/ /\ l + 2 < NumLevels
                         /\ TotalFileSize(GetOverlappingInputs(v, l + 2, lo, hi)) > GrandParentLimit
    IN  IF SomeFileOverlapsRange(v, 0, lo, hi) THEN 0
        ELSE Min({l \in 0..MaxMemCompactLevel : blocked(l)})

MaxBytesForLevel(level) ==
    IF level <= 1 THEN LevelOneBytes ELSE LevelOneBytes * 10^(level - 1)

(* Finalize: the level with the best score, as a fraction.                  *)
Score(v, level) ==
    IF level = 0 THEN <<Len(v[0]), CompactionTrigger>>
    ELSE <<TotalFileSize(ToSet(v[level])), MaxBytesForLevel(level)>>
Exceeds(a, b) == a[1] * b[2] > b[1] * a[2]

CompactionLevel(v) ==
    CHOOSE l \in 0..(NumLevels - 2) :
        /\ \A k \in 0..(NumLevels - 2) : ~Exceeds(Score(v, k), Score(v, l))
        /\ \A k \in 0..(l - 1) : Exceeds(Score(v, l), Score(v, k))

SizeCompaction(v) ==
    LET s == Score(v, CompactionLevel(v)) IN s[1] >= s[2]

SmallestKey(files) == First({f.smallest : f \in files})
LargestKey(files) == Final({f.largest : f \in files})

(* AddBoundaryInputs: while another table of the level goes on with the     *)
(* user key that the inputs end with, it is added too.                      *)
FindSmallestBoundaryFile(files, largest) ==
    LET after == {f \in files : IKLess(largest, f.smallest) /\ f.smallest.key = largest.key}
    IN  {f \in after : f.smallest = SmallestKey(after)}

(* Mutant: the rest of the last user key is left behind.                    *)
NoBoundaryInputs(files, inputs) == inputs

AddBoundaryInputs(files, inputs) ==
    LET grow[n \in 0..Cardinality(files)] ==
            IF n = 0 THEN inputs
            ELSE grow[n - 1] \cup FindSmallestBoundaryFile(files, LargestKey(grow[n - 1]))
    IN  IF inputs = {} THEN {} ELSE grow[Cardinality(files)]

(* SetupOtherInputs: the inputs of the next level, the larger choice of     *)
(* inputs that needs no more of them, the grandparents, and the key the     *)
(* next compaction of the level starts after.                               *)
Hull(v, level, files) ==
    GetOverlappingInputs(v, level, SmallestKey(files).key, LargestKey(files).key)

CompactionOf(v, level, in0, in1) ==
    [level |-> level, inputs |-> in0, parents |-> in1,
     grandparents |-> IF level + 2 < NumLevels
                      THEN Hull(v, level + 2, in0 \cup in1) ELSE {},
     pointer |-> LargestKey(in0)]

Worthwhile(in0, in1, exp0, exp1) ==
    /\ in1 # {}
    /\ Cardinality(exp0) > Cardinality(in0)
    /\ TotalFileSize(in1) + TotalFileSize(exp0) < ExpansionLimit
    /\ Cardinality(exp1) = Cardinality(in1)

SetupOtherInputs(v, level, picked) ==
    LET bounded(files) == AddBoundaryInputs(ToSet(v[level]), files)
        choose(in0, in1, exp0, exp1) ==
            IF Worthwhile(in0, in1, exp0, exp1) THEN CompactionOf(v, level, exp0, exp1)
            ELSE CompactionOf(v, level, in0, in1)
        expand(in0, in1, exp0) == choose(in0, in1, exp0, Hull(v, level + 1, exp0))
        parents(in0, in1) == expand(in0, in1, bounded(Hull(v, level, in0 \cup in1)))
        setup(in0) == parents(in0, Hull(v, level + 1, in0))
    IN  setup(bounded(picked))

(* PickCompaction: by size, from the first table after the place where the  *)
(* last compaction of the level ended, or the table that was sought in vain *)
(* too often. Pointers and seek are sets of at most one element.            *)
PickInput(v, level, pointer) ==
    LET after == {i \in 1..Len(v[level]) :
                    \A p \in pointer : IKLess(p, v[level][i].largest)}
    IN  IF after = {} THEN v[level][1] ELSE v[level][Min(after)]

PickCompaction(v, pointers, seek) ==
    LET setup(level, file) ==
            SetupOtherInputs(v, level, IF level = 0 THEN Hull(v, 0, {file}) ELSE {file})
        bySize(level) == setup(level, PickInput(v, level, pointers[level]))
        bySeek(s) == setup(s[1], s[2])
    IN  IF SizeCompaction(v) THEN bySize(CompactionLevel(v))
        ELSE bySeek(CHOOSE s \in seek : TRUE)

(* VersionSet::CompactRange: a part of a range of a level, limited in size  *)
(* above level 0.                                                           *)
RangeInputs(v, level, lo, hi) ==
    LET all == GetOverlappingInputs(v, level, lo, hi)
        upto(f) == {g \in all : g = f \/ BySmallestKey(g, f)}
        before(f) == upto(f) \ {f}
    IN  IF level = 0 THEN all
        ELSE {f \in all : TotalFileSize(before(f)) < MaxFileSize}

IsTrivialMove(c) ==
    /\ Cardinality(c.inputs) = 1 /\ c.parents = {}
    /\ TotalFileSize(c.grandparents) <= GrandParentLimit

(* IsBaseLevelForKey: no table below the output level can hold the key.     *)
IsBaseLevelForKey(v, level, key) ==
    \A l \in (level + 2)..(NumLevels - 1) : \A f \in ToSet(v[l]) :
        AfterFile(key, f) \/ BeforeFile(key, f)

=============================================================================
