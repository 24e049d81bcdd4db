------------------------------- MODULE ERTNode ------------------------------
(***************************************************************************)
(* A node of the extendible radix tree of src/ert: a directory of          *)
(* 2^global_depth pointers to segments, each segment an array of small     *)
(* buckets (ERT_node_int.cpp).  put runs as its stores and fences; a       *)
(* segment split copies the upper half out and leaves what it copied       *)
(* behind, for findPlace to recognise as free by the segment's depth.      *)
(*                                                                         *)
(* ERT has no recovery: after a power failure the model only looks keys    *)
(* up.  Values are those of the last level, stored in the slot itself.     *)
(***************************************************************************)
EXTENDS PMem, FiniteSetsExt, Functions

CONSTANTS Keys,        \* sub-keys, numbers below 2^KeyBits
          Values, None,
          KeyBits,     \* bits of a sub-key (ERT_NODE_LENGTH, 32)
          MaskBits,    \* its low bits that number a bucket (ERT_BUCKET_MASK_LEN, 8)
          BucketSize   \* slots of a bucket (ERT_BUCKET_SIZE, 4)

VARIABLE op            \* the put in progress

ertVars == <<mem, unflushed, crashes, op>>

-----------------------------------------------------------------------------
(* Locations.  A slot is two words of one line, the value stored first;    *)
(* the sub-key's word says whether the value is one, kvFLAG.               *)

Root == <<"root">>                       \* what beforeAddress points to: a node
Entry(nd, i) == <<"entry", nd, i>>       \* GET_SEG_POS: a segment
Depth(s) == <<"depth", s>>
Slot(s, b, j) == <<"slot", s, b, j>>

NoValue == "0"
Empty == [subkey |-> 0, kv |-> FALSE, value |-> NoValue]

Buckets == 0..2^MaskBits - 1
Slots == 1..BucketSize

\* A node is numbered by its global_depth: each doubling makes one.
global_depth == mem[Root]
Segments(m) == {l[2] : l \in {x \in DOMAIN m : x[1] = "depth"}}
FreshSegment == 1 + Cardinality(Segments(mem))

GET_SEG_NUM(key, depth) == key \div 2^(KeyBits - depth)
GET_BUCKET_NUM(key) == key % 2^MaskBits
SegmentOf(key) == mem[Entry(global_depth, GET_SEG_NUM(key, global_depth))]

\* ERTIntBucket::findPlace: the key's slot, or else the first that is empty or
\* belongs to another part of the key space; 0 when there is none.
findPlace(s, key) ==
    LET slot(j) == mem[Slot(s, GET_BUCKET_NUM(key), j)]
        depth == mem[Depth(s)]
        own == {j \in Slots : slot(j).subkey = key}
        free == {j \in Slots : \/ slot(j) = Empty
                               \/ GET_SEG_NUM(slot(j).subkey, depth) # GET_SEG_NUM(key, depth)}
    IN  IF own # {} THEN Min(own) ELSE IF free # {} THEN Min(free) ELSE 0

\* The first slot with the sub-key, which an empty slot has when it is 0.
Found(key) ==
    LET own == {j \in Slots : mem[Slot(SegmentOf(key), GET_BUCKET_NUM(key), j)].subkey = key}
    IN  IF own = {} THEN Empty ELSE mem[Slot(SegmentOf(key), GET_BUCKET_NUM(key), Min(own))]

\* ERTIntNode::get, and what Search makes of it at the last level: without
\* the flag the value is taken for a node below the last, which answers 0.
get(key) == IF Found(key).kv THEN Found(key).value ELSE None

-----------------------------------------------------------------------------
(* put.                                                                    *)

Idle == [phase |-> "idle"]
Halted == [phase |-> "halted"]
In(phase) == op.phase = phase /\ unflushed = <<>>
To(phase) == op' = [op EXCEPT !.phase = phase]

Put(k, v) == /\ op = Idle
             /\ op' = [phase |-> "put", key |-> k, val |-> v, old |-> get(k)]
             /\ UNCHANGED <<mem, unflushed, crashes>>

seg == SegmentOf(op.key)
place == findPlace(seg, op.key)
TheSlot == Slot(seg, GET_BUCKET_NUM(op.key), place)

\* Insert finds the sub-key with a value, and stores the new one.
UpdateValue == /\ In("put") /\ Found(op.key).value # NoValue
               /\ Store(TheSlot :> [mem[TheSlot] EXCEPT !.value = op.val])
               /\ To("done")

\* There is a place: the value, a fence, the sub-key, and one flush of both.
StoreValue == /\ In("put") /\ Found(op.key).value = NoValue /\ place # 0
              /\ Store(TheSlot :> [mem[TheSlot] EXCEPT !.value = op.val])
              /\ op' = [phase |-> "subkey", key |-> op.key, val |-> op.val, old |-> op.old,
                        slot |-> TheSlot]

StoreSubkey == /\ op.phase = "subkey"
               /\ Store(op.slot :> [mem[op.slot] EXCEPT !.subkey = op.key, !.kv = TRUE])
               /\ To("done")

\* The bucket is full and the segment has more than one directory entry: a
\* copy of what belongs to the upper half of its range.
stride == 2^(global_depth - mem[Depth(seg)])
left == stride * (GET_SEG_NUM(op.key, global_depth) \div stride)
mid == left + stride \div 2

Moved(s, b) == {j \in Slots : GET_SEG_NUM(mem[Slot(s, b, j)].subkey, global_depth) >= mid}
UpperHalf(s, new) ==
    [l \in {Slot(new, b, j) : b \in Buckets, j \in Slots} |->
        LET moved == Moved(s, l[3])
            from == {j \in moved : Cardinality({i \in moved : i <= j}) = l[4]}
        IN  IF from = {} THEN Empty ELSE mem[Slot(s, l[3], Min(from))]]

SplitSegment ==
    /\ In("put") /\ place = 0 /\ mem[Depth(seg)] < global_depth
    /\ StoreAfter((Depth(FreshSegment) :> mem[Depth(seg)] + 1) @@ UpperHalf(seg, FreshSegment),
                  [l \in {Entry(global_depth, i) : i \in mid..left + stride - 1} |-> FreshSegment])
    /\ op' = [phase |-> "depth", key |-> op.key, val |-> op.val, old |-> op.old, seg |-> seg]

\* The split segment's depth grows when the entries are flushed; then put again.
\* (Slip: it stays.)
DeepenSegment_Forgets ==
    /\ In("depth")
    /\ op' = [phase |-> "put", key |-> op.key, val |-> op.val, old |-> op.old]
    /\ UNCHANGED <<mem, unflushed, crashes>>
DeepenSegment == /\ In("depth")
                 /\ Store(Depth(op.seg) :> mem[Depth(op.seg)] + 1)
                 /\ op' = [phase |-> "put", key |-> op.key, val |-> op.val, old |-> op.old]

\* The segment has one entry: a node with a directory of twice the size takes
\* the node's place; then put again.
DoubleDirectory ==
    /\ In("put") /\ place = 0 /\ mem[Depth(seg)] = global_depth
    /\ StoreAfter([l \in {Entry(global_depth + 1, i) : i \in 0..2^(global_depth + 1) - 1} |->
                       mem[Entry(global_depth, l[3] \div 2)]],
                  Root :> global_depth + 1)
    /\ UNCHANGED op

Fence == /\ unflushed # <<>> /\ op.phase # "subkey"
         /\ Flush
         /\ op' = IF op.phase = "done" THEN Idle ELSE op

Step == \/ UpdateValue \/ StoreValue \/ StoreSubkey \/ SplitSegment \/ DeepenSegment
        \/ DoubleDirectory \/ Fence

PowerFailure == /\ op \notin {Idle, Halted} /\ crashes < MaxCrashes
                /\ mem' \in Survivors
                /\ unflushed' = <<>>
                /\ crashes' = crashes + 1
                /\ op' = Halted

Init == /\ mem = (Root :> 0) @@ (Entry(0, 0) :> 1) @@ (Depth(1) :> 0) @@
                 [l \in {Slot(1, b, j) : b \in Buckets, j \in Slots} |-> Empty]
        /\ unflushed = <<>>
        /\ crashes = 0
        /\ op = Idle

Next == \/ \E k \in Keys, v \in Values : Put(k, v)
        \/ Step
        \/ PowerFailure

Spec == Init /\ [][Next]_ertVars /\ WF_ertVars(Step)

-----------------------------------------------------------------------------
(* What it promises.                                                       *)

\* The abstract map is what lookups answer, the request the call in progress.
Contents == [k \in Keys |-> get(k)]
Call == IF op \in {Idle, Halted}
        THEN [busy |-> FALSE]
        ELSE [busy |-> TRUE, key |-> op.key, val |-> op.val, old |-> op.old]

\* Between puts the entries that lead to a segment are the aligned block of
\* keys that agree in as many leading bits as the segment's depth: on this
\* rests that findPlace takes a slot for free only when its key is looked up
\* elsewhere (ERT_node_int.cpp:43, 163).
DepthsTellBlocks ==
    op = Idle =>
        \A i, j \in 0..2^global_depth - 1 :
            LET s == mem[Entry(global_depth, i)]
                width == 2^(global_depth - mem[Depth(s)])
            IN  (mem[Entry(global_depth, j)] = s) <=> (i \div width = j \div width)
=============================================================================
