------------------------------- MODULE WOART --------------------------------
(***************************************************************************)
(* The adaptive radix tree of src/woart/woart.cpp: WORT's path compression *)
(* with nodes of four sizes.  A child is added by writing it where no word *)
(* of the node leads, with a fence, and then the word that leads to it: the *)
(* slot array of a node of 4, the bitmap of a node of 16, a byte of the    *)
(* index of a node of 48, the child itself in a node of 256.  A full node  *)
(* is copied into one of the next size, which takes its place.             *)
(*                                                                         *)
(* A header at the wrong depth is not worked round: search and insert end  *)
(* the program there.  The capacities 4, 16, 48 and 256 are constants.     *)
(***************************************************************************)
EXTENDS RadixTree

CONSTANTS Cap4, Cap16, Cap48,  \* children of the three smaller nodes
          Exit                 \* the program ends instead of answering

TypeOf(i) == <<"type", i>>
ChildOf(i, j) == <<"child", i, j>>
SlotsOf(i) == <<"slots", i>>      \* NODE4: pairs of a digit and where its child is
BitmapOf(i) == <<"bitmap", i>>    \* NODE16: the places in use
KeyOf(i, j) == <<"key", i, j>>    \* NODE16: the digit of place j; NODE48: 1 + the place of digit j

Places(type) == CASE type = 4 -> 0..Cap4 - 1
                  [] type = 16 -> 0..Cap16 - 1
                  [] type = 48 -> 0..Cap48 - 1
                  [] type = 256 -> Entries

\* The digits of node i with the places of their children.
Digit2Place(m, i) ==
    CASE m[TypeOf(i)] = 4 -> m[SlotsOf(i)]
      [] m[TypeOf(i)] = 16 -> {<<m[KeyOf(i, j)], j>> : j \in m[BitmapOf(i)]}
      [] m[TypeOf(i)] = 48 ->
             {<<c, m[KeyOf(i, c)] - 1>> : c \in {d \in Entries : m[KeyOf(i, d)] # 0}}
      [] m[TypeOf(i)] = 256 -> {<<c, c>> : c \in {d \in Entries : m[ChildOf(i, d)] # Null}}

UsedPlaces(i) == {s[2] : s \in Digit2Place(mem, i)}
Full(i) == Cardinality(UsedPlaces(i)) = Cardinality(Places(mem[TypeOf(i)]))
\* find_next_zero_bit
FreePlace(i) == Min(Places(mem[TypeOf(i)]) \ UsedPlaces(i))

Has(i, c) == \E s \in Digit2Place(mem, i) : s[1] = c
find_child(i, c) == ChildOf(i, (CHOOSE s \in Digit2Place(mem, i) : s[1] = c)[2])

minimum(at) ==
    LET leftmost[l \in DOMAIN mem] ==
            IF IsLeaf(mem[l]) THEN mem[l][2]
            ELSE LET i == mem[l][2]
                 IN  leftmost[find_child(i, Min({s[1] : s \in Digit2Place(mem, i)}))]
    IN  leftmost[at]

woart_get(key) ==
    LET search[l \in DOMAIN mem, depth \in 0..Height] ==
            LET p == mem[l]
                path == mem[HeaderOf(p[2])]
                below == depth + path.len
                c == get_index(key, below)
                passed == check_prefix(path, key, depth) = Least(MaxPrefix, path.len)
            IN  CASE IsLeaf(p) -> IF p[2] = key THEN mem[ValueOf(key)] ELSE None
                  [] IsNode(p) /\ path.depth # depth -> Exit
                  [] IsNode(p) /\ path.depth = depth /\ passed /\ Has(p[2], c) ->
                         search[find_child(p[2], c), below + 1]
                  [] OTHER -> None
    IN  search[Root, 0]

-----------------------------------------------------------------------------
(* Nodes of the four sizes, with the children kids, a function from digits *)
(* to pairs of a place and a pointer.                                      *)

Children(i, type, kids) ==
    [l \in {ChildOf(i, j) : j \in Places(type)} |->
        IF \E c \in DOMAIN kids : kids[c][1] = l[3]
        THEN kids[CHOOSE c \in DOMAIN kids : kids[c][1] = l[3]][2]
        ELSE Null]

Node4(i, header, kids) ==
    (HeaderOf(i) :> header) @@ (TypeOf(i) :> 4) @@ Children(i, 4, kids) @@
    (SlotsOf(i) :> {<<c, kids[c][1]>> : c \in DOMAIN kids})

Node16(i, header, kids) ==
    (HeaderOf(i) :> header) @@ (TypeOf(i) :> 16) @@ Children(i, 16, kids) @@
    (BitmapOf(i) :> {kids[c][1] : c \in DOMAIN kids}) @@
    [l \in {KeyOf(i, j) : j \in Places(16)} |->
        IF \E c \in DOMAIN kids : kids[c][1] = l[3]
        THEN CHOOSE c \in DOMAIN kids : kids[c][1] = l[3] ELSE 0]

Node48(i, header, kids) ==
    (HeaderOf(i) :> header) @@ (TypeOf(i) :> 48) @@ Children(i, 48, kids) @@
    [l \in {KeyOf(i, c) : c \in Entries} |-> IF l[3] \in DOMAIN kids THEN kids[l[3]][1] + 1 ELSE 0]

Node256(i, header, kids) ==
    (HeaderOf(i) :> header) @@ (TypeOf(i) :> 256) @@
    Children(i, 256, [c \in DOMAIN kids |-> <<c, kids[c][2]>>])

NewNode4(i, header, first, second) ==
    Node4(i, header, (first[1] :> <<0, first[2]>>) @@ (second[1] :> <<1, second[2]>>))

\* The nodes and the leaves that pointers lead to.
Linked(m) ==
    LET from[l \in DOMAIN m] ==
            {m[l]} \union
            IF IsNode(m[l]) THEN UNION {from[ChildOf(m[l][2], s[2])] : s \in Digit2Place(m, m[l][2])}
                            ELSE {}
    IN  from[Root]

\* The abstract map is the leaves that pointers lead to.
Contents == [k \in Keys |-> IF Leaf(k) \in Linked(mem) THEN mem[ValueOf(k)] ELSE None]

-----------------------------------------------------------------------------
(* woart_put.                                                              *)

PrefixPassed == AtRightDepth /\ prefix_mismatch(minimum, op.ref, op.key, op.depth) >= Header.len
NextDigit == get_index(op.key, Below)

Put(k, v) == Begin(k, v, Contents[k])

SplitLeaf == SplitLeafInto(NewNode4)

SplitPrefix == SplitPrefixInto(NewNode4, minimum)

\* The header says that a prefix split was cut short: the program ends.
Quit == /\ AtNode /\ ~AtRightDepth
        /\ op' = Idle
        /\ UNCHANGED <<mem, unflushed, crashes>>

Descend == /\ PrefixPassed /\ Has(n[2], NextDigit)
           /\ At(find_child(n[2], NextDigit), Below + 1)
           /\ UNCHANGED <<mem, unflushed, crashes>>

\* add_child: there is no child for the digit.
AddTo(type) == PrefixPassed /\ ~Has(n[2], NextDigit) /\ mem[TypeOf(n[2])] = type

\* A node of 16 has the digits of its places in an array.  (Slip: it is not set.)
KeyOfPlace_Unset(j) == <<>>
KeyOfPlace(j) == IF AddTo(16) THEN KeyOf(n[2], j) :> NextDigit ELSE <<>>

\* Room in a node of 4, 16 or 48: the child first.
PlaceChild ==
    /\ \E type \in {4, 16, 48} : AddTo(type)
    /\ ~Full(n[2])
    /\ LET j == FreePlace(n[2])
       IN  StoreAfter(NewLeaf, (ChildOf(n[2], j) :> Leaf(op.key)) @@ KeyOfPlace(j))
    /\ op' = [op EXCEPT !.phase = "link"]

\* Then the word that leads to it.
LinkChild ==
    /\ op.phase = "link" /\ unflushed = <<>>
    /\ LET i == n[2]
           j == FreePlace(i)
       IN  CASE mem[TypeOf(i)] = 4 -> Store(SlotsOf(i) :> mem[SlotsOf(i)] \union {<<NextDigit, j>>})
             [] mem[TypeOf(i)] = 16 -> Store(BitmapOf(i) :> mem[BitmapOf(i)] \union {j})
             [] mem[TypeOf(i)] = 48 -> Store(KeyOf(i, NextDigit) :> j + 1)
    /\ Done

\* No room: a copy of the next size with the new child takes the node's place.
\* The copy is BiggerNode(i, header, kids) and the new child goes to a place.
Grow(BiggerNode(_, _, _), place) ==
    /\ Full(n[2])
    /\ LET kids == [c \in {s[1] : s \in Digit2Place(mem, n[2])} |->
                        <<find_child(n[2], c)[3], mem[find_child(n[2], c)]>>]
       IN  StoreAfter(NewLeaf @@ BiggerNode(FreshNode, Header, kids @@ (NextDigit :> <<place, Leaf(op.key)>>)),
                      op.ref :> Node(FreshNode))
    /\ Done

Grow4 == AddTo(4) /\ Grow(Node16, Cap4)
Grow16 == AddTo(16) /\ Grow(Node48, Cap16)
Grow48 == AddTo(48) /\ Grow(Node256, NextDigit)

AddChild256 == /\ AddTo(256)
               /\ StoreAfter(NewLeaf, ChildOf(n[2], NextDigit) :> Leaf(op.key))
               /\ Done

Step == \/ InjectLeaf \/ UpdateLeaf \/ SplitLeaf \/ Quit \/ SplitPrefix \/ Descend
        \/ PlaceChild \/ LinkChild \/ Grow4 \/ Grow16 \/ Grow48 \/ AddChild256 \/ Fence

-----------------------------------------------------------------------------
(* Power failure.                                                          *)

Owner(l) == IF l[1] \in {"root", "value"} THEN 0 ELSE l[2]

PowerFailure ==
    \E m \in Survivors :
        PowerFailsTo(Restrict(m, {l \in DOMAIN m : \/ l = Root
                                                   \/ l[1] = "value" /\ Leaf(l[2]) \in Linked(m)
                                                   \/ Owner(l) # 0 /\ Node(Owner(l)) \in Linked(m)}))

Next == \/ \E k \in Keys, v \in Values : Put(k, v)
        \/ Step
        \/ PowerFailure

Spec == Init /\ [][Next]_treeVars /\ WF_treeVars(Step)

-----------------------------------------------------------------------------
(* What it promises.                                                       *)

\* Through splits, growth and failures alike a lookup finds the leaf of its
\* key where there is one, or ends the program; without a failure it never
\* does that.  It is the slot, bitmap and index words that have to lead it to
\* the leaf, and the depths that keep it from a prefix that is not the node's
\* any more (woart.cpp:282, 507).
FindsOrExits == \A k \in Keys : \/ woart_get(k) = Contents[k]
                                \/ woart_get(k) = Exit /\ crashes > 0
=============================================================================
