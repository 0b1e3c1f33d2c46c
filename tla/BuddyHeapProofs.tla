-------------------------- MODULE BuddyHeapProofs --------------------------
(***************************************************************************)
(* Proofs about one heap of the buddy allocator, for every number of bins  *)
(* and blocks and every size of the two node pools.                        *)
(***************************************************************************)
EXTENDS BuddyHeap, ListFacts

-----------------------------------------------------------------------------
(* Sizes and addresses *)

(* MIN_BLOCK_SIZE << b: blocks of the next bin are twice as long. *)
LEMMA Doubling ==
    ASSUME NEW b \in Nat
    PROVE  BlockLen(b) \in Nat /\ BlockLen(b) > 0 /\ BlockLen(b + 1) = BlockLen(b) + BlockLen(b)
  <1> DEFINE A == SUBSET (1 .. b)
             f == [X \in A |-> X \cup {b + 1}]
             B == {f[X] : X \in A}
  <1>1. IsFiniteSet(A) /\ Cardinality(A) = BlockLen(b)
    <2>1. IsFiniteSet(1 .. b) /\ Cardinality(1 .. b) = b
      BY FS_Interval
    <2> QED BY <2>1, FS_SUBSET DEF BlockLen
  <1>2. Cardinality(SUBSET (1 .. (b + 1))) = BlockLen(b + 1)
    <2>1. IsFiniteSet(1 .. (b + 1)) /\ Cardinality(1 .. (b + 1)) = b + 1
      BY FS_Interval
    <2> QED BY <2>1, FS_SUBSET DEF BlockLen
  <1>3. b + 1 \notin 1 .. b /\ 1 .. (b + 1) = (1 .. b) \cup {b + 1}
    OBVIOUS
  <1>4. A \cap B = {} /\ A \cup B = SUBSET (1 .. (b + 1))
    <2>1. A \cap B = {}
      BY <1>3
    <2>2. ASSUME NEW Y \in SUBSET (1 .. (b + 1)) PROVE Y \in A \cup B
      <3>1. CASE b + 1 \notin Y
        BY <1>3, <3>1
      <3>2. CASE b + 1 \in Y
        <4>1. Y \ {b + 1} \in A /\ f[Y \ {b + 1}] = Y
          BY <1>3, <3>2
        <4> QED BY <4>1
      <3> QED BY <3>1, <3>2
    <2>3. A \cup B \subseteq SUBSET (1 .. (b + 1))
      BY <1>3
    <2> QED BY <2>1, <2>2, <2>3
  <1>5. f \in Bijection(A, B)
    <2>1. \A X, Y \in A : f[X] = f[Y] => X = Y
      BY <1>3
    <2>2. f \in [A -> B] /\ \A Y \in B : \E X \in A : f[X] = Y
      OBVIOUS
    <2> HIDE DEF A, B, f
    <2>3. f \in Injection(A, B)
      BY <2>1, <2>2 DEF Injection, IsInjective
    <2>4. f \in Surjection(A, B)
      BY <2>2 DEF Surjection
    <2> QED BY <2>3, <2>4 DEF Bijection
  <1> HIDE DEF A, B, f
  <1>6. IsFiniteSet(B) /\ Cardinality(B) = Cardinality(A)
    BY <1>1, <1>5, FS_Bijection DEF ExistsBijection
  <1>7. Cardinality(A \cup B) = Cardinality(A) + Cardinality(B) - Cardinality(A \cap B)
    BY <1>1, <1>6, FS_Union
  <1>8. Cardinality(A) \in Nat /\ Cardinality(A) # 0 /\ Cardinality({}) = 0
    <2>1. {} \in A
      BY DEF A
    <2> QED BY <1>1, <2>1, FS_CardinalityType, FS_EmptySet
  <1>9. BlockLen(b) \in Nat /\ BlockLen(b) # 0
    BY <1>1, <1>8
  <1>10. BlockLen(b + 1) = BlockLen(b) + BlockLen(b)
    <2>1. PICK n \in Nat : n = BlockLen(b)
      BY <1>9
    <2>2. Cardinality(A \cup B) = n + n - 0
      BY <1>1, <1>4, <1>6, <1>7, <1>8, <2>1
    <2>3. BlockLen(b + 1) = n + n - 0
      BY <1>2, <1>4, <2>2
    <2>4. n + n - 0 = n + n
      OBVIOUS
    <2> QED BY <2>1, <2>3, <2>4
  <1> QED BY <1>9, <1>10

(* The same for the bins there are. *)
LEMMA Lengths ==
    /\ Orders \in Nat /\ Orders > 0 /\ MaxBlocks \in Nat
    /\ \A b \in Bins : b \in Nat /\ BlockLen(b) \in Nat /\ BlockLen(b) > 0
    /\ \A b \in Bins : b + 1 \in Bins => BlockLen(b + 1) = BlockLen(b) + BlockLen(b)
    /\ MaxBlock \in Nat /\ MaxBlock > 0 /\ Orders - 1 \in Bins /\ MaxBlocks * MaxBlock \in Nat
  <1>1. Orders \in Nat /\ Orders > 0 /\ MaxBlocks \in Nat
    BY HeapAssumption
  <1>2. \A b \in Bins : b \in Nat
    BY <1>1 DEF Bins
  <1>3. Orders - 1 \in Bins
    BY <1>1 DEF Bins
  <1>4. MaxBlock \in Nat /\ MaxBlock > 0
    BY <1>2, <1>3, Doubling DEF MaxBlock
  <1>5. MaxBlocks * MaxBlock \in Nat
    BY <1>1, <1>4
  <1> QED BY <1>1, <1>2, <1>3, <1>4, <1>5, Doubling

(* The units of a block. *)
LEMMA Cells ==
    ASSUME NEW x \in Block
    PROVE  /\ x.map \in Mem /\ x.bin \in Bins /\ x.map \in CellsOf(x)
           /\ \A m \in Int : m \in CellsOf(x) <=> x.map <= m /\ m < x.map + BlockLen(x.bin)
           /\ CellsOf(x) \subseteq Int /\ CellsOf(x) # {}
           /\ x = [map |-> x.map, bin |-> x.bin]
  <1>1. x.map \in Mem /\ x.bin \in Bins /\ x = [map |-> x.map, bin |-> x.bin]
    BY DEF Block
  <1>2. PICK n \in Nat : n = BlockLen(x.bin) /\ n > 0
    BY <1>1, Lengths
  <1>3. x.map \in Int
    BY <1>1 DEF Mem
  <1>4. CellsOf(x) = x.map .. (x.map + n - 1)
    BY <1>2 DEF CellsOf
  <1> QED BY <1>1, <1>2, <1>3, <1>4

(* A set of blocks that covers the memory without overlapping. *)
Tiling(A) ==
    /\ UNION {CellsOf(blk) : blk \in A} = Mem
    /\ \A x, y \in A : x # y => CellsOf(x) \cap CellsOf(y) = {}

(* Blocks with the same units are the same to a tiling: two blocks of one    *)
(* that share a unit are one block.                                          *)
LEMMA SharedUnit ==
    ASSUME NEW A, Tiling(A), NEW x \in A, NEW y \in A, NEW m, m \in CellsOf(x), m \in CellsOf(y)
    PROVE  x = y
  BY DEF Tiling

(* Replacing blocks of a tiling by others with the same units. *)
LEMMA Retile ==
    ASSUME NEW A \in SUBSET Block, Tiling(A), NEW Old \in SUBSET A, NEW New \in SUBSET Block,
           UNION {CellsOf(x) : x \in New} = UNION {CellsOf(x) : x \in Old},
           \A x, y \in New : x # y => CellsOf(x) \cap CellsOf(y) = {}
    PROVE  Tiling((A \ Old) \cup New) /\ (A \ Old) \cap New = {}
  <1> DEFINE B == (A \ Old) \cup New
  <1>1. \A m : (\E x \in New : m \in CellsOf(x)) <=> (\E x \in Old : m \in CellsOf(x))
    OBVIOUS
  <1>2. ASSUME NEW x \in A \ Old, NEW y \in New, NEW m, m \in CellsOf(x), m \in CellsOf(y)
        PROVE  FALSE
    <2>1. PICK z \in Old : m \in CellsOf(z)
      BY <1>1, <1>2
    <2>2. x = z
      BY <1>2, <2>1, SharedUnit
    <2> QED BY <2>1, <2>2
  <1>3. ASSUME NEW x \in B, NEW y \in B, x # y PROVE CellsOf(x) \cap CellsOf(y) = {}
    <2> SUFFICES ASSUME NEW m, m \in CellsOf(x), m \in CellsOf(y) PROVE FALSE
      OBVIOUS
    <2>1. CASE x \in A \ Old /\ y \in A \ Old
      BY <1>3, <2>1, SharedUnit
    <2> QED BY <1>2, <1>3, <2>1
  <1>4. UNION {CellsOf(x) : x \in B} = Mem
    <2>1. ASSUME NEW m PROVE (\E x \in B : m \in CellsOf(x)) <=> (\E x \in A : m \in CellsOf(x))
      BY <1>1
    <2>2. UNION {CellsOf(x) : x \in B} = UNION {CellsOf(x) : x \in A}
      BY <2>1
    <2> QED BY <2>2 DEF Tiling
  <1>5. (A \ Old) \cap New = {}
    <2>1. \A y \in New : y.map \in CellsOf(y)
      BY Cells
    <2> QED BY <1>2, <2>1
  <1> QED BY <1>3, <1>4, <1>5 DEF Tiling
(* Two blocks of one bin, one behind the other, and the block of the next    *)
(* bin at the address of the first.                                          *)
LEMMA Halves ==
    ASSUME NEW b \in Bins, b + 1 \in Bins, NEW a \in Nat,
           NEW lo, lo = [map |-> a, bin |-> b],
           NEW up, up = [map |-> a + BlockLen(b), bin |-> b],
           NEW whole, whole = [map |-> a, bin |-> b + 1]
    PROVE  /\ CellsOf(lo) \cup CellsOf(up) = CellsOf(whole)
           /\ CellsOf(lo) \cap CellsOf(up) = {} /\ lo # up
           /\ a + BlockLen(b) \in CellsOf(whole) /\ a + BlockLen(b) \in Nat
  <1>1. PICK n \in Nat : n = BlockLen(b) /\ n > 0 /\ BlockLen(b + 1) = n + n
    BY Lengths
  <1>2. /\ CellsOf(lo) = a .. (a + n - 1) /\ CellsOf(up) = (a + n) .. ((a + n) + n - 1)
        /\ CellsOf(whole) = a .. (a + (n + n) - 1)
    BY <1>1 DEF CellsOf
  <1>3. lo.map # up.map
    BY <1>1
  <1>4. /\ (a .. (a + n - 1)) \cup ((a + n) .. ((a + n) + n - 1)) = a .. (a + (n + n) - 1)
        /\ (a .. (a + n - 1)) \cap ((a + n) .. ((a + n) + n - 1)) = {}
        /\ a + n \in a .. (a + (n + n) - 1)
    BY <1>1
  <1> QED BY <1>1, <1>2, <1>3, <1>4

(* buddy_get_block cuts a block in two. *)
LEMMA SplitTiling ==
    ASSUME NEW A \in SUBSET Block, Tiling(A), NEW h \in A, h.bin > 0,
           NEW lo, lo = [map |-> h.map, bin |-> h.bin - 1],
           NEW up, up = [map |-> h.map + BlockLen(h.bin - 1), bin |-> h.bin - 1]
    PROVE  /\ Tiling((A \ {h}) \cup {lo, up}) /\ lo \in Block /\ up \in Block /\ lo # up
           /\ lo \notin A /\ up \notin A
  <1>1. h.map \in Mem /\ h.bin \in Bins /\ h = [map |-> h.map, bin |-> h.bin]
    BY Cells
  <1>2. PICK b \in Bins : h.bin = b + 1 /\ h.bin - 1 = b /\ b + 1 \in Bins
    <2>1. h.bin - 1 \in Bins /\ (h.bin - 1) + 1 = h.bin
      BY <1>1, Lengths DEF Bins
    <2> QED BY <1>1, <2>1
  <1>3. h.map \in Nat
    BY <1>1 DEF Mem
  <1>4. lo = [map |-> h.map, bin |-> b] /\ up = [map |-> h.map + BlockLen(b), bin |-> b]
    BY <1>2
  <1>5. h = [map |-> h.map, bin |-> b + 1]
    BY <1>1, <1>2
  <1>6. /\ CellsOf(lo) \cup CellsOf(up) = CellsOf(h)
        /\ CellsOf(lo) \cap CellsOf(up) = {} /\ lo # up
        /\ h.map + BlockLen(b) \in CellsOf(h)
    BY <1>2, <1>3, <1>4, <1>5, Halves
  <1>7. h.map + BlockLen(b) \in Mem
    BY <1>6 DEF Tiling
  <1>8. lo \in Block /\ up \in Block
    BY <1>1, <1>2, <1>4, <1>7 DEF Block
  <1>9. UNION {CellsOf(x) : x \in {lo, up}} = UNION {CellsOf(x) : x \in {h}}
    BY <1>6
  <1>10. \A x, y \in {lo, up} : x # y => CellsOf(x) \cap CellsOf(y) = {}
    BY <1>6
  <1>11. Tiling((A \ {h}) \cup {lo, up}) /\ (A \ {h}) \cap {lo, up} = {}
    <2> DEFINE Old == {h}
               New == {lo, up}
    <2>1. /\ Old \in SUBSET A /\ New \in SUBSET Block
          /\ UNION {CellsOf(x) : x \in New} = UNION {CellsOf(x) : x \in Old}
          /\ \A x, y \in New : x # y => CellsOf(x) \cap CellsOf(y) = {}
      BY <1>8, <1>9, <1>10
    <2> HIDE DEF Old, New
    <2>2. Tiling((A \ Old) \cup New) /\ (A \ Old) \cap New = {}
      BY <2>1, Retile
    <2> QED BY <2>2 DEF Old, New
  <1>12. h # lo /\ h # up
    <2>1. lo.bin = b /\ up.bin = b /\ b # b + 1
      BY <1>4, Lengths
    <2> QED BY <1>2, <2>1
  <1> QED BY <1>6, <1>8, <1>11, <1>12

(* coalesce_buddies puts two neighbours together, buddies or not. *)
LEMMA MergeTiling ==
    ASSUME NEW A \in SUBSET Block, Tiling(A), NEW lo \in A, NEW up \in A,
           up.bin = lo.bin, up.map = lo.map + BlockLen(lo.bin), lo.bin < Orders - 1,
           NEW h, h = [map |-> lo.map, bin |-> lo.bin + 1]
    PROVE  /\ Tiling((A \ {lo, up}) \cup {h}) /\ h \in Block /\ h \notin A /\ lo # up
  <1>1. /\ lo.map \in Mem /\ lo.bin \in Bins /\ lo = [map |-> lo.map, bin |-> lo.bin]
        /\ up = [map |-> up.map, bin |-> up.bin]
    BY Cells
  <1>2. PICK b \in Bins : lo.bin = b /\ b + 1 \in Bins
    BY <1>1, Lengths DEF Bins
  <1>3. lo.map \in Nat
    BY <1>1 DEF Mem
  <1>4. /\ lo = [map |-> lo.map, bin |-> b] /\ up = [map |-> lo.map + BlockLen(b), bin |-> b]
        /\ h = [map |-> lo.map, bin |-> b + 1]
    BY <1>1, <1>2
  <1>6. /\ CellsOf(lo) \cup CellsOf(up) = CellsOf(h)
        /\ CellsOf(lo) \cap CellsOf(up) = {} /\ lo # up
    BY <1>2, <1>3, <1>4, Halves
  <1>8. h \in Block
    BY <1>1, <1>2, <1>4 DEF Block
  <1>9. UNION {CellsOf(x) : x \in {h}} = UNION {CellsOf(x) : x \in {lo, up}}
    BY <1>6
  <1>11. Tiling((A \ {lo, up}) \cup {h}) /\ (A \ {lo, up}) \cap {h} = {}
    <2> DEFINE Old == {lo, up}
               New == {h}
    <2>1. /\ Old \in SUBSET A /\ New \in SUBSET Block
          /\ UNION {CellsOf(x) : x \in New} = UNION {CellsOf(x) : x \in Old}
          /\ \A x, y \in New : x # y => CellsOf(x) \cap CellsOf(y) = {}
      BY <1>8, <1>9
    <2> HIDE DEF Old, New
    <2>2. Tiling((A \ Old) \cup New) /\ (A \ Old) \cap New = {}
      BY <2>1, Retile
    <2> QED BY <2>2 DEF Old, New
  <1>12. h # lo /\ h # up
    <2>1. lo.bin = b /\ up.bin = b /\ h.bin = b + 1 /\ b # b + 1
      BY <1>2, <1>4, Lengths
    <2> QED BY <2>1
  <1> QED BY <1>6, <1>8, <1>11, <1>12

-----------------------------------------------------------------------------
(* The bins *)

(* The free blocks that lists bs describe. *)
FreeOf(bs) == {blk \in Block : blk.map \in Range(bs[blk.bin])}

(* Lists of addresses, none of which is listed twice in a bin. *)
Lists(bs) == bs \in [Bins -> Seq(Mem)] /\ \A b \in Bins : IsInjective(bs[b])

(* One list gets an address more: the heap has a free block more. *)
LEMMA OneMore ==
    ASSUME NEW bs, Lists(bs), NEW blk \in Block, NEW q \in Seq(Mem), IsInjective(q),
           Range(q) = Range(bs[blk.bin]) \cup {blk.map}
    PROVE  /\ Lists([bs EXCEPT ![blk.bin] = q])
           /\ FreeOf([bs EXCEPT ![blk.bin] = q]) = FreeOf(bs) \cup {blk}
  <1> DEFINE bt == [bs EXCEPT ![blk.bin] = q]
  <1>0. PICK m \in Mem, b \in Bins : m = blk.map /\ b = blk.bin
    BY Cells
  <1>1. /\ bt \in [Bins -> Seq(Mem)] /\ bt[b] = q
        /\ \A c \in Bins \ {b} : bt[c] = bs[c]
    BY <1>0 DEF Lists
  <1> HIDE DEF bt
  <1>2. Lists(bt)
    BY <1>1 DEF Lists
  <1>3. \A x \in Block : x.bin \in Bins /\ (x.bin = b /\ x.map = m <=> x = blk)
    BY <1>0 DEF Block
  <1>4. ASSUME NEW x \in Block PROVE x \in FreeOf(bt) <=> x \in FreeOf(bs) \/ x = blk
    <2>1. Range(q) = Range(bs[b]) \cup {m}
      BY <1>0
    <2>2. CASE x.bin = b
      BY <1>1, <1>3, <2>1, <2>2 DEF FreeOf
    <2>3. CASE x.bin # b
      BY <1>1, <1>3, <2>3 DEF FreeOf
    <2> QED BY <2>2, <2>3
  <1>5. FreeOf(bt) = FreeOf(bs) \cup {blk}
    BY <1>4 DEF FreeOf
  <1> QED BY <1>2, <1>5 DEF bt

(* One list gets an address less: the heap has a free block less. *)
LEMMA OneLess ==
    ASSUME NEW bs, Lists(bs), NEW blk \in Block, NEW q \in Seq(Mem), IsInjective(q),
           Range(q) = Range(bs[blk.bin]) \ {blk.map}
    PROVE  /\ Lists([bs EXCEPT ![blk.bin] = q])
           /\ FreeOf([bs EXCEPT ![blk.bin] = q]) = FreeOf(bs) \ {blk}
  <1> DEFINE bt == [bs EXCEPT ![blk.bin] = q]
  <1>0. PICK m \in Mem, b \in Bins : m = blk.map /\ b = blk.bin
    BY Cells
  <1>1. /\ bt \in [Bins -> Seq(Mem)] /\ bt[b] = q
        /\ \A c \in Bins \ {b} : bt[c] = bs[c]
    BY <1>0 DEF Lists
  <1> HIDE DEF bt
  <1>2. Lists(bt)
    BY <1>1 DEF Lists
  <1>3. \A x \in Block : x.bin \in Bins /\ (x.bin = b /\ x.map = m <=> x = blk)
    BY <1>0 DEF Block
  <1>4. ASSUME NEW x \in Block PROVE x \in FreeOf(bt) <=> x \in FreeOf(bs) /\ x # blk
    <2>1. Range(q) = Range(bs[b]) \ {m}
      BY <1>0
    <2>2. CASE x.bin = b
      BY <1>1, <1>3, <2>1, <2>2 DEF FreeOf
    <2>3. CASE x.bin # b
      BY <1>1, <1>3, <2>3 DEF FreeOf
    <2> QED BY <2>2, <2>3
  <1>5. FreeOf(bt) = FreeOf(bs) \ {blk}
    BY <1>4 DEF FreeOf
  <1> QED BY <1>2, <1>5 DEF bt

(* add_free_area_to_bin adds one block, wherever it is put. *)
LEMMA FreeAdded ==
    ASSUME NEW bs, Lists(bs), NEW blk \in Block, blk \notin FreeOf(bs), NEW bt,
           bt = [bs EXCEPT ![blk.bin] = add_free_area_to_bin(bs[blk.bin], blk.map)]
    PROVE  Lists(bt) /\ FreeOf(bt) = FreeOf(bs) \cup {blk}
  <1> DEFINE list == bs[blk.bin]
             higher == {i \in DOMAIN list : list[i] > blk.map}
             k == IF higher = {} THEN Len(list) + 1 ELSE Min(higher) + 1
             q == InsertAt(list, k, blk.map)
  <1>1. blk.map \in Mem /\ blk.bin \in Bins /\ blk = [map |-> blk.map, bin |-> blk.bin]
    BY Cells
  <1>2. list \in Seq(Mem) /\ IsInjective(list)
    BY <1>1 DEF Lists
  <1>3. Len(list) \in Nat /\ DOMAIN list = 1 .. Len(list)
    BY <1>2, LenProperties
  <1>4. blk.map \notin Range(list)
    BY <1>1 DEF FreeOf
  <1>5. k \in 1 .. (Len(list) + 1)
    <2>1. higher # {} => Min(higher) \in 1 .. Len(list)
      BY <1>3, LeastPosition
    <2> HIDE DEF higher, list
    <2>2. PICK n \in Nat : Len(list) = n
      BY <1>3
    <2>3. CASE higher = {}
      BY <2>2, <2>3
    <2>4. CASE higher # {}
      <3>1. Min(higher) \in 1 .. n
        BY <2>1, <2>2, <2>4
      <3>2. \A i \in 1 .. n : i + 1 \in 1 .. (n + 1)
        OBVIOUS
      <3> QED BY <2>2, <2>4, <3>1, <3>2
    <2> QED BY <2>3, <2>4
  <1>6. q = add_free_area_to_bin(bs[blk.bin], blk.map)
    BY DEF add_free_area_to_bin
  <1> HIDE DEF k, q, higher
  <1>7. q \in Seq(Mem) /\ IsInjective(q) /\ Range(q) = Range(list) \cup {blk.map}
    BY <1>1, <1>2, <1>4, <1>5, ListInsert DEF q
  <1>8. bt = [bs EXCEPT ![blk.bin] = q]
    BY <1>6
  <1>9. q \in Seq(Mem) /\ IsInjective(q) /\ Range(q) = Range(bs[blk.bin]) \cup {blk.map}
    BY <1>7
  <1> HIDE DEF list
  <1>10. PICK p \in Seq(Mem) : p = q
    BY <1>9
  <1>11. /\ Lists([bs EXCEPT ![blk.bin] = p])
         /\ FreeOf([bs EXCEPT ![blk.bin] = p]) = FreeOf(bs) \cup {blk}
    BY <1>9, <1>10, OneMore
  <1> QED BY <1>8, <1>10, <1>11

(* list_del of two neighbours, and the merged block in the next bin. *)
LEMMA FreeMerged ==
    ASSUME NEW bs, Lists(bs), NEW b \in Bins, b + 1 \in Bins,
           NEW i \in 1 .. (Len(bs[b]) - 1),
           NEW lo \in Block, lo.bin = b, lo.map = bs[b][i],
           NEW up \in Block, up.bin = b, up.map = bs[b][i + 1],
           NEW h \in Block, h.bin = b + 1, h.map = lo.map, h \notin FreeOf(bs)
    PROVE  \E bt :
             /\ bt = [bs EXCEPT ![b] = RemoveAt(RemoveAt(bs[b], i + 1), i),
                                ![b + 1] = add_free_area_to_bin(@, bs[b][i])]
             /\ Lists(bt) /\ FreeOf(bt) = (FreeOf(bs) \ {lo, up}) \cup {h}
  <1>0. PICK bt : bt = [bs EXCEPT ![b] = RemoveAt(RemoveAt(bs[b], i + 1), i),
                                  ![b + 1] = add_free_area_to_bin(@, bs[b][i])]
    OBVIOUS
  <1>1. PICK list \in Seq(Mem) : list = bs[b] /\ IsInjective(list)
    BY DEF Lists
  <1>2. PICK n \in Nat : Len(list) = n /\ DOMAIN list = 1 .. n
    BY LenProperties
  <1>3. i \in 1 .. (n - 1) /\ i \in 1 .. n /\ i + 1 \in 1 .. n /\ i < i + 1
    BY <1>1, <1>2
  <1>5. PICK p \in Seq(Mem) :
          /\ p = RemoveAt(list, i + 1) /\ IsInjective(p) /\ Len(p) = n - 1
          /\ p[i] = list[i] /\ Range(p) = Range(list) \ {list[i + 1]}
    <2>1. PICK j \in 1 .. Len(list) : j = i + 1
      BY <1>2, <1>3
    <2>2. /\ RemoveAt(list, j) \in Seq(Mem) /\ Len(RemoveAt(list, j)) = Len(list) - 1
          /\ \A k \in 1 .. Len(list) - 1 : k < j => RemoveAt(list, j)[k] = list[k]
          /\ Range(RemoveAt(list, j)) = Range(list) \ {list[j]} /\ IsInjective(RemoveAt(list, j))
      BY ONLY list \in Seq(Mem), j \in 1 .. Len(list), <1>1, ListRemove
    <2>3. RemoveAt(list, j)[i] = list[i]
      BY <1>2, <1>3, <2>1, <2>2
    <2> QED BY <1>2, <2>1, <2>2, <2>3
  <1>6. PICK q \in Seq(Mem) :
          q = RemoveAt(p, i) /\ IsInjective(q) /\ Range(q) = Range(p) \ {p[i]}
    <2>1. PICK k \in 1 .. Len(p) : k = i
      BY <1>3, <1>5
    <2>3. IsInjective(p)
      BY <1>5
    <2>2. /\ RemoveAt(p, k) \in Seq(Mem) /\ IsInjective(RemoveAt(p, k))
          /\ Range(RemoveAt(p, k)) = Range(p) \ {p[k]}
      BY ONLY p \in Seq(Mem), k \in 1 .. Len(p), <2>3, ListRemove
    <2> QED BY <2>1, <2>2
  <1> DEFINE b1 == [bs EXCEPT ![b] = p]
             b2 == [b1 EXCEPT ![b] = q]
  <1>7. Lists(b1) /\ FreeOf(b1) = FreeOf(bs) \ {up}
    <2>1. Range(p) = Range(bs[up.bin]) \ {up.map}
      BY <1>1, <1>5
    <2>2. b1 = [bs EXCEPT ![up.bin] = p]
      OBVIOUS
    <2>3. /\ Lists([bs EXCEPT ![up.bin] = p])
          /\ FreeOf([bs EXCEPT ![up.bin] = p]) = FreeOf(bs) \ {up}
      BY <1>5, <2>1, OneLess
    <2> QED BY <2>2, <2>3
  <1>8. b1[b] = p /\ b2 = [bs EXCEPT ![b] = q]
    BY DEF Lists
  <1> HIDE DEF b1
  <1>9. Lists(b2) /\ FreeOf(b2) = FreeOf(b1) \ {lo}
    <2>1. Range(q) = Range(b1[lo.bin]) \ {lo.map}
      BY <1>1, <1>5, <1>6, <1>8
    <2>2. b2 = [b1 EXCEPT ![lo.bin] = q]
      OBVIOUS
    <2>3. /\ Lists([b1 EXCEPT ![lo.bin] = q])
          /\ FreeOf([b1 EXCEPT ![lo.bin] = q]) = FreeOf(b1) \ {lo}
      BY <1>6, <1>7, <2>1, OneLess
    <2> QED BY <2>2, <2>3
  <1> HIDE DEF b2
  <1>10. FreeOf(b2) = FreeOf(bs) \ {lo, up}
    BY <1>7, <1>9
  <1>11. bt = [b2 EXCEPT ![h.bin] = add_free_area_to_bin(b2[h.bin], h.map)]
    <2>1. b # b + 1
      BY Lengths
    <2>2. b2[b + 1] = bs[b + 1]
      BY <1>8, <2>1 DEF Lists
    <2>3. RemoveAt(RemoveAt(bs[b], i + 1), i) = q /\ h.map = bs[b][i]
      BY <1>1, <1>5, <1>6
    <2>4. bt = [[bs EXCEPT ![b] = q] EXCEPT ![b + 1] = add_free_area_to_bin(bs[b + 1], h.map)]
      BY <1>0, <2>1, <2>3 DEF Lists
    <2> QED BY <1>8, <2>2, <2>4
  <1>12. h \notin FreeOf(b2)
    BY <1>10
  <1>13. Lists(bt) /\ FreeOf(bt) = FreeOf(b2) \cup {h}
    BY <1>9, <1>11, <1>12, FreeAdded
  <1> QED BY <1>0, <1>10, <1>13

-----------------------------------------------------------------------------
(* Every unit in one block, every block in one place *)

(* The free, allocated, forgotten and held blocks share the memory out. *)
Parts(F, A, L, H) ==
    /\ Tiling(F \cup A \cup L \cup H)
    /\ F \cap A = {} /\ F \cap L = {} /\ A \cap L = {}
    /\ H \cap (F \cup A \cup L) = {}

(* A block that moves from one place to another. *)
LEMMA Moved ==
    ASSUME NEW F, NEW A, NEW L, NEW H, Parts(F, A, L, H)
    PROVE  /\ \A h \in F : H = {} => Parts(F \ {h}, A, L, {h})
           /\ \A h : H = {h} => Parts(F, A \cup {h}, L, {}) /\ Parts(F, A, L \cup {h}, {})
           /\ \A h \in A : H = {} =>
                Parts(F \cup {h}, A \ {h}, L, {}) /\ Parts(F, A \ {h}, L \cup {h}, {})
  <1> DEFINE all == F \cup A \cup L \cup H
  <1>1. Tiling(all) /\ F \cap A = {} /\ F \cap L = {} /\ A \cap L = {} /\ H \cap (F \cup A \cup L) = {}
    BY DEF Parts
  <1>2. ASSUME NEW h \in F, H = {} PROVE Parts(F \ {h}, A, L, {h})
    <2>1. (F \ {h}) \cup A \cup L \cup {h} = all
      BY <1>2
    <2> HIDE DEF all
    <2> QED BY <1>1, <2>1 DEF Parts
  <1>3. ASSUME NEW h, H = {h} PROVE Parts(F, A \cup {h}, L, {}) /\ Parts(F, A, L \cup {h}, {})
    <2>1. F \cup (A \cup {h}) \cup L \cup {} = all /\ F \cup A \cup (L \cup {h}) \cup {} = all
      BY <1>3
    <2> HIDE DEF all
    <2> QED BY <1>1, <1>3, <2>1 DEF Parts
  <1>4. ASSUME NEW h \in A, H = {}
        PROVE  Parts(F \cup {h}, A \ {h}, L, {}) /\ Parts(F, A \ {h}, L \cup {h}, {})
    <2>1. /\ (F \cup {h}) \cup (A \ {h}) \cup L \cup {} = all
          /\ F \cup (A \ {h}) \cup (L \cup {h}) \cup {} = all
      BY <1>4
    <2> HIDE DEF all
    <2> QED BY <1>1, <2>1 DEF Parts
  <1> QED BY <1>2, <1>3, <1>4

(* The block in hand is cut: the lower half is free, the upper in hand. *)
LEMMA PartsSplit ==
    ASSUME NEW F \in SUBSET Block, NEW A \in SUBSET Block, NEW L \in SUBSET Block,
           NEW h \in Block, Parts(F, A, L, {h}), h.bin > 0
    PROVE  \E lo, up \in Block :
             /\ lo = [map |-> h.map, bin |-> h.bin - 1]
             /\ up = [map |-> h.map + BlockLen(h.bin - 1), bin |-> h.bin - 1]
             /\ Parts(F \cup {lo}, A, L, {up}) /\ lo \notin F
  <1> DEFINE all == F \cup A \cup L \cup {h}
  <1>1. /\ Tiling(all) /\ F \cap A = {} /\ F \cap L = {} /\ A \cap L = {}
        /\ h \notin F \cup A \cup L
    BY DEF Parts
  <1>2. all \in SUBSET Block /\ h \in all /\ F \cup A \cup L \subseteq all
    OBVIOUS
  <1>3. all \ {h} = F \cup A \cup L
    BY <1>1
  <1> HIDE DEF all
  <1>0. PICK lo, up :
          /\ lo = [map |-> h.map, bin |-> h.bin - 1]
          /\ up = [map |-> h.map + BlockLen(h.bin - 1), bin |-> h.bin - 1]
    OBVIOUS
  <1>4. /\ Tiling((all \ {h}) \cup {lo, up}) /\ lo \in Block /\ up \in Block /\ lo # up
        /\ lo \notin all /\ up \notin all
    BY <1>0, <1>1, <1>2, SplitTiling
  <1>5. (F \cup {lo}) \cup A \cup L \cup {up} = (all \ {h}) \cup {lo, up}
    BY <1>3
  <1>6. Parts(F \cup {lo}, A, L, {up}) /\ lo \notin F
    BY <1>1, <1>2, <1>4, <1>5 DEF Parts
  <1> QED BY <1>0, <1>4, <1>6

(* Two free neighbours become one free block. *)
LEMMA PartsMerge ==
    ASSUME NEW F \in SUBSET Block, NEW A \in SUBSET Block, NEW L \in SUBSET Block,
           Parts(F, A, L, {}), NEW lo \in F, NEW up \in F,
           up.bin = lo.bin, up.map = lo.map + BlockLen(lo.bin), lo.bin < Orders - 1
    PROVE  \E h \in Block :
             /\ h = [map |-> lo.map, bin |-> lo.bin + 1]
             /\ Parts((F \ {lo, up}) \cup {h}, A, L, {}) /\ h \notin F /\ lo # up
  <1> DEFINE all == F \cup A \cup L
  <1>1. /\ Tiling(all) /\ F \cap A = {} /\ F \cap L = {} /\ A \cap L = {}
    <2>1. F \cup A \cup L \cup {} = all
      OBVIOUS
    <2> QED BY <2>1 DEF Parts
  <1>2. all \in SUBSET Block /\ lo \in all /\ up \in all /\ F \cup A \cup L \subseteq all
    OBVIOUS
  <1>3. all \ {lo, up} = (F \ {lo, up}) \cup A \cup L
    BY <1>1
  <1> HIDE DEF all
  <1>0. PICK h : h = [map |-> lo.map, bin |-> lo.bin + 1]
    OBVIOUS
  <1>4. /\ Tiling((all \ {lo, up}) \cup {h}) /\ h \in Block /\ h \notin all /\ lo # up
    BY <1>0, <1>1, <1>2, MergeTiling
  <1>5. ((F \ {lo, up}) \cup {h}) \cup A \cup L \cup {} = (all \ {lo, up}) \cup {h}
    BY <1>3
  <1>6. Parts((F \ {lo, up}) \cup {h}, A, L, {}) /\ h \notin F
    BY <1>1, <1>2, <1>4, <1>5 DEF Parts
  <1> QED BY <1>0, <1>4, <1>6
-----------------------------------------------------------------------------
(* The inductive invariant *)

(* What the step of a call under way relies on. *)
InCall ==
    /\ pc = "split" => hand \in Block /\ want \in Bins /\ want <= hand.bin
    /\ pc \in {"merge", "freed"} => hand \in current
    /\ pc = "merge" => want \in Bins

(* num_blocks_alloc counts the allocated blocks, but for the stray frees,    *)
(* and a heap nobody owns has none and is not in use.                        *)
BlocksCounted ==
    /\ blocks + strays = Cardinality(current)
    /\ owner = NoOwner => blocks = 0 /\ pc = "idle"

(* The inductive invariant of a heap, at every step of a call. *)
HeapInv == TypeOK /\ Tiled /\ NodesAccounted /\ InCall /\ BlocksCounted

(* There are finitely many blocks, and finitely many ways to forget one. *)
LEMMA FiniteBlocks ==
    /\ IsFiniteSet(Block)
    /\ IsFiniteSet([map : Mem, bin : Bins, node : BOOLEAN])
  <1>1. IsFiniteSet(Mem) /\ IsFiniteSet(Bins)
    BY FS_Interval, Lengths DEF Mem, Bins
  <1>2. IsFiniteSet(Mem \X Bins)
    BY <1>1, FS_Product
  <1>3. IsFiniteSet(Block)
    <2> DEFINE f == [p \in Mem \X Bins |-> [map |-> p[1], bin |-> p[2]]]
    <2>1. f \in [Mem \X Bins -> Block]
      BY DEF Block
    <2>2. ASSUME NEW x \in Block PROVE \E p \in Mem \X Bins : f[p] = x
      <3>1. x.map \in Mem /\ x.bin \in Bins /\ x = [map |-> x.map, bin |-> x.bin]
        BY Cells
      <3>2. <<x.map, x.bin>> \in Mem \X Bins /\ f[<<x.map, x.bin>>] = x
        BY <3>1
      <3> QED BY <3>2
    <2> HIDE DEF f
    <2>3. f \in Surjection(Mem \X Bins, Block)
      BY <2>1, <2>2 DEF Surjection
    <2> QED BY <1>2, <2>3, FS_Surjection
  <1>4. IsFiniteSet(BOOLEAN)
    <2>1. IsFiniteSet({TRUE}) /\ IsFiniteSet({FALSE})
      BY FS_Singleton
    <2>2. BOOLEAN = {TRUE} \cup {FALSE}
      OBVIOUS
    <2> QED BY <2>1, <2>2, FS_Union
  <1>5. IsFiniteSet(Block \X BOOLEAN)
    BY <1>3, <1>4, FS_Product
  <1>6. IsFiniteSet([map : Mem, bin : Bins, node : BOOLEAN])
    <2> DEFINE R == [map : Mem, bin : Bins, node : BOOLEAN]
               f == [p \in Block \X BOOLEAN |->
                        [map |-> p[1].map, bin |-> p[1].bin, node |-> p[2]]]
    <2>1. f \in [Block \X BOOLEAN -> R]
      BY DEF Block
    <2>2. ASSUME NEW x \in R PROVE \E p \in Block \X BOOLEAN : f[p] = x
      <3>1. /\ x.map \in Mem /\ x.bin \in Bins /\ x.node \in BOOLEAN
            /\ x = [map |-> x.map, bin |-> x.bin, node |-> x.node]
        OBVIOUS
      <3> DEFINE y == [map |-> x.map, bin |-> x.bin]
      <3>2. y \in Block /\ y.map = x.map /\ y.bin = x.bin
        BY <3>1 DEF Block
      <3> HIDE DEF y
      <3>3. <<y, x.node>> \in Block \X BOOLEAN
        BY <3>1, <3>2
      <3>4. f[<<y, x.node>>] = [map |-> y.map, bin |-> y.bin, node |-> x.node]
        BY <3>3
      <3> QED BY <3>1, <3>2, <3>3, <3>4
    <2> HIDE DEF f, R
    <2>3. f \in Surjection(Block \X BOOLEAN, R)
      BY <2>1, <2>2 DEF Surjection
    <2> QED BY <1>5, <2>3, FS_Surjection DEF R
  <1> QED BY <1>3, <1>6

(* The parts of the heap in a state of the invariant: sets of blocks that    *)
(* can be counted.                                                           *)
LEMMA Countable ==
    ASSUME TypeOK, InCall
    PROVE  /\ FreeBlocks \subseteq Block /\ Allocated \subseteq Block /\ LostBlocks \subseteq Block
           /\ IsFiniteSet(FreeBlocks) /\ IsFiniteSet(current) /\ IsFiniteSet({l \in lost : l.node})
           /\ Cardinality(FreeBlocks) \in Nat /\ Cardinality(current) \in Nat
           /\ Cardinality({l \in lost : l.node}) \in Nat
           /\ FreeBlocks = FreeOf(bins)
  <1>1. FreeBlocks \subseteq Block /\ Allocated \subseteq Block /\ FreeBlocks = FreeOf(bins)
    BY DEF FreeBlocks, FreeOf, Allocated, TypeOK
  <1>2. LostBlocks \subseteq Block
    BY DEF LostBlocks, TypeOK, Block
  <1>3. IsFiniteSet(FreeBlocks) /\ IsFiniteSet(current)
    <2>1. current \subseteq Block
      BY DEF TypeOK
    <2> QED BY <1>1, <2>1, FiniteBlocks, FS_Subset
  <1>4. IsFiniteSet({l \in lost : l.node})
    <2>1. {l \in lost : l.node} \in SUBSET [map : Mem, bin : Bins, node : BOOLEAN]
      BY DEF TypeOK
    <2> QED BY <2>1, FiniteBlocks, FS_Subset
  <1> QED BY <1>1, <1>2, <1>3, <1>4, FS_CardinalityType
(* Multiples of a block size do not overlap. *)
LEMMA Multiples ==
    ASSUME NEW n \in Nat, NEW i \in Nat, NEW j \in Nat, i < j
    PROVE  i * n + n <= j * n
  <1>1. PICK d \in Nat : j = i + 1 + d
    <2>1. j - i - 1 \in Nat /\ j = i + 1 + (j - i - 1)
      OBVIOUS
    <2> QED BY <2>1
  <1>2. j * n = i * n + n + d * n
    BY <1>1
  <1>3. d * n \in Nat /\ i * n \in Nat
    OBVIOUS
  <1> QED BY <1>2, <1>3

(* The block of size n that unit m is in. *)
LEMMA Quotient ==
    ASSUME NEW m \in Nat, NEW n \in Nat, n > 0
    PROVE  m \div n \in Nat /\ (m \div n) * n <= m /\ m < (m \div n) * n + n
  <1>1. m \div n \in Int /\ (m \div n) * n <= m
    OBVIOUS
  <1>2. m < (m \div n) * n + n
    OBVIOUS
  <1>3. m \div n >= 0
    OBVIOUS
  <1> QED BY <1>1, <1>2, <1>3

(* buddy_init leaves the memory in blocks of MAX_BLOCK_SIZE, all free. *)
LEMMA InitInv == Init => HeapInv
  <1> SUFFICES ASSUME Init PROVE HeapInv
    OBVIOUS
  <1>1. PICK n \in Nat, k \in Nat, top \in Bins :
          n = MaxBlock /\ n > 0 /\ k = MaxBlocks /\ top = Orders - 1
          /\ n = BlockLen(top) /\ k * n \in Nat /\ Mem = 0 .. (k * n - 1)
    <2>1. MaxBlock = BlockLen(Orders - 1) /\ Mem = 0 .. (MaxBlocks * MaxBlock - 1)
      BY DEF MaxBlock, Mem
    <2> QED BY <2>1, Lengths
  <1> DEFINE At(i) == (i - 1) * n
             list == [i \in 1 .. k |-> At(i)]
             blk(i) == [map |-> At(i), bin |-> top]
  <1>2. \A i, j \in 1 .. k : i < j => At(i) + n <= At(j)
    <2>1. ASSUME NEW i \in 1 .. k, NEW j \in 1 .. k, i < j PROVE At(i) + n <= At(j)
      <3>1. i - 1 \in Nat /\ j - 1 \in Nat /\ i - 1 < j - 1
        BY <2>1
      <3> QED BY <3>1, Multiples
    <2> QED BY <2>1
  <1>3. \A i \in 1 .. k : At(i) \in Nat /\ At(i) + n <= k * n
    <2>1. ASSUME NEW i \in 1 .. k PROVE At(i) \in Nat /\ At(i) + n <= k * n
      <3>1. i - 1 \in Nat /\ i - 1 < k
        OBVIOUS
      <3> QED BY <3>1, Multiples
    <2> QED BY <2>1
  <1>4. ASSUME NEW m \in Mem PROVE \E i \in 1 .. k : At(i) <= m /\ m < At(i) + n
    <2>1. m \in Nat /\ m < k * n
      BY <1>1
    <2>2. PICK q \in Nat : q * n <= m /\ m < q * n + n
      <3>1. /\ m \div n \in Nat /\ (m \div n) * n <= m
            /\ m < (m \div n) * n + n
        BY <1>1, <2>1, Quotient
      <3> QED BY <3>1
    <2>3. q < k
      <3> SUFFICES ASSUME k <= q PROVE FALSE
        BY <2>2
      <3>1. k * n <= q * n
        <4>1. CASE k = q
          BY <4>1
        <4>2. CASE k < q
          BY <1>1, <4>2, Multiples
        <4> QED BY <4>1, <4>2
      <3> QED BY <1>1, <2>1, <2>2, <3>1
    <2>4. q + 1 \in 1 .. k /\ (q + 1) - 1 = q
      BY <2>3
    <2>5. At(q + 1) = q * n
      BY <2>4
    <2> QED BY <2>2, <2>4, <2>5
  <1> HIDE DEF At
  <1>5. \A i \in 1 .. k : At(i) \in Mem
    BY <1>1, <1>3
  <1>6. \A i, j \in 1 .. k : At(i) = At(j) => i = j
    <2>1. \A i, j \in 1 .. k : i = j \/ i < j \/ j < i
      OBVIOUS
    <2> QED BY <1>1, <1>2, <1>3, <2>1
  <1>7. list \in Seq(Mem) /\ IsInjective(list) /\ Range(list) = {At(i) : i \in 1 .. k}
    <2>1. list \in Seq(Mem)
      BY <1>5, IsASeq
    <2>2. IsInjective(list)
      BY <1>6 DEF IsInjective
    <2>3. Range(list) = {At(i) : i \in 1 .. k}
      BY DEF Range
    <2> QED BY <2>1, <2>2, <2>3
  <1>8. bins = [b \in Bins |-> IF b = top THEN list ELSE <<>>]
    BY <1>1 DEF Init, At
  <1> HIDE DEF list
  <1>9. bins \in [Bins -> Seq(Mem)] /\ \A b \in Bins : IsInjective(bins[b])
    <2>1. <<>> \in Seq(Mem) /\ IsInjective(<<>>)
      BY DEF IsInjective
    <2> QED BY <1>7, <1>8, <2>1
  <1>10. \A i \in 1 .. k : blk(i) \in Block /\ blk(i).map = At(i) /\ blk(i).bin = top
    BY <1>5 DEF Block
  <1>11. \A x \in Block : x.bin = top => \A i \in 1 .. k : x.map = At(i) => x = blk(i)
    BY DEF Block
  <1> HIDE DEF blk
  <1>12. FreeBlocks = {blk(i) : i \in 1 .. k}
    <2>1. Range(<<>>) = {}
      BY DEF Range
    <2>2. ASSUME NEW x \in Block
          PROVE  x.map \in Range(bins[x.bin]) <=> \E i \in 1 .. k : x = blk(i)
      <3>1. x.bin \in Bins
        BY Cells
      <3>2. CASE x.bin = top
        BY <1>7, <1>8, <1>10, <1>11, <3>1, <3>2
      <3>3. CASE x.bin # top
        BY <1>8, <1>10, <2>1, <3>1, <3>3
      <3> QED BY <3>2, <3>3
    <2> QED BY <1>10, <2>2 DEF FreeBlocks
  <1>13. /\ pc = "idle" /\ current = {} /\ lost = {} /\ used = k /\ blocks = 0 /\ strays = 0
         /\ owner = NoOwner /\ want = 0 /\ hand = NoBlock
    BY <1>1 DEF Init
  <1>14. Allocated = {} /\ LostBlocks = {} /\ InHand = {}
    BY <1>13 DEF Allocated, LostBlocks, InHand
  <1>15. Tiling(FreeBlocks)
    <2>1. \A i \in 1 .. k : CellsOf(blk(i)) = At(i) .. (At(i) + n - 1)
      BY <1>1, <1>10 DEF CellsOf
    <2>2. ASSUME NEW x \in FreeBlocks, NEW y \in FreeBlocks, x # y
          PROVE  CellsOf(x) \cap CellsOf(y) = {}
      <3>1. PICK i \in 1 .. k, j \in 1 .. k : x = blk(i) /\ y = blk(j)
        BY <1>12
      <3>2. i < j \/ j < i
        BY <2>2, <3>1
      <3>3. At(i) \in Nat /\ At(j) \in Nat /\ (At(i) + n <= At(j) \/ At(j) + n <= At(i))
        BY <1>2, <1>3, <3>2
      <3> QED BY <2>1, <3>1, <3>3
    <2>3. ASSUME NEW m PROVE m \in Mem <=> \E i \in 1 .. k : m \in CellsOf(blk(i))
      <3>1. ASSUME m \in Mem PROVE \E i \in 1 .. k : m \in CellsOf(blk(i))
        <4>1. PICK i \in 1 .. k : At(i) <= m /\ m < At(i) + n
          BY <1>4, <3>1
        <4>2. m \in Nat /\ At(i) \in Nat
          BY <1>1, <1>3, <3>1
        <4> QED BY <2>1, <4>1, <4>2
      <3>2. ASSUME NEW i \in 1 .. k, m \in CellsOf(blk(i)) PROVE m \in Mem
        BY <1>1, <1>3, <2>1, <3>2
      <3> QED BY <3>1, <3>2
    <2>4. UNION {CellsOf(x) : x \in FreeBlocks} = Mem
      BY <1>12, <2>3
    <2> QED BY <2>2, <2>4 DEF Tiling
  <1>16. Tiled
    <2>1. AllBlocks = FreeBlocks
      BY <1>14 DEF AllBlocks
    <2> QED BY <1>9, <1>14, <1>15, <2>1 DEF Tiled, Tiling
  <1>17. Cardinality(FreeBlocks) = k
    <2> DEFINE f == [i \in 1 .. k |-> blk(i)]
    <2>1. f \in [1 .. k -> FreeBlocks] /\ \A x \in FreeBlocks : \E i \in 1 .. k : f[i] = x
      BY <1>12
    <2>2. \A i, j \in 1 .. k : f[i] = f[j] => i = j
      BY <1>6, <1>10
    <2> HIDE DEF f
    <2>3. f \in Injection(1 .. k, FreeBlocks) /\ f \in Surjection(1 .. k, FreeBlocks)
      BY <2>1, <2>2 DEF Injection, Surjection, IsInjective
    <2>4. IsFiniteSet(1 .. k) /\ Cardinality(1 .. k) = k
      BY FS_Interval
    <2> QED BY <2>3, <2>4, FS_Surjection
  <1>18. NodesAccounted
    <2>1. {l \in lost : l.node} = {} /\ Cardinality({}) = 0
      BY <1>13, FS_EmptySet
    <2> QED BY <1>13, <1>14, <1>17, <2>1 DEF NodesAccounted
  <1>19. TypeOK
    BY <1>1, <1>9, <1>13, HeapAssumption DEF TypeOK
  <1>20. InCall /\ BlocksCounted
    BY <1>13, FS_EmptySet DEF InCall, BlocksCounted
  <1> QED BY <1>16, <1>18, <1>19, <1>20 DEF HeapInv
-----------------------------------------------------------------------------
(* Every step keeps the invariant *)

(* What Tiled says, for the lemmas above. *)
LEMMA TiledNow ==
    ASSUME TypeOK, Tiled
    PROVE  Parts(FreeBlocks, Allocated, LostBlocks, InHand) /\ Lists(bins)
  BY DEF Tiled, Parts, Tiling, AllBlocks, Lists, TypeOK

(* The same, after a step. *)
LEMMA TiledNext ==
    ASSUME Parts(FreeBlocks', Allocated', LostBlocks', InHand'), Lists(bins')
    PROVE  Tiled'
  BY DEF Tiled, Parts, Tiling, AllBlocks, Lists

(* The number of nodes of forgotten blocks. *)
Gone == Cardinality({l \in lost : l.node})

(* A block drops out: its node is gone with it, if it had one. *)
LEMMA Lost ==
    ASSUME TypeOK, InCall, NEW blk \in Block, blk \notin LostBlocks,
           NEW withNode \in BOOLEAN, Lose(blk, withNode)
    PROVE  /\ LostBlocks' = LostBlocks \cup {blk}
           /\ Gone' = IF withNode THEN Gone + 1 ELSE Gone
           /\ lost' \subseteq [map : Mem, bin : Bins, node : BOOLEAN]
  <1> DEFINE rec == [map |-> blk.map, bin |-> blk.bin, node |-> withNode]
             N == {l \in lost : l.node}
  <1>1. lost' = lost \cup {rec}
    BY DEF Lose
  <1>2. blk.map \in Mem /\ blk.bin \in Bins /\ blk = [map |-> blk.map, bin |-> blk.bin]
    BY Cells
  <1>3. rec.map = blk.map /\ rec.bin = blk.bin /\ rec.node = withNode
    OBVIOUS
  <1>4. rec \in [map : Mem, bin : Bins, node : BOOLEAN]
    BY <1>2
  <1> HIDE DEF rec
  <1>5. LostBlocks' = LostBlocks \cup {blk}
    <2>1. [map |-> rec.map, bin |-> rec.bin] = blk
      BY <1>2, <1>3
    <2>2. LostBlocks' = {[map |-> l.map, bin |-> l.bin] : l \in lost'}
      BY DEF LostBlocks
    <2> QED BY <1>1, <2>1, <2>2 DEF LostBlocks
  <1>6. rec \notin lost
    <2> SUFFICES ASSUME rec \in lost PROVE FALSE
      OBVIOUS
    <2>1. [map |-> rec.map, bin |-> rec.bin] \in LostBlocks
      BY DEF LostBlocks
    <2> QED BY <1>2, <1>3, <2>1
  <1>7. IsFiniteSet(N) /\ Cardinality(N) = Gone
    BY Countable DEF Gone
  <1>8. Gone' = Cardinality({l \in lost' : l.node})
    BY DEF Gone
  <1>9. CASE withNode
    <2>1. {l \in lost' : l.node} = N \cup {rec}
      BY <1>1, <1>3, <1>9
    <2>2. Cardinality(N \cup {rec}) = Cardinality(N) + 1
      BY <1>6, <1>7, FS_AddElement
    <2> QED BY <1>1, <1>4, <1>5, <1>7, <1>8, <1>9, <2>1, <2>2 DEF TypeOK
  <1>10. CASE ~withNode
    <2>1. {l \in lost' : l.node} = N
      BY <1>1, <1>3, <1>10
    <2> QED BY <1>1, <1>4, <1>5, <1>7, <1>8, <1>10, <2>1 DEF TypeOK
  <1> QED BY <1>9, <1>10

(* The number of free blocks. *)
NFree == Cardinality(FreeBlocks)

(* The nodes in use, with the counts named. *)
LEMMA NodesNow ==
    ASSUME TypeOK, InCall
    PROVE  /\ NFree \in Nat /\ Gone \in Nat /\ used \in Nat
           /\ NodesAccounted <=> used = NFree + (IF pc = "split" THEN 1 ELSE 0) + Gone
  <1>1. NFree \in Nat /\ Gone \in Nat /\ used \in Nat
    BY Countable DEF NFree, Gone, TypeOK
  <1>2. Cardinality(InHand) = IF pc = "split" THEN 1 ELSE 0
    BY FS_EmptySet, FS_Singleton DEF InHand
  <1> QED BY <1>1, <1>2 DEF NodesAccounted, NFree, Gone

(* The same, after a step. *)
LEMMA NodesNext ==
    used' = NFree' + (IF pc' = "split" THEN 1 ELSE 0) + Gone' => NodesAccounted'
  <1>1. Cardinality(InHand') = IF pc' = "split" THEN 1 ELSE 0
    BY FS_EmptySet, FS_Singleton DEF InHand
  <1> QED BY <1>1 DEF NodesAccounted, NFree, Gone

(* A step that leaves the bins, the books and the forgotten blocks alone and *)
(* neither takes a block in hand nor lets one go.                            *)
LEMMA SameHeap ==
    ASSUME HeapInv, bins' = bins, lost' = lost, used' = used, current' = current,
           pc # "split", pc' # "split",
           pc' \in {"merge", "freed"} <=> pc \in {"merge", "freed"},
           pc \in {"merge", "freed"} => hand' = hand
    PROVE  Tiled' /\ NodesAccounted'
  <1>1. /\ FreeBlocks' = FreeBlocks /\ LostBlocks' = LostBlocks /\ Allocated' = Allocated
        /\ InHand' = InHand
    BY DEF FreeBlocks, LostBlocks, Allocated, InHand
  <1>2. Tiled'
    <2>1. Parts(FreeBlocks', Allocated', LostBlocks', InHand') /\ Lists(bins')
      BY <1>1, TiledNow DEF HeapInv
    <2> QED BY <2>1, TiledNext
  <1>3. NodesAccounted'
    BY <1>1 DEF NodesAccounted, HeapInv
  <1> QED BY <1>2, <1>3

(* sw_malloc asks for a bin there is. *)
LEMMA MallocInv ==
    ASSUME HeapInv, NEW size \in 0 .. MaxBlock, sw_malloc(size)
    PROVE  HeapInv'
  <1> USE DEF HeapInv
  <1>1. want' \in Bins
    <2> DEFINE I == {b \in Bins : size <= BlockLen(b)}
    <2>1. Orders - 1 \in I
      BY Lengths DEF MaxBlock
    <2>2. I \in SUBSET (0 .. (Orders - 1)) /\ Orders - 1 \in Nat
      BY Lengths DEF Bins
    <2>3. want' = Min(I)
      BY DEF sw_malloc, OrderOf
    <2> HIDE DEF I
    <2>4. Min(I) \in I
      BY <2>1, <2>2, LeastNumber
    <2> QED BY <2>3, <2>4 DEF I
  <1>2. /\ pc = "idle" /\ pc' = "search" /\ hand' = hand /\ bins' = bins /\ used' = used
        /\ lost' = lost /\ current' = current /\ blocks' = blocks /\ owner' = owner
        /\ strays' = strays /\ owner # NoOwner
    BY DEF sw_malloc, pool, book
  <1>3. Tiled' /\ NodesAccounted'
    BY <1>2, SameHeap
  <1>4. TypeOK'
    <2>1. want' \in 0 .. Orders
      BY <1>1, Lengths DEF Bins
    <2> QED BY <1>2, <2>1 DEF TypeOK
  <1>5. InCall' /\ BlocksCounted'
    BY <1>2 DEF InCall, BlocksCounted
  <1> QED BY <1>3, <1>4, <1>5

(* An empty bin changes nothing but the bin asked for. *)
LEMMA NextBinInv ==
    ASSUME HeapInv, NextBin
    PROVE  HeapInv'
  <1> USE DEF HeapInv
  <1>1. /\ pc = "search" /\ pc' \in {"search", "idle"} /\ hand' \in {hand, NoBlock}
        /\ bins' = bins /\ used' = used
        /\ lost' = lost /\ current' = current /\ blocks' = blocks /\ owner' = owner
        /\ strays' = strays
    BY DEF NextBin, Return, pool, book
  <1>2. want' \in 0 .. Orders
    <2>1. CASE want = Orders
      BY <2>1, Lengths DEF NextBin, Return
    <2>2. CASE want # Orders
      BY <2>2, Lengths DEF NextBin, TypeOK
    <2> QED BY <2>1, <2>2
  <1>3. Tiled' /\ NodesAccounted'
    BY <1>1, SameHeap
  <1>4. TypeOK'
    BY <1>1, <1>2 DEF TypeOK
  <1>5. InCall' /\ BlocksCounted'
    BY <1>1 DEF InCall, BlocksCounted
  <1> QED BY <1>3, <1>4, <1>5

(* coalesce_buddies goes on to the next bin. *)
LEMMA CoalesceNextInv ==
    ASSUME HeapInv, CoalesceNext
    PROVE  HeapInv'
  <1> USE DEF HeapInv
  <1>1. /\ pc = "merge" /\ pc' \in {"merge", "freed"} /\ hand' = hand
        /\ bins' = bins /\ used' = used
        /\ lost' = lost /\ current' = current /\ blocks' = blocks /\ owner' = owner
        /\ strays' = strays
    BY DEF CoalesceNext, pool, book
  <1>2. want' \in Bins
    <2>1. want \in Bins
      BY <1>1 DEF InCall
    <2>2. CASE want = Orders - 1
      BY <2>1, <2>2 DEF CoalesceNext
    <2>3. CASE want # Orders - 1
      BY <2>1, <2>3, Lengths DEF CoalesceNext, Bins
    <2> QED BY <2>2, <2>3
  <1>3. Tiled' /\ NodesAccounted'
    BY <1>1, SameHeap
  <1>4. TypeOK'
    <2>1. want' \in 0 .. Orders
      BY <1>2, Lengths DEF Bins
    <2> QED BY <1>1, <2>1 DEF TypeOK
  <1>5. InCall' /\ BlocksCounted'
    BY <1>1, <1>2 DEF InCall, BlocksCounted
  <1> QED BY <1>3, <1>4, <1>5

(* The steps that only concern the owner, and the frees of no block. *)
LEMMA OwnerInv ==
    ASSUME HeapInv,
           sw_free_stray \/ (\E t \in Tasks : alloc_private_heap(t)) \/ free_private_heap
    PROVE  HeapInv'
  <1> USE DEF HeapInv
  <1>1. /\ pc = "idle" /\ pc' = pc /\ hand' = hand /\ want' = want /\ bins' = bins
        /\ used' = used /\ lost' = lost /\ current' = current
    BY DEF sw_free_stray, alloc_private_heap, free_private_heap, pool, book, call
  <1>2. Tiled' /\ NodesAccounted'
    BY <1>1, SameHeap
  <1>3. InCall'
    BY <1>1 DEF InCall
  <1>4. /\ owner' \in Tasks \cup {NoOwner} /\ blocks' \in Int /\ strays' \in 0 .. MaxStray
        /\ BlocksCounted'
    <2>1. CASE sw_free_stray
      <3>1. /\ blocks' = blocks - 1 /\ strays' = strays + 1 /\ strays < MaxStray
            /\ owner' = owner /\ owner # NoOwner
        BY <2>1 DEF sw_free_stray
      <3>2. blocks \in Int /\ strays \in 0 .. MaxStray /\ MaxStray \in Nat
        BY HeapAssumption DEF TypeOK
      <3>3. blocks' + strays' = blocks + strays
        BY <3>1, <3>2
      <3> QED BY <1>1, <3>1, <3>2, <3>3 DEF TypeOK, BlocksCounted
    <2>2. CASE \E t \in Tasks : alloc_private_heap(t)
      <3>1. owner' \in Tasks /\ blocks' = blocks /\ strays' = strays
        BY <2>2 DEF alloc_private_heap, book
      <3> QED BY <1>1, <3>1, HeapAssumption DEF TypeOK, BlocksCounted
    <2>3. CASE free_private_heap
      <3>1. /\ owner' = IF blocks = 0 THEN NoOwner ELSE owner
            /\ blocks' = blocks /\ strays' = strays /\ owner # NoOwner
        BY <2>3 DEF free_private_heap, book
      <3> QED BY <1>1, <3>1 DEF TypeOK, BlocksCounted
    <2> QED BY <2>1, <2>2, <2>3
  <1>5. TypeOK'
    BY <1>1, <1>4 DEF TypeOK
  <1> QED BY <1>2, <1>3, <1>4, <1>5
(* A block taken from the tail of a bin is in hand instead of free. *)
LEMMA PopTailInv ==
    ASSUME HeapInv, PopTail
    PROVE  HeapInv'
  <1> USE DEF HeapInv
  <1>1. /\ pc = "search" /\ pc' = "split" /\ want' = want /\ used' = used /\ lost' = lost
        /\ current' = current /\ blocks' = blocks /\ owner' = owner /\ strays' = strays
    BY DEF PopTail, book
  <1>2. PICK j \in Bins :
          /\ j >= want /\ want \in Bins /\ bins[j] # <<>>
          /\ hand' = [map |-> Last(bins[j]), bin |-> j]
          /\ bins' = [bins EXCEPT ![j] = Front(bins[j])]
    <2> DEFINE I == NonEmpty(want)
    <2>1. want \in 0 .. Orders /\ I # {}
      BY DEF TypeOK, PopTail
    <2>2. Orders - 1 \in Nat /\ I \in SUBSET (0 .. (Orders - 1))
      BY <2>1, Lengths DEF NonEmpty
    <2> HIDE DEF I
    <2>3. Min(I) \in I
      BY <2>1, <2>2, LeastNumber
    <2>4. /\ hand' = [map |-> Last(bins[Min(I)]), bin |-> Min(I)]
          /\ bins' = [bins EXCEPT ![Min(I)] = Front(bins[Min(I)])]
      BY DEF PopTail, I
    <2>5. Min(I) \in want .. (Orders - 1) /\ bins[Min(I)] # <<>>
      BY <2>3 DEF I, NonEmpty
    <2>6. Min(I) \in Bins /\ Min(I) >= want /\ want \in Bins
      BY <2>1, <2>5, Lengths DEF Bins
    <2> QED BY <2>4, <2>5, <2>6
  <1>3. Parts(FreeBlocks, Allocated, LostBlocks, {}) /\ Lists(bins)
    <2>1. InHand = {}
      BY <1>1 DEF InHand
    <2> QED BY <2>1, TiledNow
  <1>4. PICK q \in Seq(Mem) :
          /\ q = Front(bins[j]) /\ IsInjective(q) /\ Range(q) = Range(bins[j]) \ {Last(bins[j])}
          /\ Last(bins[j]) \in Range(bins[j]) /\ Last(bins[j]) \in Mem
    <2>1. bins[j] \in Seq(Mem) /\ IsInjective(bins[j])
      BY <1>3 DEF Lists
    <2> QED BY <1>2, <2>1, ListPop
  <1>5. PICK h \in Block : h = hand' /\ h.bin = j /\ h.map = Last(bins[j])
    BY <1>2, <1>4 DEF Block
  <1>6. h \in FreeBlocks
    BY <1>4, <1>5 DEF FreeBlocks
  <1>7. Lists(bins') /\ FreeBlocks' = FreeBlocks \ {h}
    <2>0. Range(q) = Range(bins[h.bin]) \ {h.map}
      BY <1>4, <1>5
    <2>1. /\ Lists([bins EXCEPT ![h.bin] = q])
          /\ FreeOf([bins EXCEPT ![h.bin] = q]) = FreeOf(bins) \ {h}
      BY <1>3, <1>4, <2>0, OneLess
    <2>2. bins' = [bins EXCEPT ![h.bin] = q]
      BY <1>2, <1>4, <1>5
    <2> QED BY <2>1, <2>2 DEF FreeBlocks, FreeOf
  <1>8. Allocated' = Allocated /\ LostBlocks' = LostBlocks /\ InHand' = {h}
    BY <1>1, <1>5 DEF Allocated, LostBlocks, InHand
  <1>9. Tiled'
    <2>1. Parts(FreeBlocks \ {h}, Allocated, LostBlocks, {h})
      BY <1>3, <1>6, Moved
    <2> QED BY <1>7, <1>8, <2>1, TiledNext
  <1>10. NodesAccounted'
    <2>1. NFree \in Nat /\ Gone \in Nat /\ used = NFree + Gone
      BY <1>1, NodesNow
    <2>2. NFree' = NFree - 1
      BY <1>6, <1>7, Countable, FS_RemoveElement DEF NFree
    <2>3. Gone' = Gone
      BY <1>1 DEF Gone
    <2>4. used' = NFree' + 1 + Gone'
      BY <1>1, <2>1, <2>2, <2>3
    <2> QED BY <1>1, <2>4, NodesNext
  <1>11. TypeOK'
    BY <1>1, <1>5, <1>7 DEF TypeOK, Lists
  <1>12. InCall' /\ BlocksCounted'
    BY <1>1, <1>2, <1>5 DEF InCall, BlocksCounted
  <1> QED BY <1>9, <1>10, <1>11, <1>12

(* A split frees the lower half and keeps the upper, or forgets the block. *)
LEMMA SplitInv ==
    ASSUME HeapInv, Split
    PROVE  HeapInv'
  <1> USE DEF HeapInv
  <1>1. /\ pc = "split" /\ hand \in Block /\ want \in Bins /\ hand.bin > want
        /\ current' = current /\ blocks' = blocks /\ owner' = owner /\ strays' = strays
    BY DEF Split, InCall, book
  <1>2. Parts(FreeBlocks, Allocated, LostBlocks, {hand}) /\ Lists(bins)
    <2>1. InHand = {hand}
      BY <1>1 DEF InHand
    <2> QED BY <2>1, TiledNow
  <1>3. NFree \in Nat /\ Gone \in Nat /\ used \in Nat /\ used = NFree + 1 + Gone
    BY <1>1, NodesNow
  <1>4. hand.map \in Mem /\ hand.bin \in Bins
    BY <1>1, Cells
  <1>5. CASE used < FnCount
    <2>1. /\ bins' = [bins EXCEPT ![hand.bin - 1] = Append(bins[hand.bin - 1], hand.map)]
          /\ hand' = [map |-> hand.map + BlockLen(hand.bin - 1), bin |-> hand.bin - 1]
          /\ used' = used + 1 /\ lost' = lost /\ pc' = pc /\ want' = want
      BY <1>5 DEF Split
    <2>2. PICK lo : /\ lo = [map |-> hand.map, bin |-> hand.bin - 1]
                    /\ lo.map = hand.map /\ lo.bin = hand.bin - 1
      <3> DEFINE r == [map |-> hand.map, bin |-> hand.bin - 1]
      <3>1. r.map = hand.map /\ r.bin = hand.bin - 1
        OBVIOUS
      <3> QED BY <3>1
    <2>3. hand.bin > 0 /\ hand.bin - 1 \in Bins /\ hand.bin - 1 >= want
      BY <1>1, <1>4, Lengths DEF Bins
    <2>4. /\ Parts(FreeBlocks \cup {lo}, Allocated, LostBlocks, {hand'})
          /\ lo \in Block /\ hand' \in Block /\ lo \notin FreeBlocks
      <3>1. FreeBlocks \in SUBSET Block /\ Allocated \in SUBSET Block /\ LostBlocks \in SUBSET Block
        BY Countable
      <3>2. \E x, y \in Block :
              /\ x = [map |-> hand.map, bin |-> hand.bin - 1]
              /\ y = [map |-> hand.map + BlockLen(hand.bin - 1), bin |-> hand.bin - 1]
              /\ Parts(FreeBlocks \cup {x}, Allocated, LostBlocks, {y}) /\ x \notin FreeBlocks
        BY <1>1, <1>2, <2>3, <3>1, PartsSplit
      <3> QED BY <2>1, <2>2, <3>2
    <2>5. PICK q \in Seq(Mem) :
            /\ q = Append(bins[lo.bin], lo.map) /\ IsInjective(q)
            /\ Range(q) = Range(bins[lo.bin]) \cup {lo.map}
      <3>1. bins[lo.bin] \in Seq(Mem) /\ IsInjective(bins[lo.bin]) /\ lo.map \in Mem
        BY <1>2, <1>4, <2>2, <2>3 DEF Lists
      <3>2. lo.map \notin Range(bins[lo.bin])
        BY <2>4 DEF FreeBlocks
      <3> QED BY <3>1, <3>2, ListAdd
    <2>6. Lists(bins') /\ FreeBlocks' = FreeBlocks \cup {lo}
      <3>1. /\ Lists([bins EXCEPT ![lo.bin] = q])
            /\ FreeOf([bins EXCEPT ![lo.bin] = q]) = FreeOf(bins) \cup {lo}
        BY <1>2, <2>4, <2>5, OneMore
      <3>2. bins' = [bins EXCEPT ![lo.bin] = q]
        BY <2>1, <2>2, <2>5
      <3> QED BY <3>1, <3>2 DEF FreeBlocks, FreeOf
    <2>7. Allocated' = Allocated /\ LostBlocks' = LostBlocks /\ InHand' = {hand'}
      BY <1>1, <2>1 DEF Allocated, LostBlocks, InHand
    <2>8. Tiled'
      BY <2>4, <2>6, <2>7, TiledNext
    <2>9. NodesAccounted'
      <3>1. NFree' = NFree + 1
        BY <2>4, <2>6, Countable, FS_AddElement DEF NFree
      <3>2. Gone' = Gone
        BY <2>1 DEF Gone
      <3>3. used' = NFree' + 1 + Gone'
        BY <1>3, <2>1, <3>1, <3>2
      <3> QED BY <1>1, <2>1, <3>3, NodesNext
    <2>10. TypeOK'
      <3>1. used' \in 0 .. FnCount
        BY <1>3, <1>5, <2>1, HeapAssumption
      <3> QED BY <1>1, <2>1, <2>4, <2>6, <3>1 DEF TypeOK, Lists
    <2>11. InCall' /\ BlocksCounted'
      <3>1. hand'.bin = hand.bin - 1
        BY <2>1
      <3> QED BY <1>1, <2>1, <2>3, <2>4, <3>1 DEF InCall, BlocksCounted
    <2> QED BY <2>8, <2>9, <2>10, <2>11
  <1>6. CASE ~(used < FnCount)
    <2>1. /\ Lose(hand, TRUE) /\ pc' = "search" /\ want' = want + 1 /\ hand' = NoBlock
          /\ bins' = bins /\ used' = used
      BY <1>6 DEF Split
    <2>2. hand \notin LostBlocks
      BY <1>2 DEF Parts
    <2>3. /\ LostBlocks' = LostBlocks \cup {hand} /\ Gone' = Gone + 1
          /\ lost' \subseteq [map : Mem, bin : Bins, node : BOOLEAN]
      BY <1>1, <2>1, <2>2, Lost
    <2>4. Allocated' = Allocated /\ FreeBlocks' = FreeBlocks /\ InHand' = {}
      BY <1>1, <2>1 DEF Allocated, FreeBlocks, InHand
    <2>5. Tiled'
      <3>1. Parts(FreeBlocks, Allocated, LostBlocks \cup {hand}, {})
        BY <1>2, Moved
      <3> QED BY <1>2, <2>1, <2>3, <2>4, <3>1, TiledNext
    <2>6. NodesAccounted'
      <3>1. NFree' = NFree
        BY <2>4 DEF NFree
      <3>2. used' = NFree' + 0 + Gone'
        BY <1>3, <2>1, <2>3, <3>1
      <3> QED BY <2>1, <3>2, NodesNext
    <2>7. TypeOK'
      <3>1. want' \in 0 .. Orders
        BY <1>1, <2>1, Lengths DEF Bins
      <3> QED BY <1>1, <2>1, <2>3, <3>1 DEF TypeOK
    <2>8. InCall' /\ BlocksCounted'
      BY <1>1, <2>1 DEF InCall, BlocksCounted
    <2> QED BY <2>5, <2>6, <2>7, <2>8
  <1> QED BY <1>5, <1>6

(* The block in hand becomes allocated, or is forgotten. *)
LEMMA TakeInv ==
    ASSUME HeapInv, Take
    PROVE  HeapInv'
  <1> USE DEF HeapInv
  <1>1. /\ pc = "split" /\ hand \in Block /\ pc' = "idle" /\ want' = 0 /\ hand' = NoBlock
        /\ bins' = bins /\ owner' = owner /\ strays' = strays /\ owner # NoOwner
    BY DEF Take, Return, InCall, BlocksCounted
  <1>2. Parts(FreeBlocks, Allocated, LostBlocks, {hand}) /\ Lists(bins)
    <2>1. InHand = {hand}
      BY <1>1 DEF InHand
    <2> QED BY <2>1, TiledNow
  <1>3. NFree \in Nat /\ Gone \in Nat /\ used \in Nat /\ used = NFree + 1 + Gone
    BY <1>1, NodesNow
  <1>4. FreeBlocks' = FreeBlocks /\ NFree' = NFree /\ InHand' = {} /\ Allocated = current
    BY <1>1 DEF FreeBlocks, NFree, InHand, Allocated
  <1>5. CASE Cardinality(current) = AnCount
    <2>1. Lose(hand, TRUE) /\ used' = used /\ current' = current /\ blocks' = blocks
      BY <1>5 DEF Take, book
    <2>2. hand \notin LostBlocks
      BY <1>2 DEF Parts
    <2>3. /\ LostBlocks' = LostBlocks \cup {hand} /\ Gone' = Gone + 1
          /\ lost' \subseteq [map : Mem, bin : Bins, node : BOOLEAN]
      BY <1>1, <2>1, <2>2, Lost
    <2>4. Allocated' = Allocated
      BY <1>1, <2>1 DEF Allocated
    <2>5. Tiled'
      <3>1. Parts(FreeBlocks, Allocated, LostBlocks \cup {hand}, {})
        BY <1>2, Moved
      <3> QED BY <1>1, <1>2, <1>4, <2>3, <2>4, <3>1, TiledNext
    <2>6. NodesAccounted'
      <3>1. used' = NFree' + 0 + Gone'
        BY <1>3, <1>4, <2>1, <2>3
      <3> QED BY <1>1, <3>1, NodesNext
    <2>7. TypeOK'
      BY <1>1, <2>1, <2>3, Lengths DEF TypeOK
    <2>8. InCall' /\ BlocksCounted'
      BY <1>1, <2>1 DEF InCall, BlocksCounted
    <2> QED BY <2>5, <2>6, <2>7, <2>8
  <1>6. CASE Cardinality(current) # AnCount
    <2>1. /\ current' = current \cup {hand} /\ blocks' = blocks + 1 /\ used' = used - 1
          /\ lost' = lost
      BY <1>6 DEF Take
    <2>2. hand \notin current
      BY <1>2, <1>4 DEF Parts
    <2>3. Allocated' = Allocated \cup {hand} /\ LostBlocks' = LostBlocks /\ Gone' = Gone
      BY <1>1, <1>4, <2>1 DEF Allocated, LostBlocks, Gone
    <2>4. Tiled'
      <3>1. Parts(FreeBlocks, Allocated \cup {hand}, LostBlocks, {})
        BY <1>2, Moved
      <3> QED BY <1>1, <1>2, <1>4, <2>3, <3>1, TiledNext
    <2>5. NodesAccounted'
      <3>1. used' = NFree' + 0 + Gone'
        BY <1>3, <1>4, <2>1, <2>3
      <3> QED BY <1>1, <3>1, NodesNext
    <2>6. TypeOK'
      <3>1. used' \in 0 .. FnCount
        BY <1>3, <2>1, HeapAssumption DEF TypeOK
      <3>2. blocks' \in Int
        BY <2>1 DEF TypeOK
      <3> QED BY <1>1, <2>1, <3>1, <3>2, Lengths DEF TypeOK
    <2>7. InCall' /\ BlocksCounted'
      <3>1. Cardinality(current') = Cardinality(current) + 1 /\ Cardinality(current) \in Nat
        BY <2>1, <2>2, Countable, FS_AddElement
      <3>2. blocks \in Int /\ strays \in Int
        BY DEF TypeOK
      <3>3. blocks' + strays' = Cardinality(current')
        BY <1>1, <2>1, <3>1, <3>2 DEF BlocksCounted
      <3> QED BY <1>1, <3>3 DEF InCall, BlocksCounted
    <2> QED BY <2>4, <2>5, <2>6, <2>7
  <1> QED BY <1>5, <1>6
(* A block given back is free or forgotten, though still listed as           *)
(* allocated.                                                                *)
LEMMA FreeInv ==
    ASSUME HeapInv, NEW blk \in current, sw_free(blk)
    PROVE  HeapInv'
  <1> USE DEF HeapInv
  <1>1. /\ pc = "idle" /\ hand' = blk /\ want' = blk.bin /\ owner # NoOwner
        /\ current' = current /\ blocks' = blocks /\ owner' = owner /\ strays' = strays
        /\ pc' \in {"merge", "freed"}
    BY DEF sw_free, book
  <1>2. Parts(FreeBlocks, current, LostBlocks, {}) /\ Lists(bins)
    <2>1. InHand = {} /\ Allocated = current
      BY <1>1 DEF InHand, Allocated
    <2> QED BY <2>1, TiledNow
  <1>3. NFree \in Nat /\ Gone \in Nat /\ used \in Nat /\ used = NFree + Gone
    BY <1>1, NodesNow
  <1>4. blk \in Block /\ blk.bin \in Bins /\ blk \notin FreeBlocks /\ blk \notin LostBlocks
    <2>1. blk \in Block
      BY DEF TypeOK
    <2> QED BY <1>2, <2>1, Cells DEF Parts
  <1>5. Allocated' = current \ {blk} /\ InHand' = {}
    BY <1>1 DEF Allocated, InHand
  <1>6. /\ Parts(FreeBlocks \cup {blk}, current \ {blk}, LostBlocks, {})
        /\ Parts(FreeBlocks, current \ {blk}, LostBlocks \cup {blk}, {})
    BY <1>2, Moved
  <1>7. want' \in 0 .. Orders /\ want' \in Bins
    BY <1>1, <1>4, Lengths DEF Bins
  <1>8. InCall' /\ BlocksCounted'
    BY <1>1, <1>7 DEF InCall, BlocksCounted
  <1>9. CASE used < FnCount
    <2>1. /\ bins' = [bins EXCEPT ![blk.bin] = add_free_area_to_bin(bins[blk.bin], blk.map)]
          /\ used' = used + 1 /\ lost' = lost
      BY <1>9 DEF sw_free
    <2>2. Lists(bins') /\ FreeBlocks' = FreeBlocks \cup {blk}
      <3>1. blk \notin FreeOf(bins)
        BY <1>4 DEF FreeBlocks, FreeOf
      <3>2. Lists(bins') /\ FreeOf(bins') = FreeOf(bins) \cup {blk}
        BY <1>2, <1>4, <2>1, <3>1, FreeAdded
      <3> QED BY <3>2 DEF FreeBlocks, FreeOf
    <2>3. LostBlocks' = LostBlocks /\ Gone' = Gone
      BY <2>1 DEF LostBlocks, Gone
    <2>4. Tiled'
      BY <1>5, <1>6, <2>2, <2>3, TiledNext
    <2>5. NodesAccounted'
      <3>1. NFree' = NFree + 1
        BY <1>4, <2>2, Countable, FS_AddElement DEF NFree
      <3>2. used' = NFree' + 0 + Gone'
        BY <1>3, <2>1, <2>3, <3>1
      <3>3. pc' # "split"
        BY <1>1
      <3> QED BY <3>2, <3>3, NodesNext
    <2>6. TypeOK'
      <3>1. used' \in 0 .. FnCount
        BY <1>3, <1>9, <2>1, HeapAssumption
      <3> QED BY <1>1, <1>4, <1>7, <2>1, <2>2, <3>1 DEF TypeOK, Lists
    <2> QED BY <1>8, <2>4, <2>5, <2>6
  <1>10. CASE ~(used < FnCount)
    <2>1. Lose(blk, FALSE) /\ bins' = bins /\ used' = used
      BY <1>10 DEF sw_free
    <2>2. /\ LostBlocks' = LostBlocks \cup {blk} /\ Gone' = Gone
          /\ lost' \subseteq [map : Mem, bin : Bins, node : BOOLEAN]
      BY <1>4, <2>1, Lost
    <2>3. FreeBlocks' = FreeBlocks /\ NFree' = NFree
      BY <2>1 DEF FreeBlocks, NFree
    <2>4. Tiled'
      BY <1>2, <1>5, <1>6, <2>1, <2>2, <2>3, TiledNext
    <2>5. NodesAccounted'
      <3>1. used' = NFree' + 0 + Gone'
        BY <1>3, <2>1, <2>2, <2>3
      <3>2. pc' # "split"
        BY <1>1
      <3> QED BY <3>1, <3>2, NodesNext
    <2>6. TypeOK'
      BY <1>1, <1>4, <1>7, <2>1, <2>2 DEF TypeOK
    <2> QED BY <1>8, <2>4, <2>5, <2>6
  <1> QED BY <1>9, <1>10

(* Two neighbours of a bin become one block of the next. *)
LEMMA MergeInv ==
    ASSUME HeapInv, MergeFirst
    PROVE  HeapInv'
  <1> USE DEF HeapInv
  <1>1. /\ pc = "merge" /\ pc' = pc /\ hand' = hand /\ want' = want /\ used' = used - 1
        /\ lost' = lost /\ current' = current /\ blocks' = blocks /\ owner' = owner
        /\ strays' = strays /\ want \in Bins /\ want < Orders - 1
    BY DEF MergeFirst, book, call, InCall
  <1>2. Parts(FreeBlocks, Allocated, LostBlocks, {}) /\ Lists(bins)
    <2>1. InHand = {}
      BY <1>1 DEF InHand
    <2> QED BY <2>1, TiledNow
  <1>3. PICK b \in Bins : b = want /\ b + 1 \in Bins
    BY <1>1, Lengths DEF Bins
  <1>4. bins[b] \in Seq(Mem) /\ Len(bins[b]) \in Nat /\ DOMAIN bins[b] = 1 .. Len(bins[b])
    BY LenProperties DEF TypeOK
  <1>5. PICK i \in 1 .. (Len(bins[b]) - 1) :
          /\ bins[b][i] + BlockLen(b) = bins[b][i + 1]
          /\ bins' = [bins EXCEPT ![b] = RemoveAt(RemoveAt(bins[b], i + 1), i),
                                  ![b + 1] = add_free_area_to_bin(@, bins[b][i])]
    <2> DEFINE I == Adjacent(bins[b], b)
    <2>1. I # {}
      BY <1>3 DEF MergeFirst
    <2>2. I \in SUBSET (1 .. Len(bins[b]))
      BY <1>4 DEF Adjacent
    <2> HIDE DEF I
    <2>3. Min(I) \in I
      BY <1>4, <2>1, <2>2, LeastPosition
    <2>4. /\ Min(I) \in 1 .. (Len(bins[b]) - 1)
          /\ bins[b][Min(I)] + BlockLen(b) = bins[b][Min(I) + 1]
      BY <2>3 DEF I, Adjacent
    <2>5. bins' = [bins EXCEPT ![b] = RemoveAt(RemoveAt(bins[b], Min(I) + 1), Min(I)),
                               ![b + 1] = add_free_area_to_bin(@, bins[b][Min(I)])]
      BY <1>3 DEF MergeFirst, I
    <2> QED BY <2>4, <2>5
  <1>6. bins[b][i] \in Mem /\ bins[b][i + 1] \in Mem /\ i \in 1 .. Len(bins[b])
        /\ i + 1 \in 1 .. Len(bins[b])
    <2>1. PICK n \in Nat : n = Len(bins[b])
      BY <1>4
    <2>2. i \in 1 .. n /\ i + 1 \in 1 .. n
      BY <2>1
    <2> QED BY <1>4, <2>1, <2>2, ElementOfSeq
  <1>7. PICK lo \in Block : lo.map = bins[b][i] /\ lo.bin = b
    <2> DEFINE r == [map |-> bins[b][i], bin |-> b]
    <2>1. r \in Block /\ r.map = bins[b][i] /\ r.bin = b
      BY <1>6 DEF Block
    <2> QED BY <2>1
  <1>8. PICK up \in Block : up.map = bins[b][i + 1] /\ up.bin = b
    <2> DEFINE r == [map |-> bins[b][i + 1], bin |-> b]
    <2>1. r \in Block /\ r.map = bins[b][i + 1] /\ r.bin = b
      BY <1>6 DEF Block
    <2> QED BY <2>1
  <1>9. lo \in FreeBlocks /\ up \in FreeBlocks
    BY <1>4, <1>6, <1>7, <1>8 DEF FreeBlocks, Range
  <1>10. PICK h \in Block :
           /\ h = [map |-> lo.map, bin |-> lo.bin + 1]
           /\ Parts((FreeBlocks \ {lo, up}) \cup {h}, Allocated, LostBlocks, {})
           /\ h \notin FreeBlocks /\ lo # up
    <2>1. FreeBlocks \in SUBSET Block /\ Allocated \in SUBSET Block /\ LostBlocks \in SUBSET Block
      BY Countable
    <2>2. up.bin = lo.bin /\ up.map = lo.map + BlockLen(lo.bin) /\ lo.bin < Orders - 1
      BY <1>1, <1>3, <1>5, <1>7, <1>8
    <2> QED BY <1>2, <1>9, <2>1, <2>2, PartsMerge
  <1>11. h.bin = b + 1 /\ h.map = lo.map
    BY <1>7, <1>10
  <1>12. Lists(bins') /\ FreeBlocks' = (FreeBlocks \ {lo, up}) \cup {h}
    <2>1. h \notin FreeOf(bins)
      BY <1>10 DEF FreeBlocks, FreeOf
    <2>2. Lists(bins') /\ FreeOf(bins') = (FreeOf(bins) \ {lo, up}) \cup {h}
      <3>1. \E bt :
              /\ bt = [bins EXCEPT ![b] = RemoveAt(RemoveAt(bins[b], i + 1), i),
                                   ![b + 1] = add_free_area_to_bin(@, bins[b][i])]
              /\ Lists(bt) /\ FreeOf(bt) = (FreeOf(bins) \ {lo, up}) \cup {h}
        BY <1>2, <1>3, <1>7, <1>8, <1>11, <2>1, FreeMerged
      <3> QED BY <1>5, <3>1
    <2> QED BY <2>2 DEF FreeBlocks, FreeOf
  <1>13. Allocated' = Allocated /\ LostBlocks' = LostBlocks /\ InHand' = {} /\ Gone' = Gone
    BY <1>1 DEF Allocated, LostBlocks, InHand, Gone
  <1>14. Tiled'
    BY <1>10, <1>12, <1>13, TiledNext
  <1>15. NFree' = NFree - 1 /\ NFree >= 2 /\ NFree \in Nat
    <2>1. IsFiniteSet(FreeBlocks) /\ NFree \in Nat /\ NFree = Cardinality(FreeBlocks)
      BY Countable DEF NFree
    <2> DEFINE F1 == FreeBlocks \ {lo}
               F2 == F1 \ {up}
    <2>2. IsFiniteSet(F1) /\ Cardinality(F1) = NFree - 1 /\ up \in F1
      BY <1>9, <1>10, <2>1, FS_RemoveElement
    <2> HIDE DEF F1
    <2>3. IsFiniteSet(F2) /\ Cardinality(F2) = NFree - 1 - 1
      BY <2>2, FS_RemoveElement
    <2>4. Cardinality(F2) \in Nat
      BY <2>3, FS_CardinalityType
    <2>5. FreeBlocks' = F2 \cup {h} /\ h \notin F2
      BY <1>10, <1>12 DEF F1
    <2> HIDE DEF F2
    <2>6. Cardinality(F2 \cup {h}) = Cardinality(F2) + 1
      BY <2>3, <2>5, FS_AddElement
    <2>7. NFree' = Cardinality(F2) + 1
      BY <2>5, <2>6 DEF NFree
    <2> QED BY <2>1, <2>3, <2>4, <2>7
  <1>16. NFree \in Nat /\ Gone \in Nat /\ used \in Nat /\ used = NFree + Gone
    BY <1>1, NodesNow
  <1>17. NodesAccounted'
    <2>1. used' = NFree' + 0 + Gone'
      BY <1>1, <1>13, <1>15, <1>16
    <2> QED BY <1>1, <2>1, NodesNext
  <1>18. TypeOK'
    <2>1. used' \in 0 .. FnCount
      BY <1>1, <1>15, <1>16, HeapAssumption DEF TypeOK
    <2> QED BY <1>1, <1>12, <2>1 DEF TypeOK, Lists
  <1>19. InCall' /\ BlocksCounted'
    BY <1>1 DEF InCall, BlocksCounted
  <1> QED BY <1>14, <1>17, <1>18, <1>19

(* The block leaves the list of allocated ones, and the count. *)
LEMMA FreedInv ==
    ASSUME HeapInv, Freed
    PROVE  HeapInv'
  <1> USE DEF HeapInv
  <1>1. /\ pc = "freed" /\ hand \in current /\ pc' = "idle" /\ want' = 0 /\ hand' = NoBlock
        /\ current' = current \ {hand} /\ blocks' = blocks - 1
        /\ bins' = bins /\ used' = used /\ lost' = lost /\ owner' = owner /\ strays' = strays
        /\ owner # NoOwner
    BY DEF Freed, Return, pool, InCall, BlocksCounted
  <1>2. /\ FreeBlocks' = FreeBlocks /\ LostBlocks' = LostBlocks /\ Allocated' = Allocated
        /\ InHand' = InHand
    BY <1>1 DEF FreeBlocks, LostBlocks, Allocated, InHand
  <1>3. Tiled'
    BY <1>1, <1>2, TiledNow, TiledNext
  <1>4. NodesAccounted'
    BY <1>1, <1>2 DEF NodesAccounted
  <1>5. TypeOK'
    <2>1. blocks' \in Int
      BY <1>1 DEF TypeOK
    <2> QED BY <1>1, <2>1, Lengths DEF TypeOK
  <1>6. InCall' /\ BlocksCounted'
    <2>1. Cardinality(current') = Cardinality(current) - 1 /\ Cardinality(current) \in Nat
      BY <1>1, Countable, FS_RemoveElement
    <2>2. blocks \in Int /\ strays \in Int
      BY DEF TypeOK
    <2>3. blocks' + strays' = Cardinality(current')
      BY <1>1, <2>1, <2>2 DEF BlocksCounted
    <2> QED BY <1>1, <2>3 DEF InCall, BlocksCounted
  <1> QED BY <1>3, <1>4, <1>5, <1>6

-----------------------------------------------------------------------------
(* The invariant holds in every state of a heap that follows the code of     *)
(* lib/sw_buddy.c: whatever is asked for and given back in whatever order,   *)
(* and however few nodes there are.                                          *)
THEOREM HeapSound == Spec => []HeapInv
  <1>1. HeapInv /\ [Next]_vars => HeapInv'
    <2> SUFFICES ASSUME HeapInv, [Next]_vars PROVE HeapInv'
      OBVIOUS
    <2>1. CASE Step
      BY <2>1, NextBinInv, PopTailInv, SplitInv, TakeInv, MergeInv, CoalesceNextInv, FreedInv
      DEF Step
    <2>2. CASE \E size \in 0 .. MaxBlock : sw_malloc(size)
      BY <2>2, MallocInv
    <2>3. CASE \E blk \in current : sw_free(blk)
      BY <2>3, FreeInv
    <2>4. CASE sw_free_stray \/ (\E t \in Tasks : alloc_private_heap(t)) \/ free_private_heap
      BY <2>4, OwnerInv
    <2>5. CASE UNCHANGED vars
      BY <2>5 DEF vars, pool, book, call, HeapInv, TypeOK, Tiled, NodesAccounted, InCall,
              BlocksCounted, AllBlocks, FreeBlocks, LostBlocks, Allocated, InHand
    <2> QED BY <2>1, <2>2, <2>3, <2>4, <2>5 DEF Next
  <1> QED BY <1>1, InitInv, PTL DEF Spec

(* Memory is never handed out twice and never lost but for want of a node.   *)
THEOREM MemoryTiled == Spec => []Tiled
  <1>1. HeapInv => Tiled
    BY DEF HeapInv
  <1> QED BY <1>1, HeapSound, PTL

(* A node is in use for each free block, for the block in hand and for each  *)
(* block forgotten with its node, and for nothing else.                      *)
THEOREM NodesKept == Spec => []NodesAccounted
  <1>1. HeapInv => NodesAccounted
    BY DEF HeapInv
  <1> QED BY <1>1, HeapSound, PTL

(* A heap that nobody owns has no block allocated in it, unless some task    *)
(* freed a pointer that was no block: its next owner finds it empty.         *)
THEOREM HeapHandedOver == Spec => HandedOverEmpty
  <1>1. HeapInv /\ owner = NoOwner /\ strays = 0 => current = {}
    <2> SUFFICES ASSUME HeapInv, owner = NoOwner, strays = 0 PROVE current = {}
      OBVIOUS
    <2>1. Cardinality(current) = 0
      BY DEF HeapInv, BlocksCounted
    <2>2. IsFiniteSet(current)
      BY Countable DEF HeapInv
    <2> QED BY <2>1, <2>2, FS_EmptySet
  <1>2. HeapInv => [owner = NoOwner /\ owner' # NoOwner /\ strays = 0 => current = {}]_vars
    BY <1>1
  <1> QED BY <1>2, HeapSound, PTL DEF HandedOverEmpty
=============================================================================
