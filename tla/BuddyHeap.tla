----------------------------- MODULE BuddyHeap -----------------------------
(***************************************************************************)
(* One of the NUM_OF_HEAPS heaps of lib/sw_buddy.c: the bins of free blocks *)
(* and the list of allocated ones, the two pools of housekeeping nodes that *)
(* describe them, and the entry of h_index that says which task the heap    *)
(* belongs to and how many blocks it has out.                               *)
(*                                                                          *)
(* A call starts at "idle" and runs to its end before the next one: each    *)
(* step is one turn of a loop or one level of a recursion of the code.      *)
(*                                                                          *)
(* Addresses count blocks of MIN_BLOCK_SIZE.  Requests are at most          *)
(* MAX_BLOCK_SIZE: larger ones take buddy_get_contiguous_block, which the   *)
(* code itself marks as unfinished and nothing in the kernel asks for.      *)
(***************************************************************************)
EXTENDS Integers, Sequences, FiniteSets, SequencesExt, FiniteSetsExt

CONSTANTS
    Orders,     \* BINS_MAX_ORDER
    MaxBlocks,  \* number of MAX_BLOCK_SIZE blocks in the heap
    FnCount,    \* hk_fn_count: nodes for free blocks
    AnCount,    \* hk_an_count: nodes for allocated blocks
    Tasks,      \* task identifiers
    NoOwner,    \* heap_id = -1
    MaxStray    \* bound on the frees of pointers that are no block of the heap

ASSUME HeapAssumption ==
    /\ Orders \in Nat \ {0} /\ MaxBlocks \in Nat /\ AnCount \in Nat
    /\ FnCount \in Nat /\ FnCount >= MaxBlocks   \* buddy_init succeeds
    /\ NoOwner \notin Tasks /\ MaxStray \in Nat

Bins     == 0..(Orders - 1)
BlockLen(b) == 2 ^ b
MaxBlock == BlockLen(Orders - 1)
Mem      == 0..(MaxBlocks * MaxBlock - 1)
Block    == [map : Mem, bin : Bins]
NoBlock  == [map |-> -1, bin |-> 0]

VARIABLES
    bins,       \* free_area: the free blocks of each size, in list order
    used,       \* nodes of hk_fn_array in use
    current,    \* the allocated blocks, with the bin each came from
    owner,      \* h_index[index].heap_id
    blocks,     \* h_index[index].num_blocks_alloc
    pc,         \* how far the call under way has come
    want,       \* malloc: the bin asked; free: the bin being coalesced
    hand,       \* malloc: the block found; free: the block given back
    lost,       \* history: blocks that dropped out for want of a node
    strays      \* history: how many frees were of no block of the heap

pool == <<bins, used, lost>>
book == <<current, blocks>>
call == <<pc, want, hand>>
vars == <<pool, book, call, owner, strays>>

TypeOK ==
    /\ bins \in [Bins -> Seq(Mem)]
    /\ used \in 0..FnCount
    /\ current \subseteq Block /\ lost \subseteq [map : Mem, bin : Bins, node : BOOLEAN]
    /\ owner \in Tasks \cup {NoOwner} /\ blocks \in Int /\ strays \in 0..MaxStray
    /\ pc \in {"idle", "search", "split", "merge", "freed"}
    /\ want \in 0..Orders /\ hand \in Block \cup {NoBlock}

(* sw_heap_init and buddy_init: all memory in the last bin. *)
Init ==
    /\ bins = [b \in Bins |-> IF b = Orders - 1
                              THEN [i \in 1..MaxBlocks |-> (i - 1) * MaxBlock] ELSE <<>>]
    /\ used = MaxBlocks
    /\ current = {} /\ lost = {}
    /\ owner = NoOwner /\ blocks = 0 /\ strays = 0
    /\ pc = "idle" /\ want = 0 /\ hand = NoBlock

(* The call under way ends. *)
Return == pc' = "idle" /\ want' = 0 /\ hand' = NoBlock

(* A block drops out of the heap, with or without the node it had. *)
Lose(blk, withNode) ==
    lost' = lost \cup {[map |-> blk.map, bin |-> blk.bin, node |-> withNode]}

-----------------------------------------------------------------------------
(* Taking a block *)

(* The order of the smallest block of at least size units. *)
OrderOf(size) == Min({b \in Bins : size <= BlockLen(b)})

(* sw_malloc, sw_buddy_malloc: bins too small are passed over. *)
sw_malloc(size) ==
    /\ pc = "idle" /\ owner # NoOwner
    /\ pc' = "search" /\ want' = OrderOf(size) /\ hand' = hand
    /\ UNCHANGED <<pool, book, owner, strays>>

(* The bins with a block that buddy_get_block reaches from bin idx. *)
NonEmpty(idx) == {j \in idx..(Orders - 1) : bins[j] # <<>>}

(* The loop of sw_buddy_malloc: when a bin has nothing to give the next one *)
(* is asked, for the same block; behind the last one there is none.         *)
NextBin ==
    /\ pc = "search" /\ NonEmpty(want) = {}
    /\ IF want = Orders THEN Return
       ELSE want' = want + 1 /\ UNCHANGED <<pc, hand>>
    /\ UNCHANGED <<pool, book, owner, strays>>

(* buddy_get_block, at the top of its recursion: the last block of the      *)
(* first non-empty bin is taken.                                            *)
PopTail ==
    /\ pc = "search" /\ NonEmpty(want) # {}
    /\ LET j == Min(NonEmpty(want))
       IN  /\ hand' = [map |-> Last(bins[j]), bin |-> j]
           /\ bins' = [bins EXCEPT ![j] = Front(@)]
    /\ pc' = "split"
    /\ UNCHANGED <<used, lost, want, book, owner, strays>>

(* Mutant: the node of the upper half is not accounted for. *)
SplitFreeNode ==
    /\ pc = "split" /\ hand.bin > want
    /\ bins' = [bins EXCEPT ![hand.bin - 1] = Append(@, hand.map)]
    /\ hand' = [map |-> hand.map + BlockLen(hand.bin - 1), bin |-> hand.bin - 1]
    /\ UNCHANGED <<used, lost, pc, want, book, owner, strays>>

(* buddy_get_block, one level back down: the bin keeps the lower half and   *)
(* hands the upper half on, which takes a node.  Without one the block in   *)
(* hand is forgotten, its node too, and the search goes on.                 *)
Split ==
    /\ pc = "split" /\ hand.bin > want
    /\ IF used < FnCount
       THEN /\ bins' = [bins EXCEPT ![hand.bin - 1] = Append(@, hand.map)]
            /\ hand' = [map |-> hand.map + BlockLen(hand.bin - 1), bin |-> hand.bin - 1]
            /\ used' = used + 1
            /\ UNCHANGED <<lost, pc, want>>
       ELSE /\ Lose(hand, TRUE)
            /\ pc' = "search" /\ want' = want + 1 /\ hand' = NoBlock
            /\ UNCHANGED <<bins, used>>
    /\ UNCHANGED <<book, owner, strays>>

(* The end of sw_buddy_malloc, and the count sw_malloc keeps of its         *)
(* successes.  Without a node for an allocated block the block is forgotten. *)
Take ==
    /\ pc = "split" /\ hand.bin = want
    /\ IF Cardinality(current) = AnCount
       THEN Lose(hand, TRUE) /\ UNCHANGED <<used, book>>
       ELSE /\ current' = current \cup {hand} /\ blocks' = blocks + 1
            /\ used' = used - 1 /\ UNCHANGED lost
    /\ Return
    /\ UNCHANGED <<bins, owner, strays>>

-----------------------------------------------------------------------------
(* Giving a block back *)

(* add_free_area_to_bin: behind the first block with a higher address, or   *)
(* at the end; the list is not sorted.                                      *)
add_free_area_to_bin(list, a) ==
    LET higher == {i \in DOMAIN list : list[i] > a}
    IN  InsertAt(list, IF higher = {} THEN Len(list) + 1 ELSE Min(higher) + 1, a)

(* sw_free, sw_free_private of an allocated block, and return_to_pool:      *)
(* without a node the block is forgotten, a block alone in its bin is not   *)
(* coalesced.                                                               *)
sw_free(blk) ==
    /\ pc = "idle" /\ owner # NoOwner /\ blk \in current
    /\ IF used < FnCount
       THEN /\ bins' = [bins EXCEPT ![blk.bin] = add_free_area_to_bin(@, blk.map)]
            /\ used' = used + 1 /\ UNCHANGED lost
            /\ pc' = IF Len(bins[blk.bin]) > 0 THEN "merge" ELSE "freed"
       ELSE Lose(blk, FALSE) /\ pc' = "freed" /\ UNCHANGED <<bins, used>>
    /\ want' = blk.bin /\ hand' = blk
    /\ UNCHANGED <<book, owner, strays>>

(* Neighbours in a bin's list that are neighbours in memory, in this order. *)
Adjacent(list, b) ==
    {i \in 1..(Len(list) - 1) : list[i] + BlockLen(b) = list[i + 1]}

(* Mutant: the merged block is listed under its upper half. *)
MergeFirstUpper ==
    /\ pc = "merge" /\ want < Orders - 1 /\ Adjacent(bins[want], want) # {}
    /\ LET list == bins[want]
           i    == Min(Adjacent(list, want))
       IN  bins' = [bins EXCEPT ![want] = RemoveAt(RemoveAt(list, i + 1), i),
                                ![want + 1] = add_free_area_to_bin(@, list[i + 1])]
    /\ used' = used - 1
    /\ UNCHANGED <<lost, book, call, owner, strays>>

(* coalesce_buddies, one merge: the first adjacent pair of the bin becomes  *)
(* one block of the next bin and gives up a node.                           *)
MergeFirst ==
    /\ pc = "merge" /\ want < Orders - 1 /\ Adjacent(bins[want], want) # {}
    /\ LET list == bins[want]
           i    == Min(Adjacent(list, want))
       IN  bins' = [bins EXCEPT ![want] = RemoveAt(RemoveAt(list, i + 1), i),
                                ![want + 1] = add_free_area_to_bin(@, list[i])]
    /\ used' = used - 1
    /\ UNCHANGED <<lost, book, call, owner, strays>>

(* Mutant: the recursion asks for the same bin again. *)
CoalesceNextSame ==
    /\ pc = "merge"
    /\ IF want = Orders - 1 THEN pc' = "freed" /\ UNCHANGED want
       ELSE Adjacent(bins[want], want) = {} /\ UNCHANGED <<pc, want>>
    /\ UNCHANGED <<pool, book, hand, owner, strays>>

(* coalesce_buddies, its recursion: a bin without an adjacent pair is left  *)
(* for the next one; the last one is not coalesced.                         *)
CoalesceNext ==
    /\ pc = "merge"
    /\ IF want = Orders - 1 THEN pc' = "freed" /\ UNCHANGED want
       ELSE Adjacent(bins[want], want) = {} /\ want' = want + 1 /\ UNCHANGED pc
    /\ UNCHANGED <<pool, book, hand, owner, strays>>

(* The end of buddy_free, and of sw_free: the block leaves the list of      *)
(* allocated ones, whether it could be given back or not.                   *)
Freed ==
    /\ pc = "freed"
    /\ current' = current \ {hand} /\ blocks' = blocks - 1
    /\ Return
    /\ UNCHANGED <<pool, owner, strays>>

-----------------------------------------------------------------------------
(* The owner of the heap.  Only the task that owns a heap uses it. *)

(* sw_free of anything else: buddy_free finds no block and returns, the     *)
(* count goes down all the same.                                            *)
sw_free_stray ==
    /\ pc = "idle" /\ owner # NoOwner /\ strays < MaxStray
    /\ blocks' = blocks - 1
    /\ strays' = strays + 1
    /\ UNCHANGED <<pool, current, call, owner>>

(* create_task takes a heap nobody owns. *)
alloc_private_heap(t) ==
    /\ pc = "idle" /\ owner = NoOwner /\ owner' = t
    /\ UNCHANGED <<pool, book, call, strays>>

(* Mutant: the blocks still out are not looked at. *)
free_private_heapAlways ==
    /\ pc = "idle" /\ owner # NoOwner /\ owner' = NoOwner
    /\ UNCHANGED <<pool, book, call, strays>>

(* destroy_task gives its heap up, unless blocks are out: then the heap     *)
(* stays with the identifier of a task that is gone.  It is not initialised *)
(* again.                                                                   *)
free_private_heap ==
    /\ pc = "idle" /\ owner # NoOwner
    /\ owner' = IF blocks = 0 THEN NoOwner ELSE owner
    /\ UNCHANGED <<pool, book, call, strays>>

(* The rest of a call that has begun. *)
Step == NextBin \/ PopTail \/ Split \/ Take \/ MergeFirst \/ CoalesceNext \/ Freed

Next ==
    \/ \E size \in 0..MaxBlock : sw_malloc(size)
    \/ \E blk \in current : sw_free(blk)
    \/ Step
    \/ sw_free_stray
    \/ \E t \in Tasks : alloc_private_heap(t)
    \/ free_private_heap

Spec == Init /\ [][Next]_vars

(* A call that has begun runs on: nothing in it waits. *)
FairSpec == Spec /\ WF_vars(Step)

-----------------------------------------------------------------------------
CellsOf(blk) == blk.map..(blk.map + BlockLen(blk.bin) - 1)

FreeBlocks == {blk \in Block : blk.map \in Range(bins[blk.bin])}
LostBlocks == {[map |-> l.map, bin |-> l.bin] : l \in lost}

(* Between return_to_pool and list_del a block being freed is in the list   *)
(* of allocated blocks although it has been given back.                     *)
Allocated == IF pc \in {"merge", "freed"} THEN current \ {hand} ELSE current
InHand    == IF pc = "split" THEN {hand} ELSE {}

AllBlocks == FreeBlocks \cup Allocated \cup LostBlocks \cup InHand

(* Every unit of memory belongs to exactly one block: free, allocated, in   *)
(* hand or forgotten, and no free block is listed twice.  Splitting,        *)
(* unsorted bins, merging of neighbours that are not buddies and running    *)
(* out of nodes never hand memory out twice and never lose any but what     *)
(* they forget for want of a node.                                          *)
Tiled ==
    /\ UNION {CellsOf(blk) : blk \in AllBlocks} = Mem
    /\ \A x, y \in AllBlocks : x # y => CellsOf(x) \cap CellsOf(y) = {}
    /\ FreeBlocks \cap Allocated = {} /\ FreeBlocks \cap LostBlocks = {}
    /\ Allocated \cap LostBlocks = {}
    /\ InHand \cap (FreeBlocks \cup Allocated \cup LostBlocks) = {}
    /\ \A b \in Bins : IsInjective(bins[b])

(* A node of hk_fn_array is in use for each free block, for the block in    *)
(* hand and for each block forgotten together with its node, and for        *)
(* nothing else: the nodes do not leak while memory is left.                *)
NodesAccounted ==
    used = Cardinality(FreeBlocks) + Cardinality(InHand)
             + Cardinality({l \in lost : l.node})

(* A task that gets a heap finds no block of its predecessor allocated in   *)
(* it, although the heap is not initialised again, unless some task freed a *)
(* pointer that was no block: that block less in the count lets the heap go *)
(* with one block still allocated.                                          *)
HandedOverEmpty ==
    [][owner = NoOwner /\ owner' # NoOwner /\ strays = 0 => current = {}]_vars

(* Every call returns: the search through the bins and the restarts of      *)
(* coalesce_buddies come to an end, whatever the lists look like.           *)
CallsReturn == pc # "idle" ~> pc = "idle"
=============================================================================
