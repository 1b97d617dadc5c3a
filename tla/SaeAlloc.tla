------------------------------ MODULE SaeAlloc ------------------------------
(***************************************************************************)
(* The heap in shared L2 memory (sae_alloc.c): blocks that tile the arena, *)
(* each with its size and an allocated bit in a word before and in a word  *)
(* at its end, first fit with splitting, coalescing on free.               *)
(*                                                                         *)
(* Memory is an array of 32-bit words.  Sizes and addresses count words,   *)
(* so ALIGNMENT and BOOK_KEEPING, 8 bytes each, are 2, and a pointer is an *)
(* even number.  A tag is its size plus its allocated bit.                 *)
(*                                                                         *)
(* The lock excludes other cores' locked calls (SaeLock).  The walk of     *)
(* sae_alloc_malloc is a step per block; what a locked call then writes is *)
(* one step.  sae_unRegisterStream frees without the lock: the three parts *)
(* of sae_alloc_free are separate steps there, and another core may use    *)
(* the heap between them.  That spoils it: the history variable spoiled    *)
(* notes it, and the heap's promises hold until it has happened.           *)
(***************************************************************************)
EXTENDS Naturals, FiniteSets

CONSTANTS
  Core,        \* the cores that share the heap, their handlers among them
  None,        \* no core
  HeapWords,   \* size of the memory given to sae_alloc_init
  Requests,    \* sizes that callers ask for
  Data         \* a word that callers fill their memory with

Align == 2                  \* ALIGNMENT
BookKeeping == 2            \* BOOK_KEEPING
AlignUp(n) == n + (n % Align)

Start == 2 * Align          \* sae_heap_start, for memory at address 0
End == HeapWords - (HeapWords % Align)
Word == 0 .. End - 1
Ptr == {p \in Start .. End : p % Align = 0}

ASSUME HeapAssumption == /\ HeapWords \in Nat /\ End >= Start + 4
                         /\ Requests \subseteq Nat \ {0}
                         /\ Data \in Nat
ASSUME CoreAssumption == None \notin Core

VARIABLES
  mem,      \* the words
  owner,    \* which core holds the lock
  pc,       \* where a core is in a heap call
  cur,      \* the block it is at: ptr of sae_alloc_malloc and sae_alloc_free
  want,     \* size of the block it looks for, or the size coalesced to
  asked,    \* what its caller has asked for, 0 if nothing
  live,     \* the blocks handed out and not given back: pointer and size
  spoiled   \* history: the heap has been used in the middle of a free

vars == <<mem, owner, pc, cur, want, asked, live, spoiled>>

-----------------------------------------------------------------------------
(* The macros.                                                             *)

GetSize(w) == w - (w % Align)                     \* GET_SIZE
GetFree(w) == w % Align = 0                       \* GET_FREE
BlkSize(p) == GetSize(mem[p - 1])                 \* BLK_SIZE
BlkFree(p) == GetFree(mem[p - 1])                 \* BLK_FREE
NextBlkPastTags(p) == p + BlkSize(p) + BookKeeping \* mutant: the tags counted twice
NextBlk(p) == p + BlkSize(p)                      \* NEXT
PrevBlk(p) == p - GetSize(mem[p - 2])             \* PREV

(* MARK_BLK: the tag before the block and the one at its end.              *)
MarkBlk(m, p, size, alloc) ==
  [m EXCEPT ![p - 1] = size + alloc, ![p + size - 2] = size + alloc]

(* sae_alloc_init by the master: a marker block in front, an empty block   *)
(* at the end, both allocated for ever, and one free block between them.   *)
Init == /\ mem = [w \in Word |->
                    CASE w \in {Start - 3, Start - 2} -> Align + 1
                      [] w \in {Start - 1, End - 2} -> End - Start
                      [] w = End - 1 -> 1
                      [] OTHER -> Data]
        /\ owner = None
        /\ pc = [c \in Core |-> "idle"]
        /\ cur = [c \in Core |-> Start]
        /\ want = [c \in Core |-> 0]
        /\ asked = [c \in Core |-> 0]
        /\ live = {} /\ spoiled = FALSE

-----------------------------------------------------------------------------
(* sae_alloc_malloc, between sae_lockIpc and sae_unLockIpc.                *)

Finish(c) == /\ pc' = [pc EXCEPT ![c] = "idle"]
             /\ cur' = [cur EXCEPT ![c] = Start]
             /\ want' = [want EXCEPT ![c] = 0]
             /\ asked' = [asked EXCEPT ![c] = 0]

StartWalk(c, n) == /\ pc' = [pc EXCEPT ![c] = "walk"]
                   /\ cur' = [cur EXCEPT ![c] = Start]
                   /\ want' = [want EXCEPT ![c] = AlignUp(n + BookKeeping)]
                   /\ asked' = [asked EXCEPT ![c] = n]

(* Another core is between two steps of a free without the lock.           *)
FreeUnderWay(c) == \E d \in Core \ {c} : pc[d] \in {"look", "merge"}
Note(clash) == spoiled' = (spoiled \/ clash)

(* Mutant: no room for the tags.                                           *)
MallocBare(c, n) ==
  /\ pc[c] = "idle" /\ owner = None
  /\ owner' = c
  /\ pc' = [pc EXCEPT ![c] = "walk"]
  /\ cur' = [cur EXCEPT ![c] = Start]
  /\ want' = [want EXCEPT ![c] = AlignUp(n)]
  /\ asked' = [asked EXCEPT ![c] = n]
  /\ Note(FreeUnderWay(c))
  /\ UNCHANGED <<mem, live>>

Malloc(c, n) ==
  /\ pc[c] = "idle" /\ owner = None
  /\ owner' = c
  /\ StartWalk(c, n)
  /\ Note(FreeUnderWay(c))
  /\ UNCHANGED <<mem, live>>

(* Mutant: a block of just the right size is passed over.                  *)
FitsWithRoom(c) == BlkFree(cur[c]) /\ BlkSize(cur[c]) > want[c]

Fits(c) == BlkFree(cur[c]) /\ BlkSize(cur[c]) >= want[c]

WalkOn(c) ==
  /\ pc[c] = "walk"
  /\ BlkSize(cur[c]) > 0
  /\ ~Fits(c)
  /\ cur' = [cur EXCEPT ![c] = NextBlk(@)]
  /\ UNCHANGED <<mem, owner, pc, want, asked, live, spoiled>>

(* The words a caller may use: from the pointer to the tag at the end.     *)
Payload(b) == b.ptr .. b.ptr + b.size - BookKeeping - 1

(* The block that want[c] words get of the free block at cur[c]: all of    *)
(* it, unless it leaves room for another.                                  *)
Cut(c) ==
  LET osize == BlkSize(cur[c]) IN
  [ptr  |-> cur[c],
   size |-> IF osize >= want[c] + AlignUp(Align + BookKeeping) THEN want[c] ELSE osize]

(* Mutant: the rest of a split block gets no tags.                         *)
AllocateNoRest(c) ==
  LET b == Cut(c)
      marked == MarkBlk(mem, b.ptr, b.size, 1) IN
  /\ pc[c] = "walk"
  /\ BlkSize(b.ptr) > 0 /\ Fits(c)
  /\ mem' = [w \in Word |-> IF w \in Payload(b) THEN Data ELSE marked[w]]
  /\ live' = live \cup {b}

(* A block that fits is marked and its rest made a block.  The caller then *)
(* writes what it likes into its words, over what may have been tags once. *)
Allocate(c) ==
  LET b == Cut(c)
      rest == BlkSize(b.ptr) - b.size
      marked == MarkBlk(mem, b.ptr, b.size, 1)
      split == IF rest > 0 THEN MarkBlk(marked, b.ptr + b.size, rest, 0) ELSE marked IN
  /\ pc[c] = "walk"
  /\ BlkSize(b.ptr) > 0 /\ Fits(c)
  /\ mem' = [w \in Word |-> IF w \in Payload(b) THEN Data ELSE split[w]]
  /\ live' = live \cup {b}

Take(c) == Allocate(c) /\ owner' = None /\ Finish(c) /\ UNCHANGED spoiled

Refuse(c) ==
  /\ pc[c] = "walk"
  /\ BlkSize(cur[c]) = 0
  /\ owner' = None
  /\ Finish(c)
  /\ UNCHANGED <<mem, live, spoiled>>

-----------------------------------------------------------------------------
(* sae_alloc_free.                                                         *)

(* Mutants: the next block is taken to be free; the block before is not    *)
(* looked at.                                                              *)
MergedWithNext(m, p) ==
  [ptr |-> p, size |-> GetSize(m[p - 1]) + GetSize(m[p + GetSize(m[p - 1]) - 1])]

MergedForward(m, p) ==
  LET size == GetSize(m[p - 1]) IN
  [ptr |-> p, size |-> size + (IF GetFree(m[p + size - 1])
                               THEN GetSize(m[p + size - 1]) ELSE 0)]

(* What sae_alloc_coalesce makes of the free block p of memory m.          *)
Merged(m, p) ==
  LET size == GetSize(m[p - 1])
      prev == p - GetSize(m[p - 2])
      next == p + size
      pfree == GetFree(m[prev - 1])
      nfree == GetFree(m[next - 1]) IN
  [ptr  |-> IF pfree THEN prev ELSE p,
   size |-> size + (IF pfree THEN GetSize(m[prev - 1]) ELSE 0)
                 + (IF nfree THEN GetSize(m[next - 1]) ELSE 0)]

(* sae_safeFree, and sae_unRefMsgBuffer: under the lock.                   *)
FreeLocked(c, b) ==
  LET freed == MarkBlk(mem, b.ptr, BlkSize(b.ptr), 0)
      r == Merged(freed, b.ptr) IN
  /\ pc[c] = "idle" /\ owner = None
  /\ mem' = MarkBlk(freed, r.ptr, r.size, 0)
  /\ live' = live \ {b}
  /\ Note(FreeUnderWay(c))
  /\ UNCHANGED <<owner, pc, cur, want, asked>>

(* sae_free of a stream by sae_unRegisterStream, without the lock.         *)
FreeMark(c, b) ==
  /\ pc[c] = "idle"
  /\ mem' = MarkBlk(mem, b.ptr, BlkSize(b.ptr), 0)
  /\ pc' = [pc EXCEPT ![c] = "look"]
  /\ cur' = [cur EXCEPT ![c] = b.ptr]
  /\ live' = live \ {b}
  /\ Note(\E d \in Core \ {c} : pc[d] # "idle")
  /\ UNCHANGED <<owner, want, asked>>

(* With no free neighbour there is nothing to merge.                       *)
FreeLook(c) ==
  LET r == Merged(mem, cur[c]) IN
  /\ pc[c] = "look"
  /\ IF r.size = BlkSize(cur[c])
     THEN Finish(c)
     ELSE /\ pc' = [pc EXCEPT ![c] = "merge"]
          /\ cur' = [cur EXCEPT ![c] = r.ptr]
          /\ want' = [want EXCEPT ![c] = r.size]
          /\ UNCHANGED asked
  /\ UNCHANGED <<mem, owner, live, spoiled>>

FreeMerge(c) ==
  /\ pc[c] = "merge"
  /\ mem' = MarkBlk(mem, cur[c], want[c], 0)
  /\ Finish(c)
  /\ UNCHANGED <<owner, live, spoiled>>

-----------------------------------------------------------------------------
Next == \E c \in Core :
          \/ \E n \in Requests : Malloc(c, n)
          \/ WalkOn(c) \/ Take(c) \/ Refuse(c)
          \/ \E b \in live : FreeLocked(c, b) \/ FreeMark(c, b)
          \/ FreeLook(c) \/ FreeMerge(c)

Spec == Init /\ [][Next]_vars

-----------------------------------------------------------------------------
(* Of a spoiled heap only the calls' own places are known.                  *)
TypeOK ==
  /\ owner \in Core \cup {None} /\ spoiled \in BOOLEAN
  /\ pc \in [Core -> {"idle", "walk", "look", "merge"}]
  /\ spoiled \/ /\ mem \in [Word -> Nat]
                /\ cur \in [Core -> Ptr]
                /\ want \in [Core -> Nat] /\ asked \in [Core -> Nat]
                /\ live \subseteq [ptr : Ptr, size : Nat]

(* The blocks met by going from block to block, up to the empty one that   *)
(* ends the heap or to where the tags lead nowhere.                        *)
Walk == LET w[p \in Ptr] == IF BlkSize(p) > 0 /\ NextBlk(p) \in Ptr
                            THEN {p} \cup w[NextBlk(p)] ELSE {p}
        IN w[Start]

(* Unless it is spoiled, sae_alloc_checkheap returns true: the tags before *)
(* and at the end of every block agree and the walk ends at the end marker.*)
HeapConsistent ==
  spoiled \/ /\ mem[PrevBlk(Start) - 1] = Align + 1
             /\ \A p \in Walk \ {End} : /\ NextBlk(p) \in Ptr
                                        /\ mem[p - 1] = mem[NextBlk(p) - 2]
             /\ End \in Walk /\ BlkSize(End) = 0 /\ ~BlkFree(End)

(* Every block that was handed out is still a block of the heap, allocated *)
(* and of the size it had: no free and no other malloc has swallowed it,   *)
(* not even a malloc between the steps of sae_unRegisterStream's frees.    *)
BlocksIntact ==
  \A b \in live : b.ptr \in Walk /\ ~BlkFree(b.ptr) /\ BlkSize(b.ptr) = b.size

(* They are, until the heap has been used in the middle of such a free.    *)
LiveBlocksIntact == spoiled \/ BlocksIntact

(* No memory is lost in a heap that is not spoiled: what is not handed out *)
(* is free, and free neighbours have been merged, but for a free in        *)
(* progress.                                                               *)
Coalesced ==
  (~spoiled /\ \A c \in Core : pc[c] \in {"idle", "walk"}) =>
     \A p \in Walk \ {End} :
        /\ BlkFree(p) => ~BlkFree(NextBlk(p))
        /\ ~BlkFree(p) => \E b \in live : b.ptr = p

(* A request is refused only if no gap between the blocks handed out is    *)
(* large enough for it, as long as the heap is not spoiled.                *)
InUse(w) == \E b \in live : w \in b.ptr .. b.ptr + b.size - 1

RefusedOnlyWhenFull ==
  \A c \in Core : (~spoiled /\ pc[c] = "walk" /\ BlkSize(cur[c]) = 0) =>
     \A lo \in Start .. End - want[c] : \E w \in lo .. lo + want[c] - 1 : InUse(w)

(* The regions handed out.                                                 *)
Regions == {Payload(b) : b \in live}
Arena == INSTANCE SaeArena WITH Addr <- Start .. End - 1, Length <- Requests,
                                Caller <- Core, regions <- Regions

(* Whoever asks gets a region as long as asked for, which nobody else has, *)
(* or nothing: every step does what SaeArena allows, until one has spoiled *)
(* the heap.                                                               *)
ImplementsArena == Arena!Init /\ [][spoiled' \/ Arena!Next]_Arena!vars

=============================================================================
