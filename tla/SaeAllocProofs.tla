---------------------------- MODULE SaeAllocProofs ----------------------------
(***************************************************************************)
(* Proofs about the shared heap of SaeAlloc, for any number of cores, any  *)
(* size of the memory and any requests.                                    *)
(*                                                                         *)
(* The argument is about the set B of the blocks' addresses.  The words    *)
(* are Tiled by B: each block's tags agree, the next block is in B, and    *)
(* nothing of B lies between.  MARK_BLK takes B to B with the blocks from  *)
(* lo to hi Joined, or to B with one more; what is handed out stays the    *)
(* set of allocated blocks.  The walk by which the properties are stated   *)
(* is shown to meet just B.                                                *)
(*                                                                         *)
(* Nothing is assumed of when streams are unregistered: what is shown of   *)
(* the heap holds until it is spoiled, that is used by one core in the     *)
(* middle of another's free without the lock.                              *)
(***************************************************************************)
EXTENDS SaeAlloc, WellFoundedInduction, TLAPS

-----------------------------------------------------------------------------
(* A memory m whose words from Start to End are tiled by the blocks that   *)
(* begin at B, each with the same tag in front and at its end.             *)

SizeAt(m, p) == GetSize(m[p - 1])
FreeAt(m, p) == GetFree(m[p - 1])
NextAt(m, p) == p + SizeAt(m, p)

Smallest == Align + BookKeeping

Tiled(m, B) ==
  /\ m \in [Word -> Nat]
  /\ B \subseteq Ptr /\ Start \in B /\ End \in B
  /\ m[Start - 3] = Align + 1 /\ m[Start - 2] = Align + 1 /\ m[End - 1] = 1
  /\ \A p \in B \ {End} : /\ SizeAt(m, p) >= Smallest
                          /\ NextAt(m, p) \in B
                          /\ m[NextAt(m, p) - 2] = m[p - 1]
                          /\ \A q \in B : q <= p \/ q >= NextAt(m, p)
  /\ \A p \in B \ {Start} : \E q \in B \ {End} : NextAt(m, q) = p

LEMMA Bounds ==
  /\ Start = 4 /\ End \in Nat /\ End % 2 = 0 /\ End >= 8 /\ Word = 0 .. End - 1
  /\ Align = 2 /\ BookKeeping = 2 /\ Smallest = 4
  /\ \A p \in Ptr : p \in Nat /\ p >= 4 /\ p <= End /\ p % 2 = 0
  /\ \A p \in Nat : p >= 4 /\ p <= End /\ p % 2 = 0 => p \in Ptr
  /\ 4 \in Ptr /\ End \in Ptr
BY HeapAssumption DEF Start, End, Align, BookKeeping, Word, Ptr, Smallest

LEMMA TagIs ==
  ASSUME NEW size \in Nat, size % 2 = 0, NEW alloc \in {0, 1}
  PROVE  /\ GetSize(size + alloc) = size
         /\ GetFree(size + alloc) <=> alloc = 0
         /\ size + alloc \in Nat
BY DEF GetSize, GetFree, Align

LEMMA SizeIs ==
  ASSUME NEW tag \in Nat
  PROVE  /\ GetSize(tag) \in Nat /\ GetSize(tag) % 2 = 0
         /\ GetFree(tag) => tag = GetSize(tag)
         /\ ~GetFree(tag) => tag = GetSize(tag) + 1
BY DEF GetSize, GetFree, Align

LEMMA EvenSum ==
  /\ \A x, y \in Nat : x % 2 = 0 /\ y % 2 = 0 => (x + y) % 2 = 0
  /\ \A x, y \in Nat : x % 2 = 0 /\ y % 2 = 0 /\ x <= y => y - x \in Nat /\ (y - x) % 2 = 0
OBVIOUS

LEMMA AlignUpIs ==
  ASSUME NEW n \in Nat
  PROVE  AlignUp(n) \in Nat /\ AlignUp(n) % 2 = 0 /\ AlignUp(n) >= n
BY DEF AlignUp, Align

(* What is known of a block, and of the end.                               *)
LEMMA BlockFacts ==
  ASSUME NEW m, NEW B, Tiled(m, B), NEW p \in B \ {End}
  PROVE  /\ p \in Nat /\ p % 2 = 0 /\ p >= 4 /\ p - 1 \in Word /\ m[p - 1] \in Nat
         /\ NextAt(m, p) \in B /\ NextAt(m, p) \in Nat
         /\ p + 4 <= NextAt(m, p) /\ NextAt(m, p) <= End
         /\ SizeAt(m, p) \in Nat /\ SizeAt(m, p) % 2 = 0 /\ SizeAt(m, p) >= 4
         /\ NextAt(m, p) = p + SizeAt(m, p)
         /\ NextAt(m, p) - 2 \in Word /\ m[NextAt(m, p) - 2] = m[p - 1]
         /\ \A q \in B : q <= p \/ q >= NextAt(m, p)
<1>1. p \in Ptr /\ p # End /\ p \in Nat /\ p % 2 = 0 /\ p >= 4 /\ p <= End
  BY Bounds DEF Tiled
<1>2. p - 1 \in Word /\ m[p - 1] \in Nat
  BY <1>1, Bounds DEF Tiled
<1>3. SizeAt(m, p) \in Nat /\ SizeAt(m, p) % 2 = 0
  BY <1>2, SizeIs DEF SizeAt
<1>4. /\ SizeAt(m, p) >= 4 /\ NextAt(m, p) \in B /\ m[NextAt(m, p) - 2] = m[p - 1]
      /\ \A q \in B : q <= p \/ q >= NextAt(m, p)
  BY Bounds DEF Tiled
<1>5. NextAt(m, p) \in Nat /\ NextAt(m, p) <= End
  BY <1>4, Bounds DEF Tiled
<1>6. NextAt(m, p) = p + SizeAt(m, p)
  BY DEF NextAt
<1>. QED
  BY <1>1, <1>2, <1>3, <1>4, <1>5, <1>6, Bounds

LEMMA EndFacts ==
  ASSUME NEW m, NEW B, Tiled(m, B)
  PROVE  SizeAt(m, End) = 0 /\ ~FreeAt(m, End)
<1>1. m[End - 1] = 0 + 1
  BY DEF Tiled
<1>2. 0 \in Nat /\ 0 % 2 = 0
  OBVIOUS
<1>. QED
  BY <1>1, <1>2, TagIs DEF SizeAt, FreeAt

(* What MARK_BLK changes.                                                  *)
LEMMA MarkIs ==
  ASSUME NEW m \in [Word -> Nat], NEW lo \in Nat, NEW hi \in Nat, NEW alloc \in {0, 1},
         4 <= lo, lo + 4 <= hi, hi <= End
  PROVE  /\ MarkBlk(m, lo, hi - lo, alloc) \in [Word -> Nat]
         /\ MarkBlk(m, lo, hi - lo, alloc)[lo - 1] = hi - lo + alloc
         /\ MarkBlk(m, lo, hi - lo, alloc)[hi - 2] = hi - lo + alloc
         /\ \A w \in Word : (w # lo - 1 /\ w # hi - 2) =>
                               MarkBlk(m, lo, hi - lo, alloc)[w] = m[w]
<1>1. lo - 1 \in Word /\ hi - 2 \in Word /\ lo + (hi - lo) - 2 = hi - 2
  BY Bounds
<1>2. hi - lo + alloc \in Nat
  OBVIOUS
<1>. QED
  BY <1>1, <1>2 DEF MarkBlk

(* The blocks between lo and hi made one: marking a block allocated or     *)
(* free, and coalescing.                                                   *)
Joined(B, lo, hi) == {q \in B : q <= lo \/ q >= hi}

LEMMA JoinTiled ==
  ASSUME NEW m, NEW B, Tiled(m, B), NEW lo \in B, NEW hi \in B, lo < hi, NEW alloc \in {0, 1}
  PROVE  LET n == MarkBlk(m, lo, hi - lo, alloc) IN
         /\ Tiled(n, Joined(B, lo, hi))
         /\ n[lo - 1] = hi - lo + alloc
         /\ \A q \in Joined(B, lo, hi) \ {lo} : n[q - 1] = m[q - 1]
<1>. DEFINE n == MarkBlk(m, lo, hi - lo, alloc)
            C == Joined(B, lo, hi)
<1>1. /\ B \subseteq Ptr /\ lo \in Ptr /\ hi \in Ptr /\ lo \in Nat /\ hi \in Nat
      /\ lo # End /\ lo >= 4 /\ hi <= End /\ lo % 2 = 0 /\ hi % 2 = 0
      /\ m \in [Word -> Nat]
  <2>1. B \subseteq Ptr /\ m \in [Word -> Nat]
    BY DEF Tiled
  <2>2. lo \in Ptr /\ hi \in Ptr
    BY <2>1
  <2>. QED
    BY <2>1, <2>2, Bounds
<1>2. lo + 4 <= hi
  BY <1>1, BlockFacts
<1>3. /\ n \in [Word -> Nat] /\ n[lo - 1] = hi - lo + alloc /\ n[hi - 2] = hi - lo + alloc
      /\ \A w \in Word : (w # lo - 1 /\ w # hi - 2) => n[w] = m[w]
  <2>1. lo \in Nat /\ hi \in Nat /\ 4 <= lo /\ lo + 4 <= hi /\ hi <= End
    BY <1>1, <1>2
  <2>2. m \in [Word -> Nat]
    BY <1>1
  <2>. HIDE <1>1, <1>2
  <2>. QED
    BY <2>1, <2>2, MarkIs
<1>. HIDE DEF n
<1>4. hi - lo \in Nat /\ (hi - lo) % 2 = 0
  BY <1>1, EvenSum
<1>5. C \subseteq B /\ Start \in C /\ End \in C /\ lo \in C /\ hi \in C
  BY <1>1, Bounds DEF Joined, Tiled
<1>6. ASSUME NEW q \in C, q # lo PROVE n[q - 1] = m[q - 1]
  <2>1. q \in Nat /\ q >= 4 /\ q <= End /\ (q <= lo \/ q >= hi)
    BY <1>1, <1>5, Bounds DEF Joined
  <2>2. q - 1 \in Word /\ q - 1 # lo - 1 /\ q - 1 # hi - 2
    BY <2>1, <1>1, <1>2, <1>6, Bounds
  <2>. QED
    BY <2>2, <1>3
<1>7. n[Start - 3] = Align + 1 /\ n[Start - 2] = Align + 1 /\ n[End - 1] = 1
  <2>1. /\ m[Start - 3] = Align + 1 /\ m[Start - 2] = Align + 1 /\ m[End - 1] = 1
    BY DEF Tiled
  <2>2. Start - 3 \in Word /\ Start - 2 \in Word /\ End - 1 \in Word
    BY Bounds
  <2>. QED
    BY <1>1, <1>2, <1>3, <2>1, <2>2, Bounds
<1>8. SizeAt(n, lo) = hi - lo /\ NextAt(n, lo) = hi
  <2>1. GetSize(hi - lo + alloc) = hi - lo
    BY <1>4, TagIs
  <2>. QED
    BY <1>1, <1>3, <2>1 DEF SizeAt, NextAt
<1>9. ASSUME NEW q \in C \ {End, lo}
      PROVE  /\ SizeAt(n, q) = SizeAt(m, q) /\ NextAt(n, q) = NextAt(m, q)
             /\ NextAt(m, q) \in C /\ n[NextAt(m, q) - 2] = n[q - 1]
  <2>1. SizeAt(n, q) = SizeAt(m, q) /\ NextAt(n, q) = NextAt(m, q)
    BY <1>6 DEF SizeAt, NextAt
  <2>2. q \in B \ {End} /\ q \in Nat /\ (q <= lo \/ q >= hi)
    BY <1>5, <1>1, Bounds DEF Joined
  <2>3. /\ NextAt(m, q) \in B /\ NextAt(m, q) \in Nat /\ q + 4 <= NextAt(m, q)
        /\ NextAt(m, q) - 2 \in Word /\ m[NextAt(m, q) - 2] = m[q - 1]
        /\ lo <= q \/ lo >= NextAt(m, q)
    BY <2>2, BlockFacts
  <2>4. NextAt(m, q) <= lo \/ NextAt(m, q) > hi
    BY <1>1, <2>2, <2>3
  <2>5. NextAt(m, q) - 2 # lo - 1 /\ NextAt(m, q) - 2 # hi - 2
    BY <1>1, <1>2, <2>2, <2>3, <2>4
  <2>. QED
    BY <1>3, <1>6, <2>1, <2>2, <2>3, <2>4, <2>5 DEF Joined
<1>10. ASSUME NEW p \in C \ {End}
       PROVE  /\ SizeAt(n, p) >= Smallest /\ NextAt(n, p) \in C
              /\ n[NextAt(n, p) - 2] = n[p - 1]
              /\ \A q \in C : q <= p \/ q >= NextAt(n, p)
  <2>1. CASE p = lo
    BY <2>1, <1>1, <1>2, <1>3, <1>5, <1>8, Bounds DEF Joined
  <2>2. CASE p # lo
    BY <2>2, <1>5, <1>9, BlockFacts, Bounds
  <2>. QED
    BY <2>1, <2>2
<1>11. ASSUME NEW x \in C \ {Start} PROVE \E q \in C \ {End} : NextAt(n, q) = x
  <2>1. x \in B \ {Start} /\ x \in Nat /\ (x <= lo \/ x >= hi)
    BY <1>1, <1>5, Bounds DEF Joined
  <2>2. CASE x = hi
    BY <2>2, <1>1, <1>5, <1>8
  <2>3. CASE x # hi
    <3>1. PICK q \in B \ {End} : NextAt(m, q) = x
      BY <2>1 DEF Tiled
    <3>2. q \in Nat /\ q + 4 <= x /\ (hi <= q \/ hi >= x) /\ (lo <= q \/ lo >= x)
      BY <3>1, BlockFacts
    <3>3. q \in C \ {End, lo}
      BY <1>1, <1>2, <2>1, <2>3, <3>2 DEF Joined
    <3>. QED
      BY <3>1, <3>3, <1>9
  <2>. QED
    BY <2>2, <2>3
<1>12. Tiled(n, C)
  BY <1>1, <1>3, <1>5, <1>7, <1>10, <1>11 DEF Tiled
<1>. QED
  BY <1>3, <1>6, <1>12 DEF n

(* A block made two, the second one free.                                  *)
LEMMA SplitTiled ==
  ASSUME NEW m, NEW B, Tiled(m, B), NEW p \in B \ {End},
         NEW c, c \in Nat, c % 2 = 0, p + 4 <= c, c + 4 <= NextAt(m, p),
         NEW n, n = MarkBlk(MarkBlk(m, p, c - p, 1), c, NextAt(m, p) - c, 0)
  PROVE  /\ Tiled(n, B \cup {c})
         /\ NextAt(n, p) = c /\ ~FreeAt(n, p)
         /\ NextAt(n, c) = NextAt(m, p) /\ FreeAt(n, c)
         /\ \A q \in B \ {p} : n[q - 1] = m[q - 1]
<1>. DEFINE hi == NextAt(m, p)
            n1 == MarkBlk(m, p, c - p, 1)
            C == B \cup {c}
<1>1. B \subseteq Ptr /\ m \in [Word -> Nat]
  BY DEF Tiled
<1>2. /\ p \in Nat /\ p >= 4 /\ p % 2 = 0 /\ hi \in Nat /\ hi <= End /\ hi \in B
      /\ hi % 2 = 0 /\ \A q \in B : q <= p \/ q >= hi
  BY <1>1, BlockFacts, Bounds
<1>3. p + 4 <= c /\ c + 4 <= hi /\ n = MarkBlk(n1, c, hi - c, 0)
  OBVIOUS
<1>. HIDE DEF hi
<1>4. /\ n1 \in [Word -> Nat] /\ n1[p - 1] = c - p + 1 /\ n1[c - 2] = c - p + 1
      /\ \A w \in Word : (w # p - 1 /\ w # c - 2) => n1[w] = m[w]
  <2>1. 4 <= p /\ c <= End
    BY <1>2, <1>3, Bounds
  <2>2. 1 \in {0, 1}
    OBVIOUS
  <2>3. /\ MarkBlk(m, p, c - p, 1) \in [Word -> Nat]
        /\ MarkBlk(m, p, c - p, 1)[p - 1] = c - p + 1
        /\ MarkBlk(m, p, c - p, 1)[c - 2] = c - p + 1
        /\ \A w \in Word : (w # p - 1 /\ w # c - 2) => MarkBlk(m, p, c - p, 1)[w] = m[w]
    <3>. HIDE DEF n1
    <3>. QED
      BY <1>1, <1>2, <1>3, <2>1, <2>2, MarkIs
  <2>. QED
    BY <2>3
<1>. HIDE DEF n1
<1>5. /\ n \in [Word -> Nat] /\ n[c - 1] = hi - c + 0 /\ n[hi - 2] = hi - c + 0
      /\ \A w \in Word : (w # c - 1 /\ w # hi - 2) => n[w] = n1[w]
  <2>1. 4 <= c
    BY <1>2, <1>3
  <2>2. 0 \in {0, 1}
    OBVIOUS
  <2>3. /\ MarkBlk(n1, c, hi - c, 0) \in [Word -> Nat]
        /\ MarkBlk(n1, c, hi - c, 0)[c - 1] = hi - c + 0
        /\ MarkBlk(n1, c, hi - c, 0)[hi - 2] = hi - c + 0
        /\ \A w \in Word : (w # c - 1 /\ w # hi - 2) => MarkBlk(n1, c, hi - c, 0)[w] = n1[w]
    <3>1. hi \in Nat /\ c \in Nat /\ 4 <= c /\ c + 4 <= hi /\ hi <= End
      BY <1>2, <1>3, <2>1
    <3>2. n1 \in [Word -> Nat]
      BY <1>4
    <3>. QED
      BY <3>1, <3>2, <2>2, MarkIs
  <2>. QED
    BY <1>3, <2>3
<1>6. /\ n[p - 1] = c - p + 1 /\ n[c - 2] = c - p + 1
      /\ n[c - 1] = hi - c /\ n[hi - 2] = hi - c
      /\ \A w \in Word : (w # p - 1 /\ w # c - 2 /\ w # c - 1 /\ w # hi - 2) => n[w] = m[w]
  <2>1. p - 1 \in Word /\ c - 2 \in Word
    BY <1>2, <1>3, Bounds
  <2>. QED
    BY <1>2, <1>4, <1>5, <1>3, <2>1
<1>7. C \subseteq Ptr /\ Start \in C /\ End \in C /\ c \in Ptr /\ p \in C /\ hi \in C
  <2>1. c \in Ptr
    BY <1>2, <1>3, Bounds
  <2>. QED
    BY <1>1, <1>2, <2>1 DEF Tiled
<1>8. ASSUME NEW q \in B \ {p} PROVE n[q - 1] = m[q - 1]
  <2>1. q \in Nat /\ q >= 4 /\ q <= End /\ (q < p \/ q >= hi)
    BY <1>1, <1>2, <1>8, Bounds
  <2>2. q - 1 \in Word /\ q - 1 # p - 1 /\ q - 1 # c - 2 /\ q - 1 # c - 1 /\ q - 1 # hi - 2
    BY <2>1, <1>2, <1>3, Bounds
  <2>. QED
    BY <2>2, <1>6
<1>9. n[Start - 3] = Align + 1 /\ n[Start - 2] = Align + 1 /\ n[End - 1] = 1
  <2>1. /\ m[Start - 3] = Align + 1 /\ m[Start - 2] = Align + 1 /\ m[End - 1] = 1
    BY DEF Tiled
  <2>2. Start - 3 \in Word /\ Start - 2 \in Word /\ End - 1 \in Word
    BY Bounds
  <2>. QED
    BY <1>2, <1>3, <1>6, <2>1, <2>2, Bounds
<1>10. /\ SizeAt(n, p) = c - p /\ NextAt(n, p) = c /\ SizeAt(n, c) = hi - c /\ NextAt(n, c) = hi
       /\ ~FreeAt(n, p) /\ FreeAt(n, c)
  <2>1. c - p \in Nat /\ (c - p) % 2 = 0 /\ hi - c \in Nat /\ (hi - c) % 2 = 0
    BY <1>2, <1>3, EvenSum
  <2>2. /\ GetSize(c - p + 1) = c - p /\ GetSize(hi - c + 0) = hi - c
        /\ ~GetFree(c - p + 1) /\ GetFree(hi - c + 0)
    BY <2>1, TagIs
  <2>. QED
    BY <1>2, <1>6, <2>1, <2>2 DEF SizeAt, NextAt, FreeAt
<1>11. ASSUME NEW q \in B \ {End, p}
       PROVE  /\ SizeAt(n, q) = SizeAt(m, q) /\ NextAt(n, q) = NextAt(m, q)
              /\ n[NextAt(m, q) - 2] = n[q - 1] /\ (c <= q \/ c >= NextAt(m, q))
  <2>1. SizeAt(n, q) = SizeAt(m, q) /\ NextAt(n, q) = NextAt(m, q)
    BY <1>8 DEF SizeAt, NextAt
  <2>2. /\ NextAt(m, q) \in Nat /\ q + 4 <= NextAt(m, q) /\ q \in Nat
        /\ NextAt(m, q) - 2 \in Word /\ m[NextAt(m, q) - 2] = m[q - 1]
        /\ p <= q \/ p >= NextAt(m, q)
        /\ hi <= q \/ hi >= NextAt(m, q)
    BY <1>2, BlockFacts
  <2>3. q < p \/ q >= hi
    BY <1>2, <2>2
  <2>4. NextAt(m, q) <= p \/ NextAt(m, q) > hi
    BY <1>2, <1>3, <2>2, <2>3
  <2>5. LET e == NextAt(m, q) - 2 IN e # p - 1 /\ e # c - 2 /\ e # c - 1 /\ e # hi - 2
    BY <1>2, <1>3, <2>2, <2>4
  <2>. QED
    BY <1>2, <1>3, <1>6, <1>8, <2>1, <2>2, <2>3, <2>4, <2>5
<1>12. ASSUME NEW x \in C \ {End}
       PROVE  /\ SizeAt(n, x) >= Smallest /\ NextAt(n, x) \in C
              /\ n[NextAt(n, x) - 2] = n[x - 1]
              /\ \A q \in C : q <= x \/ q >= NextAt(n, x)
  <2>1. CASE x = p
    BY <2>1, <1>2, <1>3, <1>6, <1>7, <1>10, Bounds
  <2>2. CASE x = c
    <3>1. SizeAt(n, c) >= Smallest /\ NextAt(n, c) \in C /\ n[hi - 2] = n[c - 1]
      BY <1>2, <1>3, <1>6, <1>7, <1>10, Bounds
    <3>2. \A q \in C : q <= c \/ q >= hi
      BY <1>2, <1>3
    <3>. QED
      BY <2>2, <1>10, <3>1, <3>2
  <2>3. CASE x # p /\ x # c
    <3>1. x \in B \ {End, p}
      BY <2>3
    <3>2. /\ SizeAt(m, x) >= Smallest /\ NextAt(m, x) \in B
          /\ \A q \in B : q <= x \/ q >= NextAt(m, x)
      BY <3>1 DEF Tiled
    <3>. QED
      BY <3>1, <3>2, <1>11
  <2>. QED
    BY <2>1, <2>2, <2>3
<1>13. ASSUME NEW x \in C \ {Start} PROVE \E q \in C \ {End} : NextAt(n, q) = x
  <2>1. p # End /\ c # End
    BY <1>2, <1>3
  <2>2. CASE x = c \/ x = hi
    BY <2>1, <2>2, <1>7, <1>10
  <2>3. CASE x # c /\ x # hi
    <3>1. PICK q \in B \ {End} : NextAt(m, q) = x
      BY <2>3 DEF Tiled
    <3>2. q \in B \ {End, p}
      BY <2>3, <3>1 DEF hi
    <3>. QED
      BY <3>1, <3>2, <1>11
  <2>. QED
    BY <2>2, <2>3
<1>14. Tiled(n, C)
  BY <1>5, <1>7, <1>9, <1>12, <1>13 DEF Tiled
<1>. QED
  BY <1>8, <1>10, <1>14 DEF hi

(* What a caller writes into its block.                                    *)
LEMMA FillTiled ==
  ASSUME NEW m, NEW B, Tiled(m, B), NEW p \in B \ {End}, NEW last, last = NextAt(m, p) - 3
  PROVE  LET n == [w \in Word |-> IF w \in p .. last THEN Data ELSE m[w]] IN
         /\ Tiled(n, B) /\ \A q \in B : n[q - 1] = m[q - 1]
<1>. DEFINE n == [w \in Word |-> IF w \in p .. last THEN Data ELSE m[w]]
<1>1. B \subseteq Ptr /\ m \in [Word -> Nat]
  BY DEF Tiled
<1>2. /\ p \in Nat /\ NextAt(m, p) \in Nat /\ p >= 4 /\ NextAt(m, p) <= End
      /\ \A q \in B : q <= p \/ q >= NextAt(m, p)
  BY BlockFacts
<1>3. n \in [Word -> Nat] /\ \A w \in Word : (w < p \/ w > last) => n[w] = m[w]
  BY <1>1, <1>2, HeapAssumption, Bounds
<1>. HIDE DEF n
<1>4. ASSUME NEW q \in B
      PROVE  /\ n[q - 1] = m[q - 1]
             /\ (q # Start => n[q - 2] = m[q - 2])
  <2>1. q \in Nat /\ q >= 4 /\ q <= End /\ (q <= p \/ q >= NextAt(m, p))
    BY <1>1, <1>2, Bounds
  <2>2. q - 1 \in Word /\ q - 2 \in Word
    BY <2>1, Bounds
  <2>. QED
    BY <1>2, <1>3, <2>1, <2>2
<1>5. n[Start - 3] = Align + 1 /\ n[Start - 2] = Align + 1 /\ n[End - 1] = 1
  <2>1. /\ m[Start - 3] = Align + 1 /\ m[Start - 2] = Align + 1 /\ m[End - 1] = 1
    BY DEF Tiled
  <2>2. Start - 3 \in Word /\ Start - 2 \in Word /\ End - 1 \in Word
    BY Bounds
  <2>3. /\ Start - 3 < p /\ Start - 2 < p /\ End - 1 > last
    BY <1>2, Bounds
  <2>. QED
    BY <1>3, <2>1, <2>2, <2>3
<1>6. \A q \in B : SizeAt(n, q) = SizeAt(m, q) /\ NextAt(n, q) = NextAt(m, q)
  BY <1>4 DEF SizeAt, NextAt
<1>7. ASSUME NEW q \in B \ {End} PROVE n[NextAt(n, q) - 2] = n[q - 1]
  <2>1. NextAt(m, q) \in B /\ NextAt(m, q) # Start /\ m[NextAt(m, q) - 2] = m[q - 1]
    <3>1. q >= 4 /\ q \in Nat /\ NextAt(m, q) \in Nat /\ q + 4 <= NextAt(m, q)
          /\ NextAt(m, q) \in B /\ m[NextAt(m, q) - 2] = m[q - 1]
      BY BlockFacts
    <3>. QED
      BY <3>1, Bounds
  <2>. QED
    BY <1>4, <1>6, <2>1
<1>8. Tiled(n, B)
  BY <1>3, <1>5, <1>6, <1>7 DEF Tiled
<1>. QED
  BY <1>4, <1>8 DEF n

(* The same in terms of sizes and allocated bits.                          *)
LEMMA JoinFacts ==
  ASSUME NEW m, NEW B, Tiled(m, B), NEW lo \in B, NEW hi \in B, lo < hi, NEW alloc \in {0, 1},
         NEW n, n = MarkBlk(m, lo, hi - lo, alloc)
  PROVE  /\ Tiled(n, Joined(B, lo, hi))
         /\ SizeAt(n, lo) = hi - lo /\ NextAt(n, lo) = hi /\ (FreeAt(n, lo) <=> alloc = 0)
         /\ n[lo - 1] = hi - lo + alloc
         /\ \A q \in Joined(B, lo, hi) \ {lo} :
               /\ n[q - 1] = m[q - 1] /\ SizeAt(n, q) = SizeAt(m, q)
               /\ NextAt(n, q) = NextAt(m, q) /\ (FreeAt(n, q) <=> FreeAt(m, q))
<1>1. /\ Tiled(n, Joined(B, lo, hi))
      /\ n[lo - 1] = hi - lo + alloc
      /\ \A q \in Joined(B, lo, hi) \ {lo} : n[q - 1] = m[q - 1]
  BY JoinTiled
<1>2. lo \in Ptr /\ hi \in Ptr
  BY DEF Tiled
<1>3. hi - lo \in Nat /\ (hi - lo) % 2 = 0 /\ lo + (hi - lo) = hi
  BY <1>2, Bounds, EvenSum
<1>4. SizeAt(n, lo) = hi - lo /\ NextAt(n, lo) = hi /\ (FreeAt(n, lo) <=> alloc = 0)
  BY <1>1, <1>3, TagIs DEF SizeAt, NextAt, FreeAt
<1>. QED
  BY <1>1, <1>4 DEF SizeAt, NextAt, FreeAt

-----------------------------------------------------------------------------
(* Coalescing.                                                             *)

(* No two free blocks are neighbours, or none but with p.                  *)
Apart(m, B) ==
  \A q \in B \ {End} : ~(FreeAt(m, q) /\ FreeAt(m, NextAt(m, q)))
ApartBut(m, B, p) ==
  \A q \in B \ {End} : (FreeAt(m, q) /\ FreeAt(m, NextAt(m, q))) => (q = p \/ NextAt(m, q) = p)

(* The blocks from lo to hi are free and may become one: their neighbours  *)
(* are not free, and nor is one of two neighbours elsewhere.               *)
Joinable(m, B, lo, hi) ==
  /\ lo \in B /\ hi \in B /\ lo < hi
  /\ \A q \in B : lo <= q /\ q < hi => FreeAt(m, q)
  /\ ~FreeAt(m, hi)
  /\ \A q \in B \ {End} : NextAt(m, q) = lo => ~FreeAt(m, q)
  /\ \A q \in B \ {End} : (FreeAt(m, q) /\ FreeAt(m, NextAt(m, q))) =>
                            (lo <= q /\ NextAt(m, q) < hi)

(* What PREV finds: the block before, or the marker before the first.      *)
LEMMA PrevIs ==
  ASSUME NEW m, NEW B, Tiled(m, B), NEW p \in B
  PROVE  LET q == p - GetSize(m[p - 2]) IN
         \/ /\ q \in B \ {End} /\ NextAt(m, q) = p
         \/ /\ p = Start /\ ~FreeAt(m, q)
<1>1. CASE p = Start
  <2>1. m[p - 2] = 2 + 1 /\ m[2 - 1] = 2 + 1
    BY <1>1, Bounds DEF Tiled
  <2>2. 2 \in Nat /\ 2 % 2 = 0
    OBVIOUS
  <2>3. GetSize(m[p - 2]) = 2 /\ ~GetFree(m[2 - 1])
    BY <2>1, <2>2, TagIs
  <2>4. p - 2 = 2
    BY <1>1, Bounds
  <2>. QED
    BY <1>1, <2>3, <2>4 DEF FreeAt
<1>2. CASE p # Start
  <2>1. PICK q \in B \ {End} : NextAt(m, q) = p
    BY <1>2 DEF Tiled
  <2>2. m[p - 2] = m[q - 1] /\ p = q + SizeAt(m, q) /\ q \in Nat /\ SizeAt(m, q) \in Nat
    BY <2>1, BlockFacts
  <2>3. p - GetSize(m[p - 2]) = q
    BY <2>2 DEF SizeAt
  <2>. QED
    BY <2>1, <2>3
<1>. QED
  BY <1>1, <1>2

LEMMA MergedJoinable ==
  ASSUME NEW m, NEW B, Tiled(m, B), NEW p \in B \ {End}, FreeAt(m, p), ApartBut(m, B, p),
         NEW r, r = Merged(m, p)
  PROVE  /\ r.size \in Nat /\ r.ptr \in B /\ r.ptr <= p
         /\ Joinable(m, B, r.ptr, r.ptr + r.size)
         /\ (r.size = SizeAt(m, p) => r.ptr = p)
<1>. DEFINE prev == p - GetSize(m[p - 2])
            next == NextAt(m, p)
            lo == IF FreeAt(m, prev) THEN prev ELSE p
            hi == IF FreeAt(m, next) THEN NextAt(m, next) ELSE next
<1>1. /\ p \in Nat /\ next \in Nat /\ next \in B /\ SizeAt(m, p) \in Nat /\ p < next
      /\ next = p + SizeAt(m, p) /\ \A q \in B : q <= p \/ q >= next
      /\ SizeAt(m, p) >= 4
  BY BlockFacts
<1>2. FreeAt(m, next) => next \in B \ {End}
  BY <1>1, EndFacts
<1>3. FreeAt(m, prev) => prev \in B \ {End} /\ NextAt(m, prev) = p
  BY PrevIs
<1>4. FreeAt(m, next) =>
        /\ NextAt(m, next) \in B /\ NextAt(m, next) \in Nat /\ SizeAt(m, next) \in Nat
        /\ next < NextAt(m, next) /\ NextAt(m, next) = next + SizeAt(m, next)
        /\ SizeAt(m, next) >= 4
        /\ \A q \in B : q <= next \/ q >= NextAt(m, next)
  BY <1>2, BlockFacts
<1>5. FreeAt(m, prev) =>
        /\ prev \in Nat /\ SizeAt(m, prev) \in Nat /\ prev < p /\ p = prev + SizeAt(m, prev)
        /\ SizeAt(m, prev) >= 4
        /\ \A q \in B : q <= prev \/ q >= p
  BY <1>3, BlockFacts
<1>6. /\ r.ptr = lo
      /\ r.size = SizeAt(m, p) + (IF FreeAt(m, prev) THEN SizeAt(m, prev) ELSE 0)
                               + (IF FreeAt(m, next) THEN SizeAt(m, next) ELSE 0)
  BY DEF Merged, FreeAt, SizeAt, NextAt
<1>. HIDE DEF prev, next
<1>7. r.ptr + r.size = hi /\ r.size \in Nat
  <2>1. CASE FreeAt(m, prev)
    BY <1>1, <1>4, <1>5, <1>6, <2>1
  <2>2. CASE ~FreeAt(m, prev)
    BY <1>1, <1>4, <1>5, <1>6, <2>2
  <2>. QED
    BY <2>1, <2>2
<1>8. lo \in B /\ hi \in B /\ lo <= p /\ p < next /\ next <= hi /\ lo \in Nat /\ hi \in Nat
  BY <1>1, <1>2, <1>3, <1>4, <1>5
<1>9. ASSUME NEW q \in B, lo <= q, q < hi PROVE FreeAt(m, q)
  <2>1. q \in Nat
    BY Bounds DEF Tiled
  <2>2. q = p \/ (q = prev /\ FreeAt(m, prev)) \/ (q = next /\ FreeAt(m, next))
    BY <1>1, <1>4, <1>5, <1>8, <1>9, <2>1
  <2>. QED
    BY <2>2
<1>10. ~FreeAt(m, hi)
  <2>1. CASE FreeAt(m, next)
    <3>1. hi # p /\ next # p /\ hi = NextAt(m, next)
      BY <1>1, <1>4, <2>1
    <3>. QED
      BY <1>2, <2>1, <3>1 DEF ApartBut
  <2>. QED
    BY <2>1
<1>11. ASSUME NEW q \in B \ {End}, NextAt(m, q) = lo PROVE ~FreeAt(m, q)
  <2>1. q \in Nat /\ q < lo
    BY <1>8, <1>11, BlockFacts
  <2>2. CASE FreeAt(m, prev)
    <3>1. q # p /\ lo # p
      BY <1>5, <2>1, <2>2
    <3>. QED
      BY <1>11, <2>2, <3>1 DEF ApartBut
  <2>3. CASE ~FreeAt(m, prev)
    <3>1. p # Start
      BY <1>11, <2>1, <2>3, Bounds DEF Tiled
    <3>2. prev \in B \ {End} /\ NextAt(m, prev) = p
      BY <3>1, PrevIs DEF prev
    <3>3. q = prev
      <4>1. prev \in Nat /\ prev < p /\ \A x \in B : x <= prev \/ x >= p
        BY <3>2, BlockFacts
      <4>2. \A x \in B : x <= q \/ x >= p
        BY <1>11, <2>3, BlockFacts
      <4>. QED
        BY <1>1, <2>1, <2>3, <3>2, <4>1, <4>2
    <3>. QED
      BY <2>3, <3>3
  <2>. QED
    BY <2>2, <2>3
<1>12. ASSUME NEW q \in B \ {End}, FreeAt(m, q), FreeAt(m, NextAt(m, q))
       PROVE  lo <= q /\ NextAt(m, q) < hi
  <2>1. CASE q = p
    BY <1>1, <1>4, <1>8, <1>12, <2>1 DEF next
  <2>2. CASE NextAt(m, q) = p
    <3>1. q < p /\ q \in Nat
      BY <2>2, BlockFacts
    <3>2. p # Start
      BY <3>1, Bounds DEF Tiled
    <3>3. prev \in B \ {End} /\ NextAt(m, prev) = p
      BY <3>2, PrevIs DEF prev
    <3>4. q = prev
      <4>1. prev \in Nat /\ prev < p /\ \A x \in B : x <= prev \/ x >= p
        BY <3>3, BlockFacts
      <4>2. \A x \in B : x <= q \/ x >= p
        BY <2>2, BlockFacts
      <4>. QED
        BY <1>1, <3>1, <3>3, <4>1, <4>2
    <3>. QED
      <4>1. lo = q
        BY <1>12, <3>4
      <4>2. NextAt(m, q) < hi
        BY <1>1, <1>8, <2>2
      <4>. QED
        BY <4>1, <4>2, <3>1
  <2>. QED
    BY <1>12, <2>1, <2>2 DEF ApartBut
<1>. HIDE DEF lo, hi
<1>13. Joinable(m, B, lo, hi)
  BY <1>1, <1>8, <1>9, <1>10, <1>11, <1>12 DEF Joinable
<1>14. r.size = SizeAt(m, p) => lo = p
  BY <1>1, <1>4, <1>5, <1>6, <1>7 DEF lo
<1>. QED
  BY <1>6, <1>7, <1>8, <1>13, <1>14

(* Made one they leave no two free neighbours.                             *)
LEMMA JoinApart ==
  ASSUME NEW m, NEW B, Tiled(m, B), NEW lo, NEW hi, Joinable(m, B, lo, hi),
         NEW n, n = MarkBlk(m, lo, hi - lo, 0)
  PROVE  Apart(n, Joined(B, lo, hi))
<1>. DEFINE C == Joined(B, lo, hi)
<1>1. lo \in B /\ hi \in B /\ lo < hi /\ 0 \in {0, 1}
  BY DEF Joinable
<1>2. /\ Tiled(n, C) /\ NextAt(n, lo) = hi
      /\ \A q \in C \ {lo} : /\ NextAt(n, q) = NextAt(m, q)
                             /\ (FreeAt(n, q) <=> FreeAt(m, q))
  BY <1>1, JoinFacts
<1>3. \A q \in C : q \in B /\ q \in Nat /\ (q <= lo \/ q >= hi)
  BY Bounds DEF Joined, Tiled
<1>4. lo \in Nat /\ hi \in Nat /\ hi \in C /\ hi # lo
  BY <1>1, Bounds DEF Tiled, Joined
<1>. HIDE DEF C
<1>5. SUFFICES ASSUME NEW q \in C \ {End}, FreeAt(n, q), FreeAt(n, NextAt(n, q))
               PROVE  FALSE
  BY DEF Apart, C
<1>6. CASE q = lo
  BY <1>2, <1>4, <1>5, <1>6 DEF Joinable
<1>7. CASE q # lo
  <2>1. q \in B \ {End} /\ FreeAt(m, q) /\ NextAt(n, q) = NextAt(m, q) /\ q \in Nat
    BY <1>2, <1>3, <1>5, <1>7
  <2>2. NextAt(m, q) # lo
    BY <2>1 DEF Joinable
  <2>3. NextAt(n, q) \in C
    BY <1>2, <1>5 DEF Tiled
  <2>4. FreeAt(m, NextAt(m, q))
    BY <1>2, <1>5, <2>1, <2>2, <2>3
  <2>5. lo <= q /\ NextAt(m, q) < hi
    BY <2>1, <2>4 DEF Joinable
  <2>6. q < NextAt(m, q) /\ NextAt(m, q) \in Nat
    BY <2>1, BlockFacts
  <2>. QED
    BY <1>3, <1>4, <1>7, <2>1, <2>5, <2>6
<1>. QED
  BY <1>6, <1>7

-----------------------------------------------------------------------------
(* The invariant of the heap.                                              *)

(* Just the allocated blocks have been handed out, with the sizes that     *)
(* their tags have.                                                        *)
Sound(m, l, B) ==
  /\ Tiled(m, B)
  /\ l \subseteq [ptr : Ptr, size : Nat]
  /\ \A b \in l : /\ b.ptr \in B \ {End} /\ ~FreeAt(m, b.ptr)
                  /\ SizeAt(m, b.ptr) = b.size
  /\ \A p \in B \ {End} : ~FreeAt(m, p) => \E b \in l : b.ptr = p

(* A walk is at a block, has the lock, and has passed nothing that fits.   *)
WalkInv(B, c) ==
  /\ owner = c /\ cur[c] \in B
  /\ asked[c] \in Requests /\ want[c] = AlignUp(asked[c] + BookKeeping)
  /\ \A q \in B : q < cur[c] => ~(FreeAt(mem, q) /\ SizeAt(mem, q) >= want[c])

(* Free blocks are apart, but for those next to the one that a free in     *)
(* progress is about.                                                      *)
HeapInv(B) ==
  /\ Sound(mem, live, B)
  /\ (\A c \in Core : pc[c] \in {"idle", "walk"}) => Apart(mem, B)
  /\ \A c \in Core :
        /\ pc[c] = "walk" => WalkInv(B, c)
        /\ pc[c] # "walk" => asked[c] = 0
        /\ pc[c] = "look" => /\ cur[c] \in B \ {End} /\ FreeAt(mem, cur[c])
                             /\ ApartBut(mem, B, cur[c])
        /\ pc[c] = "merge" => Joinable(mem, B, cur[c], cur[c] + want[c])
        /\ pc[c] \in {"look", "merge"} => \A d \in Core \ {c} : pc[d] = "idle"

(* What is known of a heap that is not spoiled.                            *)
Types == /\ mem \in [Word -> Nat]
         /\ owner \in Core \cup {None}
         /\ pc \in [Core -> {"idle", "walk", "look", "merge"}]
         /\ cur \in [Core -> Ptr]
         /\ want \in [Core -> Nat] /\ asked \in [Core -> Nat]
         /\ live \subseteq [ptr : Ptr, size : Nat]

Fine == Types /\ \E B \in SUBSET Ptr : HeapInv(B)

(* And of any.                                                             *)
Places == /\ owner \in Core \cup {None} /\ spoiled \in BOOLEAN
          /\ pc \in [Core -> {"idle", "walk", "look", "merge"}]

HeapState == Places /\ (spoiled \/ Fine)

-----------------------------------------------------------------------------
(* An allocation.                                                          *)

(* The memory m becomes n, its blocks from B to C: block p gets the given  *)
(* size and is allocated, what is cut off is free, the rest is as it was.  *)
CutTo(m, B, p, size, n, C) ==
  /\ Tiled(n, C) /\ B \subseteq C
  /\ p \in C \ {End} /\ ~FreeAt(n, p) /\ SizeAt(n, p) = size
  /\ \A q \in B \ {p} : n[q - 1] = m[q - 1]
  /\ \A q \in C \ B : FreeAt(n, q) /\ NextAt(n, q) = NextAt(m, p)

LEMMA CutIs ==
  ASSUME NEW m, NEW B, Tiled(m, B), NEW p \in B \ {End},
         NEW size \in Nat, size % 2 = 0, size >= 4, NEW osize, osize = SizeAt(m, p),
         size + 4 <= osize \/ size = osize,
         NEW marked, marked = MarkBlk(m, p, size, 1),
         NEW split, split = IF osize - size > 0
                            THEN MarkBlk(marked, p + size, osize - size, 0) ELSE marked
  PROVE  \E C \in SUBSET Ptr : CutTo(m, B, p, size, split, C)
<1>1. /\ p \in Nat /\ p % 2 = 0 /\ NextAt(m, p) \in Nat /\ NextAt(m, p) \in B
      /\ NextAt(m, p) = p + osize /\ p < NextAt(m, p) /\ NextAt(m, p) - p = osize
      /\ osize \in Nat /\ p >= 4
      /\ \A q \in B : q <= p \/ q >= NextAt(m, p)
  BY BlockFacts
<1>2. CASE size + 4 <= osize
  <2>1. PICK c : c \in Nat /\ c = p + size
    BY <1>1
  <2>. DEFINE C == B \cup {c}
  <2>2. c \in Nat /\ c % 2 = 0 /\ p + 4 <= c /\ c + 4 <= NextAt(m, p)
    BY <1>1, <1>2, <2>1, EvenSum
  <2>3. c - p = size /\ NextAt(m, p) - c = osize - size /\ osize - size > 0
    BY <1>1, <1>2, <2>1
  <2>4. split = MarkBlk(MarkBlk(m, p, c - p, 1), c, NextAt(m, p) - c, 0)
    BY <2>1, <2>3
  <2>5. /\ Tiled(split, B \cup {c})
        /\ NextAt(split, p) = c /\ ~FreeAt(split, p)
        /\ NextAt(split, c) = NextAt(m, p) /\ FreeAt(split, c)
        /\ \A q \in B \ {p} : split[q - 1] = m[q - 1]
    <3>1. Tiled(split, B \cup {c})
      BY <2>2, <2>4, SplitTiled
    <3>. QED
      BY <2>2, <2>4, <3>1, SplitTiled
  <2>6. Tiled(split, C) /\ \A q \in B \ {p} : split[q - 1] = m[q - 1]
    BY <2>5
  <2>7. SizeAt(split, p) = size /\ p \in C \ {End}
    <3>1. p \in C \ {End}
      OBVIOUS
    <3>2. NextAt(split, p) = p + SizeAt(split, p) /\ SizeAt(split, p) \in Nat
      BY <2>6, <3>1, BlockFacts
    <3>. QED
      BY <1>1, <2>1, <2>5, <3>1, <3>2
  <2>8. C \in SUBSET Ptr
    BY <2>6 DEF Tiled
  <2>9. CutTo(m, B, p, size, split, C)
    BY <2>5, <2>6, <2>7 DEF CutTo
  <2>. QED
    BY <2>8, <2>9
<1>3. CASE size = osize
  <2>1. split = MarkBlk(m, p, NextAt(m, p) - p, 1)
    BY <1>1, <1>3
  <2>2. Joined(B, p, NextAt(m, p)) = B
    BY <1>1 DEF Joined
  <2>3. 1 \in {0, 1}
    OBVIOUS
  <2>4. /\ Tiled(split, B) /\ SizeAt(split, p) = NextAt(m, p) - p /\ ~FreeAt(split, p)
        /\ \A q \in B \ {p} : split[q - 1] = m[q - 1]
    BY <1>1, <2>1, <2>2, <2>3, JoinFacts
  <2>5. B \in SUBSET Ptr
    BY DEF Tiled
  <2>6. CutTo(m, B, p, size, split, B)
    BY <1>1, <1>3, <2>4 DEF CutTo
  <2>. QED
    BY <2>5, <2>6
<1>. QED
  BY <1>2, <1>3

(* The caller's words written, the blocks and the handed out are as the    *)
(* invariant has them.                                                     *)
Filled(m, lo, hi) == [w \in Word |-> IF w \in lo .. hi THEN Data ELSE m[w]]

LEMMA CutSound ==
  ASSUME NEW m, NEW l, NEW B, Sound(m, l, B), NEW p \in B \ {End}, FreeAt(m, p),
         NEW size \in Nat, NEW n, NEW C \in SUBSET Ptr, CutTo(m, B, p, size, n, C),
         NEW f, f = Filled(n, p, p + size - 3),
         NEW b, b = [ptr |-> p, size |-> size], NEW k, k = l \cup {b}
  PROVE  /\ Sound(f, k, C)
         /\ Apart(m, B) => Apart(f, C)
         /\ \A q \in B \ {p} : f[q - 1] = m[q - 1]
<1>1. Tiled(m, B) /\ Tiled(n, C) /\ p \in C \ {End} /\ p \in B \ {End} /\ B \subseteq C
  BY DEF Sound, CutTo
<1>2. p + size - 3 = NextAt(n, p) - 3
  <2>1. SizeAt(n, p) = size
    BY DEF CutTo
  <2>2. NextAt(n, p) = p + SizeAt(n, p)
    BY DEF NextAt
  <2>. QED
    BY <1>1, <2>1, <2>2, BlockFacts
<1>3. Tiled(f, C) /\ \A q \in C : f[q - 1] = n[q - 1]
  BY <1>1, <1>2, FillTiled DEF Filled
<1>4. /\ \A q \in C : SizeAt(f, q) = SizeAt(n, q) /\ (FreeAt(f, q) <=> FreeAt(n, q))
                      /\ NextAt(f, q) = NextAt(n, q)
      /\ \A q \in B \ {p} : /\ f[q - 1] = m[q - 1]
                            /\ SizeAt(f, q) = SizeAt(m, q) /\ (FreeAt(f, q) <=> FreeAt(m, q))
                            /\ NextAt(f, q) = NextAt(m, q)
  BY <1>1, <1>3 DEF CutTo, SizeAt, FreeAt, NextAt
<1>5. ~FreeAt(f, p) /\ SizeAt(f, p) = size
  BY <1>1, <1>4 DEF CutTo
<1>6. \A q \in C \ B : FreeAt(f, q) /\ NextAt(f, q) = NextAt(m, p)
  BY <1>4 DEF CutTo
<1>7. Sound(f, l \cup {b}, C)
  <2>1. l \cup {b} \subseteq [ptr : Ptr, size : Nat]
    BY <1>1 DEF Sound, Tiled
  <2>2. ASSUME NEW d \in l \cup {b}
        PROVE  d.ptr \in C \ {End} /\ ~FreeAt(f, d.ptr) /\ SizeAt(f, d.ptr) = d.size
    <3>1. CASE d = b
      BY <1>1, <1>5, <3>1
    <3>2. CASE d \in l
      <4>1. d.ptr \in B \ {End} /\ ~FreeAt(m, d.ptr) /\ SizeAt(m, d.ptr) = d.size
        BY <3>2 DEF Sound
      <4>. QED
        BY <1>1, <1>4, <4>1
    <3>. QED
      BY <3>1, <3>2
  <2>3. ASSUME NEW q \in C \ {End}, ~FreeAt(f, q) PROVE \E d \in l \cup {b} : d.ptr = q
    <3>1. CASE q = p
      <4>1. b \in l \cup {b} /\ b.ptr = q
        BY <3>1
      <4>. QED
        BY <4>1
    <3>2. CASE q # p
      <4>1. q \in B \ {End} /\ ~FreeAt(m, q)
        BY <1>4, <1>6, <2>3, <3>2
      <4>. QED
        BY <4>1 DEF Sound
    <3>. QED
      BY <3>1, <3>2
  <2>. QED
    BY <1>3, <2>1, <2>2, <2>3 DEF Sound
<1>8. ASSUME Apart(m, B) PROVE Apart(f, C)
  <2>1. SUFFICES ASSUME NEW q \in C \ {End}, FreeAt(f, q), FreeAt(f, NextAt(f, q))
                 PROVE  FALSE
    BY DEF Apart
  <2>2. q # p /\ NextAt(f, q) # p
    BY <1>5, <2>1
  <2>3. CASE q \in B
    <3>1. FreeAt(m, q) /\ NextAt(f, q) = NextAt(m, q) /\ NextAt(m, q) \in B
      BY <1>1, <1>4, <2>1, <2>2, <2>3, BlockFacts
    <3>. QED
      BY <1>4, <1>8, <2>1, <2>2, <2>3, <3>1 DEF Apart
  <2>4. CASE q \notin B
    <3>1. NextAt(f, q) = NextAt(m, p) /\ NextAt(m, p) \in B
      BY <1>1, <1>6, <2>4, BlockFacts
    <3>. QED
      BY <1>1, <1>4, <1>8, <2>1, <2>2, <3>1 DEF Apart
  <2>. QED
    BY <2>3, <2>4
<1>. QED
  BY <1>4, <1>7, <1>8

-----------------------------------------------------------------------------
(* A free.                                                                 *)

(* Two blocks handed out with the same pointer are the same.               *)
LEMMA OneBlock ==
  ASSUME NEW m, NEW l, NEW B, Sound(m, l, B), NEW b \in l, NEW d \in l, b.ptr = d.ptr
  PROVE  b = d
<1>1. b \in [ptr : Ptr, size : Nat] /\ d \in [ptr : Ptr, size : Nat] /\ b.size = d.size
  BY DEF Sound
<1>. QED
  BY <1>1

(* The block is marked free.                                               *)
LEMMA MarkSound ==
  ASSUME NEW m, NEW l, NEW B, Sound(m, l, B), Apart(m, B), NEW b \in l,
         NEW n, n = MarkBlk(m, b.ptr, SizeAt(m, b.ptr), 0)
  PROVE  /\ Sound(n, l \ {b}, B)
         /\ b.ptr \in B \ {End} /\ FreeAt(n, b.ptr) /\ ApartBut(n, B, b.ptr)
<1>1. PICK p : p = b.ptr
  OBVIOUS
<1>2. Tiled(m, B) /\ p \in B \ {End} /\ ~FreeAt(m, p)
  BY <1>1 DEF Sound
<1>3. PICK hi : hi = NextAt(m, p)
  OBVIOUS
<1>4. /\ p \in Nat /\ hi \in Nat /\ hi \in B /\ p < hi /\ SizeAt(m, p) = hi - p
      /\ \A q \in B : q <= p \/ q >= hi
  BY <1>2, <1>3, BlockFacts
<1>5. Joined(B, p, hi) = B /\ 0 \in {0, 1} /\ n = MarkBlk(m, p, hi - p, 0)
  BY <1>1, <1>4 DEF Joined
<1>6. /\ Tiled(n, B) /\ FreeAt(n, p) /\ NextAt(n, p) = hi
      /\ \A q \in B \ {p} : /\ SizeAt(n, q) = SizeAt(m, q) /\ NextAt(n, q) = NextAt(m, q)
                            /\ (FreeAt(n, q) <=> FreeAt(m, q))
  BY <1>2, <1>4, <1>5, JoinFacts
<1>7. \A d \in l \ {b} : d.ptr # p
  BY <1>1, OneBlock
<1>8. Sound(n, l \ {b}, B)
  <2>1. ASSUME NEW d \in l \ {b}
        PROVE  d.ptr \in B \ {End} /\ ~FreeAt(n, d.ptr) /\ SizeAt(n, d.ptr) = d.size
    <3>1. d.ptr \in B \ {End} /\ ~FreeAt(m, d.ptr) /\ SizeAt(m, d.ptr) = d.size
      BY DEF Sound
    <3>. QED
      BY <1>6, <1>7, <3>1
  <2>2. ASSUME NEW q \in B \ {End}, ~FreeAt(n, q) PROVE \E d \in l \ {b} : d.ptr = q
    <3>1. q # p /\ ~FreeAt(m, q)
      BY <1>6, <2>2
    <3>2. PICK d \in l : d.ptr = q
      BY <3>1 DEF Sound
    <3>. QED
      BY <1>1, <3>1, <3>2
  <2>3. l \ {b} \subseteq [ptr : Ptr, size : Nat]
    BY DEF Sound
  <2>. QED
    BY <1>6, <2>1, <2>2, <2>3 DEF Sound
<1>9. ApartBut(n, B, p)
  <2>1. SUFFICES ASSUME NEW q \in B \ {End}, FreeAt(n, q), FreeAt(n, NextAt(n, q)),
                        q # p, NextAt(n, q) # p
                 PROVE  FALSE
    BY DEF ApartBut
  <2>2. NextAt(n, q) = NextAt(m, q) /\ NextAt(m, q) \in B
    BY <1>2, <1>6, <2>1, BlockFacts
  <2>. QED
    BY <1>6, <2>1, <2>2 DEF Apart
<1>. QED
  BY <1>1, <1>2, <1>6, <1>8, <1>9

(* Free blocks made one.                                                   *)
LEMMA JoinSound ==
  ASSUME NEW m, NEW l, NEW B, Sound(m, l, B), NEW lo, NEW hi, Joinable(m, B, lo, hi),
         NEW n, n = MarkBlk(m, lo, hi - lo, 0)
  PROVE  /\ Sound(n, l, Joined(B, lo, hi)) /\ Apart(n, Joined(B, lo, hi))
         /\ Joined(B, lo, hi) \in SUBSET Ptr
<1>1. PICK C : C = Joined(B, lo, hi)
  OBVIOUS
<1>2. Tiled(m, B) /\ lo \in B /\ hi \in B /\ lo < hi /\ 0 \in {0, 1}
  BY DEF Sound, Joinable
<1>3. /\ Tiled(n, C) /\ FreeAt(n, lo)
      /\ \A q \in C \ {lo} : SizeAt(n, q) = SizeAt(m, q) /\ (FreeAt(n, q) <=> FreeAt(m, q))
  BY <1>1, <1>2, JoinFacts
<1>4. Apart(n, C)
  BY <1>1, <1>2, JoinApart
<1>5. \A q \in B : q \in C \/ (lo <= q /\ q < hi)
  BY <1>1, <1>2, Bounds DEF Tiled, Joined
<1>6. C \subseteq B
  BY <1>1 DEF Joined
<1>7. ASSUME NEW d \in l
      PROVE  d.ptr \in C \ {End} /\ ~FreeAt(n, d.ptr) /\ SizeAt(n, d.ptr) = d.size
  <2>1. d.ptr \in B \ {End} /\ ~FreeAt(m, d.ptr) /\ SizeAt(m, d.ptr) = d.size
    BY DEF Sound
  <2>2. FreeAt(m, lo)
    BY <1>2, Bounds DEF Joinable, Tiled
  <2>3. d.ptr \in C
    BY <1>5, <2>1 DEF Joinable
  <2>. QED
    BY <1>3, <2>1, <2>2, <2>3
<1>8. ASSUME NEW q \in C \ {End}, ~FreeAt(n, q) PROVE \E d \in l : d.ptr = q
  <2>1. q \in B \ {End} /\ ~FreeAt(m, q)
    BY <1>3, <1>6, <1>8
  <2>. QED
    BY <2>1 DEF Sound
<1>9. l \subseteq [ptr : Ptr, size : Nat]
  BY DEF Sound
<1>10. Sound(n, l, C) /\ C \in SUBSET Ptr
  BY <1>3, <1>7, <1>8, <1>9 DEF Sound, Tiled
<1>. QED
  BY <1>1, <1>4, <1>10

-----------------------------------------------------------------------------
(* The actions, on the heap alone: cores may come to them from a stream's  *)
(* registration.                                                           *)

(* A core that walks is alone with the heap, and so is one that takes the  *)
(* lock while no free without it is under way.                             *)
LEMMA WalksAlone ==
  ASSUME Types, NEW B, HeapInv(B), NEW c \in Core, pc[c] = "walk"
  PROVE  /\ \A d \in Core \ {c} : pc[d] = "idle"
         /\ owner = c /\ Apart(mem, B)
<1>1. owner = c
  BY DEF HeapInv, WalkInv
<1>2. ASSUME NEW d \in Core \ {c} PROVE pc[d] = "idle"
  <2>1. pc[d] # "walk"
    BY <1>1, <1>2 DEF HeapInv, WalkInv
  <2>2. pc[d] \notin {"look", "merge"}
    BY <1>2 DEF HeapInv
  <2>. QED
    BY <2>1, <2>2 DEF Types
<1>. QED
  BY <1>1, <1>2 DEF HeapInv

LEMMA AllIdle ==
  ASSUME Types, NEW B, HeapInv(B), NEW c \in Core, pc[c] = "idle",
         owner = None /\ ~FreeUnderWay(c)
  PROVE  /\ \A d \in Core : pc[d] = "idle"
         /\ Apart(mem, B)
<1>1. ASSUME NEW d \in Core PROVE pc[d] = "idle"
  <2>1. pc[d] # "walk"
    BY CoreAssumption DEF HeapInv, WalkInv
  <2>2. pc[d] \notin {"look", "merge"}
    BY DEF FreeUnderWay
  <2>. QED
    BY <2>1, <2>2 DEF Types
<1>. QED
  BY <1>1 DEF HeapInv

LEMMA WantIs ==
  ASSUME NEW n \in Requests
  PROVE  /\ n \in Nat /\ n # 0
         /\ AlignUp(n + BookKeeping) \in Nat /\ AlignUp(n + BookKeeping) % 2 = 0
         /\ AlignUp(n + BookKeeping) >= 4 /\ AlignUp(n + BookKeeping) >= n + BookKeeping
<1>1. n \in Nat /\ n >= 1
  BY HeapAssumption
<1>. QED
  BY <1>1 DEF AlignUp, Align, BookKeeping

(* What the invariant says of cores that are all idle.                     *)
LEMMA IdleInv ==
  ASSUME NEW B, Sound(mem, live, B), Apart(mem, B),
         \A d \in Core : pc[d] = "idle" /\ asked[d] = 0
  PROVE  HeapInv(B)
BY DEF HeapInv

LEMMA SoundTypes ==
  ASSUME NEW B, Sound(mem, live, B)
  PROVE  mem \in [Word -> Nat] /\ live \subseteq [ptr : Ptr, size : Nat]
BY DEF Sound, Tiled

LEMMA MallocStep ==
  ASSUME Types, NEW B, HeapInv(B), ~spoiled', NEW c \in Core, NEW n \in Requests,
         Malloc(c, n)
  PROVE  Types' /\ HeapInv(B)'
<1>1. (\A d \in Core : pc[d] = "idle") /\ Apart(mem, B)
  <2>1. pc[c] = "idle" /\ owner = None /\ ~FreeUnderWay(c)
    BY DEF Malloc, Note
  <2>. QED
    BY <2>1, AllIdle
<1>2. /\ mem' = mem /\ live' = live /\ owner' = c
      /\ pc' = [pc EXCEPT ![c] = "walk"] /\ cur' = [cur EXCEPT ![c] = Start]
      /\ want' = [want EXCEPT ![c] = AlignUp(n + BookKeeping)]
      /\ asked' = [asked EXCEPT ![c] = n]
  BY DEF Malloc, StartWalk
<1>3. Types'
  BY <1>2, WantIs, Bounds DEF Types
<1>4. Sound(mem, live, B) /\ B \subseteq Ptr /\ Start \in B
  BY DEF HeapInv, Sound, Tiled
<1>5. WalkInv(B, c)'
  <2>1. /\ owner' = c /\ cur'[c] = Start /\ want'[c] = AlignUp(n + BookKeeping)
        /\ asked'[c] = n
    BY <1>2 DEF Types
  <2>2. \A q \in B : ~(q < Start)
    BY <1>4, Bounds
  <2>. QED
    BY <1>4, <2>1, <2>2 DEF WalkInv
<1>6. \A d \in Core : /\ pc'[d] = IF d = c THEN "walk" ELSE "idle"
                      /\ d # c => asked'[d] = 0
  BY <1>1, <1>2 DEF Types, HeapInv
<1>. QED
  BY <1>1, <1>2, <1>3, <1>4, <1>5, <1>6 DEF HeapInv

LEMMA WalkOnStep ==
  ASSUME Types, NEW B, HeapInv(B), NEW c \in Core, WalkOn(c)
  PROVE  Types' /\ HeapInv(B)'
<1>1. /\ pc[c] = "walk" /\ BlkSize(cur[c]) > 0 /\ ~Fits(c)
      /\ cur' = [cur EXCEPT ![c] = NextBlk(cur[c])]
      /\ mem' = mem /\ owner' = owner /\ pc' = pc /\ want' = want /\ asked' = asked /\ live' = live
  BY DEF WalkOn
<1>2. (\A d \in Core \ {c} : pc[d] = "idle") /\ owner = c /\ Apart(mem, B)
  BY <1>1, WalksAlone
<1>3. PICK p : p = cur[c]
  OBVIOUS
<1>4. Tiled(mem, B) /\ Sound(mem, live, B) /\ WalkInv(B, c) /\ p \in B
  BY <1>1, <1>3 DEF HeapInv, Sound, WalkInv
<1>5. p \in B \ {End}
  BY <1>1, <1>3, <1>4, EndFacts DEF BlkSize, SizeAt
<1>6. NextBlk(p) = NextAt(mem, p)
  BY DEF NextBlk, NextAt, BlkSize, SizeAt
<1>7. /\ NextAt(mem, p) \in B /\ NextAt(mem, p) \in Nat /\ p < NextAt(mem, p) /\ p \in Nat
      /\ \A q \in B : q <= p \/ q >= NextAt(mem, p)
  BY <1>4, <1>5, BlockFacts
<1>8. cur' = [cur EXCEPT ![c] = NextAt(mem, p)]
  BY <1>1, <1>3, <1>6
<1>9. B \subseteq Ptr
  BY <1>4 DEF Tiled
<1>10. Types'
  BY <1>1, <1>7, <1>8, <1>9 DEF Types
<1>11. ASSUME NEW q \in B, q < NextAt(mem, p)
       PROVE ~(FreeAt(mem, q) /\ SizeAt(mem, q) >= want[c])
  <2>1. q \in Nat /\ (q < p \/ q = p)
    BY <1>7, <1>9, <1>11, Bounds
  <2>2. CASE q < p
    BY <1>3, <1>4, <2>2 DEF WalkInv
  <2>3. CASE q = p
    BY <1>1, <1>3, <2>3 DEF Fits, BlkFree, FreeAt, BlkSize, SizeAt
  <2>. QED
    BY <2>1, <2>2, <2>3
<1>12. cur'[c] = NextAt(mem, p)
  BY <1>8 DEF Types
<1>13. WalkInv(B, c)'
  BY <1>1, <1>4, <1>7, <1>11, <1>12 DEF WalkInv
<1>. QED
  BY <1>1, <1>2, <1>4, <1>10, <1>13 DEF HeapInv

LEMMA RefuseStep ==
  ASSUME Types, NEW B, HeapInv(B), NEW c \in Core, Refuse(c)
  PROVE  Types' /\ HeapInv(B)'
<1>1. /\ pc[c] = "walk" /\ owner' = None /\ mem' = mem /\ live' = live
      /\ pc' = [pc EXCEPT ![c] = "idle"] /\ cur' = [cur EXCEPT ![c] = Start]
      /\ want' = [want EXCEPT ![c] = 0]
      /\ asked' = [asked EXCEPT ![c] = 0]
  BY DEF Refuse, Finish
<1>2. (\A d \in Core \ {c} : pc[d] = "idle") /\ owner = c /\ Apart(mem, B)
  BY <1>1, WalksAlone
<1>3. Types'
  BY <1>1, Bounds DEF Types
<1>4. \A d \in Core : pc'[d] = "idle" /\ asked'[d] = 0
  BY <1>1, <1>2 DEF Types, HeapInv
<1>5. Sound(mem, live, B)
  BY DEF HeapInv
<1>. QED
  BY <1>1, <1>2, <1>3, <1>4, <1>5 DEF HeapInv

(* The block that Allocate hands out: cut from a free one, and of the size *)
(* looked for at least.                                                    *)
Handed(B, c, b) ==
  /\ b.ptr = cur[c] /\ b \in [ptr : Ptr, size : Nat]
  /\ b.ptr \in B \ {End} /\ FreeAt(mem, b.ptr) /\ b.size >= want[c]
  /\ live' = live \cup {b}

LEMMA AllocateStep ==
  ASSUME Types, NEW B, HeapInv(B), NEW c \in Core, Allocate(c)
  PROVE  /\ Handed(B, c, Cut(c))
         /\ \E C \in SUBSET Ptr : Sound(mem', live', C) /\ Apart(mem', C)
<1>. DEFINE osize == SizeAt(mem, cur[c])
<1>1. PICK p : p = cur[c]
  OBVIOUS
<1>2. PICK size : size = Cut(c).size
  OBVIOUS
<1>3. Cut(c) = [ptr |-> p, size |-> size]
  BY <1>1, <1>2 DEF Cut
<1>4. pc[c] = "walk" /\ BlkSize(p) > 0 /\ Fits(c)
  BY <1>1 DEF Allocate, Cut
<1>5. /\ Sound(mem, live, B) /\ Tiled(mem, B) /\ WalkInv(B, c) /\ p \in B
      /\ Apart(mem, B)
  BY <1>1, <1>4, WalksAlone DEF HeapInv, Sound, WalkInv
<1>6. p \in B \ {End}
  BY <1>4, <1>5, EndFacts DEF BlkSize, SizeAt
<1>7. FreeAt(mem, p) /\ osize >= want[c] /\ osize = SizeAt(mem, p)
  BY <1>1, <1>4 DEF Fits, FreeAt, SizeAt, BlkFree, BlkSize
<1>8. want[c] \in Nat /\ want[c] % 2 = 0 /\ want[c] >= 4
  BY <1>5, WantIs DEF WalkInv
<1>9. osize \in Nat /\ osize % 2 = 0 /\ osize >= 4 /\ p \in Ptr
  BY <1>5, <1>6, <1>7, BlockFacts DEF Tiled
<1>10. size = IF osize >= want[c] + 4 THEN want[c] ELSE osize
  <2>1. AlignUp(Align + BookKeeping) = 4
    BY DEF AlignUp, Align, BookKeeping
  <2>. QED
    BY <1>1, <1>2, <2>1 DEF Cut, BlkSize, SizeAt
<1>. HIDE DEF osize
<1>11. /\ size \in Nat /\ size % 2 = 0 /\ size >= 4 /\ size >= want[c]
       /\ (size + 4 <= osize \/ size = osize)
  BY <1>7, <1>8, <1>9, <1>10
<1>12. Handed(B, c, Cut(c))
  BY <1>1, <1>3, <1>6, <1>7, <1>9, <1>11 DEF Handed, Allocate
<1>13. PICK marked : marked = MarkBlk(mem, p, size, 1)
  OBVIOUS
<1>14. PICK split : split = IF osize - size > 0
                            THEN MarkBlk(marked, p + size, osize - size, 0) ELSE marked
  OBVIOUS
<1>15. PICK C \in SUBSET Ptr : CutTo(mem, B, p, size, split, C)
  BY <1>5, <1>6, <1>7, <1>11, <1>13, <1>14, CutIs
<1>16. mem' = Filled(split, p, p + size - 3)
  <2>1. Payload(Cut(c)) = p .. p + size - 3
    <3>1. p + size - 2 - 1 = p + size - 3
      BY <1>9, <1>11, Bounds
    <3>. QED
      BY <1>3, <3>1 DEF Payload, BookKeeping
  <2>2. BlkSize(p) = osize
    BY <1>7 DEF BlkSize, SizeAt
  <2>. QED
    BY <1>3, <1>13, <1>14, <2>1, <2>2 DEF Allocate, Filled
<1>17. live' = live \cup {[ptr |-> p, size |-> size]}
  BY <1>3 DEF Allocate
<1>18. Sound(mem', live', C) /\ Apart(mem', C)
  <2>1. PICK b : b = [ptr |-> p, size |-> size]
    OBVIOUS
  <2>2. live' = live \cup {b}
    BY <1>17, <2>1
  <2>. QED
    BY <1>5, <1>6, <1>7, <1>11, <1>15, <1>16, <2>1, <2>2, CutSound
<1>. QED
  BY <1>12, <1>18

LEMMA TakeStep ==
  ASSUME Types, NEW B, HeapInv(B), NEW c \in Core, Take(c)
  PROVE  Types' /\ \E C \in SUBSET Ptr : HeapInv(C)'
<1>1. /\ Allocate(c) /\ owner' = None /\ pc' = [pc EXCEPT ![c] = "idle"]
      /\ cur' = [cur EXCEPT ![c] = Start] /\ want' = [want EXCEPT ![c] = 0]
      /\ asked' = [asked EXCEPT ![c] = 0]
  BY DEF Take, Finish
<1>2. pc[c] = "walk"
  BY <1>1 DEF Allocate
<1>3. PICK C \in SUBSET Ptr : Sound(mem', live', C) /\ Apart(mem', C)
  BY <1>1, AllocateStep
<1>4. \A d \in Core : pc'[d] = "idle" /\ asked'[d] = 0
  BY <1>1, <1>2, WalksAlone DEF Types, HeapInv
<1>5. Types'
  BY <1>1, <1>3, Bounds, SoundTypes DEF Types, Sound, Tiled
<1>6. HeapInv(C)'
  BY <1>3, <1>4 DEF HeapInv
<1>. QED
  BY <1>5, <1>6

(* A registration goes on to its second block with the lock.               *)
LEMMA TakeAgainStep ==
  ASSUME Types, NEW B, HeapInv(B), NEW c \in Core, NEW n \in Requests,
         Allocate(c), owner' = owner, pc' = [pc EXCEPT ![c] = "walk"],
         cur' = [cur EXCEPT ![c] = Start],
         want' = [want EXCEPT ![c] = AlignUp(n + BookKeeping)],
         asked' = [asked EXCEPT ![c] = n]
  PROVE  Types' /\ \E C \in SUBSET Ptr : HeapInv(C)'
<1>1. pc[c] = "walk"
  BY DEF Allocate
<1>2. PICK C \in SUBSET Ptr : Sound(mem', live', C) /\ Apart(mem', C)
  BY AllocateStep
<1>3. (\A d \in Core \ {c} : pc[d] = "idle") /\ owner = c
  BY <1>1, WalksAlone
<1>4. \A d \in Core : /\ pc'[d] = IF d = c THEN "walk" ELSE "idle"
                      /\ d # c => asked'[d] = 0
  BY <1>3 DEF Types, HeapInv
<1>5. Types'
  BY <1>2, Bounds, WantIs DEF Types, Sound, Tiled
<1>6. WalkInv(C, c)'
  <2>1. /\ owner' = c /\ cur'[c] = Start /\ want'[c] = AlignUp(n + BookKeeping)
        /\ asked'[c] = n
    BY <1>3 DEF Types
  <2>2. Start \in C /\ \A q \in C : ~(q < Start)
    BY <1>2, Bounds DEF Sound, Tiled
  <2>. QED
    BY <2>1, <2>2 DEF WalkInv
<1>7. HeapInv(C)'
  BY <1>2, <1>4, <1>6 DEF HeapInv
<1>. QED
  BY <1>5, <1>7

LEMMA FreeLockedStep ==
  ASSUME Types, NEW B, HeapInv(B), ~spoiled', NEW c \in Core, NEW b \in live,
         FreeLocked(c, b)
  PROVE  Types' /\ \E C \in SUBSET Ptr : HeapInv(C)'
<1>1. PICK freed : freed = MarkBlk(mem, b.ptr, SizeAt(mem, b.ptr), 0)
  OBVIOUS
<1>2. PICK r : r = Merged(freed, b.ptr)
  OBVIOUS
<1>3. /\ pc[c] = "idle" /\ owner = None /\ ~FreeUnderWay(c)
      /\ mem' = MarkBlk(freed, r.ptr, r.size, 0) /\ live' = live \ {b}
      /\ owner' = owner /\ pc' = pc /\ cur' = cur /\ want' = want /\ asked' = asked
  BY <1>1, <1>2 DEF FreeLocked, BlkSize, SizeAt, Note
<1>4. (\A d \in Core : pc[d] = "idle") /\ Apart(mem, B) /\ Sound(mem, live, B)
  BY <1>3, AllIdle DEF HeapInv
<1>5. /\ Sound(freed, live \ {b}, B)
      /\ b.ptr \in B \ {End} /\ FreeAt(freed, b.ptr) /\ ApartBut(freed, B, b.ptr)
  BY <1>1, <1>4, MarkSound
<1>6. Tiled(freed, B)
  BY <1>5 DEF Sound
<1>7. PICK hi : hi = r.ptr + r.size
  OBVIOUS
<1>8. r.size \in Nat /\ r.ptr \in B /\ Joinable(freed, B, r.ptr, hi)
  BY <1>2, <1>5, <1>6, <1>7, MergedJoinable
<1>9. r.size = hi - r.ptr
  <2>1. r.ptr \in Nat
    BY <1>6, <1>8, Bounds DEF Tiled
  <2>. QED
    BY <1>7, <1>8, <2>1
<1>10. PICK C \in SUBSET Ptr : Sound(mem', live', C) /\ Apart(mem', C)
  BY <1>3, <1>5, <1>8, <1>9, JoinSound
<1>11. Types'
  BY <1>3, <1>10 DEF Types, Sound, Tiled
<1>12. HeapInv(C)'
  BY <1>3, <1>4, <1>10 DEF HeapInv
<1>. QED
  BY <1>11, <1>12

LEMMA FreeMarkStep ==
  ASSUME Types, NEW B, HeapInv(B), ~spoiled', NEW c \in Core, NEW b \in live,
         FreeMark(c, b)
  PROVE  Types' /\ HeapInv(B)'
<1>1. /\ pc[c] = "idle" /\ \A d \in Core \ {c} : pc[d] = "idle"
      /\ mem' = MarkBlk(mem, b.ptr, SizeAt(mem, b.ptr), 0)
      /\ pc' = [pc EXCEPT ![c] = "look"] /\ cur' = [cur EXCEPT ![c] = b.ptr]
      /\ live' = live \ {b} /\ owner' = owner /\ want' = want /\ asked' = asked
  BY DEF FreeMark, BlkSize, SizeAt, Note
<1>2. Apart(mem, B) /\ Sound(mem, live, B)
  BY <1>1 DEF HeapInv
<1>3. /\ Sound(mem', live', B)
      /\ b.ptr \in B \ {End} /\ FreeAt(mem', b.ptr) /\ ApartBut(mem', B, b.ptr)
  BY <1>1, <1>2, MarkSound
<1>4. \A d \in Core : pc'[d] = (IF d = c THEN "look" ELSE "idle") /\ asked'[d] = 0
  BY <1>1 DEF Types, HeapInv
<1>5. cur'[c] = b.ptr
  BY <1>1 DEF Types
<1>6. Types'
  BY <1>1, <1>3 DEF Types, Sound, Tiled
<1>. QED
  BY <1>3, <1>4, <1>5, <1>6 DEF HeapInv

(* A block that merges with none has no free neighbour.                    *)
LEMMA NothingToMerge ==
  ASSUME NEW m, NEW B, Tiled(m, B), NEW p \in B \ {End},
         Joinable(m, B, p, p + SizeAt(m, p))
  PROVE  Apart(m, B)
<1>1. p \in Nat /\ NextAt(m, p) = p + SizeAt(m, p) /\ NextAt(m, p) \in Nat
  BY BlockFacts
<1>2. SUFFICES ASSUME NEW q \in B \ {End}, FreeAt(m, q), FreeAt(m, NextAt(m, q))
               PROVE  FALSE
  BY DEF Apart
<1>3. p <= q /\ NextAt(m, q) < NextAt(m, p)
  BY <1>1, <1>2 DEF Joinable
<1>4. /\ q \in Nat /\ NextAt(m, q) \in Nat /\ q < NextAt(m, q)
      /\ (q <= p \/ q >= NextAt(m, p))
  BY BlockFacts
<1>5. q = p
  BY <1>1, <1>3, <1>4
<1>. QED
  BY <1>1, <1>3, <1>5

LEMMA FreeLookStep ==
  ASSUME Types, NEW B, HeapInv(B), NEW c \in Core, FreeLook(c)
  PROVE  Types' /\ HeapInv(B)'
<1>1. PICK p : p = cur[c]
  OBVIOUS
<1>2. PICK r : r = Merged(mem, p)
  OBVIOUS
<1>3. /\ pc[c] = "look" /\ mem' = mem /\ owner' = owner /\ live' = live
      /\ IF r.size = SizeAt(mem, p)
         THEN /\ pc' = [pc EXCEPT ![c] = "idle"] /\ cur' = [cur EXCEPT ![c] = Start]
              /\ want' = [want EXCEPT ![c] = 0]
              /\ asked' = [asked EXCEPT ![c] = 0]
         ELSE /\ pc' = [pc EXCEPT ![c] = "merge"] /\ cur' = [cur EXCEPT ![c] = r.ptr]
              /\ want' = [want EXCEPT ![c] = r.size] /\ asked' = asked
  BY <1>1, <1>2 DEF FreeLook, Finish, BlkSize, SizeAt
<1>4. /\ Sound(mem, live, B) /\ Tiled(mem, B) /\ p \in B \ {End} /\ FreeAt(mem, p)
      /\ ApartBut(mem, B, p) /\ \A d \in Core \ {c} : pc[d] = "idle"
  BY <1>1, <1>3 DEF HeapInv, Sound
<1>5. /\ r.size \in Nat /\ r.ptr \in B /\ Joinable(mem, B, r.ptr, r.ptr + r.size)
      /\ (r.size = SizeAt(mem, p) => r.ptr = p)
  BY <1>2, <1>4, MergedJoinable
<1>6. CASE r.size = SizeAt(mem, p)
  <2>1. Apart(mem, B)
    BY <1>4, <1>5, <1>6, NothingToMerge
  <2>2. \A d \in Core : pc'[d] = "idle" /\ asked'[d] = 0
    BY <1>3, <1>4, <1>6 DEF Types, HeapInv
  <2>3. Types'
    <3>1. /\ pc' = [pc EXCEPT ![c] = "idle"] /\ cur' = [cur EXCEPT ![c] = Start]
          /\ want' = [want EXCEPT ![c] = 0]
          /\ asked' = [asked EXCEPT ![c] = 0]
      BY <1>3, <1>6
    <3>. QED
      BY <1>3, <3>1, Bounds DEF Types
  <2>. QED
    BY <1>3, <1>4, <2>1, <2>2, <2>3 DEF HeapInv
<1>7. CASE r.size # SizeAt(mem, p)
  <2>1. \A d \in Core : pc'[d] = (IF d = c THEN "merge" ELSE "idle") /\ asked'[d] = 0
    BY <1>3, <1>4, <1>7 DEF Types, HeapInv
  <2>2. cur'[c] = r.ptr /\ want'[c] = r.size
    BY <1>3, <1>7 DEF Types
  <2>3. Types'
    BY <1>3, <1>4, <1>5, <1>7 DEF Types, Tiled
  <2>. QED
    BY <1>3, <1>4, <1>5, <2>1, <2>2, <2>3 DEF HeapInv
<1>. QED
  BY <1>6, <1>7

LEMMA FreeMergeStep ==
  ASSUME Types, NEW B, HeapInv(B), NEW c \in Core, FreeMerge(c)
  PROVE  Types' /\ \E C \in SUBSET Ptr : HeapInv(C)'
<1>1. PICK hi : hi = cur[c] + want[c]
  OBVIOUS
<1>2. /\ pc[c] = "merge" /\ mem' = MarkBlk(mem, cur[c], want[c], 0)
      /\ owner' = owner /\ live' = live /\ pc' = [pc EXCEPT ![c] = "idle"]
      /\ cur' = [cur EXCEPT ![c] = Start] /\ want' = [want EXCEPT ![c] = 0]
      /\ asked' = [asked EXCEPT ![c] = 0]
  BY DEF FreeMerge, Finish
<1>3. /\ Sound(mem, live, B) /\ Joinable(mem, B, cur[c], hi)
      /\ \A d \in Core \ {c} : pc[d] = "idle"
  BY <1>1, <1>2 DEF HeapInv
<1>4. want[c] = hi - cur[c]
  <2>1. cur[c] \in Nat /\ want[c] \in Nat
    BY Bounds DEF Types
  <2>. QED
    BY <1>1, <2>1
<1>5. PICK C \in SUBSET Ptr : Sound(mem', live', C) /\ Apart(mem', C)
  BY <1>2, <1>3, <1>4, JoinSound
<1>6. \A d \in Core : pc'[d] = "idle" /\ asked'[d] = 0
  BY <1>2, <1>3 DEF Types, HeapInv
<1>7. Types'
  BY <1>2, <1>5, Bounds DEF Types, Sound, Tiled
<1>8. HeapInv(C)'
  BY <1>5, <1>6 DEF HeapInv
<1>. QED
  BY <1>7, <1>8

-----------------------------------------------------------------------------
(* The heap as sae_alloc_init leaves it: one free block.                   *)
LEMMA InitHeap ==
  ASSUME Init
  PROVE  Types /\ HeapInv({Start, End})
<1>. DEFINE B == {Start, End}
<1>1. End \in Nat /\ End >= 8 /\ End % 2 = 0 /\ Start = 4 /\ Word = 0 .. End - 1 /\ Align = 2
  BY Bounds
<1>2. mem = [w \in Word |->
               CASE w \in {1, 2} -> 3 [] w \in {3, End - 2} -> End - 4
                 [] w = End - 1 -> 1 [] OTHER -> Data]
  <2>1. Start - 3 = 1 /\ Start - 2 = 2 /\ Start - 1 = 3 /\ End - Start = End - 4 /\ Align + 1 = 3
    BY <1>1
  <2>. QED
    BY <2>1 DEF Init
<1>3. /\ 1 \in Word /\ 2 \in Word /\ 3 \in Word /\ End - 2 \in Word /\ End - 1 \in Word
      /\ End - 4 \in Nat /\ (End - 4) % 2 = 0
  BY <1>1
<1>4. /\ mem \in [Word -> Nat] /\ mem[1] = 3 /\ mem[2] = 3 /\ mem[3] = End - 4
      /\ mem[End - 2] = End - 4 /\ mem[End - 1] = 1
  <2>1. Data \in Nat
    BY HeapAssumption
  <2>2. mem \in [Word -> Nat]
    <3>1. \A w \in Word : (CASE w \in {1, 2} -> 3 [] w \in {3, End - 2} -> End - 4
                            [] w = End - 1 -> 1 [] OTHER -> Data) \in Nat
      BY <1>3, <2>1
    <3>. QED
      BY <1>2, <3>1
  <2>. QED
    BY <1>1, <1>2, <1>3, <2>2
<1>5. SizeAt(mem, Start) = End - 4 /\ FreeAt(mem, Start) /\ NextAt(mem, Start) = End
  <2>1. mem[Start - 1] = (End - 4) + 0
    BY <1>1, <1>4
  <2>2. 0 \in {0, 1}
    OBVIOUS
  <2>3. SizeAt(mem, Start) = End - 4 /\ FreeAt(mem, Start)
    BY <1>3, <2>1, <2>2, TagIs DEF SizeAt, FreeAt
  <2>. QED
    BY <1>1, <2>3 DEF NextAt
<1>6. Start # End /\ B \subseteq Ptr /\ Start \in B /\ End \in B
  BY <1>1, Bounds
<1>7. Tiled(mem, B)
  <2>1. mem[Start - 3] = Align + 1 /\ mem[Start - 2] = Align + 1 /\ mem[End - 1] = 1
    BY <1>1, <1>4
  <2>2. \A p \in B \ {End} : p = Start
    OBVIOUS
  <2>3. /\ SizeAt(mem, Start) >= Smallest /\ NextAt(mem, Start) \in B
        /\ mem[NextAt(mem, Start) - 2] = mem[Start - 1]
        /\ \A q \in B : q <= Start \/ q >= NextAt(mem, Start)
    BY <1>1, <1>4, <1>5, Bounds
  <2>4. \A p \in B \ {Start} : \E q \in B \ {End} : NextAt(mem, q) = p
    BY <1>5, <1>6
  <2>. QED
    BY <1>4, <1>6, <2>1, <2>2, <2>3, <2>4 DEF Tiled
<1>8. ~FreeAt(mem, End)
  BY <1>7, EndFacts
<1>9. live = {} /\ \A d \in Core : pc[d] = "idle" /\ asked[d] = 0
  BY DEF Init
<1>10. Sound(mem, live, B)
  BY <1>5, <1>7, <1>9 DEF Sound
<1>11. Apart(mem, B)
  BY <1>5, <1>8 DEF Apart
<1>12. Types
  BY <1>4, <1>9, Bounds DEF Init, Types
<1>. QED
  BY <1>9, <1>10, <1>11, <1>12 DEF HeapInv

(* A step of a core in a heap call.                                        *)
HeapStep(c) ==
  \/ \E n \in Requests : Malloc(c, n)
  \/ WalkOn(c) \/ Take(c) \/ Refuse(c)
  \/ \E b \in live : FreeLocked(c, b) \/ FreeMark(c, b)
  \/ FreeLook(c) \/ FreeMerge(c)

(* It keeps the core's place among those that there are, and a heap that   *)
(* is spoiled is so for ever.                                              *)
LEMMA StepPlaces ==
  ASSUME Places, NEW c \in Core, HeapStep(c)
  PROVE  Places' /\ (spoiled => spoiled')
<1>1. owner' \in Core \cup {None}
  BY DEF Places, HeapStep, Malloc, WalkOn, Take, Refuse, FreeLocked, FreeMark, FreeLook, FreeMerge
<1>2. \E x \in {"idle", "walk", "look", "merge"} : pc' = [pc EXCEPT ![c] = x] \/ pc' = pc
  BY DEF HeapStep, Malloc, StartWalk, WalkOn, Take, Refuse, Finish, FreeLocked, FreeMark,
         FreeLook, FreeMerge
<1>3. spoiled' \in BOOLEAN /\ (spoiled => spoiled')
  BY DEF Places, HeapStep, Malloc, WalkOn, Take, Refuse, FreeLocked, FreeMark, FreeLook,
         FreeMerge, Note
<1>4. pc' \in [Core -> {"idle", "walk", "look", "merge"}]
  BY <1>2 DEF Places
<1>. QED
  BY <1>1, <1>3, <1>4 DEF Places

(* It keeps a heap fine that it does not spoil.                            *)
LEMMA StepFine ==
  ASSUME Fine, ~spoiled', NEW c \in Core, HeapStep(c)
  PROVE  Fine'
<1>1. PICK B \in SUBSET Ptr : Types /\ HeapInv(B)
  BY DEF Fine
<1>2. SUFFICES Types' /\ \E C \in SUBSET Ptr : HeapInv(C)'
  BY DEF Fine, Ptr, Start, End
<1>3. CASE \E n \in Requests : Malloc(c, n)
  BY <1>1, <1>3, MallocStep
<1>4. CASE WalkOn(c)
  BY <1>1, <1>4, WalkOnStep
<1>5. CASE Take(c)
  BY <1>1, <1>5, TakeStep
<1>6. CASE Refuse(c)
  BY <1>1, <1>6, RefuseStep
<1>7. CASE \E b \in live : FreeLocked(c, b)
  BY <1>1, <1>7, FreeLockedStep
<1>8. CASE \E b \in live : FreeMark(c, b)
  BY <1>1, <1>8, FreeMarkStep
<1>9. CASE FreeLook(c)
  BY <1>1, <1>9, FreeLookStep
<1>10. CASE FreeMerge(c)
  BY <1>1, <1>10, FreeMergeStep
<1>. QED
  BY <1>3, <1>4, <1>5, <1>6, <1>7, <1>8, <1>9, <1>10 DEF HeapStep

LEMMA CoreStep ==
  ASSUME HeapState, NEW c \in Core, HeapStep(c)
  PROVE  HeapState'
<1>1. Places' /\ (spoiled => spoiled')
  BY StepPlaces DEF HeapState
<1>2. CASE spoiled'
  BY <1>1, <1>2 DEF HeapState
<1>3. CASE ~spoiled'
  BY <1>1, <1>3, StepFine DEF HeapState
<1>. QED
  BY <1>2, <1>3

LEMMA HeapStutters ==
  ASSUME HeapState, UNCHANGED vars
  PROVE  HeapState'
<1>1. /\ mem' = mem /\ owner' = owner /\ pc' = pc /\ cur' = cur /\ want' = want /\ asked' = asked
      /\ live' = live /\ spoiled' = spoiled
  BY DEF vars
<1>2. Places'
  BY <1>1 DEF HeapState, Places
<1>3. ASSUME Fine PROVE Fine'
  <2>1. PICK B \in SUBSET Ptr : Types /\ HeapInv(B)
    BY <1>3 DEF Fine
  <2>2. Types'
    BY <1>1, <2>1 DEF Types
  <2>3. HeapInv(B)'
    BY <1>1, <2>1 DEF HeapInv, WalkInv
  <2>. QED
    BY <2>2, <2>3 DEF Fine
<1>. QED
  BY <1>1, <1>2, <1>3 DEF HeapState

(* The heap stays a sequence of blocks from Start to End whose tags agree, *)
(* of which just the allocated ones are handed out, whatever the cores ask *)
(* for and give back, until it is used in the middle of a free without the *)
(* lock (sae_alloc.c).                                                     *)
THEOREM HeapInvariance == Spec => []HeapState
<1>1. Init => HeapState
  <2>1. Init => Places
    BY DEF Init, Places
  <2>2. Init => Fine
    BY InitHeap, Bounds DEF Fine
  <2>. QED
    BY <2>1, <2>2 DEF HeapState
<1>2. HeapState /\ [Next]_vars => HeapState'
  BY CoreStep, HeapStutters DEF Next, HeapStep
<1>. QED
  BY <1>1, <1>2, PTL DEF Spec

-----------------------------------------------------------------------------
(* The walk of the properties meets just the blocks.                       *)

LEMMA LeastNat ==
  ASSUME NEW T, T \subseteq Nat, T # {}
  PROVE  \E x \in T : \A y \in T : x <= y
<1>1. \E x \in T : \A y \in T : ~(<<y, x>> \in OpToRel(<, Nat))
  BY NatLessThanWellFounded, WFMin
<1>2. PICK x \in T : \A y \in T : ~(<<y, x>> \in OpToRel(<, Nat))
  BY <1>1
<1>3. ASSUME NEW y \in T PROVE x <= y
  <2>1. x \in Nat /\ y \in Nat
    OBVIOUS
  <2>2. y < x => <<y, x>> \in OpToRel(<, Nat)
    BY <2>1 DEF OpToRel
  <2>3. ~(<<y, x>> \in OpToRel(<, Nat))
    BY <1>2
  <2>4. ~(y < x)
    BY <2>2, <2>3
  <2>. QED
    BY <2>1, <2>4
<1>. QED
  BY <1>3

(* Where the walk goes on, and the blocks it comes by.                     *)
GoesOn(p) == BlkSize(p) > 0 /\ NextBlk(p) \in Ptr
Closed(S) == \A q \in S : GoesOn(q) => NextBlk(q) \in S
ReachedFrom(p) == {q \in Ptr : \A S \in SUBSET Ptr : (p \in S /\ Closed(S)) => q \in S}
IsWalk(w) == w = [p \in Ptr |-> IF BlkSize(p) > 0 /\ NextBlk(p) \in Ptr
                                THEN {p} \cup w[NextBlk(p)] ELSE {p}]

LEMMA WalkExists == IsWalk([p \in Ptr |-> ReachedFrom(p)])
<1>1. ASSUME NEW p \in Ptr
      PROVE  ReachedFrom(p) = IF GoesOn(p) THEN {p} \cup ReachedFrom(NextBlk(p)) ELSE {p}
  <2>1. p \in ReachedFrom(p)
    BY DEF ReachedFrom
  <2>2. CASE GoesOn(p)
    <3>1. NextBlk(p) \in Ptr
      BY <2>2 DEF GoesOn
    <3>2. ReachedFrom(NextBlk(p)) \subseteq ReachedFrom(p)
      BY <2>2 DEF ReachedFrom, Closed
    <3>. DEFINE S == {p} \cup ReachedFrom(NextBlk(p))
    <3>3. NextBlk(p) \in ReachedFrom(NextBlk(p))
      BY <3>1 DEF ReachedFrom
    <3>4. Closed(ReachedFrom(NextBlk(p)))
      BY DEF Closed, ReachedFrom, GoesOn
    <3>5. S \in SUBSET Ptr /\ p \in S /\ Closed(S)
      BY <3>3, <3>4 DEF Closed, ReachedFrom
    <3>6. ReachedFrom(p) \subseteq S
      BY <3>5 DEF ReachedFrom
    <3>. QED
      BY <2>1, <2>2, <3>2, <3>6
  <2>3. CASE ~GoesOn(p)
    <3>1. {p} \in SUBSET Ptr /\ Closed({p})
      BY <2>3 DEF Closed
    <3>2. ReachedFrom(p) \subseteq {p}
      BY <3>1 DEF ReachedFrom
    <3>. QED
      BY <2>1, <2>3, <3>2
  <2>. QED
    BY <2>2, <2>3
<1>. DEFINE w == [p \in Ptr |-> ReachedFrom(p)]
<1>2. ASSUME NEW p \in Ptr
      PROVE  w[p] = IF BlkSize(p) > 0 /\ NextBlk(p) \in Ptr
                    THEN {p} \cup w[NextBlk(p)] ELSE {p}
  <2>1. CASE GoesOn(p)
    <3>1. NextBlk(p) \in Ptr /\ BlkSize(p) > 0
      BY <2>1 DEF GoesOn
    <3>. QED
      BY <1>1, <2>1, <3>1
  <2>2. CASE ~GoesOn(p)
    BY <1>1, <2>2 DEF GoesOn
  <2>. QED
    BY <2>1, <2>2
<1>. QED
  BY <1>2 DEF IsWalk

LEMMA WalkBy ==
  \E w : IsWalk(w) /\ Walk = w[Start]
<1>. DEFINE w == CHOOSE w : IsWalk(w)
<1>1. IsWalk(w)
  BY WalkExists
<1>2. Walk = w[Start]
  BY DEF Walk, IsWalk
<1>. QED
  BY <1>1, <1>2

LEMMA WalkIsTiling ==
  ASSUME NEW B, Tiled(mem, B)
  PROVE  Walk = B
<1>1. PICK w : IsWalk(w) /\ Walk = w[Start]
  BY WalkBy
<1>2. /\ B \subseteq Ptr /\ Start \in B /\ End \in B
      /\ \A p \in B : p \in Nat /\ p >= Start /\ p <= End
  BY Bounds DEF Tiled
<1>3. \A p \in Ptr : w[p] = IF BlkSize(p) > 0 /\ NextBlk(p) \in Ptr
                            THEN {p} \cup w[NextBlk(p)] ELSE {p}
  BY <1>1 DEF IsWalk
<1>. DEFINE From(p) == {q \in B : q >= p}
            T == {k \in Nat : \E p \in B : k = End - p /\ w[p] # From(p)}
<1>4. w[End] = From(End)
  <2>1. BlkSize(End) = 0
    BY EndFacts DEF BlkSize, SizeAt
  <2>2. w[End] = {End}
    <3>1. End \in Ptr /\ ~(BlkSize(End) > 0)
      BY <1>2, <2>1
    <3>. QED
      BY <1>3, <3>1
  <2>3. From(End) = {End}
    BY <1>2
  <2>. QED
    BY <2>2, <2>3
<1>5. ASSUME NEW p \in B \ {End}, w[NextAt(mem, p)] = From(NextAt(mem, p))
      PROVE  w[p] = From(p)
  <2>1. /\ NextAt(mem, p) \in B /\ NextAt(mem, p) \in Nat /\ p \in Nat
        /\ p < NextAt(mem, p) /\ SizeAt(mem, p) > 0
        /\ \A q \in B : q <= p \/ q >= NextAt(mem, p)
    BY BlockFacts
  <2>2. BlkSize(p) > 0 /\ NextBlk(p) = NextAt(mem, p)
    BY <2>1 DEF BlkSize, SizeAt, NextBlk, NextAt
  <2>3. w[p] = {p} \cup From(NextAt(mem, p))
    BY <1>2, <1>3, <1>5, <2>1, <2>2
  <2>4. ASSUME NEW q \in B PROVE q >= p <=> (q = p \/ q >= NextAt(mem, p))
    <3>1. q \in Nat /\ (q <= p \/ q >= NextAt(mem, p))
      BY <1>2, <2>1
    <3>. QED
      BY <2>1, <3>1
  <2>5. From(p) = {p} \cup From(NextAt(mem, p))
    BY <2>4
  <2>. QED
    BY <2>3, <2>5
<1>6. T = {}
  <2>1. SUFFICES ASSUME T # {} PROVE FALSE
    OBVIOUS
  <2>2. PICK k \in T : \A j \in T : k <= j
    BY <2>1, LeastNat
  <2>3. PICK p \in B : k = End - p /\ w[p] # From(p)
    BY <2>2
  <2>4. p # End
    BY <1>4, <2>3
  <2>5. PICK q : q = NextAt(mem, p)
    OBVIOUS
  <2>6. q \in B /\ p < q /\ w[q] # From(q)
    BY <1>5, <2>3, <2>4, <2>5, BlockFacts
  <2>7. p \in Nat /\ q \in Nat /\ End \in Nat /\ p < q /\ q <= End
    BY <1>2, <2>6, Bounds
  <2>8. End - q \in T
    BY <2>6, <2>7
  <2>9. k <= End - q
    BY <2>2, <2>8
  <2>. QED
    BY <2>3, <2>7, <2>9
<1>7. w[Start] = From(Start)
  <2>1. End - Start \in Nat
    BY Bounds
  <2>. QED
    BY <1>2, <1>6, <2>1
<1>8. From(Start) = B
  BY <1>2
<1>. QED
  BY <1>1, <1>7, <1>8

(* Every word is some block's.                                             *)
LEMMA BlockOf ==
  ASSUME NEW m, NEW B, Tiled(m, B), NEW x \in Nat, Start <= x, x < End
  PROVE  \E p \in B \ {End} : p <= x /\ x < NextAt(m, p)
<1>. DEFINE T == {k \in Nat : \E p \in B : p <= x /\ k = x - p}
<1>1. \A p \in B : p \in Nat
  BY Bounds DEF Tiled
<1>2. x - Start \in T
  BY Bounds DEF Tiled
<1>3. PICK k \in T : \A j \in T : k <= j
  BY <1>2, LeastNat
<1>4. PICK p \in B : p <= x /\ k = x - p
  BY <1>3
<1>5. p \in B \ {End} /\ p \in Nat
  BY <1>1, <1>4, Bounds
<1>6. PICK q : q = NextAt(m, p)
  OBVIOUS
<1>7. q \in B /\ q \in Nat /\ p < q
  BY <1>5, <1>6, BlockFacts
<1>8. ASSUME q <= x PROVE FALSE
  <2>1. x - q \in T /\ x - q < k
    BY <1>4, <1>5, <1>7, <1>8
  <2>. QED
    BY <1>3, <1>4, <1>5, <1>7, <1>8, <2>1
<1>. QED
  BY <1>4, <1>5, <1>6, <1>7, <1>8

-----------------------------------------------------------------------------
(* What the invariant says in terms of the properties that are checked.    *)

LEMMA TagsAgree ==
  ASSUME NEW B, Types, HeapInv(B)
  PROVE  HeapConsistent
<1>1. Tiled(mem, B) /\ Walk = B /\ B \subseteq Ptr /\ End \in B
  BY WalkIsTiling DEF HeapInv, Sound, Tiled
<1>2. mem[PrevBlk(Start) - 1] = Align + 1
  <2>1. mem[2] = 2 + 1 /\ mem[1] = Align + 1
    BY <1>1, Bounds DEF Tiled
  <2>2. 2 \in Nat /\ 2 % 2 = 0 /\ 1 \in {0, 1}
    OBVIOUS
  <2>3. GetSize(mem[2]) = 2
    BY <2>1, <2>2, TagIs
  <2>4. PrevBlk(Start) = 2
    BY <2>3, Bounds DEF PrevBlk
  <2>. QED
    BY <2>1, <2>4
<1>3. ASSUME NEW p \in B \ {End}
      PROVE  NextBlk(p) \in Ptr /\ mem[p - 1] = mem[NextBlk(p) - 2]
  <2>1. NextBlk(p) = NextAt(mem, p)
    BY DEF NextBlk, NextAt, BlkSize, SizeAt
  <2>. QED
    BY <1>1, <2>1, BlockFacts
<1>4. BlkSize(End) = 0 /\ ~BlkFree(End)
  BY <1>1, EndFacts DEF BlkSize, SizeAt, BlkFree, FreeAt
<1>. QED
  BY <1>1, <1>2, <1>3, <1>4 DEF HeapConsistent

LEMMA LiveAreBlocks ==
  ASSUME NEW B, Types, HeapInv(B)
  PROVE  LiveBlocksIntact
<1>1. Walk = B /\ Sound(mem, live, B)
  BY WalkIsTiling DEF HeapInv, Sound
<1>. QED
  BY <1>1 DEF LiveBlocksIntact, BlocksIntact, Sound, BlkFree, FreeAt, BlkSize, SizeAt

LEMMA NothingLost ==
  ASSUME NEW B, Types, HeapInv(B)
  PROVE  Coalesced
<1>1. Walk = B /\ Sound(mem, live, B)
  BY WalkIsTiling DEF HeapInv, Sound
<1>2. SUFFICES ASSUME \A c \in Core : pc[c] \in {"idle", "walk"}, NEW p \in B \ {End}
               PROVE  /\ BlkFree(p) => ~BlkFree(NextBlk(p))
                      /\ ~BlkFree(p) => \E b \in live : b.ptr = p
  BY <1>1 DEF Coalesced
<1>3. Apart(mem, B)
  BY <1>2 DEF HeapInv
<1>4. NextBlk(p) = NextAt(mem, p)
  BY DEF NextBlk, NextAt, BlkSize, SizeAt
<1>. QED
  BY <1>1, <1>2, <1>3, <1>4 DEF Apart, Sound, BlkFree, FreeAt

LEMMA RefusedWhenFull ==
  ASSUME NEW B, Types, HeapInv(B)
  PROVE  RefusedOnlyWhenFull
<1>1. SUFFICES ASSUME NEW c \in Core, pc[c] = "walk", BlkSize(cur[c]) = 0,
                      NEW lo \in Start .. End - want[c],
                      \A w \in lo .. lo + want[c] - 1 : ~InUse(w)
               PROVE  FALSE
  BY DEF RefusedOnlyWhenFull
<1>2. Sound(mem, live, B) /\ Tiled(mem, B) /\ WalkInv(B, c) /\ Apart(mem, B)
  BY <1>1, WalksAlone DEF HeapInv, Sound
<1>3. want[c] \in Nat /\ want[c] >= 4
  BY <1>2, WantIs DEF WalkInv
<1>4. lo \in Nat /\ Start <= lo /\ lo + want[c] <= End /\ lo < End
  BY <1>1, <1>3, Bounds
<1>5. cur[c] = End
  <2>1. SizeAt(mem, cur[c]) = 0 /\ cur[c] \in B
    BY <1>1, <1>2 DEF BlkSize, SizeAt, WalkInv
  <2>. QED
    BY <1>2, <2>1, BlockFacts
<1>6. PICK p \in B \ {End} : p <= lo /\ lo < NextAt(mem, p)
  BY <1>2, <1>4, BlockOf
<1>7. PICK q : q = NextAt(mem, p)
  OBVIOUS
<1>8. /\ p \in Nat /\ q \in Nat /\ q \in B /\ q <= End /\ SizeAt(mem, p) \in Nat
      /\ q = p + SizeAt(mem, p)
  BY <1>2, <1>7, BlockFacts
<1>9. FreeAt(mem, p)
  <2>1. SUFFICES ASSUME ~FreeAt(mem, p) PROVE FALSE
    OBVIOUS
  <2>2. PICK b \in live : b.ptr = p
    BY <1>2, <2>1 DEF Sound
  <2>3. b.size = SizeAt(mem, p)
    BY <1>2, <2>2 DEF Sound
  <2>4. lo \in b.ptr .. b.ptr + b.size - 1
    BY <1>4, <1>6, <1>7, <1>8, <2>2, <2>3
  <2>5. lo \in lo .. lo + want[c] - 1
    BY <1>3, <1>4
  <2>. QED
    BY <1>1, <2>4, <2>5 DEF InUse
<1>10. ~(SizeAt(mem, p) >= want[c])
  <2>1. p < End
    BY <1>4, <1>6, <1>8, Bounds
  <2>. QED
    BY <1>2, <1>5, <1>9, <2>1 DEF WalkInv
<1>11. q > lo /\ q < lo + want[c] /\ q # End
  BY <1>3, <1>4, <1>6, <1>7, <1>8, <1>10, Bounds
<1>12. ~FreeAt(mem, q)
  BY <1>2, <1>7, <1>9 DEF Apart
<1>13. PICK b \in live : b.ptr = q
  BY <1>2, <1>8, <1>11, <1>12 DEF Sound
<1>14. q \in B \ {End} /\ b.size = SizeAt(mem, q)
  BY <1>2, <1>8, <1>11, <1>13 DEF Sound
<1>15. SizeAt(mem, q) \in Nat /\ SizeAt(mem, q) >= 4
  BY <1>2, <1>14, BlockFacts
<1>16. q \in b.ptr .. b.ptr + b.size - 1 /\ q \in lo .. lo + want[c] - 1
  BY <1>3, <1>4, <1>8, <1>11, <1>13, <1>14, <1>15
<1>. QED
  BY <1>1, <1>16 DEF InUse

(* All together, for any step that keeps the invariant.                    *)
LEMMA HeapPromises ==
  HeapState => /\ TypeOK /\ HeapConsistent /\ LiveBlocksIntact
               /\ Coalesced /\ RefusedOnlyWhenFull
<1>. SUFFICES ASSUME HeapState
              PROVE  /\ TypeOK /\ HeapConsistent /\ LiveBlocksIntact
                     /\ Coalesced /\ RefusedOnlyWhenFull
  OBVIOUS
<1>1. Places /\ (spoiled \/ Fine)
  BY DEF HeapState
<1>2. TypeOK
  BY <1>1 DEF Places, Fine, Types, TypeOK
<1>3. CASE spoiled
  BY <1>2, <1>3 DEF HeapConsistent, LiveBlocksIntact, Coalesced, RefusedOnlyWhenFull
<1>4. CASE Fine
  BY <1>2, <1>4, TagsAgree, LiveAreBlocks, NothingLost, RefusedWhenFull DEF Fine
<1>. QED
  BY <1>1, <1>3, <1>4

(* The variables hold what their types say.                                *)
THEOREM TypeCorrect == Spec => []TypeOK
BY HeapInvariance, HeapPromises, PTL

(* sae_alloc_checkheap returns true at every moment: each block's tags     *)
(* agree and the walk from the first leads to the end marker.              *)
THEOREM TagsStayConsistent == Spec => []HeapConsistent
BY HeapInvariance, HeapPromises, PTL

(* No other core's malloc or free changes a block that is handed out.      *)
THEOREM HandedOutStaysIntact == Spec => []LiveBlocksIntact
BY HeapInvariance, HeapPromises, PTL

(* sae_alloc_coalesce leaves no two free neighbours, and no allocated      *)
(* block that nobody has.                                                  *)
THEOREM NothingLeaks == Spec => []Coalesced
BY HeapInvariance, HeapPromises, PTL

(* sae_alloc_malloc returns NULL only when no gap between the blocks       *)
(* handed out would do: first fit and coalescing miss none.                *)
THEOREM RefusalIsJust == Spec => []RefusedOnlyWhenFull
BY HeapInvariance, HeapPromises, PTL

-----------------------------------------------------------------------------
(* The refinement of SaeArena.                                             *)

(* What is handed out lies in the arena and is nobody else's.              *)
LEMMA PayloadIs ==
  ASSUME NEW m, NEW l, NEW B, Sound(m, l, B), NEW b \in l
  PROVE  /\ b.ptr \in Payload(b) /\ Payload(b) \subseteq Start .. End - 1
         /\ b.ptr \in Nat /\ b.size \in Nat /\ b.size >= 4
         /\ Payload(b) = b.ptr .. b.ptr + b.size - 3
         /\ b.ptr + b.size - 3 \in Start .. End - 1
         /\ NextAt(m, b.ptr) = b.ptr + b.size
<1>1. Tiled(m, B) /\ b.ptr \in B \ {End} /\ SizeAt(m, b.ptr) = b.size
  BY DEF Sound
<1>2. /\ b.ptr \in Nat /\ b.size \in Nat /\ b.size >= 4 /\ b.ptr >= 4
      /\ NextAt(m, b.ptr) = b.ptr + b.size /\ b.ptr + b.size <= End
  BY <1>1, BlockFacts
<1>3. Payload(b) = b.ptr .. b.ptr + b.size - 3
  <2>1. b.ptr + b.size - BookKeeping - 1 = b.ptr + b.size - 3
    BY <1>2, Bounds
  <2>. QED
    BY <2>1 DEF Payload
<1>. QED
  BY <1>2, <1>3, Bounds

LEMMA PayloadsApart ==
  ASSUME NEW m, NEW l, NEW B, Sound(m, l, B), NEW b \in l, NEW d \in l, b # d
  PROVE  Payload(b) \cap Payload(d) = {}
<1>1. Tiled(m, B) /\ b.ptr \in B \ {End} /\ d.ptr \in B \ {End} /\ b.ptr # d.ptr
  BY OneBlock DEF Sound
<1>2. /\ b.ptr \in Nat /\ b.size \in Nat /\ Payload(b) = b.ptr .. b.ptr + b.size - 3
      /\ NextAt(m, b.ptr) = b.ptr + b.size
      /\ d.ptr \in Nat /\ d.size \in Nat /\ Payload(d) = d.ptr .. d.ptr + d.size - 3
      /\ NextAt(m, d.ptr) = d.ptr + d.size
  BY PayloadIs
<1>3. /\ d.ptr <= b.ptr \/ d.ptr >= b.ptr + b.size
      /\ b.ptr <= d.ptr \/ b.ptr >= d.ptr + d.size
  <2>1. \A q \in B : q <= b.ptr \/ q >= NextAt(m, b.ptr)
    BY <1>1, BlockFacts
  <2>2. \A q \in B : q <= d.ptr \/ q >= NextAt(m, d.ptr)
    BY <1>1, BlockFacts
  <2>. QED
    BY <1>1, <1>2, <2>1, <2>2
<1>4. d.ptr >= b.ptr + b.size \/ b.ptr >= d.ptr + d.size
  BY <1>1, <1>2, <1>3
<1>. QED
  BY <1>2, <1>4

(* An allocation grabs a region as long as its caller has asked for.       *)
LEMMA AllocateGrabs ==
  ASSUME Types, NEW B, HeapInv(B), NEW c \in Core, Allocate(c),
         NEW n \in Requests \cup {0}, asked' = [asked EXCEPT ![c] = n]
  PROVE  Arena!Grab(c)
<1>1. PICK b : b = Cut(c)
  OBVIOUS
<1>2. Handed(B, c, b)
  BY <1>1, AllocateStep
<1>3. PICK C \in SUBSET Ptr : Sound(mem', live', C)
  BY AllocateStep
<1>4. live' = live \cup {b} /\ b.size >= want[c] /\ b.ptr \in B /\ FreeAt(mem, b.ptr)
  BY <1>2 DEF Handed
<1>5. b \notin live
  BY <1>4 DEF HeapInv, Sound
<1>6. asked[c] \in Requests /\ want[c] = AlignUp(asked[c] + BookKeeping)
  BY DEF Allocate, HeapInv, WalkInv
<1>7. /\ asked[c] \in Nat /\ asked[c] # 0 /\ want[c] \in Nat /\ want[c] >= asked[c] + 2
  BY <1>6, WantIs DEF BookKeeping
<1>8. PICK lo, hi : lo = b.ptr /\ hi = b.ptr + b.size - 3
  OBVIOUS
<1>9. /\ Payload(b) = lo .. hi /\ lo \in Start .. End - 1 /\ hi \in Start .. End - 1
      /\ lo \in Nat /\ b.size \in Nat /\ b.size >= 4
  BY <1>3, <1>4, <1>8, PayloadIs
<1>10. hi + 1 >= lo + asked[c]
  <2>1. PICK x \in Nat, size \in Nat, w \in Nat :
              x = asked[c] /\ size = b.size /\ w = want[c]
    BY <1>7, <1>9
  <2>2. size >= x + 2
    BY <1>4, <1>7, <2>1
  <2>3. hi = lo + size - 3
    BY <1>8, <2>1
  <2>4. lo \in Nat
    BY <1>9
  <2>5. hi + 1 >= lo + x
    BY <2>2, <2>3, <2>4
  <2>. QED
    BY <2>1, <2>5
<1>11. \A q \in Regions : q \cap (lo .. hi) = {}
  BY <1>3, <1>4, <1>5, <1>9, PayloadsApart DEF Regions
<1>12. Regions' = Regions \cup {lo .. hi}
  BY <1>4, <1>9 DEF Regions, Payload
<1>. QED
  BY <1>7, <1>9, <1>10, <1>11, <1>12 DEF Arena!Grab

(* A free gives one back.                                                  *)
LEMMA FreeGivesBack ==
  ASSUME NEW B, HeapInv(B), NEW b \in live, live' = live \ {b}, asked' = asked
  PROVE  \E r \in Regions : Arena!GiveBack(r)
<1>1. Sound(mem, live, B)
  BY DEF HeapInv
<1>2. \A d \in live : Payload(d) = Payload(b) => d = b
  BY <1>1, PayloadIs, PayloadsApart
<1>3. Regions' = Regions \ {Payload(b)} /\ Payload(b) \in Regions
  BY <1>2 DEF Regions, Payload
<1>. QED
  BY <1>3 DEF Arena!GiveBack

(* What a step of a fine heap is to SaeArena.                              *)
LEMMA StepKeepsPromise ==
  ASSUME Fine, NEW c \in Core, HeapStep(c)
  PROVE  [Arena!Next]_Arena!vars
<1>1. PICK B \in SUBSET Ptr : Types /\ HeapInv(B)
  BY DEF Fine
<1>2. live' = live => Regions' = Regions
  BY DEF Regions, Payload
<1>3. pc[c] # "walk" => asked[c] = 0
  BY <1>1 DEF HeapInv
<1>4. CASE \E n \in Requests : Malloc(c, n)
  <2>1. PICK n \in Requests : Malloc(c, n)
    BY <1>4
  <2>2. Arena!Ask(c, n)
    BY <1>2, <1>3, <2>1 DEF Malloc, StartWalk, Arena!Ask
  <2>. QED
    BY <2>2 DEF Arena!Next
<1>5. CASE Take(c)
  <2>1. Allocate(c) /\ asked' = [asked EXCEPT ![c] = 0]
    BY <1>5 DEF Take, Finish
  <2>2. Arena!Grab(c)
    BY <1>1, <2>1, AllocateGrabs
  <2>. QED
    BY <2>2 DEF Arena!Next
<1>6. CASE Refuse(c)
  <2>1. asked[c] # 0
    <3>1. asked[c] \in Requests
      BY <1>1, <1>6 DEF HeapInv, WalkInv, Refuse
    <3>. QED
      BY <3>1, WantIs
  <2>2. Arena!Refuse(c)
    BY <1>2, <1>6, <2>1 DEF Refuse, Finish, Arena!Refuse
  <2>. QED
    BY <2>2 DEF Arena!Next
<1>7. CASE \E b \in live : FreeLocked(c, b) \/ FreeMark(c, b)
  <2>1. PICK b \in live : live' = live \ {b} /\ asked' = asked
    BY <1>7 DEF FreeLocked, FreeMark
  <2>2. \E r \in Regions : Arena!GiveBack(r)
    BY <1>1, <2>1, FreeGivesBack
  <2>. QED
    BY <2>2 DEF Arena!Next
<1>8. CASE WalkOn(c) \/ FreeLook(c) \/ FreeMerge(c)
  <2>1. live' = live /\ (asked' = asked \/ (asked[c] = 0 /\ asked' = [asked EXCEPT ![c] = 0]))
    BY <1>3, <1>8 DEF WalkOn, FreeLook, FreeMerge, Finish
  <2>2. asked' = asked
    BY <1>1, <2>1 DEF Types
  <2>. QED
    BY <1>2, <2>1, <2>2 DEF Arena!vars
<1>. QED
  BY <1>4, <1>5, <1>6, <1>7, <1>8 DEF HeapStep

(* The heap hands out regions as SaeArena promises: sae_alloc_malloc one   *)
(* that is as long as its caller asked for and that nobody else has,       *)
(* sae_alloc_free gives just one back, until the heap is spoiled.          *)
THEOREM HeapImplementsArena == Spec => ImplementsArena
<1>1. Init => Arena!Init
  BY DEF Init, Arena!Init, Regions
<1>2. HeapState /\ [Next]_vars => [spoiled' \/ Arena!Next]_Arena!vars
  <2>. SUFFICES ASSUME HeapState, [Next]_vars, ~spoiled'
                PROVE  [Arena!Next]_Arena!vars
    OBVIOUS
  <2>1. CASE \E c \in Core : HeapStep(c)
    <3>1. PICK c \in Core : HeapStep(c)
      BY <2>1
    <3>2. Fine
      BY <3>1, StepPlaces DEF HeapState
    <3>. QED
      BY <3>1, <3>2, StepKeepsPromise
  <2>2. CASE UNCHANGED vars
    BY <2>2 DEF vars, Arena!vars, Regions, Payload
  <2>. QED
    BY <2>1, <2>2 DEF Next, HeapStep
<1>. QED
  BY <1>1, <1>2, HeapInvariance, PTL DEF Spec, ImplementsArena

=============================================================================
