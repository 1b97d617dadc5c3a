-------------------------- MODULE SaeStreamHeapProofs --------------------------
(***************************************************************************)
(* The heap and the list of streams together: a registration makes two     *)
(* allocations under one lock, and a removal frees two blocks without it.  *)
(* The heap keeps what SaeAllocProofs shows of it, and the blocks of the   *)
(* streams stay theirs, until the heap is spoiled: used in the middle of   *)
(* those frees, or written to for a name that got no block.                *)
(***************************************************************************)
EXTENDS SaeStreamProofs, SaeAllocProofs, FiniteSetTheorems

Stream == [name : Name \cup {None}, node : Ptr \cup {0}, str : Ptr \cup {0}]
Entries == {streamList[i] : i \in DOMAIN streamList}
LivePtrs == {b.ptr : b \in live}

(* A stream that has its two blocks.                                       *)
Whole(s) == s \in Stream /\ s.node \in Ptr /\ s.str \in Ptr /\ s.node # s.str

Steps == {"none", "node", "name", "added", "unlinked", "announced", "freed"}

(* How much of its stream a core has, at each step of its call.            *)
Shape(j) ==
  /\ j \in [step : Steps, stream : Stream]
  /\ j.step \in {"none", "node"} => j.stream.node = 0 /\ j.stream.str = 0
  /\ j.step = "name" => j.stream.node \in Ptr /\ j.stream.str = 0
  /\ j.step \in {"unlinked", "announced"} => Whole(j.stream)
  /\ j.step = "freed" => j.stream.node \in Ptr

OwnInv ==
  /\ job \in [Core -> [step : Steps, stream : Stream]]
  /\ \A s \in Entries : Whole(s)
  /\ \A c \in Core : Shape(job[c])
  /\ \A s \in Entries : Pointers(s) \subseteq LivePtrs
  /\ \A c \in Core : Held(c) \subseteq LivePtrs
  /\ \A s, t \in Entries : s # t => Pointers(s) \cap Pointers(t) = {}
  /\ \A c \in Core : \A s \in Entries : Held(c) \cap Pointers(s) = {}
  /\ \A c, d \in Core : c # d => Held(c) \cap Held(d) = {}

LEMMA PtrNotZero == 0 \notin Ptr
BY Bounds

LEMMA WholePointers ==
  ASSUME NEW s, Whole(s)
  PROVE  Pointers(s) = {s.node, s.str}
BY PtrNotZero DEF Whole, Pointers

HeldBy(j) == CASE j.step = "added" -> {}
               [] j.step = "freed" -> {j.stream.node}
               [] OTHER            -> Pointers(j.stream)

LEMMA HeldIs ==
  /\ \A c : Held(c) = HeldBy(job[c])
  /\ \A c : Held(c)' = HeldBy(job'[c])
BY DEF Held, HeldBy, At, Pointers

LEMMA HeldByIs ==
  ASSUME NEW j, Shape(j)
  PROVE  /\ j.step \in {"none", "node", "added"} => HeldBy(j) = {}
         /\ j.step \in {"name", "freed"} => HeldBy(j) = {j.stream.node}
         /\ j.step \in {"unlinked", "announced"} => HeldBy(j) = {j.stream.node, j.stream.str}
<1>1. CASE j.step \in {"none", "node"}
  BY <1>1 DEF Shape, HeldBy, Pointers
<1>2. CASE j.step = "added"
  BY <1>2 DEF HeldBy
<1>3. CASE j.step = "name"
  BY <1>3, PtrNotZero DEF Shape, HeldBy, Pointers
<1>4. CASE j.step = "freed"
  BY <1>4 DEF HeldBy
<1>5. CASE j.step \in {"unlinked", "announced"}
  BY <1>5, WholePointers DEF Shape, HeldBy
<1>. QED
  BY <1>1, <1>2, <1>3, <1>4, <1>5

LEMMA StreamPtrsAre ==
  \A p : p \in StreamPtrs <=> \/ \E s \in Entries : p \in Pointers(s)
                             \/ \E c \in Core : p \in Held(c)
<1>1. StreamPtrs = UNION ({Pointers(s) : s \in Entries} \cup {Held(c) : c \in Core})
  <2>1. {Listed(i) : i \in DOMAIN streamList} = {Pointers(s) : s \in Entries}
    BY DEF Listed, Entries
  <2>. QED
    BY <2>1 DEF StreamPtrs
<1>. QED
  BY <1>1

LEMMA NoStreamIs ==
  /\ NoStream \in Stream /\ NoStream.node = 0 /\ NoStream.str = 0
  /\ \A n \in Name : LET s == [NoStream EXCEPT !.name = n] IN
                       s \in Stream /\ s.node = 0 /\ s.str = 0
BY DEF NoStream, Stream

LEMMA InitOwn == ASSUME StreamInit PROVE OwnInv
<1>1. /\ streamList = <<>> /\ live = {}
      /\ job = [c \in Core |-> [step |-> "none", stream |-> NoStream]]
  BY DEF StreamInit, Init
<1>2. Entries = {}
  BY <1>1 DEF Entries
<1>3. \A c \in Core : Shape(job[c]) /\ job[c].step = "none"
  BY <1>1, NoStreamIs DEF Shape, Steps
<1>4. \A c \in Core : Held(c) = {}
  BY <1>3, HeldIs, HeldByIs
<1>5. job \in [Core -> [step : Steps, stream : Stream]]
  BY <1>1, NoStreamIs DEF Steps
<1>. QED
  BY <1>2, <1>3, <1>4, <1>5 DEF OwnInv


-----------------------------------------------------------------------------
(* Blocks of no stream come and go.                                        *)
LEMMA OwnKept ==
  ASSUME OwnInv, UNCHANGED <<streamList, job>>,
         \A p \in StreamPtrs : p \in LivePtrs => p \in LivePtrs'
  PROVE  OwnInv'
<1>1. Entries' = Entries /\ \A c \in Core : Held(c)' = Held(c)
  BY HeldIs DEF Entries
<1>2. (\A s \in Entries : Pointers(s) \subseteq StreamPtrs) /\ \A c \in Core : Held(c) \subseteq StreamPtrs
  BY StreamPtrsAre
<1>. QED
  BY <1>1, <1>2 DEF OwnInv

(* A core lets go of pointers, or does nothing to them.                    *)
LEMMA OwnShrinks ==
  ASSUME OwnInv, NEW c \in Core, UNCHANGED streamList,
         job' \in [Core -> [step : Steps, stream : Stream]],
         \A d \in Core \ {c} : job'[d] = job[d],
         Shape(job'[c]), Held(c)' \subseteq Held(c),
         \A p \in LivePtrs : p \in LivePtrs' \/ (p \in Held(c) /\ p \notin Held(c)')
  PROVE  OwnInv'
<1>1. Entries' = Entries
  BY DEF Entries
<1>2. \A d \in Core \ {c} : Held(d)' = Held(d)
  BY HeldIs
<1>3. \A s \in Entries : Pointers(s) \subseteq LivePtrs'
  BY DEF OwnInv
<1>4. \A d \in Core : Held(d)' \subseteq LivePtrs'
  BY <1>2 DEF OwnInv
<1>5. \A d \in Core : \A s \in Entries : Held(d)' \cap Pointers(s) = {}
  BY <1>2 DEF OwnInv
<1>6. \A d, e \in Core : d # e => Held(d)' \cap Held(e)' = {}
  BY <1>2 DEF OwnInv
<1>7. \A d \in Core : Shape(job'[d])
  BY DEF OwnInv
<1>8. \A s, t \in Entries : s # t => Pointers(s) \cap Pointers(t) = {}
  BY DEF OwnInv
<1>. QED
  BY <1>1, <1>3, <1>4, <1>5, <1>6, <1>7, <1>8 DEF OwnInv

-----------------------------------------------------------------------------
(* The steps.                                                              *)

(* What SetJob makes of the jobs.                                          *)
LEMMA SetJobIs ==
  ASSUME job \in [Core -> [step : Steps, stream : Stream]],
         NEW c \in Core, NEW step \in Steps, NEW s \in Stream, SetJob(c, step, s)
  PROVE  /\ job' \in [Core -> [step : Steps, stream : Stream]]
         /\ job'[c] = [step |-> step, stream |-> s]
         /\ \A d \in Core \ {c} : job'[d] = job[d]
BY DEF SetJob

(* The pointer of a new block is nobody's yet.                             *)
LEMMA NewPtr ==
  ASSUME Types, NEW B, HeapInv(B), NEW c \in Core, Allocate(c)
  PROVE  /\ cur[c] \in Ptr /\ cur[c] \notin LivePtrs
         /\ LivePtrs' = LivePtrs \cup {cur[c]}
<1>1. PICK b : b = Cut(c)
  OBVIOUS
<1>2. Handed(B, c, b)
  BY <1>1, AllocateStep
<1>3. LivePtrs' = LivePtrs \cup {cur[c]} /\ cur[c] \in Ptr
  BY <1>2 DEF Handed, LivePtrs
<1>4. cur[c] \notin LivePtrs
  BY <1>2 DEF Handed, HeapInv, Sound, LivePtrs
<1>. QED
  BY <1>3, <1>4

LEMMA RegisterOwn ==
  ASSUME OwnInv, NEW c \in Core, NEW n \in Name, RegisterStream(c, n)
  PROVE  OwnInv'
<1>1. PICK s : s = [NoStream EXCEPT !.name = n]
  OBVIOUS
<1>2. s \in Stream /\ s.node = 0 /\ s.str = 0
  BY <1>1, NoStreamIs
<1>3. UNCHANGED <<live, streamList>> /\ SetJob(c, "node", s) /\ At(c, "none")
  BY <1>1 DEF RegisterStream, Malloc
<1>4. /\ job' \in [Core -> [step : Steps, stream : Stream]]
      /\ job'[c] = [step |-> "node", stream |-> s]
      /\ \A d \in Core \ {c} : job'[d] = job[d]
  BY <1>2, <1>3, SetJobIs DEF OwnInv, Steps
<1>5. Shape(job'[c])
  BY <1>2, <1>4 DEF Shape
<1>6. Held(c)' = {}
  BY <1>4, <1>5, HeldIs, HeldByIs
<1>7. LivePtrs' = LivePtrs
  BY <1>3 DEF LivePtrs
<1>. QED
  BY <1>3, <1>4, <1>5, <1>6, <1>7, OwnShrinks

LEMMA NoMemoryOwn ==
  ASSUME OwnInv, NEW c \in Core, NoMemory(c)
  PROVE  OwnInv'
<1>1. UNCHANGED <<live, streamList>> /\ SetJob(c, "none", NoStream)
  BY DEF NoMemory, Refuse
<1>2. /\ job' \in [Core -> [step : Steps, stream : Stream]]
      /\ job'[c] = [step |-> "none", stream |-> NoStream]
      /\ \A d \in Core \ {c} : job'[d] = job[d]
  BY <1>1, NoStreamIs, SetJobIs DEF OwnInv, Steps
<1>3. Shape(job'[c])
  BY <1>2, NoStreamIs DEF Shape
<1>4. Held(c)' = {}
  BY <1>2, <1>3, HeldIs, HeldByIs
<1>5. LivePtrs' = LivePtrs
  BY <1>1 DEF LivePtrs
<1>. QED
  BY <1>1, <1>2, <1>3, <1>4, <1>5, OwnShrinks

LEMMA AnnounceAddOwn ==
  ASSUME OwnInv, NEW c \in Core, AnnounceAdd(c)
  PROVE  OwnInv'
<1>1. UNCHANGED <<live, streamList>> /\ SetJob(c, "none", NoStream)
  BY DEF AnnounceAdd, vars
<1>2. /\ job' \in [Core -> [step : Steps, stream : Stream]]
      /\ job'[c] = [step |-> "none", stream |-> NoStream]
      /\ \A d \in Core \ {c} : job'[d] = job[d]
  BY <1>1, NoStreamIs, SetJobIs DEF OwnInv, Steps
<1>3. Shape(job'[c])
  BY <1>2, NoStreamIs DEF Shape
<1>4. Held(c)' = {}
  BY <1>2, <1>3, HeldIs, HeldByIs
<1>5. LivePtrs' = LivePtrs
  BY <1>1 DEF LivePtrs
<1>. QED
  BY <1>1, <1>2, <1>3, <1>4, <1>5, OwnShrinks

LEMMA AnnounceRemovalOwn ==
  ASSUME OwnInv, NEW c \in Core, AnnounceRemoval(c)
  PROVE  OwnInv'
<1>1. /\ UNCHANGED <<live, streamList>> /\ SetJob(c, "announced", job[c].stream)
      /\ job[c].step = "unlinked" /\ Shape(job[c])
  BY DEF AnnounceRemoval, vars, At, OwnInv
<1>2. Whole(job[c].stream) /\ job[c].stream \in Stream
  BY <1>1 DEF Shape, Whole
<1>3. /\ job' \in [Core -> [step : Steps, stream : Stream]]
      /\ job'[c] = [step |-> "announced", stream |-> job[c].stream]
      /\ \A d \in Core \ {c} : job'[d] = job[d]
  BY <1>1, <1>2, SetJobIs DEF OwnInv, Steps
<1>4. Shape(job'[c])
  BY <1>2, <1>3 DEF Shape
<1>5. Held(c)' = Held(c)
  BY <1>1, <1>3, <1>4, HeldIs, HeldByIs
<1>6. LivePtrs' = LivePtrs
  BY <1>1 DEF LivePtrs
<1>. QED
  BY <1>1, <1>3, <1>4, <1>5, <1>6, OwnShrinks

LEMMA FreeNameOwn ==
  ASSUME OwnInv, NEW c \in Core, FreeName(c)
  PROVE  OwnInv'
<1>1. PICK s : s = job[c].stream
  OBVIOUS
<1>2. /\ job[c].step = "announced" /\ Shape(job[c]) /\ UNCHANGED streamList
      /\ SetJob(c, "freed", s) /\ \E b \in live : b.ptr = s.str /\ FreeMark(c, b)
  BY <1>1 DEF FreeName, At, OwnInv
<1>3. Whole(s) /\ s \in Stream
  BY <1>1, <1>2 DEF Shape, Whole
<1>4. Held(c) = {s.node, s.str}
  BY <1>1, <1>2, HeldIs, HeldByIs
<1>5. PICK b \in live : b.ptr = s.str /\ live' = live \ {b}
  BY <1>2 DEF FreeMark
<1>6. /\ job' \in [Core -> [step : Steps, stream : Stream]]
      /\ job'[c] = [step |-> "freed", stream |-> s]
      /\ \A d \in Core \ {c} : job'[d] = job[d]
  BY <1>2, <1>3, SetJobIs DEF OwnInv, Steps
<1>7. Shape(job'[c])
  BY <1>3, <1>6 DEF Shape, Whole
<1>8. Held(c)' = {s.node}
  BY <1>6, <1>7, HeldIs, HeldByIs
<1>9. \A p \in LivePtrs : p \in LivePtrs' \/ p = s.str
  BY <1>5 DEF LivePtrs
<1>10. s.str # s.node
  BY <1>3 DEF Whole
<1>. QED
  BY <1>2, <1>4, <1>6, <1>7, <1>8, <1>9, <1>10, OwnShrinks

LEMMA FreeNodeOwn ==
  ASSUME OwnInv, NEW c \in Core, FreeNode(c)
  PROVE  OwnInv'
<1>1. PICK s : s = job[c].stream
  OBVIOUS
<1>2. /\ job[c].step = "freed" /\ Shape(job[c]) /\ UNCHANGED streamList
      /\ SetJob(c, "none", NoStream) /\ \E b \in live : b.ptr = s.node /\ FreeMark(c, b)
  BY <1>1 DEF FreeNode, At, OwnInv
<1>3. Held(c) = {s.node}
  BY <1>1, <1>2, HeldIs, HeldByIs
<1>4. PICK b \in live : b.ptr = s.node /\ live' = live \ {b}
  BY <1>2 DEF FreeMark
<1>5. /\ job' \in [Core -> [step : Steps, stream : Stream]]
      /\ job'[c] = [step |-> "none", stream |-> NoStream]
      /\ \A d \in Core \ {c} : job'[d] = job[d]
  BY <1>2, NoStreamIs, SetJobIs DEF OwnInv, Steps
<1>6. Shape(job'[c])
  BY <1>5, NoStreamIs DEF Shape
<1>7. Held(c)' = {}
  BY <1>5, <1>6, HeldIs, HeldByIs
<1>8. \A p \in LivePtrs : p \in LivePtrs' \/ p = s.node
  BY <1>4 DEF LivePtrs
<1>. QED
  BY <1>2, <1>3, <1>5, <1>6, <1>7, <1>8, OwnShrinks

(* The stream's own block.                                                 *)
LEMMA NodeOwn ==
  ASSUME OwnInv, Types, NEW B, HeapInv(B), NEW c \in Core, NodeAllocated(c)
  PROVE  OwnInv'
<1>1. PICK x : x = cur[c]
  OBVIOUS
<1>2. PICK s : s = job[c].stream
  OBVIOUS
<1>3. PICK t : t = [s EXCEPT !.node = x]
  OBVIOUS
<1>4. /\ job[c].step = "node" /\ Shape(job[c]) /\ UNCHANGED streamList
      /\ Allocate(c) /\ SetJob(c, "name", t)
  BY <1>1, <1>2, <1>3 DEF NodeAllocated, At, OwnInv
<1>5. x \in Ptr /\ x \notin LivePtrs /\ LivePtrs' = LivePtrs \cup {x}
  BY <1>1, <1>4, NewPtr
<1>6. s \in Stream /\ s.node = 0 /\ s.str = 0
  BY <1>2, <1>4 DEF Shape
<1>7. t \in Stream /\ t.node = x /\ t.str = 0
  BY <1>3, <1>5, <1>6 DEF Stream
<1>8. /\ job' \in [Core -> [step : Steps, stream : Stream]]
      /\ job'[c] = [step |-> "name", stream |-> t]
      /\ \A d \in Core \ {c} : job'[d] = job[d]
  BY <1>4, <1>7, SetJobIs DEF OwnInv, Steps
<1>9. Shape(job'[c])
  BY <1>5, <1>7, <1>8 DEF Shape
<1>10. Held(c)' = {x}
  BY <1>7, <1>8, <1>9, HeldIs, HeldByIs
<1>11. \A d \in Core \ {c} : Held(d)' = Held(d)
  BY <1>8, HeldIs
<1>12. Entries' = Entries
  BY <1>4 DEF Entries
<1>13. \A e \in Entries : x \notin Pointers(e) /\ Pointers(e) \subseteq LivePtrs'
  BY <1>5 DEF OwnInv
<1>14. \A d \in Core \ {c} : x \notin Held(d) /\ Held(d) \subseteq LivePtrs'
  BY <1>5 DEF OwnInv
<1>15. \A d, e \in Core : d # e => Held(d)' \cap Held(e)' = {}
  BY <1>10, <1>11, <1>14 DEF OwnInv
<1>16. \A d \in Core : \A e \in Entries : Held(d)' \cap Pointers(e) = {}
  BY <1>10, <1>11, <1>13 DEF OwnInv
<1>17. \A d \in Core : Held(d)' \subseteq LivePtrs' /\ Shape(job'[d])
  BY <1>5, <1>8, <1>9, <1>10, <1>11, <1>14 DEF OwnInv
<1>18. /\ \A e \in Entries : Whole(e)
       /\ \A e, f \in Entries : e # f => Pointers(e) \cap Pointers(f) = {}
  BY DEF OwnInv
<1>. QED
  BY <1>8, <1>12, <1>13, <1>15, <1>16, <1>17, <1>18 DEF OwnInv

(* The block of its name; the list has the stream now.                     *)
LEMMA AddOwn ==
  ASSUME ListInv, OwnInv, Types, NEW B, HeapInv(B), NEW c \in Core, AddStream(c)
  PROVE  OwnInv'
<1>1. PICK x : x = cur[c]
  OBVIOUS
<1>2. PICK s : s = job[c].stream
  OBVIOUS
<1>3. PICK t : t = [s EXCEPT !.str = x]
  OBVIOUS
<1>4. /\ job[c].step = "name" /\ Shape(job[c])
      /\ Allocate(c) /\ SetJob(c, "added", t) /\ streamList' = Append(streamList, t)
  BY <1>1, <1>2, <1>3 DEF AddStream, Take, At, OwnInv
<1>5. x \in Ptr /\ x \notin LivePtrs /\ LivePtrs' = LivePtrs \cup {x}
  BY <1>1, <1>4, NewPtr
<1>6. s \in Stream /\ s.node \in Ptr /\ Held(c) = {s.node}
  BY <1>2, <1>4, HeldIs, HeldByIs DEF Shape
<1>7. t \in Stream /\ t.node = s.node /\ t.str = x
  BY <1>3, <1>5, <1>6 DEF Stream
<1>8. s.node \in LivePtrs
  BY <1>6 DEF OwnInv
<1>9. Whole(t)
  BY <1>5, <1>6, <1>7, <1>8 DEF Whole
<1>10. Pointers(t) = {s.node, x}
  BY <1>7, <1>9, WholePointers
<1>11. /\ job' \in [Core -> [step : Steps, stream : Stream]]
       /\ job'[c] = [step |-> "added", stream |-> t]
       /\ \A d \in Core \ {c} : job'[d] = job[d]
  BY <1>4, <1>7, SetJobIs DEF OwnInv, Steps
<1>12. Shape(job'[c])
  BY <1>7, <1>11 DEF Shape
<1>13. Held(c)' = {} /\ \A d \in Core \ {c} : Held(d)' = Held(d)
  BY <1>11, <1>12, HeldIs, HeldByIs
<1>14. Entries' = Entries \cup {t}
  <2>1. PICK S : streamList \in Seq(S)
    BY DEF ListInv, ListShape
  <2>2. /\ DOMAIN streamList' = 1 .. Len(streamList) + 1 /\ DOMAIN streamList = 1 .. Len(streamList)
        /\ \A i \in 1 .. Len(streamList) : streamList'[i] = streamList[i]
        /\ streamList'[Len(streamList) + 1] = t
    BY <1>4, <2>1, AppendFact
  <2>3. Len(streamList) \in Nat
    BY <2>1
  <2>. QED
    BY <2>2, <2>3 DEF Entries
<1>15. \A e \in Entries : x \notin Pointers(e) /\ s.node \notin Pointers(e)
                          /\ Pointers(e) \subseteq LivePtrs'
  BY <1>5, <1>6 DEF OwnInv
<1>16. \A d \in Core \ {c} : x \notin Held(d) /\ s.node \notin Held(d) /\ Held(d) \subseteq LivePtrs'
  BY <1>5, <1>6 DEF OwnInv
<1>17. \A d, e \in Core : d # e => Held(d)' \cap Held(e)' = {}
  BY <1>13 DEF OwnInv
<1>18. \A d \in Core : \A e \in Entries \cup {t} : Held(d)' \cap Pointers(e) = {}
  BY <1>10, <1>13, <1>16 DEF OwnInv
<1>19. \A d \in Core : Held(d)' \subseteq LivePtrs' /\ Shape(job'[d])
  BY <1>11, <1>12, <1>13, <1>16 DEF OwnInv
<1>20. \A e \in Entries \cup {t} : Whole(e) /\ Pointers(e) \subseteq LivePtrs'
  BY <1>5, <1>8, <1>9, <1>10, <1>15 DEF OwnInv
<1>21. \A e, f \in Entries \cup {t} : e # f => Pointers(e) \cap Pointers(f) = {}
  BY <1>10, <1>15 DEF OwnInv
<1>. QED
  BY <1>11, <1>14, <1>17, <1>18, <1>19, <1>20, <1>21 DEF OwnInv

(* A stream leaves the list, and its blocks are the core's.                *)
LEMMA UnlinkOwn ==
  ASSUME ListInv, OwnInv, NEW c \in Core, NEW i \in DOMAIN streamList, Unlink(c, i)
  PROVE  OwnInv'
<1>1. PICK s : s = streamList[i]
  OBVIOUS
<1>2. s \in Entries /\ Whole(s) /\ s \in Stream
  BY <1>1 DEF Entries, OwnInv, Whole
<1>3. SetJob(c, "unlinked", s) /\ UNCHANGED live /\ job[c].step = "none" /\ Shape(job[c])
  BY <1>1 DEF Unlink, vars, At, OwnInv
<1>4. /\ job' \in [Core -> [step : Steps, stream : Stream]]
      /\ job'[c] = [step |-> "unlinked", stream |-> s]
      /\ \A d \in Core \ {c} : job'[d] = job[d]
  BY <1>2, <1>3, SetJobIs DEF OwnInv, Steps
<1>5. Shape(job'[c])
  BY <1>2, <1>4 DEF Shape
<1>6. Held(c)' = Pointers(s) /\ \A d \in Core \ {c} : Held(d)' = Held(d)
  <2>1. HeldBy(job'[c]) = {s.node, s.str}
    BY <1>4, <1>5, HeldByIs
  <2>2. Pointers(s) = {s.node, s.str}
    BY <1>2, WholePointers
  <2>. QED
    BY <1>4, <2>1, <2>2, HeldIs
<1>7. Entries' \subseteq Entries \ {s}
  <2>1. \A k \in DOMAIN streamList \ {i} : streamList[k] # s
    BY <1>1 DEF ListInv, NamesApart
  <2>2. PICK S : streamList \in Seq(S)
    BY DEF ListInv, ListShape
  <2>3. /\ DOMAIN streamList' = 1 .. Len(streamList) - 1 /\ DOMAIN streamList = 1 .. Len(streamList)
        /\ \A j \in 1 .. Len(streamList) - 1 :
              streamList'[j] = IF j < i THEN streamList[j] ELSE streamList[j + 1]
    BY <2>2, RemoveFact DEF Unlink
  <2>4. Len(streamList) \in Nat
    BY <2>2
  <2>5. ASSUME NEW j \in DOMAIN streamList'
        PROVE  streamList'[j] \in Entries \ {s}
    <3>1. CASE j < i
      BY <2>1, <2>3, <2>4, <3>1 DEF Entries
    <3>2. CASE ~(j < i)
      BY <2>1, <2>3, <2>4, <3>2 DEF Entries
    <3>. QED
      BY <3>1, <3>2
  <2>. QED
    BY <2>5 DEF Entries
<1>8. LivePtrs' = LivePtrs
  BY <1>3 DEF LivePtrs
<1>9. \A d, e \in Core : d # e => Held(d)' \cap Held(e)' = {}
  BY <1>2, <1>6 DEF OwnInv
<1>10. \A d \in Core : \A e \in Entries' : Held(d)' \cap Pointers(e) = {}
  BY <1>2, <1>6, <1>7 DEF OwnInv
<1>11. \A d \in Core : Held(d)' \subseteq LivePtrs' /\ Shape(job'[d])
  BY <1>2, <1>4, <1>5, <1>6, <1>8 DEF OwnInv
<1>12. /\ \A e \in Entries' : Whole(e) /\ Pointers(e) \subseteq LivePtrs'
       /\ \A e, f \in Entries' : e # f => Pointers(e) \cap Pointers(f) = {}
  BY <1>7, <1>8 DEF OwnInv
<1>. QED
  BY <1>4, <1>9, <1>10, <1>11, <1>12 DEF OwnInv

(* Messages are not streams.                                               *)
LEMMA MessagesOwn ==
  ASSUME OwnInv, Types, NEW B, HeapInv(B), NEW c \in Core, Messages(c)
  PROVE  OwnInv'
<1>1. UNCHANGED <<streamList, job>>
  BY DEF Messages, streamVars
<1>2. SUFFICES \A p \in StreamPtrs : p \in LivePtrs => p \in LivePtrs'
  BY <1>1, OwnKept
<1>3. CASE Take(c)
  BY <1>3, NewPtr DEF Take
<1>4. CASE \E b \in live : b.ptr \notin StreamPtrs /\ FreeLocked(c, b)
  BY <1>4 DEF FreeLocked, LivePtrs
<1>5. CASE \/ \E n \in Requests : Malloc(c, n)
           \/ Refuse(c) \/ WalkOn(c) \/ FreeLook(c) \/ FreeMerge(c)
  BY <1>5 DEF Malloc, Refuse, WalkOn, FreeLook, FreeMerge, LivePtrs
<1>. QED
  BY <1>3, <1>4, <1>5 DEF Messages

-----------------------------------------------------------------------------
(* The heap under the streams: a registration begins as an allocation, and *)
(* goes from its first to its second block without giving up the lock; a   *)
(* removal frees blocks that are in use.                                   *)

StreamStep(c) ==
  \/ Messages(c)
  \/ \E n \in Name : RegisterStream(c, n)
  \/ NoMemory(c) \/ NodeAllocated(c) \/ AddStream(c) \/ AddNameless(c)
  \/ AnnounceAdd(c)
  \/ \E i \in DOMAIN streamList : Unlink(c, i)
  \/ AnnounceRemoval(c) \/ FreeName(c) \/ FreeNode(c)

LEMMA StreamStepIs ==
  ASSUME NEW c \in Core, StreamStep(c)
  PROVE  \/ HeapStep(c) \/ NodeAllocated(c) \/ AddNameless(c) \/ UNCHANGED vars
<1>1. CASE Messages(c)
  BY <1>1 DEF Messages, HeapStep
<1>2. CASE \E n \in Name : RegisterStream(c, n)
  BY <1>2, StreamAssumption DEF RegisterStream, HeapStep
<1>3. CASE NoMemory(c) \/ AddStream(c)
  BY <1>3 DEF NoMemory, AddStream, HeapStep
<1>4. CASE FreeName(c) \/ FreeNode(c)
  BY <1>4 DEF FreeName, FreeNode, HeapStep
<1>5. CASE AnnounceAdd(c) \/ AnnounceRemoval(c) \/ \E i \in DOMAIN streamList : Unlink(c, i)
  BY <1>5 DEF AnnounceAdd, AnnounceRemoval, Unlink
<1>. QED
  BY <1>1, <1>2, <1>3, <1>4, <1>5 DEF StreamStep

LEMMA StreamPlaces ==
  ASSUME Places, NEW c \in Core, StreamStep(c)
  PROVE  Places' /\ (spoiled => spoiled')
<1>1. CASE HeapStep(c)
  BY <1>1, StepPlaces
<1>2. CASE NodeAllocated(c) \/ AddNameless(c)
  <2>1. owner' \in Core \cup {None} /\ spoiled' \in BOOLEAN /\ (spoiled => spoiled')
    BY <1>2 DEF NodeAllocated, AddNameless, Places
  <2>2. \E x \in {"idle", "walk"} : pc' = [pc EXCEPT ![c] = x]
    BY <1>2 DEF NodeAllocated, AddNameless, StartWalk, Finish
  <2>. QED
    BY <2>1, <2>2 DEF Places
<1>3. CASE UNCHANGED vars
  BY <1>3 DEF vars, Places
<1>. QED
  BY <1>1, <1>2, <1>3, StreamStepIs

LEMMA StreamFine ==
  ASSUME Places, Fine, ~spoiled', NEW c \in Core, StreamStep(c)
  PROVE  Fine'
<1>1. CASE HeapStep(c)
  BY <1>1, StepFine
<1>2. CASE NodeAllocated(c)
  <2>1. PICK B \in SUBSET Ptr : Types /\ HeapInv(B)
    BY DEF Fine
  <2>2. /\ Allocate(c) /\ owner' = owner /\ pc' = [pc EXCEPT ![c] = "walk"]
        /\ cur' = [cur EXCEPT ![c] = Start]
        /\ want' = [want EXCEPT ![c] = AlignUp(NameWords + BookKeeping)]
        /\ asked' = [asked EXCEPT ![c] = NameWords]
        /\ NameWords \in Requests
    BY <1>2, StreamAssumption DEF NodeAllocated, StartWalk
  <2>3. Types' /\ \E C \in SUBSET Ptr : HeapInv(C)'
    BY <2>1, <2>2, TakeAgainStep
  <2>. QED
    BY <2>3 DEF Fine, Ptr, Start, End
<1>3. CASE AddNameless(c)
  BY <1>3 DEF AddNameless
<1>4. CASE UNCHANGED vars
  <2>1. HeapState /\ ~spoiled
    BY <1>4 DEF vars, HeapState
  <2>. QED
    BY <1>4, <2>1, HeapStutters DEF HeapState
<1>. QED
  BY <1>1, <1>2, <1>3, <1>4, StreamStepIs

LEMMA StreamOwn ==
  ASSUME ListInv, OwnInv, Fine, ~spoiled', NEW c \in Core, StreamStep(c)
  PROVE  OwnInv'
<1>1. PICK B \in SUBSET Ptr : Types /\ HeapInv(B)
  BY DEF Fine
<1>2. ~AddNameless(c)
  BY DEF AddNameless
<1>. QED
  BY <1>1, <1>2, MessagesOwn, RegisterOwn, NoMemoryOwn, NodeOwn, AddOwn, AnnounceAddOwn,
     UnlinkOwn, AnnounceRemovalOwn, FreeNameOwn, FreeNodeOwn DEF StreamStep

JointInv == Places /\ (spoiled \/ (Fine /\ OwnInv))

(* Whatever streams the cores register and unregister and whatever else    *)
(* they allocate and free, even while a stream's blocks are freed: until   *)
(* the heap is spoiled it is sound, and each stream's blocks are its own   *)
(* (sae_alloc.c under sae_stream.c).                                       *)
THEOREM JointInvariance == StreamSpec => []JointInv
<1>1. StreamInit => JointInv
  <2>. SUFFICES ASSUME StreamInit PROVE JointInv
    OBVIOUS
  <2>1. Places
    BY DEF StreamInit, Init, Places
  <2>2. Fine
    BY InitHeap, Bounds DEF StreamInit, Fine
  <2>. QED
    BY <2>1, <2>2, InitOwn DEF JointInv
<1>2. ListInv /\ JointInv /\ [StreamNext]_<<vars, streamVars>> => JointInv'
  <2>. SUFFICES ASSUME ListInv, JointInv, [StreamNext]_<<vars, streamVars>> PROVE JointInv'
    OBVIOUS
  <2>1. CASE UNCHANGED <<vars, streamVars>>
    <3>1. HeapState
      BY DEF JointInv, HeapState
    <3>2. HeapState'
      BY <2>1, <3>1, HeapStutters
    <3>3. UNCHANGED <<streamList, job>> /\ LivePtrs' = LivePtrs /\ spoiled' = spoiled
      BY <2>1 DEF vars, streamVars, LivePtrs
    <3>. QED
      BY <3>2, <3>3, OwnKept DEF JointInv, HeapState
  <2>2. CASE StreamNext
    <3>1. PICK c \in Core : StreamStep(c)
      BY <2>2 DEF StreamNext, StreamStep
    <3>2. Places' /\ (spoiled => spoiled')
      BY <3>1, StreamPlaces DEF JointInv
    <3>3. CASE spoiled'
      BY <3>2, <3>3 DEF JointInv
    <3>4. CASE ~spoiled'
      BY <3>1, <3>2, <3>4, StreamFine, StreamOwn DEF JointInv
    <3>. QED
      BY <3>3, <3>4
  <2>. QED
    BY <2>1, <2>2
<1>. QED
  BY <1>1, <1>2, ListInvariance, PTL DEF StreamSpec

(* Every stream in the list, and every one that a core is adding or taking *)
(* away, has two blocks that are in use and no other stream's: the frees   *)
(* of sae_unRegisterStream hit nothing else, and no message's.             *)
THEOREM StreamsKeepBlocks == StreamSpec => []StreamsOwnBlocks
<1>1. ListInv /\ JointInv => StreamsOwnBlocks
  <2>. SUFFICES ASSUME ListInv, OwnInv PROVE StreamsOwnBlocks
    BY DEF JointInv, StreamsOwnBlocks
  <2>1. \A p \in StreamPtrs : \E b \in live : b.ptr = p
    BY StreamPtrsAre DEF OwnInv, LivePtrs
  <2>2. ASSUME NEW i \in DOMAIN streamList
        PROVE  /\ Cardinality(Listed(i)) = 2
               /\ \A j \in DOMAIN streamList \ {i} : Listed(i) \cap Listed(j) = {}
               /\ \A c \in Core : Listed(i) \cap Held(c) = {}
    <3>1. streamList[i] \in Entries /\ Listed(i) = Pointers(streamList[i])
      BY DEF Entries, Listed
    <3>2. PICK a, b : Listed(i) = {a, b} /\ a # b
      <4>1. Whole(streamList[i])
        BY <3>1 DEF OwnInv
      <4>2. Listed(i) = {streamList[i].node, streamList[i].str}
        BY <3>1, <4>1, WholePointers
      <4>. QED
        BY <4>1, <4>2 DEF Whole
    <3>3. Cardinality(Listed(i)) = 2
      <4>1. IsFiniteSet({a}) /\ Cardinality({a}) = 1
        BY FS_Singleton
      <4>2. Cardinality({a} \cup {b}) = 2
        BY <3>2, <4>1, FS_AddElement
      <4>3. {a} \cup {b} = {a, b}
        OBVIOUS
      <4>. QED
        BY <3>2, <4>2, <4>3
    <3>4. ASSUME NEW j \in DOMAIN streamList \ {i} PROVE Listed(i) \cap Listed(j) = {}
      <4>1. streamList[j] \in Entries /\ streamList[j] # streamList[i]
            /\ Listed(j) = Pointers(streamList[j])
        BY DEF Entries, ListInv, NamesApart, Listed
      <4>. QED
        BY <3>1, <4>1 DEF OwnInv
    <3>5. \A c \in Core : Listed(i) \cap Held(c) = {}
      BY <3>1 DEF OwnInv
    <3>. QED
      BY <3>3, <3>4, <3>5
  <2>3. \A c, d \in Core : c # d => Held(c) \cap Held(d) = {}
    BY DEF OwnInv
  <2>. QED
    BY <2>1, <2>2, <2>3 DEF StreamsOwnBlocks
<1>. QED
  BY <1>1, ListInvariance, JointInvariance, PTL

(* The promises of the heap, kept under the streams.                       *)
THEOREM HeapUnderStreams ==
  StreamSpec => [](/\ TypeOK /\ HeapConsistent /\ LiveBlocksIntact
                   /\ Coalesced /\ RefusedOnlyWhenFull)
<1>1. JointInv => /\ TypeOK /\ HeapConsistent /\ LiveBlocksIntact
                  /\ Coalesced /\ RefusedOnlyWhenFull
  BY HeapPromises DEF JointInv, HeapState
<1>. QED
  BY <1>1, JointInvariance, PTL

(* And its abstract promise: streams get and give back regions of the      *)
(* arena like everybody else.                                              *)
THEOREM StreamsUseArena == StreamSpec => ImplementsArena
<1>1. StreamInit => Arena!Init
  BY DEF StreamInit, Init, Arena!Init, Regions
<1>2. JointInv /\ [StreamNext]_<<vars, streamVars>> => [spoiled' \/ Arena!Next]_Arena!vars
  <2>. SUFFICES ASSUME JointInv, [StreamNext]_<<vars, streamVars>>, ~spoiled'
                PROVE  [Arena!Next]_Arena!vars
    OBVIOUS
  <2>1. CASE UNCHANGED vars
    BY <2>1 DEF vars, Arena!vars, Regions, Payload
  <2>2. CASE StreamNext
    <3>1. PICK c \in Core : StreamStep(c)
      BY <2>2 DEF StreamNext, StreamStep
    <3>2. Fine
      BY <3>1, StreamPlaces DEF JointInv
    <3>3. CASE HeapStep(c)
      BY <3>2, <3>3, StepKeepsPromise
    <3>4. CASE NodeAllocated(c)
      <4>1. PICK B \in SUBSET Ptr : Types /\ HeapInv(B)
        BY <3>2 DEF Fine
      <4>2. Allocate(c) /\ asked' = [asked EXCEPT ![c] = NameWords]
        BY <3>4 DEF NodeAllocated, StartWalk
      <4>3. NameWords \in Requests \cup {0}
        BY StreamAssumption
      <4>4. Arena!Grab(c)
        BY <4>1, <4>2, <4>3, AllocateGrabs
      <4>. QED
        BY <4>4 DEF Arena!Next
    <3>5. CASE AddNameless(c)
      BY <3>5 DEF AddNameless
    <3>. QED
      BY <2>1, <3>1, <3>3, <3>4, <3>5, StreamStepIs
  <2>3. UNCHANGED <<vars, streamVars>> => UNCHANGED vars
    OBVIOUS
  <2>. QED
    BY <2>1, <2>2, <2>3
<1>. QED
  BY <1>1, <1>2, JointInvariance, PTL DEF StreamSpec, ImplementsArena

=============================================================================
