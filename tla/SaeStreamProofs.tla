--------------------------- MODULE SaeStreamProofs ----------------------------
(***************************************************************************)
(* Proofs about SaeStream, for any number of cores and names and any heap: *)
(* what the lock does for the list of streams.                             *)
(***************************************************************************)
EXTENDS SaeStream, TLAPS

NamesListed == {streamList[i].name : i \in DOMAIN streamList}

(* A core that is registering a stream holds the lock, and still will when *)
(* the stream gets into the list: nobody changes the list meanwhile.       *)
Adding(c) == At(c, "node") \/ At(c, "name")

LockHeld == \A c \in Core : /\ pc[c] = "walk" => owner = c
                            /\ Adding(c) => pc[c] = "walk"

(* So the name it has looked for is not in the list.                       *)
NameFresh == \A c \in Core : Adding(c) => job[c].stream.name \notin NamesListed

NamesApart == \A i, j \in DOMAIN streamList :
                streamList[i].name = streamList[j].name => i = j

ListShape == /\ \E S : streamList \in Seq(S)
             /\ pc \in [Core -> {"idle", "walk", "look", "merge"}]
             /\ DOMAIN job = Core
             /\ \A c \in Core : Adding(c) => "name" \in DOMAIN job[c].stream

ListInv == ListShape /\ LockHeld /\ NameFresh /\ NamesApart

-----------------------------------------------------------------------------
LEMMA AppendFact ==
  ASSUME NEW S, NEW s \in Seq(S), NEW e
  PROVE  /\ Append(s, e) \in Seq(S \cup {e})
         /\ DOMAIN Append(s, e) = 1 .. Len(s) + 1 /\ DOMAIN s = 1 .. Len(s)
         /\ \A i \in 1 .. Len(s) : Append(s, e)[i] = s[i]
         /\ Append(s, e)[Len(s) + 1] = e
<1>1. s \in Seq(S \cup {e})
  OBVIOUS
<1>. QED
  BY <1>1

LEMMA ConcatFact ==
  ASSUME NEW S, NEW u \in Seq(S), NEW v \in Seq(S)
  PROVE  /\ u \o v \in Seq(S) /\ Len(u \o v) = Len(u) + Len(v)
         /\ DOMAIN (u \o v) = 1 .. Len(u) + Len(v)
         /\ \A j \in 1 .. Len(u) : (u \o v)[j] = u[j]
         /\ \A j \in Len(u) + 1 .. Len(u) + Len(v) : (u \o v)[j] = v[j - Len(u)]
OBVIOUS

LEMMA RemoveFact ==
  ASSUME NEW S, NEW s \in Seq(S), NEW i \in DOMAIN s
  PROVE  /\ RemoveAt(s, i) \in Seq(S)
         /\ DOMAIN RemoveAt(s, i) = 1 .. Len(s) - 1 /\ DOMAIN s = 1 .. Len(s)
         /\ \A j \in 1 .. Len(s) - 1 :
              RemoveAt(s, i)[j] = IF j < i THEN s[j] ELSE s[j + 1]
<1>1. Len(s) \in Nat /\ DOMAIN s = 1 .. Len(s) /\ i \in 1 .. Len(s)
  OBVIOUS
<1>2. /\ SubSeq(s, 1, i - 1) \in Seq(S) /\ Len(SubSeq(s, 1, i - 1)) = i - 1
      /\ \A j \in 1 .. i - 1 : SubSeq(s, 1, i - 1)[j] = s[j]
  BY <1>1
<1>3. /\ SubSeq(s, i + 1, Len(s)) \in Seq(S) /\ Len(SubSeq(s, i + 1, Len(s))) = Len(s) - i
      /\ \A j \in 1 .. Len(s) - i : SubSeq(s, i + 1, Len(s))[j] = s[i + j]
  BY <1>1
<1>. DEFINE u == SubSeq(s, 1, i - 1)
            v == SubSeq(s, i + 1, Len(s))
<1>4. /\ RemoveAt(s, i) = u \o v
      /\ RemoveAt(s, i) \in Seq(S) /\ DOMAIN RemoveAt(s, i) = 1 .. Len(s) - 1
      /\ \A j \in 1 .. i - 1 : RemoveAt(s, i)[j] = u[j]
      /\ \A j \in i .. Len(s) - 1 : RemoveAt(s, i)[j] = v[j - (i - 1)]
  <2>1. RemoveAt(s, i) = u \o v
    BY DEF RemoveAt
  <2>. HIDE DEF u, v
  <2>2. u \in Seq(S) /\ v \in Seq(S) /\ Len(u) = i - 1 /\ Len(v) = Len(s) - i
    BY <1>2, <1>3 DEF u, v
  <2>3. Len(u) + Len(v) = Len(s) - 1 /\ Len(u) + 1 = i
    BY <1>1, <2>2
  <2>4. /\ u \o v \in Seq(S) /\ DOMAIN (u \o v) = 1 .. Len(u) + Len(v)
        /\ \A j \in 1 .. Len(u) : (u \o v)[j] = u[j]
        /\ \A j \in Len(u) + 1 .. Len(u) + Len(v) : (u \o v)[j] = v[j - Len(u)]
    BY <2>2, ConcatFact
  <2>5. DOMAIN (u \o v) = 1 .. Len(s) - 1
    BY <2>3, <2>4
  <2>6. \A j \in i .. Len(s) - 1 : (u \o v)[j] = v[j - (i - 1)]
    BY <2>2, <2>3, <2>4
  <2>. QED
    BY <2>1, <2>2, <2>4, <2>5, <2>6
<1>5. ASSUME NEW j \in 1 .. Len(s) - 1
      PROVE  RemoveAt(s, i)[j] = IF j < i THEN s[j] ELSE s[j + 1]
  <2>1. CASE j < i
    BY <1>1, <1>2, <1>4, <2>1
  <2>2. CASE ~(j < i)
    <3>1. j \in i .. Len(s) - 1 /\ j - (i - 1) \in 1 .. Len(s) - i /\ i + (j - (i - 1)) = j + 1
      BY <1>1, <2>2
    <3>2. RemoveAt(s, i)[j] = SubSeq(s, i + 1, Len(s))[j - (i - 1)]
      BY <1>4, <3>1
    <3>. QED
      BY <1>3, <2>2, <3>1, <3>2
  <2>. QED
    BY <2>1, <2>2
<1>. QED
  BY <1>1, <1>4, <1>5

-----------------------------------------------------------------------------
LEMMA InitListInv == StreamInit => ListInv
<1>. SUFFICES ASSUME StreamInit PROVE ListInv
  OBVIOUS
<1>1. streamList \in Seq({})
  BY DEF StreamInit
<1>2. \A c \in Core : pc[c] = "idle" /\ ~Adding(c)
  BY DEF StreamInit, Init, Adding, At
<1>3. pc \in [Core -> {"idle", "walk", "look", "merge"}] /\ DOMAIN job = Core
  BY DEF StreamInit, Init
<1>4. NamesApart
  BY <1>1 DEF NamesApart, StreamInit
<1>. QED
  BY <1>1, <1>2, <1>3, <1>4 DEF ListInv, ListShape, LockHeld, NameFresh

-----------------------------------------------------------------------------
(* What the heap calls of a core do to the lock, the list left alone.      *)
LEMMA MessagesListInv ==
  ASSUME ListInv, NEW c \in Core, Messages(c)
  PROVE  ListInv'
<1>. USE CoreAssumption
<1>1. UNCHANGED <<streamList, job>> /\ NamesListed' = NamesListed
      /\ \A d \in Core : Adding(d)' <=> Adding(d)
  BY DEF Messages, streamVars, NamesListed, Adding, At
<1>2. NameFresh' /\ NamesApart'
  BY <1>1 DEF ListInv, NameFresh, NamesApart
<1>3. ListShape' /\ LockHeld'
  <2>1. SUFFICES pc' \in [Core -> {"idle", "walk", "look", "merge"}] /\ LockHeld'
    BY <1>1 DEF ListInv, ListShape
  <2>2. CASE job[c].step \in {"none", "added", "unlinked"} /\ \E n \in Requests : Malloc(c, n)
    BY <1>1, <2>2 DEF Malloc, StartWalk, ListInv, ListShape, LockHeld
  <2>3. CASE job[c].step \in {"none", "added", "unlinked"} /\ (Take(c) \/ Refuse(c))
    BY <1>1, <2>3 DEF Take, Allocate, Refuse, Finish, ListInv, ListShape, LockHeld, Adding, At
  <2>4. CASE \E b \in live : FreeLocked(c, b)
    BY <1>1, <2>4 DEF FreeLocked, ListInv, ListShape, LockHeld
  <2>5. CASE WalkOn(c)
    BY <1>1, <2>5 DEF WalkOn, ListInv, ListShape, LockHeld
  <2>6. CASE FreeLook(c) \/ FreeMerge(c)
    BY <1>1, <2>6 DEF FreeLook, FreeMerge, Finish, ListInv, ListShape, LockHeld
  <2>. QED
    BY <2>2, <2>3, <2>4, <2>5, <2>6 DEF Messages
<1>. QED
  BY <1>2, <1>3 DEF ListInv

(* The name is looked for, and the lock kept, in one step.                 *)
LEMMA RegisterListInv ==
  ASSUME ListInv, NEW c \in Core, NEW n \in Name, RegisterStream(c, n)
  PROVE  ListInv'
<1>. USE CoreAssumption
<1>1. owner = None /\ owner' = c /\ streamList' = streamList /\ NamesListed' = NamesListed
      /\ n \notin NamesListed
  BY DEF RegisterStream, Malloc, NamesListed
<1>2. pc' = [pc EXCEPT ![c] = "walk"]
      /\ job' = [job EXCEPT ![c] = [step |-> "node", stream |-> [NoStream EXCEPT !.name = n]]]
  BY DEF RegisterStream, Malloc, StartWalk, SetJob
<1>3. \A d \in Core : pc[d] # "walk" /\ ~Adding(d)
  BY <1>1 DEF ListInv, LockHeld
<1>4. [NoStream EXCEPT !.name = n].name = n /\ "name" \in DOMAIN [NoStream EXCEPT !.name = n]
  BY DEF NoStream
<1>5. \A d \in Core : d # c => job'[d] = job[d] /\ pc'[d] = pc[d] /\ ~Adding(d)'
  BY <1>2, <1>3 DEF ListInv, ListShape, Adding, At
<1>6. pc'[c] = "walk" /\ job'[c].stream.name = n /\ "name" \in DOMAIN job'[c].stream
  BY <1>2, <1>4 DEF ListInv, ListShape
<1>7. ListShape'
  BY <1>1, <1>2, <1>5, <1>6 DEF ListInv, ListShape
<1>8. LockHeld'
  BY <1>1, <1>3, <1>5, <1>6 DEF LockHeld
<1>9. NameFresh'
  BY <1>1, <1>5, <1>6 DEF NameFresh
<1>. QED
  BY <1>1, <1>7, <1>8, <1>9 DEF ListInv, NamesApart

LEMMA NodeListInv ==
  ASSUME ListInv, NEW c \in Core, NodeAllocated(c)
  PROVE  ListInv'
<1>1. pc[c] = "walk" /\ Adding(c) /\ UNCHANGED <<owner, streamList>> /\ NamesListed' = NamesListed
  BY DEF NodeAllocated, Allocate, Adding, NamesListed
<1>2. pc' = [pc EXCEPT ![c] = "walk"]
      /\ job' = [job EXCEPT ![c] = [step |-> "name", stream |-> [job[c].stream EXCEPT !.node = cur[c]]]]
  BY DEF NodeAllocated, StartWalk, SetJob
<1>3. job'[c].stream = [job[c].stream EXCEPT !.node = cur[c]]
  BY <1>2 DEF ListInv, ListShape
<1>4. job'[c].stream.name = job[c].stream.name /\ "name" \in DOMAIN job'[c].stream
  BY <1>1, <1>3 DEF ListInv, ListShape
<1>5. \A d \in Core : d # c => job'[d] = job[d] /\ pc'[d] = pc[d] /\ (Adding(d)' <=> Adding(d))
  BY <1>2 DEF ListInv, ListShape, Adding, At
<1>6. pc'[c] = "walk"
  BY <1>2 DEF ListInv, ListShape
<1>7. ListShape'
  BY <1>1, <1>2, <1>4, <1>5 DEF ListInv, ListShape
<1>8. LockHeld'
  BY <1>1, <1>5, <1>6 DEF ListInv, LockHeld
<1>9. NameFresh'
  BY <1>1, <1>4, <1>5 DEF ListInv, NameFresh
<1>. QED
  BY <1>1, <1>7, <1>8, <1>9 DEF ListInv, NamesApart

(* No memory: the lock is given up, and the name with it.                  *)
LEMMA NoMemoryListInv ==
  ASSUME ListInv, NEW c \in Core, NoMemory(c)
  PROVE  ListInv'
<1>1. /\ streamList' = streamList /\ NamesListed' = NamesListed
      /\ pc[c] = "walk" /\ owner' = None /\ pc' = [pc EXCEPT ![c] = "idle"]
      /\ job' = [job EXCEPT ![c] = [step |-> "none", stream |-> NoStream]]
  BY DEF NoMemory, Refuse, Finish, SetJob, NamesListed
<1>2. \A d \in Core \ {c} : job'[d] = job[d] /\ pc[d] # "walk"
  BY <1>1 DEF ListInv, ListShape, LockHeld
<1>3. \A d \in Core : ~Adding(d)' /\ pc'[d] # "walk"
  BY <1>1, <1>2 DEF ListInv, ListShape, LockHeld, Adding, At
<1>4. ListShape'
  BY <1>1, <1>3 DEF ListInv, ListShape
<1>. QED
  BY <1>1, <1>3, <1>4 DEF ListInv, LockHeld, NameFresh, NamesApart

(* The stream of c, with what it has got for its name.                     *)
Adds(c, e) == /\ At(c, "name") /\ pc[c] = "walk"
              /\ streamList' = Append(streamList, e) /\ SetJob(c, "added", e)
              /\ e.name = job[c].stream.name
              /\ owner' = None /\ pc' = [pc EXCEPT ![c] = "idle"]

LEMMA AddIs ==
  ASSUME ListInv, NEW c \in Core, AddStream(c) \/ AddNameless(c)
  PROVE  \E e : Adds(c, e)
<1>1. At(c, "name") /\ pc[c] = "walk" /\ owner' = None /\ pc' = [pc EXCEPT ![c] = "idle"]
  BY DEF AddStream, AddNameless, Take, Allocate, Finish
<1>2. Adding(c)
  BY <1>1 DEF Adding
<1>3. \E e \in {job[c].stream, [job[c].stream EXCEPT !.str = cur[c]]} :
         streamList' = Append(streamList, e) /\ SetJob(c, "added", e)
  BY DEF AddStream, AddNameless
<1>4. [job[c].stream EXCEPT !.str = cur[c]].name = job[c].stream.name
  BY <1>2 DEF ListInv, ListShape
<1>. QED
  BY <1>1, <1>3, <1>4 DEF Adds

(* The list afterwards.                                                    *)
LEMMA AddStreamFact ==
  ASSUME ListInv, NEW c \in Core, NEW e, Adds(c, e)
  PROVE  /\ \E S : streamList' \in Seq(S)
         /\ DOMAIN streamList = 1 .. Len(streamList) /\ Len(streamList) \in Nat
         /\ DOMAIN streamList' = 1 .. Len(streamList) + 1
         /\ \A i \in DOMAIN streamList : streamList'[i] = streamList[i]
         /\ streamList'[Len(streamList) + 1] = job'[c].stream
         /\ job'[c].step = "added" /\ job'[c].stream.name = job[c].stream.name
         /\ job[c].stream.name \notin NamesListed
         /\ NamesListed' = NamesListed \cup {job[c].stream.name}
         /\ \A d \in Core \ {c} : job'[d] = job[d] /\ ~Adding(d) /\ ~Adding(d)'
<1>1. PICK S : streamList \in Seq(S)
  BY DEF ListInv, ListShape
<1>2. streamList' = Append(streamList, e)
      /\ job' = [job EXCEPT ![c] = [step |-> "added", stream |-> e]]
      /\ pc[c] = "walk" /\ Adding(c)
  BY DEF Adds, SetJob, Adding
<1>3. e.name = job[c].stream.name
  BY DEF Adds
<1>4. job'[c] = [step |-> "added", stream |-> e] /\ \A d \in Core \ {c} : job'[d] = job[d]
  BY <1>2 DEF ListInv, ListShape
<1>5. /\ streamList' \in Seq(S \cup {e})
      /\ DOMAIN streamList' = 1 .. Len(streamList) + 1 /\ DOMAIN streamList = 1 .. Len(streamList)
      /\ \A i \in 1 .. Len(streamList) : streamList'[i] = streamList[i]
      /\ streamList'[Len(streamList) + 1] = e
  BY <1>1, <1>2, AppendFact
<1>6. Len(streamList) \in Nat
  BY <1>1
<1>7. NamesListed' = NamesListed \cup {e.name}
  BY <1>5, <1>6 DEF NamesListed
<1>8. \A d \in Core \ {c} : ~Adding(d)
  BY <1>2 DEF ListInv, LockHeld
<1>9. \A d \in Core \ {c} : ~Adding(d)'
  BY <1>4, <1>8 DEF Adding, At
<1>10. job[c].stream.name \notin NamesListed
  BY <1>2 DEF ListInv, NameFresh
<1>. QED
  BY <1>3, <1>4, <1>5, <1>6, <1>7, <1>8, <1>9, <1>10

LEMMA AddListInv ==
  ASSUME ListInv, NEW c \in Core, AddStream(c) \/ AddNameless(c)
  PROVE  ListInv'
<1>. PICK e : Adds(c, e)
  BY AddIs
<1>. USE AddStreamFact
<1>1. owner' = None /\ pc' = [pc EXCEPT ![c] = "idle"] /\ owner = c
  BY DEF Adds, ListInv, LockHeld
<1>2. \A d \in Core : ~Adding(d)'
  BY DEF Adding, At
<1>3. DOMAIN job' = Core
  BY DEF Adds, SetJob, ListInv, ListShape
<1>4. ListShape'
  BY <1>1, <1>2, <1>3 DEF ListInv, ListShape
<1>5. LockHeld'
  BY <1>1, <1>2 DEF ListInv, ListShape, LockHeld
<1>6. NameFresh'
  BY <1>2 DEF NameFresh
<1>7. \A i \in DOMAIN streamList : streamList'[i].name = streamList[i].name
                                 /\ streamList[i].name # job[c].stream.name
  BY DEF NamesListed
<1>8. NamesApart'
  BY <1>7 DEF ListInv, NamesApart
<1>. QED
  BY <1>4, <1>5, <1>6, <1>8 DEF ListInv

(* The list afterwards, when the core of c takes stream i out.             *)
LEMMA UnlinkFact ==
  ASSUME ListInv, NEW c \in Core, NEW i \in DOMAIN streamList, Unlink(c, i)
  PROVE  /\ \E S : streamList' \in Seq(S)
         /\ \A j \in DOMAIN streamList' : \E k \in DOMAIN streamList \ {i} : streamList'[j] = streamList[k]
         /\ \A k \in DOMAIN streamList \ {i} : \E j \in DOMAIN streamList' : streamList'[j] = streamList[k]
         /\ NamesApart'
         /\ NamesListed' = NamesListed \ {streamList[i].name}
         /\ job'[c] = [step |-> "unlinked", stream |-> streamList[i]]
         /\ \A d \in Core \ {c} : job'[d] = job[d]
         /\ \A d \in Core : ~Adding(d) /\ ~Adding(d)'
<1>1. PICK S : streamList \in Seq(S)
  BY DEF ListInv, ListShape
<1>2. streamList' = RemoveAt(streamList, i)
      /\ job' = [job EXCEPT ![c] = [step |-> "unlinked", stream |-> streamList[i]]] /\ owner = None
  BY DEF Unlink, SetJob
<1>3. job'[c] = [step |-> "unlinked", stream |-> streamList[i]]
      /\ \A d \in Core \ {c} : job'[d] = job[d]
  BY <1>2 DEF ListInv, ListShape
<1>4. \A d \in Core : ~Adding(d)
  BY <1>2, CoreAssumption DEF ListInv, LockHeld
<1>5. \A d \in Core : ~Adding(d)'
  BY <1>3, <1>4 DEF Adding, At
<1>6. /\ streamList' \in Seq(S) /\ Len(streamList) \in Nat
      /\ DOMAIN streamList' = 1 .. Len(streamList) - 1 /\ DOMAIN streamList = 1 .. Len(streamList)
      /\ \A j \in 1 .. Len(streamList) - 1 :
            streamList'[j] = IF j < i THEN streamList[j] ELSE streamList[j + 1]
  BY <1>1, <1>2, RemoveFact
<1>7. \A j \in DOMAIN streamList' : \E k \in DOMAIN streamList \ {i} : streamList'[j] = streamList[k]
  <2>. SUFFICES ASSUME NEW j \in DOMAIN streamList'
                PROVE  \E k \in DOMAIN streamList \ {i} : streamList'[j] = streamList[k]
    OBVIOUS
  <2>1. CASE j < i
    BY <1>6, <2>1
  <2>2. CASE ~(j < i)
    <3>1. j + 1 \in DOMAIN streamList \ {i} /\ streamList'[j] = streamList[j + 1]
      BY <1>6, <2>2
    <3>. QED
      BY <3>1
  <2>. QED
    BY <2>1, <2>2
<1>8. \A k \in DOMAIN streamList \ {i} : \E j \in DOMAIN streamList' : streamList'[j] = streamList[k]
  <2>. SUFFICES ASSUME NEW k \in DOMAIN streamList \ {i}
                PROVE  \E j \in DOMAIN streamList' : streamList'[j] = streamList[k]
    OBVIOUS
  <2>1. CASE k < i
    BY <1>6, <2>1
  <2>2. CASE ~(k < i)
    <3>1. k - 1 \in DOMAIN streamList' /\ ~(k - 1 < i) /\ (k - 1) + 1 = k
      BY <1>6, <2>2
    <3>2. streamList'[k - 1] = streamList[k]
      BY <1>6, <3>1
    <3>. QED
      BY <3>1, <3>2
  <2>. QED
    BY <2>1, <2>2
<1>9. NamesApart'
  <2>. SUFFICES ASSUME NEW j \in DOMAIN streamList', NEW k \in DOMAIN streamList',
                       streamList'[j].name = streamList'[k].name
                PROVE  j = k
    BY DEF NamesApart
  <2>. DEFINE at(x) == IF x < i THEN x ELSE x + 1
  <2>1. /\ at(j) \in DOMAIN streamList /\ at(k) \in DOMAIN streamList
        /\ streamList'[j] = streamList[at(j)] /\ streamList'[k] = streamList[at(k)]
    BY <1>6
  <2>2. at(j) = at(k)
    BY <2>1 DEF ListInv, NamesApart
  <2>. QED
    BY <1>6, <2>2
<1>10. NamesListed' = NamesListed \ {streamList[i].name}
  <2>1. \A k \in DOMAIN streamList : streamList[k].name = streamList[i].name => k = i
    BY DEF ListInv, NamesApart
  <2>. QED
    BY <1>7, <1>8, <2>1 DEF NamesListed
<1>. QED
  BY <1>3, <1>4, <1>5, <1>6, <1>7, <1>8, <1>9, <1>10

LEMMA UnlinkListInv ==
  ASSUME ListInv, NEW c \in Core, NEW i \in DOMAIN streamList, Unlink(c, i)
  PROVE  ListInv'
<1>. USE UnlinkFact
<1>1. UNCHANGED <<owner, pc>> /\ DOMAIN job' = Core
  BY DEF Unlink, vars, SetJob, ListInv, ListShape
<1>2. ListShape'
  BY <1>1 DEF ListInv, ListShape
<1>. QED
  BY <1>1, <1>2 DEF ListInv, LockHeld, NameFresh

(* The steps after: the list and the lock are left alone.                  *)
LEMMA AfterListInv ==
  ASSUME ListInv, NEW c \in Core,
         AnnounceAdd(c) \/ AnnounceRemoval(c) \/ FreeName(c) \/ FreeNode(c)
  PROVE  ListInv'
<1>1. UNCHANGED <<owner, streamList>> /\ NamesListed' = NamesListed
  <2>1. CASE AnnounceAdd(c) \/ AnnounceRemoval(c)
    BY <2>1 DEF AnnounceAdd, AnnounceRemoval, vars, NamesListed
  <2>2. CASE FreeName(c) \/ FreeNode(c)
    <3>1. streamList' = streamList /\ \E b \in live : FreeMark(c, b)
      BY <2>2 DEF FreeName, FreeNode
    <3>2. owner' = owner
      BY <3>1 DEF FreeMark
    <3>. QED
      BY <3>1, <3>2 DEF NamesListed
  <2>. QED
    BY <2>1, <2>2
<1>2. PICK step \in {"none", "announced", "freed"}, s \in {NoStream, job[c].stream} :
        job' = [job EXCEPT ![c] = [step |-> step, stream |-> s]]
  BY DEF AnnounceAdd, AnnounceRemoval, FreeName, FreeNode, SetJob
<1>3. ~Adding(c) /\ \A d \in Core : Adding(d)' <=> Adding(d)
  <2>1. ~Adding(c)
    BY DEF AnnounceAdd, AnnounceRemoval, FreeName, FreeNode, Adding, At
  <2>. QED
    BY <1>2, <2>1 DEF ListInv, ListShape, Adding, At
<1>4. DOMAIN job' = Core /\ \A d \in Core \ {c} : job'[d] = job[d]
  BY <1>2 DEF ListInv, ListShape
<1>5. /\ pc' \in [Core -> {"idle", "walk", "look", "merge"}]
      /\ \A d \in Core \ {c} : pc'[d] = pc[d]
      /\ pc'[c] # "walk"
  BY DEF AnnounceAdd, AnnounceRemoval, FreeName, FreeNode, FreeMark, vars, ListInv, ListShape
<1>6. ListShape'
  BY <1>1, <1>3, <1>4, <1>5 DEF ListInv, ListShape
<1>7. LockHeld'
  BY <1>1, <1>3, <1>5 DEF ListInv, LockHeld
<1>8. NameFresh'
  BY <1>1, <1>3, <1>4 DEF ListInv, NameFresh
<1>. QED
  BY <1>1, <1>6, <1>7, <1>8 DEF ListInv, NamesApart

LEMMA StepListInv == ListInv /\ [StreamNext]_<<vars, streamVars>> => ListInv'
<1>. SUFFICES ASSUME ListInv, [StreamNext]_<<vars, streamVars>> PROVE ListInv'
  OBVIOUS
<1>1. CASE UNCHANGED <<vars, streamVars>>
  BY <1>1 DEF vars, streamVars, ListInv, ListShape, LockHeld, NameFresh, NamesApart,
              NamesListed, Adding, At
<1>2. CASE StreamNext
  <2>1. PICK c \in Core :
          \/ Messages(c)
          \/ \E n \in Name : RegisterStream(c, n)
          \/ NoMemory(c) \/ NodeAllocated(c) \/ AddStream(c) \/ AddNameless(c)
          \/ AnnounceAdd(c) \/ AnnounceRemoval(c) \/ FreeName(c) \/ FreeNode(c)
          \/ \E i \in DOMAIN streamList : Unlink(c, i)
    BY <1>2 DEF StreamNext
  <2>. QED
    BY <2>1, MessagesListInv, RegisterListInv, NoMemoryListInv, NodeListInv, AddListInv,
       AfterListInv, UnlinkListInv
<1>. QED
  BY <1>1, <1>2

(* For any number of cores and names and any heap: the list, its names and *)
(* who holds the lock while a stream is being added.                       *)
THEOREM ListInvariance == StreamSpec => []ListInv
<1>. QED
  BY InitListInv, StepListInv, PTL DEF StreamSpec

(* No two streams have one name, as long as the heap is not spoiled: the   *)
(* lock is held from the look at the list to the stream's place in it,     *)
(* over both allocations.                                                  *)
THEOREM NamesStayUnique == StreamSpec => []NamesUnique
<1>1. ListInv => NamesUnique
  BY DEF ListInv, NamesApart, NamesUnique
<1>. QED
  BY <1>1, ListInvariance, PTL

=============================================================================
