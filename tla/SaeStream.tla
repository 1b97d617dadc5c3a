------------------------------ MODULE SaeStream -------------------------------
(***************************************************************************)
(* The list of named streams in shared memory (sae_stream.c), on the heap  *)
(* of SaeAlloc: a stream is a block of the list and a block with its name. *)
(* The list's links are taken as a sequence.                               *)
(*                                                                         *)
(* sae_registerStream holds the lock from its look at the list until the   *)
(* stream is in it, over two allocations, of which either may fail.        *)
(* sae_unRegisterStream unlinks under the lock, announces the removal, and *)
(* frees the two blocks without it.  Meanwhile, and otherwise, the cores   *)
(* use the heap as in SaeAlloc: for messages, those that announce streams  *)
(* among them, which the cores that get them free.                         *)
(***************************************************************************)
EXTENDS SaeAlloc, Sequences, SequencesExt

CONSTANTS
  Name,          \* names of streams
  StreamWords,   \* size of an SAE_STREAM
  NameWords      \* size of a name

ASSUME StreamAssumption == {StreamWords, NameWords} \subseteq Requests

VARIABLES
  streamList,    \* the streams: name, and pointers to stream and name
  job            \* what a core is in the middle of, and for which stream

streamVars == <<streamList, job>>

NoStream == [name |-> None, node |-> 0, str |-> 0]

StreamInit == /\ Init
              /\ streamList = <<>>
              /\ job = [c \in Core |-> [step |-> "none", stream |-> NoStream]]

At(c, step) == job[c].step = step
SetJob(c, step, s) == job' = [job EXCEPT ![c] = [step |-> step, stream |-> s]]

-----------------------------------------------------------------------------
(* sae_registerStream of a name that is not in the list; it fails, and     *)
(* changes nothing, if the name is.                                        *)

(* Mutant: the list is looked at before the lock is taken.                 *)
RegisterStreamUnlocked(c, n) ==
  /\ At(c, "none") /\ pc[c] = "idle"
  /\ \A i \in DOMAIN streamList : streamList[i].name # n
  /\ StartWalk(c, StreamWords)
  /\ SetJob(c, "node", [NoStream EXCEPT !.name = n])
  /\ UNCHANGED <<mem, owner, live, spoiled, streamList>>

RegisterStream(c, n) ==
  /\ At(c, "none")
  /\ Malloc(c, StreamWords)
  /\ \A i \in DOMAIN streamList : streamList[i].name # n
  /\ SetJob(c, "node", [NoStream EXCEPT !.name = n])
  /\ UNCHANGED streamList

(* There is no memory for the stream, and the call fails.                  *)
NoMemory(c) ==
  /\ At(c, "node") /\ Refuse(c)
  /\ SetJob(c, "none", NoStream)
  /\ UNCHANGED streamList

(* The stream has its block, its name gets one.                            *)
NodeAllocated(c) ==
  /\ At(c, "node") /\ Allocate(c)
  /\ StartWalk(c, NameWords)
  /\ SetJob(c, "name", [job[c].stream EXCEPT !.node = cur[c]])
  /\ UNCHANGED <<owner, spoiled, streamList>>

AddStream(c) ==
  /\ At(c, "name") /\ Take(c)
  /\ streamList' = Append(streamList, [job[c].stream EXCEPT !.str = cur[c]])
  /\ SetJob(c, "added", [job[c].stream EXCEPT !.str = cur[c]])

(* With no memory for the name it is written through the null pointer the  *)
(* allocation returned: nothing can be said of the memory after that.  The *)
(* stream gets into the list all the same.                                 *)
AddNameless(c) ==
  /\ At(c, "name") /\ pc[c] = "walk" /\ BlkSize(cur[c]) = 0
  /\ streamList' = Append(streamList, job[c].stream)
  /\ SetJob(c, "added", job[c].stream)
  /\ owner' = None /\ Finish(c)
  /\ spoiled' = TRUE
  /\ UNCHANGED <<mem, live>>

(* sae_broadcastEvent, SAE_EVENT_ADD_STREAM.  It may find no memory or a   *)
(* full queue, but nobody looks at its result.  What it does to the heap   *)
(* is among Messages.                                                      *)
AnnounceAdd(c) ==
  /\ At(c, "added") /\ pc[c] = "idle"
  /\ SetJob(c, "none", NoStream)
  /\ UNCHANGED <<vars, streamList>>

-----------------------------------------------------------------------------
(* sae_unRegisterStream                                                    *)

(* The caller has a pointer to the stream: its registration has returned.  *)
Returned(s) == \A c \in Core : ~(At(c, "added") /\ job[c].stream = s)

(* Mutant: the stream stays in the list until it has been freed.           *)
UnlinkLater(c, i) ==
  /\ pc[c] = "idle" /\ At(c, "none") /\ owner = None /\ Returned(streamList[i])
  /\ SetJob(c, "unlinked", streamList[i])
  /\ UNCHANGED <<vars, streamList>>

Unlink(c, i) ==
  /\ pc[c] = "idle" /\ At(c, "none") /\ owner = None /\ Returned(streamList[i])
  /\ streamList' = RemoveAt(streamList, i)
  /\ SetJob(c, "unlinked", streamList[i])
  /\ UNCHANGED vars

(* sae_broadcastEvent, SAE_EVENT_REMOVE_STREAM, again for better or worse. *)
AnnounceRemoval(c) ==
  /\ At(c, "unlinked") /\ pc[c] = "idle"
  /\ SetJob(c, "announced", job[c].stream)
  /\ UNCHANGED <<vars, streamList>>

(* sae_free of the name, and when that is done of the stream.              *)
FreeName(c) ==
  /\ At(c, "announced")
  /\ \E b \in live : b.ptr = job[c].stream.str /\ FreeMark(c, b)
  /\ SetJob(c, "freed", job[c].stream)
  /\ UNCHANGED streamList

FreeNode(c) ==
  /\ At(c, "freed")
  /\ \E b \in live : b.ptr = job[c].stream.node /\ FreeMark(c, b)
  /\ SetJob(c, "none", NoStream)
  /\ UNCHANGED streamList

-----------------------------------------------------------------------------
(* The pointers that the list and the calls in progress hold.              *)
Pointers(s) == {s.node, s.str} \ {0}
Held(c) == CASE At(c, "added") -> {}
             [] At(c, "freed") -> {job[c].stream.node}
             [] OTHER          -> Pointers(job[c].stream)
Listed(i) == Pointers(streamList[i])
StreamPtrs == UNION ({Listed(i) : i \in DOMAIN streamList} \cup {Held(c) : c \in Core})

(* The messages of the application, and of the announcements.              *)
Messages(c) ==
  /\ \/ job[c].step \in {"none", "added", "unlinked"} /\
          (\/ \E n \in Requests : Malloc(c, n)
           \/ Take(c) \/ Refuse(c)
           \/ \E b \in live : b.ptr \notin StreamPtrs /\ FreeLocked(c, b))
     \/ WalkOn(c) \/ FreeLook(c) \/ FreeMerge(c)
  /\ UNCHANGED streamVars

StreamNext == \E c \in Core :
  \/ Messages(c)
  \/ \E n \in Name : RegisterStream(c, n)
  \/ NoMemory(c) \/ NodeAllocated(c) \/ AddStream(c) \/ AddNameless(c)
  \/ AnnounceAdd(c)
  \/ \E i \in DOMAIN streamList : Unlink(c, i)
  \/ AnnounceRemoval(c) \/ FreeName(c) \/ FreeNode(c)

StreamSpec == StreamInit /\ [][StreamNext]_<<vars, streamVars>>

-----------------------------------------------------------------------------
(* Until the heap is spoiled no two streams have one name: what            *)
(* sae_registerStream makes sure of by holding the lock from the look at   *)
(* the list to the stream's place in it.                                   *)
NamesUnique == spoiled \/ \A i, j \in DOMAIN streamList :
                              streamList[i].name = streamList[j].name => i = j

(* Until the heap is spoiled, every stream in the list, and every one that *)
(* a core is adding or taking away, has its blocks to itself: they are in  *)
(* use, and no other stream's, whichever allocations were refused and      *)
(* whatever the cores do with messages meanwhile.                          *)
StreamsOwnBlocks == spoiled \/
  /\ \A p \in StreamPtrs : \E b \in live : b.ptr = p
  /\ \A i \in DOMAIN streamList :
        /\ Cardinality(Listed(i)) = 2
        /\ \A j \in DOMAIN streamList \ {i} : Listed(i) \cap Listed(j) = {}
        /\ \A c \in Core : Listed(i) \cap Held(c) = {}
  /\ \A c, d \in Core : c # d => Held(c) \cap Held(d) = {}

=============================================================================
