------------------------------- MODULE FrsFaces -------------------------------
(***************************************************************************)
(* Face descriptors of FRS: the tables face_descriptors, video_streams and *)
(* link_descriptor_vstream, the transactions that change them, their soft  *)
(* deletion, and the two incremental caches that recognition reads.        *)
(*                                                                         *)
(* A row carries last_updated, the time its transaction began, and         *)
(* flag_deleted.  Incremental updates of a cache read the rows updated     *)
(* since the last update began, and a little before; full updates read     *)
(* all rows.  Maintenance deletes rows that have been marked long enough.  *)
(*                                                                         *)
(* Time is relative: row ages and the time since a cache update are ticks. *)
(* A statement takes effect when its transaction commits.  All rows belong *)
(* to one group.  A stream that is added after its row was deleted gets a  *)
(* new identifier, which is another element of VStreams.                   *)
(***************************************************************************)
EXTENDS Integers

CONSTANTS
  VStreams,    \* identifiers of video streams
  MaxFace,     \* the last descriptor identifier (a bound)
  MaxCalls,    \* API calls that change something (a bound)
  Requests,    \* concurrent API requests (a bound)
  Tasks,       \* concurrent recognitions that spawn a descriptor (a bound)
  Correction,  \* update-correction of the caches
  MaxSince,    \* a cache is updated at least this often
  MaxTrx,      \* a transaction takes at most this long
  TTL,         \* flag-deleted-ttl
  NoStream     \* no video stream

\* Identifiers come from a sequence; 0 stands for none.
Faces == 1..MaxFace
NoFace == 0

ASSUME ConstantsOK ==
  /\ Correction \in Nat /\ MaxSince \in Nat /\ MaxTrx \in Nat /\ TTL \in Nat
  /\ MaxFace \in Nat /\ MaxCalls \in Nat
  /\ NoStream \notin VStreams
  /\ Requests \intersect Tasks = {}

\* What the configuration has to provide: transactions shorter than
\* update-correction, and marked rows kept until every cache has read them.
PromptCommits == MaxTrx <= Correction
LateCleanUp == MaxSince + Correction <= TTL

\* Ages are not told apart beyond this one.
Oldest == TTL + 1

Links == VStreams \X Faces

Actors == Requests \union Tasks

VARIABLES
  vstream,   \* state of the row in video_streams
  marked_age, \* time since it was marked
  face,      \* state of the row in face_descriptors
  face_age,  \* time since its last_updated
  parent,    \* its id_parent
  link,      \* state of the row in link_descriptor_vstream
  link_age,  \* time since its last_updated
  fd_cache,  \* face_descriptor_cache_
  fd_since,  \* time since its last update began
  vd_cache,  \* vstream_descriptors_cache_
  vd_since,  \* time since its last update began
  request,   \* requests and recognitions under way
  calls,     \* API calls begun
  lost_faces, \* history: descriptors that a cascade deleted, since a full update
  lost_links  \* history: links that a cascade deleted, since a full update

streams == <<vstream, marked_age>>
tables == <<streams, face, face_age, parent, link, link_age>>
caches == <<fd_cache, fd_since, vd_cache, vd_since>>
history == <<lost_faces, lost_links>>
vars == <<tables, caches, request, calls, history>>

\* A request that has looked up its stream and has not begun its transaction.
Asked(op, v, d) == [op |-> op, v |-> v, d |-> d, trx |-> FALSE, age |-> 0]

NoRequest == Asked("none", NoStream, NoFace)

Ops == {"none", "new", "spawn", "add", "remove", "delete", "removeStream", "addStream"}

InTable(d) == face[d] \in {"live", "flagged"}
SpawnedOf(d) == {s \in Faces : InTable(s) /\ parent[s] = d}

Request ==
  [op : Ops, v : VStreams \union {NoStream}, d : Faces \union {NoFace},
   trx : BOOLEAN, age : 0..MaxTrx]

\* Types, and the foreign keys of the tables.
TypeOK ==
  /\ vstream \in [VStreams -> {"live", "flagged", "gone"}]
  /\ marked_age \in [VStreams -> 0..Oldest]
  /\ face \in [Faces -> {"none", "live", "flagged", "gone"}]
  /\ face_age \in [Faces -> 0..Oldest]
  /\ parent \in [Faces -> Faces \union {NoFace}]
  /\ link \in [Links -> {"none", "live", "flagged"}]
  /\ link_age \in [Links -> 0..Oldest]
  /\ fd_cache \subseteq Faces
  /\ vd_cache \subseteq Links
  /\ fd_since \in 0..MaxSince /\ vd_since \in 0..MaxSince
  /\ request \in [Actors -> Request]
  /\ calls \in 0..MaxCalls
  /\ lost_faces \subseteq Faces
  /\ lost_links \subseteq Links
  /\ \A l \in Links : link[l] # "none" => InTable(l[2]) /\ vstream[l[1]] # "gone"
  /\ \A d \in Faces : InTable(d) /\ parent[d] # NoFace => InTable(parent[d])

Init ==
  /\ vstream = [v \in VStreams |-> "live"]
  /\ marked_age = [v \in VStreams |-> 0]
  /\ face = [d \in Faces |-> "none"]
  /\ face_age = [d \in Faces |-> 0]
  /\ parent = [d \in Faces |-> NoFace]
  /\ link = [l \in Links |-> "none"]
  /\ link_age = [l \in Links |-> 0]
  /\ fd_cache = {} /\ fd_since = 0
  /\ vd_cache = {} /\ vd_since = 0
  /\ request = [r \in Actors |-> NoRequest]
  /\ calls = 0
  /\ lost_faces = {} /\ lost_links = {}

\* f with the value e at all elements of S
Put(f, S, e) == [x \in DOMAIN f |-> IF x \in S THEN e ELSE f[x]]

\* Spawned descriptors never leave the service: API calls name the others.
Known(d) == InTable(d) /\ parent[d] = NoFace

-----------------------------------------------------------------------------
(* Recognition against the caches                                          *)

Candidates(v) == {d \in fd_cache : <<v, d>> \in vd_cache}

\* A spawned descriptor is reported as its parent.
Reported(d) == IF parent[d] # NoFace THEN parent[d] ELSE d

\* A frame of v (the service forgets a marked stream long before its row is
\* deleted) matches d, and one of the unknown descriptors resembles the
\* face: it is going to be spawned.  (A recognition that spawns nothing leaves
\* the state as it is.)
Recognise(r, v, d) ==
  /\ request[r] = NoRequest
  /\ vstream[v] # "gone"
  /\ d \in Candidates(v)
  /\ request' = [request EXCEPT ![r] = Asked("spawn", NoStream, Reported(d))]
  /\ UNCHANGED <<tables, caches, calls, history>>

-----------------------------------------------------------------------------
(* Requests                                                                *)

\* A request is accepted.
Ask(r, op, v, d) ==
  /\ request[r] = NoRequest
  /\ calls < MaxCalls /\ calls' = calls + 1
  /\ request' = [request EXCEPT ![r] = Asked(op, v, d)]
  /\ UNCHANGED <<tables, caches, history>>

\* registerFace with a face that is none of the candidates.  (Otherwise it
\* answers with the candidate's Reported and leaves the state as it is.)
RegisterFace(r, v) == vstream[v] # "gone" /\ Ask(r, "new", v, NoFace)

\* getVStreamId: before the transaction, streams that are not marked
AddFace(r, v, d) == vstream[v] = "live" /\ Known(d) /\ Ask(r, "add", v, d)
RemoveFace(r, v, d) == vstream[v] = "live" /\ Known(d) /\ Ask(r, "remove", v, d)
RemoveVStream(r, v) == vstream[v] = "live" /\ Ask(r, "removeStream", v, NoFace)

DeleteFace(r, d) == Known(d) /\ Ask(r, "delete", NoStream, d)

\* addStream, with or without a face, of a stream that has had a row before
AddStream(r, v, d) == (d # NoFace => Known(d)) /\ Ask(r, "addStream", v, d)

-----------------------------------------------------------------------------
(* Transactions                                                            *)

Begin(r) ==
  /\ request[r].op # "none" /\ ~request[r].trx
  /\ request' = [request EXCEPT ![r].trx = TRUE]
  /\ UNCHANGED <<tables, caches, calls, history>>

InTrx(r, op) == request[r].op = op /\ request[r].trx

\* The next identifier of the sequence
Fresh(d) == face[d] = "none" /\ \A e \in Faces : e < d => face[e] # "none"

\* addFaceDescriptor: the row, linked to the stream unless it has a parent.
\* (No link to a stream without a row: the foreign key makes it fail.)
CommitNew(r, d) ==
  /\ InTrx(r, "new")
  /\ Fresh(d)
  /\ vstream[request[r].v] # "gone"
  /\ face' = [face EXCEPT ![d] = "live"]
  /\ face_age' = [face_age EXCEPT ![d] = request[r].age]
  /\ link' = [link EXCEPT ![<<request[r].v, d>>] = "live"]
  /\ link_age' = [link_age EXCEPT ![<<request[r].v, d>>] = request[r].age]
  /\ request' = [request EXCEPT ![r] = NoRequest]
  /\ UNCHANGED <<streams, parent, caches, calls, history>>

\* The foreign key demands that the parent's row is still there.
CommitSpawned(r, d) ==
  /\ InTrx(r, "spawn")
  /\ Fresh(d)
  /\ InTable(request[r].d)
  /\ face' = [face EXCEPT ![d] = "live"]
  /\ face_age' = [face_age EXCEPT ![d] = request[r].age]
  /\ parent' = [parent EXCEPT ![d] = request[r].d]
  /\ request' = [request EXCEPT ![r] = NoRequest]
  /\ UNCHANGED <<streams, link, link_age, caches, calls, history>>

\* The link that SQL_ADD_LINK_DESCRIPTOR_VSTREAM inserts or restores, if there
\* is a row for the descriptor: marked or not.
Bound(v, d) == {l \in Links : l = <<v, d>> /\ InTable(d)}

CommitAdd(r) ==
  /\ InTrx(r, "add")
  /\ vstream[request[r].v] # "gone"
  /\ LET links == Bound(request[r].v, request[r].d) IN
     /\ link' = Put(link, links, "live")
     /\ link_age' = Put(link_age, links, request[r].age)
  /\ request' = [request EXCEPT ![r] = NoRequest]
  /\ UNCHANGED <<streams, face, face_age, parent, caches, calls, history>>

\* The stream is not marked any more; links of its past are not restored but
\* the one that the request names.  (When its row was deleted in the meantime
\* the update changes nothing, and without a face the request still succeeds.)
CommitAddStream(r) ==
  /\ InTrx(r, "addStream")
  /\ vstream[request[r].v] # "gone"
  /\ vstream' = [vstream EXCEPT ![request[r].v] = "live"]
  /\ marked_age' = [marked_age EXCEPT ![request[r].v] = 0]
  /\ LET links == Bound(request[r].v, request[r].d) IN
     /\ link' = Put(link, links, "live")
     /\ link_age' = Put(link_age, links, request[r].age)
  /\ request' = [request EXCEPT ![r] = NoRequest]
  /\ UNCHANGED <<face, face_age, parent, caches, calls, history>>

Unbound(v, d) == {l \in Links : l = <<v, d>> /\ link[l] # "none"}

CommitRemove(r) ==
  /\ InTrx(r, "remove")
  /\ LET links == Unbound(request[r].v, request[r].d) IN
     /\ link' = Put(link, links, "flagged")
     /\ link_age' = Put(link_age, links, request[r].age)
  /\ request' = [request EXCEPT ![r] = NoRequest]
  /\ UNCHANGED <<streams, face, face_age, parent, caches, calls, history>>

LinksOfStream(v) == {l \in Links : l[1] = v /\ link[l] # "none"}

\* removeVStream marks the links of the stream and its row.  (Without a row
\* it changes nothing, as a rollback.)
CommitRemoveStream(r) ==
  /\ InTrx(r, "removeStream")
  /\ vstream[request[r].v] # "gone"
  /\ vstream' = [vstream EXCEPT ![request[r].v] = "flagged"]
  /\ marked_age' = [marked_age EXCEPT ![request[r].v] = request[r].age]
  /\ link' = Put(link, LinksOfStream(request[r].v), "flagged")
  /\ link_age' = Put(link_age, LinksOfStream(request[r].v), request[r].age)
  /\ request' = [request EXCEPT ![r] = NoRequest]
  /\ UNCHANGED <<face, face_age, parent, caches, calls, history>>

LinksOfFaulty(d) == {}

LinksOf(d) == {l \in Links : l[2] = d /\ link[l] # "none"}

\* Marks the links of the descriptor, its row, and those spawned from it.
CommitDelete(r) ==
  /\ InTrx(r, "delete")
  /\ LET d == request[r].d
         rows == {x \in {d} : InTable(x)} \union SpawnedOf(d)
     IN
     /\ link' = Put(link, LinksOf(d), "flagged")
     /\ link_age' = Put(link_age, LinksOf(d), request[r].age)
     /\ face' = Put(face, rows, "flagged")
     /\ face_age' = Put(face_age, rows, request[r].age)
  /\ request' = [request EXCEPT ![r] = NoRequest]
  /\ UNCHANGED <<streams, parent, caches, calls, history>>

\* The transaction cannot begin, or is rolled back.
Rollback(r) ==
  /\ request[r].op # "none"
  /\ request' = [request EXCEPT ![r] = NoRequest]
  /\ UNCHANGED <<tables, caches, calls, history>>

-----------------------------------------------------------------------------
(* doFlagDeletedMaintenance                                                *)

OverFaulty(state, age) == state = "flagged"

Over(state, age) == state = "flagged" /\ age > TTL

ExpiredFaces == {d \in Faces : Over(face[d], face_age[d])}
ExpiredLinks == {l \in Links : Over(link[l], link_age[l])}

\* The variant: links keep a stream from being deleted.
ExpiredStreamsFaulty ==
  {v \in VStreams : Over(vstream[v], marked_age[v]) /\ LinksOfStream(v) = {}}

ExpiredStreams == {v \in VStreams : Over(vstream[v], marked_age[v])}

\* With a descriptor go those spawned from it, and the links of both; with a
\* stream go its links.
DeletedFaces == ExpiredFaces \union UNION {SpawnedOf(d) : d \in ExpiredFaces}
DeletedLinks ==
  ExpiredLinks \union (UNION {LinksOf(d) : d \in DeletedFaces})
    \union (UNION {LinksOfStream(v) : v \in ExpiredStreams})

Maintenance ==
  /\ vstream' = Put(vstream, ExpiredStreams, "gone")
  /\ marked_age' = Put(marked_age, ExpiredStreams, 0)
  /\ face' = Put(face, DeletedFaces, "gone")
  /\ face_age' = Put(face_age, DeletedFaces, 0)
  /\ link' = Put(link, DeletedLinks, "none")
  /\ link_age' = Put(link_age, DeletedLinks, 0)
  /\ lost_faces' = lost_faces \union (DeletedFaces \ ExpiredFaces)
  /\ lost_links' = lost_links \union (DeletedLinks \ ExpiredLinks)
  /\ UNCHANGED <<parent, caches, request, calls>>

-----------------------------------------------------------------------------
(* Updates of the caches                                                   *)

\* last_updated >= (begin of the last update) - update-correction
RecentFaulty(age, since) == age <= since

Recent(age, since) == age <= since + Correction

\* insert_or_assign of FaceDescriptorCacheContainer for each of the rows
FdAfter(old, rows) ==
  (old \ {d \in rows : face[d] = "flagged"}) \union {d \in rows : face[d] = "live"}

FdIncremental ==
  /\ fd_cache' = FdAfter(fd_cache,
       {d \in Faces : InTable(d) /\ Recent(face_age[d], fd_since)})
  /\ fd_since' = 0
  /\ UNCHANGED <<tables, vd_cache, vd_since, request, calls, history>>

\* A full update starts from an empty container (the variant: from the old one).
FdStartFaulty == fd_cache

FdStart == {}

FdFull ==
  /\ fd_cache' = FdAfter(FdStart, {d \in Faces : InTable(d)})
  /\ fd_since' = 0
  /\ lost_faces' = {}
  /\ UNCHANGED <<tables, vd_cache, vd_since, request, calls, lost_links>>

\* The rows a link is joined to: its descriptor and those spawned from it.
\* The variant forgets to erase the latter.
ErasedPairsFaulty(l) == {l}

ErasedPairs(l) == {l} \union {<<l[1], s>> : s \in SpawnedOf(l[2])}
InsertedPairs(l) == {l} \union {<<l[1], s>> : s \in SpawnedOf(l[2])}

\* insert_or_assign of VStreamDescriptorsCacheContainer for each of the rows
VdAfter(old, rows) ==
  (old \ UNION {ErasedPairs(l) : l \in {k \in rows : link[k] = "flagged"}})
    \union UNION {InsertedPairs(l) : l \in {k \in rows : link[k] = "live"}}

VdIncremental ==
  /\ vd_cache' = VdAfter(vd_cache,
       {l \in Links : link[l] # "none" /\ Recent(link_age[l], vd_since)})
  /\ vd_since' = 0
  /\ UNCHANGED <<tables, fd_cache, fd_since, request, calls, history>>

VdFull ==
  /\ vd_cache' = VdAfter({}, {l \in Links : link[l] # "none"})
  /\ vd_since' = 0
  /\ lost_links' = {}
  /\ UNCHANGED <<tables, fd_cache, fd_since, request, calls, lost_faces>>

-----------------------------------------------------------------------------
Older(age) == IF age < Oldest THEN age + 1 ELSE age

Tick ==
  /\ fd_since < MaxSince /\ vd_since < MaxSince
  /\ \A r \in Actors : request[r].trx => request[r].age < MaxTrx
  /\ fd_since' = fd_since + 1
  /\ vd_since' = vd_since + 1
  /\ face_age' = [d \in Faces |-> IF InTable(d) THEN Older(face_age[d]) ELSE 0]
  /\ link_age' = [l \in Links |-> IF link[l] # "none" THEN Older(link_age[l]) ELSE 0]
  /\ request' = [r \in Actors |->
       IF request[r].trx THEN [request[r] EXCEPT !.age = @ + 1] ELSE request[r]]
  /\ marked_age' = [v \in VStreams |->
       IF vstream[v] = "flagged" THEN Older(marked_age[v]) ELSE 0]
  /\ UNCHANGED <<vstream, face, parent, link, fd_cache, vd_cache, calls, history>>

-----------------------------------------------------------------------------
Call(r) ==
  \/ \E v \in VStreams :
       \/ RegisterFace(r, v) \/ RemoveVStream(r, v)
       \/ \E d \in Faces : AddFace(r, v, d) \/ RemoveFace(r, v, d)
       \/ \E d \in Faces \union {NoFace} : AddStream(r, v, d)
  \/ \E d \in Faces : DeleteFace(r, d)

Step(r) ==
  \/ Begin(r)
  \/ \E d \in Faces : CommitNew(r, d) \/ CommitSpawned(r, d)
  \/ CommitAdd(r) \/ CommitRemove(r) \/ CommitDelete(r)
  \/ CommitAddStream(r) \/ CommitRemoveStream(r)
  \/ Rollback(r)

FdUpdate == FdIncremental \/ FdFull
VdUpdate == VdIncremental \/ VdFull

Next ==
  \/ \E r \in Requests : Call(r)
  \/ \E r \in Tasks, v \in VStreams, d \in Faces : Recognise(r, v, d)
  \/ \E r \in Actors : Step(r)
  \/ Maintenance
  \/ FdUpdate
  \/ VdUpdate
  \/ Tick

Spec == Init /\ [][Next]_vars

\* Requests run to their end, periodic tasks keep running, full updates keep
\* coming, and the clock advances.  Nobody has to call.
Fairness ==
  /\ \A r \in Actors : WF_vars(Step(r))
  /\ WF_vars(Maintenance) /\ WF_vars(Tick)
  /\ WF_vars(FdFull) /\ WF_vars(VdFull)

FairSpec == Spec /\ Fairness

-----------------------------------------------------------------------------
(* Properties                                                              *)

LiveFaces == {d \in Faces : face[d] = "live"}
LiveLinks == {l \in Links : link[l] = "live"}

\* An update of the descriptor cache, incremental or full, leaves in it just
\* the descriptors that are not marked, and those that vanished with their
\* parent before they were marked.  It relies on PromptCommits and LateCleanUp.
FdCatchesUp ==
  [][FdUpdate => LiveFaces \subseteq fd_cache' /\ fd_cache' \ lost_faces' \subseteq LiveFaces]_vars

\* The same for the cache of links, with the descriptors spawned from a linked
\* one at most.
VdCatchesUp ==
  [][VdUpdate =>
       /\ LiveLinks \subseteq vd_cache'
       /\ \A l \in vd_cache' : <<l[1], Reported(l[2])>> \in LiveLinks \union lost_links']_vars

\* Both caches are right after each of their updates.
CachesCatchUp == FdCatchesUp /\ VdCatchesUp

\* Maintenance removes a marked row only when the cache no longer holds it:
\* an incremental update would never learn of it afterwards.
CachesFirst ==
  [][Maintenance => ExpiredFaces \intersect fd_cache = {}
                    /\ ExpiredLinks \intersect vd_cache = {}]_vars

\* Recognition and registration answer with linked descriptors only.  A link
\* that was removed no longer counts once the cache of links has been updated
\* after the removal, unless a cascade deleted the row unmarked.
ReportedIsLinked ==
  \A v \in VStreams : \A d \in Candidates(v) :
    LET l == <<v, Reported(d)>> IN
    \/ link[l] = "live"
    \/ link[l] = "flagged" /\ link_age[l] <= vd_since + MaxTrx
    \/ l \in lost_links

\* When nothing is changed any more the caches come to agree with the tables,
\* whatever cascades they have missed.
CachesConverge ==
  <>[](\A r \in Actors : request[r] = NoRequest) =>
    <>[](fd_cache = LiveFaces /\ vd_cache = UNION {InsertedPairs(l) : l \in LiveLinks})

\* A marked descriptor disappears from the database, unless it is being
\* deleted once more; a marked stream does, with all its links, unless it is
\* added again.
MarkedDisappears ==
  /\ \A d \in Faces : (face[d] = "flagged") ~>
       (face[d] = "gone" \/ \E r \in Requests : request[r].op = "delete"
                                                /\ d \in {request[r].d} \union SpawnedOf(request[r].d))
  /\ \A v \in VStreams : (vstream[v] = "flagged") ~>
       (\/ vstream[v] = "live"
        \/ vstream[v] = "gone" /\ LinksOfStream(v) = {}
        \/ \E r \in Requests : request[r].op = "removeStream" /\ request[r].v = v)
=============================================================================
