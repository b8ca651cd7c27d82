---------------------------- MODULE FrsFacesProofs ----------------------------
(***************************************************************************)
(* Proofs about FrsFaces, for any streams, descriptors, requests and        *)
(* settings with PromptCommits and LateCleanUp.                             *)
(*                                                                         *)
(* The argument: whenever a cache and a table disagree about a row, the    *)
(* row was stamped so recently that the next incremental update still      *)
(* reads it, or a cascade has deleted it unmarked (FdInv, VdInv), which    *)
(* takes a descriptor or a stream that never comes back.  Late             *)
(* clean-up keeps marked rows until no cache disagrees.  For the links of  *)
(* spawned descriptors one has to know that a spawned descriptor is marked *)
(* together with its parent, and that links belong to parents (Genealogy). *)
(***************************************************************************)
EXTENDS FrsFaces, TLAPS

\* The link on account of which a pair is in the cache of links.
Owner(p) == <<p[1], Reported(p[2])>>

Genealogy ==
  /\ \A d \in Faces : face[d] = "none" => parent[d] = NoFace
  /\ \A d \in Faces : parent[d] # NoFace =>
       /\ parent[parent[d]] = NoFace
       /\ face[parent[d]] # "none"
       /\ face[d] = "flagged" =>
            face[parent[d]] = "flagged" /\ face_age[d] = face_age[parent[d]]
       /\ face[d] = "gone" => face[parent[d]] = "gone"
  /\ \A l \in Links : link[l] # "none" => parent[l[2]] = NoFace

\* Requests are about descriptors that have, or had, a row and no parent.
Aimed ==
  \A r \in Actors :
    /\ \/ request[r].op \in {"spawn", "add", "remove", "delete"}
       \/ request[r].op = "addStream" /\ request[r].d # NoFace
       => /\ request[r].d \in Faces
          /\ parent[request[r].d] = NoFace
          /\ face[request[r].d] # "none"
    /\ request[r].op \in {"new", "add", "remove", "addStream", "removeStream"} =>
         request[r].v \in VStreams

FdInv ==
  \A d \in Faces :
    /\ d \in fd_cache /\ face[d] = "flagged" => face_age[d] <= fd_since + MaxTrx
    /\ d \notin fd_cache /\ face[d] = "live" => face_age[d] <= fd_since + MaxTrx
    /\ d \in fd_cache /\ face[d] = "gone" => d \in lost_faces
    /\ d \in fd_cache => face[d] # "none"

VdInv ==
  /\ \A l \in Links :
       link[l] = "live" /\ l \notin vd_cache => link_age[l] <= vd_since + MaxTrx
  /\ \A p \in vd_cache :
       /\ face[p[2]] # "none"
       /\ \/ link[Owner(p)] = "live"
          \/ link[Owner(p)] = "flagged" /\ link_age[Owner(p)] <= vd_since + MaxTrx
          \/ Owner(p) \in lost_links
  /\ \A l \in lost_links : face[l[2]] = "gone" \/ vstream[l[1]] = "gone"

IInv == TypeOK /\ Genealogy /\ Aimed /\ FdInv /\ VdInv

-----------------------------------------------------------------------------
(* Initially, and small facts                                              *)

\* The initial state satisfies the invariant.
LEMMA InitInv == Init => IInv
<1> SUFFICES ASSUME Init PROVE IInv
  OBVIOUS
<1>1. TypeOK
  BY ConstantsOK DEF Init, TypeOK, NoRequest, Asked, Request, Ops, InTable, Oldest, NoFace, Links, Faces
<1>2. Genealogy /\ FdInv /\ VdInv
  BY DEF Init, Genealogy, FdInv, VdInv, NoFace, Links
<1>3. Aimed
  BY DEF Init, Aimed, NoRequest, Asked
<1> QED BY <1>1, <1>2, <1>3 DEF IInv

\* A stamp of a committing transaction is an age the tables may hold.
LEMMA StampType ==
  ASSUME PromptCommits, LateCleanUp, TypeOK, NEW r \in Actors
  PROVE  /\ request[r].age \in Nat /\ request[r].age <= MaxTrx
         /\ request[r].age \in 0..Oldest
BY ConstantsOK DEF PromptCommits, LateCleanUp, TypeOK, Request, Oldest

\* A candidate is reported as a descriptor without a parent.
LEMMA ReportedType ==
  ASSUME TypeOK, Genealogy, NEW d \in Faces, face[d] # "none"
  PROVE  /\ Reported(d) \in Faces
         /\ parent[Reported(d)] = NoFace
         /\ face[Reported(d)] # "none"
BY DEF TypeOK, Genealogy, Reported

\* A pair in the cache of links is there on account of a link.
LEMMA OwnerType ==
  ASSUME IInv, NEW p \in vd_cache
  PROVE  /\ p \in Links /\ p[1] \in VStreams /\ p[2] \in Faces
         /\ Reported(p[2]) \in Faces
         /\ Owner(p) \in Links
         /\ Owner(p)[1] = p[1] /\ Owner(p)[2] = Reported(p[2])
<1>1. p \in Links /\ p[1] \in VStreams /\ p[2] \in Faces
  BY DEF IInv, TypeOK, Links
<1>2. Reported(p[2]) \in Faces
  BY <1>1, ReportedType DEF IInv, VdInv
<1> QED BY <1>1, <1>2 DEF Owner, Links

\* A step that changes the requests alone disturbs neither tables nor caches.
LEMMA TablesKept ==
  ASSUME IInv, UNCHANGED <<tables, caches, history>>
  PROVE  Genealogy' /\ FdInv' /\ VdInv'
<1>1. Genealogy'
  BY DEF IInv, Genealogy, tables
<1>2. FdInv'
  BY DEF IInv, FdInv, tables, caches, history
<1>3. VdInv'
  BY DEF IInv, VdInv, tables, streams, caches, history, Owner, Reported
<1> QED BY <1>1, <1>2, <1>3

-----------------------------------------------------------------------------
(* Steps that change the requests alone                                    *)

LEMMA RecogniseStep ==
  ASSUME IInv, NEW r \in Tasks, NEW v \in VStreams, NEW d \in Faces, Recognise(r, v, d)
  PROVE  IInv'
<1>1. Genealogy' /\ FdInv' /\ VdInv'
  BY TablesKept DEF Recognise
<1>2. Reported(d) \in Faces /\ parent[Reported(d)] = NoFace /\ face[Reported(d)] # "none"
  <2>1. face[d] # "none"
    BY DEF Recognise, Candidates, IInv, FdInv
  <2> QED BY <2>1, ReportedType DEF IInv
<1>3. Aimed'
  BY <1>2 DEF Recognise, IInv, Aimed, TypeOK, Request, NoRequest, Asked, Actors, tables
<1>4. TypeOK'
  BY <1>2, ConstantsOK
     DEF Recognise, IInv, TypeOK, NoRequest, Asked, Actors, Request, Ops, InTable,
         tables, streams, caches, history
<1> QED BY <1>1, <1>3, <1>4 DEF IInv

\* What may be asked for leaves the invariant as it is.
LEMMA AskStep ==
  ASSUME IInv, NEW r \in Requests, NEW op \in Ops, NEW v \in VStreams \union {NoStream},
         NEW d \in Faces \union {NoFace}, Ask(r, op, v, d),
         d # NoFace => Known(d),
         op \in {"spawn", "add", "remove", "delete"} => d # NoFace,
         op \in {"new", "add", "remove", "addStream", "removeStream"} => v \in VStreams
  PROVE  IInv'
<1>1. Genealogy' /\ FdInv' /\ VdInv'
  BY TablesKept DEF Ask
<1>2. /\ Asked(op, v, d) \in Request
      /\ Asked(op, v, d).op = op /\ Asked(op, v, d).v = v /\ Asked(op, v, d).d = d
  BY ConstantsOK DEF Asked, Request
<1>3. /\ request' \in [Actors -> Request]
      /\ \A q \in Actors : request'[q] = request[q] \/ request'[q] = Asked(op, v, d)
      /\ calls' \in 0..MaxCalls
  <2>1. request' = [request EXCEPT ![r] = Asked(op, v, d)] /\ request \in [Actors -> Request]
    BY DEF Ask, IInv, TypeOK
  <2>2. calls' \in 0..MaxCalls
    BY ConstantsOK DEF Ask, IInv, TypeOK
  <2> QED BY <1>2, <2>1, <2>2
<1>4. d # NoFace => d \in Faces /\ parent[d] = NoFace /\ face[d] # "none"
  BY DEF Known, InTable
<1>5. Aimed'
  BY <1>2, <1>3, <1>4 DEF Ask, IInv, Aimed, tables
<1>6. TypeOK'
  BY <1>3 DEF Ask, IInv, TypeOK, InTable, tables, streams, caches, history
<1> QED BY <1>1, <1>5, <1>6 DEF IInv

LEMMA CallStep ==
  ASSUME IInv, NEW r \in Requests, Call(r)
  PROVE  IInv'
<1>1. /\ NoFace \notin Faces
      /\ {"new", "add", "remove", "delete", "removeStream", "addStream"} \subseteq Ops
  BY DEF NoFace, Faces, Ops
<1>2. ASSUME NEW v \in VStreams, RegisterFace(r, v) PROVE IInv'
  BY <1>1, <1>2, AskStep DEF RegisterFace
<1>3. ASSUME NEW v \in VStreams, RemoveVStream(r, v) PROVE IInv'
  BY <1>1, <1>3, AskStep DEF RemoveVStream
<1>4. ASSUME NEW v \in VStreams, NEW d \in Faces, AddFace(r, v, d) PROVE IInv'
  BY <1>1, <1>4, AskStep DEF AddFace
<1>5. ASSUME NEW v \in VStreams, NEW d \in Faces, RemoveFace(r, v, d) PROVE IInv'
  BY <1>1, <1>5, AskStep DEF RemoveFace
<1>6. ASSUME NEW v \in VStreams, NEW d \in Faces \union {NoFace}, AddStream(r, v, d)
      PROVE  IInv'
  BY <1>1, <1>6, AskStep DEF AddStream
<1>7. ASSUME NEW d \in Faces, DeleteFace(r, d) PROVE IInv'
  BY <1>1, <1>7, AskStep DEF DeleteFace
<1> QED BY <1>2, <1>3, <1>4, <1>5, <1>6, <1>7 DEF Call

LEMMA BeginStep ==
  ASSUME IInv, NEW r \in Actors, Begin(r)
  PROVE  IInv'
<1>1. Genealogy' /\ FdInv' /\ VdInv'
  BY TablesKept DEF Begin
<1>2. Aimed'
  BY DEF Begin, IInv, Aimed, TypeOK, Request, tables
<1>3. TypeOK'
  <2>1. request \in [Actors -> Request]
    BY DEF IInv, TypeOK
  <2>2. [request[r] EXCEPT !.trx = TRUE] \in Request
    BY <2>1 DEF Request
  <2>3. request' \in [Actors -> Request]
    BY <2>1, <2>2 DEF Begin
  <2> QED BY <2>3 DEF Begin, IInv, TypeOK, InTable, tables, streams, caches, history
<1> QED BY <1>1, <1>2, <1>3 DEF IInv

LEMMA RollbackStep ==
  ASSUME IInv, NEW r \in Actors, Rollback(r)
  PROVE  IInv'
<1>1. Genealogy' /\ FdInv' /\ VdInv'
  BY TablesKept DEF Rollback
<1>2. Aimed'
  BY DEF Rollback, IInv, Aimed, TypeOK, Request, NoRequest, Asked, tables
<1>3. TypeOK'
  BY ConstantsOK
     DEF Rollback, IInv, TypeOK, NoRequest, Asked, Request, Ops, InTable, tables, streams, caches,
         history
<1> QED BY <1>1, <1>2, <1>3 DEF IInv

-----------------------------------------------------------------------------
(* Commits                                                                 *)

\* What the end of a request means to the invariant.
LEMMA EndedType ==
  ASSUME TypeOK, NEW r \in Actors, request' = [request EXCEPT ![r] = NoRequest]
  PROVE  /\ request' \in [Actors -> Request]
         /\ \A q \in Actors : request'[q] = request[q] \/ request'[q].op = "none"
<1>1. NoRequest \in Request /\ NoRequest.op = "none"
  BY ConstantsOK DEF NoRequest, Asked, Request, Ops
<1> QED BY <1>1 DEF TypeOK

LEMMA CommitNewStep ==
  ASSUME PromptCommits, LateCleanUp, IInv,
         NEW r \in Actors, NEW d \in Faces, CommitNew(r, d)
  PROVE  IInv'
<1> DEFINE l == <<request[r].v, d>>
<1>1. l \in Links
  BY DEF CommitNew, InTrx, IInv, Aimed, Links
<1>2. request[r].age \in 0..Oldest /\ request[r].age \in Nat /\ request[r].age <= MaxTrx
  BY StampType DEF IInv
<1>3. face[d] = "none" /\ parent[d] = NoFace
  BY DEF CommitNew, Fresh, IInv, Genealogy
<1>4. /\ request' \in [Actors -> Request]
      /\ \A q \in Actors : request'[q] = request[q] \/ request'[q].op = "none"
  BY EndedType DEF CommitNew, IInv
<1>5. TypeOK'
  <2>1. /\ face' = [face EXCEPT ![d] = "live"]
        /\ face_age' = [face_age EXCEPT ![d] = request[r].age]
        /\ link' = [link EXCEPT ![l] = "live"]
        /\ link_age' = [link_age EXCEPT ![l] = request[r].age]
        /\ l[2] = d /\ vstream[l[1]] # "gone"
    BY DEF CommitNew
  <2> HIDE DEF l
  <2>2. /\ face' \in [Faces -> {"none", "live", "flagged", "gone"}]
        /\ face_age' \in [Faces -> 0..Oldest]
        /\ link' \in [Links -> {"none", "live", "flagged"}]
        /\ link_age' \in [Links -> 0..Oldest]
    BY <1>1, <1>2, <2>1 DEF IInv, TypeOK
  <2>3. \A x \in Faces : InTable(x)' <=> InTable(x) \/ x = d
    BY <1>3, <2>1 DEF IInv, TypeOK, InTable
  <2>4. \A k \in Links : link'[k] # "none" => link[k] # "none" \/ k = l
    BY <1>1, <2>1 DEF IInv, TypeOK
  <2>5. \A k \in Links : k[2] \in Faces
    BY DEF Links
  <2>6. \A k \in Links : link'[k] # "none" => InTable(k[2])' /\ vstream[k[1]] # "gone"
    BY <2>1, <2>3, <2>4, <2>5 DEF IInv, TypeOK
  <2>7. \A x \in Faces : InTable(x)' /\ parent'[x] # NoFace => InTable(parent[x])'
    <3>1. parent' = parent
      BY DEF CommitNew
    <3> QED BY <1>3, <2>3, <3>1 DEF IInv, TypeOK
  <2> QED BY <1>4, <2>2, <2>6, <2>7
      DEF CommitNew, IInv, TypeOK, streams, caches, history
<1>6. Genealogy'
  BY <1>1, <1>3 DEF CommitNew, IInv, Genealogy, TypeOK, Links
<1>7. Aimed'
  BY <1>3, <1>4 DEF CommitNew, IInv, Aimed, TypeOK
<1>8. FdInv'
  BY <1>2, <1>3, ConstantsOK DEF CommitNew, IInv, FdInv, TypeOK, caches, history
<1>9. VdInv'
  BY <1>1, <1>2, <1>3, ConstantsOK
     DEF CommitNew, IInv, VdInv, TypeOK, Owner, Reported, streams, caches, history, Links
<1> QED BY <1>5, <1>6, <1>7, <1>8, <1>9 DEF IInv

LEMMA CommitSpawnedStep ==
  ASSUME PromptCommits, LateCleanUp, IInv,
         NEW r \in Actors, NEW d \in Faces, CommitSpawned(r, d)
  PROVE  IInv'
<1>1. request[r].d \in Faces /\ parent[request[r].d] = NoFace /\ face[request[r].d] # "none"
  BY DEF CommitSpawned, InTrx, IInv, Aimed
<1>2. request[r].age \in 0..Oldest /\ request[r].age \in Nat /\ request[r].age <= MaxTrx
  BY StampType DEF IInv
<1>3. face[d] = "none" /\ parent[d] = NoFace
  BY DEF CommitSpawned, Fresh, IInv, Genealogy
<1>4. /\ request' \in [Actors -> Request]
      /\ \A q \in Actors : request'[q] = request[q] \/ request'[q].op = "none"
  BY EndedType DEF CommitSpawned, IInv
<1>5. TypeOK'
  BY <1>1, <1>2, <1>3, <1>4 DEF CommitSpawned, IInv, TypeOK, InTable, streams, caches, history, Links
<1>6. Genealogy'
  BY <1>1, <1>3 DEF CommitSpawned, IInv, Genealogy, TypeOK, InTable, Links
<1>7. Aimed'
  BY <1>3, <1>4 DEF CommitSpawned, IInv, Aimed, TypeOK
<1>8. FdInv'
  BY <1>2, <1>3, ConstantsOK DEF CommitSpawned, IInv, FdInv, TypeOK, caches, history
<1>9. VdInv'
  BY <1>3 DEF CommitSpawned, IInv, VdInv, TypeOK, Owner, Reported, streams, caches, history, Links
<1> QED BY <1>5, <1>6, <1>7, <1>8, <1>9 DEF IInv

\* Links that are inserted, restored or marked with the stamp of a transaction,
\* and rows of streams that do not vanish, are no trouble.
LEMMA LinksChange ==
  ASSUME PromptCommits, LateCleanUp, IInv, NEW r \in Actors,
         NEW links \in SUBSET Links, NEW state \in {"live", "flagged"},
         \A l \in links : /\ InTable(l[2]) /\ parent[l[2]] = NoFace
                           /\ vstream[l[1]] # "gone",
         link' = Put(link, links, state),
         link_age' = Put(link_age, links, request[r].age),
         vstream' \in [VStreams -> {"live", "flagged", "gone"}],
         marked_age' \in [VStreams -> 0..Oldest],
         \A v \in VStreams : vstream'[v] = "gone" <=> vstream[v] = "gone",
         request' = [request EXCEPT ![r] = NoRequest],
         UNCHANGED <<face, face_age, parent, caches, calls, history>>
  PROVE  IInv'
<1>1. request[r].age \in 0..Oldest /\ request[r].age \in Nat /\ request[r].age <= MaxTrx
  BY StampType DEF IInv
<1>2. /\ request' \in [Actors -> Request]
      /\ \A q \in Actors : request'[q] = request[q] \/ request'[q].op = "none"
  BY EndedType DEF IInv
<1>3. /\ link' \in [Links -> {"none", "live", "flagged"}]
      /\ link_age' \in [Links -> 0..Oldest]
      /\ \A l \in Links :
           IF l \in links THEN link'[l] = state /\ link_age'[l] = request[r].age
                          ELSE link'[l] = link[l] /\ link_age'[l] = link_age[l]
  BY <1>1 DEF IInv, TypeOK, Put
<1>4. TypeOK'
  <2>1. \A l \in Links : l[1] \in VStreams
    BY DEF Links
  <2>2. \A l \in Links : link'[l] # "none" => InTable(l[2]) /\ vstream'[l[1]] # "gone"
    BY <1>3, <2>1 DEF IInv, TypeOK
  <2> QED BY <1>2, <1>3, <2>2 DEF IInv, TypeOK, InTable, caches, history
<1>5. Genealogy'
  BY <1>3 DEF IInv, Genealogy
<1>6. Aimed'
  BY <1>2 DEF IInv, Aimed
<1>7. FdInv'
  BY DEF IInv, FdInv, caches, history
<1>8. VdInv'
  <2>1. \A p : Owner(p)' = Owner(p)
    BY DEF Owner, Reported
  <2>2. request[r].age <= vd_since + MaxTrx
    BY <1>1, ConstantsOK DEF IInv, TypeOK
  <2>3. \A l \in Links : link'[l] = "live" /\ l \notin vd_cache =>
                         link_age'[l] <= vd_since + MaxTrx
    BY <1>3, <2>2 DEF IInv, VdInv
  <2>4. \A p \in vd_cache :
          \/ link'[Owner(p)] = "live"
          \/ link'[Owner(p)] = "flagged" /\ link_age'[Owner(p)] <= vd_since + MaxTrx
          \/ Owner(p) \in lost_links
    BY <1>3, <2>2, OwnerType DEF IInv, VdInv
  <2>5. \A l \in lost_links : face[l[2]] = "gone" \/ vstream'[l[1]] = "gone"
    BY DEF IInv, TypeOK, VdInv, Links
  <2> QED BY <2>1, <2>3, <2>4, <2>5 DEF IInv, VdInv, caches, history
<1> QED BY <1>4, <1>5, <1>6, <1>7, <1>8 DEF IInv

\* A stamp or none: what a row of a stream carries.
LEMMA StreamMarked ==
  ASSUME TypeOK, NEW v \in VStreams, vstream[v] # "gone",
         NEW state \in {"live", "flagged"}, NEW age \in 0..Oldest,
         vstream' = [vstream EXCEPT ![v] = state],
         marked_age' = [marked_age EXCEPT ![v] = age]
  PROVE  /\ vstream' \in [VStreams -> {"live", "flagged", "gone"}]
         /\ marked_age' \in [VStreams -> 0..Oldest]
         /\ \A u \in VStreams : vstream'[u] = "gone" <=> vstream[u] = "gone"
BY DEF TypeOK

LEMMA CommitAddStep ==
  ASSUME PromptCommits, LateCleanUp, IInv, NEW r \in Actors, CommitAdd(r)
  PROVE  IInv'
<1> DEFINE links == Bound(request[r].v, request[r].d)
<1>1. /\ links \in SUBSET Links
      /\ \A l \in links : /\ InTable(l[2]) /\ parent[l[2]] = NoFace
                          /\ vstream[l[1]] # "gone"
  BY DEF CommitAdd, InTrx, Bound, IInv, Aimed
<1>2. /\ vstream' \in [VStreams -> {"live", "flagged", "gone"}]
      /\ marked_age' \in [VStreams -> 0..Oldest]
      /\ \A v \in VStreams : vstream'[v] = "gone" <=> vstream[v] = "gone"
  BY DEF CommitAdd, streams, IInv, TypeOK
<1>4. /\ link' = Put(link, links, "live")
      /\ link_age' = Put(link_age, links, request[r].age)
      /\ request' = [request EXCEPT ![r] = NoRequest]
      /\ UNCHANGED <<face, face_age, parent, caches, calls, history>>
  BY DEF CommitAdd
<1> HIDE DEF links
<1> QED BY <1>1, <1>2, <1>4, LinksChange

LEMMA CommitAddStreamStep ==
  ASSUME PromptCommits, LateCleanUp, IInv, NEW r \in Actors, CommitAddStream(r)
  PROVE  IInv'
<1> DEFINE links == Bound(request[r].v, request[r].d)
<1>1. request[r].v \in VStreams /\ 0 \in 0..Oldest
  BY ConstantsOK DEF CommitAddStream, InTrx, IInv, Aimed, Oldest
<1>2. /\ links \in SUBSET Links
      /\ \A l \in links : /\ InTable(l[2]) /\ parent[l[2]] = NoFace
                          /\ vstream[l[1]] # "gone"
  BY DEF CommitAddStream, InTrx, Bound, IInv, Aimed, Links, Faces, NoFace
<1>3. /\ vstream' \in [VStreams -> {"live", "flagged", "gone"}]
      /\ marked_age' \in [VStreams -> 0..Oldest]
      /\ \A v \in VStreams : vstream'[v] = "gone" <=> vstream[v] = "gone"
  BY <1>1, StreamMarked DEF CommitAddStream, IInv
<1>4. /\ link' = Put(link, links, "live")
      /\ link_age' = Put(link_age, links, request[r].age)
      /\ request' = [request EXCEPT ![r] = NoRequest]
      /\ UNCHANGED <<face, face_age, parent, caches, calls, history>>
  BY DEF CommitAddStream
<1> HIDE DEF links
<1> QED BY <1>2, <1>3, <1>4, LinksChange

LEMMA CommitRemoveStep ==
  ASSUME PromptCommits, LateCleanUp, IInv, NEW r \in Actors, CommitRemove(r)
  PROVE  IInv'
<1> DEFINE links == Unbound(request[r].v, request[r].d)
<1>1. /\ links \in SUBSET Links
      /\ \A l \in links : /\ InTable(l[2]) /\ parent[l[2]] = NoFace
                          /\ vstream[l[1]] # "gone"
  BY DEF Unbound, IInv, TypeOK, Genealogy
<1>2. /\ vstream' \in [VStreams -> {"live", "flagged", "gone"}]
      /\ marked_age' \in [VStreams -> 0..Oldest]
      /\ \A v \in VStreams : vstream'[v] = "gone" <=> vstream[v] = "gone"
  BY DEF CommitRemove, streams, IInv, TypeOK
<1>4. /\ link' = Put(link, links, "flagged")
      /\ link_age' = Put(link_age, links, request[r].age)
      /\ request' = [request EXCEPT ![r] = NoRequest]
      /\ UNCHANGED <<face, face_age, parent, caches, calls, history>>
  BY DEF CommitRemove
<1> HIDE DEF links
<1> QED BY <1>1, <1>2, <1>4, LinksChange

LEMMA CommitRemoveStreamStep ==
  ASSUME PromptCommits, LateCleanUp, IInv, NEW r \in Actors, CommitRemoveStream(r)
  PROVE  IInv'
<1> DEFINE links == LinksOfStream(request[r].v)
<1>1. /\ links \in SUBSET Links
      /\ \A l \in links : /\ InTable(l[2]) /\ parent[l[2]] = NoFace
                          /\ vstream[l[1]] # "gone"
  BY DEF LinksOfStream, IInv, TypeOK, Genealogy
<1>2. request[r].v \in VStreams /\ request[r].age \in 0..Oldest
  BY StampType DEF CommitRemoveStream, InTrx, IInv, Aimed
<1>3. /\ vstream' \in [VStreams -> {"live", "flagged", "gone"}]
      /\ marked_age' \in [VStreams -> 0..Oldest]
      /\ \A v \in VStreams : vstream'[v] = "gone" <=> vstream[v] = "gone"
  BY <1>2, StreamMarked DEF CommitRemoveStream, IInv
<1>4. /\ link' = Put(link, links, "flagged")
      /\ link_age' = Put(link_age, links, request[r].age)
      /\ request' = [request EXCEPT ![r] = NoRequest]
      /\ UNCHANGED <<face, face_age, parent, caches, calls, history>>
  BY DEF CommitRemoveStream
<1> HIDE DEF links
<1> QED BY <1>1, <1>3, <1>4, LinksChange

\* A deletion marks the links of a descriptor, its row, and the rows spawned
\* from it with one stamp.
LEMMA CommitDeleteStep ==
  ASSUME PromptCommits, LateCleanUp, IInv, NEW r \in Actors, CommitDelete(r)
  PROVE  IInv'
<1> DEFINE d == request[r].d
           rows == {x \in {d} : InTable(x)} \union SpawnedOf(d)
           links == LinksOf(d)
<1>1. d \in Faces /\ parent[d] = NoFace /\ face[d] # "none"
  BY DEF CommitDelete, InTrx, IInv, Aimed
<1>2. request[r].age \in 0..Oldest /\ request[r].age \in Nat /\ request[r].age <= MaxTrx
  BY StampType DEF IInv
<1>3. /\ request' \in [Actors -> Request]
      /\ \A q \in Actors : request'[q] = request[q] \/ request'[q].op = "none"
  BY EndedType DEF CommitDelete, IInv
<1>4. /\ rows \subseteq Faces
      /\ \A x \in rows : face[x] \in {"live", "flagged"}
      /\ \A x \in Faces : x \in rows <=>
           (face[x] \in {"live", "flagged"} /\ (x = d \/ parent[x] = d))
      /\ links \subseteq Links
      /\ \A l \in links : link[l] # "none"
  BY <1>1 DEF SpawnedOf, InTable, LinksOf
<1>5. /\ face' = Put(face, rows, "flagged")
      /\ face_age' = Put(face_age, rows, request[r].age)
      /\ link' = Put(link, links, "flagged")
      /\ link_age' = Put(link_age, links, request[r].age)
      /\ UNCHANGED <<streams, parent, caches, calls, history>>
  BY DEF CommitDelete
<1> HIDE DEF d, rows, links
<1>6. /\ face' \in [Faces -> {"none", "live", "flagged", "gone"}]
      /\ face_age' \in [Faces -> 0..Oldest]
      /\ \A x \in Faces :
           IF x \in rows THEN face'[x] = "flagged" /\ face_age'[x] = request[r].age
                         ELSE face'[x] = face[x] /\ face_age'[x] = face_age[x]
  BY <1>2, <1>5 DEF IInv, TypeOK, Put
<1>7. /\ link' \in [Links -> {"none", "live", "flagged"}]
      /\ link_age' \in [Links -> 0..Oldest]
      /\ \A l \in Links :
           IF l \in links THEN link'[l] = "flagged" /\ link_age'[l] = request[r].age
                          ELSE link'[l] = link[l] /\ link_age'[l] = link_age[l]
  BY <1>2, <1>5 DEF IInv, TypeOK, Put
<1>8. TypeOK'
  <2>1. \A x \in Faces : InTable(x)' <=> InTable(x)
    BY <1>4, <1>6 DEF InTable
  <2>2. \A l \in Links : l[2] \in Faces
    BY DEF Links
  <2>3. \A l \in Links : link'[l] # "none" => InTable(l[2])'
    BY <1>4, <1>7, <2>1, <2>2 DEF IInv, TypeOK
  <2>4. \A x \in Faces : InTable(x)' /\ parent'[x] # NoFace => InTable(parent[x])'
    <3>1. parent' = parent
      BY <1>5
    <3> QED BY <2>1, <3>1 DEF IInv, TypeOK
  <2>5. vstream' = vstream /\ marked_age' = marked_age
    BY <1>5 DEF streams
  <2>6. \A l \in Links : link'[l] # "none" => vstream[l[1]] # "gone"
    BY <1>4, <1>7 DEF IInv, TypeOK
  <2>7. /\ fd_cache' = fd_cache /\ vd_cache' = vd_cache /\ fd_since' = fd_since
        /\ vd_since' = vd_since /\ calls' = calls /\ parent' = parent
        /\ lost_faces' = lost_faces /\ lost_links' = lost_links
    BY <1>5 DEF caches, history
  <2> QED BY <1>3, <1>6, <1>7, <2>3, <2>4, <2>5, <2>6, <2>7 DEF IInv, TypeOK
<1>9. Genealogy'
  <2>1. \A x \in Faces : parent[x] # NoFace =>
          /\ parent[x] \in Faces /\ parent[parent[x]] = NoFace
          /\ x # d
          /\ parent[x] = d \/ parent[x] \notin rows
    BY <1>1, <1>4, ConstantsOK DEF IInv, Genealogy, TypeOK, Faces, NoFace
  <2>2. \A x \in Faces : face[x] = "none" \/ face[x] = "gone" => x \notin rows
    BY <1>4
  <2>3. \A x \in Faces : parent[x] # NoFace =>
          /\ face'[parent[x]] # "none"
          /\ face'[x] = "gone" => face'[parent[x]] = "gone"
    BY <1>4, <1>6, <2>1, <2>2 DEF IInv, Genealogy
  <2>4. \A x \in Faces : parent[x] # NoFace /\ face'[x] = "flagged" =>
          face'[parent[x]] = "flagged" /\ face_age'[x] = face_age'[parent[x]]
    <3> SUFFICES ASSUME NEW x \in Faces, parent[x] # NoFace, face'[x] = "flagged"
                 PROVE  face'[parent[x]] = "flagged" /\ face_age'[x] = face_age'[parent[x]]
      OBVIOUS
    <3>1. CASE x \in rows
      <4>1. parent[x] = d /\ InTable(x)
        BY <1>4, <2>1, <3>1 DEF InTable
      <4>2. d \in rows
        BY <1>1, <1>4, <4>1 DEF IInv, TypeOK, InTable
      <4> QED BY <1>1, <1>6, <3>1, <4>1, <4>2
    <3>2. CASE x \notin rows
      <4>1. face[x] = "flagged" /\ parent[x] # d
        BY <1>4, <1>6, <3>2
      <4> QED BY <1>6, <2>1, <3>2, <4>1 DEF IInv, Genealogy
    <3> QED BY <3>1, <3>2
  <2>5. \A x \in Faces : face'[x] = "none" => parent[x] = NoFace
    BY <1>6, <2>2 DEF IInv, Genealogy
  <2>6. \A l \in Links : link'[l] # "none" => parent[l[2]] = NoFace
    BY <1>4, <1>7 DEF IInv, Genealogy
  <2> QED BY <1>5, <2>1, <2>3, <2>4, <2>5, <2>6 DEF Genealogy
<1>10. Aimed'
  BY <1>3, <1>5, <1>6 DEF IInv, Aimed
<1>11. FdInv'
  <2>1. request[r].age <= fd_since + MaxTrx
    BY <1>2, ConstantsOK DEF IInv, TypeOK
  <2> QED BY <1>4, <1>5, <1>6, <2>1 DEF IInv, FdInv, caches, history
<1>12. VdInv'
  <2>1. request[r].age <= vd_since + MaxTrx
    BY <1>2, ConstantsOK DEF IInv, TypeOK
  <2>2. \A p \in vd_cache : p[2] \in Faces /\ Owner(p) \in Links /\ Owner(p)' = Owner(p)
    BY <1>5, OwnerType DEF Owner, Reported
  <2>3. \A p \in vd_cache : face'[p[2]] # "none"
    BY <1>6, <2>2 DEF IInv, VdInv
  <2>4. \A l \in lost_links : face'[l[2]] = "gone" \/ vstream'[l[1]] = "gone"
    <3>1. \A l \in lost_links : l[2] \in Faces /\ (face[l[2]] = "gone" \/ vstream[l[1]] = "gone")
      BY DEF IInv, TypeOK, VdInv, Links
    <3> QED BY <1>4, <1>5, <1>6, <3>1 DEF streams
  <2>5. vd_cache' = vd_cache /\ vd_since' = vd_since /\ lost_links' = lost_links
    BY <1>5 DEF caches, history
  <2> QED BY <1>7, <2>1, <2>2, <2>3, <2>4, <2>5 DEF IInv, VdInv
<1> QED BY <1>8, <1>9, <1>10, <1>11, <1>12 DEF IInv

-----------------------------------------------------------------------------
(* Maintenance                                                             *)

\* The configuration leaves no room between a cache and a row that is over.
LEMMA Margins ==
  ASSUME PromptCommits, LateCleanUp, TypeOK
  PROVE  /\ MaxTrx \in Nat /\ Correction \in Nat /\ MaxTrx <= Correction
         /\ fd_since \in Nat /\ fd_since + MaxTrx <= TTL
         /\ vd_since \in Nat /\ vd_since + MaxTrx <= TTL
BY ConstantsOK DEF PromptCommits, LateCleanUp, TypeOK

\* What maintenance deletes as marked is no longer in a cache: the crux of
\* CachesFirst.
LEMMA ExpiredNotCached ==
  ASSUME PromptCommits, LateCleanUp, IInv
  PROVE  /\ ExpiredFaces \intersect fd_cache = {}
         /\ \A p \in vd_cache : Owner(p) \in ExpiredLinks => Owner(p) \in lost_links
<1>1. /\ fd_since \in Nat /\ fd_since + MaxTrx <= TTL /\ TTL \in Nat /\ MaxTrx \in Nat
      /\ vd_since \in Nat /\ vd_since + MaxTrx <= TTL
  BY Margins, ConstantsOK DEF IInv
<1>2. \A d \in Faces : d \in fd_cache => d \notin ExpiredFaces
  <2> SUFFICES ASSUME NEW d \in Faces, d \in fd_cache, d \in ExpiredFaces PROVE FALSE
    OBVIOUS
  <2>1. face[d] = "flagged" /\ face_age[d] > TTL
    BY DEF ExpiredFaces, Over
  <2>2. face_age[d] <= fd_since + MaxTrx
    BY <2>1 DEF IInv, FdInv
  <2>3. face_age[d] \in Nat
    BY ConstantsOK DEF IInv, TypeOK, Oldest
  <2> QED BY <1>1, <2>1, <2>2, <2>3
<1>3. \A p \in vd_cache : Owner(p) \in ExpiredLinks => Owner(p) \in lost_links
  <2> SUFFICES ASSUME NEW p \in vd_cache, Owner(p) \in ExpiredLinks,
                      Owner(p) \notin lost_links
               PROVE  FALSE
    OBVIOUS
  <2>1. link[Owner(p)] = "flagged" /\ link_age[Owner(p)] > TTL
    BY DEF ExpiredLinks, Over
  <2>2. link_age[Owner(p)] <= vd_since + MaxTrx
    BY <2>1 DEF IInv, VdInv
  <2>3. link_age[Owner(p)] \in Nat
    BY OwnerType, ConstantsOK DEF IInv, TypeOK, Oldest
  <2> QED BY <1>1, <2>1, <2>2, <2>3
<1> QED BY <1>2, <1>3 DEF ExpiredFaces

LEMMA MaintenanceStep ==
  ASSUME PromptCommits, LateCleanUp, IInv, Maintenance
  PROVE  IInv'
<1> DEFINE D == DeletedFaces
           E == ExpiredFaces
           L == DeletedLinks
           X == ExpiredLinks
           S == ExpiredStreams
<1>1. /\ face' = Put(face, D, "gone") /\ face_age' = Put(face_age, D, 0)
      /\ link' = Put(link, L, "none") /\ link_age' = Put(link_age, L, 0)
      /\ vstream' = Put(vstream, S, "gone") /\ marked_age' = Put(marked_age, S, 0)
      /\ lost_faces' = lost_faces \union (D \ E)
      /\ lost_links' = lost_links \union (L \ X)
      /\ UNCHANGED <<parent, caches, request, calls>>
  BY DEF Maintenance
<1>2. /\ D \subseteq Faces
      /\ \A x \in Faces : x \in D <=>
           (x \in E \/ (InTable(x) /\ parent[x] \in E))
      /\ \A x \in E : x \in Faces /\ face[x] = "flagged"
      /\ \A x \in Faces : x \in E <=> Over(face[x], face_age[x])
  BY DEF DeletedFaces, ExpiredFaces, SpawnedOf, Over
<1>3. /\ L \subseteq Links
      /\ \A l \in Links : l[2] \in D /\ link[l] # "none" => l \in L
      /\ \A l \in Links : l[1] \in S /\ link[l] # "none" => l \in L
      /\ \A l \in L : l \in X \/ l[2] \in D \/ l[1] \in S
      /\ S \subseteq VStreams
  <2>1. S \subseteq VStreams
    BY DEF ExpiredStreams
  <2>2. /\ \A d : LinksOf(d) = {l \in Links : l[2] = d /\ link[l] # "none"}
        /\ \A v : LinksOfStream(v) = {l \in Links : l[1] = v /\ link[l] # "none"}
        /\ X \subseteq Links
    BY DEF LinksOf, LinksOfStream, ExpiredLinks
  <2>3. /\ X \subseteq L
        /\ \A d \in D : LinksOf(d) \subseteq L
        /\ \A v \in S : LinksOfStream(v) \subseteq L
    BY DEF DeletedLinks
  <2>4. ASSUME NEW l \in L, l \notin X, \A v \in S : l \notin LinksOfStream(v)
        PROVE  \E d \in D : l \in LinksOf(d)
    BY <2>4 DEF DeletedLinks
  <2> HIDE DEF D, E, L, X, S
  <2>6. \A l \in L : l \in Links /\ (l \in X \/ l[2] \in D \/ l[1] \in S)
    BY <2>2, <2>4
  <2>7. \A l \in Links : link[l] # "none" /\ l[2] \in D => l \in L
    BY <2>2, <2>3
  <2>8. \A l \in Links : link[l] # "none" /\ l[1] \in S => l \in L
    BY <2>2, <2>3
  <2> QED BY <2>1, <2>6, <2>7, <2>8
<1>4. /\ E \intersect fd_cache = {}
      /\ \A p \in vd_cache : Owner(p) \in X => Owner(p) \in lost_links
  BY ExpiredNotCached
<1> HIDE DEF D, E, L, X, S
<1>5. /\ face' \in [Faces -> {"none", "live", "flagged", "gone"}]
      /\ face_age' \in [Faces -> 0..Oldest]
      /\ \A x \in Faces :
           IF x \in D THEN face'[x] = "gone"
                      ELSE face'[x] = face[x] /\ face_age'[x] = face_age[x]
  BY <1>1, <1>2, ConstantsOK DEF IInv, TypeOK, Put, Oldest
<1>6. /\ link' \in [Links -> {"none", "live", "flagged"}]
      /\ link_age' \in [Links -> 0..Oldest]
      /\ \A l \in Links :
           IF l \in L THEN link'[l] = "none"
                      ELSE link'[l] = link[l] /\ link_age'[l] = link_age[l]
  BY <1>1, <1>3, ConstantsOK DEF IInv, TypeOK, Put, Oldest
<1>14. /\ vstream' \in [VStreams -> {"live", "flagged", "gone"}]
       /\ marked_age' \in [VStreams -> 0..Oldest]
       /\ \A v \in VStreams : vstream'[v] = IF v \in S THEN "gone" ELSE vstream[v]
  BY <1>1, <1>3, ConstantsOK DEF IInv, TypeOK, Put, Oldest
\* A family goes together.
<1>7. \A x \in Faces : parent[x] # NoFace =>
        /\ parent[x] \in Faces
        /\ x \in D => parent[x] \in D
        /\ parent[x] \in D /\ InTable(x) => x \in D
  <2> SUFFICES ASSUME NEW x \in Faces, parent[x] # NoFace
               PROVE  /\ parent[x] \in Faces
                      /\ x \in D => parent[x] \in D
                      /\ parent[x] \in D /\ InTable(x) => x \in D
    OBVIOUS
  <2>1. parent[x] \in Faces /\ parent[parent[x]] = NoFace
    BY DEF IInv, TypeOK, Genealogy
  <2>2. NoFace \notin E
    BY <1>2 DEF Faces, NoFace
  <2>3. x \in E => parent[x] \in E
    BY <1>2, <2>1 DEF IInv, Genealogy, Over
  <2>4. parent[x] \in D => parent[x] \in E
    BY <1>2, <2>1, <2>2
  <2> QED BY <1>2, <2>1, <2>3, <2>4
<1>8. \A x \in Faces : InTable(x)' <=> InTable(x) /\ x \notin D
  BY <1>5 DEF InTable
<1>9. TypeOK'
  <2>1. \A l \in Links : l[2] \in Faces /\ l[1] \in VStreams
    BY DEF Links
  <2>2. \A l \in Links : link'[l] # "none" => InTable(l[2])' /\ vstream'[l[1]] # "gone"
    BY <1>3, <1>6, <1>8, <1>14, <2>1 DEF IInv, TypeOK
  <2>3. \A x \in Faces : InTable(x)' /\ parent[x] # NoFace => InTable(parent[x])'
    <3> SUFFICES ASSUME NEW x \in Faces, InTable(x)', parent[x] # NoFace
                 PROVE  InTable(parent[x])'
      OBVIOUS
    <3>1. InTable(x) /\ x \notin D
      BY <1>8
    <3>2. InTable(parent[x]) /\ parent[x] \notin D /\ parent[x] \in Faces
      BY <1>7, <3>1 DEF IInv, TypeOK
    <3>3. face'[parent[x]] = face[parent[x]]
      BY <1>5, <3>2
    <3>4. parent' = parent
      BY <1>1
    <3> QED BY <3>2, <3>3, <3>4 DEF InTable
  <2> QED BY <1>1, <1>2, <1>3, <1>5, <1>6, <1>14, <2>2, <2>3 DEF IInv, TypeOK, caches
<1>10. Genealogy'
  <2>1. \A x \in Faces : parent[x] # NoFace =>
          /\ parent[parent[x]] = NoFace
          /\ face'[parent[x]] # "none"
    BY <1>5, <1>7 DEF IInv, Genealogy
  <2>2. \A x \in Faces : parent[x] # NoFace /\ face'[x] = "gone" => face'[parent[x]] = "gone"
    BY <1>5, <1>7 DEF IInv, Genealogy
  <2>3. \A x \in Faces : parent[x] # NoFace /\ face'[x] = "flagged" =>
          face'[parent[x]] = "flagged" /\ face_age'[x] = face_age'[parent[x]]
    BY <1>5, <1>7 DEF IInv, Genealogy, InTable
  <2>4. \A x \in Faces : face'[x] = "none" => parent[x] = NoFace
    BY <1>5 DEF IInv, Genealogy
  <2>5. \A l \in Links : link'[l] # "none" => parent[l[2]] = NoFace
    BY <1>6 DEF IInv, Genealogy
  <2> QED BY <1>1, <2>1, <2>2, <2>3, <2>4, <2>5 DEF Genealogy
<1>11. Aimed'
  BY <1>1, <1>5 DEF IInv, Aimed
<1>12. FdInv'
  BY <1>1, <1>4, <1>5 DEF IInv, FdInv, caches
<1>13. VdInv'
  <2>1. \A p \in vd_cache : p[2] \in Faces /\ Owner(p) \in Links /\ Owner(p)' = Owner(p)
    BY <1>1, OwnerType DEF Owner, Reported
  <2>2. \A p \in vd_cache : face'[p[2]] # "none"
    BY <1>5, <2>1 DEF IInv, VdInv
  <2>3. \A p \in vd_cache : Owner(p) \in L => Owner(p) \in lost_links'
    BY <1>1, <1>4
  <2>4. \A p \in vd_cache : Owner(p) \in lost_links => Owner(p) \in lost_links'
    BY <1>1
  <2>5. \A l \in lost_links' : face'[l[2]] = "gone" \/ vstream'[l[1]] = "gone"
    <3>1. \A l \in lost_links :
            /\ l[1] \in VStreams /\ l[2] \in Faces
            /\ face[l[2]] = "gone" \/ vstream[l[1]] = "gone"
      BY DEF IInv, TypeOK, VdInv, Links
    <3>2. \A l \in L \ X : l[1] \in VStreams /\ l[2] \in Faces /\ (l[2] \in D \/ l[1] \in S)
      BY <1>3 DEF Links
    <3> QED BY <1>1, <1>5, <1>14, <3>1, <3>2
  <2>6. vd_cache' = vd_cache /\ vd_since' = vd_since
    BY <1>1 DEF caches
  <2> QED BY <1>6, <2>1, <2>2, <2>3, <2>4, <2>5, <2>6 DEF IInv, VdInv
<1> QED BY <1>9, <1>10, <1>11, <1>12, <1>13 DEF IInv

-----------------------------------------------------------------------------
(* Updates of the caches                                                   *)

\* After an update the cache of descriptors holds those that are not marked,
\* and none that is marked.
LEMMA FdResult ==
  ASSUME PromptCommits, LateCleanUp, IInv, FdUpdate
  PROVE  /\ fd_cache' \subseteq Faces
         /\ LiveFaces \subseteq fd_cache'
         /\ \A d \in fd_cache' :
              face[d] = "live" \/ (face[d] = "gone" /\ d \in lost_faces')
<1>1. CASE FdFull
  <2>1. fd_cache' = LiveFaces
    BY <1>1 DEF FdFull, FdStart, FdAfter, LiveFaces, InTable
  <2> QED BY <2>1 DEF LiveFaces
<1>2. CASE FdIncremental
  <2> DEFINE rows == {d \in Faces : InTable(d) /\ Recent(face_age[d], fd_since)}
  <2>1. /\ fd_cache' = (fd_cache \ {d \in rows : face[d] = "flagged"})
                         \union {d \in rows : face[d] = "live"}
        /\ lost_faces' = lost_faces
    BY <1>2 DEF FdIncremental, FdAfter, history
  <2>2. \A d \in Faces : InTable(d) /\ face_age[d] <= fd_since + MaxTrx => d \in rows
    <3>1. MaxTrx \in Nat /\ Correction \in Nat /\ MaxTrx <= Correction /\ fd_since \in Nat
      BY Margins DEF IInv
    <3>2. \A d \in Faces : face_age[d] \in Nat
      BY ConstantsOK DEF IInv, TypeOK, Oldest
    <3> QED BY <3>1, <3>2 DEF Recent
  <2>3. \A d \in Faces : face[d] = "live" => d \in fd_cache'
    BY <2>1, <2>2 DEF IInv, FdInv, InTable
  <2>4. fd_cache' \subseteq Faces
    BY <2>1 DEF IInv, TypeOK
  <2>5. \A d \in fd_cache' : face[d] = "live" \/ (face[d] = "gone" /\ d \in lost_faces')
    <3> SUFFICES ASSUME NEW d \in fd_cache', face[d] # "live"
                 PROVE  face[d] = "gone" /\ d \in lost_faces'
      OBVIOUS
    <3>1. d \in Faces /\ d \in fd_cache /\ ~(d \in rows /\ face[d] = "flagged")
      BY <2>1, <2>4
    <3>2. face[d] # "flagged"
      BY <2>2, <3>1 DEF IInv, FdInv, InTable
    <3>3. face[d] = "gone"
      BY <3>1, <3>2 DEF IInv, FdInv, TypeOK
    <3> QED BY <2>1, <3>1, <3>3 DEF IInv, FdInv
  <2> QED BY <2>3, <2>4, <2>5 DEF LiveFaces
<1> QED BY <1>1, <1>2 DEF FdUpdate

LEMMA FdUpdateStep ==
  ASSUME PromptCommits, LateCleanUp, IInv, FdUpdate
  PROVE  IInv'
<1>1. /\ fd_cache' \subseteq Faces
      /\ LiveFaces \subseteq fd_cache'
      /\ \A d \in fd_cache' :
           face[d] = "live" \/ (face[d] = "gone" /\ d \in lost_faces')
  BY FdResult
<1>2. /\ UNCHANGED <<tables, vd_cache, vd_since, request, calls, lost_links>>
      /\ fd_since' = 0
      /\ lost_faces' \subseteq Faces
  BY DEF FdUpdate, FdFull, FdIncremental, history, IInv, TypeOK
<1>3. TypeOK'
  BY <1>1, <1>2, ConstantsOK DEF IInv, TypeOK, InTable, tables, streams
<1>4. Genealogy' /\ Aimed'
  BY <1>2 DEF IInv, Genealogy, Aimed, tables
<1>5. FdInv'
  BY <1>1, <1>2 DEF FdInv, LiveFaces, tables
<1>6. VdInv'
  BY <1>2 DEF IInv, VdInv, Owner, Reported, tables, streams
<1> QED BY <1>3, <1>4, <1>5, <1>6 DEF IInv

\* The pairs that go with a link are those it owns.
LEMMA PairsOfLink ==
  ASSUME IInv, NEW l \in Links, link[l] # "none"
  PROVE  /\ l \in InsertedPairs(l)
         /\ \A p \in InsertedPairs(l) :
              p \in Links /\ face[p[2]] # "none" /\ Owner(p) = l
<1>1. l = <<l[1], l[2]>> /\ l[1] \in VStreams /\ l[2] \in Faces
  BY DEF Links
<1>2. InTable(l[2]) /\ parent[l[2]] = NoFace
  BY DEF IInv, TypeOK, Genealogy
<1>3. Owner(l) = l /\ face[l[2]] # "none"
  BY <1>1, <1>2 DEF Owner, Reported, InTable
<1>4. ASSUME NEW s \in SpawnedOf(l[2])
      PROVE  /\ <<l[1], s>> \in Links /\ face[s] # "none"
             /\ Owner(<<l[1], s>>) = l
  <2>1. s \in Faces /\ InTable(s) /\ parent[s] = l[2] /\ l[2] # NoFace
    BY <1>1 DEF SpawnedOf, Faces, NoFace
  <2> QED BY <1>1, <2>1 DEF Links, InTable, Owner, Reported
<1> QED BY <1>3, <1>4 DEF InsertedPairs

\* A pair whose owner is in the table is one of those that go with it: a
\* spawned descriptor does not vanish before its parent.
LEMMA PairGoesAlong ==
  ASSUME IInv, NEW p \in vd_cache, link[Owner(p)] # "none"
  PROVE  p \in ErasedPairs(Owner(p))
<1>1. /\ p \in Links /\ p[1] \in VStreams /\ p[2] \in Faces
      /\ Reported(p[2]) \in Faces /\ Owner(p) \in Links
      /\ Owner(p)[1] = p[1] /\ Owner(p)[2] = Reported(p[2])
  BY OwnerType
<1>2. p = <<p[1], p[2]>>
  BY <1>1 DEF Links
<1>3. CASE parent[p[2]] = NoFace
  BY <1>2, <1>3 DEF Owner, Reported, ErasedPairs
<1>4. CASE parent[p[2]] # NoFace
  <2>1. Reported(p[2]) = parent[p[2]]
    BY <1>4 DEF Reported
  <2>2. InTable(parent[p[2]])
    BY <1>1, <2>1 DEF IInv, TypeOK
  <2>3. InTable(p[2])
    <3>1. face[p[2]] # "none"
      BY DEF IInv, VdInv
    <3>2. face[p[2]] # "gone"
      BY <1>1, <1>4, <2>2 DEF IInv, Genealogy, InTable
    <3> QED BY <1>1, <3>1, <3>2 DEF IInv, TypeOK, InTable
  <2>4. p[2] \in SpawnedOf(Owner(p)[2])
    BY <1>1, <2>1, <2>3 DEF SpawnedOf
  <2> QED BY <1>1, <1>2, <2>4 DEF ErasedPairs
<1> QED BY <1>3, <1>4

\* After an update the cache of links holds those that are not marked, and
\* otherwise only pairs that go with one of them.
LEMMA VdResult ==
  ASSUME PromptCommits, LateCleanUp, IInv, VdUpdate
  PROVE  /\ vd_cache' \subseteq Links
         /\ LiveLinks \subseteq vd_cache'
         /\ \A p \in vd_cache' :
              face[p[2]] # "none"
              /\ (link[Owner(p)] = "live" \/ Owner(p) \in lost_links')
<1>1. CASE VdFull
  <2>1. vd_cache' = UNION {InsertedPairs(l) : l \in LiveLinks}
    BY <1>1 DEF VdFull, VdAfter, LiveLinks
  <2>2. \A l \in LiveLinks :
          /\ l \in InsertedPairs(l)
          /\ \A p \in InsertedPairs(l) :
               p \in Links /\ face[p[2]] # "none" /\ link[Owner(p)] = "live"
    BY PairsOfLink DEF LiveLinks
  <2> QED BY <2>1, <2>2
<1>2. CASE VdIncremental
  <2> DEFINE rows == {l \in Links : link[l] # "none" /\ Recent(link_age[l], vd_since)}
             out == {l \in rows : link[l] = "flagged"}
             in == {l \in rows : link[l] = "live"}
  <2>1. /\ vd_cache' = (vd_cache \ UNION {ErasedPairs(l) : l \in out})
                         \union UNION {InsertedPairs(l) : l \in in}
        /\ lost_links' = lost_links
    BY <1>2 DEF VdIncremental, VdAfter, history
  <2>2. \A l \in Links : link[l] # "none" /\ link_age[l] <= vd_since + MaxTrx => l \in rows
    <3>1. MaxTrx \in Nat /\ Correction \in Nat /\ MaxTrx <= Correction /\ vd_since \in Nat
      BY Margins DEF IInv
    <3>2. \A l \in Links : link_age[l] \in Nat
      BY ConstantsOK DEF IInv, TypeOK, Oldest
    <3> QED BY <3>1, <3>2 DEF Recent
  <2>3. \A l \in in :
          /\ l \in InsertedPairs(l)
          /\ \A p \in InsertedPairs(l) :
               p \in Links /\ face[p[2]] # "none" /\ link[Owner(p)] = "live"
    BY PairsOfLink
  <2>4. ASSUME NEW p \in vd_cache, \A l \in out : p \notin ErasedPairs(l)
        PROVE  link[Owner(p)] = "live" \/ Owner(p) \in lost_links
    <3> SUFFICES ASSUME link[Owner(p)] = "flagged",
                        link_age[Owner(p)] <= vd_since + MaxTrx
                 PROVE  FALSE
      BY DEF IInv, VdInv
    <3>1. Owner(p) \in out
      BY <2>2, OwnerType
    <3> QED BY <2>4, <3>1, PairGoesAlong
  <2>5. ASSUME NEW l \in Links, link[l] = "live" PROVE l \in vd_cache'
    <3>1. CASE l \in in
      BY <2>1, <2>3, <3>1
    <3>2. CASE l \notin in
      <4>1. l \in vd_cache
        BY <2>2, <2>5, <3>2 DEF IInv, VdInv
      <4>2. Owner(l) = l
        BY <2>5, PairsOfLink
      <4>3. ASSUME NEW k \in out, l \in ErasedPairs(k) PROVE FALSE
        <5>1. l \in InsertedPairs(k) /\ k \in Links /\ link[k] # "none"
          BY <4>3 DEF ErasedPairs, InsertedPairs
        <5>2. Owner(l) = k
          BY <5>1, PairsOfLink
        <5> QED BY <2>5, <4>2, <5>2
      <4> QED BY <2>1, <4>1, <4>3
    <3> QED BY <3>1, <3>2
  <2>6. vd_cache' \subseteq Links
    BY <2>1, <2>3 DEF IInv, TypeOK
  <2>7. ASSUME NEW p \in vd_cache'
        PROVE  face[p[2]] # "none" /\ (link[Owner(p)] = "live" \/ Owner(p) \in lost_links')
    <3>1. CASE \E l \in in : p \in InsertedPairs(l)
      BY <2>3, <3>1
    <3>2. CASE ~\E l \in in : p \in InsertedPairs(l)
      <4>1. p \in vd_cache /\ \A l \in out : p \notin ErasedPairs(l)
        BY <2>1, <3>2
      <4> QED BY <2>1, <2>4, <4>1 DEF IInv, VdInv
    <3> QED BY <3>1, <3>2
  <2> QED BY <2>5, <2>6, <2>7 DEF LiveLinks
<1> QED BY <1>1, <1>2 DEF VdUpdate

LEMMA VdUpdateStep ==
  ASSUME PromptCommits, LateCleanUp, IInv, VdUpdate
  PROVE  IInv'
<1>1. /\ vd_cache' \subseteq Links
      /\ LiveLinks \subseteq vd_cache'
      /\ \A p \in vd_cache' :
           face[p[2]] # "none"
           /\ (link[Owner(p)] = "live" \/ Owner(p) \in lost_links')
  BY VdResult
<1>2. /\ UNCHANGED <<tables, fd_cache, fd_since, request, calls, lost_faces>>
      /\ vd_since' = 0
      /\ lost_links' \subseteq Links
  BY DEF VdUpdate, VdFull, VdIncremental, history, IInv, TypeOK
<1>3. TypeOK'
  BY <1>1, <1>2, ConstantsOK DEF IInv, TypeOK, InTable, tables, streams
<1>4. Genealogy' /\ Aimed'
  BY <1>2 DEF IInv, Genealogy, Aimed, tables
<1>5. FdInv'
  BY <1>2 DEF IInv, FdInv, tables
<1>6. VdInv'
  <2>1. \A p : Owner(p)' = Owner(p)
    BY <1>2 DEF Owner, Reported, tables
  <2>2. \A l \in lost_links' : face[l[2]] = "gone" \/ vstream[l[1]] = "gone"
    <3>1. lost_links' \subseteq lost_links
      BY DEF VdUpdate, VdFull, VdIncremental, history
    <3> QED BY <3>1 DEF IInv, VdInv
  <2> QED BY <1>1, <1>2, <2>1, <2>2 DEF VdInv, LiveLinks, tables, streams
<1> QED BY <1>3, <1>4, <1>5, <1>6 DEF IInv

-----------------------------------------------------------------------------
(* Time, and the theorems                                                  *)

\* Rows grow older by a tick at most, and caches by just one.
LEMMA TickStep ==
  ASSUME IInv, Tick
  PROVE  IInv'
<1>1. \A r \in Actors :
        /\ request'[r] \in Request
        /\ request'[r].op = request[r].op
        /\ request'[r].v = request[r].v
        /\ request'[r].d = request[r].d
  <2> SUFFICES ASSUME NEW r \in Actors
               PROVE  /\ request'[r] \in Request
                      /\ request'[r].op = request[r].op
                      /\ request'[r].v = request[r].v
                      /\ request'[r].d = request[r].d
    OBVIOUS
  <2>1. request[r] \in Request
    BY DEF IInv, TypeOK
  <2>2. CASE request[r].trx
    <3>1. request'[r] = [request[r] EXCEPT !.age = @ + 1] /\ request[r].age < MaxTrx
      BY <2>2 DEF Tick
    <3>2. request[r].age + 1 \in 0..MaxTrx
      BY <2>1, <3>1, ConstantsOK DEF Request
    <3> QED BY <2>1, <3>1, <3>2 DEF Request
  <2>3. CASE ~request[r].trx
    <3>1. request'[r] = request[r]
      BY <2>3 DEF Tick
    <3> QED BY <2>1, <3>1
  <2> QED BY <2>2, <2>3
<1>2. request' \in [Actors -> Request]
  <2>1. DOMAIN request' = Actors /\ request' = [r \in Actors |-> request'[r]]
    BY DEF Tick
  <2> QED BY <1>1, <2>1
<1>3. \A age \in 0..Oldest : Older(age) \in 0..Oldest /\ Older(age) <= age + 1
  BY ConstantsOK DEF Older, Oldest
<1>4. /\ face_age' \in [Faces -> 0..Oldest]
      /\ link_age' \in [Links -> 0..Oldest]
  BY <1>3, ConstantsOK DEF Tick, IInv, TypeOK, Oldest
<1>15. vstream' = vstream /\ marked_age' \in [VStreams -> 0..Oldest]
  BY <1>3, ConstantsOK DEF Tick, IInv, TypeOK, Oldest
<1>5. /\ \A d \in Faces : InTable(d) => face_age'[d] = Older(face_age[d])
      /\ \A l \in Links : link[l] # "none" => link_age'[l] = Older(link_age[l])
  BY DEF Tick
<1>6. /\ \A d \in Faces : InTable(d) => face_age'[d] <= face_age[d] + 1
      /\ \A l \in Links : link[l] # "none" => link_age'[l] <= link_age[l] + 1
  BY <1>3, <1>5 DEF IInv, TypeOK
<1>7. /\ fd_since \in Nat /\ fd_since' = fd_since + 1 /\ fd_since' \in 0..MaxSince
      /\ vd_since \in Nat /\ vd_since' = vd_since + 1 /\ vd_since' \in 0..MaxSince
  BY ConstantsOK DEF Tick, IInv, TypeOK
<1>8. UNCHANGED <<face, parent, link, fd_cache, vd_cache, calls, lost_faces, lost_links>>
  BY DEF Tick, history
<1>9. TypeOK'
  BY <1>2, <1>4, <1>7, <1>8, <1>15 DEF IInv, TypeOK, InTable
<1>10. Genealogy'
  BY <1>5, <1>8 DEF IInv, Genealogy, TypeOK, InTable
<1>11. Aimed'
  BY <1>1, <1>8 DEF IInv, Aimed
<1>12. /\ \A d \in Faces : face_age[d] \in Nat /\ face_age'[d] \in Nat
       /\ \A l \in Links : link_age[l] \in Nat /\ link_age'[l] \in Nat
       /\ MaxTrx \in Nat
  BY <1>4, ConstantsOK DEF IInv, TypeOK, Oldest
<1>13. FdInv'
  <2>1. \A d \in Faces : InTable(d) /\ face_age[d] <= fd_since + MaxTrx =>
                         face_age'[d] <= fd_since' + MaxTrx
    BY <1>6, <1>7, <1>12
  <2> QED BY <1>8, <2>1 DEF IInv, FdInv, InTable
<1>14. VdInv'
  <2>1. \A l \in Links : link[l] # "none" /\ link_age[l] <= vd_since + MaxTrx =>
                         link_age'[l] <= vd_since' + MaxTrx
    BY <1>6, <1>7, <1>12
  <2>2. \A p \in vd_cache : Owner(p) \in Links /\ Owner(p)' = Owner(p)
    BY <1>8, OwnerType DEF Owner, Reported
  <2> QED BY <1>8, <1>15, <2>1, <2>2 DEF IInv, VdInv
<1> QED BY <1>9, <1>10, <1>11, <1>13, <1>14 DEF IInv

LEMMA NextInv ==
  ASSUME PromptCommits, LateCleanUp, IInv, [Next]_vars
  PROVE  IInv'
<1>1. ASSUME NEW r \in Requests, Call(r) PROVE IInv'
  BY <1>1, CallStep
<1>2. ASSUME NEW r \in Tasks, NEW v \in VStreams, NEW d \in Faces, Recognise(r, v, d)
      PROVE  IInv'
  BY <1>2, RecogniseStep
<1>3. ASSUME NEW r \in Actors, Step(r) PROVE IInv'
  BY <1>3, BeginStep, CommitNewStep, CommitSpawnedStep, CommitAddStep,
     CommitAddStreamStep, CommitRemoveStreamStep, CommitRemoveStep, CommitDeleteStep, RollbackStep DEF Step
<1>4. CASE Maintenance
  BY <1>4, MaintenanceStep
<1>5. CASE FdUpdate
  BY <1>5, FdUpdateStep
<1>6. CASE VdUpdate
  BY <1>6, VdUpdateStep
<1>7. CASE Tick
  BY <1>7, TickStep
<1>8. CASE UNCHANGED vars
  <2>1. UNCHANGED <<tables, caches, history, request, calls>>
    BY <1>8 DEF vars
  <2>2. Genealogy' /\ FdInv' /\ VdInv'
    BY <2>1, TablesKept
  <2>3. TypeOK' /\ Aimed'
    BY <2>1 DEF IInv, TypeOK, InTable, Aimed, tables, streams, caches, history
  <2> QED BY <2>2, <2>3 DEF IInv
<1> QED BY <1>1, <1>2, <1>3, <1>4, <1>5, <1>6, <1>7, <1>8 DEF Next

\* With prompt commits and late clean-up the invariant always holds.
THEOREM Invariance ==
  ASSUME PromptCommits, LateCleanUp
  PROVE  Spec => []IInv
<1>1. IInv /\ [Next]_vars => IInv'
  BY NextInv
<1> QED BY InitInv, <1>1, PTL DEF Spec

\* The variables have their types, and the foreign keys hold.
THEOREM TypeCorrect ==
  ASSUME PromptCommits, LateCleanUp
  PROVE  Spec => []TypeOK
<1>1. IInv => TypeOK
  BY DEF IInv
<1> QED BY Invariance, <1>1, PTL

\* Recognition and registration answer with linked descriptors, or with ones
\* whose link was removed since the last update of the cache.
THEOREM Reported_IsLinked ==
  ASSUME PromptCommits, LateCleanUp
  PROVE  Spec => []ReportedIsLinked
<1>1. IInv => ReportedIsLinked
  BY DEF IInv, VdInv, ReportedIsLinked, Candidates, Owner
<1> QED BY Invariance, <1>1, PTL

\* Every update of the descriptor cache catches up with the table.
THEOREM Fd_CatchesUp ==
  ASSUME PromptCommits, LateCleanUp
  PROVE  Spec => FdCatchesUp
<1>1. ASSUME IInv, FdUpdate
      PROVE  LiveFaces \subseteq fd_cache' /\ fd_cache' \ lost_faces' \subseteq LiveFaces
  <2>1. /\ fd_cache' \subseteq Faces /\ LiveFaces \subseteq fd_cache'
        /\ \A d \in fd_cache' :
             face[d] = "live" \/ (face[d] = "gone" /\ d \in lost_faces')
    BY <1>1, FdResult
  <2> QED BY <2>1 DEF LiveFaces
<1>2. IInv /\ [Next]_vars =>
        [FdUpdate => LiveFaces \subseteq fd_cache'
                     /\ fd_cache' \ lost_faces' \subseteq LiveFaces]_vars
  BY <1>1
<1> QED BY Invariance, <1>2, PTL DEF Spec, FdCatchesUp

\* Every update of the link cache catches up with the table.
THEOREM Vd_CatchesUp ==
  ASSUME PromptCommits, LateCleanUp
  PROVE  Spec => VdCatchesUp
<1>1. ASSUME IInv, VdUpdate
      PROVE  /\ LiveLinks \subseteq vd_cache'
             /\ \A l \in vd_cache' :
                  <<l[1], Reported(l[2])>> \in LiveLinks \union lost_links'
  <2>1. /\ vd_cache' \subseteq Links /\ LiveLinks \subseteq vd_cache'
        /\ \A p \in vd_cache' :
             face[p[2]] # "none" /\ (link[Owner(p)] = "live" \/ Owner(p) \in lost_links')
    BY <1>1, VdResult
  <2>2. ASSUME NEW p \in vd_cache' PROVE Owner(p) \in Links
    <3>1. p[1] \in VStreams /\ p[2] \in Faces
      BY <2>1 DEF Links
    <3>2. Reported(p[2]) \in Faces
      BY <2>1, <3>1, <1>1, ReportedType DEF IInv
    <3> QED BY <3>1, <3>2 DEF Owner, Links
  <2> QED BY <2>1, <2>2 DEF LiveLinks, Owner
<1>2. IInv /\ [Next]_vars =>
        [VdUpdate => /\ LiveLinks \subseteq vd_cache'
                     /\ \A l \in vd_cache' :
                          <<l[1], Reported(l[2])>> \in LiveLinks \union lost_links']_vars
  BY <1>1
<1> QED BY Invariance, <1>2, PTL DEF Spec, VdCatchesUp

\* No marked row is removed while a cache still holds it, cascades apart.
THEOREM Caches_First ==
  ASSUME PromptCommits, LateCleanUp
  PROVE  Spec => CachesFirst
<1>1. IInv => ExpiredFaces \intersect fd_cache = {}
  BY ExpiredNotCached
<1>2. IInv => ExpiredLinks \intersect vd_cache = {}
  <2> SUFFICES ASSUME IInv, NEW l \in ExpiredLinks, l \in vd_cache PROVE FALSE
    BY DEF ExpiredLinks
  <2>1. l \in Links /\ link[l] = "flagged"
    BY DEF ExpiredLinks, Over
  <2>2. Owner(l) = l
    BY <2>1, PairsOfLink
  <2>3. l \in lost_links
    BY <2>2, ExpiredNotCached
  <2>4. /\ InTable(l[2]) /\ vstream[l[1]] # "gone"
        /\ face[l[2]] = "gone" \/ vstream[l[1]] = "gone"
    BY <2>1, <2>3 DEF IInv, TypeOK, VdInv
  <2> QED BY <2>4 DEF InTable
<1>3. IInv /\ [Next]_vars =>
        [Maintenance => ExpiredFaces \intersect fd_cache = {}
                        /\ ExpiredLinks \intersect vd_cache = {}]_vars
  BY <1>1, <1>2
<1> QED BY Invariance, <1>3, PTL DEF Spec, CachesFirst

\* Each cache is right after each of its updates.
THEOREM Caches_CatchUp ==
  ASSUME PromptCommits, LateCleanUp
  PROVE  Spec => CachesCatchUp
BY Fd_CatchesUp, Vd_CatchesUp DEF CachesCatchUp
=============================================================================
