-------------------------- MODULE FrsSpecialGroups --------------------------
(***************************************************************************)
(* Special groups of FRS.  A group is made by the host and then used with  *)
(* a token of its own: faces are registered in it and deleted, the token   *)
(* is renewed.  Recognition looks in every frame for the faces of every    *)
(* group.  What is deleted is marked first and removed by a periodic task, *)
(* with its rows that refer to it.                                         *)
(*                                                                         *)
(* Three caches stand between the tables and their users: the groups with  *)
(* their tokens, read whole; the faces of groups, and all descriptors,     *)
(* where an update reads the rows changed since the last one and now and   *)
(* then all of them.  Their timing against transactions is the subject of  *)
(* FrsFaces: here an update reads what has been committed, and the time to *)
(* live of a marked row is longer than the time between two updates.       *)
(*                                                                         *)
(* A face, here, is a call of sgRegisterFace and the descriptor it leads   *)
(* to.  sgUpdateGroup always fails (its statement says "set" twice); names *)
(* and the maximum number of descriptors, which nothing looks at, are left *)
(* out.                                                                    *)
(***************************************************************************)
EXTENDS Integers

CONSTANTS
  Groups,    \* special groups of one group of streams
  Faces,     \* calls of sgRegisterFace
  MaxToken   \* tokens a group may have (a bound)

ASSUME GroupsConstants == MaxToken \in Nat \ {0} /\ Groups # {}

NoToken == 0
Tokens == 1..MaxToken

VARIABLES
  group,     \* row of special_groups
  token,     \* its sg_api_token
  face,      \* row of face_descriptors, or the call that will insert it
  link,      \* row of link_descriptor_sgroup
  owner,     \* the group a face is registered in
  sgc,       \* sg_config_cache_: the tokens of groups
  sgd,       \* sg_descriptors_cache_: faces of groups
  fd,        \* face_descriptor_cache_
  late,      \* history: faces inserted when their group was marked
  lost_sgc,  \* history: groups removed since sgc was read
  lost_fd    \* history: faces that left their group since fd was updated

tables == <<group, token, face, link, owner>>
lost == <<lost_sgc, lost_fd>>
caches == <<sgc, sgd, fd>>
vars == <<tables, caches, late, lost>>

TypeOK ==
  /\ group \in [Groups -> {"new", "live", "marked", "gone"}]
  /\ token \in [Groups -> Tokens \union {NoToken}]
  /\ face \in [Faces -> {"new", "called", "failed", "live", "marked", "gone"}]
  /\ link \in [Faces -> {"none", "live", "marked", "gone"}]
  /\ owner \in [Faces -> Groups]
  /\ sgc \in [Groups -> Tokens \union {NoToken}]
  /\ sgd \subseteq Faces /\ fd \subseteq Faces
  /\ late \subseteq Faces
  /\ lost_sgc \subseteq Groups /\ lost_fd \subseteq Faces

Init ==
  /\ group = [g \in Groups |-> "new"]
  /\ token = [g \in Groups |-> NoToken]
  /\ face = [f \in Faces |-> "new"]
  /\ link = [f \in Faces |-> "none"]
  /\ owner = [f \in Faces |-> CHOOSE g \in Groups : TRUE]
  /\ sgc = [g \in Groups |-> NoToken]
  /\ sgd = {} /\ fd = {} /\ late = {}
  /\ lost_sgc = {} /\ lost_fd = {}

-----------------------------------------------------------------------------
InTable(g) == group[g] \in {"live", "marked"}
Linked(f) == link[f] \in {"live", "marked"}

\* checkSGToken
Accepted(g, t) == sgc[g] = t /\ t # NoToken

\* A token in force: the one of a group that has not been deleted.
InForce(g, t) == group[g] = "live" /\ token[g] = t

Member(f) == face[f] = "live" /\ link[f] = "live"

\* The pairs that recognition looks at: mapped groups of sgc, their faces in
\* sgd, those of them in fd.
Recognisable(f) == sgc[owner[f]] # NoToken /\ f \in sgd /\ f \in fd

\* Faces that leave their group in this step.
LeaveFaces ==
  lost_fd' = lost_fd \union {f \in Faces : Member(f) /\ ~Member(f)'}

-----------------------------------------------------------------------------
(* Methods of the host. *)

AddGroup(g) ==
  /\ group[g] = "new"
  /\ group' = [group EXCEPT ![g] = "live"]
  /\ token' = [token EXCEPT ![g] = 1]
  /\ UNCHANGED <<face, link, owner, caches, late, lost>>

\* Mutant: the links, which have just been marked, are taken for deleted.
FacesOfFaulty(g) == {f \in Faces : owner[f] = g /\ link[f] = "gone"}

\* The descriptors that SQL_REMOVE_SG_FACE_DESCRIPTORS finds through links.
FacesOf(g) == {f \in Faces : owner[f] = g /\ Linked(f)}

\* deleteSpecialGroup: links, descriptors and the group are marked in one
\* transaction.
DeleteGroup(g) ==
  /\ InTable(g)
  /\ group' = [group EXCEPT ![g] = "marked"]
  /\ link' = [f \in Faces |->
                IF owner[f] = g /\ Linked(f) THEN "marked" ELSE link[f]]
  /\ face' = [f \in Faces |-> IF f \in FacesOf(g) THEN "marked" ELSE face[f]]
  /\ UNCHANGED <<token, owner, caches, late, lost_sgc>>
  /\ LeaveFaces

\* deleteFaces of the host marks any descriptor, its link to a group not.
DeleteFace(f) ==
  /\ face[f] \in {"live", "marked"}
  /\ face' = [face EXCEPT ![f] = "marked"]
  /\ UNCHANGED <<group, token, link, owner, caches, late, lost_sgc>>
  /\ LeaveFaces

-----------------------------------------------------------------------------
(* Methods of a special group, with a token that sgc has. *)

\* sgRegisterFace: the token is accepted; the image is fetched and looked at.
BeginRegister(f, g, t) ==
  /\ face[f] = "new"
  /\ Accepted(g, t)
  /\ face' = [face EXCEPT ![f] = "called"]
  /\ owner' = [owner EXCEPT ![f] = g]
  /\ UNCHANGED <<group, token, link, caches, late, lost>>

\* addSGroupFaceDescriptor: the group is looked up in sgc once more; descriptor
\* and link are inserted in one transaction, marked group or not.
Register(f) ==
  /\ face[f] = "called"
  /\ sgc[owner[f]] # NoToken
  /\ InTable(owner[f])
  /\ face' = [face EXCEPT ![f] = "live"]
  /\ link' = [link EXCEPT ![f] = "live"]
  /\ late' = IF group[owner[f]] = "marked" THEN late \union {f} ELSE late
  /\ UNCHANGED <<group, token, owner, caches, lost>>

\* No face is found, it is known already, or the group is gone from the cache
\* or the table (the key of the link refers to it).
RegisterFails(f) ==
  /\ face[f] = "called"
  /\ face' = [face EXCEPT ![f] = "failed"]
  /\ UNCHANGED <<group, token, link, owner, caches, late, lost>>

\* sgDeleteFaces: the link is marked, then the descriptor that has a link.
SgDeleteFace(f, t) ==
  /\ Accepted(owner[f], t)
  /\ Linked(f)
  /\ link' = [link EXCEPT ![f] = "marked"]
  /\ face' = [face EXCEPT ![f] = "marked"]
  /\ UNCHANGED <<group, token, owner, caches, late, lost_sgc>>
  /\ LeaveFaces

\* sgRenewToken, of a marked group, too.
RenewToken(g, t) ==
  /\ Accepted(g, t)
  /\ InTable(g)
  /\ token[g] < MaxToken
  /\ token' = [token EXCEPT ![g] = token[g] + 1]
  /\ UNCHANGED <<group, face, link, owner, caches, late, lost>>

-----------------------------------------------------------------------------
(* Maintenance and caches. *)

\* Marked rows whose time to live is over: that long after they were marked
\* the caches have read them.
ExpiredGroups(G) == {g \in G : group[g] = "marked"}
ExpiredFaces(F) == {f \in F \ fd : face[f] = "marked"}
ExpiredLinks(L) == {f \in L \ sgd : link[f] = "marked"}

\* doFlagDeletedMaintenance, in one transaction; a link goes with its face and
\* with its group.
Maintenance(G, F, L) ==
  /\ group' = [g \in Groups |-> IF g \in ExpiredGroups(G) THEN "gone" ELSE group[g]]
  /\ face' = [f \in Faces |-> IF f \in ExpiredFaces(F) THEN "gone" ELSE face[f]]
  /\ link' = [f \in Faces |->
                IF Linked(f) /\ \/ f \in ExpiredLinks(L) \union ExpiredFaces(F)
                                \/ owner[f] \in ExpiredGroups(G)
                THEN "gone" ELSE link[f]]
  /\ lost_sgc' = lost_sgc \union ExpiredGroups(G)
  /\ UNCHANGED <<token, owner, caches, late>>
  /\ LeaveFaces

\* Mutant: what is not in the table stays in the cache.
SgcAfterFaulty(g) == IF InTable(g) THEN token[g] ELSE sgc[g]

\* The whole table, rows marked for deletion included, replaces the cache.
SgcAfter(g) == IF InTable(g) THEN token[g] ELSE NoToken

SgcReload ==
  /\ sgc' = [g \in Groups |-> SgcAfter(g)]
  /\ lost_sgc' = {}
  /\ UNCHANGED <<tables, sgd, fd, late, lost_fd>>

\* Mutant: a live row is not inserted.
SgdAfterFaulty(old) == old \ {f \in Faces : link[f] = "marked"}

\* What an update makes of the cached faces of groups: a marked row is erased,
\* a live one inserted, one that is gone unnoticed.
SgdAfter(old) ==
  (old \ {f \in Faces : link[f] = "marked"}) \union {f \in Faces : link[f] = "live"}

\* Mutant: a marked row is not erased.
FdAfterFaulty(old) == old \union {f \in Faces : face[f] = "live"}

FdAfter(old) ==
  (old \ {f \in Faces : face[f] = "marked"}) \union {f \in Faces : face[f] = "live"}

SgdIncremental ==
  /\ sgd' = SgdAfter(sgd)
  /\ UNCHANGED <<tables, sgc, fd, late, lost>>

SgdFull ==
  /\ sgd' = SgdAfter({})
  /\ UNCHANGED <<tables, sgc, fd, late, lost>>

FdIncremental ==
  /\ fd' = FdAfter(fd)
  /\ lost_fd' = {}
  /\ UNCHANGED <<tables, sgc, sgd, late, lost_sgc>>

FdFull ==
  /\ fd' = FdAfter({})
  /\ lost_fd' = {}
  /\ UNCHANGED <<tables, sgc, sgd, late, lost_sgc>>

-----------------------------------------------------------------------------
Next ==
  \/ \E g \in Groups : \/ AddGroup(g) \/ DeleteGroup(g)
                       \/ \E t \in Tokens : RenewToken(g, t)
  \/ \E f \in Faces : \/ \E g \in Groups, t \in Tokens : BeginRegister(f, g, t)
                      \/ \E t \in Tokens : SgDeleteFace(f, t)
                      \/ Register(f) \/ RegisterFails(f) \/ DeleteFace(f)
  \/ \E G \in SUBSET Groups, F, L \in SUBSET Faces : Maintenance(G, F, L)
  \/ SgcReload \/ SgdIncremental \/ SgdFull \/ FdIncremental \/ FdFull

\* The periodic tasks run; nobody has to call a method.
Fairness ==
  /\ WF_vars(Maintenance(Groups, Faces, Faces))
  /\ WF_vars(SgcReload)
  /\ WF_vars(SgdIncremental) /\ WF_vars(FdIncremental)

Spec == Init /\ [][Next]_vars /\ Fairness

-----------------------------------------------------------------------------
\* A face of a special group never turns into an ordinary one: as long as its
\* descriptor is live it has its link, which keeps it out of listAllFaces
\* (SQL_LIST_ALL_FACES), and its group.  The exception is a registration that
\* the deletion of the group has overtaken: Register does not look at the mark.
StaysSpecial ==
  \A f \in Faces : face[f] = "live" /\ f \notin late => link[f] = "live" /\ group[owner[f]] = "live"

\* Recognition never answers with a face that is not, or no longer, a member of
\* its group, except until the update of the descriptors that follows its
\* deletion, or the reload of the groups that follows that of its group.
RecognisedIsMember ==
  \A f \in Faces :
    Recognisable(f) => Member(f) \/ f \in lost_fd \/ owner[f] \in lost_sgc

\* A token that has been renewed, or whose group has been deleted, is refused
\* before long and for ever, although the cache reads marked groups, too.
RevokedTokenDies ==
  \A g \in Groups, t \in Tokens :
    Accepted(g, t) /\ ~InForce(g, t) ~> []~Accepted(g, t)

\* A registered face is recognised before long, if it stays in its group.
MemberIsRecognised ==
  \A f \in Faces :
    Member(f) ~> Recognisable(f) \/ ~Member(f) \/ group[owner[f]] # "live"

\* openapi.yaml:926, of deleteSpecialGroup: "Removes all special group data,
\* including face descriptors".
DeletedGroupLeavesNothing ==
  \A f \in Faces : group[owner[f]] = "gone" => face[f] # "live"

=============================================================================
