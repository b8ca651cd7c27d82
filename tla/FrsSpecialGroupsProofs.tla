----------------------- MODULE FrsSpecialGroupsProofs -----------------------
(***************************************************************************)
(* What holds of the special groups of FRS for any groups, registrations   *)
(* and tokens: types, that a face stays in its group as long as it is      *)
(* live, and that recognition answers with members only.                   *)
(***************************************************************************)
EXTENDS FrsSpecialGroups, TLAPS

-----------------------------------------------------------------------------
(* The inductive invariant                                                 *)

Unwritten == {"new", "called", "failed"}

\* A descriptor is inserted with its link.  A link keeps its group in the
\* table.  A live descriptor has lost its link only together with its group,
\* and only one that came late can.
RowOK(f) ==
  /\ face[f] \in Unwritten <=> link[f] = "none"
  /\ Linked(f) => InTable(owner[f])
  /\ face[f] = "live" => link[f] = "live" \/ group[owner[f]] = "gone"
  /\ face[f] = "live" /\ f \notin late => link[f] = "live" /\ group[owner[f]] = "live"

\* A cached descriptor is still in the table.  If it is marked, fd has not been
\* updated since, or its group is gone.
CachedOK(f) ==
  f \in fd => \/ face[f] = "live"
              \/ face[f] = "marked" /\ (f \in lost_fd \/ group[owner[f]] = "gone")

\* The cache still has a token of a group that is gone only until its reload.
GroupOK(g) == group[g] = "gone" => sgc[g] = NoToken \/ g \in lost_sgc

FacesInv == \A f \in Faces : RowOK(f) /\ CachedOK(f)
GroupsInv == \A g \in Groups : GroupOK(g)

IInv == TypeOK /\ FacesInv /\ GroupsInv

-----------------------------------------------------------------------------
(* Initially                                                               *)

\* The invariant holds initially.
LEMMA InitInv == Init => IInv
<1> SUFFICES ASSUME Init PROVE IInv
  OBVIOUS
<1>1. (CHOOSE g \in Groups : TRUE) \in Groups
  BY GroupsConstants
<1>2. TypeOK
  BY <1>1, GroupsConstants DEF Init, TypeOK, NoToken, Tokens
<1>3. FacesInv
  BY DEF Init, FacesInv, RowOK, CachedOK, Unwritten, Linked
<1>4. GroupsInv
  BY DEF Init, GroupsInv, GroupOK
<1> QED BY <1>2, <1>3, <1>4 DEF IInv

-----------------------------------------------------------------------------
(* Types                                                                   *)

\* Every step keeps the types.
LEMMA TypeStep == TypeOK /\ [Next]_vars => TypeOK'
<1> SUFFICES ASSUME TypeOK, [Next]_vars PROVE TypeOK'
  OBVIOUS
<1> USE DEF TypeOK, tables, caches, lost
<1>1. ASSUME NEW g \in Groups, AddGroup(g) PROVE TypeOK'
  BY <1>1, GroupsConstants DEF AddGroup, Tokens
<1>2. ASSUME NEW g \in Groups, DeleteGroup(g) PROVE TypeOK'
  BY <1>2 DEF DeleteGroup, LeaveFaces
<1>3. ASSUME NEW g \in Groups, NEW t \in Tokens, RenewToken(g, t) PROVE TypeOK'
  <2>1. token[g] + 1 \in Tokens
    BY <1>3, GroupsConstants DEF RenewToken, Tokens, NoToken
  <2> QED BY <1>3, <2>1 DEF RenewToken
<1>4. ASSUME NEW f \in Faces, NEW g \in Groups, NEW t \in Tokens, BeginRegister(f, g, t)
      PROVE  TypeOK'
  BY <1>4 DEF BeginRegister
<1>5. ASSUME NEW f \in Faces, NEW t \in Tokens, SgDeleteFace(f, t) PROVE TypeOK'
  BY <1>5 DEF SgDeleteFace, LeaveFaces
<1>6. ASSUME NEW f \in Faces, Register(f) PROVE TypeOK'
  BY <1>6 DEF Register
<1>7. ASSUME NEW f \in Faces, RegisterFails(f) PROVE TypeOK'
  BY <1>7 DEF RegisterFails
<1>8. ASSUME NEW f \in Faces, DeleteFace(f) PROVE TypeOK'
  BY <1>8 DEF DeleteFace, LeaveFaces
<1>9. ASSUME NEW G \in SUBSET Groups, NEW F \in SUBSET Faces, NEW L \in SUBSET Faces,
             Maintenance(G, F, L)
      PROVE  TypeOK'
  BY <1>9 DEF Maintenance, LeaveFaces, ExpiredGroups
<1>10. CASE SgcReload
  BY <1>10 DEF SgcReload, SgcAfter, NoToken, Tokens
<1>11. CASE SgdIncremental \/ SgdFull
  BY <1>11 DEF SgdIncremental, SgdFull, SgdAfter
<1>12. CASE FdIncremental \/ FdFull
  BY <1>12 DEF FdIncremental, FdFull, FdAfter
<1>13. CASE UNCHANGED vars
  BY <1>13 DEF vars
<1> QED
  BY <1>1, <1>2, <1>3, <1>4, <1>5, <1>6, <1>7, <1>8, <1>9, <1>10, <1>11, <1>12,
     <1>13 DEF Next

-----------------------------------------------------------------------------
(* Faces                                                                   *)

\* The case of a cached face is the delicate one: whoever marks a member notes
\* it in lost_fd, and one that is no member has lost its group.
LEMMA FacesStep == IInv /\ [Next]_vars => FacesInv'
<1> SUFFICES ASSUME IInv, [Next]_vars, NEW f \in Faces PROVE (RowOK(f) /\ CachedOK(f))'
  BY DEF FacesInv
<1>a. TypeOK /\ RowOK(f) /\ CachedOK(f)
  BY DEF IInv, FacesInv
<1>b. owner[f] \in Groups
  BY <1>a DEF TypeOK
<1> USE DEF RowOK, CachedOK, Unwritten, Linked, InTable, tables, caches, lost
<1>1. ASSUME NEW g \in Groups, AddGroup(g) PROVE (RowOK(f) /\ CachedOK(f))'
  BY <1>1, <1>a, <1>b DEF AddGroup, TypeOK
<1>2. ASSUME NEW g \in Groups, DeleteGroup(g) PROVE (RowOK(f) /\ CachedOK(f))'
  <2>1. /\ owner' = owner /\ fd' = fd /\ late' = late
        /\ group'[owner[f]] = IF owner[f] = g THEN "marked" ELSE group[owner[f]]
        /\ link'[f] = IF owner[f] = g /\ Linked(f) THEN "marked" ELSE link[f]
        /\ face'[f] = IF owner[f] = g /\ Linked(f) THEN "marked" ELSE face[f]
    BY <1>2, <1>a, <1>b DEF DeleteGroup, FacesOf, TypeOK
  <2>2. f \in lost_fd \/ (Member(f) /\ ~Member(f)') => f \in lost_fd'
    BY <1>2 DEF DeleteGroup, LeaveFaces
  <2>3. group[g] # "gone"
    BY <1>2 DEF DeleteGroup
  <2> QED BY <2>1, <2>2, <2>3, <1>a DEF Member, TypeOK
<1>3. ASSUME NEW g \in Groups, NEW t \in Tokens, RenewToken(g, t)
      PROVE  (RowOK(f) /\ CachedOK(f))'
  BY <1>3, <1>a DEF RenewToken
<1>4. ASSUME NEW e \in Faces, NEW g \in Groups, NEW t \in Tokens, BeginRegister(e, g, t)
      PROVE  (RowOK(f) /\ CachedOK(f))'
  BY <1>4, <1>a DEF BeginRegister, TypeOK
<1>5. ASSUME NEW e \in Faces, NEW t \in Tokens, SgDeleteFace(e, t)
      PROVE  (RowOK(f) /\ CachedOK(f))'
  <2>1. /\ owner' = owner /\ fd' = fd /\ late' = late /\ group' = group
        /\ link'[f] = IF f = e THEN "marked" ELSE link[f]
        /\ face'[f] = IF f = e THEN "marked" ELSE face[f]
        /\ Linked(e)
    BY <1>5, <1>a DEF SgDeleteFace, TypeOK
  <2>2. f \in lost_fd \/ (Member(f) /\ ~Member(f)') => f \in lost_fd'
    BY <1>5 DEF SgDeleteFace, LeaveFaces
  <2> QED BY <2>1, <2>2, <1>a DEF Member, TypeOK
<1>6. ASSUME NEW e \in Faces, Register(e) PROVE (RowOK(f) /\ CachedOK(f))'
  BY <1>6, <1>a DEF Register, TypeOK
<1>7. ASSUME NEW e \in Faces, RegisterFails(e) PROVE (RowOK(f) /\ CachedOK(f))'
  BY <1>7, <1>a DEF RegisterFails, TypeOK
<1>8. ASSUME NEW e \in Faces, DeleteFace(e) PROVE (RowOK(f) /\ CachedOK(f))'
  <2>1. /\ owner' = owner /\ fd' = fd /\ late' = late /\ group' = group /\ link' = link
        /\ face'[f] = IF f = e THEN "marked" ELSE face[f]
        /\ face[e] \in {"live", "marked"}
    BY <1>8, <1>a DEF DeleteFace, TypeOK
  <2>2. f \in lost_fd \/ (Member(f) /\ ~Member(f)') => f \in lost_fd'
    BY <1>8 DEF DeleteFace, LeaveFaces
  <2> QED BY <2>1, <2>2, <1>a DEF Member, TypeOK
<1>9. ASSUME NEW G \in SUBSET Groups, NEW F \in SUBSET Faces, NEW L \in SUBSET Faces,
             Maintenance(G, F, L)
      PROVE  (RowOK(f) /\ CachedOK(f))'
  <2>1. /\ owner' = owner /\ fd' = fd /\ late' = late
        /\ group'[owner[f]] = IF owner[f] \in ExpiredGroups(G) THEN "gone"
                              ELSE group[owner[f]]
        /\ face'[f] = IF f \in ExpiredFaces(F) THEN "gone" ELSE face[f]
        /\ link'[f] = IF Linked(f) /\ \/ f \in ExpiredLinks(L) \union ExpiredFaces(F)
                                      \/ owner[f] \in ExpiredGroups(G)
                      THEN "gone" ELSE link[f]
        /\ lost_fd \subseteq lost_fd'
    BY <1>9, <1>a, <1>b DEF Maintenance, LeaveFaces, TypeOK
  <2>2. owner[f] \in ExpiredGroups(G) => group[owner[f]] = "marked"
    BY DEF ExpiredGroups
  <2>3. f \in ExpiredFaces(F) => face[f] = "marked" /\ f \notin fd
    BY DEF ExpiredFaces
  <2>4. f \in ExpiredLinks(L) => link[f] = "marked"
    BY DEF ExpiredLinks
  <2> QED BY <2>1, <2>2, <2>3, <2>4, <1>a
<1>10. CASE SgcReload
  BY <1>10, <1>a DEF SgcReload
<1>11. CASE SgdIncremental \/ SgdFull
  BY <1>11, <1>a DEF SgdIncremental, SgdFull
<1>12. CASE FdIncremental \/ FdFull
  <2>1. f \in fd' => face[f] = "live"
    BY <1>12, <1>a DEF FdIncremental, FdFull, FdAfter
  <2> QED BY <1>12, <2>1, <1>a DEF FdIncremental, FdFull
<1>13. CASE UNCHANGED vars
  BY <1>13, <1>a DEF vars
<1> QED
  BY <1>1, <1>2, <1>3, <1>4, <1>5, <1>6, <1>7, <1>8, <1>9, <1>10, <1>11, <1>12,
     <1>13 DEF Next

-----------------------------------------------------------------------------
(* Groups                                                                  *)

\* Only maintenance removes a group, and notes it.
LEMMA GroupsStep == IInv /\ [Next]_vars => GroupsInv'
<1> SUFFICES ASSUME IInv, [Next]_vars, NEW g \in Groups PROVE GroupOK(g)'
  BY DEF GroupsInv
<1>a. TypeOK /\ GroupOK(g)
  BY DEF IInv, GroupsInv
<1> USE DEF GroupOK, tables, caches, lost
<1>1. ASSUME NEW h \in Groups, AddGroup(h) \/ DeleteGroup(h) PROVE GroupOK(g)'
  BY <1>1, <1>a DEF AddGroup, DeleteGroup, TypeOK
<1>2. ASSUME NEW h \in Groups, NEW t \in Tokens, RenewToken(h, t) PROVE GroupOK(g)'
  BY <1>2, <1>a DEF RenewToken
<1>3. ASSUME NEW f \in Faces, Register(f) \/ RegisterFails(f) \/ DeleteFace(f)
      PROVE  GroupOK(g)'
  BY <1>3, <1>a DEF Register, RegisterFails, DeleteFace
<1>4. ASSUME NEW f \in Faces, NEW h \in Groups, NEW t \in Tokens, BeginRegister(f, h, t)
      PROVE  GroupOK(g)'
  BY <1>4, <1>a DEF BeginRegister
<1>5. ASSUME NEW f \in Faces, NEW t \in Tokens, SgDeleteFace(f, t) PROVE GroupOK(g)'
  BY <1>5, <1>a DEF SgDeleteFace
<1>6. ASSUME NEW G \in SUBSET Groups, NEW F \in SUBSET Faces, NEW L \in SUBSET Faces,
             Maintenance(G, F, L)
      PROVE  GroupOK(g)'
  BY <1>6, <1>a DEF Maintenance
<1>7. CASE SgcReload
  BY <1>7, <1>a DEF SgcReload, SgcAfter, InTable
<1>8. CASE SgdIncremental \/ SgdFull \/ FdIncremental \/ FdFull \/ UNCHANGED vars
  BY <1>8, <1>a DEF SgdIncremental, SgdFull, FdIncremental, FdFull, vars
<1> QED BY <1>1, <1>2, <1>3, <1>4, <1>5, <1>6, <1>7, <1>8 DEF Next

\* The invariant holds in every reachable state.
LEMMA Invariance == Spec => []IInv
<1>1. IInv /\ [Next]_vars => IInv'
  BY TypeStep, FacesStep, GroupsStep DEF IInv
<1> QED BY InitInv, <1>1, PTL DEF Spec

-----------------------------------------------------------------------------
(* Theorems                                                                *)

\* Rows, caches and the histories keep their types.
THEOREM TypeCorrect == Spec => []TypeOK
<1>1. IInv => TypeOK
  BY DEF IInv
<1> QED BY <1>1, Invariance, PTL

\* Whatever the host and the group delete and the maintenance task removes, a
\* live face of a special group has its link and its group, unless the
\* registration was overtaken by the deletion of the group.
THEOREM Stays_Special == Spec => []StaysSpecial
<1>1. IInv => StaysSpecial
  BY DEF IInv, FacesInv, RowOK, StaysSpecial
<1> QED BY <1>1, Invariance, PTL

\* Three caches that are never read together agree on nobody who is not a
\* member, but for the time until the next update of one of them.
THEOREM Recognised_IsMember == Spec => []RecognisedIsMember
<1>1. IInv => RecognisedIsMember
  <2> SUFFICES ASSUME IInv, NEW f \in Faces, Recognisable(f)
               PROVE  Member(f) \/ f \in lost_fd \/ owner[f] \in lost_sgc
    BY DEF RecognisedIsMember
  <2>1. RowOK(f) /\ CachedOK(f) /\ GroupOK(owner[f])
    BY DEF IInv, FacesInv, GroupsInv, TypeOK
  <2> QED BY <2>1 DEF RowOK, CachedOK, GroupOK, Recognisable, Member
<1> QED BY <1>1, Invariance, PTL
=============================================================================
