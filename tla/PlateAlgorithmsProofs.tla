------------------------- MODULE PlateAlgorithmsProofs -------------------------
(***************************************************************************)
(* What is proved of PlateAlgorithms for any boxes, plates, characters and *)
(* thresholds.                                                             *)
(*                                                                         *)
(* The model computes with recursive functions: a loop over a sequence is a*)
(* function of the number of its rounds.  Lemma Recursion says that such a *)
(* function exists, and lemma Induction what holds of all its values; both *)
(* are stated with sets and functions, since the provers cannot find an    *)
(* operator.  From them come what Keep, Suppress, InPosition, Groups,      *)
(* Extend and Readings return for every argument.                          *)
(*                                                                         *)
(* The invariant IInv is about the loops of removeDuplicatePlates: which   *)
(* pairs of plates they have compared (ComparedDiffer), where an iterator  *)
(* that stepped back may be (BeforeFirst), and what the networks found, as *)
(* long as it matters (StagesOK).                                          *)
(***************************************************************************)
EXTENDS PlateAlgorithms, TLAPS, FiniteSetTheorems

-----------------------------------------------------------------------------
(* Induction and recursion                                                 *)

\* A set of natural numbers has a least element.
LEMMA Least ==
  ASSUME NEW T \in SUBSET Nat, T # {}
  PROVE  \E n \in T : \A m \in T : n <= m
<1> DEFINE R == OpToRel(<, Nat)
<1>1. IsWellFoundedOn(R, Nat)
  BY NatLessThanWellFounded
<1>2. \A m, n \in Nat : m < n => <<m, n>> \in R
  BY DEF OpToRel
<1> HIDE DEF R
<1>3. PICK n \in T : \A m \in T : ~ (<<m, n>> \in R)
  BY <1>1, WFMin
<1>4. \A m \in T : m \in Nat /\ n \in Nat /\ ~ (m < n)
  BY <1>2, <1>3
<1> QED BY <1>4

\* Induction up to N, for a set: a set can be found by the provers, a predicate can
\* not.
LEMMA Induction ==
  ASSUME NEW N \in Nat, NEW T, 0 \in T,
         \A n \in 0..(N - 1) : n \in T => n + 1 \in T
  PROVE  0..N \subseteq T
<1> SUFFICES ASSUME NEW k \in 0..N, k \notin T PROVE FALSE
  OBVIOUS
<1> DEFINE U == {n \in 0..N : n \notin T}
<1>1. U \in SUBSET Nat /\ U # {}
  OBVIOUS
<1>2. PICK n \in U : \A m \in U : n <= m
  <2> HIDE DEF U
  <2> QED BY <1>1, Least
<1>3. n \in 1..N
  OBVIOUS
<1>4. n - 1 \in 0..(N - 1) /\ n - 1 \notin U
  BY <1>2, <1>3
<1>5. n - 1 \in T
  BY <1>4
<1> QED BY <1>3, <1>4, <1>5

\* f begins with base, and each value is what step makes of the last one.
Runs(f, N, S, base, step) ==
  f \in [0..N -> S] /\ f[0] = base /\ \A k \in 1..N : f[k] = step[k][f[k - 1]]

\* There is such a function.
LEMMA Recursion ==
  ASSUME NEW N \in Nat, NEW S, NEW base \in S, NEW step \in [1..N -> [S -> S]]
  PROVE  \E f : Runs(f, N, S, base, step)
<1> DEFINE Upto(n, f) == f[0] = base /\ \A k \in 1..n : f[k] = step[k][f[k - 1]]
<1> DEFINE T == {n \in 0..N : \E f \in [0..n -> S] : Upto(n, f)}
<1>1. 0 \in T
  <2> DEFINE f == [k \in 0..0 |-> base]
  <2>1. f \in [0..0 -> S] /\ Upto(0, f)
    OBVIOUS
  <2> HIDE DEF f, Upto
  <2> QED BY <2>1
<1>2. ASSUME NEW n \in 0..(N - 1), n \in T PROVE n + 1 \in T
  <2>1. PICK f \in [0..n -> S] : Upto(n, f)
    BY <1>2
  <2> DEFINE g == [k \in 0..(n + 1) |-> IF k = n + 1 THEN step[k][f[k - 1]] ELSE f[k]]
  <2>2. g \in [0..(n + 1) -> S]
    OBVIOUS
  <2>3. g[0] = f[0] /\ g[n + 1] = step[n + 1][g[n]]
    OBVIOUS
  <2>4. ASSUME NEW k \in 1..n PROVE g[k] = step[k][g[k - 1]]
    <3>1. g[k] = f[k] /\ g[k - 1] = f[k - 1]
      OBVIOUS
    <3> QED BY <2>1, <3>1
  <2>5. Upto(n + 1, g)
    <3> HIDE DEF g
    <3> QED BY <2>1, <2>3, <2>4
  <2>6. n + 1 \in 0..N
    OBVIOUS
  <2> HIDE DEF g, Upto
  <2> QED BY <2>2, <2>5, <2>6
<1>3. 0..N \subseteq T
  <2> HIDE DEF T
  <2> QED BY <1>1, <1>2, Induction
<1>4. PICK f \in [0..N -> S] : Upto(N, f)
  BY <1>3
<1>5. Runs(f, N, S, base, step)
  BY <1>4 DEF Runs
<1> QED BY <1>5

-----------------------------------------------------------------------------
(* Sequences                                                               *)

\* What RemoveAt returns: what is behind moves up.
LEMMA RemoveAtElements ==
  ASSUME NEW S, NEW s \in Seq(S), NEW i \in 1..Len(s)
  PROVE  /\ RemoveAt(s, i) \in Seq(S) /\ Len(RemoveAt(s, i)) = Len(s) - 1
         /\ \A k \in 1..(Len(s) - 1) :
              RemoveAt(s, i)[k] = s[IF k < i THEN k ELSE k + 1]
<1> DEFINE a == SubSeq(s, 1, i - 1)
           b == SubSeq(s, i + 1, Len(s))
<1>1. a \in Seq(S) /\ Len(a) = i - 1 /\ \A k \in 1..(i - 1) : a[k] = s[k]
  OBVIOUS
<1>2. b \in Seq(S) /\ Len(b) = Len(s) - i /\ \A k \in 1..(Len(s) - i) : b[k] = s[i + k]
  OBVIOUS
<1>3. RemoveAt(s, i) = a \o b
  BY DEF RemoveAt
<1> HIDE DEF a, b
<1>4. Len(RemoveAt(s, i)) = Len(s) - 1 /\ RemoveAt(s, i) \in Seq(S)
  BY <1>1, <1>2, <1>3
<1>5. ASSUME NEW k \in 1..(Len(s) - 1)
      PROVE  RemoveAt(s, i)[k] = s[IF k < i THEN k ELSE k + 1]
  <2>1. CASE k < i
    BY <1>1, <1>2, <1>3, <2>1
  <2>2. CASE k >= i
    <3>1. k - Len(a) \in 1..Len(b) /\ (a \o b)[k] = b[k - Len(a)]
      BY <1>1, <1>2, <2>2
    <3>2. b[k - Len(a)] = s[k + 1]
      BY <1>1, <1>2, <2>2, <3>1
    <3> QED BY <1>3, <2>2, <3>1, <3>2
  <2> QED BY <2>1, <2>2
<1> QED BY <1>4, <1>5

\* e is where the elements of t come from in s.
Picks(e, t, s) ==
  /\ e \in [DOMAIN t -> DOMAIN s]
  /\ \A p, q \in DOMAIN t : p < q => e[p] < e[q]
  /\ \A p \in DOMAIN t : t[p] = s[e[p]]

KeepStep(s, T, k, t) == IF s[k] \in T THEN Append(t, s[k]) ELSE t

\* Keep is well defined.
LEMMA KeepDef ==
  ASSUME NEW S, NEW s \in Seq(S), NEW T
  PROVE  \E upto \in [0..Len(s) -> Seq(S)] :
           /\ upto[0] = <<>>
           /\ \A k \in 1..Len(s) : upto[k] = KeepStep(s, T, k, upto[k - 1])
           /\ Keep(s, T) = upto[Len(s)]
<1> DEFINE Def(f) == f = [k \in 0..Len(s) |->
                            IF k = 0 THEN <<>>
                            ELSE IF s[k] \in T THEN Append(f[k - 1], s[k]) ELSE f[k - 1]]
<1>1. \E f : Def(f)
  <2> DEFINE step == [k \in 1..Len(s) |-> [t \in Seq(S) |-> KeepStep(s, T, k, t)]]
  <2>1. step \in [1..Len(s) -> [Seq(S) -> Seq(S)]]
    BY DEF KeepStep
  <2>2. \A k \in 1..Len(s), t \in Seq(S) : step[k][t] = KeepStep(s, T, k, t)
    OBVIOUS
  <2> DEFINE base == <<>>
             Values == Seq(S)
  <2>3. Len(s) \in Nat /\ base \in Values
    OBVIOUS
  <2>4. step \in [1..Len(s) -> [Values -> Values]]
    BY <2>1
  <2>5. \E f : Runs(f, Len(s), Values, base, step)
    <3> HIDE DEF step, base, Values
    <3> QED BY <2>3, <2>4, Recursion
  <2>6. PICK f \in [0..Len(s) -> Seq(S)] :
          f[0] = <<>> /\ \A k \in 1..Len(s) : f[k] = step[k][f[k - 1]]
    BY <2>5 DEF Runs
  <2> HIDE DEF step
  <2>7. ASSUME NEW k \in 1..Len(s) PROVE f[k] = KeepStep(s, T, k, f[k - 1])
    <3>1. k - 1 \in 0..Len(s)
      BY <2>3
    <3> QED BY <2>2, <2>6, <3>1
  <2>8. ASSUME NEW k \in 0..Len(s)
        PROVE  f[k] = IF k = 0 THEN <<>>
                      ELSE IF s[k] \in T THEN Append(f[k - 1], s[k]) ELSE f[k - 1]
    <3>1. k = 0 \/ k \in 1..Len(s)
      BY <2>3
    <3> QED BY <2>6, <2>7, <3>1 DEF KeepStep
  <2>9. Def(f)
    BY <2>6, <2>8
  <2> QED BY <2>9
<1> DEFINE upto == CHOOSE f : Def(f)
<1>2. Def(upto)
  <2> HIDE DEF Def
  <2> QED BY <1>1
<1>3. Keep(s, T) = upto[Len(s)]
  BY Zenon DEF Keep
<1> HIDE DEF upto
<1>4. DOMAIN upto = 0..Len(s)
  BY <1>2
<1>5. upto[0] = <<>>
  BY <1>2
<1>6. ASSUME NEW k \in 1..Len(s) PROVE upto[k] = KeepStep(s, T, k, upto[k - 1])
  <2>1. k \in 0..Len(s) /\ k # 0
    OBVIOUS
  <2> QED BY <1>2, <2>1 DEF KeepStep
<1> HIDE DEF Def
<1> DEFINE U == {k \in 0..Len(s) : upto[k] \in Seq(S)}
<1>7. 0..Len(s) \subseteq U
  <2>1. 0 \in U
    <3>1. 0 \in 0..Len(s) /\ <<>> \in Seq(S)
      OBVIOUS
    <3>2. upto[0] \in Seq(S)
      BY Zenon, <1>5, <3>1
    <3> QED BY <3>1, <3>2
  <2>2. ASSUME NEW k \in 0..(Len(s) - 1), k \in U PROVE k + 1 \in U
    <3>1. k + 1 \in 1..Len(s) /\ s[k + 1] \in S
      OBVIOUS
    <3>2. upto[k + 1] = KeepStep(s, T, k + 1, upto[k])
      BY <1>6, <3>1
    <3>3. upto[k] \in Seq(S) /\ k + 1 \in 0..Len(s)
      BY <2>2
    <3>4. upto[k + 1] \in Seq(S)
      BY <3>1, <3>2, <3>3 DEF KeepStep
    <3> QED BY <3>3, <3>4
  <2>3. Len(s) \in Nat
    OBVIOUS
  <2> HIDE DEF U
  <2> QED BY <2>1, <2>2, <2>3, Induction
<1>8. upto \in [0..Len(s) -> Seq(S)]
  <2>1. upto = [k \in 0..Len(s) |-> upto[k]]
    BY <1>2 DEF Def
  <2> QED BY <1>7, <2>1
<1> QED BY <1>3, <1>5, <1>6, <1>8

\* Keep returns the elements that are in T, in their order.
LEMMA KeepElements ==
  ASSUME NEW S, NEW s \in Seq(S), NEW T
  PROVE  /\ Keep(s, T) \in Seq(S)
         /\ \E e : /\ Picks(e, Keep(s, T), s)
                   /\ \A k \in DOMAIN s : s[k] \in T <=> \E p \in DOMAIN Keep(s, T) : e[p] = k
<1> DEFINE Step(upto) == \A k \in 1..Len(s) : upto[k] = KeepStep(s, T, k, upto[k - 1])
<1>1. PICK upto \in [0..Len(s) -> Seq(S)] :
           /\ upto[0] = <<>>
           /\ Step(upto)
           /\ Keep(s, T) = upto[Len(s)]
  <2>1. PICK t : t = Keep(s, T)
    OBVIOUS
  <2> QED BY <2>1, KeepDef
<1> DEFINE Good(k, t, e) ==
      /\ e \in [1..Len(t) -> 1..k]
      /\ \A p, q \in 1..Len(t) : p < q => e[p] < e[q]
      /\ \A p \in 1..Len(t) : t[p] = s[e[p]]
      /\ \A l \in 1..k : s[l] \in T <=> \E p \in 1..Len(t) : e[p] = l
<1> DEFINE U == {k \in 0..Len(s) : \E e : Good(k, upto[k], e)}
<1>2. 0 \in U
  <2> Good(0, upto[0], [p \in {} |-> p])
    BY <1>1
  <2> HIDE DEF Good
  <2> QED OBVIOUS
<1>3. ASSUME NEW k \in 0..(Len(s) - 1), k \in U PROVE k + 1 \in U
  <2>1. PICK e : Good(k, upto[k], e)
    <3> HIDE DEF Good
    <3> QED BY <1>3
  <2>2. k + 1 \in 1..Len(s) /\ k + 1 \in 0..Len(s)
    OBVIOUS
  <2>3. upto[k + 1] = KeepStep(s, T, k + 1, upto[k])
    BY <1>1, <2>2
  <2>4. upto[k] \in Seq(S) /\ s[k + 1] \in S
    OBVIOUS
  <2> DEFINE t == upto[k]
             u == upto[k + 1]
  <2> HIDE DEF t, u
  <2>5. \E f : Good(k + 1, u, f)
    <3>1. CASE s[k + 1] \in T
      <4> DEFINE n == Len(t)
                 f == [p \in 1..(n + 1) |-> IF p = n + 1 THEN k + 1 ELSE e[p]]
      <4>1. u = Append(t, s[k + 1])
        BY <2>3, <3>1 DEF KeepStep, t, u
      <4>2. Len(u) = n + 1 /\ n \in Nat
        BY <2>4, <4>1 DEF t
      <4> HIDE DEF n
      <4>3. f \in [1..(n + 1) -> 1..(k + 1)]
        BY <2>1, <4>2 DEF t, n
      <4>4. ASSUME NEW p \in 1..(n + 1), NEW q \in 1..(n + 1), p < q PROVE f[p] < f[q]
        <5>1. p \in 1..n /\ e[p] \in 1..k
          BY <2>1, <4>2, <4>4 DEF t, n
        <5>2. CASE q = n + 1
          BY <4>2, <4>4, <5>1, <5>2
        <5>3. CASE q \in 1..n
          <6>1. e[p] < e[q]
            BY <2>1, <4>4, <5>1, <5>3 DEF t, n
          <6> QED BY <4>2, <5>1, <5>3, <6>1
        <5> QED BY <4>2, <5>2, <5>3
      <4>5. ASSUME NEW p \in 1..(n + 1) PROVE u[p] = s[f[p]]
        <5>1. CASE p = n + 1
          BY <2>4, <4>1, <4>2, <5>1 DEF t, n
        <5>2. CASE p \in 1..n
          BY <2>1, <2>4, <4>1, <4>2, <5>2 DEF t, n
        <5> QED BY <4>2, <5>1, <5>2
      <4>6. ASSUME NEW l \in 1..(k + 1) PROVE s[l] \in T <=> \E p \in 1..(n + 1) : f[p] = l
        <5>1. CASE l = k + 1
          BY <3>1, <4>2, <5>1
        <5>2. CASE l \in 1..k
          <6>1. s[l] \in T <=> \E p \in 1..n : e[p] = l
            BY <2>1, <5>2 DEF t, n
          <6> QED BY <4>2, <5>2, <6>1
        <5> QED BY <5>1, <5>2
      <4> HIDE DEF f
      <4>7. Good(k + 1, u, f)
        BY <4>2, <4>3, <4>4, <4>5, <4>6
      <4> HIDE DEF Good
      <4> QED BY <4>7
    <3>2. CASE s[k + 1] \notin T
      <4>1. u = t
        BY <2>3, <3>2 DEF KeepStep, t, u
      <4>2. e \in [1..Len(u) -> 1..(k + 1)]
        BY <2>1, <4>1 DEF t
      <4>3. ASSUME NEW l \in 1..(k + 1) PROVE s[l] \in T <=> \E p \in 1..Len(u) : e[p] = l
        <5>1. CASE l = k + 1
          BY <2>1, <3>2, <4>1, <5>1 DEF t
        <5>2. CASE l \in 1..k
          BY <2>1, <4>1, <5>2 DEF t
        <5> QED BY <5>1, <5>2
      <4>4. Good(k + 1, u, e)
        BY <2>1, <4>1, <4>2, <4>3 DEF t
      <4> HIDE DEF Good
      <4> QED BY <4>4
    <3> QED BY <3>1, <3>2
  <2> HIDE DEF Good
  <2> QED BY <2>2, <2>5 DEF u
<1>4. 0..Len(s) \subseteq U
  <2>1. Len(s) \in Nat
    OBVIOUS
  <2> HIDE DEF U
  <2> QED BY <1>2, <1>3, <2>1, Induction
<1>5. PICK e : Good(Len(s), Keep(s, T), e)
  <2> HIDE DEF Good
  <2>1. Len(s) \in 0..Len(s)
    OBVIOUS
  <2> QED BY <1>1, <1>4, <2>1
<1>6. Keep(s, T) \in Seq(S)
  BY <1>1
<1>7. DOMAIN s = 1..Len(s) /\ DOMAIN Keep(s, T) = 1..Len(Keep(s, T))
  BY <1>6
<1>8. Picks(e, Keep(s, T), s)
  BY <1>5, <1>6, <1>7 DEF Picks
<1>9. \A k \in DOMAIN s : s[k] \in T <=> \E p \in DOMAIN Keep(s, T) : e[p] = k
  BY <1>5, <1>7
<1> QED BY <1>6, <1>8, <1>9

-----------------------------------------------------------------------------
(* Suppression                                                             *)

Spared(kills, d, left) == {x \in ToSet(left) : <<d, x>> \notin kills}

Round(kills, m, left) ==
  IF m > Len(left) THEN left
  ELSE SubSeq(left, 1, m) \o Keep(SubSeq(left, m + 1, Len(left)), Spared(kills, left[m], left))

\* What a round leaves is a sequence again.
LEMMA RoundType ==
  ASSUME NEW S, NEW left \in Seq(S), NEW kills, NEW m \in Nat \ {0}
  PROVE  Round(kills, m, left) \in Seq(S)
<1>1. CASE m > Len(left)
  BY <1>1 DEF Round
<1>2. CASE m <= Len(left)
  <2> DEFINE a == SubSeq(left, 1, m)
             b == SubSeq(left, m + 1, Len(left))
             k == Keep(b, Spared(kills, left[m], left))
  <2>1. a \in Seq(S) /\ b \in Seq(S)
    BY <1>2
  <2>2. k \in Seq(S)
    <3> HIDE DEF b
    <3> QED BY <2>1, KeepElements
  <2>3. Round(kills, m, left) = a \o k
    BY <1>2 DEF Round
  <2> HIDE DEF a, k
  <2> QED BY <2>1, <2>2, <2>3
<1> QED BY <1>1, <1>2

\* Round m keeps the first m detections, and of the others those that the m-th
\* does not suppress.
LEMMA RoundElements ==
  ASSUME NEW S, NEW left \in Seq(S), NEW kills, NEW m \in 1..Len(left),
         NEW u, u = Round(kills, m, left)
  PROVE  /\ Len(u) >= m
         /\ \E e : /\ Picks(e, u, left)
                   /\ \A p \in 1..m : e[p] = p
                   /\ \A k \in (m + 1)..Len(left) :
                        <<left[m], left[k]>> \notin kills <=> \E p \in DOMAIN u : e[p] = k
<1> DEFINE a == SubSeq(left, 1, m)
           b == SubSeq(left, m + 1, Len(left))
           T == Spared(kills, left[m], left)
           k == Keep(b, T)
<1>1. a \in Seq(S) /\ Len(a) = m /\ \A p \in 1..m : a[p] = left[p]
  OBVIOUS
<1>2. b \in Seq(S) /\ Len(b) = Len(left) - m /\ \A p \in 1..(Len(left) - m) : b[p] = left[m + p]
  OBVIOUS
<1>3. /\ k \in Seq(S)
      /\ \E e : /\ Picks(e, k, b)
                /\ \A l \in DOMAIN b : b[l] \in T <=> \E p \in DOMAIN k : e[p] = l
  <2> HIDE DEF b, T
  <2> QED BY <1>2, KeepElements
<1>4. u = a \o k
  <2>1. ~ (m > Len(left))
    OBVIOUS
  <2> QED BY <2>1 DEF Round
<1>5. \A l \in 1..(Len(left) - m) : b[l] \in T <=> <<left[m], left[m + l]>> \notin kills
  <2> SUFFICES ASSUME NEW l \in 1..(Len(left) - m)
               PROVE  b[l] \in T <=> <<left[m], left[m + l]>> \notin kills
    OBVIOUS
  <2>1. b[l] = left[m + l] /\ m + l \in DOMAIN left
    BY <1>2
  <2>2. left[m + l] \in ToSet(left)
    BY <2>1 DEF ToSet
  <2> HIDE DEF b
  <2> QED BY <2>1, <2>2 DEF Spared
<1> HIDE DEF a, b, k, T
<1>6. PICK d : /\ Picks(d, k, b)
               /\ \A l \in DOMAIN b : b[l] \in T <=> \E p \in DOMAIN k : d[p] = l
  BY <1>3
<1>7. /\ DOMAIN k = 1..Len(k) /\ DOMAIN b = 1..(Len(left) - m) /\ DOMAIN left = 1..Len(left)
      /\ Len(k) \in Nat /\ Len(left) \in Nat
  BY <1>2, <1>3
<1>8. /\ d \in [1..Len(k) -> 1..(Len(left) - m)]
      /\ \A p, q \in 1..Len(k) : p < q => d[p] < d[q]
      /\ \A p \in 1..Len(k) : k[p] = b[d[p]]
  BY <1>6, <1>7 DEF Picks
<1>9. /\ u \in Seq(S) /\ Len(u) = m + Len(k) /\ DOMAIN u = 1..(m + Len(k))
      /\ \A p \in 1..m : u[p] = left[p]
      /\ \A p \in 1..Len(k) : u[m + p] = k[p]
  <2>0. a \in Seq(S) /\ k \in Seq(S)
    BY <1>1, <1>3
  <2>1. u \in Seq(S) /\ Len(u) = Len(a) + Len(k)
    BY <1>4, <2>0
  <2>2. ASSUME NEW p \in 1..m PROVE u[p] = left[p]
    BY <1>1, <1>3, <1>4
  <2>3. ASSUME NEW p \in 1..Len(k) PROVE u[m + p] = k[p]
    BY <1>1, <1>3, <1>4
  <2> QED BY <1>1, <2>1, <2>2, <2>3
<1> DEFINE e == [p \in 1..(m + Len(k)) |-> IF p <= m THEN p ELSE m + d[p - m]]
<1>10. \A p \in 1..m : e[p] = p
  BY <1>7
<1>11. ASSUME NEW p \in (m + 1)..(m + Len(k))
       PROVE  p - m \in 1..Len(k) /\ e[p] = m + d[p - m] /\ e[p] \in (m + 1)..Len(left)
  <2>1. p - m \in 1..Len(k)
    BY <1>7
  <2>2. e[p] = m + d[p - m]
    BY <1>7
  <2>3. d[p - m] \in 1..(Len(left) - m)
    BY <1>8, <2>1
  <2> HIDE DEF e
  <2> QED BY <1>7, <2>1, <2>2, <2>3
<1>12. e \in [1..(m + Len(k)) -> 1..Len(left)]
  <2>1. ASSUME NEW p \in 1..(m + Len(k)) PROVE e[p] \in 1..Len(left)
    <3>1. CASE p \in 1..m
      BY <1>10, <3>1
    <3>2. CASE p \in (m + 1)..(m + Len(k))
      <4>1. e[p] \in (m + 1)..Len(left)
        BY <1>11, <3>2
      <4> QED BY <1>7, <4>1
    <3> QED BY <1>7, <3>1, <3>2
  <2> QED BY <2>1
<1> HIDE DEF e
<1>13. ASSUME NEW p \in 1..(m + Len(k)), NEW q \in 1..(m + Len(k)), p < q
       PROVE  e[p] < e[q]
  <2>1. CASE q <= m
    BY <1>10, <1>13, <2>1
  <2>2. CASE p <= m /\ q > m
    <3>1. e[p] = p /\ q \in (m + 1)..(m + Len(k))
      BY <1>7, <1>10, <2>2
    <3> QED BY <1>7, <1>11, <2>2, <3>1
  <2>3. CASE p > m
    <3>1. p \in (m + 1)..(m + Len(k)) /\ q \in (m + 1)..(m + Len(k))
      BY <1>7, <1>13, <2>3
    <3>2. p - m < q - m /\ p - m \in 1..Len(k) /\ q - m \in 1..Len(k)
      BY <1>11, <1>13, <3>1
    <3>3. d[p - m] < d[q - m] /\ d[p - m] \in 1..(Len(left) - m) /\ d[q - m] \in 1..(Len(left) - m)
      BY <1>8, <3>2
    <3>4. e[p] = m + d[p - m] /\ e[q] = m + d[q - m]
      BY <1>11, <3>1
    <3> QED BY <1>7, <3>3, <3>4
  <2> QED BY <1>7, <2>1, <2>2, <2>3
<1>14. ASSUME NEW p \in 1..(m + Len(k)) PROVE u[p] = left[e[p]]
  <2>1. CASE p <= m
    BY <1>9, <1>10, <2>1
  <2>2. CASE p > m
    <3>1. p \in (m + 1)..(m + Len(k))
      BY <1>7, <2>2
    <3>2. p - m \in 1..Len(k) /\ e[p] = m + d[p - m] /\ m + (p - m) = p
      BY <1>11, <3>1
    <3>3. u[p] = k[p - m]
      BY <1>9, <3>2
    <3>4. k[p - m] = b[d[p - m]] /\ d[p - m] \in 1..(Len(left) - m)
      BY <1>8, <3>2
    <3>5. b[d[p - m]] = left[m + d[p - m]]
      BY <1>2, <3>4
    <3> QED BY <3>2, <3>3, <3>4, <3>5
  <2> QED BY <1>7, <2>1, <2>2
<1>15. Picks(e, u, left)
  BY <1>7, <1>9, <1>12, <1>13, <1>14 DEF Picks
<1>16. ASSUME NEW l \in (m + 1)..Len(left)
       PROVE  <<left[m], left[l]>> \notin kills <=> \E p \in DOMAIN u : e[p] = l
  <2>1. l - m \in 1..(Len(left) - m) /\ m + (l - m) = l
    BY <1>7
  <2>2. <<left[m], left[l]>> \notin kills <=> \E p \in 1..Len(k) : d[p] = l - m
    BY <1>5, <1>6, <1>7, <2>1
  <2>3. ASSUME NEW p \in 1..Len(k), d[p] = l - m PROVE \E q \in DOMAIN u : e[q] = l
    <3>1. m + p \in (m + 1)..(m + Len(k)) /\ (m + p) - m = p
      BY <1>7
    <3>2. e[m + p] = m + d[p]
      BY <1>11, <3>1
    <3> QED BY <1>7, <1>9, <2>1, <2>3, <3>1, <3>2
  <2>4. ASSUME NEW q \in DOMAIN u, e[q] = l PROVE \E p \in 1..Len(k) : d[p] = l - m
    <3>1. q \in 1..(m + Len(k)) /\ ~ (q <= m)
      BY <1>7, <1>9, <1>10, <2>4
    <3>2. q \in (m + 1)..(m + Len(k))
      BY <1>7, <3>1
    <3>3. q - m \in 1..Len(k) /\ e[q] = m + d[q - m] /\ d[q - m] \in 1..(Len(left) - m)
      BY <1>8, <1>11, <3>2
    <3> QED BY <1>7, <2>4, <3>3
  <2> QED BY <2>2, <2>3, <2>4
<1>17. Len(u) >= m
  BY <1>7, <1>9
<1> QED BY <1>10, <1>15, <1>16, <1>17

\* Suppress runs a round for each place of what was found.
LEMMA SuppressDef ==
  ASSUME NEW S, NEW s \in Seq(S), NEW kills
  PROVE  \E after \in [0..Len(s) -> Seq(S)] :
           /\ after[0] = s
           /\ \A m \in 1..Len(s) : after[m] = Round(kills, m, after[m - 1])
           /\ Suppress(s, kills) = after[Len(s)]
<1> DEFINE Body(m, left) == IF m > Len(left) THEN left
                            ELSE SubSeq(left, 1, m) \o
                                 Keep(SubSeq(left, m + 1, Len(left)),
                                      {d \in ToSet(left) : <<left[m], d>> \notin kills})
           Def(f) == f = [m \in 0..Len(s) |-> IF m = 0 THEN s ELSE Body(m, f[m - 1])]
<1>0. \A m, left : Body(m, left) = Round(kills, m, left)
  BY DEF Round, Spared
<1>1. Len(s) \in Nat
  OBVIOUS
<1>2. \E f : Def(f)
  <2> DEFINE Values == Seq(S)
             step == [m \in 1..Len(s) |-> [t \in Values |-> Round(kills, m, t)]]
  <2>1. ASSUME NEW m \in 1..Len(s), NEW t \in Values PROVE Round(kills, m, t) \in Values
    <3>1. m \in Nat \ {0}
      BY <1>1
    <3> QED BY <3>1, RoundType
  <2>2. s \in Values
    OBVIOUS
  <2> HIDE DEF Values
  <2>3. step \in [1..Len(s) -> [Values -> Values]]
    BY <2>1
  <2>4. \A m \in 1..Len(s), t \in Values : step[m][t] = Round(kills, m, t)
    OBVIOUS
  <2> HIDE DEF step
  <2>5. PICK f : Runs(f, Len(s), Values, s, step)
    BY <1>1, <2>2, <2>3, Recursion
  <2>6. f \in [0..Len(s) -> Values] /\ f[0] = s /\ \A m \in 1..Len(s) : f[m] = step[m][f[m - 1]]
    BY <2>5 DEF Runs
  <2>7. ASSUME NEW m \in 1..Len(s) PROVE f[m] = Body(m, f[m - 1])
    <3>1. m - 1 \in 0..Len(s)
      BY <1>1
    <3>2. f[m] = Round(kills, m, f[m - 1])
      BY <2>4, <2>6, <3>1
    <3> QED BY <1>0, <3>2
  <2> HIDE DEF Body
  <2>8. ASSUME NEW m \in 0..Len(s) PROVE f[m] = IF m = 0 THEN s ELSE Body(m, f[m - 1])
    <3>1. m = 0 \/ m \in 1..Len(s)
      BY <1>1
    <3> QED BY <2>6, <2>7, <3>1
  <2>9. Def(f)
    BY <2>6, <2>8
  <2> HIDE DEF Def
  <2> QED BY <2>9
<1> DEFINE after == CHOOSE f : Def(f)
<1>3. Def(after)
  <2> HIDE DEF Def
  <2> QED BY <1>2
<1>4. Suppress(s, kills) = after[Len(s)]
  BY Zenon DEF Suppress
<1> HIDE DEF after, Body
<1>5. DOMAIN after = 0..Len(s) /\ after = [m \in 0..Len(s) |-> after[m]]
  BY <1>3
<1>6. after[0] = s
  BY <1>1, <1>3
<1>7. ASSUME NEW m \in 1..Len(s) PROVE after[m] = Round(kills, m, after[m - 1])
  <2>1. m \in 0..Len(s) /\ m # 0
    BY <1>1
  <2>2. after[m] = Body(m, after[m - 1])
    BY <1>3, <2>1
  <2> QED BY <1>0, <2>2
<1> HIDE DEF Def
<1> DEFINE U == {m \in 0..Len(s) : after[m] \in Seq(S)}
<1>8. 0..Len(s) \subseteq U
  <2>1. 0 \in U
    BY <1>1, <1>6
  <2>2. ASSUME NEW m \in 0..(Len(s) - 1), m \in U PROVE m + 1 \in U
    <3>1. m + 1 \in 1..Len(s) /\ m + 1 \in 0..Len(s) /\ m + 1 \in Nat \ {0}
      BY <1>1
    <3>2. after[m + 1] = Round(kills, m + 1, after[m]) /\ after[m] \in Seq(S)
      BY <1>7, <2>2, <3>1
    <3> QED BY <3>1, <3>2, RoundType
  <2> HIDE DEF U
  <2> QED BY <1>1, <2>1, <2>2, Induction
<1>9. after \in [0..Len(s) -> Seq(S)]
  BY <1>5, <1>8
<1> QED BY <1>4, <1>6, <1>7, <1>9

\* What is kept after m rounds: e tells where it was found.  None of it is
\* suppressed by one of the first m, and what is gone was suppressed by one of them.
Greedy(e, t, s, kills, m) ==
  /\ Picks(e, t, s)
  /\ \A p, q \in DOMAIN t : p < q /\ p <= m => <<t[p], t[q]>> \notin kills
  /\ \A k \in DOMAIN s : (\A q \in DOMAIN t : e[q] # k) =>
       \E p \in DOMAIN t : p <= m /\ e[p] < k /\ <<t[p], s[k]>> \in kills

\* A round that has its place.
LEMMA GreedyRound ==
  ASSUME NEW S, NEW s \in Seq(S), NEW kills, NEW t \in Seq(S), NEW m \in 1..Len(t),
         NEW e, Greedy(e, t, s, kills, m - 1), NEW u, u = Round(kills, m, t)
  PROVE  \E f : Greedy(f, u, s, kills, m)
<1>1. PICK d : /\ Picks(d, u, t)
               /\ \A p \in 1..m : d[p] = p
               /\ \A k \in (m + 1)..Len(t) :
                    <<t[m], t[k]>> \notin kills <=> \E p \in DOMAIN u : d[p] = k
  BY RoundElements
<1>2. Len(u) >= m /\ u \in Seq(S)
  <2>1. m \in Nat \ {0}
    OBVIOUS
  <2> QED BY <2>1, RoundElements, RoundType
<1>3. /\ DOMAIN u = 1..Len(u) /\ DOMAIN t = 1..Len(t) /\ DOMAIN s = 1..Len(s)
      /\ Len(u) \in Nat /\ Len(t) \in Nat /\ Len(s) \in Nat /\ m \in Nat
  BY <1>2
<1>4. /\ d \in [1..Len(u) -> 1..Len(t)]
      /\ \A p, q \in 1..Len(u) : p < q => d[p] < d[q]
      /\ \A p \in 1..Len(u) : u[p] = t[d[p]]
  BY <1>1, <1>3 DEF Picks
<1>5. /\ e \in [1..Len(t) -> 1..Len(s)]
      /\ \A p, q \in 1..Len(t) : p < q => e[p] < e[q]
      /\ \A p \in 1..Len(t) : t[p] = s[e[p]]
  BY <1>3 DEF Greedy, Picks
<1> DEFINE f == [p \in 1..Len(u) |-> e[d[p]]]
<1>6. f \in [1..Len(u) -> 1..Len(s)] /\ \A p \in 1..Len(u) : f[p] = e[d[p]]
  BY <1>4, <1>5
<1> HIDE DEF f
<1>7. Picks(f, u, s)
  <2>1. ASSUME NEW p \in 1..Len(u), NEW q \in 1..Len(u), p < q PROVE f[p] < f[q]
    <3>1. d[p] \in 1..Len(t) /\ d[q] \in 1..Len(t) /\ d[p] < d[q]
      BY <1>4, <2>1
    <3> QED BY <1>5, <1>6, <3>1
  <2>2. ASSUME NEW p \in 1..Len(u) PROVE u[p] = s[f[p]]
    <3>1. d[p] \in 1..Len(t) /\ u[p] = t[d[p]]
      BY <1>4
    <3> QED BY <1>5, <1>6, <3>1
  <2> QED BY <1>3, <1>6, <2>1, <2>2 DEF Picks
<1>8. ASSUME NEW p \in 1..Len(u), p <= m PROVE d[p] = p /\ u[p] = t[p] /\ f[p] = e[p]
  <2>1. p \in 1..m
    BY <1>3, <1>8
  <2> QED BY <1>1, <1>4, <1>6, <2>1
<1>9. ASSUME NEW p \in DOMAIN u, NEW q \in DOMAIN u, p < q, p <= m
      PROVE  <<u[p], u[q]>> \notin kills
  <2>1. p \in 1..Len(u) /\ q \in 1..Len(u) /\ d[p] < d[q] /\ d[q] \in 1..Len(t)
    BY <1>3, <1>4, <1>9
  <2>2. u[p] = t[p] /\ u[q] = t[d[q]] /\ d[p] = p
    BY <1>4, <1>8, <1>9, <2>1
  <2>3. CASE p < m
    <3>1. p \in DOMAIN t /\ d[q] \in DOMAIN t /\ p <= m - 1
      BY <1>3, <2>1, <2>3
    <3>2. p < d[q]
      BY <2>1, <2>2
    <3>3. <<t[p], t[d[q]]>> \notin kills
      BY <3>1, <3>2 DEF Greedy
    <3> QED BY <2>2, <3>3
  <2>4. CASE p = m
    <3>1. d[q] \in (m + 1)..Len(t)
      BY <1>3, <2>1, <2>2, <2>4
    <3>2. <<t[m], t[d[q]]>> \notin kills
      BY <1>1, <1>9, <3>1
    <3> QED BY <2>2, <2>4, <3>2
  <2> QED BY <1>3, <1>9, <2>1, <2>3, <2>4
<1>10. ASSUME NEW k \in DOMAIN s, \A q \in DOMAIN u : f[q] # k
       PROVE  \E p \in DOMAIN u : p <= m /\ f[p] < k /\ <<u[p], s[k]>> \in kills
  <2>1. CASE \A q \in DOMAIN t : e[q] # k
    <3>1. PICK p \in DOMAIN t : p <= m - 1 /\ e[p] < k /\ <<t[p], s[k]>> \in kills
      BY <2>1 DEF Greedy
    <3>2. p \in 1..Len(u) /\ p <= m
      BY <1>2, <1>3, <3>1
    <3>3. u[p] = t[p] /\ f[p] = e[p]
      BY <1>8, <3>2
    <3> QED BY <1>3, <3>1, <3>2, <3>3
  <2>2. CASE \E q \in DOMAIN t : e[q] = k
    <3>1. PICK q \in 1..Len(t) : e[q] = k
      BY <1>3, <2>2
    <3>2. \A p \in 1..Len(u) : d[p] # q
      BY <1>3, <1>6, <1>10, <3>1
    <3>3. ~ (q <= m)
      <4>1. SUFFICES ASSUME q <= m PROVE FALSE
        OBVIOUS
      <4>2. q \in 1..Len(u)
        BY <1>2, <1>3, <4>1
      <4> QED BY <1>8, <3>2, <4>1, <4>2
    <3>4. q \in (m + 1)..Len(t)
      BY <1>3, <3>3
    <3>5. <<t[m], t[q]>> \in kills
      BY <1>1, <1>3, <3>2, <3>4
    <3>6. m \in 1..Len(u) /\ m \in 1..Len(t)
      BY <1>2, <1>3
    <3>7. u[m] = t[m] /\ f[m] = e[m] /\ t[q] = s[k] /\ e[m] < e[q]
      BY <1>3, <1>5, <1>8, <3>1, <3>4, <3>6
    <3>8. <<u[m], s[k]>> \in kills /\ f[m] < k /\ m <= m
      BY <1>3, <3>1, <3>5, <3>7
    <3> QED BY <1>3, <3>6, <3>8
  <2> QED BY <2>1, <2>2
<1>11. Greedy(f, u, s, kills, m)
  BY <1>7, <1>9, <1>10 DEF Greedy
<1> QED BY <1>11

\* An increasing sequence of numbers is at p not below p, and its first n values are
\* n.
LEMMA Increasing ==
  ASSUME NEW n \in Nat, NEW N \in Nat, NEW e \in [1..n -> 1..N],
         \A p, q \in 1..n : p < q => e[p] < e[q]
  PROVE  /\ n <= N
         /\ \A q \in 0..n : Cardinality({e[p] : p \in 1..q}) = q
<1> DEFINE U == {q \in 0..n : q > 0 => e[q] >= q}
<1>1. 0 \in U
  OBVIOUS
<1>2. ASSUME NEW q \in 0..(n - 1), q \in U PROVE q + 1 \in U
  <2>1. q + 1 \in 1..n /\ q + 1 \in 0..n
    OBVIOUS
  <2>2. e[q + 1] \in 1..N
    BY <2>1
  <2>3. CASE q = 0
    BY <2>1, <2>2, <2>3
  <2>4. CASE q > 0
    <3>1. q \in 1..n /\ e[q] \in 1..N
      BY <2>4
    <3>2. e[q] < e[q + 1] /\ e[q] >= q
      BY <1>2, <2>1, <2>4, <3>1
    <3> QED BY <2>1, <2>2, <3>1, <3>2
  <2> QED BY <2>3, <2>4
<1>3. 0..n \subseteq U
  <2> HIDE DEF U
  <2> QED BY <1>1, <1>2, Induction
<1>4. n <= N
  <2>1. CASE n = 0
    BY <2>1
  <2>2. CASE n > 0
    <3>1. n \in 0..n /\ n \in 1..n
      BY <2>2
    <3>2. e[n] >= n /\ e[n] \in 1..N
      BY <1>3, <2>2, <3>1
    <3> QED BY <3>2
  <2> QED BY <2>1, <2>2
<1>5. ASSUME NEW q \in 0..n PROVE Cardinality({e[p] : p \in 1..q}) = q
  <2> DEFINE V == {e[p] : p \in 1..q}
             d == [p \in 1..q |-> e[p]]
  <2>1. d \in [1..q -> V]
    OBVIOUS
  <2>2. \A y \in V : \E p \in 1..q : d[p] = y
    OBVIOUS
  <2>3. ASSUME NEW a \in 1..q, NEW b \in 1..q, d[a] = d[b] PROVE a = b
    <3>1. a \in 1..n /\ b \in 1..n /\ e[a] = e[b] /\ e[a] \in 1..N
      BY <2>3
    <3>2. ~ (a < b) /\ ~ (b < a)
      BY <3>1
    <3> QED BY <3>1, <3>2
  <2> HIDE DEF d, V
  <2>4. d \in Bijection(1..q, V)
    BY <2>1, <2>2, <2>3 DEF Bijection, Injection, Surjection, IsInjective
  <2>5. ExistsBijection(1..q, V) /\ q \in Nat
    BY <2>4 DEF ExistsBijection
  <2>6. Cardinality(V) = q
    BY <2>5, FS_CountingElements
  <2> QED BY <2>6 DEF V
<1> QED BY <1>4, <1>5

\* What Suppress returns.
LEMMA SuppressElements ==
  ASSUME NEW S, NEW s \in Seq(S), NEW kills
  PROVE  /\ Suppress(s, kills) \in Seq(S)
         /\ \E e : Greedy(e, Suppress(s, kills), s, kills, Len(s))
<1> DEFINE Rounds(after) == \A m \in 1..Len(s) : after[m] = Round(kills, m, after[m - 1])
<1>1. PICK after \in [0..Len(s) -> Seq(S)] :
        /\ after[0] = s
        /\ Rounds(after)
        /\ Suppress(s, kills) = after[Len(s)]
  <2>1. PICK t : t = Suppress(s, kills)
    OBVIOUS
  <2> QED BY <2>1, SuppressDef
<1>2. Len(s) \in Nat
  OBVIOUS
<1> DEFINE U == {m \in 0..Len(s) : \E e : Greedy(e, after[m], s, kills, m)}
<1>3. 0 \in U
  <2> DEFINE e == [p \in 1..Len(s) |-> p]
  <2>1. Picks(e, s, s)
    BY DEF Picks
  <2>2. \A k \in DOMAIN s : e[k] = k
    OBVIOUS
  <2> HIDE DEF e
  <2>3. Greedy(e, s, s, kills, 0)
    <3>1. \A p \in DOMAIN s : ~ (p <= 0)
      OBVIOUS
    <3>2. \A k \in DOMAIN s : ~ \A q \in DOMAIN s : e[q] # k
      BY <2>2
    <3> QED BY <2>1, <3>1, <3>2 DEF Greedy
  <2> QED BY <1>1, <1>2, <2>3
<1>4. ASSUME NEW m \in 0..(Len(s) - 1), m \in U PROVE m + 1 \in U
  <2>1. PICK e : Greedy(e, after[m], s, kills, m)
    BY <1>4
  <2>2. m + 1 \in 1..Len(s) /\ m + 1 \in 0..Len(s) /\ (m + 1) - 1 = m
    BY <1>2
  <2>3. after[m] \in Seq(S) /\ after[m + 1] = Round(kills, m + 1, after[m])
    BY <1>1, <2>2
  <2>4. PICK t, u : t = after[m] /\ u = after[m + 1]
    OBVIOUS
  <2>5. t \in Seq(S) /\ u = Round(kills, m + 1, t) /\ Greedy(e, t, s, kills, m)
    BY <2>1, <2>3, <2>4
  <2>6. CASE m + 1 <= Len(t)
    <3>1. m + 1 \in 1..Len(t) /\ Greedy(e, t, s, kills, (m + 1) - 1)
      BY <2>2, <2>5, <2>6
    <3>2. \E f : Greedy(f, u, s, kills, m + 1)
      BY <2>5, <3>1, GreedyRound
    <3> QED BY <2>2, <2>4, <3>2
  <2>7. CASE m + 1 > Len(t)
    <3>1. u = t
      BY <2>5, <2>7 DEF Round
    <3>2. DOMAIN t = 1..Len(t) /\ Len(t) \in Nat
      BY <2>5
    <3>3. \A p \in DOMAIN t : p <= m
      BY <2>7, <3>2
    <3>4. \A p \in DOMAIN t : p <= m + 1
      BY <2>7, <3>2
    <3>5. Greedy(e, t, s, kills, m + 1)
      BY <2>5, <3>3, <3>4 DEF Greedy
    <3> QED BY <2>2, <2>4, <3>1, <3>5
  <2>8. Len(t) \in Nat
    BY <2>5
  <2> QED BY <2>6, <2>7, <2>8
<1>5. 0..Len(s) \subseteq U
  <2> HIDE DEF U
  <2> QED BY <1>2, <1>3, <1>4, Induction
<1>6. Len(s) \in 0..Len(s)
  BY <1>2
<1> QED BY <1>1, <1>5, <1>6

\* Non-maximum suppression, whatever the detections and whatever suppresses what: the
\* loops that erase from the sequence they run over make the greedy choice.
THEOREM SuppressIsGreedy ==
  ASSUME NEW S, NEW s \in Seq(S), NEW kills
  PROVE  IsGreedyChoice(Suppress(s, kills), s, kills)
<1>1. PICK t : t = Suppress(s, kills)
  OBVIOUS
<1>2. t \in Seq(S)
  BY <1>1, SuppressElements
<1>3. PICK e : Greedy(e, t, s, kills, Len(s))
  BY <1>1, SuppressElements
<1>4. DOMAIN t = 1..Len(t) /\ DOMAIN s = 1..Len(s) /\ Len(t) \in Nat /\ Len(s) \in Nat
  BY <1>2
<1>5. /\ e \in [1..Len(t) -> 1..Len(s)]
      /\ \A p, q \in 1..Len(t) : p < q => e[p] < e[q]
      /\ \A p \in 1..Len(t) : t[p] = s[e[p]]
  BY <1>3, <1>4 DEF Greedy, Picks
<1>6. Len(t) <= Len(s)
  BY <1>4, <1>5, Increasing
<1>7. \A q \in 0..Len(t) : Cardinality({e[p] : p \in 1..q}) = q
  BY <1>4, <1>5, Increasing
<1>8. \A p, q \in 1..Len(t) : p < q => <<t[p], t[q]>> \notin kills
  <2>1. \A p \in 1..Len(t) : p <= Len(s)
    BY <1>4, <1>6
  <2> QED BY <1>3, <1>4, <2>1 DEF Greedy
<1> DEFINE places == {e[p] : p \in 1..Len(t)}
<1>9. places \in SUBSET DOMAIN s
  BY <1>4, <1>5
<1>10. ASSUME NEW k \in DOMAIN s
       PROVE  k \in places <=> ~ \E l \in places : l < k /\ <<s[l], s[k]>> \in kills
  <2>1. ASSUME k \in places, NEW l \in places, l < k PROVE <<s[l], s[k]>> \notin kills
    <3>1. PICK q \in 1..Len(t) : k = e[q]
      BY <2>1
    <3>2. PICK p \in 1..Len(t) : l = e[p]
      BY <2>1
    <3>3. e[p] \in 1..Len(s) /\ e[q] \in 1..Len(s)
      BY <1>5
    <3>4. ~ (q < p) /\ q # p
      BY <1>4, <1>5, <2>1, <3>1, <3>2, <3>3
    <3>5. p < q
      BY <3>4
    <3> QED BY <1>5, <1>8, <3>1, <3>2, <3>5
  <2>2. ASSUME k \notin places PROVE \E l \in places : l < k /\ <<s[l], s[k]>> \in kills
    <3>1. \A q \in DOMAIN t : e[q] # k
      BY <1>4, <2>2
    <3>2. PICK p \in DOMAIN t : e[p] < k /\ <<t[p], s[k]>> \in kills
      BY <1>3, <3>1 DEF Greedy
    <3> QED BY <1>4, <1>5, <3>2
  <2> HIDE DEF places
  <2> QED BY <2>1, <2>2
<1>11. Len(t) = Cardinality(places)
  BY <1>4, <1>7
<1>12. ASSUME NEW k \in places PROVE t[Cardinality({l \in places : l <= k})] = s[k]
  <2>1. PICK q \in 1..Len(t) : k = e[q]
    OBVIOUS
  <2>2. ASSUME NEW p \in 1..Len(t) PROVE e[p] <= e[q] <=> p <= q
    <3>1. e[p] \in 1..Len(s) /\ e[q] \in 1..Len(s)
      BY <1>5
    <3>2. CASE p < q
      BY <1>5, <3>1, <3>2
    <3>3. CASE q < p
      <4>1. e[q] < e[p]
        BY <1>5, <3>3
      <4> QED BY <3>1, <3>3, <4>1
    <3>4. CASE p = q
      BY <3>1, <3>4
    <3> QED BY <3>2, <3>3, <3>4
  <2>3. {l \in places : l <= k} = {e[p] : p \in 1..q}
    <3>1. ASSUME NEW l \in places, l <= k PROVE l \in {e[p] : p \in 1..q}
      <4>1. PICK p \in 1..Len(t) : l = e[p]
        OBVIOUS
      <4>2. p \in 1..q
        BY <2>1, <2>2, <3>1, <4>1
      <4> QED BY <4>1, <4>2
    <3>2. ASSUME NEW p \in 1..q PROVE e[p] \in places /\ e[p] <= k
      <4>1. p \in 1..Len(t) /\ p <= q
        BY <1>4
      <4> QED BY <2>1, <2>2, <4>1
    <3> HIDE DEF places
    <3> QED BY <3>1, <3>2
  <2>4. q \in 0..Len(t)
    BY <1>4
  <2>5. Cardinality({l \in places : l <= k}) = q
    BY <1>7, <2>3, <2>4
  <2> QED BY <1>5, <2>1, <2>5
<1> HIDE DEF places
<1>13. IsGreedyChoice(t, s, kills)
  BY <1>9, <1>10, <1>11, <1>12 DEF IsGreedyChoice
<1> QED BY <1>1, <1>13

-----------------------------------------------------------------------------
(* Boxes                                                                   *)

\* Overlap does not depend on which of the two comes first.
LEMMA IntersectionSymmetric ==
  ASSUME NEW a \in Box, NEW b \in Box
  PROVE  /\ HasIntersection(a, b) <=> HasIntersection(b, a)
         /\ Intersection(a, b) = Intersection(b, a)
         /\ Intersection(a, b) \in Int /\ Area(a) \in Int
<1>1. /\ a[1] \in Int /\ a[2] \in Int /\ a[3] \in Int /\ a[4] \in Int
      /\ b[1] \in Int /\ b[2] \in Int /\ b[3] \in Int /\ b[4] \in Int
  BY DEF Box
<1>2. HasIntersection(a, b) <=> HasIntersection(b, a)
  BY DEF HasIntersection
<1>3. /\ Smaller(a[3], b[3]) = Smaller(b[3], a[3]) /\ Smaller(a[4], b[4]) = Smaller(b[4], a[4])
      /\ Larger(a[1], b[1]) = Larger(b[1], a[1]) /\ Larger(a[2], b[2]) = Larger(b[2], a[2])
  BY <1>1 DEF Smaller, Larger
<1>4. /\ Smaller(a[3], b[3]) \in Int /\ Smaller(a[4], b[4]) \in Int
      /\ Larger(a[1], b[1]) \in Int /\ Larger(a[2], b[2]) \in Int
  BY <1>1 DEF Smaller, Larger
<1>5. Intersection(a, b) = Intersection(b, a)
  BY <1>2, <1>3 DEF Intersection
<1>6. Intersection(a, b) \in Int
  BY <1>4 DEF Intersection
<1>7. Area(a) \in Int
  BY <1>1 DEF Area
<1> QED BY <1>2, <1>5, <1>6, <1>7

\* Neither does being the same plate.
LEMMA SameSymmetric ==
  ASSUME NEW a \in Box, NEW b \in Box
  PROVE  Same(a, b) <=> Same(b, a)
<1>1. /\ Intersection(a, b) = Intersection(b, a) /\ Intersection(a, b) \in Int
      /\ Area(a) \in Int /\ Area(b) \in Int
  BY IntersectionSymmetric
<1> QED BY <1>1 DEF Same, IouAbove

-----------------------------------------------------------------------------
(* Vehicles and their plates                                               *)

Having(vs, i, ps) == [vs EXCEPT ![i].plates = ps]

\* A sequence in which one vehicle gets other plates.
LEMMA OtherPlates ==
  ASSUME NEW vs \in Seq(Vehicle), NEW i \in DOMAIN vs, NEW ps \in Seq(Box \ Unwanted),
         NEW ws, ws = Having(vs, i, ps)
  PROVE  /\ ws \in Seq(Vehicle) /\ Len(ws) = Len(vs) /\ DOMAIN ws = DOMAIN vs
         /\ ws[i].plates = ps
         /\ \A k \in DOMAIN vs : ws[k].box = vs[k].box /\ (k # i => ws[k] = vs[k])
<1>1. DOMAIN vs = 1..Len(vs) /\ Len(vs) \in Nat /\ \A k \in DOMAIN vs : vs[k] \in Vehicle
  OBVIOUS
<1>2. ws \in [DOMAIN vs -> Vehicle]
  <2>1. [vs[i] EXCEPT !.plates = ps] \in Vehicle
    BY <1>1 DEF Vehicle
  <2> QED BY <1>1, <2>1 DEF Having
<1>3. ws \in Seq(Vehicle) /\ Len(ws) = Len(vs) /\ DOMAIN ws = DOMAIN vs
  BY <1>1, <1>2
<1>4. ws[i] = [vs[i] EXCEPT !.plates = ps] /\ vs[i] \in Vehicle
  BY <1>1 DEF Having
<1>5. ws[i].plates = ps /\ ws[i].box = vs[i].box
  BY <1>4 DEF Vehicle
<1>6. \A k \in DOMAIN vs : k # i => ws[k] = vs[k]
  BY DEF Having
<1> QED BY <1>3, <1>5, <1>6

\* Whose plates they are.
LEMMA PlatesOfElements ==
  ASSUME NEW vs \in Seq(Vehicle), NEW p
  PROVE  p \in PlatesOf(vs) <=>
           \E v \in DOMAIN vs : \E a \in DOMAIN vs[v].plates : p = vs[v].plates[a]
BY DEF PlatesOf, ToSet

\* A vehicle without one of its plates: the others are still there, and it is the only
\* one that may be gone.
LEMMA WithoutPlate ==
  ASSUME NEW vs \in Seq(Vehicle), NEW i \in DOMAIN vs, NEW m \in DOMAIN vs[i].plates,
         NEW ws, ws = Having(vs, i, RemoveAt(vs[i].plates, m))
  PROVE  /\ ws \in Seq(Vehicle) /\ Len(ws) = Len(vs) /\ DOMAIN ws = DOMAIN vs
         /\ \A k \in DOMAIN vs : ws[k].box = vs[k].box /\ (k # i => ws[k] = vs[k])
         /\ Len(ws[i].plates) = Len(vs[i].plates) - 1
         /\ \A a \in DOMAIN ws[i].plates :
              /\ IF a < m THEN a \in DOMAIN vs[i].plates ELSE a + 1 \in DOMAIN vs[i].plates
              /\ ws[i].plates[a] = vs[i].plates[IF a < m THEN a ELSE a + 1]
         /\ PlatesOf(ws) \subseteq PlatesOf(vs)
         /\ \A p \in PlatesOf(vs) : p \in PlatesOf(ws) \/ p = vs[i].plates[m]
<1> DEFINE s == vs[i].plates
           t == RemoveAt(s, m)
           Plates == Box \ Unwanted
<1>0. vs[i] \in Vehicle
  OBVIOUS
<1>1. s \in Seq(Plates) /\ m \in 1..Len(s) /\ DOMAIN s = 1..Len(s) /\ Len(s) \in Nat
  <2>1. s \in Seq(Plates)
    BY <1>0 DEF Vehicle
  <2> QED BY <2>1
<1>2. /\ t \in Seq(Plates) /\ Len(t) = Len(s) - 1
      /\ \A k \in 1..(Len(s) - 1) : t[k] = s[IF k < m THEN k ELSE k + 1]
  <2> HIDE DEF s, Plates
  <2> QED BY <1>1, RemoveAtElements
<1>3. /\ ws \in Seq(Vehicle) /\ Len(ws) = Len(vs) /\ DOMAIN ws = DOMAIN vs
      /\ ws[i].plates = t
      /\ \A k \in DOMAIN vs : ws[k].box = vs[k].box /\ (k # i => ws[k] = vs[k])
  <2> HIDE DEF t
  <2>1. ws = Having(vs, i, t)
    BY DEF t
  <2>2. t \in Seq(Box \ Unwanted)
    BY <1>2
  <2> QED BY <2>1, <2>2, OtherPlates
<1>4. DOMAIN t = 1..(Len(s) - 1)
  BY <1>1, <1>2
<1> HIDE DEF t, s
<1>5. ASSUME NEW a \in DOMAIN t
      PROVE  /\ IF a < m THEN a \in DOMAIN s ELSE a + 1 \in DOMAIN s
             /\ t[a] = s[IF a < m THEN a ELSE a + 1]
  BY <1>1, <1>2, <1>4
<1>6. ASSUME NEW p \in PlatesOf(ws) PROVE p \in PlatesOf(vs)
  <2>0. PICK v \in DOMAIN ws : \E a \in DOMAIN ws[v].plates : p = ws[v].plates[a]
    BY <1>3, PlatesOfElements
  <2>1. PICK a \in DOMAIN ws[v].plates : p = ws[v].plates[a]
    BY <2>0
  <2>2. CASE v # i
    BY <1>3, <2>1, <2>2, PlatesOfElements
  <2>3. CASE v = i
    <3>1. PICK b \in DOMAIN s : p = s[b]
      BY <1>3, <1>5, <2>1, <2>3
    <3> QED BY <3>1, PlatesOfElements DEF s
  <2> QED BY <2>2, <2>3
<1>7. ASSUME NEW p \in PlatesOf(vs), p # s[m] PROVE p \in PlatesOf(ws)
  <2>0. PICK v \in DOMAIN vs : \E a \in DOMAIN vs[v].plates : p = vs[v].plates[a]
    BY PlatesOfElements
  <2>1. PICK a \in DOMAIN vs[v].plates : p = vs[v].plates[a]
    BY <2>0
  <2>2. CASE v # i
    BY <1>3, <2>1, <2>2, PlatesOfElements
  <2>3. CASE v = i
    <3>1. a \in 1..Len(s) /\ p = s[a] /\ a # m
      BY <1>1, <1>7, <2>1, <2>3 DEF s
    <3>2. \E b \in DOMAIN t : p = t[b]
      <4>1. CASE a < m
        <5>1. a \in 1..(Len(s) - 1)
          BY <1>1, <3>1, <4>1
        <5>2. t[a] = s[a]
          BY <1>2, <4>1, <5>1
        <5> QED BY <1>4, <3>1, <5>1, <5>2
      <4>2. CASE a > m
        <5>1. a - 1 \in 1..(Len(s) - 1) /\ ~ (a - 1 < m) /\ (a - 1) + 1 = a
          BY <1>1, <3>1, <4>2
        <5>2. t[a - 1] = s[a]
          BY <1>2, <5>1
        <5> QED BY <1>4, <3>1, <5>1, <5>2
      <4> QED BY <1>1, <3>1, <4>1, <4>2
    <3> QED BY <1>3, <3>2, PlatesOfElements
  <2> QED BY <2>2, <2>3
<1> QED BY <1>2, <1>3, <1>5, <1>6, <1>7 DEF s

\* All plates P are linked to the plates Q among them.
Linked(P, Q) ==
  /\ Q \subseteq P
  /\ \A linked \in SUBSET P :
       /\ Q \subseteq linked
       /\ \A p \in P, q \in linked : Same(p, q) => p \in linked
       => linked = P

\* They still are when those go that duplicate one that stays.
LEMMA LinkedStays ==
  ASSUME NEW P, NEW Q, Linked(P, Q), NEW R \in SUBSET Q,
         \A p \in Q \ R : \E q \in R : Same(p, q)
  PROVE  Linked(P, R)
<1>1. R \subseteq P
  BY DEF Linked
<1>2. ASSUME NEW linked \in SUBSET P, R \subseteq linked,
             \A p \in P, q \in linked : Same(p, q) => p \in linked
      PROVE  linked = P
  <2>1. Q \subseteq linked
    BY <1>2 DEF Linked
  <2> QED BY <1>2, <2>1 DEF Linked
<1> QED BY <1>1, <1>2 DEF Linked

-----------------------------------------------------------------------------
(* The invariant                                                           *)

\* A frame strays in removeDuplicatePlates only; what the networks found is kept
\* as long as it matters.
StagesOK ==
  /\ stage \in {"vehicles", "plates", "chars", "over"} => ~ strayed
  /\ stage = "vehicles" => at = Start
  /\ stage = "plates" /\ at.i = 1 =>
       /\ output \in VehicleOutputs
       /\ [k \in DOMAIN vehicles |-> vehicles[k].box] = Suppress(output, VehicleKills(output))
  /\ stage = "plates" /\ at.i > 1 => output \in PlateOutputs

\* The loops over vehicles stay within them, boxes do not change and plates only
\* become fewer.
LoopsOK ==
  /\ Len(found) = Len(vehicles)
  /\ \A k \in DOMAIN vehicles :
       /\ found[k].box = vehicles[k].box
       /\ Len(vehicles[k].plates) <= Len(found[k].plates)
  /\ at.i < Len(vehicles) => at.i < at.j /\ at.j <= Len(vehicles) + 1

Overlap(v, w) == HasIntersection(vehicles[v].box, vehicles[w].box)

\* The plates a of vehicle v and b of vehicle w have been compared.
Compared(v, w, a, b) ==
  \/ v < at.i
  \/ v = at.i /\ w < at.j
  \/ v = at.i /\ w = at.j /\ a < at.m
  \/ v = at.i /\ w = at.j /\ a = at.m /\ b < at.n

\* Of two that have been compared and are still there, none duplicates the other.
ComparedDiffer ==
  \A v, w \in DOMAIN vehicles : v < w /\ Overlap(v, w) =>
    \A a \in DOMAIN vehicles[v].plates, b \in DOMAIN vehicles[w].plates :
      Compared(v, w, a, b) => ~ Same(vehicles[v].plates[a], vehicles[w].plates[b])

\* The iterator is before the first plate only after a plate was erased from a
\* vehicle that had at least as many as the other, which has at least n.
BeforeFirst ==
  at.m = 0 =>
    /\ at.i < Len(vehicles) /\ at.j <= Len(vehicles) /\ Overlap(at.i, at.j)
    /\ at.n > 1
    /\ at.n <= Len(vehicles[at.j].plates) => Len(found[at.i].plates) > 1

PairsOK == stage = "pairs" => LoopsOK /\ ComparedDiffer /\ BeforeFirst

IInv ==
  /\ TypeOK /\ StagesOK /\ PairsOK
  /\ OnlyDuplicatesGo /\ StrayNeedsTwoPlates

\* The first vehicles, without plates.
LEMMA VehiclesType ==
  ASSUME NEW kept \in Seq(Box), NEW vs,
         vs = [k \in DOMAIN kept |-> [box |-> kept[k], plates |-> <<>>]]
  PROVE  vs \in Seq(Vehicle) /\ [k \in DOMAIN vs |-> vs[k].box] = kept
<1>1. DOMAIN kept = 1..Len(kept) /\ Len(kept) \in Nat /\ kept = [k \in DOMAIN kept |-> kept[k]]
  OBVIOUS
<1>2. DOMAIN vs = DOMAIN kept /\ \A k \in DOMAIN vs : vs[k].box = kept[k]
  OBVIOUS
<1>3. vs \in [1..Len(kept) -> Vehicle]
  BY <1>1 DEF Vehicle
<1>4. [k \in DOMAIN vs |-> vs[k].box] = kept
  BY <1>1, <1>2
<1> QED BY <1>1, <1>3, <1>4

\* The elements that Keep returns are in the set.
LEMMA KeepType ==
  ASSUME NEW S, NEW s \in Seq(S), NEW T
  PROVE  Keep(s, T) \in Seq(S \intersect T)
<1>1. PICK t : t = Keep(s, T)
  OBVIOUS
<1>2. t \in Seq(S)
  BY <1>1, KeepElements
<1>3. PICK e : Picks(e, t, s) /\ \A k \in DOMAIN s : s[k] \in T <=> \E p \in DOMAIN t : e[p] = k
  BY <1>1, KeepElements
<1>4. ASSUME NEW p \in DOMAIN t PROVE t[p] \in S \intersect T
  <2>1. e[p] \in DOMAIN s /\ t[p] = s[e[p]]
    BY <1>3 DEF Picks
  <2> QED BY <1>2, <1>3, <2>1
<1> QED BY <1>1, <1>2, <1>4

\* The plates a vehicle gets are wanted.
LEMMA WantedType ==
  ASSUME NEW plates \in Seq(Detected)
  PROVE  Wanted(plates) \in Seq(Box \ Unwanted)
<1> DEFINE kept == Suppress(plates, PlateKills(plates))
           boxes == [k \in DOMAIN kept |-> kept[k].box]
           T == ToSet(boxes) \ Unwanted
<1>1. kept \in Seq(Detected)
  <2> DEFINE kills == PlateKills(plates)
  <2> HIDE DEF kills
  <2>1. Suppress(plates, kills) \in Seq(Detected)
    BY SuppressElements
  <2> QED BY <2>1 DEF kills
<1> HIDE DEF kept
<1>2. DOMAIN kept = 1..Len(kept) /\ Len(kept) \in Nat /\ \A k \in DOMAIN kept : kept[k] \in Detected
  BY <1>1
<1>3. boxes \in [1..Len(kept) -> Box]
  BY <1>2 DEF Detected
<1>4. boxes \in Seq(Box)
  BY <1>2, <1>3
<1>5. Wanted(plates) = Keep(boxes, T)
  BY DEF Wanted, kept
<1>6. Keep(boxes, T) \in Seq(Box \intersect T)
  <2> HIDE DEF T, boxes
  <2> QED BY <1>4, KeepType
<1>7. Box \intersect T \subseteq Box \ Unwanted
  OBVIOUS
<1>8. ASSUME NEW A, NEW B, A \subseteq B PROVE Seq(A) \subseteq Seq(B)
  BY <1>8
<1> QED BY <1>5, <1>6, <1>7, <1>8

-----------------------------------------------------------------------------
(* Each step keeps the invariant                                           *)

\* The first frame.
LEMMA InitIInv == Init => IInv
<1> SUFFICES ASSUME Init PROVE IInv
  OBVIOUS
<1> USE DEF Init
<1>1. TypeOK
  <2>1. vehicles \in Seq(Vehicle) /\ found \in Seq(Vehicle)
    OBVIOUS
  <2>2. Start \in [i : Nat \ {0}, j : Nat \ {0}, m : Nat, n : Nat \ {0}]
    BY DEF Start
  <2> QED BY <2>1, <2>2 DEF TypeOK
<1>2. StagesOK /\ PairsOK
  BY DEF StagesOK, PairsOK
<1>3. OnlyDuplicatesGo /\ StrayNeedsTwoPlates
  BY DEF OnlyDuplicatesGo, NoDuplicates, NothingLost, StrayNeedsTwoPlates
<1> QED BY <1>1, <1>2, <1>3 DEF IInv

\* The vehicle network.
LEMMA DetectVehiclesIInv == IInv /\ DetectVehicles => IInv'
<1> SUFFICES ASSUME IInv, DetectVehicles PROVE IInv'
  OBVIOUS
<1>1. PICK boxes \in VehicleOutputs :
        /\ output' = boxes
        /\ vehicles' = [k \in DOMAIN Suppress(boxes, VehicleKills(boxes)) |->
                         [box |-> Suppress(boxes, VehicleKills(boxes))[k], plates |-> <<>>]]
  BY DEF DetectVehicles
<1>2. /\ stage = "vehicles" /\ stage' = "plates" /\ at = Start
      /\ UNCHANGED <<at, numbers, found, strayed>>
  BY DEF DetectVehicles, IInv, StagesOK
<1>3. PICK kept : kept = Suppress(boxes, VehicleKills(boxes))
  OBVIOUS
<1>4. kept \in Seq(Box)
  <2>1. PICK kills : kills = VehicleKills(boxes)
    OBVIOUS
  <2>2. boxes \in Seq(Box)
    BY OutputsAssumption
  <2>3. Suppress(boxes, kills) \in Seq(Box)
    BY <2>2, SuppressElements
  <2> QED BY <1>3, <2>1, <2>3
<1>5. vehicles' = [k \in DOMAIN kept |-> [box |-> kept[k], plates |-> <<>>]]
  BY <1>1, <1>3
<1>6. vehicles' \in Seq(Vehicle) /\ [k \in DOMAIN vehicles' |-> vehicles'[k].box] = kept
  BY <1>4, <1>5, VehiclesType
<1>7. TypeOK'
  BY <1>1, <1>2, <1>6 DEF TypeOK, IInv
<1>8. StagesOK' /\ PairsOK'
  <2>1. at'.i = 1
    BY <1>2 DEF Start
  <2>2. kept = Suppress(output', VehicleKills(output')) /\ output' \in VehicleOutputs
    BY <1>1, <1>3
  <2>3. ~ strayed'
    BY <1>2 DEF IInv, StagesOK
  <2> QED BY <1>2, <1>6, <2>1, <2>2, <2>3 DEF StagesOK, PairsOK
<1>9. OnlyDuplicatesGo' /\ StrayNeedsTwoPlates'
  BY <1>2 DEF OnlyDuplicatesGo, NoDuplicates, NothingLost, StrayNeedsTwoPlates, IInv
<1> QED BY <1>7, <1>8, <1>9 DEF IInv

\* The plate network, for one vehicle.
LEMMA DetectPlatesIInv == IInv /\ DetectPlates => IInv'
<1> SUFFICES ASSUME IInv, DetectPlates PROVE IInv'
  OBVIOUS
<1>1. PICK plates \in PlateOutputs :
        /\ output' = plates
        /\ vehicles' = [vehicles EXCEPT ![at.i].plates = Wanted(plates)]
  BY DEF DetectPlates
<1>2. /\ stage = "plates" /\ stage' = "plates" /\ at.i <= Len(vehicles)
      /\ at' = [at EXCEPT !.i = @ + 1]
      /\ UNCHANGED <<numbers, found, strayed>>
  BY DEF DetectPlates
<1>3. Wanted(plates) \in Seq(Box \ Unwanted)
  BY OutputsAssumption, WantedType
<1>4. vehicles \in Seq(Vehicle) /\ at.i \in Nat \ {0}
  BY DEF IInv, TypeOK
<1>5. at.i \in DOMAIN vehicles
  BY <1>2, <1>4
<1>6. vehicles' \in Seq(Vehicle)
  BY <1>1, <1>3, <1>4, <1>5, OtherPlates DEF Having
<1>7. TypeOK'
  <2>1. at' \in [i : Nat \ {0}, j : Nat \ {0}, m : Nat, n : Nat \ {0}]
    BY <1>2 DEF TypeOK, IInv
  <2> QED BY <1>1, <1>2, <1>6, <2>1 DEF TypeOK, IInv
<1>8. StagesOK' /\ PairsOK'
  <2>1. at'.i > 1
    BY <1>2, <1>4 DEF IInv, TypeOK
  <2>2. ~ strayed'
    BY <1>2 DEF IInv, StagesOK
  <2> QED BY <1>1, <1>2, <2>1, <2>2 DEF StagesOK, PairsOK
<1>9. OnlyDuplicatesGo' /\ StrayNeedsTwoPlates'
  BY <1>2 DEF OnlyDuplicatesGo, NoDuplicates, NothingLost, StrayNeedsTwoPlates, IInv
<1> QED BY <1>7, <1>8, <1>9 DEF IInv

\* removeDuplicatePlates begins.
LEMMA StartPairsIInv == IInv /\ StartPairs => IInv'
<1> SUFFICES ASSUME IInv, StartPairs PROVE IInv'
  OBVIOUS
<1>1. /\ stage = "plates" /\ stage' = "pairs" /\ at' = Start /\ output' = <<>>
      /\ found' = vehicles /\ UNCHANGED <<vehicles, numbers, strayed>>
  BY DEF StartPairs
<1>2. vehicles \in Seq(Vehicle) /\ ~ strayed
  BY <1>1 DEF IInv, TypeOK, StagesOK
<1>3. TypeOK'
  BY <1>1, <1>2 DEF TypeOK, IInv, Start
<1>4. at'.i = 1 /\ at'.j = 2 /\ at'.m = 1 /\ at'.n = 1
  BY <1>1 DEF Start
<1>5. StagesOK'
  BY <1>1, <1>2 DEF StagesOK
<1>6. LoopsOK'
  <2>1. ASSUME NEW k \in DOMAIN vehicles PROVE Len(vehicles[k].plates) \in Nat
    <3>1. vehicles[k] \in Vehicle
      BY <1>2
    <3>2. vehicles[k].plates \in Seq(Box \ Unwanted)
      BY <3>1 DEF Vehicle
    <3> QED BY <3>2
  <2>2. Len(vehicles) \in Nat
    BY <1>2
  <2> QED BY <1>1, <1>4, <2>1, <2>2 DEF LoopsOK
<1>7. ComparedDiffer'
  <2>1. ASSUME NEW v \in DOMAIN vehicles, NEW w \in DOMAIN vehicles, v < w,
               NEW a \in DOMAIN vehicles[v].plates, NEW b \in DOMAIN vehicles[w].plates
        PROVE  ~ Compared(v, w, a, b)'
    <3>1. v \in Nat \ {0} /\ w \in Nat \ {0}
      BY <1>2
    <3>2. vehicles[v] \in Vehicle /\ vehicles[w] \in Vehicle
      BY <1>2
    <3>3. vehicles[v].plates \in Seq(Box \ Unwanted) /\ vehicles[w].plates \in Seq(Box \ Unwanted)
      BY <3>2 DEF Vehicle
    <3>4. a \in Nat \ {0} /\ b \in Nat \ {0}
      BY <3>3
    <3> QED BY <1>4, <2>1, <3>1, <3>4 DEF Compared
  <2> QED BY <1>1, <2>1 DEF ComparedDiffer
<1>8. PairsOK'
  BY <1>4, <1>6, <1>7 DEF PairsOK, BeforeFirst
<1>9. OnlyDuplicatesGo'
  <2>1. PlatesOf(found') = PlatesOf(vehicles')
    BY <1>1
  <2> QED BY <1>1, <2>1 DEF OnlyDuplicatesGo, NoDuplicates, NothingLost
<1>10. StrayNeedsTwoPlates'
  BY <1>1, <1>2 DEF StrayNeedsTwoPlates
<1> QED BY <1>3, <1>5, <1>8, <1>9, <1>10 DEF IInv

\* One plate is followed.
LEMMA PickPlateIInv == IInv /\ PickPlate => IInv'
<1> SUFFICES ASSUME IInv, PickPlate PROVE IInv'
  OBVIOUS
<1> USE DEF PickPlate
<1>1. TypeOK'
  <2>1. vehicles' \in Seq(Vehicle) /\ found' \in Seq(Vehicle)
    OBVIOUS
  <2> QED BY <2>1 DEF TypeOK, IInv
<1>2. StagesOK' /\ PairsOK'
  BY DEF StagesOK, PairsOK
<1>3. OnlyDuplicatesGo' /\ StrayNeedsTwoPlates'
  BY DEF OnlyDuplicatesGo, NoDuplicates, NothingLost, StrayNeedsTwoPlates
<1> QED BY <1>1, <1>2, <1>3 DEF IInv

\* Its characters are read.
LEMMA ReadPlateIInv == IInv /\ ReadPlate => IInv'
<1> SUFFICES ASSUME IInv, ReadPlate PROVE IInv'
  OBVIOUS
<1>1. /\ stage = "chars" /\ stage' = "over" /\ output' \in CharOutputs
      /\ UNCHANGED <<vehicles, at, found, strayed>>
  BY DEF ReadPlate
<1>2. TypeOK'
  BY <1>1 DEF TypeOK, IInv
<1>3. StagesOK' /\ PairsOK'
  BY <1>1 DEF StagesOK, PairsOK, IInv
<1>4. OnlyDuplicatesGo' /\ StrayNeedsTwoPlates'
  BY <1>1 DEF OnlyDuplicatesGo, NoDuplicates, NothingLost, StrayNeedsTwoPlates, IInv, StagesOK
<1> QED BY <1>2, <1>3, <1>4 DEF IInv

\* The next frame.
LEMMA NextFrameIInv == IInv /\ NextFrame => IInv'
<1> SUFFICES ASSUME IInv, NextFrame PROVE IInv'
  OBVIOUS
<1> USE DEF NextFrame
<1>1. TypeOK'
  <2>1. vehicles' \in Seq(Vehicle) /\ found' \in Seq(Vehicle)
    OBVIOUS
  <2>2. Start \in [i : Nat \ {0}, j : Nat \ {0}, m : Nat, n : Nat \ {0}]
    BY DEF Start
  <2> QED BY <2>1, <2>2 DEF TypeOK
<1>2. StagesOK' /\ PairsOK'
  BY DEF StagesOK, PairsOK
<1>3. OnlyDuplicatesGo' /\ StrayNeedsTwoPlates'
  BY DEF OnlyDuplicatesGo, NoDuplicates, NothingLost, StrayNeedsTwoPlates
<1> QED BY <1>1, <1>2, <1>3 DEF IInv

Positions == [i : Nat \ {0}, j : Nat \ {0}, m : Nat, n : Nat \ {0}]

\* A vehicle of a sequence.
LEMMA VehicleFacts ==
  ASSUME NEW vs \in Seq(Vehicle), NEW v \in DOMAIN vs
  PROVE  /\ v \in Nat /\ v >= 1 /\ v <= Len(vs) /\ vs[v].box \in Box
         /\ vs[v].plates \in Seq(Box \ Unwanted) /\ Len(vs[v].plates) \in Nat
         /\ DOMAIN vs[v].plates = 1..Len(vs[v].plates)
         /\ \A a \in DOMAIN vs[v].plates : vs[v].plates[a] \in Box
<1>1. vs[v] \in Vehicle /\ v \in Nat /\ v >= 1 /\ v <= Len(vs)
  OBVIOUS
<1>2. vs[v].plates \in Seq(Box \ Unwanted) /\ vs[v].box \in Box
  BY <1>1 DEF Vehicle
<1>3. /\ DOMAIN vs[v].plates = 1..Len(vs[v].plates) /\ Len(vs[v].plates) \in Nat
      /\ \A a \in DOMAIN vs[v].plates : vs[v].plates[a] \in Box \ Unwanted
  BY <1>2
<1> QED BY <1>1, <1>2, <1>3

\* The part of the invariant that is about the loops.
LEMMA PairsFacts ==
  ASSUME IInv, stage = "pairs"
  PROVE  /\ vehicles \in Seq(Vehicle) /\ DOMAIN vehicles = 1..Len(vehicles)
         /\ Len(vehicles) \in Nat
         /\ at \in Positions /\ at.i \in Nat /\ at.i >= 1 /\ at.j \in Nat /\ at.j >= 1
         /\ at.m \in Nat /\ at.n \in Nat /\ at.n >= 1
         /\ LoopsOK /\ ComparedDiffer /\ BeforeFirst
<1>1. vehicles \in Seq(Vehicle) /\ at \in Positions
  BY DEF IInv, TypeOK, Positions
<1>2. DOMAIN vehicles = 1..Len(vehicles) /\ Len(vehicles) \in Nat
  BY <1>1
<1>3. /\ at.i \in Nat /\ at.i >= 1 /\ at.j \in Nat /\ at.j >= 1
      /\ at.m \in Nat /\ at.n \in Nat /\ at.n >= 1
  BY <1>1 DEF Positions
<1> QED BY <1>1, <1>2, <1>3 DEF IInv, PairsOK

\* A step of the loops that erases nothing.
LEMMA MoveIInv ==
  ASSUME IInv, stage = "pairs", UNCHANGED <<stage, output, vehicles, numbers, found, strayed>>,
         at' \in Positions, PairsOK'
  PROVE  IInv'
<1>1. TypeOK'
  BY DEF TypeOK, IInv, Positions
<1>2. StagesOK'
  BY DEF StagesOK
<1>3. OnlyDuplicatesGo'
  <2>1. PlatesOf(found)' = PlatesOf(found) /\ PlatesOf(vehicles)' = PlatesOf(vehicles)
    BY DEF PlatesOf
  <2> QED BY <2>1 DEF IInv, OnlyDuplicatesGo, NoDuplicates, NothingLost
<1>4. StrayNeedsTwoPlates'
  BY DEF IInv, StrayNeedsTwoPlates
<1> QED BY <1>1, <1>2, <1>3, <1>4 DEF IInv

\* The next pair of vehicles: this one is not compared, or all plates of the first
\* vehicle have been.
LEMMA NextPairIInv == IInv /\ NextPair => IInv'
<1> SUFFICES ASSUME IInv, NextPair PROVE IInv'
  OBVIOUS
<1>1. /\ stage = "pairs" /\ at.i < Len(vehicles) /\ at.j <= Len(vehicles)
      /\ ~ Overlap(at.i, at.j) \/ at.m > Len(vehicles[at.i].plates)
      /\ at' = [Start EXCEPT !.i = at.i, !.j = at.j + 1]
      /\ UNCHANGED <<stage, output, vehicles, numbers, found, strayed>>
  BY DEF NextPair, Overlap, First, Second
<1>2. /\ vehicles \in Seq(Vehicle) /\ Len(vehicles) \in Nat
      /\ at \in Positions /\ at.i \in Nat /\ at.i >= 1 /\ at.j \in Nat /\ at.j >= 1
      /\ at.m \in Nat /\ at.n \in Nat /\ at.n >= 1
      /\ LoopsOK /\ ComparedDiffer /\ BeforeFirst
  BY <1>1, PairsFacts
<1>3. at'.i = at.i /\ at'.j = at.j + 1 /\ at'.m = 1 /\ at'.n = 1
  BY <1>1 DEF Start
<1>4. at' \in Positions
  <2>1. at.i \in Nat \ {0} /\ at.j + 1 \in Nat \ {0} /\ 1 \in Nat /\ 1 \in Nat \ {0}
    BY <1>2
  <2>2. at' = [i |-> at.i, j |-> at.j + 1, m |-> 1, n |-> 1]
    BY <1>1 DEF Start
  <2> QED BY <2>1, <2>2 DEF Positions
<1>5. LoopsOK'
  BY <1>1, <1>2, <1>3 DEF LoopsOK
<1>6. ComparedDiffer'
  <2> SUFFICES ASSUME NEW v \in DOMAIN vehicles, NEW w \in DOMAIN vehicles, v < w, Overlap(v, w),
                      NEW a \in DOMAIN vehicles[v].plates, NEW b \in DOMAIN vehicles[w].plates,
                      Compared(v, w, a, b)'
               PROVE  ~ Same(vehicles[v].plates[a], vehicles[w].plates[b])
    BY <1>1 DEF ComparedDiffer, Overlap
  <2>1. /\ v \in Nat /\ w \in Nat /\ a \in Nat /\ b \in Nat /\ a >= 1 /\ b >= 1
        /\ a <= Len(vehicles[v].plates)
    BY <1>2, VehicleFacts
  <2>2. \/ v < at.i
        \/ v = at.i /\ w < at.j + 1
    BY <1>2, <1>3, <2>1 DEF Compared
  <2>3. Compared(v, w, a, b)
    BY <1>1, <1>2, <2>1, <2>2 DEF Compared
  <2> QED BY <1>2, <2>3 DEF ComparedDiffer
<1>7. BeforeFirst'
  BY <1>3 DEF BeforeFirst
<1> QED BY <1>1, <1>4, <1>5, <1>6, <1>7, MoveIInv DEF PairsOK

\* The next vehicle.
LEMMA NextVehicleIInv == IInv /\ NextVehicle => IInv'
<1> SUFFICES ASSUME IInv, NextVehicle PROVE IInv'
  OBVIOUS
<1>1. /\ stage = "pairs" /\ at.i < Len(vehicles) /\ at.j > Len(vehicles)
      /\ at' = [Start EXCEPT !.i = at.i + 1, !.j = at.i + 2]
      /\ UNCHANGED <<stage, output, vehicles, numbers, found, strayed>>
  BY DEF NextVehicle
<1>2. /\ vehicles \in Seq(Vehicle) /\ Len(vehicles) \in Nat
      /\ at \in Positions /\ at.i \in Nat /\ at.i >= 1 /\ at.j \in Nat /\ at.j >= 1
      /\ at.m \in Nat /\ at.n \in Nat /\ at.n >= 1
      /\ LoopsOK /\ ComparedDiffer /\ BeforeFirst
  BY <1>1, PairsFacts
<1>3. at'.i = at.i + 1 /\ at'.j = at.i + 2 /\ at'.m = 1 /\ at'.n = 1
  BY <1>1 DEF Start
<1>4. at' \in Positions
  <2>1. at.i + 1 \in Nat \ {0} /\ at.i + 2 \in Nat \ {0} /\ 1 \in Nat /\ 1 \in Nat \ {0}
    BY <1>2
  <2>2. at' = [i |-> at.i + 1, j |-> at.i + 2, m |-> 1, n |-> 1]
    BY <1>1 DEF Start
  <2> QED BY <2>1, <2>2 DEF Positions
<1>5. LoopsOK'
  BY <1>1, <1>2, <1>3 DEF LoopsOK
<1>6. ComparedDiffer'
  <2> SUFFICES ASSUME NEW v \in DOMAIN vehicles, NEW w \in DOMAIN vehicles, v < w, Overlap(v, w),
                      NEW a \in DOMAIN vehicles[v].plates, NEW b \in DOMAIN vehicles[w].plates,
                      Compared(v, w, a, b)'
               PROVE  ~ Same(vehicles[v].plates[a], vehicles[w].plates[b])
    BY <1>1 DEF ComparedDiffer, Overlap
  <2>1. /\ v \in Nat /\ w \in Nat /\ a \in Nat /\ b \in Nat /\ a >= 1 /\ b >= 1
        /\ w <= Len(vehicles)
    BY <1>2, VehicleFacts
  <2>2. v < at.i + 1
    BY <1>2, <1>3, <2>1 DEF Compared
  <2>3. Compared(v, w, a, b)
    BY <1>1, <1>2, <2>1, <2>2 DEF Compared
  <2> QED BY <1>2, <2>3 DEF ComparedDiffer
<1>7. BeforeFirst'
  BY <1>3 DEF BeforeFirst
<1> QED BY <1>1, <1>4, <1>5, <1>6, <1>7, MoveIInv DEF PairsOK

\* The next plate of the first vehicle, if there is one; it may be the first again.
LEMMA NextPlateIInv == IInv /\ NextPlate => IInv'
<1> SUFFICES ASSUME IInv, NextPlate PROVE IInv'
  OBVIOUS
<1>1. /\ stage = "pairs" /\ at.i < Len(vehicles) /\ at.j <= Len(vehicles)
      /\ at.n > Len(vehicles[at.j].plates)
      /\ at' = [at EXCEPT !.m = @ + 1, !.n = 1]
      /\ UNCHANGED <<stage, output, vehicles, numbers, found, strayed>>
  BY DEF NextPlate, Second
<1>2. /\ vehicles \in Seq(Vehicle) /\ Len(vehicles) \in Nat
      /\ at \in Positions /\ at.i \in Nat /\ at.i >= 1 /\ at.j \in Nat /\ at.j >= 1
      /\ at.m \in Nat /\ at.n \in Nat /\ at.n >= 1
      /\ LoopsOK /\ ComparedDiffer /\ BeforeFirst
  BY <1>1, PairsFacts
<1>3. at'.i = at.i /\ at'.j = at.j /\ at'.m = at.m + 1 /\ at'.n = 1
  BY <1>1, <1>2 DEF Positions
<1>4. at' \in Positions
  <2>1. at.m + 1 \in Nat /\ at.i \in Nat \ {0} /\ at.j \in Nat \ {0} /\ 1 \in Nat \ {0}
    BY <1>2
  <2>2. at' = [i |-> at.i, j |-> at.j, m |-> at.m + 1, n |-> 1]
    BY <1>1, <1>2 DEF Positions
  <2> QED BY <2>1, <2>2 DEF Positions
<1>5. LoopsOK'
  BY <1>1, <1>2, <1>3 DEF LoopsOK
<1>6. ComparedDiffer'
  <2> SUFFICES ASSUME NEW v \in DOMAIN vehicles, NEW w \in DOMAIN vehicles, v < w, Overlap(v, w),
                      NEW a \in DOMAIN vehicles[v].plates, NEW b \in DOMAIN vehicles[w].plates,
                      Compared(v, w, a, b)'
               PROVE  ~ Same(vehicles[v].plates[a], vehicles[w].plates[b])
    BY <1>1 DEF ComparedDiffer, Overlap
  <2>1. /\ v \in Nat /\ w \in Nat /\ a \in Nat /\ b \in Nat /\ a >= 1 /\ b >= 1
        /\ b <= Len(vehicles[w].plates)
    BY <1>2, VehicleFacts
  <2>2. \/ v < at.i
        \/ v = at.i /\ w < at.j
        \/ v = at.i /\ w = at.j /\ a < at.m + 1
    BY <1>2, <1>3, <2>1 DEF Compared
  <2>3. w = at.j => b < at.n
    <3>1. ASSUME w = at.j PROVE b < at.n
      <4>1. Len(vehicles[w].plates) \in Nat /\ Len(vehicles[w].plates) < at.n
        BY <1>1, <1>2, <3>1, VehicleFacts
      <4> QED BY <1>2, <2>1, <4>1
    <3> QED BY <3>1
  <2>4. Compared(v, w, a, b)
    BY <1>1, <1>2, <2>1, <2>2, <2>3 DEF Compared
  <2> QED BY <1>2, <2>4 DEF ComparedDiffer
<1>7. BeforeFirst'
  BY <1>2, <1>3 DEF BeforeFirst
<1> QED BY <1>1, <1>4, <1>5, <1>6, <1>7, MoveIInv DEF PairsOK

\* Two plates that differ.
LEMMA DifferIInv == IInv /\ Differ => IInv'
<1> SUFFICES ASSUME IInv, Differ PROVE IInv'
  OBVIOUS
<1>1. /\ stage = "pairs" /\ at.i < Len(vehicles) /\ at.j <= Len(vehicles) /\ at.m > 0
      /\ ~ Same(vehicles[at.i].plates[at.m], vehicles[at.j].plates[at.n])
      /\ at' = [at EXCEPT !.n = @ + 1]
      /\ UNCHANGED <<stage, output, vehicles, numbers, found, strayed>>
  BY DEF Differ, Comparing, First, Second
<1>2. /\ vehicles \in Seq(Vehicle) /\ Len(vehicles) \in Nat
      /\ at \in Positions /\ at.i \in Nat /\ at.i >= 1 /\ at.j \in Nat /\ at.j >= 1
      /\ at.m \in Nat /\ at.n \in Nat /\ at.n >= 1
      /\ LoopsOK /\ ComparedDiffer /\ BeforeFirst
  BY <1>1, PairsFacts
<1>3. at'.i = at.i /\ at'.j = at.j /\ at'.m = at.m /\ at'.n = at.n + 1
  BY <1>1, <1>2 DEF Positions
<1>4. at' \in Positions
  BY <1>1, <1>2 DEF Positions
<1>5. LoopsOK'
  BY <1>1, <1>2, <1>3 DEF LoopsOK
<1>6. ComparedDiffer'
  <2> SUFFICES ASSUME NEW v \in DOMAIN vehicles, NEW w \in DOMAIN vehicles, v < w, Overlap(v, w),
                      NEW a \in DOMAIN vehicles[v].plates, NEW b \in DOMAIN vehicles[w].plates,
                      Compared(v, w, a, b)'
               PROVE  ~ Same(vehicles[v].plates[a], vehicles[w].plates[b])
    BY <1>1 DEF ComparedDiffer, Overlap
  <2>1. v \in Nat /\ w \in Nat /\ a \in Nat /\ b \in Nat
    BY <1>2, VehicleFacts
  <2>2. Compared(v, w, a, b) \/ (v = at.i /\ w = at.j /\ a = at.m /\ b = at.n)
    BY <1>2, <1>3, <2>1 DEF Compared
  <2> QED BY <1>1, <1>2, <2>2 DEF ComparedDiffer
<1>7. BeforeFirst'
  BY <1>1, <1>3 DEF BeforeFirst
<1> QED BY <1>1, <1>4, <1>5, <1>6, <1>7, MoveIInv DEF PairsOK

\* A step of the loops that erases a plate, of which a duplicate stays.
LEMMA RemovalIInv ==
  ASSUME IInv, stage = "pairs", UNCHANGED <<stage, output, numbers, found>>,
         at' \in Positions, vehicles' \in Seq(Vehicle), strayed' \in BOOLEAN, PairsOK',
         PlatesOf(vehicles') \subseteq PlatesOf(vehicles),
         \/ strayed'
         \/ /\ strayed' = strayed
            /\ \A p \in PlatesOf(vehicles) \ PlatesOf(vehicles') :
                 \E q \in PlatesOf(vehicles') : Same(p, q),
         StrayNeedsTwoPlates'
  PROVE  IInv'
<1>1. TypeOK'
  BY DEF TypeOK, IInv, Positions
<1>2. StagesOK'
  BY DEF StagesOK
<1>3. OnlyDuplicatesGo'
  <2>1. NoDuplicates'
    BY DEF NoDuplicates
  <2>2. ASSUME ~ strayed' PROVE Linked(PlatesOf(found'), PlatesOf(vehicles'))
    <3>1. Linked(PlatesOf(found), PlatesOf(vehicles))
      BY <2>2 DEF IInv, OnlyDuplicatesGo, NothingLost, Linked
    <3>2. PICK P, Q, R : P = PlatesOf(found) /\ Q = PlatesOf(vehicles) /\ R = PlatesOf(vehicles')
      OBVIOUS
    <3>3. Linked(P, R)
      <4>1. Linked(P, Q) /\ R \in SUBSET Q /\ \A p \in Q \ R : \E q \in R : Same(p, q)
        BY <2>2, <3>1, <3>2
      <4> QED BY <4>1, LinkedStays
    <3>4. PlatesOf(found') = P
      BY <3>2
    <3> QED BY <3>2, <3>3, <3>4
  <2>3. NothingLost'
    BY <2>2 DEF NothingLost, Linked
  <2> QED BY <2>1, <2>3 DEF OnlyDuplicatesGo
<1> QED BY <1>1, <1>2, <1>3 DEF IInv

\* The plates that are compared.
LEMMA ComparingFacts ==
  ASSUME IInv, Comparing
  PROVE  /\ stage = "pairs" /\ at.i \in DOMAIN vehicles /\ at.j \in DOMAIN vehicles
         /\ at.i < at.j /\ at.i < Len(vehicles) /\ at.j <= Len(vehicles)
         /\ Overlap(at.i, at.j)
         /\ at.m <= Len(vehicles[at.i].plates) /\ at.n \in DOMAIN vehicles[at.j].plates
         /\ at.m > 0 => at.m \in DOMAIN vehicles[at.i].plates
<1>1. /\ stage = "pairs" /\ at.i < Len(vehicles) /\ at.j <= Len(vehicles)
      /\ Overlap(at.i, at.j)
      /\ at.m <= Len(vehicles[at.i].plates) /\ at.n <= Len(vehicles[at.j].plates)
  BY DEF Comparing, First, Second, Overlap
<1>2. /\ vehicles \in Seq(Vehicle) /\ DOMAIN vehicles = 1..Len(vehicles) /\ Len(vehicles) \in Nat
      /\ at \in Positions /\ at.i \in Nat /\ at.i >= 1 /\ at.j \in Nat /\ at.j >= 1
      /\ at.m \in Nat /\ at.n \in Nat /\ at.n >= 1
      /\ LoopsOK
  BY <1>1, PairsFacts
<1>3. at.i \in DOMAIN vehicles /\ at.j \in DOMAIN vehicles /\ at.i < at.j
  BY <1>1, <1>2 DEF LoopsOK
<1>4. /\ DOMAIN vehicles[at.i].plates = 1..Len(vehicles[at.i].plates)
      /\ DOMAIN vehicles[at.j].plates = 1..Len(vehicles[at.j].plates)
  BY <1>2, <1>3, VehicleFacts
<1> QED BY <1>1, <1>2, <1>3, <1>4

\* The second vehicle loses the plate at n, which is not there to be compared again.
LEMMA SecondLosesPairs ==
  ASSUME IInv, Comparing, UNCHANGED <<stage, at, found>>,
         vehicles' = Having(vehicles, at.j, RemoveAt(vehicles[at.j].plates, at.n))
  PROVE  /\ vehicles' \in Seq(Vehicle) /\ PairsOK'
         /\ PlatesOf(vehicles') \subseteq PlatesOf(vehicles)
         /\ \A p \in PlatesOf(vehicles) \ PlatesOf(vehicles') : p = vehicles[at.j].plates[at.n]
         /\ vehicles'[at.i] = vehicles[at.i]
<1>1. /\ stage = "pairs" /\ at.i \in DOMAIN vehicles /\ at.j \in DOMAIN vehicles
      /\ at.i < at.j /\ at.i < Len(vehicles) /\ at.j <= Len(vehicles)
      /\ Overlap(at.i, at.j)
      /\ at.n \in DOMAIN vehicles[at.j].plates
  BY ComparingFacts
<1>2. /\ vehicles \in Seq(Vehicle) /\ Len(vehicles) \in Nat
      /\ at \in Positions /\ at.i \in Nat /\ at.i >= 1 /\ at.j \in Nat /\ at.j >= 1
      /\ at.m \in Nat /\ at.n \in Nat /\ at.n >= 1
      /\ LoopsOK /\ ComparedDiffer /\ BeforeFirst
  BY <1>1, PairsFacts
<1> DEFINE ws == vehicles'
           old == vehicles[at.j].plates
<1>3. /\ ws \in Seq(Vehicle) /\ Len(ws) = Len(vehicles) /\ DOMAIN ws = DOMAIN vehicles
      /\ \A k \in DOMAIN vehicles : ws[k].box = vehicles[k].box /\ (k # at.j => ws[k] = vehicles[k])
      /\ Len(ws[at.j].plates) = Len(old) - 1
      /\ \A a \in DOMAIN ws[at.j].plates :
           /\ IF a < at.n THEN a \in DOMAIN old ELSE a + 1 \in DOMAIN old
           /\ ws[at.j].plates[a] = old[IF a < at.n THEN a ELSE a + 1]
      /\ PlatesOf(ws) \subseteq PlatesOf(vehicles)
      /\ \A p \in PlatesOf(vehicles) : p \in PlatesOf(ws) \/ p = old[at.n]
  <2>1. PICK i, m, vs : i = at.j /\ m = at.n /\ vs = vehicles'
    OBVIOUS
  <2>2. i \in DOMAIN vehicles /\ m \in DOMAIN vehicles[i].plates /\ vehicles \in Seq(Vehicle)
    BY <1>1, <1>2, <2>1
  <2>3. vs = Having(vehicles, i, RemoveAt(vehicles[i].plates, m))
    BY <2>1
  <2> QED BY <2>1, <2>2, <2>3, WithoutPlate
<1> HIDE DEF ws
<1>4. LoopsOK'
  <2>1. ASSUME NEW k \in DOMAIN vehicles
        PROVE  /\ found[k].box = ws[k].box
               /\ Len(ws[k].plates) <= Len(found[k].plates)
    <3>1. found[k].box = vehicles[k].box /\ Len(vehicles[k].plates) <= Len(found[k].plates)
      BY <1>2 DEF LoopsOK
    <3>2. found[k] \in Vehicle /\ Len(vehicles[k].plates) \in Nat
      <4>1. found \in Seq(Vehicle) /\ Len(found) = Len(vehicles)
        BY <1>2 DEF IInv, TypeOK, LoopsOK
      <4> QED BY <1>2, <4>1, VehicleFacts
    <3>3. Len(found[k].plates) \in Nat
      <4>1. found[k].plates \in Seq(Box \ Unwanted)
        BY <3>2 DEF Vehicle
      <4> QED BY <4>1
    <3> QED BY <1>3, <3>1, <3>2, <3>3
  <2> QED BY <1>2, <1>3, <2>1 DEF LoopsOK, ws
<1>5. ComparedDiffer'
  <2> SUFFICES ASSUME NEW v \in DOMAIN ws, NEW w \in DOMAIN ws, v < w, Overlap(v, w),
                      NEW a \in DOMAIN ws[v].plates, NEW b \in DOMAIN ws[w].plates,
                      Compared(v, w, a, b)
               PROVE  ~ Same(ws[v].plates[a], ws[w].plates[b])
    <3>1. ASSUME NEW v \in DOMAIN ws, NEW w \in DOMAIN ws PROVE Overlap(v, w)' <=> Overlap(v, w)
      BY <1>3 DEF Overlap, ws
    <3>2. ASSUME NEW v, NEW w, NEW a, NEW b PROVE Compared(v, w, a, b)' <=> Compared(v, w, a, b)
      BY DEF Compared
    <3> QED BY <3>1, <3>2 DEF ComparedDiffer, ws
  <2>1. v \in Nat /\ w \in Nat /\ a \in Nat /\ b \in Nat
    BY <1>3, VehicleFacts
  <2>2. v \in DOMAIN vehicles /\ w \in DOMAIN vehicles
    BY <1>3
  <2>3. v # at.j
    BY <1>1, <1>2, <2>1 DEF Compared
  <2>4. ws[v] = vehicles[v] /\ a \in DOMAIN vehicles[v].plates
    BY <1>3, <2>2, <2>3
  <2>5. CASE w # at.j
    <3>1. ws[w] = vehicles[w] /\ b \in DOMAIN vehicles[w].plates
      BY <1>3, <2>2, <2>5
    <3> QED BY <1>2, <2>2, <2>4, <3>1 DEF ComparedDiffer
  <2>6. CASE w = at.j /\ b < at.n
    <3>1. b \in DOMAIN vehicles[w].plates /\ ws[w].plates[b] = vehicles[w].plates[b]
      BY <1>3, <2>6
    <3> QED BY <1>2, <2>2, <2>4, <3>1 DEF ComparedDiffer
  <2>7. CASE w = at.j /\ ~ (b < at.n)
    <3>1. b + 1 \in DOMAIN vehicles[w].plates /\ ws[w].plates[b] = vehicles[w].plates[b + 1]
      BY <1>3, <2>7
    <3>2. Compared(v, w, a, b + 1)
      BY <1>2, <2>1, <2>7 DEF Compared
    <3> QED BY <1>2, <2>2, <2>4, <3>1, <3>2 DEF ComparedDiffer
  <2> QED BY <2>5, <2>6, <2>7
<1>6. BeforeFirst'
  <2>1. Overlap(at.i, at.j)'
    BY <1>1, <1>3 DEF Overlap, ws
  <2>2. Len(old) \in Nat
    BY <1>1, <1>2, VehicleFacts
  <2>3. at.n <= Len(ws[at.j].plates) => at.n <= Len(old)
    BY <1>2, <1>3, <2>2
  <2> QED BY <1>1, <1>2, <1>3, <2>1, <2>3 DEF BeforeFirst, ws
<1>7. ws[at.i] = vehicles[at.i]
  BY <1>1, <1>2, <1>3
<1>8. ws \in Seq(Vehicle) /\ \A p \in PlatesOf(vehicles) \ PlatesOf(ws) : p = old[at.n]
  BY <1>3
<1> QED BY <1>1, <1>3, <1>4, <1>5, <1>6, <1>7, <1>8 DEF PairsOK, ws

\* The second vehicle loses a duplicate; the first keeps the plate it duplicates.
LEMMA RemoveFromSecondIInv == IInv /\ RemoveFromSecond => IInv'
<1> SUFFICES ASSUME IInv, RemoveFromSecond PROVE IInv'
  OBVIOUS
<1>1. /\ Comparing /\ at.m > 0
      /\ Same(vehicles[at.i].plates[at.m], vehicles[at.j].plates[at.n])
      /\ vehicles' = Having(vehicles, at.j, RemoveAt(vehicles[at.j].plates, at.n))
      /\ UNCHANGED <<stage, output, at, numbers, found, strayed>>
  BY DEF RemoveFromSecond, First, Second, Having
<1>2. /\ stage = "pairs" /\ at.i \in DOMAIN vehicles /\ at.j \in DOMAIN vehicles
      /\ at.m \in DOMAIN vehicles[at.i].plates /\ at.n \in DOMAIN vehicles[at.j].plates
  BY <1>1, ComparingFacts
<1>3. vehicles \in Seq(Vehicle) /\ at \in Positions
  BY <1>2, PairsFacts
<1>4. /\ vehicles' \in Seq(Vehicle) /\ PairsOK'
      /\ PlatesOf(vehicles') \subseteq PlatesOf(vehicles)
      /\ \A p \in PlatesOf(vehicles) \ PlatesOf(vehicles') : p = vehicles[at.j].plates[at.n]
      /\ vehicles'[at.i] = vehicles[at.i]
  BY <1>1, SecondLosesPairs
<1>5. ASSUME NEW p \in PlatesOf(vehicles) \ PlatesOf(vehicles')
      PROVE  \E q \in PlatesOf(vehicles') : Same(p, q)
  <2>1. p = vehicles[at.j].plates[at.n]
    BY <1>4
  <2>2. PICK q : q = vehicles[at.i].plates[at.m]
    OBVIOUS
  <2>3. p \in Box /\ q \in Box
    BY <1>2, <1>3, <2>1, <2>2, VehicleFacts
  <2>4. Same(p, q)
    BY <1>1, <2>1, <2>2, <2>3, SameSymmetric
  <2>5. q \in PlatesOf(vehicles')
    <3>1. PICK vs : vs = vehicles'
      OBVIOUS
    <3>2. vs \in Seq(Vehicle) /\ vs[at.i] = vehicles[at.i] /\ at.i \in DOMAIN vs
      <4>1. DOMAIN vehicles' = DOMAIN vehicles
        BY <1>1 DEF Having
      <4> QED BY <1>2, <1>4, <3>1, <4>1
    <3>3. q \in PlatesOf(vs)
      BY <1>2, <2>2, <3>2, PlatesOfElements
    <3> QED BY <3>1, <3>3
  <2> QED BY <2>4, <2>5
<1>6. strayed' \in BOOLEAN /\ at' \in Positions /\ StrayNeedsTwoPlates'
  BY <1>1, <1>3 DEF IInv, TypeOK, StrayNeedsTwoPlates
<1> QED BY <1>1, <1>2, <1>4, <1>5, <1>6, RemovalIInv

\* The iterator is before the first plate.  Then both vehicles had two plates when
\* the loops began.
LEMMA StrayIInv == IInv /\ Stray => IInv'
<1> SUFFICES ASSUME IInv, Stray PROVE IInv'
  OBVIOUS
<1>1. /\ Comparing /\ at.m = 0 /\ strayed' = TRUE /\ UNCHANGED <<output, numbers, found>>
      /\ \/ at' = [at EXCEPT !.n = @ + 1] /\ UNCHANGED <<stage, vehicles>>
         \/ /\ vehicles' = Having(vehicles, at.j, RemoveAt(vehicles[at.j].plates, at.n))
            /\ UNCHANGED <<stage, at>>
         \/ stage' = "broken" /\ UNCHANGED <<vehicles, at>>
  BY DEF Stray, First, Second, Having
<1>2. /\ stage = "pairs" /\ at.i \in DOMAIN vehicles /\ at.j \in DOMAIN vehicles
      /\ at.i < at.j /\ at.i < Len(vehicles) /\ at.j <= Len(vehicles)
      /\ Overlap(at.i, at.j) /\ at.n \in DOMAIN vehicles[at.j].plates
  BY <1>1, ComparingFacts
<1>3. /\ vehicles \in Seq(Vehicle) /\ Len(vehicles) \in Nat
      /\ at \in Positions /\ at.i \in Nat /\ at.j \in Nat /\ at.m \in Nat
      /\ at.n \in Nat /\ at.n >= 1
      /\ LoopsOK /\ ComparedDiffer /\ BeforeFirst
  BY <1>2, PairsFacts
<1>4. /\ found \in Seq(Vehicle) /\ DOMAIN found = DOMAIN vehicles
      /\ \A k \in DOMAIN vehicles :
           found[k].box = vehicles[k].box /\ Len(vehicles[k].plates) <= Len(found[k].plates)
  <2>1. found \in Seq(Vehicle) /\ Len(found) = Len(vehicles)
    BY <1>3 DEF IInv, TypeOK, LoopsOK
  <2> QED BY <1>3, <2>1 DEF LoopsOK
<1>5. StrayNeedsTwoPlates'
  <2>1. HasIntersection(found[at.i].box, found[at.j].box)
    BY <1>2, <1>4 DEF Overlap
  <2>2. at.n > 1 /\ at.n <= Len(vehicles[at.j].plates) /\ Len(vehicles[at.j].plates) \in Nat
    <3>1. DOMAIN vehicles[at.j].plates = 1..Len(vehicles[at.j].plates)
      BY <1>2, <1>3, VehicleFacts
    <3>2. Len(vehicles[at.j].plates) \in Nat
      BY <1>2, <1>3, VehicleFacts
    <3> QED BY <1>1, <1>2, <1>3, <3>1, <3>2 DEF BeforeFirst
  <2>3. Len(found[at.i].plates) > 1
    BY <1>1, <1>3, <2>2 DEF BeforeFirst
  <2>4. Len(found[at.j].plates) > 1
    <3>1. Len(found[at.j].plates) \in Nat
      BY <1>2, <1>4, VehicleFacts
    <3> QED BY <1>2, <1>3, <1>4, <2>2, <3>1
  <2>5. at.i # at.j /\ at.i \in DOMAIN found /\ at.j \in DOMAIN found
    BY <1>2, <1>3, <1>4
  <2> QED BY <1>1, <2>1, <2>3, <2>4, <2>5 DEF StrayNeedsTwoPlates
<1>6. CASE at' = [at EXCEPT !.n = @ + 1] /\ UNCHANGED <<stage, vehicles>>
  <2>1. at'.i = at.i /\ at'.j = at.j /\ at'.m = 0 /\ at'.n = at.n + 1
    BY <1>1, <1>3, <1>6 DEF Positions
  <2>2. at' \in Positions
    BY <1>3, <1>6 DEF Positions
  <2>3. LoopsOK'
    BY <1>1, <1>3, <1>6, <2>1 DEF LoopsOK
  <2>4. ComparedDiffer'
    <3> SUFFICES ASSUME NEW v \in DOMAIN vehicles, NEW w \in DOMAIN vehicles, v < w, Overlap(v, w),
                        NEW a \in DOMAIN vehicles[v].plates, NEW b \in DOMAIN vehicles[w].plates,
                        Compared(v, w, a, b)'
                 PROVE  ~ Same(vehicles[v].plates[a], vehicles[w].plates[b])
      BY <1>6 DEF ComparedDiffer, Overlap
    <3>1. v \in Nat /\ w \in Nat /\ a \in Nat /\ b \in Nat /\ a >= 1
      BY <1>3, VehicleFacts
    <3>2. Compared(v, w, a, b)
      BY <1>3, <2>1, <3>1 DEF Compared
    <3> QED BY <1>3, <3>2 DEF ComparedDiffer
  <2>5. BeforeFirst'
    <3>1. Overlap(at.i, at.j)'
      BY <1>2, <1>6 DEF Overlap
    <3>2. at.n + 1 <= Len(vehicles[at.j].plates) => Len(found[at.i].plates) > 1
      <4>1. Len(vehicles[at.j].plates) \in Nat
        BY <1>2, <1>3, VehicleFacts
      <4> QED BY <1>1, <1>3, <4>1 DEF BeforeFirst
    <3> QED BY <1>1, <1>2, <1>3, <1>6, <2>1, <3>1, <3>2 DEF BeforeFirst, Overlap
  <2>6. PlatesOf(vehicles') \subseteq PlatesOf(vehicles)
    BY <1>6
  <2> QED BY <1>1, <1>2, <1>3, <1>5, <1>6, <2>2, <2>3, <2>4, <2>5, <2>6, RemovalIInv DEF PairsOK
<1>7. CASE /\ vehicles' = Having(vehicles, at.j, RemoveAt(vehicles[at.j].plates, at.n))
           /\ UNCHANGED <<stage, at>>
  <2>1. /\ vehicles' \in Seq(Vehicle) /\ PairsOK'
        /\ PlatesOf(vehicles') \subseteq PlatesOf(vehicles)
    BY <1>1, <1>7, SecondLosesPairs
  <2> QED BY <1>1, <1>2, <1>3, <1>5, <1>7, <2>1, RemovalIInv
<1>8. CASE stage' = "broken" /\ UNCHANGED <<vehicles, at>>
  <2>1. TypeOK'
    BY <1>1, <1>2, <1>8 DEF IInv, TypeOK
  <2>2. StagesOK' /\ PairsOK'
    BY <1>8 DEF StagesOK, PairsOK
  <2>3. OnlyDuplicatesGo'
    BY <1>8 DEF OnlyDuplicatesGo, NoDuplicates, NothingLost
  <2> QED BY <1>5, <2>1, <2>2, <2>3 DEF IInv
<1> QED BY <1>1, <1>6, <1>7, <1>8

\* The first vehicle loses a duplicate and m steps back: those that move up have not
\* been compared with the plates behind n.
LEMMA RemoveFromFirstIInv == IInv /\ RemoveFromFirst => IInv'
<1> SUFFICES ASSUME IInv, RemoveFromFirst PROVE IInv'
  OBVIOUS
<1>1. /\ Comparing /\ at.m > 0
      /\ Same(vehicles[at.i].plates[at.m], vehicles[at.j].plates[at.n])
      /\ vehicles' = Having(vehicles, at.i, RemoveAt(vehicles[at.i].plates, at.m))
      /\ at' = [at EXCEPT !.m = @ - 1, !.n = @ + 1]
      /\ UNCHANGED <<stage, output, numbers, found, strayed>>
  BY DEF RemoveFromFirst, First, Second, Having
<1>2. /\ stage = "pairs" /\ at.i \in DOMAIN vehicles /\ at.j \in DOMAIN vehicles
      /\ at.i < at.j /\ at.i < Len(vehicles) /\ at.j <= Len(vehicles)
      /\ Overlap(at.i, at.j)
      /\ at.m \in DOMAIN vehicles[at.i].plates /\ at.n \in DOMAIN vehicles[at.j].plates
  BY <1>1, ComparingFacts
<1>3. /\ vehicles \in Seq(Vehicle) /\ Len(vehicles) \in Nat
      /\ at \in Positions /\ at.i \in Nat /\ at.i >= 1 /\ at.j \in Nat /\ at.j >= 1
      /\ at.m \in Nat /\ at.n \in Nat /\ at.n >= 1
      /\ LoopsOK /\ ComparedDiffer /\ BeforeFirst
  BY <1>2, PairsFacts
<1> DEFINE ws == vehicles'
           old == vehicles[at.i].plates
<1>4. /\ ws \in Seq(Vehicle) /\ Len(ws) = Len(vehicles) /\ DOMAIN ws = DOMAIN vehicles
      /\ \A k \in DOMAIN vehicles : ws[k].box = vehicles[k].box /\ (k # at.i => ws[k] = vehicles[k])
      /\ Len(ws[at.i].plates) = Len(old) - 1
      /\ \A a \in DOMAIN ws[at.i].plates :
           /\ IF a < at.m THEN a \in DOMAIN old ELSE a + 1 \in DOMAIN old
           /\ ws[at.i].plates[a] = old[IF a < at.m THEN a ELSE a + 1]
      /\ PlatesOf(ws) \subseteq PlatesOf(vehicles)
      /\ \A p \in PlatesOf(vehicles) : p \in PlatesOf(ws) \/ p = old[at.m]
  <2>1. PICK i, m, vs : i = at.i /\ m = at.m /\ vs = vehicles'
    OBVIOUS
  <2>2. i \in DOMAIN vehicles /\ m \in DOMAIN vehicles[i].plates /\ vehicles \in Seq(Vehicle)
    BY <1>2, <1>3, <2>1
  <2>3. vs = Having(vehicles, i, RemoveAt(vehicles[i].plates, m))
    BY <1>1, <2>1
  <2> QED BY <2>1, <2>2, <2>3, WithoutPlate
<1> HIDE DEF ws
<1>5. at'.i = at.i /\ at'.j = at.j /\ at'.m = at.m - 1 /\ at'.n = at.n + 1
  BY <1>1, <1>3 DEF Positions
<1>6. at' \in Positions
  <2>1. at.m - 1 \in Nat /\ at.n + 1 \in Nat \ {0} /\ at.i \in Nat \ {0} /\ at.j \in Nat \ {0}
    BY <1>1, <1>3
  <2>2. at' = [i |-> at.i, j |-> at.j, m |-> at.m - 1, n |-> at.n + 1]
    BY <1>1, <1>3 DEF Positions
  <2> QED BY <2>1, <2>2 DEF Positions
<1>7. found \in Seq(Vehicle) /\ Len(found) = Len(vehicles)
  BY <1>3 DEF IInv, TypeOK, LoopsOK
<1>8. LoopsOK'
  <2>1. ASSUME NEW k \in DOMAIN vehicles
        PROVE  /\ found[k].box = ws[k].box
               /\ Len(ws[k].plates) <= Len(found[k].plates)
    <3>1. found[k].box = vehicles[k].box /\ Len(vehicles[k].plates) <= Len(found[k].plates)
      BY <1>3 DEF LoopsOK
    <3>2. k \in DOMAIN found
      BY <1>3, <1>7
    <3>3. Len(found[k].plates) \in Nat /\ Len(vehicles[k].plates) \in Nat
      BY <1>3, <1>7, <3>2, VehicleFacts
    <3> QED BY <1>4, <3>1, <3>3
  <2> QED BY <1>1, <1>3, <1>4, <1>5, <2>1 DEF LoopsOK, ws
<1>9. ComparedDiffer'
  <2> SUFFICES ASSUME NEW v \in DOMAIN ws, NEW w \in DOMAIN ws, v < w, Overlap(v, w),
                      NEW a \in DOMAIN ws[v].plates, NEW b \in DOMAIN ws[w].plates,
                      Compared(v, w, a, b)'
               PROVE  ~ Same(ws[v].plates[a], ws[w].plates[b])
    <3>1. ASSUME NEW v \in DOMAIN ws, NEW w \in DOMAIN ws PROVE Overlap(v, w)' <=> Overlap(v, w)
      BY <1>4 DEF Overlap, ws
    <3> QED BY <3>1 DEF ComparedDiffer, ws
  <2>1. v \in Nat /\ w \in Nat /\ a \in Nat /\ b \in Nat
    BY <1>4, VehicleFacts
  <2>2. v \in DOMAIN vehicles /\ w \in DOMAIN vehicles
    BY <1>4
  <2>3. \/ v < at.i
        \/ v = at.i /\ w < at.j
        \/ v = at.i /\ w = at.j /\ a < at.m - 1
        \/ v = at.i /\ w = at.j /\ a = at.m - 1 /\ b < at.n + 1
    BY <1>5 DEF Compared
  <2>4. CASE v # at.i /\ w # at.i
    <3>1. /\ ws[v] = vehicles[v] /\ a \in DOMAIN vehicles[v].plates
          /\ ws[w] = vehicles[w] /\ b \in DOMAIN vehicles[w].plates
      BY <1>4, <2>2, <2>4
    <3>2. Compared(v, w, a, b)
      BY <2>3, <2>4 DEF Compared
    <3> QED BY <1>3, <2>2, <3>1, <3>2 DEF ComparedDiffer
  <2>5. CASE w = at.i
    <3>1. v < at.i /\ ws[v] = vehicles[v] /\ a \in DOMAIN vehicles[v].plates
      BY <1>3, <1>4, <2>1, <2>2, <2>5
    <3>2. PICK c \in DOMAIN vehicles[w].plates : ws[w].plates[b] = vehicles[w].plates[c]
      BY <1>4, <2>5
    <3>3. Compared(v, w, a, c)
      BY <3>1 DEF Compared
    <3> QED BY <1>3, <2>2, <3>1, <3>2, <3>3 DEF ComparedDiffer
  <2>6. CASE v = at.i /\ w # at.i
    <3>1. ws[w] = vehicles[w] /\ b \in DOMAIN vehicles[w].plates
      BY <1>4, <2>2, <2>6
    <3>2. CASE a < at.m
      <4>1. a \in DOMAIN vehicles[v].plates /\ ws[v].plates[a] = vehicles[v].plates[a]
        BY <1>4, <2>6, <3>2
      <4>2. Compared(v, w, a, b)
        BY <1>3, <2>1, <2>3, <3>2 DEF Compared
      <4> QED BY <1>3, <2>2, <3>1, <4>1, <4>2 DEF ComparedDiffer
    <3>3. CASE ~ (a < at.m)
      <4>1. a + 1 \in DOMAIN vehicles[v].plates /\ ws[v].plates[a] = vehicles[v].plates[a + 1]
        BY <1>4, <2>6, <3>3
      <4>2. Compared(v, w, a + 1, b)
        BY <1>3, <2>1, <2>3, <3>3 DEF Compared
      <4> QED BY <1>3, <2>2, <3>1, <4>1, <4>2 DEF ComparedDiffer
    <3> QED BY <3>2, <3>3
  <2> QED BY <2>4, <2>5, <2>6
<1>10. BeforeFirst'
  <2>1. SUFFICES ASSUME at.m - 1 = 0 PROVE BeforeFirst'
    BY <1>5 DEF BeforeFirst
  <2>2. HasIntersection(vehicles'[at'.i].box, vehicles'[at'.j].box)
    <3>1. /\ ws[at.i].box = vehicles[at.i].box /\ ws[at.j].box = vehicles[at.j].box
          /\ at'.i = at.i /\ at'.j = at.j
      BY <1>2, <1>4, <1>5
    <3> QED BY <1>2, <3>1 DEF Overlap, ws
  <2>3. /\ Len(vehicles[at.i].plates) \in Nat /\ Len(vehicles[at.j].plates) \in Nat
        /\ Len(found[at.i].plates) \in Nat
    <3>1. at.i \in DOMAIN found
      BY <1>2, <1>3, <1>7
    <3> QED BY <1>2, <1>3, <1>7, <3>1, VehicleFacts
  <2>4. Len(vehicles[at.i].plates) >= Len(vehicles[at.j].plates)
    <3>1. FirstLoses
      BY DEF RemoveFromFirst
    <3> QED BY <2>3, <3>1 DEF FirstLoses, First, Second
  <2>5. ws[at.j] = vehicles[at.j]
    BY <1>2, <1>3, <1>4
  <2>6. Len(vehicles[at.i].plates) <= Len(found[at.i].plates)
    BY <1>2, <1>3 DEF LoopsOK
  <2>7. at.n + 1 <= Len(vehicles[at.j].plates) => Len(found[at.i].plates) > 1
    <3>1. at.n \in Nat /\ at.n >= 1
      BY <1>3
    <3>2. PICK n, first, second, begun :
            /\ n = at.n /\ first = Len(vehicles[at.i].plates)
            /\ second = Len(vehicles[at.j].plates) /\ begun = Len(found[at.i].plates)
      OBVIOUS
    <3>3. /\ n \in Nat /\ n >= 1 /\ first \in Nat /\ second \in Nat /\ begun \in Nat
          /\ first >= second /\ first <= begun
      BY <2>3, <2>4, <2>6, <3>1, <3>2
    <3>4. n + 1 <= second => begun > 1
      BY <3>3
    <3> QED BY <3>2, <3>4
  <2>8. at'.i < Len(vehicles') /\ at'.j <= Len(vehicles') /\ at'.n > 1
    BY <1>2, <1>3, <1>4, <1>5 DEF ws
  <2>9. at'.n <= Len(vehicles'[at'.j].plates) => Len(found'[at'.i].plates) > 1
    BY <1>1, <1>5, <2>5, <2>7 DEF ws
  <2> QED BY <2>2, <2>8, <2>9 DEF BeforeFirst, Overlap
<1>11. PairsOK'
  BY <1>8, <1>9, <1>10 DEF PairsOK
<1>12. ASSUME NEW p \in PlatesOf(vehicles) \ PlatesOf(ws)
       PROVE  \E q \in PlatesOf(ws) : Same(p, q)
  <2>1. p = vehicles[at.i].plates[at.m]
    BY <1>4
  <2>2. PICK q : q = vehicles[at.j].plates[at.n]
    OBVIOUS
  <2>3. Same(p, q)
    BY <1>1, <2>1, <2>2
  <2>4. ws[at.j] = vehicles[at.j] /\ at.j \in DOMAIN ws
    BY <1>2, <1>3, <1>4
  <2>5. q \in PlatesOf(ws)
    BY <1>2, <1>4, <2>2, <2>4, PlatesOfElements
  <2> QED BY <2>3, <2>5
<1>13. strayed' \in BOOLEAN /\ StrayNeedsTwoPlates'
  BY <1>1 DEF IInv, TypeOK, StrayNeedsTwoPlates
<1> QED BY <1>1, <1>2, <1>4, <1>6, <1>11, <1>12, <1>13, RemovalIInv DEF ws

\* At the end all pairs have been compared, and no vehicle with plates is dropped.
LEMMA DropVehiclesIInv == IInv /\ DropVehicles => IInv'
<1> SUFFICES ASSUME IInv, DropVehicles PROVE IInv'
  OBVIOUS
<1> DEFINE T == {v \in ToSet(vehicles) : v.plates # <<>> \/ v.box \in Special}
<1>1. /\ stage = "pairs" /\ at.i >= Len(vehicles) /\ vehicles' = Keep(vehicles, T)
      /\ stage' = "read" /\ at' = Start /\ UNCHANGED <<output, numbers, found, strayed>>
  BY DEF DropVehicles
<1>2. /\ vehicles \in Seq(Vehicle) /\ Len(vehicles) \in Nat /\ at.i \in Nat
      /\ ComparedDiffer
  BY <1>1, PairsFacts
<1>3. PICK ws : ws = vehicles'
  OBVIOUS
<1>4. /\ ws \in Seq(Vehicle)
      /\ \E e : /\ Picks(e, ws, vehicles)
                /\ \A k \in DOMAIN vehicles : vehicles[k] \in T <=> \E p \in DOMAIN ws : e[p] = k
  <2> HIDE DEF T
  <2>1. PICK S : S = Vehicle
    OBVIOUS
  <2>2. vehicles \in Seq(S) /\ ws = Keep(vehicles, T)
    BY <1>1, <1>2, <1>3, <2>1
  <2>3. /\ ws \in Seq(S)
        /\ \E e : /\ Picks(e, ws, vehicles)
                  /\ \A k \in DOMAIN vehicles : vehicles[k] \in T <=> \E p \in DOMAIN ws : e[p] = k
    BY <2>2, KeepElements
  <2> QED BY <2>1, <2>3
<1>5. PICK e : /\ Picks(e, ws, vehicles)
               /\ \A k \in DOMAIN vehicles : vehicles[k] \in T <=> \E p \in DOMAIN ws : e[p] = k
  BY <1>4
<1>6. /\ e \in [DOMAIN ws -> DOMAIN vehicles]
      /\ \A p, q \in DOMAIN ws : p < q => e[p] < e[q]
      /\ \A p \in DOMAIN ws : ws[p] = vehicles[e[p]]
  BY <1>5 DEF Picks
<1>7. TypeOK'
  BY <1>1, <1>3, <1>4 DEF IInv, TypeOK, Start
<1>8. StagesOK' /\ PairsOK'
  BY <1>1 DEF StagesOK, PairsOK
<1>9. ASSUME NEW v \in DOMAIN ws, NEW w \in DOMAIN ws, v < w,
             HasIntersection(ws[v].box, ws[w].box),
             NEW a \in DOMAIN ws[v].plates, NEW b \in DOMAIN ws[w].plates
      PROVE  ~ Same(ws[v].plates[a], ws[w].plates[b])
  <2>1. /\ e[v] \in DOMAIN vehicles /\ e[w] \in DOMAIN vehicles /\ e[v] < e[w]
        /\ ws[v] = vehicles[e[v]] /\ ws[w] = vehicles[e[w]]
    BY <1>6, <1>9
  <2>2. e[v] < at.i
    <3>1. e[v] \in Nat /\ e[w] \in Nat /\ e[w] <= Len(vehicles)
      BY <1>2, <2>1
    <3> QED BY <1>1, <1>2, <2>1, <3>1
  <2>3. Overlap(e[v], e[w]) /\ Compared(e[v], e[w], a, b)
    BY <1>9, <2>1, <2>2 DEF Overlap, Compared
  <2>4. a \in DOMAIN vehicles[e[v]].plates /\ b \in DOMAIN vehicles[e[w]].plates
    BY <2>1
  <2> QED BY <1>2, <2>1, <2>3, <2>4 DEF ComparedDiffer
<1>10. ASSUME NEW v \in DOMAIN ws, NEW w \in DOMAIN ws, v # w,
              HasIntersection(ws[v].box, ws[w].box),
              NEW p \in ToSet(ws[v].plates), NEW q \in ToSet(ws[w].plates)
       PROVE  ~ Same(p, q)
  <2>1. PICK a \in DOMAIN ws[v].plates : p = ws[v].plates[a]
    BY DEF ToSet
  <2>2. PICK b \in DOMAIN ws[w].plates : q = ws[w].plates[b]
    BY DEF ToSet
  <2>3. /\ v \in Nat /\ w \in Nat /\ p \in Box /\ q \in Box
        /\ ws[v].box \in Box /\ ws[w].box \in Box
    BY <1>4, <2>1, <2>2, VehicleFacts
  <2>4. CASE v < w
    BY <1>9, <1>10, <2>1, <2>2, <2>4
  <2>5. CASE w < v
    <3>1. HasIntersection(ws[w].box, ws[v].box)
      BY <1>10, <2>3, IntersectionSymmetric
    <3>2. ~ Same(q, p)
      BY <1>9, <2>1, <2>2, <2>5, <3>1
    <3> QED BY <2>3, <3>2, SameSymmetric
  <2> QED BY <1>10, <2>3, <2>4, <2>5
<1>11. NoDuplicates'
  <2>1. NoDuplicates' <=> (stage' = "read" =>
          \A v, w \in DOMAIN vehicles' :
            v # w /\ HasIntersection(vehicles'[v].box, vehicles'[w].box) =>
              \A p \in ToSet(vehicles'[v].plates), q \in ToSet(vehicles'[w].plates) : ~ Same(p, q))
    BY DEF NoDuplicates
  <2> QED BY <1>3, <1>10, <2>1
<1>12. PlatesOf(ws) = PlatesOf(vehicles)
  <2>1. ASSUME NEW p \in PlatesOf(ws) PROVE p \in PlatesOf(vehicles)
    <3>1. PICK v \in DOMAIN ws : \E a \in DOMAIN ws[v].plates : p = ws[v].plates[a]
      BY <1>4, PlatesOfElements
    <3>2. e[v] \in DOMAIN vehicles /\ ws[v] = vehicles[e[v]]
      BY <1>6
    <3> QED BY <1>2, <3>1, <3>2, PlatesOfElements
  <2>2. ASSUME NEW p \in PlatesOf(vehicles) PROVE p \in PlatesOf(ws)
    <3>1. PICK v \in DOMAIN vehicles :
            \E a \in DOMAIN vehicles[v].plates : p = vehicles[v].plates[a]
      BY <1>2, PlatesOfElements
    <3>2. vehicles[v].plates # <<>>
      <4>1. DOMAIN vehicles[v].plates # {}
        BY <3>1
      <4> QED BY <4>1
    <3>3. vehicles[v] \in T
      BY <3>2 DEF ToSet
    <3>4. PICK k \in DOMAIN ws : e[k] = v
      BY <1>5, <3>3
    <3>5. ws[k] = vehicles[v]
      BY <1>6, <3>4
    <3> QED BY <1>4, <3>1, <3>5, PlatesOfElements
  <2> QED BY <2>1, <2>2
<1>13. NothingLost'
  <2>1. stage = "pairs" /\ ~ strayed' => Linked(PlatesOf(found), PlatesOf(vehicles))
    BY <1>1 DEF IInv, OnlyDuplicatesGo, NothingLost, Linked
  <2>2. PlatesOf(vehicles') = PlatesOf(vehicles) /\ PlatesOf(found') = PlatesOf(found)
    BY <1>1, <1>3, <1>12
  <2>3. ~ strayed' => Linked(PlatesOf(found'), PlatesOf(vehicles'))
    BY <1>1, <2>1, <2>2
  <2> QED BY <2>3 DEF NothingLost, Linked
<1>14. StrayNeedsTwoPlates'
  BY <1>1 DEF IInv, StrayNeedsTwoPlates
<1> QED BY <1>7, <1>8, <1>11, <1>13, <1>14 DEF IInv, OnlyDuplicatesGo

\* Nothing happens.
LEMMA StutterIInv == IInv /\ UNCHANGED vars => IInv'
<1> SUFFICES ASSUME IInv, UNCHANGED vars PROVE IInv'
  OBVIOUS
<1> USE DEF vars
<1>1. TypeOK' /\ StagesOK'
  BY DEF IInv, TypeOK, StagesOK
<1>2. PairsOK'
  BY DEF IInv, PairsOK, LoopsOK, ComparedDiffer, BeforeFirst, Overlap, Compared
<1>3. OnlyDuplicatesGo' /\ StrayNeedsTwoPlates'
  <2>1. PlatesOf(found)' = PlatesOf(found) /\ PlatesOf(vehicles)' = PlatesOf(vehicles)
    BY DEF PlatesOf
  <2> QED BY <2>1 DEF IInv, OnlyDuplicatesGo, NoDuplicates, NothingLost, StrayNeedsTwoPlates
<1> QED BY <1>1, <1>2, <1>3 DEF IInv

\* The invariant is inductive.
LEMMA NextIInv == IInv /\ [Next]_vars => IInv'
<1> SUFFICES ASSUME IInv, [Next]_vars PROVE IInv'
  OBVIOUS
<1>1. CASE DetectVehicles
  BY <1>1, DetectVehiclesIInv
<1>2. CASE DetectPlates
  BY <1>2, DetectPlatesIInv
<1>3. CASE StartPairs
  BY <1>3, StartPairsIInv
<1>4. CASE RemoveDuplicates
  BY <1>4, NextPairIInv, NextVehicleIInv, NextPlateIInv, DifferIInv, RemoveFromFirstIInv,
     RemoveFromSecondIInv, StrayIInv, DropVehiclesIInv DEF RemoveDuplicates
<1>5. CASE PickPlate
  BY <1>5, PickPlateIInv
<1>6. CASE ReadPlate
  BY <1>6, ReadPlateIInv
<1>7. CASE NextFrame
  BY <1>7, NextFrameIInv
<1>8. CASE UNCHANGED vars
  BY <1>8, StutterIInv
<1> QED BY <1>1, <1>2, <1>3, <1>4, <1>5, <1>6, <1>7, <1>8 DEF Next

-----------------------------------------------------------------------------
(* The order of characters                                                 *)

\* The comparison is an order of S, up to what is at the same position.
Orders(class, S) ==
  /\ \A c, d \in S : Before(c, d, class) => ~ Before(d, c, class)
  /\ \A c, d, e \in S : Before(c, e, class) => Before(c, d, class) \/ Before(d, e, class)

\* l is k, or is put before k.
NotAfter(s, class, l, k) ==
  \/ Before(s[l], s[k], class)
  \/ l <= k /\ ~ Before(s[k], s[l], class)

\* Where k is put.
PlaceOf(s, class, k) == Cardinality({l \in DOMAIN s : NotAfter(s, class, l, k)})

\* If the comparison orders the characters, each is put at a place of its own.
LEMMA Places ==
  ASSUME NEW S, NEW s \in Seq(S), NEW class,
         Orders(class, S)
  PROVE  /\ \A k \in DOMAIN s : PlaceOf(s, class, k) \in DOMAIN s
         /\ \A k, l \in DOMAIN s : NotAfter(s, class, l, k) /\ l # k =>
              PlaceOf(s, class, l) < PlaceOf(s, class, k)
         /\ \A k, l \in DOMAIN s : NotAfter(s, class, l, k) \/ NotAfter(s, class, k, l)
         /\ \A p \in DOMAIN s : \E k \in DOMAIN s : PlaceOf(s, class, k) = p
<1> DEFINE N == Len(s)
           D == 1..N
           B(l, k) == Before(s[l], s[k], class)
           U(k) == {l \in D : NotAfter(s, class, l, k)}
           place == [k \in D |-> Cardinality(U(k))]
<1>1. DOMAIN s = D /\ N \in Nat /\ \A k \in D : s[k] \in S
  OBVIOUS
<1>2. /\ \A k, l \in D : B(k, l) => ~ B(l, k)
      /\ \A k, l, m \in D : B(k, m) => B(k, l) \/ B(l, m)
  BY <1>1 DEF Orders
<1>3. \A k, l \in D : NotAfter(s, class, l, k) <=> B(l, k) \/ (l <= k /\ ~ B(k, l))
  BY DEF NotAfter
<1> HIDE DEF B
<1>4. \A k \in D : NotAfter(s, class, k, k)
  BY <1>1, <1>3
<1>5. \A k, l \in D : NotAfter(s, class, l, k) \/ NotAfter(s, class, k, l)
  BY <1>1, <1>3
<1>6. \A k, l \in D : NotAfter(s, class, l, k) /\ NotAfter(s, class, k, l) => k = l
  BY <1>1, <1>2, <1>3
<1>7. ASSUME NEW j \in D, NEW k \in D, NEW l \in D,
             NotAfter(s, class, j, k), NotAfter(s, class, k, l)
      PROVE  NotAfter(s, class, j, l)
  <2>1. j \in Nat /\ k \in Nat /\ l \in Nat
    OBVIOUS
  <2>2. CASE B(j, k)
    <3>1. B(j, l) \/ B(l, k)
      BY <1>2, <2>2
    <3>2. ~ B(l, k)
      BY <1>2, <1>3, <1>7
    <3> QED BY <1>3, <3>1, <3>2
  <2>3. CASE j <= k /\ ~ B(k, j) /\ B(k, l)
    <3>1. B(k, j) \/ B(j, l)
      BY <1>2, <2>3
    <3> QED BY <1>3, <2>3, <3>1
  <2>4. CASE j <= k /\ ~ B(k, j) /\ k <= l /\ ~ B(l, k)
    <3>1. ~ B(l, j)
      BY <1>2, <2>4
    <3> QED BY <1>3, <2>1, <2>4, <3>1
  <2> QED BY <1>3, <1>7, <2>2, <2>3, <2>4
<1>8. IsFiniteSet(D) /\ Cardinality(D) = N
  <2>1. 1 \in Int /\ N \in Int /\ (N = 0 \/ ~ (1 > N))
    BY <1>1
  <2>2. IsFiniteSet(1..N) /\ Cardinality(1..N) = IF 1 > N THEN 0 ELSE N - 1 + 1
    BY <2>1, FS_Interval
  <2> QED BY <2>1, <2>2
<1>9. ASSUME NEW k \in D PROVE IsFiniteSet(U(k)) /\ Cardinality(U(k)) \in D
  <2>1. U(k) \in SUBSET D /\ k \in U(k)
    BY <1>4
  <2> HIDE DEF U
  <2>2. IsFiniteSet(U(k)) /\ Cardinality(U(k)) <= N
    BY <1>8, <2>1, FS_Subset
  <2>3. Cardinality(U(k)) \in Nat /\ Cardinality(U(k)) # 0
    BY <2>1, <2>2, FS_CardinalityType, FS_EmptySet
  <2> QED BY <1>1, <2>2, <2>3
<1>10. ASSUME NEW k \in D, NEW l \in D, NotAfter(s, class, l, k), l # k
       PROVE  Cardinality(U(l)) < Cardinality(U(k))
  <2>1. U(l) \in SUBSET U(k)
    BY <1>7, <1>10
  <2>2. k \in U(k) /\ k \notin U(l)
    BY <1>4, <1>6, <1>10
  <2> HIDE DEF U
  <2>3. U(l) # U(k)
    BY <2>2
  <2>4. Cardinality(U(l)) <= Cardinality(U(k)) /\ Cardinality(U(l)) # Cardinality(U(k))
    BY <1>9, <2>1, <2>3, FS_Subset
  <2> QED BY <1>9, <2>4
<1>11. \A k \in D : PlaceOf(s, class, k) = Cardinality(U(k)) /\ place[k] = Cardinality(U(k))
  BY <1>1 DEF PlaceOf
<1> HIDE DEF U
<1>12. place \in [D -> D]
  BY <1>9
<1> HIDE DEF place
<1>13. place \in Injection(D, D)
  <2>1. ASSUME NEW k \in D, NEW l \in D, place[k] = place[l] PROVE k = l
    <3>1. ~ (Cardinality(U(k)) < Cardinality(U(l))) /\ ~ (Cardinality(U(l)) < Cardinality(U(k)))
      BY <1>9, <1>11, <2>1
    <3> QED BY <1>5, <1>10, <3>1
  <2> QED BY <1>12, <2>1 DEF Injection, IsInjective
<1>14. place \in Surjection(D, D)
  <2> HIDE DEF D
  <2> QED BY <1>8, <1>13, FS_Injection
<1>15. \A p \in D : \E k \in D : place[k] = p
  BY <1>14 DEF Surjection
<1>16. \A k \in D : PlaceOf(s, class, k) \in D
  BY <1>9, <1>11
<1>17. \A k, l \in D : NotAfter(s, class, l, k) /\ l # k =>
         PlaceOf(s, class, l) < PlaceOf(s, class, k)
  BY <1>10, <1>11
<1>18. \A p \in D : \E k \in D : PlaceOf(s, class, k) = p
  <2>1. \A k \in D : PlaceOf(s, class, k) = place[k]
    BY <1>11
  <2> QED BY <1>15, <2>1
<1> HIDE DEF D
<1> QED BY <1>1, <1>5, <1>16, <1>17, <1>18

\* q is where the elements of t are in s; all are there, each once.
Permutes(q, t, s) ==
  /\ q \in [DOMAIN s -> DOMAIN s]
  /\ \A p \in DOMAIN s : t[p] = s[q[p]]
  /\ \A p, r \in DOMAIN s : q[p] = q[r] => p = r
  /\ \A k \in DOMAIN s : \E p \in DOMAIN s : q[p] = k

\* What InPosition returns: the same characters, none before one to its left.
LEMMA InPositionElements ==
  ASSUME NEW S, NEW s \in Seq(S), NEW class,
         Orders(class, S), NEW t, t = InPosition(s, class)
  PROVE  /\ t \in Seq(S) /\ Len(t) = Len(s)
         /\ \E q : Permutes(q, t, s)
         /\ \A p, r \in DOMAIN t : p < r => ~ Before(t[r], t[p], class)
<1> DEFINE D == DOMAIN s
           q == [p \in D |-> CHOOSE k \in D : PlaceOf(s, class, k) = p]
<1>1. t = [p \in D |-> s[CHOOSE k \in D : PlaceOf(s, class, k) = p]]
  BY DEF InPosition, PlaceOf, NotAfter
<1>2. /\ \A k \in D : PlaceOf(s, class, k) \in D
      /\ \A k, l \in D : NotAfter(s, class, l, k) /\ l # k =>
           PlaceOf(s, class, l) < PlaceOf(s, class, k)
      /\ \A k, l \in D : NotAfter(s, class, l, k) \/ NotAfter(s, class, k, l)
      /\ \A p \in D : \E k \in D : PlaceOf(s, class, k) = p
  BY Places
<1>3. \A p \in D : q[p] \in D /\ PlaceOf(s, class, q[p]) = p
  BY <1>2
<1>4. q \in [D -> D]
  BY <1>3
<1>5. D = 1..Len(s) /\ Len(s) \in Nat
  OBVIOUS
<1>6. DOMAIN t = D /\ \A p \in D : t[p] = s[q[p]]
  BY <1>1
<1>7. t \in [1..Len(s) -> S]
  <2>1. t = [p \in D |-> t[p]]
    BY <1>1
  <2>2. \A p \in D : t[p] \in S
    BY <1>3, <1>6
  <2> HIDE DEF q
  <2> QED BY <1>5, <2>1, <2>2
<1>8. t \in Seq(S) /\ Len(t) = Len(s)
  BY <1>5, <1>7
<1> HIDE DEF q
<1>9. \A p, r \in D : q[p] = q[r] => p = r
  BY <1>3
<1>10. ASSUME NEW k \in D PROVE \E p \in D : q[p] = k
  <2>1. PICK p : p = PlaceOf(s, class, k)
    OBVIOUS
  <2>2. p \in D /\ PlaceOf(s, class, q[p]) = p /\ q[p] \in D
    BY <1>2, <1>3, <2>1
  <2>3. p \in Nat
    BY <1>5, <2>2
  <2>4. ~ (PlaceOf(s, class, q[p]) < PlaceOf(s, class, k)) /\ ~ (PlaceOf(s, class, k) < PlaceOf(s, class, q[p]))
    BY <2>1, <2>2, <2>3
  <2>5. q[p] = k
    BY <1>2, <2>2, <2>4
  <2> QED BY <2>2, <2>5
<1>11. ASSUME NEW p \in D, NEW r \in D, p < r, Before(t[r], t[p], class) PROVE FALSE
  <2>1. NotAfter(s, class, q[r], q[p])
    BY <1>6, <1>11 DEF NotAfter
  <2>2. q[r] # q[p]
    BY <1>5, <1>9, <1>11
  <2>3. PlaceOf(s, class, q[r]) < PlaceOf(s, class, q[p])
    BY <1>2, <1>3, <2>1, <2>2
  <2>4. r < p
    BY <1>3, <2>3
  <2> QED BY <1>5, <1>11, <2>4
<1>12. Permutes(q, t, s)
  BY <1>4, <1>6, <1>9, <1>10 DEF Permutes
<1> QED BY <1>6, <1>8, <1>11, <1>12

-----------------------------------------------------------------------------
(* Characters at the same place                                            *)

\* The characters k and l overlap.
Near(s, k, l) == IouAbove(s[k].box, s[l].box, CharIou)

\* Those behind k that are taken for the same one.
SameAs(s, k, last) == {l \in (k + 1)..Len(s) : l \notin last.used /\ Near(s, k, l)}

\* One sequence behind another.
LEMMA Behind ==
  ASSUME NEW S, NEW b \in Seq(S), NEW t \in Seq(S), NEW h, h = b \o t
  PROVE  /\ h \in Seq(S) /\ Len(h) = Len(b) + Len(t)
         /\ \A p \in 1..Len(b) : h[p] = b[p]
         /\ \A p \in 1..Len(t) : h[Len(b) + p] = t[p]
<1>1. b \o t \in Seq(S) /\ Len(b \o t) = Len(b) + Len(t)
  OBVIOUS
<1>2. \A p \in 1..Len(b) : (b \o t)[p] = b[p]
  OBVIOUS
<1>3. \A p \in 1..Len(t) : (b \o t)[Len(b) + p] = t[p]
  OBVIOUS
<1> QED BY <1>1, <1>2, <1>3

\* k and the members of T behind it.
Members(s, k, T) == <<k>> \o Keep([l \in DOMAIN s |-> l], T)

\* What the outer loop of doInferenceLprNet does for k.
GroupStep(s, k, last) ==
  IF k \in last.used THEN last
  ELSE [used |-> last.used \union SameAs(s, k, last),
        groups |-> Append(last.groups, Members(s, k, SameAs(s, k, last)))]

GroupStates(n) == [used : SUBSET (1..n), groups : Seq(Seq(1..n))]

\* The members of a group, one after the other.
LEMMA MembersElements ==
  ASSUME NEW S, NEW s \in Seq(S), NEW k \in DOMAIN s, NEW T \in SUBSET ((k + 1)..Len(s)),
         NEW g, g = Members(s, k, T)
  PROVE  /\ g \in Seq(1..Len(s)) /\ Len(g) > 0 /\ g[1] = k
         /\ ToSet(g) = {k} \union T
<1> DEFINE D == 1..Len(s)
           all == [l \in DOMAIN s |-> l]
<1>1. DOMAIN s = D /\ Len(s) \in Nat /\ k \in D
  OBVIOUS
<1>2. all \in Seq(D) /\ DOMAIN all = D /\ \A l \in D : all[l] = l
  BY <1>1
<1> HIDE DEF all, D
<1>3. PICK t : t = Keep(all, T)
  OBVIOUS
<1>4. /\ t \in Seq(D)
      /\ \E e : /\ Picks(e, t, all)
                /\ \A l \in DOMAIN all : all[l] \in T <=> \E p \in DOMAIN t : e[p] = l
  <2>1. PICK E, u : E = D /\ u = all
    OBVIOUS
  <2>2. u \in Seq(E) /\ t = Keep(u, T)
    BY <1>2, <1>3, <2>1
  <2>3. /\ t \in Seq(E)
        /\ \E e : /\ Picks(e, t, u)
                  /\ \A l \in DOMAIN u : u[l] \in T <=> \E p \in DOMAIN t : e[p] = l
    BY <2>2, KeepElements
  <2> QED BY <2>1, <2>3
<1>5. PICK e : /\ Picks(e, t, all)
               /\ \A l \in DOMAIN all : all[l] \in T <=> \E p \in DOMAIN t : e[p] = l
  BY <1>4
<1>6. \A p \in DOMAIN t : e[p] \in D /\ t[p] = e[p]
  BY <1>2, <1>5 DEF Picks
<1>7. T \subseteq D
  BY <1>1 DEF D
<1>8. ToSet(t) = T
  <2>1. ASSUME NEW p \in DOMAIN t PROVE t[p] \in T
    BY <1>2, <1>5, <1>6
  <2>2. ASSUME NEW l \in T PROVE \E p \in DOMAIN t : t[p] = l
    <3>1. PICK p \in DOMAIN t : e[p] = l
      BY <1>2, <1>5, <1>7
    <3> QED BY <1>6, <3>1
  <2> QED BY <2>1, <2>2 DEF ToSet
<1>9. g = <<k>> \o t
  BY <1>3 DEF all, Members
<1>10. <<k>> \in Seq(D) /\ Len(<<k>>) = 1 /\ <<k>>[1] = k
  BY <1>1
<1>11. /\ g \in Seq(D) /\ Len(g) = Len(t) + 1 /\ Len(t) \in Nat /\ g[1] = k
       /\ DOMAIN t = 1..Len(t) /\ DOMAIN g = 1..(Len(t) + 1)
       /\ \A p \in 1..Len(t) : g[p + 1] = t[p]
  <2>1. PICK b : b = <<k>>
    OBVIOUS
  <2>2. b \in Seq(D) /\ Len(b) = 1 /\ b[1] = k /\ g = b \o t /\ k \in D
    BY <1>1, <1>9, <1>10, <2>1
  <2>3. t \in Seq(D) /\ Len(t) \in Nat /\ DOMAIN t = 1..Len(t)
    BY <1>4
  <2>4. PICK h : h = b \o t
    OBVIOUS
  <2>7. /\ h \in Seq(D) /\ Len(h) = Len(b) + Len(t)
        /\ \A p \in 1..Len(b) : h[p] = b[p]
        /\ \A p \in 1..Len(t) : h[Len(b) + p] = t[p]
    <3>1. b \in Seq(D) /\ t \in Seq(D) /\ h = b \o t
      BY <2>2, <2>3, <2>4
    <3> QED BY <3>1, Behind
  <2>5. /\ h \in Seq(D) /\ Len(h) = Len(t) + 1 /\ h[1] = k
        /\ \A p \in 1..Len(t) : h[p + 1] = t[p]
    BY <2>2, <2>3, <2>7
  <2>6. DOMAIN h = 1..(Len(t) + 1)
    BY <2>5
  <2> QED BY <2>2, <2>3, <2>4, <2>5, <2>6
<1>12. g[1] = k
  BY <1>11
<1>13. \A p \in DOMAIN t : g[p + 1] = t[p] /\ p + 1 \in DOMAIN g
  BY <1>11
<1>14. ASSUME NEW r \in DOMAIN g PROVE r = 1 \/ \E p \in DOMAIN t : r = p + 1
  <2>1. r \in 1..(Len(t) + 1) /\ DOMAIN t = 1..Len(t)
    BY <1>4, <1>11
  <2>2. r = 1 \/ r - 1 \in DOMAIN t
    BY <1>11, <2>1
  <2>3. r - 1 + 1 = r
    BY <2>1
  <2> QED BY <2>2, <2>3
<1>15. ToSet(g) = {k} \union ToSet(t)
  <2>1. ASSUME NEW x \in ToSet(g) PROVE x \in {k} \union ToSet(t)
    <3>1. PICK r \in DOMAIN g : g[r] = x
      BY DEF ToSet
    <3>2. CASE r = 1
      BY <1>12, <3>1, <3>2
    <3>3. CASE \E p \in DOMAIN t : r = p + 1
      BY <1>13, <3>1, <3>3 DEF ToSet
    <3> QED BY <1>14, <3>2, <3>3
  <2>2. ASSUME NEW x \in ToSet(t) PROVE x \in ToSet(g)
    <3>1. PICK p \in DOMAIN t : t[p] = x
      BY DEF ToSet
    <3> QED BY <1>13, <3>1 DEF ToSet
  <2>3. k \in ToSet(g)
    <3>1. 1 \in DOMAIN g
      BY <1>11
    <3> QED BY <1>12, <3>1 DEF ToSet
  <2> QED BY <2>1, <2>2, <2>3
<1> QED BY <1>8, <1>11, <1>12, <1>15 DEF D

\* The groups so far are sequences of places.
LEMMA GroupStepType ==
  ASSUME NEW S, NEW s \in Seq(S), NEW k \in DOMAIN s, NEW last \in GroupStates(Len(s))
  PROVE  GroupStep(s, k, last) \in GroupStates(Len(s))
<1> DEFINE T == SameAs(s, k, last)
           g == Members(s, k, T)
           n == Len(s)
<1>1. last.used \in SUBSET (1..n) /\ last.groups \in Seq(Seq(1..n))
  BY DEF GroupStates
<1>2. k \in 1..n /\ n \in Nat
  OBVIOUS
<1>3. T \in SUBSET ((k + 1)..n) /\ T \in SUBSET (1..n)
  BY <1>2 DEF SameAs
<1>4. g \in Seq(1..n)
  <2> HIDE DEF T
  <2>1. PICK h : h = g
    OBVIOUS
  <2>2. h \in Seq(1..n)
    BY <1>3, <2>1, MembersElements
  <2> QED BY <2>1, <2>2
<1> HIDE DEF T, g
<1>5. Append(last.groups, g) \in Seq(Seq(1..n))
  <2> DEFINE G == Seq(1..n)
  <2> HIDE DEF G
  <2>1. last.groups \in Seq(G) /\ g \in G
    BY <1>1, <1>4 DEF G
  <2>2. Append(last.groups, g) \in Seq(G)
    BY <2>1
  <2> QED BY <2>2 DEF G
<1>6. [used |-> last.used \union T, groups |-> Append(last.groups, g)] \in GroupStates(n)
  BY <1>1, <1>3, <1>5 DEF GroupStates
<1> QED BY <1>6 DEF GroupStep, T, g

\* Groups is well defined.
LEMMA GroupsDef ==
  ASSUME NEW S, NEW s \in Seq(S)
  PROVE  \E upto \in [0..Len(s) -> GroupStates(Len(s))] :
           /\ upto[0] = [used |-> {}, groups |-> <<>>]
           /\ \A k \in 1..Len(s) : upto[k] = GroupStep(s, k, upto[k - 1])
           /\ Groups(s) = upto[Len(s)].groups
<1> DEFINE Body(k, last) ==
             LET same == {l \in (k + 1)..Len(s) :
                            /\ l \notin last.used
                            /\ IouAbove(s[k].box, s[l].box, CharIou)}
             IN IF k \in last.used THEN last
                ELSE [used |-> last.used \union same,
                      groups |-> Append(last.groups, <<k>> \o Keep([l \in DOMAIN s |-> l], same))]
           base == [used |-> {}, groups |-> <<>>]
           Def(f) == f = [k \in 0..Len(s) |-> IF k = 0 THEN base ELSE Body(k, f[k - 1])]
           Values == GroupStates(Len(s))
<1>0. \A k, last : Body(k, last) = GroupStep(s, k, last)
  BY DEF GroupStep, SameAs, Near, Members
<1>1. Len(s) \in Nat
  OBVIOUS
<1>2. base \in Values
  BY DEF GroupStates
<1>3. ASSUME NEW k \in 1..Len(s), NEW last \in Values PROVE GroupStep(s, k, last) \in Values
  <2>1. k \in DOMAIN s
    OBVIOUS
  <2> QED BY <2>1, GroupStepType
<1> HIDE DEF base, Values, Body
<1>4. \E f : Def(f)
  <2> DEFINE step == [k \in 1..Len(s) |-> [last \in Values |-> GroupStep(s, k, last)]]
  <2>3. step \in [1..Len(s) -> [Values -> Values]]
    BY <1>3
  <2>4. \A k \in 1..Len(s), last \in Values : step[k][last] = GroupStep(s, k, last)
    OBVIOUS
  <2> HIDE DEF step
  <2>5. PICK f : Runs(f, Len(s), Values, base, step)
    BY <1>1, <1>2, <2>3, Recursion
  <2>6. f \in [0..Len(s) -> Values] /\ f[0] = base /\ \A k \in 1..Len(s) : f[k] = step[k][f[k - 1]]
    BY <2>5 DEF Runs
  <2>7. ASSUME NEW k \in 1..Len(s) PROVE f[k] = Body(k, f[k - 1])
    <3>1. k - 1 \in 0..Len(s)
      BY <1>1
    <3>2. f[k] = GroupStep(s, k, f[k - 1])
      BY <2>4, <2>6, <3>1
    <3> QED BY <1>0, <3>2
  <2>8. ASSUME NEW k \in 0..Len(s) PROVE f[k] = IF k = 0 THEN base ELSE Body(k, f[k - 1])
    <3>1. k = 0 \/ k \in 1..Len(s)
      BY <1>1
    <3> QED BY <2>6, <2>7, <3>1
  <2>9. Def(f)
    BY <2>6, <2>8
  <2> HIDE DEF Def
  <2> QED BY <2>9
<1> DEFINE upto == CHOOSE f : Def(f)
<1>5. Def(upto)
  <2> HIDE DEF Def
  <2> QED BY <1>4
<1>6. Groups(s) = upto[Len(s)].groups
  BY Zenon DEF Groups, Body, base
<1> HIDE DEF upto
<1>7. DOMAIN upto = 0..Len(s) /\ upto = [k \in 0..Len(s) |-> upto[k]]
  BY <1>5
<1>8. upto[0] = base
  BY <1>1, <1>5
<1>9. ASSUME NEW k \in 1..Len(s) PROVE upto[k] = GroupStep(s, k, upto[k - 1])
  <2>1. k \in 0..Len(s) /\ k # 0
    BY <1>1
  <2>2. upto[k] = Body(k, upto[k - 1])
    BY <1>5, <2>1
  <2> QED BY <1>0, <2>2
<1> HIDE DEF Def
<1> DEFINE U == {k \in 0..Len(s) : upto[k] \in Values}
<1>10. 0..Len(s) \subseteq U
  <2>1. 0 \in U
    BY <1>1, <1>2, <1>8
  <2>2. ASSUME NEW k \in 0..(Len(s) - 1), k \in U PROVE k + 1 \in U
    <3>1. k + 1 \in 1..Len(s) /\ k + 1 \in 0..Len(s)
      BY <1>1
    <3>2. upto[k + 1] = GroupStep(s, k + 1, upto[k]) /\ upto[k] \in Values
      BY <1>9, <2>2, <3>1
    <3>3. GroupStep(s, k + 1, upto[k]) \in Values
      BY <1>3, <3>1, <3>2
    <3> QED BY <3>1, <3>2, <3>3
  <2> HIDE DEF U
  <2> QED BY <1>1, <2>1, <2>2, Induction
<1>11. upto \in [0..Len(s) -> Values]
  BY <1>7, <1>10
<1> QED BY <1>6, <1>8, <1>9, <1>11 DEF base, Values

\* Being at the same place is an equivalence.
Equivalence(s) ==
  /\ \A k \in DOMAIN s : Near(s, k, k)
  /\ \A k, l \in DOMAIN s : Near(s, k, l) => Near(s, l, k)
  /\ \A j, k, l \in DOMAIN s : Near(s, j, k) /\ Near(s, k, l) => Near(s, j, l)

\* The groups of the first k characters: the first of a group is at a new place, the
\* group has all that are at this place, and no place is missing.
Grouped(s, k, used, groups) ==
  /\ used = {l \in DOMAIN s : \E j \in DOMAIN s : j <= k /\ j < l /\ Near(s, j, l)}
  /\ \A g \in DOMAIN groups :
       /\ Len(groups[g]) > 0 /\ groups[g][1] \in DOMAIN s /\ groups[g][1] <= k
       /\ ToSet(groups[g]) = {l \in DOMAIN s : Near(s, groups[g][1], l)}
  /\ \A g, h \in DOMAIN groups : g < h =>
       groups[g][1] < groups[h][1] /\ ~ Near(s, groups[g][1], groups[h][1])
  /\ \A l \in DOMAIN s : l <= k => \E g \in DOMAIN groups : Near(s, groups[g][1], l)

\* A step of the outer loop.
LEMMA GroupedStep ==
  ASSUME NEW S, NEW s \in Seq(S), Equivalence(s), NEW k \in DOMAIN s,
         NEW last \in GroupStates(Len(s)), Grouped(s, k - 1, last.used, last.groups),
         NEW next, next = GroupStep(s, k, last)
  PROVE  Grouped(s, k, next.used, next.groups)
<1> DEFINE D == DOMAIN s
           n == Len(s)
           G == last.groups
           Users(m) == {l \in D : \E j \in D : j <= m /\ j < l /\ Near(s, j, l)}
<1>1. D = 1..n /\ n \in Nat /\ k \in Nat /\ k >= 1
  OBVIOUS
<1>2. /\ \A l \in D : Near(s, l, l)
      /\ \A l, m \in D : Near(s, l, m) => Near(s, m, l)
      /\ \A j, l, m \in D : Near(s, j, l) /\ Near(s, l, m) => Near(s, j, m)
  BY DEF Equivalence
<1>3. last.used = Users(k - 1)
  BY DEF Grouped
<1>4. G \in Seq(Seq(1..n)) /\ DOMAIN G = 1..Len(G) /\ Len(G) \in Nat
  <2>1. G \in Seq(Seq(1..n))
    BY DEF GroupStates
  <2> QED BY <2>1
<1>5. /\ \A g \in DOMAIN G :
           /\ Len(G[g]) > 0 /\ G[g][1] \in D /\ G[g][1] <= k - 1
           /\ ToSet(G[g]) = {l \in D : Near(s, G[g][1], l)}
      /\ \A g, h \in DOMAIN G : g < h => G[g][1] < G[h][1] /\ ~ Near(s, G[g][1], G[h][1])
      /\ \A l \in D : l <= k - 1 => \E g \in DOMAIN G : Near(s, G[g][1], l)
  BY DEF Grouped
<1> HIDE DEF G
<1>6. CASE k \in last.used
  <2>1. next = last
    BY <1>6 DEF GroupStep
  <2>2. PICK j \in D : j <= k - 1 /\ Near(s, j, k)
    BY <1>1, <1>3, <1>6
  <2>3. Users(k) = Users(k - 1)
    <3>1. ASSUME NEW l \in D, NEW i \in D, i <= k, i < l, Near(s, i, l)
          PROVE  \E m \in D : m <= k - 1 /\ m < l /\ Near(s, m, l)
      <4>1. CASE i = k
        <5>1. j < l /\ Near(s, j, l)
          BY <1>1, <1>2, <2>2, <3>1, <4>1
        <5> QED BY <2>2, <5>1
      <4>2. CASE i # k
        <5>1. i <= k - 1
          BY <1>1, <3>1, <4>2
        <5> QED BY <3>1, <5>1
      <4> QED BY <4>1, <4>2
    <3>2. \A i \in D : i <= k - 1 => i <= k
      BY <1>1
    <3> QED BY <3>1, <3>2
  <2>4. \A g \in DOMAIN G : G[g][1] <= k
    BY <1>1, <1>5
  <2>5. ASSUME NEW l \in D, l <= k PROVE \E g \in DOMAIN G : Near(s, G[g][1], l)
    <3>1. CASE l = k
      <4>1. PICK g \in DOMAIN G : Near(s, G[g][1], j)
        BY <1>5, <2>2
      <4> QED BY <1>2, <1>5, <2>2, <3>1, <4>1
    <3>2. CASE l # k
      <4>1. l <= k - 1
        BY <1>1, <2>5, <3>2
      <4> QED BY <1>5, <4>1
    <3> QED BY <3>1, <3>2
  <2>6. last.used = Users(k)
    BY <1>3, <2>3
  <2> HIDE DEF Users
  <2>7. Grouped(s, k, last.used, G)
    BY <1>5, <2>4, <2>5, <2>6 DEF Grouped, Users
  <2> QED BY <2>1, <2>7 DEF G
<1>7. CASE k \notin last.used
  <2> DEFINE T == SameAs(s, k, last)
             new == Members(s, k, T)
             H == Append(G, new)
  <2>1. next = [used |-> last.used \union T, groups |-> H]
    BY <1>7 DEF GroupStep, G
  <2>2. \A j \in D : j < k => ~ Near(s, j, k)
    BY <1>1, <1>3, <1>7
  <2>3. T = {l \in D : k < l /\ Near(s, k, l)}
    <3>1. ASSUME NEW l \in D, k < l, Near(s, k, l) PROVE l \notin last.used
      <4>1. SUFFICES ASSUME NEW j \in D, j <= k - 1, Near(s, j, l) PROVE FALSE
        BY <1>3
      <4>2. Near(s, j, k) /\ j < k
        BY <1>1, <1>2, <3>1, <4>1
      <4> QED BY <2>2, <4>2
    <3>2. \A l : l \in (k + 1)..n <=> l \in D /\ k < l
      BY <1>1
    <3> QED BY <3>1, <3>2 DEF SameAs
  <2>4. last.used \union T = Users(k)
    <3>1. ASSUME NEW l \in D, NEW j \in D, j <= k, j < l, Near(s, j, l)
          PROVE  l \in T \/ \E m \in D : m <= k - 1 /\ m < l /\ Near(s, m, l)
      <4>1. j = k \/ j <= k - 1
        BY <1>1, <3>1
      <4> QED BY <2>3, <3>1, <4>1
    <3>2. \A i \in D : i <= k - 1 => i <= k
      BY <1>1
    <3>3. k <= k
      BY <1>1
    <3> HIDE DEF T
    <3> QED BY <1>3, <2>3, <3>1, <3>2, <3>3
  <2>5. new \in Seq(1..n) /\ Len(new) > 0 /\ new[1] = k /\ ToSet(new) = {k} \union T
    <3>1. T \in SUBSET ((k + 1)..n)
      BY DEF SameAs
    <3> HIDE DEF T
    <3>2. PICK h : h = new
      OBVIOUS
    <3>4. h = Members(s, k, T)
      BY <3>2
    <3>3. h \in Seq(1..n) /\ Len(h) > 0 /\ h[1] = k /\ ToSet(h) = {k} \union T
      <4> HIDE DEF new
      <4>1. h \in Seq(1..Len(s)) /\ Len(h) > 0 /\ h[1] = k
        BY <3>1, <3>4, MembersElements
      <4>2. ToSet(h) = {k} \union T
        BY <3>1, <3>4, MembersElements
      <4> QED BY <4>1, <4>2
    <3> QED BY <3>2, <3>3
  <2> HIDE DEF T, new
  <2>6. ToSet(new) = {l \in D : Near(s, new[1], l)}
    <3>1. ASSUME NEW l \in D, Near(s, k, l) PROVE l \in {k} \union T
      <4>1. ~ (l < k)
        BY <1>2, <2>2, <3>1
      <4>2. l = k \/ k < l
        BY <1>1, <4>1
      <4> QED BY <2>3, <3>1, <4>2
    <3>2. ASSUME NEW l \in {k} \union T PROVE l \in D /\ Near(s, k, l)
      BY <1>2, <2>3
    <3> QED BY <2>5, <3>1, <3>2
  <2>7. /\ DOMAIN H = 1..(Len(G) + 1) /\ H[Len(G) + 1] = new
        /\ \A g \in DOMAIN G : H[g] = G[g]
    BY <1>4
  <2> HIDE DEF H
  <2>8. \A g \in DOMAIN H : g \in DOMAIN G \/ g = Len(G) + 1
    BY <1>4, <2>7
  <2>9. ASSUME NEW g \in DOMAIN H
        PROVE  /\ Len(H[g]) > 0 /\ H[g][1] \in D /\ H[g][1] <= k
               /\ ToSet(H[g]) = {l \in D : Near(s, H[g][1], l)}
    <3>1. CASE g \in DOMAIN G
      <4>1. H[g] = G[g] /\ (G[g][1] <= k - 1 => G[g][1] <= k)
        BY <1>1, <1>5, <2>7, <3>1
      <4> QED BY <1>5, <3>1, <4>1
    <3>2. CASE g = Len(G) + 1
      <4>1. H[g] = new /\ k <= k
        BY <1>1, <2>7, <3>2
      <4> QED BY <2>5, <2>6, <4>1
    <3> QED BY <2>8, <3>1, <3>2
  <2>10. ASSUME NEW g \in DOMAIN H, NEW h \in DOMAIN H, g < h
         PROVE  H[g][1] < H[h][1] /\ ~ Near(s, H[g][1], H[h][1])
    <3>1. g \in DOMAIN G /\ H[g] = G[g]
      BY <1>4, <2>7, <2>10
    <3>2. CASE h \in DOMAIN G
      BY <1>5, <2>7, <2>10, <3>1, <3>2
    <3>3. CASE h = Len(G) + 1
      <4>1. H[h][1] = k
        BY <2>5, <2>7, <3>3
      <4>2. G[g][1] \in D /\ G[g][1] < k
        BY <1>1, <1>5, <3>1
      <4> QED BY <2>2, <3>1, <4>1, <4>2
    <3> QED BY <2>8, <3>2, <3>3
  <2>11. ASSUME NEW l \in D, l <= k PROVE \E g \in DOMAIN H : Near(s, H[g][1], l)
    <3>1. CASE l = k
      <4>1. Len(G) + 1 \in DOMAIN H /\ H[Len(G) + 1][1] = k
        BY <1>4, <2>5, <2>7
      <4> QED BY <1>2, <3>1, <4>1
    <3>2. CASE l # k
      <4>1. l <= k - 1
        BY <1>1, <2>11, <3>2
      <4>2. PICK g \in DOMAIN G : Near(s, G[g][1], l)
        BY <1>5, <4>1
      <4>3. g \in DOMAIN H /\ H[g] = G[g]
        BY <1>4, <2>7
      <4> QED BY <4>2, <4>3
    <3> QED BY <3>1, <3>2
  <2> HIDE DEF Users
  <2>12. Grouped(s, k, last.used \union T, H)
    BY <2>4, <2>9, <2>10, <2>11 DEF Grouped, Users
  <2> QED BY <2>1, <2>12
<1> QED BY <1>6, <1>7

\* The groups of all characters.
LEMMA GroupsElements ==
  ASSUME NEW S, NEW s \in Seq(S), Equivalence(s)
  PROVE  /\ Groups(s) \in Seq(Seq(1..Len(s)))
         /\ \E used : Grouped(s, Len(s), used, Groups(s))
<1> DEFINE Steps(upto) == \A k \in 1..Len(s) : upto[k] = GroupStep(s, k, upto[k - 1])
           base == [used |-> {}, groups |-> <<>>]
           Values == GroupStates(Len(s))
<1>1. PICK upto \in [0..Len(s) -> Values] :
        upto[0] = base /\ Steps(upto) /\ Groups(s) = upto[Len(s)].groups
  <2>1. PICK t : t = Groups(s)
    OBVIOUS
  <2> QED BY <2>1, GroupsDef
<1>2. Len(s) \in Nat /\ DOMAIN s = 1..Len(s)
  OBVIOUS
<1> DEFINE U == {k \in 0..Len(s) : Grouped(s, k, upto[k].used, upto[k].groups)}
<1>3. 0 \in U
  <2>1. upto[0].used = {} /\ upto[0].groups = <<>>
    BY <1>1
  <2>2. Grouped(s, 0, {}, <<>>)
    <3>1. \A j \in DOMAIN s : ~ (j <= 0)
      BY <1>2
    <3>2. {l \in DOMAIN s : \E j \in DOMAIN s : j <= 0 /\ j < l /\ Near(s, j, l)} = {}
      BY <3>1
    <3> QED BY <3>1, <3>2 DEF Grouped
  <2> QED BY <1>2, <2>1, <2>2
<1> HIDE DEF base, Values
<1>4. ASSUME NEW k \in 0..(Len(s) - 1), k \in U PROVE k + 1 \in U
  <2>1. k + 1 \in 1..Len(s) /\ k + 1 \in 0..Len(s) /\ (k + 1) - 1 = k /\ k \in 0..Len(s)
    BY <1>2
  <2>2. upto[k + 1] = GroupStep(s, k + 1, upto[k])
    BY <1>1, <2>1
  <2>3. PICK last, next, l : last = upto[k] /\ next = upto[k + 1] /\ l = k + 1
    OBVIOUS
  <2>4. last \in GroupStates(Len(s)) /\ next = GroupStep(s, l, last) /\ l \in DOMAIN s
    BY <1>1, <1>2, <2>1, <2>2, <2>3 DEF Values
  <2>5. Grouped(s, l - 1, last.used, last.groups)
    <3>1. Grouped(s, k, upto[k].used, upto[k].groups)
      BY <1>4
    <3> QED BY <2>1, <2>3, <3>1
  <2>6. Grouped(s, l, next.used, next.groups)
    BY <2>4, <2>5, GroupedStep
  <2> QED BY <2>1, <2>3, <2>6
<1>5. 0..Len(s) \subseteq U
  <2> HIDE DEF U
  <2> QED BY <1>2, <1>3, <1>4, Induction
<1>6. Len(s) \in 0..Len(s)
  BY <1>2
<1>7. Grouped(s, Len(s), upto[Len(s)].used, Groups(s))
  BY <1>1, <1>5, <1>6
<1>8. upto[Len(s)].groups \in Seq(Seq(1..Len(s)))
  <2>1. upto[Len(s)] \in GroupStates(Len(s))
    BY <1>1, <1>6 DEF Values
  <2> QED BY <2>1 DEF GroupStates
<1> QED BY <1>1, <1>7, <1>8

-----------------------------------------------------------------------------
(* All ways to choose                                                      *)

\* There is only one quotient and one remainder.
LEMMA Quotient ==
  ASSUME NEW T \in Nat, T > 0, NEW x \in Nat, NEW y \in 0..(T - 1), NEW n, n = x * T + y
  PROVE  n \div T = x /\ n % T = y
<1>1. n \in Nat
  OBVIOUS
<1>2. n = T * (n \div T) + (n % T) /\ n % T \in 0..(T - 1) /\ n \div T \in Int
  BY <1>1
<1> QED BY <1>1, <1>2

\* The arithmetic of Extend: for each pair of i < n and j < g there is one place below
\* n * g, and no other places are.
LEMMA PairNumbers ==
  ASSUME NEW n \in Nat, NEW g \in Nat
  PROVE  /\ n * g \in Nat
         /\ \A a \in 0..(n * g - 1) : a % n \in 0..(n - 1) /\ (a * g) \div (n * g) \in 0..(g - 1)
         /\ \A i \in 0..(n - 1), j \in 0..(g - 1) :
              \E a \in 0..(n * g - 1) : a % n = i /\ (a * g) \div (n * g) = j
<1> DEFINE T == n * g
<1>1. T \in Nat
  OBVIOUS
<1>2. ASSUME NEW a \in 0..(T - 1) PROVE a % n \in 0..(n - 1) /\ (a * g) \div T \in 0..(g - 1)
  <2>1. T > 0 /\ n > 0 /\ g > 0
    <3>1. T > 0
      BY <1>1
    <3>2. n # 0 /\ g # 0
      BY <3>1
    <3> QED BY <3>1, <3>2
  <2>2. a \in Nat /\ a + 1 <= T
    BY <1>1
  <2>3. a % n \in 0..(n - 1)
    BY <2>1, <2>2
  <2>4. a * g \in Nat /\ (a + 1) * g <= T * g /\ (a + 1) * g = a * g + g
    BY <1>1, <2>2
  <2> DEFINE q == (a * g) \div T
             b == a * g
  <2>5. b \in Nat /\ b < T * g
    BY <1>1, <2>1, <2>4
  <2> HIDE DEF b, T
  <2>6. b = T * (b \div T) + (b % T) /\ b % T \in 0..(T - 1) /\ b \div T \in Nat
    BY <1>1, <2>1, <2>5
  <2>7. ~ (b \div T >= g)
    <3>1. SUFFICES ASSUME b \div T >= g PROVE FALSE
      OBVIOUS
    <3>2. T * (b \div T) >= T * g
      BY <1>1, <2>6, <3>1
    <3>3. T * (b \div T) \in Nat /\ T * g \in Nat
      BY <1>1, <2>6
    <3> QED BY <2>5, <2>6, <3>2, <3>3
  <2>8. b \div T \in 0..(g - 1)
    BY <2>6, <2>7
  <2> QED BY <2>3, <2>8 DEF b
<1>3. ASSUME NEW i \in 0..(n - 1), NEW j \in 0..(g - 1)
      PROVE  \E a \in 0..(T - 1) : a % n = i /\ (a * g) \div T = j
  <2>1. n > 0 /\ g > 0 /\ i \in Nat /\ j \in Nat
    OBVIOUS
  <2>2. T > 0
    BY <2>1
  <2> DEFINE a == j * n + i
  <2>3. a \in Nat /\ a < T
    <3>1. (j + 1) * n <= g * n
      BY <2>1
    <3>2. (j + 1) * n = j * n + n /\ g * n = T
      BY <2>1
    <3> QED BY <2>1, <3>1, <3>2
  <2>4. a % n = i
    BY <2>1, Quotient
  <2>5. a * g = j * T + i * g
    BY <2>1
  <2>6. i * g \in 0..(T - 1)
    <3>1. (i + 1) * g <= n * g
      BY <2>1
    <3>2. (i + 1) * g = i * g + g /\ i * g \in Nat
      BY <2>1
    <3> QED BY <1>1, <2>1, <3>1, <3>2
  <2>7. (a * g) \div T = j
    <3>1. PICK b, y : b = a * g /\ y = i * g
      OBVIOUS
    <3>2. b = j * T + y /\ y \in 0..(T - 1)
      BY <2>5, <2>6, <3>1
    <3> HIDE DEF T, a
    <3>3. b \div T = j
      BY <1>1, <2>1, <2>2, <3>2, Quotient
    <3> QED BY <3>1, <3>3
  <2>8. a \in 0..(T - 1)
    BY <1>1, <2>3
  <2> HIDE DEF a
  <2> QED BY <2>4, <2>7, <2>8
<1> QED BY <1>1, <1>2, <1>3

\* The elements of e are those of readings, each with each member of group behind.
Extended(e, readings, group) ==
  \A r : r \in ToSet(e) <=>
    \E s \in ToSet(readings), x \in ToSet(group) : r = Append(s, x)

\* Extend pairs each reading with each character of the group.
LEMMA ExtendElements ==
  ASSUME NEW A, NEW readings \in Seq(Seq(A)), NEW group \in Seq(A),
         NEW e, e = Extend(readings, group)
  PROVE  e \in Seq(Seq(A)) /\ Extended(e, readings, group)
<1> DEFINE n == Len(readings)
           g == Len(group)
           T == n * g
           At(k) == Append(readings[((k - 1) % n) + 1], group[((k - 1) * g) \div T + 1])
<1>1. n \in Nat /\ g \in Nat /\ DOMAIN readings = 1..n /\ DOMAIN group = 1..g
  OBVIOUS
<1>2. e = [k \in 1..T |-> At(k)]
  BY DEF Extend
<1>3. /\ T \in Nat
      /\ \A a \in 0..(T - 1) : a % n \in 0..(n - 1) /\ (a * g) \div T \in 0..(g - 1)
      /\ \A i \in 0..(n - 1), j \in 0..(g - 1) :
           \E a \in 0..(T - 1) : a % n = i /\ (a * g) \div T = j
  <2> HIDE DEF n, g
  <2> QED BY <1>1, PairNumbers
<1> DEFINE I(k) == ((k - 1) % n) + 1
           J(k) == ((k - 1) * g) \div T + 1
<1>4. ASSUME NEW k \in 1..T PROVE I(k) \in DOMAIN readings /\ J(k) \in DOMAIN group
  <2> HIDE DEF T, n, g
  <2>1. k - 1 \in 0..(T - 1)
    BY <1>3
  <2>2. (k - 1) % n \in 0..(n - 1) /\ ((k - 1) * g) \div T \in 0..(g - 1)
    BY <1>3, <2>1
  <2> QED BY <1>1, <2>2
<1>5. ASSUME NEW i \in DOMAIN readings, NEW j \in DOMAIN group
      PROVE  \E k \in 1..T : I(k) = i /\ J(k) = j
  <2> HIDE DEF T, n, g
  <2>1. i - 1 \in 0..(n - 1) /\ j - 1 \in 0..(g - 1)
    BY <1>1
  <2>2. PICK a \in 0..(T - 1) : a % n = i - 1 /\ (a * g) \div T = j - 1
    BY <1>3, <2>1
  <2>3. a + 1 \in 1..T /\ (a + 1) - 1 = a
    BY <1>3
  <2>4. I(a + 1) = i /\ J(a + 1) = j
    BY <1>1, <2>2, <2>3
  <2> HIDE DEF I, J
  <2> QED BY <2>3, <2>4
<1>6. \A k : At(k) = Append(readings[I(k)], group[J(k)])
  OBVIOUS
<1> HIDE DEF At, I, J, T
<1>7. ASSUME NEW k \in 1..T PROVE At(k) \in Seq(A)
  <2>1. readings[I(k)] \in Seq(A) /\ group[J(k)] \in A
    BY <1>4
  <2>2. PICK s, x : s = readings[I(k)] /\ x = group[J(k)]
    OBVIOUS
  <2>3. s \in Seq(A) /\ x \in A
    BY <2>1, <2>2
  <2>4. Append(s, x) \in Seq(A)
    BY <2>3
  <2> QED BY <1>6, <2>2, <2>4
<1>8. DOMAIN e = 1..T /\ \A k \in 1..T : e[k] = At(k)
  BY <1>2
<1>9. e \in Seq(Seq(A))
  <2> DEFINE Values == Seq(A)
  <2>1. \A k \in 1..T : At(k) \in Values
    BY <1>7
  <2> HIDE DEF Values
  <2>2. e \in [1..T -> Values]
    BY <1>2, <2>1
  <2>3. e \in Seq(Values)
    BY <1>3, <2>2
  <2> QED BY <2>3 DEF Values
<1>10. ASSUME NEW r \in ToSet(e)
       PROVE  \E s \in ToSet(readings), x \in ToSet(group) : r = Append(s, x)
  <2>1. PICK k \in 1..T : r = At(k)
    BY <1>8 DEF ToSet
  <2>2. readings[I(k)] \in ToSet(readings) /\ group[J(k)] \in ToSet(group)
    BY <1>4 DEF ToSet
  <2> QED BY <1>6, <2>1, <2>2
<1>11. ASSUME NEW s \in ToSet(readings), NEW x \in ToSet(group)
       PROVE  Append(s, x) \in ToSet(e)
  <2>1. PICK i \in DOMAIN readings : s = readings[i]
    BY DEF ToSet
  <2>2. PICK j \in DOMAIN group : x = group[j]
    BY DEF ToSet
  <2>3. PICK k \in 1..T : I(k) = i /\ J(k) = j
    BY <1>5
  <2>4. e[k] = Append(s, x)
    BY <1>6, <1>8, <2>1, <2>2, <2>3
  <2> QED BY <1>8, <2>4 DEF ToSet
<1>12. Extended(e, readings, group)
  BY <1>10, <1>11 DEF Extended
<1> QED BY <1>9, <1>12

\* The characters of a plate, as nms_chars leaves them and as they are sorted, and
\* their groups.
Kept(plate) == Suppress(plate.chars, CharKills(plate.chars))
Sorted(plate) == InPosition(Kept(plate), plate.class)
Grouping(plate) == Groups(Sorted(plate))

\* The loop over the groups begins with the empty reading.
Begins(upto) == upto[0] = << <<>> >>

\* The readings of a plate in terms of the places of its characters.
LEMMA ReadingsDef ==
  ASSUME NEW plate, NEW A, Grouping(plate) \in Seq(Seq(A))
  PROVE  \E upto \in [0..Len(Grouping(plate)) -> Seq(Seq(A))] :
           /\ Begins(upto)
           /\ \A k \in 1..Len(Grouping(plate)) :
                upto[k] = Extend(upto[k - 1], Grouping(plate)[k])
           /\ Readings(plate) = [r \in DOMAIN upto[Len(Grouping(plate))] |->
                [p \in DOMAIN upto[Len(Grouping(plate))][r] |->
                  Sorted(plate)[upto[Len(Grouping(plate))][r][p]]]]
<1> DEFINE base == << <<>> >>
           chars == Sorted(plate)
           groups == Grouping(plate)
           N == Len(groups)
           Def(f) == f = [k \in 0..N |-> IF k = 0 THEN base ELSE Extend(f[k - 1], groups[k])]
           Values == Seq(Seq(A))
<1>1. N \in Nat /\ \A k \in 1..N : groups[k] \in Seq(A)
  OBVIOUS
<1>2. base \in Values
  <2> DEFINE V == Seq(A)
             none == <<>>
  <2>1. none \in V
    OBVIOUS
  <2> HIDE DEF V, none
  <2>2. <<none>> \in Seq(V)
    BY <2>1
  <2> QED BY <2>2 DEF V, none
<1>3. ASSUME NEW k \in 1..N, NEW last \in Values PROVE Extend(last, groups[k]) \in Values
  <2>1. PICK e, g : e = Extend(last, g) /\ g = groups[k]
    OBVIOUS
  <2>2. g \in Seq(A)
    BY <1>1, <2>1
  <2>3. e \in Seq(Seq(A))
    BY <2>1, <2>2, ExtendElements
  <2> QED BY <2>1, <2>3
<1> HIDE DEF base, Values
<1>4. \E f : Def(f)
  <2> DEFINE step == [k \in 1..N |-> [last \in Values |-> Extend(last, groups[k])]]
  <2>3. step \in [1..N -> [Values -> Values]]
    BY <1>3
  <2>4. \A k \in 1..N, last \in Values : step[k][last] = Extend(last, groups[k])
    OBVIOUS
  <2> HIDE DEF step
  <2>5. PICK f : Runs(f, N, Values, base, step)
    <3> HIDE DEF N
    <3> QED BY <1>1, <1>2, <2>3, Recursion
  <2>6. f \in [0..N -> Values] /\ f[0] = base /\ \A k \in 1..N : f[k] = step[k][f[k - 1]]
    BY <2>5 DEF Runs
  <2>7. ASSUME NEW k \in 1..N PROVE f[k] = Extend(f[k - 1], groups[k])
    <3>1. k - 1 \in 0..N
      BY <1>1
    <3> QED BY <2>4, <2>6, <3>1
  <2>8. ASSUME NEW k \in 0..N
        PROVE  f[k] = IF k = 0 THEN base ELSE Extend(f[k - 1], groups[k])
    <3>1. k = 0 \/ k \in 1..N
      BY <1>1
    <3> QED BY <2>6, <2>7, <3>1
  <2>9. Def(f)
    BY <2>6, <2>8
  <2> HIDE DEF Def
  <2> QED BY <2>9
<1> DEFINE upto == CHOOSE f : Def(f)
<1>5. Def(upto)
  <2> HIDE DEF Def
  <2> QED BY <1>4
<1>6. Readings(plate) = [r \in DOMAIN upto[N] |->
        [p \in DOMAIN upto[N][r] |-> chars[upto[N][r][p]]]]
  BY Zenon DEF Readings, base, Kept, Sorted, Grouping
<1> HIDE DEF upto, chars, groups
<1>7. DOMAIN upto = 0..N /\ upto = [k \in 0..N |-> upto[k]]
  BY <1>5
<1>8. upto[0] = base
  BY <1>1, <1>5
<1>9. ASSUME NEW k \in 1..N PROVE upto[k] = Extend(upto[k - 1], groups[k])
  <2>1. k \in 0..N /\ k # 0
    BY <1>1
  <2> QED BY <1>5, <2>1
<1> HIDE DEF Def
<1> DEFINE U == {k \in 0..N : upto[k] \in Values}
<1>10. 0..N \subseteq U
  <2>1. 0 \in U
    BY <1>1, <1>2, <1>8
  <2>2. ASSUME NEW k \in 0..(N - 1), k \in U PROVE k + 1 \in U
    <3>1. k + 1 \in 1..N /\ k + 1 \in 0..N
      BY <1>1
    <3>2. upto[k + 1] = Extend(upto[k], groups[k + 1]) /\ upto[k] \in Values
      BY <1>9, <2>2, <3>1
    <3>3. Extend(upto[k], groups[k + 1]) \in Values
      BY <1>3, <3>1, <3>2
    <3> QED BY <3>1, <3>2, <3>3
  <2> HIDE DEF U, N
  <2> QED BY <1>1, <2>1, <2>2, Induction
<1>11. upto \in [0..N -> Values]
  BY <1>7, <1>10
<1> QED BY Zenon, <1>6, <1>8, <1>9, <1>11 DEF base, Values, N, chars, groups, Begins

\* One of the first m groups' members at each place.
Choice(x, A, groups, m) ==
  x \in Seq(A) /\ Len(x) = m /\ \A p \in 1..m : x[p] \in ToSet(groups[p])

\* y is a choice from m groups and a member of the next.
Continues(y, A, groups, m) ==
  \E x, c : /\ Choice(x, A, groups, m) /\ c \in ToSet(groups[m + 1])
            /\ y = Append(x, c)

\* A choice without its last member, and with one more.
LEMMA ChoiceStep ==
  ASSUME NEW A, NEW groups, NEW m \in Nat
  PROVE  /\ \A x, c : Choice(x, A, groups, m) /\ c \in A /\ c \in ToSet(groups[m + 1]) =>
              Choice(Append(x, c), A, groups, m + 1)
         /\ \A y : Choice(y, A, groups, m + 1) => Continues(y, A, groups, m)
<1>1. ASSUME NEW x, NEW c, Choice(x, A, groups, m), c \in A, c \in ToSet(groups[m + 1])
      PROVE  Choice(Append(x, c), A, groups, m + 1)
  <2>1. x \in Seq(A) /\ Len(x) = m /\ \A p \in 1..m : x[p] \in ToSet(groups[p])
    BY <1>1 DEF Choice
  <2>2. PICK y : y = Append(x, c)
    OBVIOUS
  <2>3. /\ y \in Seq(A) /\ Len(y) = m + 1 /\ y[m + 1] = c
        /\ \A p \in 1..m : y[p] = x[p]
    BY <1>1, <2>1, <2>2
  <2>4. \A p \in 1..(m + 1) : p \in 1..m \/ p = m + 1
    OBVIOUS
  <2>5. Choice(y, A, groups, m + 1)
    BY <1>1, <2>1, <2>3, <2>4 DEF Choice
  <2> QED BY <2>2, <2>5
<1>2. ASSUME NEW y, Choice(y, A, groups, m + 1)
      PROVE  Continues(y, A, groups, m)
  <2>1. /\ y \in Seq(A) /\ Len(y) = m + 1
        /\ \A p \in 1..(m + 1) : y[p] \in ToSet(groups[p])
    BY <1>2 DEF Choice
  <2>2. PICK x, c : x = SubSeq(y, 1, m) /\ c = y[m + 1]
    OBVIOUS
  <2>3. x \in Seq(A) /\ Len(x) = m /\ \A p \in 1..m : x[p] = y[p]
    BY <2>1, <2>2
  <2>4. c \in A /\ c \in ToSet(groups[m + 1])
    BY <2>1, <2>2
  <2>5. Choice(x, A, groups, m)
    BY <2>1, <2>3 DEF Choice
  <2>6. y = Append(x, c)
    <3>1. PICK z : z = Append(x, c)
      OBVIOUS
    <3>2. z \in Seq(A) /\ Len(z) = m + 1 /\ z[m + 1] = c /\ \A p \in 1..m : z[p] = x[p]
      BY <2>3, <2>4, <3>1
    <3>3. \A p \in 1..(m + 1) : z[p] = y[p]
      BY <2>2, <2>3, <3>2
    <3>4. z = y
      BY <2>1, <3>2, <3>3
    <3> QED BY <3>1, <3>4
  <2> QED BY <2>4, <2>5, <2>6 DEF Continues
<1> QED BY <1>1, <1>2

\* Extend by Extend, all choices come up.
LEMMA AllChoices ==
  ASSUME NEW A, NEW groups \in Seq(Seq(A)), NEW upto \in [0..Len(groups) -> Seq(Seq(A))],
         Begins(upto),
         \A k \in 1..Len(groups) : upto[k] = Extend(upto[k - 1], groups[k])
  PROVE  \A x : x \in ToSet(upto[Len(groups)]) <=> Choice(x, A, groups, Len(groups))
<1> DEFINE N == Len(groups)
           All(k) == \A x : x \in ToSet(upto[k]) <=> Choice(x, A, groups, k)
           U == {k \in 0..N : All(k)}
<1>1. N \in Nat /\ \A k \in 1..N : groups[k] \in Seq(A)
  OBVIOUS
<1>2. 0 \in U
  <2>1. ToSet(upto[0]) = {<<>>}
    BY DEF ToSet, Begins
  <2>2. ASSUME NEW x PROVE x \in {<<>>} <=> Choice(x, A, groups, 0)
    <3>1. Choice(x, A, groups, 0) <=> x \in Seq(A) /\ Len(x) = 0
      BY DEF Choice
    <3>2. ASSUME x = <<>> PROVE x \in Seq(A) /\ Len(x) = 0
      BY <3>2
    <3>3. ASSUME x \in Seq(A), Len(x) = 0 PROVE x = <<>>
      BY <3>3
    <3> QED BY <3>1, <3>2, <3>3
  <2> QED BY <1>1, <2>1, <2>2
<1>3. ASSUME NEW k \in 0..(N - 1), k \in U PROVE k + 1 \in U
  <2>1. k + 1 \in 1..N /\ k + 1 \in 0..N /\ (k + 1) - 1 = k /\ k \in 0..N /\ k \in Nat
    BY <1>1
  <2>2. \A x : x \in ToSet(upto[k]) <=> Choice(x, A, groups, k)
    BY <1>3
  <2>3. PICK last, next, g : last = upto[k] /\ next = upto[k + 1] /\ g = groups[k + 1]
    OBVIOUS
  <2>4. last \in Seq(Seq(A)) /\ g \in Seq(A) /\ next = Extend(last, g)
    BY <1>1, <2>1, <2>3
  <2>5. \A r : r \in ToSet(next) <=>
          \E s \in ToSet(last), x \in ToSet(g) : r = Append(s, x)
    <3>1. Extended(next, last, g)
      BY <2>4, ExtendElements
    <3> QED BY <3>1 DEF Extended
  <2>6. ASSUME NEW y \in ToSet(next) PROVE Choice(y, A, groups, k + 1)
    <3>1. PICK s \in ToSet(last), c \in ToSet(g) : y = Append(s, c)
      BY <2>5
    <3>2. Choice(s, A, groups, k)
      BY <2>2, <2>3
    <3>3. c \in A
      BY <2>4 DEF ToSet
    <3> QED BY <2>1, <2>3, <3>1, <3>2, <3>3, ChoiceStep
  <2>7. ASSUME NEW y, Choice(y, A, groups, k + 1) PROVE y \in ToSet(next)
    <3>1. PICK x, c : /\ Choice(x, A, groups, k) /\ c \in ToSet(groups[k + 1])
                      /\ y = Append(x, c)
      <4>1. PICK m : m = k
        OBVIOUS
      <4>2. m \in Nat /\ Choice(y, A, groups, m + 1)
        BY <2>1, <2>7, <4>1
      <4>3. Continues(y, A, groups, m)
        BY <4>2, ChoiceStep
      <4> QED BY <4>1, <4>3 DEF Continues
    <3>2. x \in ToSet(last) /\ c \in ToSet(g)
      BY <2>2, <2>3, <3>1
    <3> QED BY <2>5, <3>1, <3>2
  <2> QED BY <2>1, <2>3, <2>6, <2>7
<1>4. 0..N \subseteq U
  <2> HIDE DEF U, N
  <2> QED BY <1>1, <1>2, <1>3, Induction
<1>5. N \in 0..N
  BY <1>1
<1>6. N \in U
  <2> HIDE DEF U
  <2> QED BY <1>4, <1>5
<1>7. All(N)
  <2> HIDE DEF All
  <2> QED BY <1>6
<1> QED BY <1>7

\* The readings of a plate are all choices of one character from each group.
LEMMA ReadingsElements ==
  ASSUME NEW plate, NEW A, Grouping(plate) \in Seq(Seq(A))
  PROVE  \A r : r \in ToSet(Readings(plate)) <=>
           \E x : /\ Choice(x, A, Grouping(plate), Len(Grouping(plate)))
                  /\ r = [p \in DOMAIN x |-> Sorted(plate)[x[p]]]
<1> DEFINE groups == Grouping(plate)
           N == Len(groups)
           Read(x) == [p \in DOMAIN x |-> Sorted(plate)[x[p]]]
<1>1. PICK upto \in [0..N -> Seq(Seq(A))] :
        /\ Begins(upto)
        /\ \A k \in 1..N : upto[k] = Extend(upto[k - 1], groups[k])
        /\ Readings(plate) = [r \in DOMAIN upto[N] |-> Read(upto[N][r])]
  BY ReadingsDef
<1> HIDE DEF Read
<1>2. \A x : x \in ToSet(upto[N]) <=> Choice(x, A, groups, N)
  <2>1. PICK g : g = groups
    OBVIOUS
  <2>2. /\ g \in Seq(Seq(A)) /\ upto \in [0..Len(g) -> Seq(Seq(A))] /\ Begins(upto)
        /\ \A k \in 1..Len(g) : upto[k] = Extend(upto[k - 1], g[k])
    BY <1>1, <2>1
  <2>3. \A x : x \in ToSet(upto[Len(g)]) <=> Choice(x, A, g, Len(g))
    BY <2>2, AllChoices
  <2> QED BY <2>1, <2>3
<1> HIDE DEF groups
<1>3. PICK u : u = upto[N]
  OBVIOUS
<1>4. Readings(plate) = [r \in DOMAIN u |-> Read(u[r])]
  BY <1>1, <1>3
<1> HIDE DEF Read
<1>5. \A r : r \in ToSet(Readings(plate)) <=> \E x \in ToSet(u) : r = Read(x)
  BY <1>4 DEF ToSet
<1>6. \A r : r \in ToSet(Readings(plate)) <=> \E x : Choice(x, A, groups, N) /\ r = Read(x)
  BY <1>2, <1>3, <1>5
<1> QED BY <1>6 DEF groups, Read

-----------------------------------------------------------------------------
(* Places on a plate                                                       *)

\* People read in an order, too.
LEMMA ReadBeforeOrders ==
  ASSUME NEW plate, NEW c \in Character, NEW d \in Character, NEW e \in Character
  PROVE  /\ ~ ReadBefore(c, c, plate)
         /\ ReadBefore(c, d, plate) => ~ ReadBefore(d, c, plate)
         /\ ReadBefore(c, e, plate) => ReadBefore(c, d, plate) \/ ReadBefore(d, e, plate)
<1> DEFINE Upper(b) == plate.class # "ru_1" /\ b.box[4] <= plate.middle
<1>1. \A a, b : ReadBefore(a, b, plate) <=>
        (Upper(a) /\ ~ Upper(b)) \/ ((Upper(a) <=> Upper(b)) /\ a.box[1] < b.box[1])
  BY DEF ReadBefore
<1>2. \A b \in Character : b.box[1] \in Int
  BY DEF Character, Box
<1>3. c.box[1] \in Int /\ d.box[1] \in Int /\ e.box[1] \in Int
  BY <1>2
<1> HIDE DEF Upper
<1>4. PICK x, y, z : x = c.box[1] /\ y = d.box[1] /\ z = e.box[1]
  OBVIOUS
<1>5. x \in Int /\ y \in Int /\ z \in Int
  BY <1>3, <1>4
<1>6. /\ ~ (x < x) /\ (x < y => ~ (y < x)) /\ (x < z => x < y \/ y < z)
  BY <1>5
<1> QED BY <1>1, <1>4, <1>6

\* A sequence is one of its own elements.
LEMMA OwnElements ==
  ASSUME NEW S, NEW s \in Seq(S)
  PROVE  s \in Seq(ToSet(s)) /\ ToSet(s) \subseteq S
<1>1. DOMAIN s = 1..Len(s) /\ Len(s) \in Nat
  OBVIOUS
<1>2. s = [k \in 1..Len(s) |-> s[k]]
  OBVIOUS
<1>3. \A k \in 1..Len(s) : s[k] \in ToSet(s)
  BY <1>1 DEF ToSet
<1>4. s \in [1..Len(s) -> ToSet(s)]
  <2> DEFINE T == ToSet(s)
  <2>1. \A k \in 1..Len(s) : s[k] \in T
    BY <1>3
  <2> HIDE DEF T
  <2>2. s \in [1..Len(s) -> T]
    BY <1>2, <2>1
  <2> QED BY <2>2 DEF T
<1>5. ToSet(s) \subseteq S
  BY DEF ToSet
<1> QED BY <1>1, <1>4, <1>5

\* nms_chars keeps characters.
LEMMA KeptElements ==
  ASSUME NEW plate \in ReadOut
  PROVE  Kept(plate) \in Seq(Character)
<1>1. PICK s, kills : s = plate.chars /\ kills = CharKills(plate.chars)
  OBVIOUS
<1>2. s \in Seq(Character)
  BY <1>1 DEF ReadOut
<1>3. Suppress(s, kills) \in Seq(Character)
  BY <1>2, SuppressElements
<1> QED BY <1>1, <1>3 DEF Kept

\* The cells of a legible plate: each character is in one of them, and they follow each
\* other.
LEMMA Cells ==
  ASSUME NEW plate \in ReadOut, Legible(plate), NEW C, C = ToSet(Kept(plate))
  PROVE  /\ C \subseteq Character
         /\ \A c \in C : c \in Cell(c, C)
         /\ \A c, d \in C : d \in Cell(c, C) <=> Cell(c, C) = Cell(d, C)
         /\ \A c, d \in C : Cell(c, C) # Cell(d, C) /\ ~ ReadBefore(d, c, plate) =>
              \A e \in Cell(c, C), f \in Cell(d, C) : ReadBefore(e, f, plate)
         /\ \A c, d \in C : Before(c, d, plate.class) <=> ReadBefore(c, d, plate)
<1>1. C \subseteq Character
  <2>1. PICK K : K = Kept(plate)
    OBVIOUS
  <2>2. K \in Seq(Character)
    BY <2>1, KeptElements
  <2> QED BY <2>1, <2>2, OwnElements
<1>2. /\ \A c \in C : c \in Cell(c, C)
      /\ \A c, d \in C : Before(c, d, plate.class) <=> ReadBefore(c, d, plate)
      /\ \A c, d \in C :
           \/ Cell(c, C) = Cell(d, C)
           \/ \A e \in Cell(c, C), f \in Cell(d, C) : ReadBefore(e, f, plate)
           \/ \A e \in Cell(c, C), f \in Cell(d, C) : ReadBefore(f, e, plate)
  BY DEF Legible, Kept
<1>3. \A c \in C : ~ ReadBefore(c, c, plate)
  BY <1>1, ReadBeforeOrders
<1>4. ASSUME NEW c \in C, NEW d \in C
      PROVE  d \in Cell(c, C) <=> Cell(c, C) = Cell(d, C)
  BY <1>2, <1>3
<1>5. ASSUME NEW c \in C, NEW d \in C, Cell(c, C) # Cell(d, C), ~ ReadBefore(d, c, plate)
      PROVE  \A e \in Cell(c, C), f \in Cell(d, C) : ReadBefore(e, f, plate)
  BY <1>2, <1>5
<1> QED BY <1>1, <1>2, <1>4, <1>5

\* The characters of a legible plate, sorted: the same ones, each once.
LEMMA SortedElements ==
  ASSUME NEW plate \in ReadOut, Legible(plate), NEW C, C = ToSet(Kept(plate)),
         NEW t, t = Sorted(plate)
  PROVE  /\ t \in Seq(C)
         /\ \A c \in C : \E k \in DOMAIN t : t[k] = c
         /\ \A k, l \in DOMAIN t : k < l => ~ ReadBefore(t[l], t[k], plate)
<1>1. PICK K, class : K = Kept(plate) /\ class = plate.class
  OBVIOUS
<1>2. K \in Seq(C)
  <2>1. K \in Seq(Character)
    BY <1>1, KeptElements
  <2> QED BY <1>1, <2>1, OwnElements
<1>3. /\ C \subseteq Character
      /\ \A c, d \in C : Before(c, d, class) <=> ReadBefore(c, d, plate)
  BY <1>1, Cells
<1>4. Orders(class, C)
  <2>1. ASSUME NEW c \in C, NEW d \in C, NEW e \in C
        PROVE  /\ Before(c, d, class) => ~ Before(d, c, class)
               /\ Before(c, e, class) => Before(c, d, class) \/ Before(d, e, class)
    <3>1. c \in Character /\ d \in Character /\ e \in Character
      BY <1>3
    <3> QED BY <1>3, <3>1, ReadBeforeOrders
  <2> QED BY <2>1 DEF Orders
<1>5. t = InPosition(K, class)
  BY <1>1 DEF Sorted
<1>6. t \in Seq(C) /\ Len(t) = Len(K) /\ \A p, r \in DOMAIN t : p < r => ~ Before(t[r], t[p], class)
  BY <1>2, <1>4, <1>5, InPositionElements
<1>7. PICK q : Permutes(q, t, K)
  BY <1>2, <1>4, <1>5, InPositionElements
<1>8. DOMAIN t = DOMAIN K
  BY <1>2, <1>6
<1>9. ASSUME NEW c \in C PROVE \E k \in DOMAIN t : t[k] = c
  <2>1. PICK k \in DOMAIN K : K[k] = c
    BY <1>1 DEF ToSet
  <2>2. PICK p \in DOMAIN K : q[p] = k
    BY <1>7 DEF Permutes
  <2> QED BY <1>7, <1>8, <2>1, <2>2 DEF Permutes
<1>10. ASSUME NEW k \in DOMAIN t, NEW l \in DOMAIN t, k < l
       PROVE  ~ ReadBefore(t[l], t[k], plate)
  <2>1. t[k] \in C /\ t[l] \in C
    BY <1>6
  <2> QED BY <1>3, <1>6, <1>10, <2>1
<1> QED BY <1>6, <1>9, <1>10

\* Q is the sequence of the cells of C in the order of reading.
InPlaces(Q, C, plate) ==
  /\ Q \in Seq({Cell(c, C) : c \in C})
  /\ \A p, q \in DOMAIN Q : p < q =>
       \A e \in Q[p], f \in Q[q] : ReadBefore(e, f, plate)
  /\ \A c \in C : \E p \in DOMAIN Q : c \in Q[p]

\* The groups G of the characters t are the cells Q.
AreCells(G, t, Q) ==
  /\ Len(Q) = Len(G)
  /\ \A p \in 1..Len(G), l \in 1..Len(t) : l \in ToSet(G[p]) <=> t[l] \in Q[p]

\* One character from each cell.
IsReading(r, Q, C) ==
  r \in Seq(C) /\ Len(r) = Len(Q) /\ \A p \in 1..Len(Q) : r[p] \in Q[p]

\* On a legible plate, being at the same place is being in the same cell.
LEMMA SortedEquivalence ==
  ASSUME NEW plate \in ReadOut, Legible(plate), NEW C, C = ToSet(Kept(plate)),
         NEW t, t = Sorted(plate)
  PROVE  /\ Equivalence(t)
         /\ \A k, l \in DOMAIN t : Near(t, k, l) <=> t[l] \in Cell(t[k], C)
<1>1. t \in Seq(C)
  BY SortedElements
<1>2. \A k \in DOMAIN t : t[k] \in C
  BY <1>1
<1>3. \A c, d \in C : d \in Cell(c, C) <=> Cell(c, C) = Cell(d, C)
  BY Cells
<1>4. \A k, l \in DOMAIN t : Near(t, k, l) <=> t[l] \in Cell(t[k], C)
  BY <1>2 DEF Near, Cell
<1>5. \A k, l \in DOMAIN t : Near(t, k, l) <=> Cell(t[k], C) = Cell(t[l], C)
  BY <1>2, <1>3, <1>4
<1>6. Equivalence(t)
  BY <1>5 DEF Equivalence
<1> QED BY <1>4, <1>6

\* The cells of the groups' first characters are all cells, in the order of reading.
LEMMA GroupingCells ==
  ASSUME NEW plate \in ReadOut, Legible(plate), NEW C, C = ToSet(Kept(plate)),
         NEW t, t = Sorted(plate), NEW used, NEW G \in Seq(Seq(1..Len(t))),
         Grouped(t, Len(t), used, G)
  PROVE  \E Q : InPlaces(Q, C, plate) /\ AreCells(G, t, Q)
<1> DEFINE Lead(p) == t[G[p][1]]
           N == Len(G)
           AllCells == {Cell(c, C) : c \in C}
           Q == [p \in 1..N |-> Cell(Lead(p), C)]
<1>1. /\ t \in Seq(C) /\ DOMAIN t = 1..Len(t) /\ Len(t) \in Nat
      /\ \A k \in DOMAIN t : t[k] \in C
  <2>1. t \in Seq(C)
    BY SortedElements
  <2> QED BY <2>1
<1>2. DOMAIN G = 1..N /\ N \in Nat
  OBVIOUS
<1>3. /\ \A p \in 1..N : /\ G[p][1] \in DOMAIN t
                         /\ ToSet(G[p]) = {l \in DOMAIN t : Near(t, G[p][1], l)}
      /\ \A p, q \in 1..N : p < q =>
           G[p][1] < G[q][1] /\ ~ Near(t, G[p][1], G[q][1])
      /\ \A l \in DOMAIN t : \E p \in 1..N : Near(t, G[p][1], l)
  <2>1. \A l \in DOMAIN t : l <= Len(t)
    BY <1>1
  <2> QED BY <1>2, <2>1 DEF Grouped
<1>4. \A k, l \in DOMAIN t : Near(t, k, l) <=> t[l] \in Cell(t[k], C)
  BY SortedEquivalence
<1>5. /\ \A c, d \in C : d \in Cell(c, C) <=> Cell(c, C) = Cell(d, C)
      /\ \A c, d \in C : Cell(c, C) # Cell(d, C) /\ ~ ReadBefore(d, c, plate) =>
           \A e \in Cell(c, C), f \in Cell(d, C) : ReadBefore(e, f, plate)
  BY Cells
<1>6. /\ \A c \in C : \E k \in DOMAIN t : t[k] = c
      /\ \A k, l \in DOMAIN t : k < l => ~ ReadBefore(t[l], t[k], plate)
  BY SortedElements
<1>7. \A p \in 1..N : Lead(p) \in C /\ Cell(Lead(p), C) \in AllCells
  BY <1>1, <1>3
<1>8. DOMAIN Q = 1..N /\ \A p \in 1..N : Q[p] = Cell(Lead(p), C)
  OBVIOUS
<1>9. Q \in Seq(AllCells) /\ Len(Q) = N
  <2> HIDE DEF AllCells, Lead, N
  <2>1. Q \in [1..N -> AllCells]
    BY <1>7
  <2> QED BY <1>2, <2>1
<1> HIDE DEF Q, N
<1>10. ASSUME NEW p \in 1..N, NEW q \in 1..N, p < q
       PROVE  \A e \in Q[p], f \in Q[q] : ReadBefore(e, f, plate)
  <2>1. ~ ReadBefore(Lead(q), Lead(p), plate)
    BY <1>3, <1>6, <1>10
  <2>2. Cell(Lead(p), C) # Cell(Lead(q), C)
    BY <1>3, <1>4, <1>5, <1>7, <1>10
  <2> HIDE DEF Lead
  <2> QED BY <1>5, <1>7, <1>8, <2>1, <2>2
<1>11. ASSUME NEW c \in C PROVE \E p \in 1..N : c \in Q[p]
  <2>1. PICK l \in DOMAIN t : t[l] = c
    BY <1>6
  <2>2. PICK p \in 1..N : Near(t, G[p][1], l)
    BY <1>3
  <2>3. c \in Cell(Lead(p), C)
    BY <1>3, <1>4, <2>1, <2>2
  <2> QED BY <1>8, <2>3
<1>12. InPlaces(Q, C, plate)
  BY <1>8, <1>9, <1>10, <1>11 DEF InPlaces
<1>13. ASSUME NEW p \in 1..N, NEW l \in 1..Len(t)
       PROVE  l \in ToSet(G[p]) <=> t[l] \in Q[p]
  <2>1. l \in ToSet(G[p]) <=> Near(t, G[p][1], l)
    BY <1>1, <1>3
  <2>2. Near(t, G[p][1], l) <=> t[l] \in Cell(Lead(p), C)
    BY <1>1, <1>3, <1>4
  <2> QED BY <1>8, <2>1, <2>2
<1>14. AreCells(G, t, Q)
  BY <1>9, <1>13 DEF AreCells, N
<1> QED BY <1>12, <1>14

\* The readings of a legible plate are all ways to choose a character from each cell.
LEMMA ReadingsOfCells ==
  ASSUME NEW plate \in ReadOut, Legible(plate), NEW C, C = ToSet(Kept(plate))
  PROVE  \E Q : /\ InPlaces(Q, C, plate)
                /\ \A r : r \in ToSet(Readings(plate)) <=> IsReading(r, Q, C)
<1>1. PICK t, G : t = Sorted(plate) /\ G = Grouping(plate)
  OBVIOUS
<1> DEFINE A == 1..Len(t)
           N == Len(G)
<1>2. t \in Seq(C) /\ \A c \in C : \E k \in DOMAIN t : t[k] = c
  BY <1>1, SortedElements
<1>3. DOMAIN t = A /\ \A k \in A : t[k] \in C
  BY <1>2
<1>4. Equivalence(t)
  BY <1>1, SortedEquivalence
<1>5. G = Groups(t)
  BY <1>1 DEF Grouping
<1>6. G \in Seq(Seq(1..Len(t))) /\ \E used : Grouped(t, Len(t), used, G)
  BY <1>2, <1>4, <1>5, GroupsElements
<1>7. PICK Q : /\ InPlaces(Q, C, plate) /\ Len(Q) = Len(G)
               /\ \A p \in 1..N, l \in A : l \in ToSet(G[p]) <=> t[l] \in Q[p]
  <2>1. PICK used : Grouped(t, Len(t), used, G)
    BY <1>6
  <2>2. PICK R : InPlaces(R, C, plate) /\ AreCells(G, t, R)
    BY <1>1, <1>6, <2>1, GroupingCells
  <2> QED BY <2>2 DEF AreCells
<1>8. N \in Nat /\ \A p \in 1..N : Q[p] \subseteq C
  <2>1. N \in Nat
    BY <1>6
  <2>2. Q \in Seq({Cell(c, C) : c \in C})
    BY <1>7 DEF InPlaces
  <2>3. \A p \in 1..Len(Q) : Q[p] \in {Cell(c, C) : c \in C}
    BY <2>2
  <2> QED BY <1>7, <2>1, <2>3 DEF Cell
<1>9. \A r : r \in ToSet(Readings(plate)) <=>
        \E x : Choice(x, A, G, N) /\ r = [p \in DOMAIN x |-> t[x[p]]]
  <2>1. Grouping(plate) \in Seq(Seq(A))
    BY <1>1, <1>6
  <2> QED BY <1>1, <2>1, ReadingsElements
<1> HIDE DEF A, N
<1>10. ASSUME NEW x, Choice(x, A, G, N), NEW r, r = [p \in DOMAIN x |-> t[x[p]]]
       PROVE  IsReading(r, Q, C)
  <2>1. x \in Seq(A) /\ Len(x) = N /\ \A p \in 1..N : x[p] \in ToSet(G[p])
    BY <1>10 DEF Choice
  <2>2. DOMAIN x = 1..N /\ \A p \in 1..N : x[p] \in A
    BY <2>1
  <2>3. \A p \in 1..N : t[x[p]] \in Q[p] /\ t[x[p]] \in C
    BY <1>3, <1>7, <2>1, <2>2 DEF N, A
  <2>4. r \in [1..N -> C] /\ \A p \in 1..N : r[p] = t[x[p]]
    BY <1>10, <2>2, <2>3
  <2>5. r \in Seq(C) /\ Len(r) = N
    BY <1>8, <2>4
  <2> QED BY <1>7, <2>3, <2>4, <2>5 DEF IsReading, N
<1>11. ASSUME NEW r, IsReading(r, Q, C)
       PROVE  \E x : Choice(x, A, G, N) /\ r = [p \in DOMAIN x |-> t[x[p]]]
  <2>1. r \in Seq(C) /\ Len(r) = N /\ \A p \in 1..N : r[p] \in Q[p]
    BY <1>7, <1>11 DEF IsReading, N
  <2>2. DOMAIN r = 1..N /\ r = [p \in 1..N |-> r[p]] /\ \A p \in 1..N : r[p] \in C
    BY <2>1
  <2> DEFINE x == [p \in 1..N |-> CHOOSE l \in A : t[l] = r[p]]
  <2>3. \A p \in 1..N : \E l \in A : t[l] = r[p]
    BY <1>2, <1>3, <2>2
  <2>4. \A p \in 1..N : x[p] \in A /\ t[x[p]] = r[p]
    BY <2>3
  <2>5. x \in [1..N -> A]
    <3>1. x = [p \in 1..N |-> x[p]]
      OBVIOUS
    <3> HIDE DEF x
    <3> QED BY <2>4, <3>1
  <2> HIDE DEF x
  <2>6. x \in Seq(A) /\ Len(x) = N /\ DOMAIN x = 1..N
    BY <1>8, <2>5
  <2>7. \A p \in 1..N : x[p] \in ToSet(G[p])
    BY <1>7, <2>1, <2>4
  <2>8. Choice(x, A, G, N)
    BY <2>6, <2>7 DEF Choice
  <2>9. r = [p \in DOMAIN x |-> t[x[p]]]
    BY <2>2, <2>4, <2>6
  <2> QED BY <2>8, <2>9
<1>12. \A r : r \in ToSet(Readings(plate)) <=> IsReading(r, Q, C)
  BY <1>9, <1>10, <1>11
<1> QED BY <1>7, <1>12

\* r has one character from each cell, in the order of reading, and any other of the
\* cell could be there instead.
ReadsAll(r, Q, C, cells, plate) ==
  /\ Len(r) = Len(Q)
  /\ {Cell(r[p], C) : p \in DOMAIN r} = cells
  /\ \A p, q \in DOMAIN r : p < q =>
       \A c \in Cell(r[p], C), d \in Cell(r[q], C) : ReadBefore(c, d, plate)
  /\ \A p \in DOMAIN r : \A c \in Cell(r[p], C) : IsReading([r EXCEPT ![p] = c], Q, C)

\* What the ways to choose from cells in the order of reading are like.
LEMMA ReadingFacts ==
  ASSUME NEW plate \in ReadOut, Legible(plate), NEW C, C = ToSet(Kept(plate)),
         NEW Q, InPlaces(Q, C, plate), NEW cells, cells = {Cell(c, C) : c \in C}
  PROVE  /\ \E r : IsReading(r, Q, C)
         /\ Len(Q) = Cardinality(cells)
         /\ \A r : IsReading(r, Q, C) => ReadsAll(r, Q, C, cells, plate)
<1> DEFINE N == Len(Q)
<1>1. /\ C \subseteq Character
      /\ \A c \in C : c \in Cell(c, C)
      /\ \A c, d \in C : d \in Cell(c, C) <=> Cell(c, C) = Cell(d, C)
  BY Cells
<1>2. Q \in Seq(cells) /\ N \in Nat /\ DOMAIN Q = 1..N
  <2>1. Q \in Seq(cells)
    BY DEF InPlaces
  <2> QED BY <2>1
<1>3. /\ \A p \in 1..N : \E c \in C : Q[p] = Cell(c, C)
      /\ \A p, q \in 1..N : p < q => \A e \in Q[p], f \in Q[q] : ReadBefore(e, f, plate)
      /\ \A c \in C : \E p \in 1..N : c \in Q[p]
  <2>1. \A p \in 1..N : Q[p] \in cells
    BY <1>2
  <2> QED BY <1>2, <2>1 DEF InPlaces
<1>4. \A p \in 1..N, c \in C : c \in Q[p] <=> Cell(c, C) = Q[p]
  BY <1>1, <1>3
<1>5. \A p \in 1..N : Q[p] \subseteq C /\ \E c \in C : c \in Q[p]
  BY <1>1, <1>3 DEF Cell
<1> HIDE DEF N
<1>6. \E r : IsReading(r, Q, C)
  <2> DEFINE r == [p \in 1..N |-> CHOOSE c \in C : c \in Q[p]]
  <2>1. \A p \in 1..N : r[p] \in Q[p] /\ r[p] \in C
    BY <1>5
  <2>2. r \in [1..N -> C]
    <3>1. r = [p \in 1..N |-> r[p]]
      OBVIOUS
    <3> HIDE DEF r
    <3> QED BY <2>1, <3>1
  <2> HIDE DEF r
  <2>3. r \in Seq(C) /\ Len(r) = N
    BY <1>2, <2>2
  <2>4. IsReading(r, Q, C)
    BY <2>1, <2>3 DEF IsReading, N
  <2> QED BY <2>4
<1>7. N = Cardinality(cells)
  <2>1. ASSUME NEW p \in 1..N, NEW q \in 1..N, Q[p] = Q[q] PROVE p = q
    <3>1. PICK c \in C : c \in Q[p] /\ c \in Q[q]
      BY <1>5, <2>1
    <3>2. ~ ReadBefore(c, c, plate)
      BY <1>1, ReadBeforeOrders
    <3>3. ~ (p < q) /\ ~ (q < p)
      BY <1>3, <3>1, <3>2
    <3> QED BY <1>2, <3>3
  <2>2. ASSUME NEW b \in cells PROVE \E p \in 1..N : Q[p] = b
    <3>1. PICK c \in C : b = Cell(c, C)
      OBVIOUS
    <3>2. PICK p \in 1..N : c \in Q[p]
      BY <1>3
    <3> QED BY <1>4, <3>1, <3>2
  <2>3. Q \in [1..N -> cells]
    BY <1>2 DEF N
  <2> HIDE DEF N
  <2>4. Q \in Bijection(1..N, cells)
    BY <2>1, <2>2, <2>3 DEF Bijection, Injection, Surjection, IsInjective
  <2>5. ExistsBijection(1..N, cells)
    BY <2>4 DEF ExistsBijection
  <2> QED BY <1>2, <2>5, FS_CountingElements
<1>8. ASSUME NEW r, IsReading(r, Q, C)
      PROVE  /\ Len(r) = N /\ DOMAIN r = 1..N
             /\ \A p \in 1..N : Cell(r[p], C) = Q[p]
  <2>1. r \in Seq(C) /\ Len(r) = N /\ \A p \in 1..N : r[p] \in Q[p]
    BY <1>8 DEF IsReading, N
  <2>2. DOMAIN r = 1..N /\ \A p \in 1..N : r[p] \in C
    BY <2>1
  <2> QED BY <1>4, <2>1, <2>2
<1>9. ASSUME NEW r, IsReading(r, Q, C)
      PROVE  {Cell(r[p], C) : p \in DOMAIN r} = cells
  <2>1. DOMAIN r = 1..N /\ \A p \in 1..N : Cell(r[p], C) = Q[p]
    BY <1>8, <1>9
  <2>2. ASSUME NEW b \in cells PROVE \E p \in 1..N : Cell(r[p], C) = b
    <3>1. PICK c \in C : b = Cell(c, C)
      OBVIOUS
    <3>2. PICK p \in 1..N : c \in Q[p]
      BY <1>3
    <3> QED BY <1>4, <2>1, <3>1, <3>2
  <2>3. \A p \in 1..N : Cell(r[p], C) \in cells
    <3>1. \A p \in 1..N : Q[p] \in cells
      BY <1>2 DEF N
    <3> QED BY <2>1, <3>1
  <2> QED BY <2>1, <2>2, <2>3
<1>10. ASSUME NEW r, IsReading(r, Q, C), NEW p \in DOMAIN r, NEW c \in Cell(r[p], C)
       PROVE  IsReading([r EXCEPT ![p] = c], Q, C)
  <2>1. DOMAIN r = 1..N /\ Cell(r[p], C) = Q[p]
    BY <1>8, <1>10
  <2>2. r \in Seq(C) /\ Len(r) = N /\ \A q \in 1..N : r[q] \in Q[q]
    BY <1>10 DEF IsReading, N
  <2>3. c \in Q[p] /\ c \in C
    BY <1>5, <2>1
  <2>4. PICK u : u = [r EXCEPT ![p] = c]
    OBVIOUS
  <2>5. u \in Seq(C) /\ Len(u) = N /\ \A q \in 1..N : u[q] = IF q = p THEN c ELSE r[q]
    BY <2>1, <2>2, <2>3, <2>4
  <2>6. IsReading(u, Q, C)
    BY <2>2, <2>3, <2>5 DEF IsReading, N
  <2> QED BY <2>4, <2>6
<1>11. ASSUME NEW r, IsReading(r, Q, C), NEW p \in DOMAIN r, NEW q \in DOMAIN r, p < q
       PROVE  \A c \in Cell(r[p], C), d \in Cell(r[q], C) : ReadBefore(c, d, plate)
  BY <1>3, <1>8, <1>11
<1>12. ASSUME NEW r, IsReading(r, Q, C) PROVE ReadsAll(r, Q, C, cells, plate)
  BY <1>8, <1>9, <1>10, <1>11, <1>12 DEF ReadsAll, N
<1> QED BY <1>6, <1>7, <1>12 DEF N

\* The readings are all such choices.
ReadAll(readings, C, cells, plate) ==
  /\ readings # {}
  /\ \A r \in readings :
       /\ Len(r) = Cardinality(cells)
       /\ {Cell(r[p], C) : p \in DOMAIN r} = cells
       /\ \A p, q \in DOMAIN r : p < q =>
            \A c \in Cell(r[p], C), d \in Cell(r[q], C) : ReadBefore(c, d, plate)
       /\ \A p \in DOMAIN r : \A c \in Cell(r[p], C) : [r EXCEPT ![p] = c] \in readings

\* The readings of a legible plate.
LEMMA LegibleReadings ==
  ASSUME NEW plate \in ReadOut, Legible(plate), NEW C, C = ToSet(Kept(plate)),
         NEW cells, cells = {Cell(c, C) : c \in C}
  PROVE  ReadAll(ToSet(Readings(plate)), C, cells, plate)
<1>1. PICK readings : readings = ToSet(Readings(plate))
  OBVIOUS
<1>2. PICK Q : InPlaces(Q, C, plate) /\ \A r : r \in readings <=> IsReading(r, Q, C)
  BY <1>1, ReadingsOfCells
<1>3. (\E r : IsReading(r, Q, C)) /\ Len(Q) = Cardinality(cells)
  BY <1>2, ReadingFacts
<1>4. ASSUME NEW r \in readings PROVE ReadsAll(r, Q, C, cells, plate)
  <2>1. IsReading(r, Q, C)
    BY <1>2
  <2> QED BY <1>2, <2>1, ReadingFacts
<1>5. ReadAll(readings, C, cells, plate)
  BY <1>2, <1>3, <1>4 DEF ReadsAll, ReadAll
<1> QED BY <1>1, <1>5

-----------------------------------------------------------------------------
(* removeDuplicatePlates comes to its end                                  *)

\* What is left to do when the loops over vs are at p: vehicles, vehicles to compare
\* with, and plates of both.
Left(vs, p) ==
  << Len(vs) - p.i, Len(vs) + 1 - p.j,
     Len(vs[p.i].plates) + 1 - p.m, Len(vs[p.j].plates) + 1 - p.n >>

\* b is below a: less at a place where a is positive, and equal at those before it.
Below(b, a) ==
  \E k \in 1..4 : b[k] < a[k] /\ a[k] > 0 /\ \A l \in 1..(k - 1) : b[l] = a[l]

\* A comparison ends the loops, or less is left to do.
LessLeft == stage' # "pairs" \/ Below(Left(vehicles', at'), Left(vehicles, at))

\* A comparison: the second vehicle has less plates left, or the first also has one
\* less of those that are behind the iterator.
LEMMA ComparisonLessLeft ==
  ASSUME IInv, Comparing, NEW vs, Len(vs) = Len(vehicles), NEW p \in Positions,
         p.i = at.i, p.j = at.j,
         Len(vs[at.i].plates) - p.m = Len(vehicles[at.i].plates) - at.m,
         p.m \in Nat, Len(vs[at.i].plates) \in Nat, Len(vs[at.j].plates) \in Nat,
         Len(vs[at.j].plates) - p.n < Len(vehicles[at.j].plates) - at.n
  PROVE  Below(Left(vs, p), Left(vehicles, at))
<1>1. /\ stage = "pairs" /\ at.i \in DOMAIN vehicles /\ at.j \in DOMAIN vehicles
      /\ at.n \in DOMAIN vehicles[at.j].plates
  BY ComparingFacts
<1>2. /\ vehicles \in Seq(Vehicle) /\ Len(vehicles) \in Nat
      /\ at.i \in Nat /\ at.j \in Nat /\ at.m \in Nat /\ at.n \in Nat
  BY <1>1, PairsFacts
<1>3. /\ Len(vehicles[at.i].plates) \in Nat /\ Len(vehicles[at.j].plates) \in Nat
      /\ at.n <= Len(vehicles[at.j].plates)
  <2>1. DOMAIN vehicles[at.j].plates = 1..Len(vehicles[at.j].plates)
    BY <1>1, <1>2, VehicleFacts
  <2>2. Len(vehicles[at.i].plates) \in Nat /\ Len(vehicles[at.j].plates) \in Nat
    BY <1>1, <1>2, VehicleFacts
  <2> QED BY <1>1, <1>2, <2>1, <2>2
<1>4. PICK a, b : a = Left(vehicles, at) /\ b = Left(vs, p)
  OBVIOUS
<1>5. p.n \in Nat
  BY DEF Positions
<1>6. /\ a[1] = Len(vehicles) - at.i /\ a[2] = Len(vehicles) + 1 - at.j
      /\ a[3] = Len(vehicles[at.i].plates) + 1 - at.m
      /\ a[4] = Len(vehicles[at.j].plates) + 1 - at.n
  BY <1>4 DEF Left
<1>7. /\ b[1] = Len(vs) - at.i /\ b[2] = Len(vs) + 1 - at.j
      /\ b[3] = Len(vs[at.i].plates) + 1 - p.m
      /\ b[4] = Len(vs[at.j].plates) + 1 - p.n
  BY <1>4 DEF Left
<1>8. b[1] = a[1] /\ b[2] = a[2] /\ b[3] = a[3] /\ b[4] < a[4] /\ a[4] > 0
  <2>1. PICK i, k, m, n, x, y : /\ i = Len(vehicles[at.i].plates) /\ k = Len(vehicles[at.j].plates)
                                /\ m = at.m /\ n = at.n
                                /\ x = Len(vs[at.i].plates) /\ y = Len(vs[at.j].plates)
    OBVIOUS
  <2>2. PICK q, r : q = p.m /\ r = p.n
    OBVIOUS
  <2>3. /\ i \in Nat /\ k \in Nat /\ m \in Nat /\ n \in Nat /\ x \in Nat /\ y \in Nat
        /\ q \in Nat /\ r \in Nat
    BY <1>2, <1>3, <1>5, <2>1, <2>2
  <2>4. x - q = i - m /\ y - r < k - n /\ n <= k
    BY <1>3, <2>1, <2>2
  <2>5. x + 1 - q = i + 1 - m /\ y + 1 - r < k + 1 - n /\ k + 1 - n > 0
    BY <2>3, <2>4
  <2> QED BY <1>6, <1>7, <2>1, <2>2, <2>5
<1>9. \A l \in 1..(4 - 1) : l = 1 \/ l = 2 \/ l = 3
  OBVIOUS
<1> QED BY <1>4, <1>8, <1>9 DEF Below

\* Each step of removeDuplicatePlates leaves less to do.
LEMMA RemovalLessLeft ==
  ASSUME IInv, RemoveDuplicates PROVE LessLeft
<1> DEFINE a == Left(vehicles, at)
           b == Left(vehicles', at')
<1>1. CASE DropVehicles
  BY <1>1 DEF DropVehicles, LessLeft
<1>2. CASE NextPair
  <2>1. /\ stage = "pairs" /\ at.j <= Len(vehicles) /\ UNCHANGED vehicles
        /\ at'.i = at.i /\ at'.j = at.j + 1
    BY <1>2 DEF NextPair, Start
  <2>2. Len(vehicles) \in Nat /\ at.j \in Nat
    BY <2>1, PairsFacts
  <2>3. /\ a[1] = Len(vehicles) - at.i /\ a[2] = Len(vehicles) + 1 - at.j
        /\ b[1] = Len(vehicles) - at.i /\ b[2] = Len(vehicles) + 1 - (at.j + 1)
    BY <2>1 DEF Left
  <2> HIDE DEF a, b
  <2>4. b[1] = a[1] /\ b[2] < a[2] /\ a[2] > 0
    BY <2>1, <2>2, <2>3
  <2>5. \A l \in 1..(2 - 1) : l = 1
    OBVIOUS
  <2>6. Below(b, a)
    BY <2>4, <2>5 DEF Below
  <2> QED BY <2>6 DEF LessLeft, a, b
<1>3. CASE NextVehicle
  <2>1. stage = "pairs" /\ at.i < Len(vehicles) /\ UNCHANGED vehicles /\ at'.i = at.i + 1
    BY <1>3 DEF NextVehicle, Start
  <2>2. Len(vehicles) \in Nat /\ at.i \in Nat
    BY <2>1, PairsFacts
  <2>3. a[1] = Len(vehicles) - at.i /\ b[1] = Len(vehicles) - (at.i + 1)
    BY <2>1 DEF Left
  <2> HIDE DEF a, b
  <2>4. b[1] < a[1] /\ a[1] > 0
    BY <2>1, <2>2, <2>3
  <2>5. \A l \in 1..(1 - 1) : FALSE
    OBVIOUS
  <2>6. Below(b, a)
    BY <2>4, <2>5 DEF Below
  <2> QED BY <2>6 DEF LessLeft, a, b
<1>4. CASE NextPlate
  <2>1. /\ stage = "pairs" /\ at.i < Len(vehicles) /\ UNCHANGED vehicles
        /\ at.m <= Len(vehicles[at.i].plates) /\ at' = [at EXCEPT !.m = @ + 1, !.n = 1]
    BY <1>4 DEF NextPlate, First
  <2>2. /\ vehicles \in Seq(Vehicle) /\ DOMAIN vehicles = 1..Len(vehicles) /\ Len(vehicles) \in Nat
        /\ at \in Positions /\ at.i \in Nat /\ at.i >= 1 /\ at.j \in Nat /\ at.m \in Nat
    BY <2>1, PairsFacts
  <2>3. at'.i = at.i /\ at'.j = at.j /\ at'.m = at.m + 1
    BY <2>1, <2>2 DEF Positions
  <2>4. Len(vehicles[at.i].plates) \in Nat
    <3>1. at.i \in DOMAIN vehicles
      BY <2>1, <2>2
    <3> QED BY <2>2, <3>1, VehicleFacts
  <2>5. /\ a[1] = Len(vehicles) - at.i /\ a[2] = Len(vehicles) + 1 - at.j
        /\ a[3] = Len(vehicles[at.i].plates) + 1 - at.m
    BY DEF Left
  <2>6. /\ b[1] = Len(vehicles) - at.i /\ b[2] = Len(vehicles) + 1 - at.j
        /\ b[3] = Len(vehicles[at.i].plates) + 1 - (at.m + 1)
    BY <2>1, <2>3 DEF Left
  <2> HIDE DEF a, b
  <2>7. b[1] = a[1] /\ b[2] = a[2] /\ b[3] < a[3] /\ a[3] > 0
    <3>1. PICK x, m : x = Len(vehicles[at.i].plates) /\ m = at.m
      OBVIOUS
    <3>2. x \in Nat /\ m \in Nat /\ m <= x
      BY <2>1, <2>2, <2>4, <3>1
    <3>3. x + 1 - (m + 1) < x + 1 - m /\ x + 1 - m > 0
      BY <3>2
    <3> QED BY <2>5, <2>6, <3>1, <3>3
  <2>8. \A l \in 1..(3 - 1) : l = 1 \/ l = 2
    OBVIOUS
  <2>9. Below(b, a)
    BY <2>7, <2>8 DEF Below
  <2> QED BY <2>9 DEF LessLeft, a, b
<1>5. ASSUME Comparing
      PROVE  /\ vehicles \in Seq(Vehicle) /\ at \in Positions /\ at.i # at.j
             /\ at.m \in Nat /\ at.n \in Nat
             /\ at.i \in DOMAIN vehicles /\ at.j \in DOMAIN vehicles
             /\ Len(vehicles[at.i].plates) \in Nat /\ Len(vehicles[at.j].plates) \in Nat
             /\ at.m > 0 => at.m \in DOMAIN vehicles[at.i].plates
             /\ at.n \in DOMAIN vehicles[at.j].plates
  <2>1. /\ stage = "pairs" /\ at.i \in DOMAIN vehicles /\ at.j \in DOMAIN vehicles
        /\ at.i < at.j /\ at.n \in DOMAIN vehicles[at.j].plates
        /\ at.m > 0 => at.m \in DOMAIN vehicles[at.i].plates
    BY <1>5, ComparingFacts
  <2>2. /\ vehicles \in Seq(Vehicle) /\ at \in Positions /\ at.i \in Nat /\ at.j \in Nat
        /\ at.m \in Nat /\ at.n \in Nat
    BY <2>1, PairsFacts
  <2>3. Len(vehicles[at.i].plates) \in Nat /\ Len(vehicles[at.j].plates) \in Nat
    BY <2>1, <2>2, VehicleFacts
  <2> QED BY <2>1, <2>2, <2>3
<1>6. ASSUME Comparing, at' = [at EXCEPT !.n = @ + 1], UNCHANGED vehicles PROVE LessLeft
  <2>1. PICK p : p = at'
    OBVIOUS
  <2>2. p \in Positions /\ p.i = at.i /\ p.j = at.j /\ p.m = at.m /\ p.n = at.n + 1
    BY <1>5, <1>6, <2>1 DEF Positions
  <2>3. PICK vs : vs = vehicles
    OBVIOUS
  <2>4. /\ Len(vs[at.i].plates) - p.m = Len(vehicles[at.i].plates) - at.m
        /\ Len(vs[at.j].plates) - p.n < Len(vehicles[at.j].plates) - at.n
    <3>1. PICK x, n : x = Len(vehicles[at.j].plates) /\ n = at.n
      OBVIOUS
    <3>2. x \in Nat /\ n \in Nat
      BY <1>5, <1>6, <3>1
    <3>3. x - (n + 1) < x - n
      BY <3>2
    <3> QED BY <2>2, <2>3, <3>1, <3>3
  <2>5. /\ Len(vs) = Len(vehicles) /\ p.m \in Nat
        /\ Len(vs[at.i].plates) \in Nat /\ Len(vs[at.j].plates) \in Nat
    BY <1>5, <1>6, <2>2, <2>3
  <2>6. Below(Left(vs, p), Left(vehicles, at))
    BY <1>6, <2>2, <2>4, <2>5, ComparisonLessLeft
  <2> QED BY <1>6, <2>1, <2>3, <2>6 DEF LessLeft
<1>7. ASSUME Comparing, UNCHANGED at,
             vehicles' = Having(vehicles, at.j, RemoveAt(vehicles[at.j].plates, at.n))
      PROVE  LessLeft
  <2>1. PICK i, m, vs : i = at.j /\ m = at.n /\ vs = vehicles'
    OBVIOUS
  <2>2. i \in DOMAIN vehicles /\ m \in DOMAIN vehicles[i].plates /\ vehicles \in Seq(Vehicle)
    BY <1>5, <1>7, <2>1
  <2>3. vs = Having(vehicles, i, RemoveAt(vehicles[i].plates, m))
    BY <1>7, <2>1
  <2>4. /\ vs \in Seq(Vehicle) /\ Len(vs) = Len(vehicles) /\ DOMAIN vs = DOMAIN vehicles
        /\ \A k \in DOMAIN vehicles : k # i => vs[k] = vehicles[k]
        /\ Len(vs[i].plates) = Len(vehicles[i].plates) - 1
    BY <2>2, <2>3, WithoutPlate
  <2>5. vs[at.i] = vehicles[at.i]
    BY <1>5, <1>7, <2>1, <2>4
  <2>6. Len(vs[at.j].plates) \in Nat
    BY <1>5, <1>7, <2>1, <2>4, VehicleFacts
  <2>7. PICK p : p = at
    OBVIOUS
  <2>8. p \in Positions /\ p.i = at.i /\ p.j = at.j /\ p.m = at.m /\ p.n = at.n /\ p.m \in Nat
    BY <1>5, <1>7, <2>7
  <2>9. /\ Len(vs[at.i].plates) - p.m = Len(vehicles[at.i].plates) - at.m
        /\ Len(vs[at.j].plates) - p.n < Len(vehicles[at.j].plates) - at.n
        /\ Len(vs[at.i].plates) \in Nat
    <3>1. PICK x, n : x = Len(vehicles[at.j].plates) /\ n = at.n
      OBVIOUS
    <3>2. x \in Nat /\ n \in Nat
      BY <1>5, <1>7, <3>1
    <3>3. x - 1 - n < x - n
      BY <3>2
    <3> QED BY <1>5, <1>7, <2>1, <2>4, <2>5, <2>8, <3>1, <3>3
  <2>10. Below(Left(vs, p), Left(vehicles, at))
    BY <1>7, <2>4, <2>6, <2>8, <2>9, ComparisonLessLeft
  <2> QED BY <1>7, <2>1, <2>7, <2>10 DEF LessLeft
<1>8. CASE Differ
  BY <1>6, <1>8 DEF Differ
<1>9. CASE RemoveFromSecond
  <2>1. /\ Comparing /\ UNCHANGED at
        /\ vehicles' = Having(vehicles, at.j, RemoveAt(vehicles[at.j].plates, at.n))
    BY <1>9 DEF RemoveFromSecond, First, Second, Having
  <2> QED BY <1>7, <2>1
<1>10. CASE Stray
  <2>1. /\ Comparing
        /\ \/ at' = [at EXCEPT !.n = @ + 1] /\ UNCHANGED vehicles
           \/ /\ vehicles' = Having(vehicles, at.j, RemoveAt(vehicles[at.j].plates, at.n))
              /\ UNCHANGED at
           \/ stage' = "broken"
    BY <1>10 DEF Stray, First, Second, Having
  <2>2. CASE stage' = "broken"
    BY <2>2 DEF LessLeft
  <2> QED BY <1>6, <1>7, <2>1, <2>2
<1>11. CASE RemoveFromFirst
  <2>0. /\ Comparing /\ at.m > 0
        /\ vehicles' = Having(vehicles, at.i, RemoveAt(vehicles[at.i].plates, at.m))
        /\ at' = [at EXCEPT !.m = @ - 1, !.n = @ + 1]
    BY <1>11 DEF RemoveFromFirst, First, Second, Having
  <2>1. PICK i, m, vs, p : i = at.i /\ m = at.m /\ vs = vehicles' /\ p = at'
    OBVIOUS
  <2>2. i \in DOMAIN vehicles /\ m \in DOMAIN vehicles[i].plates /\ vehicles \in Seq(Vehicle)
    BY <1>5, <2>0, <2>1
  <2>3. vs = Having(vehicles, i, RemoveAt(vehicles[i].plates, m))
    BY <2>0, <2>1
  <2>4. /\ vs \in Seq(Vehicle) /\ Len(vs) = Len(vehicles) /\ DOMAIN vs = DOMAIN vehicles
        /\ \A k \in DOMAIN vehicles : k # i => vs[k] = vehicles[k]
        /\ Len(vs[i].plates) = Len(vehicles[i].plates) - 1
    BY <2>2, <2>3, WithoutPlate
  <2>5. vs[at.j] = vehicles[at.j]
    BY <1>5, <2>0, <2>1, <2>4
  <2>6. Len(vs[at.i].plates) \in Nat
    BY <1>5, <2>0, <2>1, <2>4, VehicleFacts
  <2>7. p.i = at.i /\ p.j = at.j /\ p.m = at.m - 1 /\ p.n = at.n + 1 /\ p.m \in Nat
    BY <1>5, <2>0, <2>1 DEF Positions
  <2>8. p \in Positions
    <3>1. p = [i |-> at.i, j |-> at.j, m |-> at.m - 1, n |-> at.n + 1]
      BY <1>5, <2>0, <2>1 DEF Positions
    <3>2. at.i \in Nat \ {0} /\ at.j \in Nat \ {0} /\ at.n + 1 \in Nat \ {0}
      BY <1>5, <2>0 DEF Positions
    <3> QED BY <2>7, <3>1, <3>2 DEF Positions
  <2>9. /\ Len(vs[at.i].plates) - p.m = Len(vehicles[at.i].plates) - at.m
        /\ Len(vs[at.j].plates) - p.n < Len(vehicles[at.j].plates) - at.n
        /\ Len(vs[at.j].plates) \in Nat
    <3>1. PICK x, y, m1, n : /\ x = Len(vehicles[at.i].plates) /\ m1 = at.m
                             /\ y = Len(vehicles[at.j].plates) /\ n = at.n
      OBVIOUS
    <3>2. x \in Nat /\ m1 \in Nat /\ y \in Nat /\ n \in Nat
      BY <1>5, <2>0, <3>1
    <3>3. (x - 1) - (m1 - 1) = x - m1 /\ y - (n + 1) < y - n
      BY <3>2
    <3>4. Len(vs[at.i].plates) = x - 1 /\ Len(vs[at.j].plates) = y
      BY <2>1, <2>4, <2>5, <3>1
    <3> QED BY <2>7, <3>1, <3>2, <3>3, <3>4
  <2>10. Below(Left(vs, p), Left(vehicles, at))
    BY <2>0, <2>4, <2>6, <2>7, <2>8, <2>9, ComparisonLessLeft
  <2> QED BY <2>1, <2>10 DEF LessLeft
<1> QED BY <1>1, <1>2, <1>3, <1>4, <1>8, <1>9, <1>10, <1>11 DEF RemoveDuplicates

-----------------------------------------------------------------------------
(* Theorems of the specification                                           *)

\* The invariant holds.
THEOREM PlatesInvariant == Spec => []IInv
<1> QED BY InitIInv, NextIInv, PTL DEF Spec

\* What the networks find has its types all the way to removeDuplicatePlates, whose
\* loops stay among the vehicles.
THEOREM TypeCorrect == Spec => []TypeOK
<1>1. IInv => TypeOK
  BY DEF IInv
<1> QED BY <1>1, PlatesInvariant, PTL

\* removeDuplicatePlates removes all duplicates and nothing but duplicates, whatever
\* the networks found.
THEOREM OnlyDuplicatesAreRemoved == Spec => []OnlyDuplicatesGo
<1>1. IInv => OnlyDuplicatesGo
  BY DEF IInv
<1> QED BY <1>1, PlatesInvariant, PTL

\* Its loops read outside of a sequence only if two overlapping vehicles have two
\* plates each.
THEOREM StrayTakesTwoPlates == Spec => []StrayNeedsTwoPlates
<1>1. IInv => StrayNeedsTwoPlates
  BY DEF IInv
<1> QED BY <1>1, PlatesInvariant, PTL

\* nms_vehicles, nms_plates and nms_chars choose greedily, whatever was found.
THEOREM DetectionsAreGreedy == Spec => []SuppressionIsGreedy
<1>1. IInv => SuppressionIsGreedy
  <2> SUFFICES ASSUME IInv PROVE SuppressionIsGreedy
    OBVIOUS
  <2>1. ASSUME NEW S, NEW s \in Seq(S), NEW kills
        PROVE  IsGreedyChoice(Suppress(s, kills), s, kills)
    BY SuppressIsGreedy
  <2>2. CASE stage = "plates" /\ at.i = 1
    <3>1. output \in Seq(Box)
      BY <2>2, OutputsAssumption DEF IInv, StagesOK
    <3>2. [k \in DOMAIN vehicles |-> vehicles[k].box] = Suppress(output, VehicleKills(output))
      BY <2>2 DEF IInv, StagesOK
    <3>3. IsGreedyChoice(Suppress(output, VehicleKills(output)), output, VehicleKills(output))
      BY <2>1, <3>1
    <3> QED BY <2>2, <3>2, <3>3 DEF SuppressionIsGreedy
  <2>3. CASE stage = "plates" /\ at.i > 1
    <3>1. output \in Seq(Detected)
      BY <2>3, OutputsAssumption DEF IInv, StagesOK
    <3>2. IsGreedyChoice(Suppress(output, PlateKills(output)), output, PlateKills(output))
      BY <2>1, <3>1
    <3>3. ~ (at.i = 1)
      BY <2>3
    <3> QED BY <2>3, <3>2, <3>3 DEF SuppressionIsGreedy
  <2>4. CASE stage = "over"
    <3>1. output \in ReadOut
      BY <2>4, OutputsAssumption DEF IInv, TypeOK
    <3>2. output.chars \in Seq(Character)
      BY <3>1 DEF ReadOut
    <3>3. IsGreedyChoice(Suppress(output.chars, CharKills(output.chars)), output.chars,
                         CharKills(output.chars))
      BY <2>1, <3>2
    <3> QED BY <2>4, <3>3 DEF SuppressionIsGreedy
  <2>5. CASE ~ (stage = "plates" /\ at.i = 1) /\ ~ (stage = "plates" /\ at.i > 1) /\ stage # "over"
    BY <2>5 DEF SuppressionIsGreedy
  <2> QED BY <2>2, <2>3, <2>4, <2>5
<1> QED BY <1>1, PlatesInvariant, PTL

\* The numbers of a legible plate are assembled from all ways to choose one of the
\* characters at each place, in the order of reading, whatever the network read.
THEOREM NumbersFromAllReadings == Spec => []AllReadings
<1>1. IInv => AllReadings
  <2> SUFFICES ASSUME IInv, stage = "over", Legible(output) PROVE AllReadings
    BY DEF AllReadings
  <2>1. output \in ReadOut
    BY OutputsAssumption DEF IInv, TypeOK
  <2> DEFINE C == ToSet(Suppress(output.chars, CharKills(output.chars)))
             cells == {Cell(c, C) : c \in C}
             readings == ToSet(Readings(output))
  <2>2. C = ToSet(Kept(output))
    BY DEF Kept
  <2> HIDE DEF C
  <2>3. ReadAll(readings, C, cells, output)
    BY <2>1, <2>2, LegibleReadings
  <2> QED BY Zenon, <2>3 DEF ReadAll, AllReadings, C
<1> QED BY <1>1, PlatesInvariant, PTL

\* removeDuplicatePlates does not run in circles, although its iterators step back:
\* each of its steps leaves less to do.
THEOREM RemovalLeavesLess == Spec => [][RemoveDuplicates => LessLeft]_vars
<1>1. IInv /\ [Next]_vars => [RemoveDuplicates => LessLeft]_vars
  BY RemovalLessLeft
<1> QED BY <1>1, PlatesInvariant, PTL DEF Spec

=============================================================================
