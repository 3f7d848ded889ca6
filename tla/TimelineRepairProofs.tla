------------------------ MODULE TimelineRepairProofs ------------------------
(***************************************************************************)
(* Lemmas about the operators of TimelineRepair: what a pick picks, what a *)
(* repair leaves well formed, and that a second one finds nothing to do.   *)
(*                                                                         *)
(* Induction on a natural number is by its least counterexample.           *)
(***************************************************************************)
EXTENDS TimelineRepair, WellFoundedInduction, FiniteSetTheorems, TLAPS

-----------------------------------------------------------------------------
(* Extremes.  A non-empty set of naturals has a least element.             *)
LEMMA LeastExists ==
    ASSUME NEW S \in SUBSET Nat, S # {}
    PROVE  \E m \in S : \A n \in S : m <= n
<1> DEFINE R == OpToRel(<, Nat)
<1>1. IsWellFoundedOn(R, Nat)
  BY NatLessThanWellFounded, Zenon
<1>2. \A x \in Nat, y \in Nat : <<x, y>> \in R <=> x < y
  BY Zenon DEF OpToRel
<1> HIDE DEF R
<1>3. PICK m \in S : \A n \in S : ~(<<n, m>> \in R)
  BY <1>1, WFMin
<1>4. \A n \in S : ~(n < m)
  BY <1>2, <1>3
<1> QED BY <1>4

(* A non-empty bounded one has a greatest.                                 *)
LEMMA GreatestExists ==
    ASSUME NEW b \in Nat, NEW S \in SUBSET (0..b), S # {}
    PROVE  \E m \in S : \A n \in S : n <= m
<1> DEFINE Down == {b - n : n \in S}
<1>0. \A n \in S : b - n \in Nat
  OBVIOUS
<1>1. Down \in SUBSET Nat /\ Down # {}
  BY <1>0
<1>2. PICK d \in Down : \A e \in Down : d <= e
  BY <1>1, LeastExists
<1>3. PICK m \in S : d = b - m
  OBVIOUS
<1>4. ASSUME NEW n \in S PROVE n <= m
  <2>1. d <= b - n
    BY <1>2
  <2>2. n \in 0..b /\ m \in 0..b
    OBVIOUS
  <2> QED BY <1>3, <2>1, <2>2
<1> QED BY <1>4

LEMMA NewestIsOne ==
    ASSUME NEW S \in SUBSET Assets, S # {}
    PROVE  Newest(S) \in S /\ \A b \in S : b <= Newest(S)
<1>1. S \in SUBSET (0..NAssets) /\ NAssets \in Nat
  BY RepairAssumption DEF Assets
<1>2. \E m \in S : \A n \in S : n <= m
  BY <1>1, GreatestExists
<1> QED BY <1>2, Zenon DEF Newest

LEMMA OldestIsOne ==
    ASSUME NEW S \in SUBSET Nat, S # {}
    PROVE  Oldest(S) \in S /\ \A b \in S : Oldest(S) <= b
BY LeastExists, Zenon DEF Oldest

(* Some asset of a set has the greatest rank.                              *)
LEMMA TopRanked ==
    ASSUME NEW r \in [Assets -> Nat], NEW S \in SUBSET Assets, S # {}
    PROVE  \E a \in S : \A b \in S : r[b] <= r[a]
<1> DEFINE Part(k) == {a \in S : a <= k}
           Has(k)  == Part(k) # {} => \E a \in Part(k) : \A b \in Part(k) : r[b] <= r[a]
           Bad     == {k \in Nat : ~Has(k)}
<1>a. NAssets \in Nat /\ \A a \in S : a \in Nat /\ 1 <= a /\ a <= NAssets /\ r[a] \in Nat
  BY RepairAssumption DEF Assets
<1>1. Bad = {}
  <2> SUFFICES ASSUME Bad # {} PROVE FALSE
    OBVIOUS
  <2>1. PICK k \in Bad : \A n \in Bad : k <= n
    BY LeastExists
  <2>2. Part(0) = {}
    BY <1>a
  <2>3. k \in Nat /\ k # 0
    <3>1. Has(0)
      BY <2>2
    <3> HIDE DEF Has
    <3> QED BY <3>1
  <2>4. k - 1 \in Nat /\ k - 1 \notin Bad
    <3>1. k - 1 \in Nat /\ ~(k <= k - 1)
      BY <2>3
    <3> HIDE DEF Bad
    <3> QED BY <2>1, <3>1
  <2>5. Has(k - 1)
    BY <2>4
  <2>6. Part(k) = Part(k - 1) \cup (S \cap {k})
    <3>1. \A a \in S : a <= k <=> a <= k - 1 \/ a = k
      BY <1>a, <2>3
    <3> QED BY <3>1
  <2>7. CASE k \notin S
    <3>1. Part(k) = Part(k - 1)
      BY <2>6, <2>7
    <3> QED BY <2>5, <3>1
  <2>8. CASE k \in S /\ Part(k - 1) = {}
    <3>1. Part(k) = {k}
      BY <2>6, <2>8
    <3> QED BY <1>a, <2>8, <3>1
  <2>9. CASE k \in S /\ Part(k - 1) # {}
    <3>1. PICK a \in Part(k - 1) : \A b \in Part(k - 1) : r[b] <= r[a]
      BY <2>5, <2>9
    <3>2. a \in Part(k) /\ k \in Part(k)
      BY <2>6, <2>9
    <3>3. CASE r[k] <= r[a]
      <4>1. \A b \in Part(k) : r[b] <= r[a]
        BY <2>6, <3>1, <3>3
      <4> QED BY <3>2, <4>1
    <3>4. CASE ~(r[k] <= r[a])
      <4>1. \A b \in Part(k) : r[b] <= r[k]
        BY <1>a, <2>6, <2>9, <3>1, <3>4
      <4> QED BY <3>2, <4>1
    <3> QED BY <3>3, <3>4
  <2> QED BY <2>7, <2>8, <2>9
<1>2. Part(NAssets) = S
  BY <1>a
<1> QED BY <1>1, <1>2, <1>a
-----------------------------------------------------------------------------
(* Sequences of sequences, flattened by a function defined by itself too.  *)
Flattened(ss, S, g) == [i \in S |-> IF i = 1 THEN ss[i] ELSE g[i - 1] \o ss[i]]
Flattening(ss) == CHOOSE g : g = Flattened(ss, 1..Len(ss), g)

LEMMA FlattenIs ==
    ASSUME NEW ss, Len(ss) # 0
    PROVE  FlattenSeq(ss) = Flattening(ss)[Len(ss)]
BY Zenon DEF FlattenSeq, Flattening, Flattened

LEMMA FlatteningExists ==
    ASSUME NEW ss, NEW n \in Nat
    PROVE  \E g : g = Flattened(ss, 1..n, g)
<1> DEFINE Has(k) == \E g : g = Flattened(ss, 1..k, g)
           Bad    == {k \in Nat : ~Has(k)}
<1>1. Bad = {}
  <2> SUFFICES ASSUME Bad # {} PROVE FALSE
    OBVIOUS
  <2>1. PICK k \in Bad : \A m \in Bad : k <= m
    BY LeastExists
  <2>2. Has(0)
    <3>1. \A g : Flattened(ss, 1..0, g) = [i \in 1..0 |-> 0]
      BY DEF Flattened
    <3> QED BY <3>1
  <2>3. k \in Nat /\ k # 0
    <3> HIDE DEF Has
    <3> QED BY <2>2
  <2>4. k - 1 \in Nat /\ k - 1 \notin Bad
    <3>1. k - 1 \in Nat /\ ~(k <= k - 1)
      BY <2>3
    <3> HIDE DEF Bad
    <3> QED BY <2>1, <3>1
  <2>5. PICK g : g = Flattened(ss, 1..(k - 1), g)
    BY <2>4
  <2> DEFINE h == Flattened(ss, 1..k, g)
  <2>6. ASSUME NEW i \in 1..(k - 1) PROVE h[i] = g[i]
    <3>1. i \in 1..k
      BY <2>3
    <3>2. h[i] = IF i = 1 THEN ss[i] ELSE g[i - 1] \o ss[i]
      BY <3>1 DEF Flattened
    <3>3. g[i] = IF i = 1 THEN ss[i] ELSE g[i - 1] \o ss[i]
      BY <2>5, Zenon DEF Flattened
    <3> QED BY <3>2, <3>3
  <2>7. \A i \in 1..k : i # 1 => h[i - 1] = g[i - 1]
    BY <2>3, <2>6
  <2>8. Flattened(ss, 1..k, g) = Flattened(ss, 1..k, h)
    <3> HIDE DEF h
    <3> QED BY <2>7 DEF Flattened
  <2>9. Has(k)
    <3>1. h = Flattened(ss, 1..k, h)
      BY <2>8
    <3> HIDE DEF h
    <3> QED BY <3>1
  <2> QED BY <2>1, <2>9
<1> QED BY <1>1

LEMMA FlatteningUnfolds ==
    ASSUME NEW ss, Len(ss) \in Nat, NEW k \in 1..Len(ss)
    PROVE  Flattening(ss)[k] = IF k = 1 THEN ss[k] ELSE Flattening(ss)[k - 1] \o ss[k]
<1>1. \E g : g = Flattened(ss, 1..Len(ss), g)
  BY FlatteningExists, Zenon
<1>2. Flattening(ss) = Flattened(ss, 1..Len(ss), Flattening(ss))
  BY <1>1, Zenon DEF Flattening
<1> QED BY <1>2, Zenon DEF Flattened

LEMMA FlattenType ==
    ASSUME NEW T, NEW ss \in Seq(Seq(T))
    PROVE  FlattenSeq(ss) \in Seq(T)
<1>a. Len(ss) \in Nat /\ \A k \in 1..Len(ss) : ss[k] \in Seq(T)
  OBVIOUS
<1> DEFINE Bad == {k \in 1..Len(ss) : Flattening(ss)[k] \notin Seq(T)}
<1>1. Bad = {}
  <2> SUFFICES ASSUME Bad # {} PROVE FALSE
    OBVIOUS
  <2>1. PICK k \in Bad : \A m \in Bad : k <= m
    <3>1. Bad \in SUBSET Nat
      OBVIOUS
    <3> HIDE DEF Bad
    <3> QED BY <3>1, LeastExists
  <2>2. k \in 1..Len(ss) /\ Flattening(ss)[k] \notin Seq(T)
    OBVIOUS
  <2>3. Flattening(ss)[k] = IF k = 1 THEN ss[k] ELSE Flattening(ss)[k - 1] \o ss[k]
    BY <1>a, <2>2, FlatteningUnfolds
  <2>4. k # 1
    BY <1>a, <2>2, <2>3
  <2>5. k - 1 \in 1..Len(ss) /\ ~(k <= k - 1)
    BY <1>a, <2>2, <2>4
  <2>6. Flattening(ss)[k - 1] \in Seq(T)
    BY <2>1, <2>5
  <2> HIDE DEF Bad
  <2>7. Flattening(ss)[k - 1] \o ss[k] \in Seq(T)
    BY <1>a, <2>2, <2>6
  <2> QED BY <2>2, <2>3, <2>4, <2>7
<1>2. CASE Len(ss) = 0
  <2>1. FlattenSeq(ss) = ss
    BY <1>2, Zenon DEF FlattenSeq
  <2>2. ss = <<>>
    BY <1>2
  <2> QED BY <2>1, <2>2
<1>3. CASE Len(ss) # 0
  <2>1. Len(ss) \in 1..Len(ss)
    BY <1>a, <1>3
  <2> QED BY <1>1, <1>3, <2>1, FlattenIs
<1> QED BY <1>2, <1>3

(* One element each: flattening forgets the brackets.                      *)
LEMMA FlattenOnes ==
    ASSUME NEW T, NEW e \in Seq(T), e # <<>>,
           NEW ss \in Seq(Seq(T)), Len(ss) = Len(e), \A i \in DOMAIN e : ss[i] = <<e[i]>>
    PROVE  FlattenSeq(ss) = e
<1>a. /\ Len(ss) = Len(e) /\ Len(e) \in Nat \ {0} /\ DOMAIN e = 1..Len(e)
      /\ e = [i \in 1..Len(e) |-> e[i]]
  <2>1. Len(e) \in Nat /\ DOMAIN e = 1..Len(e) /\ e = [i \in 1..Len(e) |-> e[i]]
    OBVIOUS
  <2>2. Len(e) # 0
    BY <2>1
  <2> QED BY <2>1, <2>2
<1> DEFINE F(k)   == Flattening(ss)[k]
           Has(k) == F(k) \in Seq(T) /\ Len(F(k)) = k /\ \A i \in 1..k : F(k)[i] = e[i]
           Bad    == {k \in 1..Len(e) : ~Has(k)}
<1>1. Bad = {}
  <2> SUFFICES ASSUME Bad # {} PROVE FALSE
    OBVIOUS
  <2>1. PICK k \in Bad : \A m \in Bad : k <= m
    <3>1. Bad \in SUBSET Nat
      OBVIOUS
    <3> HIDE DEF Bad
    <3> QED BY <3>1, LeastExists
  <2>2. k \in 1..Len(e) /\ ~Has(k)
    OBVIOUS
  <2>3. Flattening(ss)[k] = IF k = 1 THEN ss[k] ELSE Flattening(ss)[k - 1] \o ss[k]
    BY <1>a, <2>2, FlatteningUnfolds
  <2>4. ss[k] = <<e[k]>>
    BY <1>a, <2>2
  <2>5. k # 1
    BY <1>a, <2>2, <2>3, <2>4
  <2>6. k - 1 \in 1..Len(e) /\ ~(k <= k - 1)
    BY <1>a, <2>2, <2>5
  <2>7. Has(k - 1)
    BY <2>1, <2>6
  <2> HIDE DEF Bad
  <2>8. e[k] \in T
    BY <1>a, <2>2
  <2>9. F(k) = F(k - 1) \o <<e[k]>>
    BY <2>3, <2>4, <2>5
  <2> HIDE DEF F
  <2>10. Has(k)
    <3>1. F(k) \in Seq(T) /\ Len(F(k)) = k
      BY <2>2, <2>7, <2>8, <2>9
    <3>2. ASSUME NEW i \in 1..k PROVE F(k)[i] = e[i]
      BY <2>2, <2>7, <2>8, <2>9
    <3> QED BY <3>1, <3>2
  <2> QED BY <2>2, <2>10
<1>2. Has(Len(e))
  BY <1>a, <1>1
<1>3. FlattenSeq(ss) = Flattening(ss)[Len(ss)]
  BY <1>a, FlattenIs
<1>4. FlattenSeq(ss) \in [1..Len(e) -> T] /\ \A i \in 1..Len(e) : FlattenSeq(ss)[i] = e[i]
  BY <1>a, <1>2, <1>3
<1> QED BY <1>a, <1>4
-----------------------------------------------------------------------------
(* What is picked.                                                         *)
Pick == Assets \cup {None}
Clip == [asset : Pick, dur : Nat]

LEMMA AssetsAreFinite ==
    ASSUME NEW S \in SUBSET Assets
    PROVE  IsFiniteSet(S) /\ Cardinality(S) \in Nat /\ (Cardinality(S) = 0 <=> S = {})
<1>1. IsFiniteSet(Assets)
  BY RepairAssumption, FS_Interval DEF Assets
<1>2. IsFiniteSet(S)
  BY <1>1, FS_Subset
<1> QED BY <1>2, FS_CardinalityType, FS_EmptySet

LEMMA InOrderExists ==
    ASSUME NEW S \in SUBSET Assets
    PROVE  InOrder(S) \in [1..Cardinality(S) -> S]
<1> DEFINE Rises(f) == \A i, j \in DOMAIN f : i < j => f[i] < f[j]
           Has(n)   == \A R \in SUBSET Assets : Cardinality(R) = n =>
                           \E f \in [1..n -> R] : Rises(f)
           Bad      == {n \in Nat : ~Has(n)}
<1>a. \A a \in Assets : a \in Int
  BY RepairAssumption DEF Assets
<1>1. Bad = {}
  <2> SUFFICES ASSUME Bad # {} PROVE FALSE
    OBVIOUS
  <2>1. PICK k \in Bad : \A m \in Bad : k <= m
    BY LeastExists
  <2>2. k \in Nat /\ ~Has(k)
    OBVIOUS
  <2>3. PICK R \in SUBSET Assets : Cardinality(R) = k /\ ~\E f \in [1..k -> R] : Rises(f)
    BY <2>2
  <2>4. k # 0
    <3> SUFFICES ASSUME k = 0 PROVE FALSE
      OBVIOUS
    <3>1. [i \in 1..k |-> 0] \in [1..k -> R] /\ Rises([i \in 1..k |-> 0])
      OBVIOUS
    <3> QED BY <2>3, <3>1
  <2>5. R # {}
    BY <2>3, <2>4, AssetsAreFinite
  <2> DEFINE m == Newest(R)
  <2>6. m \in R /\ \A b \in R : b <= m
    BY <2>5, NewestIsOne
  <2> HIDE DEF m
  <2>7. R \ {m} \in SUBSET Assets /\ Cardinality(R \ {m}) = k - 1
    BY <2>3, <2>6, AssetsAreFinite, FS_RemoveElement
  <2>8. k - 1 \in Nat /\ ~(k <= k - 1)
    BY <2>2, <2>4
  <2>9. Has(k - 1)
    BY <2>1, <2>8
  <2>10. PICK f \in [1..(k - 1) -> R \ {m}] : Rises(f)
    BY <2>7, <2>9
  <2> DEFINE g == [i \in 1..k |-> IF i = k THEN m ELSE f[i]]
  <2>11. \A i \in 1..k : i # k => i \in 1..(k - 1)
    BY <2>2
  <2>12. g \in [1..k -> R]
    BY <2>6, <2>11
  <2>13. ASSUME NEW i \in 1..k, NEW j \in 1..k, i < j PROVE g[i] < g[j]
    <3>1. i # k /\ i \in 1..(k - 1) /\ g[i] = f[i]
      BY <2>2, <2>11, <2>13
    <3>2. CASE j = k
      <4>1. f[i] \in R \ {m}
        BY <3>1
      <4>2. f[i] <= m /\ f[i] # m /\ f[i] \in Int /\ m \in Int
        BY <1>a, <2>6, <4>1
      <4> QED BY <3>1, <3>2, <4>2
    <3>3. CASE j # k
      BY <2>10, <2>11, <2>13, <3>1, <3>3
    <3> QED BY <3>2, <3>3
  <2>14. Rises(g)
    BY <2>13
  <2> QED BY <2>3, <2>12, <2>14
<1>2. Cardinality(S) \in Nat
  BY AssetsAreFinite
<1>3. \E f \in [1..Cardinality(S) -> S] : Rises(f)
  BY <1>1, <1>2
<1> QED BY <1>3, Zenon DEF InOrder

LEMMA NewestOfPick ==
    ASSUME NEW S \in SUBSET Assets
    PROVE  NewestOf(S) \in S \cup {None} /\ (NewestOf(S) = None <=> S = {})
<1>1. None \notin Assets
  BY RepairAssumption DEF None, Assets
<1> QED BY <1>1, NewestIsOne DEF NewestOf

LEMMA FirstVideoPick ==
    ASSUME NEW S \in SUBSET Assets
    PROVE  FirstVideo(S) \in S \cup {None} /\ (FirstVideo(S) = None <=> S = {})
<1>1. None \notin Assets /\ S \in SUBSET Nat
  BY RepairAssumption DEF None, Assets
<1> QED BY <1>1, OldestIsOne DEF FirstVideo

LEMMA BestImagePick ==
    ASSUME NEW lib \in Libraries, NEW S \in SUBSET Assets
    PROVE  BestImage(lib, S) \in S \cup {None} /\ (BestImage(lib, S) = None <=> S = {})
<1>1. None \notin Assets /\ lib.rank \in [Assets -> Nat]
  BY RepairAssumption DEF None, Assets, Libraries
<1> DEFINE signed == {a \in S : Signed(lib, a)}
<1>2. CASE signed # {}
  <2>1. \E a \in signed : \A b \in signed : lib.rank[b] <= lib.rank[a]
    BY <1>1, <1>2, TopRanked
  <2>2. BestImage(lib, S) \in signed
    BY <1>2, <2>1, Zenon DEF BestImage
  <2> QED BY <1>1, <2>2
<1>3. CASE signed = {}
  <2>1. BestImage(lib, S) = NewestOf(S)
    BY <1>3, Zenon DEF BestImage
  <2> QED BY <2>1, NewestOfPick
<1> QED BY <1>2, <1>3

(* A scene's own take, ready: none only if it has none.                    *)
Own(lib, s, lax) == {a \in Assets : SceneOf[a] = s /\ lib.status[a] # "absent" /\ Ready(lib, a, lax)}

LEMMA PrimaryPick ==
    ASSUME NEW lib \in Libraries, NEW s, NEW lax
    PROVE  /\ Primary(lib, s, lax) \in Own(lib, s, lax) \cup {None}
           /\ Primary(lib, s, lax) = None <=> Own(lib, s, lax) = {}
<1> DEFINE fit(kind) == {a \in Takes(lib, s, kind) : Ready(lib, a, lax)}
<1>1. fit("video") \in SUBSET Own(lib, s, lax) /\ fit("image") \in SUBSET Own(lib, s, lax)
  BY DEF Takes, Own
<1>2. Own(lib, s, lax) \in SUBSET Assets
  BY DEF Own
<1>3. Own(lib, s, lax) = fit("video") \cup fit("image")
  BY RepairAssumption DEF Takes, Own
<1>4. Primary(lib, s, lax) = FirstVideo(fit("video")) ?? BestImage(lib, fit("image"))
  BY Zenon DEF Primary
<1> HIDE DEF fit
<1>5. FirstVideo(fit("video")) \in fit("video") \cup {None}
      /\ (FirstVideo(fit("video")) = None <=> fit("video") = {})
  BY <1>1, <1>2, FirstVideoPick
<1>6. BestImage(lib, fit("image")) \in fit("image") \cup {None}
      /\ (BestImage(lib, fit("image")) = None <=> fit("image") = {})
  BY <1>1, <1>2, BestImagePick
<1> QED BY <1>1, <1>3, <1>4, <1>5, <1>6 DEF ??

(* Rows of a scene, whatever the disk holds.                               *)
Made(lib, s) == {a \in Assets : SceneOf[a] = s /\ lib.status[a] = "succeeded"}

LEMMA RowsOnlyPick ==
    ASSUME NEW lib \in Libraries, NEW s
    PROVE  /\ RowsOnly(lib, s) \in Made(lib, s) \cup {None}
           /\ RowsOnly(lib, s) = None <=> Made(lib, s) = {}
<1> DEFINE done(kind) == {a \in Takes(lib, s, kind) : lib.status[a] = "succeeded"}
           both(kind) == {a \in done(kind) : Signed(lib, a)}
<1>1. Made(lib, s) = done("video") \cup done("image") /\ Made(lib, s) \in SUBSET Assets
  BY RepairAssumption DEF Takes, Made
<1>2. \A kind : both(kind) \in SUBSET done(kind) /\ done(kind) \in SUBSET Assets
  BY DEF Takes
<1>3. RowsOnly(lib, s) = (FirstVideo(both("video")) ?? BestImage(lib, both("image")))
                             ?? (FirstVideo(done("video")) ?? BestImage(lib, done("image")))
  BY Zenon DEF RowsOnly
<1> HIDE DEF done, both
<1>4. \A kind : /\ FirstVideo(done(kind)) \in done(kind) \cup {None}
                /\ FirstVideo(done(kind)) = None <=> done(kind) = {}
                /\ FirstVideo(both(kind)) \in done(kind) \cup {None}
  BY <1>2, FirstVideoPick
<1>5. \A kind : /\ BestImage(lib, done(kind)) \in done(kind) \cup {None}
                /\ BestImage(lib, done(kind)) = None <=> done(kind) = {}
                /\ BestImage(lib, both(kind)) \in done(kind) \cup {None}
  BY <1>2, BestImagePick
<1>6. \A kind : None \notin done(kind)
  BY <1>2, RepairAssumption DEF None, Assets
<1> QED BY <1>1, <1>3, <1>4, <1>5, <1>6 DEF ??

LEMMA ForScenePick ==
    ASSUME NEW lib \in Libraries, NEW s, NEW lax
    PROVE  /\ ForScene(lib, s, lax) \in Pick
           /\ ForScene(lib, s, lax) # None => SceneOf[ForScene(lib, s, lax)] = s
<1>1. Primary(lib, s, lax) \in Own(lib, s, lax) \cup {None}
  BY PrimaryPick
<1>2. Primary(lib, s, TRUE) \in Own(lib, s, TRUE) \cup {None}
  BY PrimaryPick
<1>3. RowsOnly(lib, s) \in Made(lib, s) \cup {None}
  BY RowsOnlyPick
<1> QED BY <1>1, <1>2, <1>3 DEF ForScene, ??, Own, Made, Pick

LEMMA ScanPick ==
    ASSUME NEW lib \in Libraries, NEW s, NEW lax
    PROVE  /\ Scan(lib, s, lax) \in Pick
           /\ Scan(lib, s, lax) = None => ForScene(lib, s, lax) = None
           /\ Scan(lib, s, lax) = None => \A t \in Scenes : ForScene(lib, t, lax) = None
<1> DEFINE others == {t \in Scenes : ForScene(lib, t, lax) # None}
<1>1. others \in SUBSET Nat
  BY RepairAssumption DEF Scenes
<1>2. Scan(lib, s, lax) = ForScene(lib, s, lax)
            ?? (IF others = {} THEN None ELSE ForScene(lib, Oldest(others), lax))
  BY Zenon DEF Scan
<1>3. others # {} => Oldest(others) \in others
  BY <1>1, OldestIsOne
<1>4. \A t : ForScene(lib, t, lax) \in Pick
  BY ForScenePick
<1> QED BY <1>2, <1>3, <1>4 DEF ??, Pick

LEMMA AnyVisualPick ==
    ASSUME NEW lib \in Libraries, NEW lax
    PROVE  AnyVisual(lib, lax) \in Pick
<1> DEFINE fit(kind, l) == {a \in Assets : KindOf[a] = kind /\ Ready(lib, a, l)}
           pass(l)      == NewestOf(fit("video", l)) ?? NewestOf(fit("image", l))
<1>1. \A kind, l : fit(kind, l) \in SUBSET Assets
  OBVIOUS
<1> HIDE DEF fit
<1>2. \A kind, l : NewestOf(fit(kind, l)) \in Pick
  BY <1>1, NewestOfPick DEF Pick
<1>3. \A l : pass(l) \in Pick
  BY <1>2 DEF ??
<1>4. AnyVisual(lib, lax) = IF lax THEN pass(TRUE) ELSE pass(FALSE) ?? pass(TRUE)
  BY Zenon DEF AnyVisual, fit
<1> HIDE DEF pass
<1> QED BY <1>3, <1>4 DEF ??

LEMMA SubstitutePick ==
    ASSUME NEW lib \in Libraries, NEW s, NEW lax
    PROVE  Substitute(lib, s, lax) \in Pick
BY ScanPick, AnyVisualPick DEF Substitute, ??

LEMMA OtherTakePick ==
    ASSUME NEW lib \in Libraries, NEW known, NEW s, NEW lax \in BOOLEAN, NEW not
    PROVE  /\ OtherTake(lib, known, s, lax, not) \in Pick
           /\ OtherTake(lib, known, s, lax, not) # None =>
                  OtherTake(lib, known, s, lax, not) \in Own(lib, s, lax)
<1> DEFINE fit(kind, l) == {a \in Takes(lib, s, kind) \ {not} :
                               Ready(lib, a, l) /\ (l \/ a \in known)}
           pass(l) == NewestOf(fit("video", l)) ?? NewestOf(fit("image", l))
<1>1. \A kind, l : fit(kind, l) \in SUBSET Own(lib, s, l) /\ Own(lib, s, l) \in SUBSET Assets
  BY DEF Takes, Own
<1> HIDE DEF fit
<1>2. \A kind, l : NewestOf(fit(kind, l)) \in Own(lib, s, l) \cup {None}
  BY <1>1, NewestOfPick
<1>3. \A l : pass(l) \in Own(lib, s, l) \cup {None}
  BY <1>2 DEF ??
<1>4. OtherTake(lib, known, s, lax, not) = pass(FALSE) ?? (IF lax THEN pass(TRUE) ELSE None)
  BY Zenon DEF OtherTake, fit
<1> HIDE DEF pass
<1>5. Own(lib, s, FALSE) \in SUBSET Own(lib, s, lax)
  BY DEF Own, Ready
<1>6. CASE lax = TRUE
  BY <1>1, <1>3, <1>4, <1>5, <1>6 DEF ??, Pick
<1>7. CASE lax = FALSE
  BY <1>1, <1>3, <1>4, <1>5, <1>7 DEF ??, Pick
<1> QED BY <1>6, <1>7

-----------------------------------------------------------------------------
(* What a repair leaves: a library, and clips of assets there may be.      *)
LEMMA SignType ==
    ASSUME NEW lib \in Libraries, NEW S \in SUBSET Assets
    PROVE  /\ Sign(lib, S) \in Libraries
           /\ \A a \in Assets : Signed(Sign(lib, S), a) <=> Signed(lib, a) \/ a \in S
           /\ \A a \in Assets \ S : Sign(lib, S).rank[a] = lib.rank[a]
           /\ \A a \in S, b \in Assets \ S : Sign(lib, S).rank[b] < Sign(lib, S).rank[a]
<1> DEFINE last    == Newest({lib.rank[a] : a \in Assets})
           upTo(a) == {b \in S : b <= a}
           rank    == [a \in Assets |->
                          IF a \in S THEN last + Cardinality(upTo(a)) ELSE lib.rank[a]]
<1>1. lib.rank \in [Assets -> Nat] /\ lib.status \in [Assets -> Statuses]
      /\ lib.onDisk \in SUBSET Assets
  BY DEF Libraries
<1>2. ASSUME NEW a \in S PROVE Cardinality(upTo(a)) \in Nat \ {0}
  <2>0. a \in Nat /\ a <= a
    BY RepairAssumption DEF Assets
  <2>1. upTo(a) \in SUBSET Assets /\ a \in upTo(a)
    BY <2>0
  <2> HIDE DEF upTo
  <2> QED BY <2>1, AssetsAreFinite
<1>3. ASSUME Assets # {} PROVE last \in Nat /\ \A b \in Assets : lib.rank[b] <= last
  <2>1. PICK a \in Assets : \A b \in Assets : lib.rank[b] <= lib.rank[a]
    BY <1>1, <1>3, TopRanked
  <2>2. last \in {lib.rank[b] : b \in Assets} /\ \A n \in {lib.rank[b] : b \in Assets} : n <= last
    BY <2>1, Zenon DEF Newest
  <2> HIDE DEF last
  <2> QED BY <1>1, <2>2
<1>4. Sign(lib, S) = [status |-> lib.status, rank |-> rank, onDisk |-> lib.onDisk]
  BY DEF Sign
<1> HIDE DEF last, upTo
<1>5. \A a \in Assets : /\ rank[a] \in Nat
                        /\ a \notin S => rank[a] = lib.rank[a]
                        /\ a \in S => rank[a] > last /\ rank[a] # 0
  BY <1>1, <1>2, <1>3
<1>6. rank \in [Assets -> Nat]
  BY <1>5
<1> HIDE DEF rank
<1>7. Sign(lib, S) \in Libraries
  BY <1>1, <1>4, <1>6 DEF Libraries
<1>8. \A a \in S, b \in Assets \ S : rank[b] < rank[a]
  <2> TAKE a \in S, b \in Assets \ S
  <2>1. rank[b] <= last /\ last \in Nat /\ rank[a] > last /\ rank[a] \in Nat /\ rank[b] \in Nat
    BY <1>3, <1>5
  <2> QED BY <2>1
<1> QED BY <1>4, <1>5, <1>7, <1>8 DEF Signed

LEMMA SignNothing ==
    ASSUME NEW lib \in Libraries
    PROVE  Sign(lib, {}) = lib
<1>1. Sign(lib, {}).rank = lib.rank
  <2>1. Sign(lib, {}) \in Libraries /\ \A a \in Assets : Sign(lib, {}).rank[a] = lib.rank[a]
    BY SignType
  <2> QED BY <2>1 DEF Libraries
<1>2. Sign(lib, {}).status = lib.status /\ Sign(lib, {}).onDisk = lib.onDisk
  BY DEF Sign
<1>3. Sign(lib, {}) \in Libraries
  BY SignType
<1> QED BY <1>1, <1>2, <1>3 DEF Libraries

LEMMA StillsAreAssets ==
    ASSUME NEW lib
    PROVE  UnsignedStills(lib) \in SUBSET Assets
<1> DEFINE done(s) == {a \in Takes(lib, s, "image") : lib.status[a] = "succeeded"}
           open    == {s \in Scenes : /\ \A a \in done(s) : ~Signed(lib, a)
                                      /\ done(s) \cap lib.onDisk # {}}
<1>1. UnsignedStills(lib) = {Newest(done(s) \cap lib.onDisk) : s \in open}
  BY Zenon DEF UnsignedStills
<1>2. \A s \in open : /\ done(s) \cap lib.onDisk \in SUBSET Assets
                      /\ done(s) \cap lib.onDisk # {}
  BY DEF Takes
<1> HIDE DEF done, open
<1>3. \A s \in open : Newest(done(s) \cap lib.onDisk) \in Assets
  BY <1>2, NewestIsOne
<1> QED BY <1>1, <1>3

(* What a storyboard asks for; a take it names is ready.                   *)
Slot == [scene : Scenes, fixed : Pick]
Slots(lib, lax) == {x \in Slot : x.fixed = None \/ Ready(lib, x.fixed, lax)}

LEMMA StoryboardType ==
    ASSUME NEW lib, NEW lax
    PROVE  Storyboard(lib, lax) \in Seq(Slots(lib, lax))
<1> DEFINE fit(s)  == {a \in Assets : SceneOf[a] = s /\ Ready(lib, a, lax)}
           one(s)  == <<[scene |-> s, fixed |-> None]>>
           each(s) == LET order == InOrder(fit(s))
                      IN  [i \in DOMAIN order |-> [scene |-> s, fixed |-> order[i]]]
           parts   == [s \in Scenes |-> IF UseAll /\ fit(s) # {} THEN each(s) ELSE one(s)]
<1>1. Storyboard(lib, lax) = FlattenSeq(parts)
  BY Zenon DEF Storyboard
<1>2. \A s \in Scenes : fit(s) \in SUBSET Assets /\ \A a \in fit(s) : Ready(lib, a, lax)
  OBVIOUS
<1> HIDE DEF fit
<1>3. ASSUME NEW s \in Scenes PROVE each(s) \in Seq(Slots(lib, lax))
  <2> DEFINE n == Cardinality(fit(s))
  <2>1. InOrder(fit(s)) \in [1..n -> fit(s)] /\ n \in Nat
    BY <1>2, <1>3, InOrderExists, AssetsAreFinite
  <2> HIDE DEF n
  <2>2. each(s) \in [1..n -> Slots(lib, lax)]
    BY <1>2, <1>3, <2>1 DEF Slots, Slot, Pick
  <2> HIDE DEF each
  <2> QED BY <2>1, <2>2
<1>4. \A s \in Scenes : one(s) \in Seq(Slots(lib, lax))
  BY DEF Slots, Slot, Pick
<1> HIDE DEF each, one
<1>5. parts \in [1..NScenes -> Seq(Slots(lib, lax))]
  BY <1>3, <1>4 DEF Scenes
<1> HIDE DEF parts
<1>6. parts \in Seq(Seq(Slots(lib, lax)))
  BY <1>5, RepairAssumption
<1> QED BY <1>1, <1>6, FlattenType

LEMMA StoryboardOfScenes ==
    ASSUME NEW lib, NEW lax, ~UseAll
    PROVE  Storyboard(lib, lax) = [s \in Scenes |-> [scene |-> s, fixed |-> None]]
<1> DEFINE e     == [s \in Scenes |-> [scene |-> s, fixed |-> None]]
           parts == [s \in Scenes |-> <<[scene |-> s, fixed |-> None]>>]
<1>1. Storyboard(lib, lax) = FlattenSeq(parts)
  BY DEF Storyboard
<1>2. e \in [1..NScenes -> Slot] /\ parts \in [1..NScenes -> Seq(Slot)]
  BY DEF Scenes, Slot, Pick
<1>3. \A s \in Scenes : parts[s] = <<e[s]>>
  OBVIOUS
<1> HIDE DEF e, parts
<1>4. /\ e \in Seq(Slot) /\ Len(e) = NScenes /\ DOMAIN e = Scenes /\ e # <<>>
      /\ parts \in Seq(Seq(Slot)) /\ Len(parts) = NScenes
  BY <1>2, RepairAssumption DEF Scenes
<1>5. FlattenSeq(parts) = e
  BY <1>3, <1>4, FlattenOnes
<1> QED BY <1>1, <1>5 DEF e

LEMMA SyncType ==
    ASSUME NEW lib \in Libraries, NEW clips \in Seq(Clip), NEW lax, NEW lasts \in [Scenes -> Nat]
    PROVE  /\ Sync(lib, clips, lax, lasts) \in Seq(Clip)
           /\ DOMAIN Sync(lib, clips, lax, lasts) = DOMAIN Storyboard(lib, lax)
<1> DEFINE board   == Storyboard(lib, lax)
           was(i)  == IF i \in DOMAIN clips THEN clips[i]
                      ELSE [asset |-> None, dur |-> lasts[board[i].scene]]
           pick(i) == board[i].fixed ?? Substitute(lib, board[i].scene, lax)
           new(i)  == [was(i) EXCEPT !.asset = pick(i) ?? @]
<1>1. board \in Seq(Slots(lib, lax))
  BY StoryboardType
<1>2. Sync(lib, clips, lax, lasts) = [i \in DOMAIN board |-> new(i)]
  BY DEF Sync
<1> HIDE DEF board
<1>3. ASSUME NEW i \in DOMAIN board PROVE new(i) \in Clip
  <2>0. board[i] \in Slot
    BY <1>1, <1>3 DEF Slots
  <2>1. board[i].scene \in Scenes /\ board[i].fixed \in Pick
    BY <2>0 DEF Slot
  <2>2. was(i) \in Clip
    <3>1. CASE i \in DOMAIN clips
      BY <3>1
    <3>2. CASE i \notin DOMAIN clips
      <4>1. lasts[board[i].scene] \in Nat
        BY <2>1
      <4> QED BY <3>2, <4>1 DEF Clip, Pick
    <3> QED BY <3>1, <3>2
  <2>3. pick(i) \in Pick
    <3>1. Substitute(lib, board[i].scene, lax) \in Pick
      BY SubstitutePick
    <3> QED BY <2>1, <3>1 DEF ??
  <2> HIDE DEF was, pick
  <2> QED BY <2>2, <2>3 DEF Clip, ??
<1> HIDE DEF new
<1>4. DOMAIN board = 1..Len(board) /\ Len(board) \in Nat
  BY <1>1
<1>5. Sync(lib, clips, lax, lasts) \in [1..Len(board) -> Clip]
  BY <1>2, <1>3, <1>4
<1> QED BY <1>2, <1>4, <1>5 DEF board

LEMMA ReboundType ==
    ASSUME NEW lib \in Libraries, NEW c \in Clip, NEW s, NEW lax
    PROVE  Rebound(lib, c, s, lax) \in Clip
<1>1. Substitute(lib, s, lax) \in Pick
  BY SubstitutePick
<1> QED BY <1>1 DEF Rebound, Clip, ??

LEMMA ReconciledType ==
    ASSUME NEW lib \in Libraries, NEW known, NEW c \in Clip, NEW lax \in BOOLEAN
    PROVE  Reconciled(lib, known, c, lax) \in Clip
<1> DEFINE s == SceneOf[c.asset]
<1>1. Substitute(lib, s, lax) \in Pick
  BY SubstitutePick
<1>2. OtherTake(lib, known, s, lax, c.asset) \in Pick
  BY OtherTakePick
<1> QED BY <1>1, <1>2 DEF Reconciled, Clip, ??

(* What a repair approves first, the library it goes on with, what it      *)
(* approves in the end, and the library it leaves.                         *)
Due(lib, lax)          == IF lax THEN {} ELSE UnsignedStills(lib)
Ours(lib, lax)         == Sign(lib, Due(lib, lax))
Late(lib, clips, lax)  == IF lax THEN {} ELSE UnsignedOnTimeline(lib, clips)
After(lib, clips, lax) == Sign(lib, Late(lib, clips, lax))

LEMMA HealType ==
    ASSUME NEW lib \in Libraries, NEW clips \in Seq(Clip), NEW lax \in BOOLEAN,
           NEW lasts \in [Scenes -> Nat]
    PROVE  LET h == Heal(lib, clips, lax, lasts)
           IN  /\ h.clips \in Seq(Clip) /\ h.lib \in Libraries
               /\ h.stills \in SUBSET Assets /\ h.shown \in SUBSET Assets
               /\ ~h.counted => h.stills = {} /\ h.shown = {}
               /\ h.lib = Sign(Sign(lib, h.stills), h.shown)
<1> DEFINE ours   == Ours(lib, lax)
           board  == Storyboard(ours, lax)
           synced == Sync(ours, clips, lax, lasts)
           known  == {a \in Assets : Signed(lib, a)}
           new(i) == Reconciled(ours, known, Rebound(ours, synced[i], board[i].scene, lax), lax)
           mended == [i \in DOMAIN synced |-> new(i)]
           h      == Heal(lib, clips, lax, lasts)
<1>1. /\ h.lib = After(ours, mended, lax) /\ h.clips = mended
      /\ h.stills = Due(lib, lax) /\ h.shown = Late(ours, mended, lax)
      /\ ~h.counted => h.stills = {} /\ h.shown = {}
  BY DEF Heal, Ours, After, Due, Late
<1>2. Due(lib, lax) \in SUBSET Assets
  BY StillsAreAssets DEF Due
<1>3. ours \in Libraries
  BY <1>2, SignType DEF Ours
<1>4. h.lib = Sign(Sign(lib, h.stills), h.shown)
  BY <1>1 DEF Ours, After
<1> HIDE DEF ours
<1>5. synced \in Seq(Clip)
  BY <1>3, SyncType
<1> HIDE DEF synced
<1>6. ASSUME NEW i \in DOMAIN synced PROVE new(i) \in Clip
  <2>1. synced[i] \in Clip
    BY <1>5
  <2>2. Rebound(ours, synced[i], board[i].scene, lax) \in Clip
    BY <1>3, <2>1, ReboundType
  <2> QED BY <1>3, <2>2, ReconciledType
<1> HIDE DEF new
<1>7. mended \in Seq(Clip)
  BY <1>5, <1>6
<1> HIDE DEF mended
<1>8. Late(ours, mended, lax) \in SUBSET Assets
  BY DEF Late, UnsignedOnTimeline
<1>9. After(ours, mended, lax) \in Libraries
  BY <1>3, <1>8, SignType DEF After
<1> HIDE DEF h
<1> QED BY <1>1, <1>2, <1>4, <1>7, <1>8, <1>9, Zenon DEF h

-----------------------------------------------------------------------------
(* Signing assets leaves every status.                                     *)
LEMMA SignKeeps ==
    ASSUME NEW l, NEW S
    PROVE  Sign(l, S).status = l.status
  BY DEF Sign

(* A still approved without being asked for has succeeded.                 *)
LEMMA StillsSucceeded ==
    ASSUME NEW l, NEW a \in UnsignedStills(l)
    PROVE  l.status[a] = "succeeded"
<1> DEFINE Done(s) == {b \in Takes(l, s, "image") : l.status[b] = "succeeded"}
<1>1. PICK s \in Scenes : a = Newest(Done(s) \cap l.onDisk) /\ Done(s) \cap l.onDisk # {}
  BY Zenon DEF UnsignedStills
<1>2. Done(s) \cap l.onDisk \in SUBSET Assets
  BY DEF Takes
<1>3. a \in Done(s) \cap l.onDisk
  BY <1>1, <1>2, NewestIsOne
<1> QED BY <1>3

(* A repair approves only takes that it has read as succeeded.             *)
LEMMA HealApproves ==
    ASSUME NEW l, NEW clips, NEW lax, NEW lasts,
           NEW a \in Heal(l, clips, lax, lasts).stills \cup Heal(l, clips, lax, lasts).shown
    PROVE  l.status[a] = "succeeded"
<1> DEFINE ours == Ours(l, lax)
<1>1. a \in Due(l, lax) \/ \E mended : a \in Late(ours, mended, lax)
  BY DEF Heal, Due, Late, Ours
<1>2. ours.status = l.status
  BY SignKeeps DEF Ours
<1> HIDE DEF ours
<1>3. CASE a \in Due(l, lax)
  BY <1>3, StillsSucceeded DEF Due
<1>4. ASSUME NEW mended, a \in Late(ours, mended, lax) PROVE l.status[a] = "succeeded"
  BY <1>2, <1>4 DEF Late, UnsignedOnTimeline
<1> QED BY <1>1, <1>3, <1>4

-----------------------------------------------------------------------------
(* A second repair finds nothing to do.  Approvals are of rows that there  *)
(* are, rejected or not.                                                   *)
Sound(lib) == \A a \in Assets : lib.status[a] = "absent" => ~Signed(lib, a)

LEMMA OwnIsReady ==
    ASSUME NEW lib, Sound(lib), NEW s, NEW lax \in BOOLEAN
    PROVE  /\ \A a \in Assets : Ready(lib, a, lax) => lib.status[a] # "absent"
           /\ Own(lib, s, lax) = {a \in Assets : SceneOf[a] = s /\ Ready(lib, a, lax)}
BY DEF Sound, Ready, Own

LEMMA ForSceneIs ==
    ASSUME NEW lib \in Libraries, NEW s, NEW lax \in BOOLEAN
    PROVE  /\ ForScene(lib, s, lax) = None =>
                  Own(lib, s, lax) = {} /\ Own(lib, s, TRUE) = {} /\ Made(lib, s) = {}
           /\ ForScene(lib, s, lax) # None =>
                  /\ ForScene(lib, s, lax) \in Assets /\ SceneOf[ForScene(lib, s, lax)] = s
                  /\ lib.status[ForScene(lib, s, lax)] # "absent"
           /\ Own(lib, s, lax) # {} =>
                  ForScene(lib, s, lax) = Primary(lib, s, lax) /\ ForScene(lib, s, lax) \in Own(lib, s, lax)
<1> DEFINE p == Primary(lib, s, lax)
           q == Primary(lib, s, TRUE)
           r == RowsOnly(lib, s)
<1>1. p \in Own(lib, s, lax) \cup {None} /\ (p = None <=> Own(lib, s, lax) = {})
  BY PrimaryPick
<1>2. q \in Own(lib, s, TRUE) \cup {None} /\ (q = None <=> Own(lib, s, TRUE) = {})
  BY PrimaryPick
<1>3. r \in Made(lib, s) \cup {None} /\ (r = None <=> Made(lib, s) = {})
  BY RowsOnlyPick
<1>4. ForScene(lib, s, lax) = (p ?? q) ?? r
  BY Zenon DEF ForScene
<1> HIDE DEF p, q, r
<1>5. \A a \in Own(lib, s, lax) \cup Own(lib, s, TRUE) \cup Made(lib, s) :
          a \in Assets /\ SceneOf[a] = s /\ lib.status[a] # "absent"
  BY DEF Own, Made
<1> QED BY <1>1, <1>2, <1>3, <1>4, <1>5 DEF ??, p

(* Where no scene has a take, what is found belongs to none.               *)
Bare(lib, lax) == \A t \in Scenes : ForScene(lib, t, lax) = None

LEMMA BareVisual ==
    ASSUME NEW lib \in Libraries, Sound(lib), NEW lax \in BOOLEAN, Bare(lib, lax)
    PROVE  /\ AnyVisual(lib, lax) # None =>
                  /\ AnyVisual(lib, lax) \in Assets /\ SceneOf[AnyVisual(lib, lax)] = 0
                  /\ lib.status[AnyVisual(lib, lax)] # "absent"
           /\ AnyVisual(lib, lax) = None => \A a \in Assets : ~Ready(lib, a, TRUE)
           /\ (\E a \in Assets : Ready(lib, a, FALSE)) => Ready(lib, AnyVisual(lib, lax), lax)
<1> DEFINE fit(kind, l) == {a \in Assets : KindOf[a] = kind /\ Ready(lib, a, l)}
           pass(l)      == NewestOf(fit("video", l)) ?? NewestOf(fit("image", l))
           any          == AnyVisual(lib, lax)
<1>1. \A kind, l : fit(kind, l) \in SUBSET Assets
  OBVIOUS
<1>2. any = IF lax THEN pass(TRUE) ELSE pass(FALSE) ?? pass(TRUE)
  BY Zenon DEF AnyVisual
<1>3. \A l : {a \in Assets : Ready(lib, a, l)} = fit("video", l) \cup fit("image", l)
  BY RepairAssumption
<1>4. \A a \in Assets : Ready(lib, a, FALSE) => Ready(lib, a, TRUE)
  BY DEF Ready
<1>5. ASSUME NEW l
      PROVE  /\ pass(l) \in {a \in Assets : Ready(lib, a, l)} \cup {None}
             /\ (pass(l) = None <=> {a \in Assets : Ready(lib, a, l)} = {})
  <2> HIDE DEF fit
  <2>1. /\ NewestOf(fit("video", l)) \in fit("video", l) \cup {None}
        /\ (NewestOf(fit("video", l)) = None <=> fit("video", l) = {})
    BY <1>1, NewestOfPick
  <2>2. /\ NewestOf(fit("image", l)) \in fit("image", l) \cup {None}
        /\ (NewestOf(fit("image", l)) = None <=> fit("image", l) = {})
    BY <1>1, NewestOfPick
  <2> QED BY <1>3, <2>1, <2>2 DEF ??
<1> HIDE DEF fit, pass, any
<1>6. any = None => \A a \in Assets : ~Ready(lib, a, TRUE)
  BY <1>2, <1>5 DEF ??
<1>7. any # None => any \in Assets /\ Ready(lib, any, TRUE)
  BY <1>2, <1>4, <1>5 DEF ??
<1>8. (\E a \in Assets : Ready(lib, a, FALSE)) => Ready(lib, any, lax)
  <2>1. CASE lax = TRUE
    BY <1>2, <1>4, <1>5, <2>1 DEF ??
  <2>2. CASE lax = FALSE
    BY <1>2, <1>5, <2>2 DEF ??
  <2> QED BY <2>1, <2>2
<1>9. ASSUME any # None PROVE SceneOf[any] = 0
  <2>0. SceneOf[any] \in Scenes \cup {0}
    BY <1>7, <1>9, RepairAssumption
  <2>1. any \in Own(lib, SceneOf[any], TRUE)
    BY <1>7, <1>9, OwnIsReady, Zenon DEF Own
  <2>2. SceneOf[any] \in Scenes => FALSE
    BY <2>1, ForSceneIs DEF Bare
  <2> QED BY <2>0, <2>2
<1> QED BY <1>6, <1>7, <1>8, <1>9, OwnIsReady DEF any

(* What a storyboard puts into a clip: a ready take it names, the take of  *)
(* some scene, or in a bare project any visual, or nothing.                *)
Fits(lib, a, lax) ==
    \/ a \in Assets /\ Ready(lib, a, lax)
    \/ a # None /\ \E t \in Scenes : a = ForScene(lib, t, lax)
    \/ Bare(lib, lax) /\ AnyVisual(lib, lax) \in {a, None}

LEMMA SubstituteFits ==
    ASSUME NEW lib \in Libraries, NEW s \in Scenes, NEW lax \in BOOLEAN
    PROVE  LET a == Substitute(lib, s, lax)
           IN  /\ ForScene(lib, s, lax) # None => a = ForScene(lib, s, lax)
               /\ Fits(lib, a, lax)
               /\ a = None => Bare(lib, lax) /\ AnyVisual(lib, lax) = None
<1> DEFINE others == {t \in Scenes : ForScene(lib, t, lax) # None}
           scan   == Scan(lib, s, lax)
<1>1. others # {} => Oldest(others) \in others
  <2>1. others \in SUBSET Nat
    BY RepairAssumption DEF Scenes
  <2> QED BY <2>1, OldestIsOne
<1>2. scan = ForScene(lib, s, lax) ?? (IF others = {} THEN None ELSE ForScene(lib, Oldest(others), lax))
  BY Zenon DEF Scan
<1>3. scan = None <=> Bare(lib, lax)
  BY <1>1, <1>2 DEF ??, Bare
<1>4. scan # None => \E t \in Scenes : scan = ForScene(lib, t, lax)
  BY <1>1, <1>2 DEF ??
<1>5. ForScene(lib, s, lax) # None => scan = ForScene(lib, s, lax)
  BY <1>2 DEF ??
<1>6. Substitute(lib, s, lax) = scan ?? AnyVisual(lib, lax)
  BY DEF Substitute
<1> HIDE DEF scan
<1> QED BY <1>3, <1>4, <1>5, <1>6 DEF ??, Fits

(* What fits is neither rebound nor reconciled.                            *)
LEMMA FittingStays ==
    ASSUME NEW lib \in Libraries, Sound(lib), NEW lax \in BOOLEAN, NEW c \in Clip,
           Fits(lib, c.asset, lax), NEW known, NEW s \in Scenes
    PROVE  Rebound(lib, c, s, lax) = c /\ Reconciled(lib, known, c, lax) = c
<1> DEFINE a == c.asset
           t == SceneOf[a]
<1>0. c.asset \in Pick /\ [c EXCEPT !.asset = c.asset] = c
  BY DEF Clip
<1>1. Rebound(lib, c, s, lax) # c =>
          a # None /\ lib.status[a] = "absent" /\ Substitute(lib, s, lax) # None
  BY <1>0 DEF Rebound, ??
<1>2. Reconciled(lib, known, c, lax) # c =>
          /\ a # None /\ t # 0 /\ ~Ready(lib, a, lax)
          /\ (OtherTake(lib, known, t, lax, a) ?? Substitute(lib, t, lax)) \notin {a, None}
  BY <1>0 DEF Reconciled, ??
<1>3. a # None => a \in Assets /\ t \in Scenes \cup {0}
  BY <1>0, RepairAssumption DEF Pick
<1>4. OtherTake(lib, known, t, lax, a) # None => Own(lib, t, lax) # {}
  BY OtherTakePick
<1>5. CASE a \in Assets /\ Ready(lib, a, lax)
  BY <1>1, <1>2, <1>5, OwnIsReady
<1>6. CASE a # None /\ \E u \in Scenes : a = ForScene(lib, u, lax)
  <2>0. PICK u \in Scenes : a # None /\ a = ForScene(lib, u, lax)
    BY <1>6
  <2> HIDE DEF a
  <2>1. t = u /\ lib.status[a] # "absent"
    BY <2>0, ForSceneIs
  <2>2. Own(lib, t, lax) # {} => Ready(lib, a, lax)
    <3>1. Own(lib, t, lax) # {} => a \in Own(lib, t, lax)
      BY <2>0, <2>1, ForSceneIs
    <3> QED BY <3>1 DEF Own
  <2>3. Substitute(lib, t, lax) = a
    BY <2>0, <2>1, SubstituteFits
  <2> QED BY <1>1, <1>2, <1>4, <2>0, <2>1, <2>2, <2>3 DEF ??
<1>7. CASE Bare(lib, lax) /\ AnyVisual(lib, lax) = a /\ a # None
  BY <1>1, <1>2, <1>7, BareVisual
<1>8. CASE Bare(lib, lax) /\ AnyVisual(lib, lax) = None
  <2>1. \A u \in Scenes : Substitute(lib, u, lax) = None
    <3> TAKE u \in Scenes
    <3>1. Scan(lib, u, lax) = None
      <4>1. Scan(lib, u, lax) = ForScene(lib, u, lax)
                ?? (IF {v \in Scenes : ForScene(lib, v, lax) # None} = {} THEN None
                    ELSE ForScene(lib, Oldest({v \in Scenes : ForScene(lib, v, lax) # None}), lax))
        BY Zenon DEF Scan
      <4>2. {v \in Scenes : ForScene(lib, v, lax) # None} = {}
        BY <1>8 DEF Bare
      <4> QED BY <1>8, <4>1, <4>2 DEF Bare, ??
    <3> QED BY <1>8, <3>1 DEF Substitute, ??
  <2>2. t \in Scenes => Own(lib, t, lax) = {}
    BY <1>8, ForSceneIs DEF Bare
  <2> QED BY <1>1, <1>2, <1>3, <1>4, <2>1, <2>2 DEF ??
<1> QED BY <1>5, <1>6, <1>7, <1>8 DEF Fits

LEMMA SyncFits ==
    ASSUME NEW lib \in Libraries, NEW clips \in Seq(Clip), NEW lax \in BOOLEAN,
           NEW lasts \in [Scenes -> Nat], NEW i \in DOMAIN Storyboard(lib, lax)
    PROVE  /\ Fits(lib, Sync(lib, clips, lax, lasts)[i].asset, lax)
           /\ Storyboard(lib, lax)[i] \in Slots(lib, lax)
<1> DEFINE board   == Storyboard(lib, lax)
           was(k)  == IF k \in DOMAIN clips THEN clips[k]
                      ELSE [asset |-> None, dur |-> lasts[board[k].scene]]
           pick(k) == board[k].fixed ?? Substitute(lib, board[k].scene, lax)
           synced  == Sync(lib, clips, lax, lasts)
<1>1. board[i] \in Slots(lib, lax)
  BY StoryboardType
<1>2. synced = [k \in DOMAIN board |-> [was(k) EXCEPT !.asset = pick(k) ?? @]]
  BY DEF Sync
<1>3. synced[i] = [was(i) EXCEPT !.asset = pick(i) ?? @]
  BY <1>2
<1>4. was(i) = [was(i) EXCEPT !.asset = was(i).asset]
  <2>1. CASE i \in DOMAIN clips
    <3>1. clips[i] \in Clip
      BY <2>1
    <3> QED BY <2>1, <3>1 DEF Clip
  <2>2. CASE i \notin DOMAIN clips
    BY <2>2
  <2> QED BY <2>1, <2>2
<1> HIDE DEF was, board, synced
<1>5. synced[i].asset = pick(i) ?? was(i).asset
  BY <1>3, <1>4
<1>6. board[i].scene \in Scenes /\ board[i].fixed \in Pick
      /\ (board[i].fixed = None \/ Ready(lib, board[i].fixed, lax))
  BY <1>1 DEF Slots, Slot
<1>7. ASSUME board[i].fixed # None PROVE Fits(lib, synced[i].asset, lax)
  <2>1. synced[i].asset = board[i].fixed
    BY <1>5, <1>7 DEF ??
  <2>2. board[i].fixed \in Assets
    BY <1>6, <1>7 DEF Pick
  <2> QED BY <1>6, <1>7, <2>1, <2>2 DEF Fits
<1>8. ASSUME board[i].fixed = None PROVE Fits(lib, synced[i].asset, lax)
  <2> DEFINE a == Substitute(lib, board[i].scene, lax)
  <2>1. pick(i) = a
    BY <1>8 DEF ??
  <2>2. Fits(lib, a, lax) /\ (a = None => Bare(lib, lax) /\ AnyVisual(lib, lax) = None)
    BY <1>6, SubstituteFits
  <2> HIDE DEF a, pick
  <2>3. CASE a # None
    BY <1>5, <2>1, <2>2, <2>3 DEF ??
  <2>4. CASE a = None
    BY <2>2, <2>4 DEF Fits
  <2> QED BY <2>3, <2>4
<1> QED BY <1>1, <1>7, <1>8 DEF board, synced

(* What is left of a repair: approvals, and the storyboard's clips.        *)
LEMMA SignSound ==
    ASSUME NEW lib \in Libraries, Sound(lib), NEW S \in SUBSET Assets,
           \A a \in S : lib.status[a] # "absent"
    PROVE  Sign(lib, S) \in Libraries /\ Sound(Sign(lib, S))
BY SignType, SignKeeps DEF Sound

LEMMA OursIsSound ==
    ASSUME NEW lib \in Libraries, Sound(lib), NEW lax
    PROVE  Ours(lib, lax) \in Libraries /\ Sound(Ours(lib, lax))
<1>1. Due(lib, lax) \in SUBSET Assets /\ \A a \in Due(lib, lax) : lib.status[a] # "absent"
  BY StillsAreAssets, StillsSucceeded DEF Due
<1> QED BY <1>1, SignSound DEF Ours

LEMMA AfterIsSound ==
    ASSUME NEW lib \in Libraries, Sound(lib), NEW clips, NEW lax
    PROVE  After(lib, clips, lax) \in Libraries /\ Sound(After(lib, clips, lax))
<1>1. \A a \in Late(lib, clips, lax) : a \in Assets /\ lib.status[a] # "absent"
  BY DEF Late, UnsignedOnTimeline
<1> QED BY <1>1, SignSound DEF After

LEMMA HealIsSync ==
    ASSUME NEW lib \in Libraries, Sound(lib), NEW clips \in Seq(Clip), NEW lax \in BOOLEAN,
           NEW lasts \in [Scenes -> Nat]
    PROVE  LET h      == Heal(lib, clips, lax, lasts)
               ours   == Ours(lib, lax)
               synced == Sync(ours, clips, lax, lasts)
           IN  /\ h.clips = synced
               /\ h.lib = After(ours, synced, lax)
               /\ h.counted =>
                      \/ Due(lib, lax) # {} \/ Late(ours, synced, lax) # {}
                      \/ \E i \in DOMAIN synced :
                             synced[i].asset # IF i \in DOMAIN clips THEN clips[i].asset ELSE None
<1> DEFINE ours     == Ours(lib, lax)
           board    == Storyboard(ours, lax)
           synced   == Sync(ours, clips, lax, lasts)
           known    == {a \in Assets : Signed(lib, a)}
           new(i)   == Reconciled(ours, known, Rebound(ours, synced[i], board[i].scene, lax), lax)
           mended   == [i \in DOMAIN synced |-> new(i)]
           after    == After(ours, mended, lax)
           due      == Due(lib, lax) # {} \/ Late(ours, mended, lax) # {}
           moved(i) == (IF i \in DOMAIN clips THEN clips[i].asset ELSE None) # synced[i].asset
           h        == Heal(lib, clips, lax, lasts)
<1>1. /\ h.lib = after /\ h.clips = mended
      /\ h.counted <=> due \/ \E i \in DOMAIN synced : moved(i) \/ mended[i] # synced[i]
  BY DEF Heal, Ours, After, Due, Late
<1>2. ours \in Libraries /\ Sound(ours)
  BY OursIsSound
<1> HIDE DEF ours
<1>3. synced \in Seq(Clip) /\ DOMAIN synced = DOMAIN board
  BY <1>2, SyncType
<1>4. ASSUME NEW i \in DOMAIN synced PROVE new(i) = synced[i]
  <2>1. Fits(ours, synced[i].asset, lax) /\ board[i] \in Slots(ours, lax)
    BY <1>2, <1>3, SyncFits
  <2>2. synced[i] \in Clip /\ board[i].scene \in Scenes
    BY <1>3, <2>1 DEF Slots, Slot
  <2> HIDE DEF synced, board, known
  <2>3. Rebound(ours, synced[i], board[i].scene, lax) = synced[i]
        /\ Reconciled(ours, known, synced[i], lax) = synced[i]
    BY <1>2, <2>1, <2>2, FittingStays
  <2> QED BY <2>3
<1> HIDE DEF new
<1>5. mended = synced
  BY <1>3, <1>4
<1> HIDE DEF mended
<1>6. after = After(ours, synced, lax)
      /\ (due <=> Due(lib, lax) # {} \/ Late(ours, synced, lax) # {})
  BY <1>5
<1> HIDE DEF after, synced, due
<1>7. /\ h.clips = synced /\ h.lib = after
      /\ h.counted => due \/ \E i \in DOMAIN synced : moved(i)
  <2>1. \A i : mended[i] = synced[i]
    BY <1>5
  <2> HIDE DEF moved, h
  <2> QED BY <1>1, <1>5, <2>1, Zenon
<1> HIDE DEF h
<1>8. h.counted => \/ due
                   \/ \E i \in DOMAIN synced :
                          synced[i].asset # IF i \in DOMAIN clips THEN clips[i].asset ELSE None
  BY <1>7
<1> QED BY <1>6, <1>7, <1>8, Zenon DEF ours, synced, h

(* What such a repair still has to approve is alone in its scene, or in a  *)
(* bare project.                                                           *)
LEMMA FittingUnsigned ==
    ASSUME NEW lib \in Libraries, Sound(lib), NEW a \in Assets, Fits(lib, a, FALSE),
           ~Signed(lib, a), lib.status[a] = "succeeded", a \in lib.onDisk
    PROVE  /\ Ready(lib, a, TRUE)
           /\ SceneOf[a] \in Scenes =>
                  Own(lib, SceneOf[a], FALSE) = {} /\ a = ForScene(lib, SceneOf[a], FALSE)
           /\ Bare(lib, FALSE) =>
                  a = AnyVisual(lib, FALSE) /\ \A b \in Assets : ~Ready(lib, b, FALSE)
<1>1. Ready(lib, a, TRUE) /\ ~Ready(lib, a, FALSE)
  BY DEF Ready
<1>2. None \notin Assets
  BY RepairAssumption DEF None, Assets
<1>3. Bare(lib, FALSE) => AnyVisual(lib, FALSE) = a
  BY <1>1, <1>2, BareVisual DEF Fits, Bare
<1>4. Bare(lib, FALSE) => \A b \in Assets : ~Ready(lib, b, FALSE)
  BY <1>1, <1>3, BareVisual
<1>5. ASSUME SceneOf[a] \in Scenes
      PROVE  Own(lib, SceneOf[a], FALSE) = {} /\ a = ForScene(lib, SceneOf[a], FALSE)
  <2>1. a \in Own(lib, SceneOf[a], TRUE)
    BY <1>1 DEF Own
  <2>2. ForScene(lib, SceneOf[a], FALSE) # None
    BY <2>1, ForSceneIs
  <2>3. ~Bare(lib, FALSE)
    BY <1>5, <2>2 DEF Bare
  <2>4. PICK t \in Scenes : a = ForScene(lib, t, FALSE)
    BY <1>1, <2>3 DEF Fits
  <2>5. t = SceneOf[a]
    BY <1>2, <2>4, ForSceneIs
  <2>6. Own(lib, t, FALSE) # {} => a \in Own(lib, t, FALSE)
    BY <2>4, ForSceneIs
  <2>7. a \notin Own(lib, t, FALSE)
    BY <1>1 DEF Own
  <2> QED BY <2>4, <2>5, <2>6, <2>7
<1> QED BY <1>1, <1>3, <1>4, <1>5

(* The take of a scene depends on the rows of the scene only.              *)
LEMMA SameScene ==
    ASSUME NEW l, NEW k, NEW s, NEW lax \in BOOLEAN, k.status = l.status, k.onDisk = l.onDisk,
           \A a \in Assets : SceneOf[a] = s => k.rank[a] = l.rank[a]
    PROVE  ForScene(k, s, lax) = ForScene(l, s, lax)
<1>1. \A kind : Takes(k, s, kind) = Takes(l, s, kind)
  BY DEF Takes
<1>2. \A a \in Assets : SceneOf[a] = s =>
          (Signed(k, a) <=> Signed(l, a)) /\ \A b : Ready(k, a, b) <=> Ready(l, a, b)
  BY DEF Signed, Ready
<1>3. \A kind, a : a \in Takes(l, s, kind) => a \in Assets /\ SceneOf[a] = s
  BY DEF Takes
<1>4. ASSUME NEW S \in SUBSET {a \in Assets : SceneOf[a] = s}
      PROVE  BestImage(k, S) = BestImage(l, S)
  <2> DEFINE T == {a \in S : Signed(l, a)}
  <2>1. {a \in S : Signed(k, a)} = T
    BY <1>2
  <2>2. \A a \in T : k.rank[a] = l.rank[a]
    OBVIOUS
  <2>3. BestImage(k, S) = IF T # {} THEN CHOOSE a \in T : \A b \in T : k.rank[b] <= k.rank[a]
                          ELSE NewestOf(S)
    <3> DEFINE K == {a \in S : Signed(k, a)}
    <3>1. BestImage(k, S) = IF K # {} THEN CHOOSE a \in K : \A b \in K : k.rank[b] <= k.rank[a]
                            ELSE NewestOf(S)
      BY Zenon DEF BestImage
    <3>2. K = T
      BY <2>1
    <3> HIDE DEF K, T
    <3> QED BY <3>1, <3>2
  <2>4. BestImage(l, S) = IF T # {} THEN CHOOSE a \in T : \A b \in T : l.rank[b] <= l.rank[a]
                          ELSE NewestOf(S)
    BY Zenon DEF BestImage
  <2> HIDE DEF T
  <2>5. (CHOOSE a \in T : \A b \in T : k.rank[b] <= k.rank[a])
            = (CHOOSE a \in T : \A b \in T : l.rank[b] <= l.rank[a])
    BY <2>2, Zenon
  <2>6. CASE T = {}
    BY <2>3, <2>4, <2>6
  <2>7. CASE T # {}
    BY <2>3, <2>4, <2>5, <2>7
  <2> QED BY <2>6, <2>7
<1>5. ASSUME NEW b PROVE Primary(k, s, b) = Primary(l, s, b)
  <2> DEFINE fit(kind) == {a \in Takes(l, s, kind) : Ready(l, a, b)}
  <2>1. \A kind : {a \in Takes(k, s, kind) : Ready(k, a, b)} = fit(kind)
    BY <1>1, <1>2, <1>3
  <2>2. fit("image") \in SUBSET {a \in Assets : SceneOf[a] = s}
    BY <1>3
  <2>3. Primary(k, s, b) = FirstVideo(fit("video")) ?? BestImage(k, fit("image"))
    BY <2>1, Zenon DEF Primary
  <2>4. Primary(l, s, b) = FirstVideo(fit("video")) ?? BestImage(l, fit("image"))
    BY Zenon DEF Primary
  <2> HIDE DEF fit
  <2> QED BY <1>4, <2>2, <2>3, <2>4
<1>6. RowsOnly(k, s) = RowsOnly(l, s)
  <2> DEFINE done(kind) == {a \in Takes(l, s, kind) : l.status[a] = "succeeded"}
             both(kind) == {a \in done(kind) : Signed(l, a)}
  <2>1. \A kind : /\ {a \in Takes(k, s, kind) : k.status[a] = "succeeded"} = done(kind)
                  /\ {a \in done(kind) : Signed(k, a)} = both(kind)
    BY <1>1, <1>2, <1>3
  <2>2. \A kind : /\ done(kind) \in SUBSET {a \in Assets : SceneOf[a] = s}
                  /\ both(kind) \in SUBSET {a \in Assets : SceneOf[a] = s}
    BY <1>3
  <2>3. RowsOnly(k, s) = (FirstVideo(both("video")) ?? BestImage(k, both("image")))
                             ?? (FirstVideo(done("video")) ?? BestImage(k, done("image")))
    BY <2>1, Zenon DEF RowsOnly
  <2>4. RowsOnly(l, s) = (FirstVideo(both("video")) ?? BestImage(l, both("image")))
                             ?? (FirstVideo(done("video")) ?? BestImage(l, done("image")))
    BY Zenon DEF RowsOnly
  <2> HIDE DEF done, both
  <2> QED BY <1>4, <2>2, <2>3, <2>4
<1>7. ForScene(k, s, lax) = (Primary(k, s, lax) ?? Primary(k, s, TRUE)) ?? RowsOnly(k, s)
  BY Zenon DEF ForScene
<1>8. ForScene(l, s, lax) = (Primary(l, s, lax) ?? Primary(l, s, TRUE)) ?? RowsOnly(l, s)
  BY Zenon DEF ForScene
<1>9. Primary(k, s, lax) = Primary(l, s, lax) /\ Primary(k, s, TRUE) = Primary(l, s, TRUE)
  BY <1>5
<1> QED BY <1>6, <1>7, <1>8, <1>9

(* Approving what the clips show changes no choice.                        *)
LEMMA ChoiceStands ==
    ASSUME NEW lib \in Libraries, Sound(lib), NEW S \in SUBSET Assets,
           \A a \in S : /\ Fits(lib, a, FALSE) /\ ~Signed(lib, a)
                        /\ lib.status[a] = "succeeded" /\ a \in lib.onDisk
    PROVE  /\ \A t \in Scenes : ForScene(Sign(lib, S), t, FALSE) = ForScene(lib, t, FALSE)
           /\ Bare(lib, FALSE) => AnyVisual(Sign(lib, S), FALSE) = AnyVisual(lib, FALSE)
           /\ \A t \in Scenes : Substitute(Sign(lib, S), t, FALSE) = Substitute(lib, t, FALSE)
<1> DEFINE after == Sign(lib, S)
<1>1. /\ after \in Libraries /\ Sound(after)
      /\ after.status = lib.status /\ after.onDisk = lib.onDisk
      /\ \A a \in Assets : Signed(after, a) <=> Signed(lib, a) \/ a \in S
      /\ \A a \in Assets \ S : after.rank[a] = lib.rank[a]
  <2>1. after.status = lib.status /\ after.onDisk = lib.onDisk
    BY DEF Sign
  <2> QED BY <2>1, SignType, SignSound
<1> HIDE DEF after
<1>2. \A a \in Assets : Ready(after, a, FALSE) <=> Ready(lib, a, FALSE) \/ a \in S
  BY <1>1 DEF Ready
<1>3. \A a \in S : /\ SceneOf[a] \in Scenes =>
                          Own(lib, SceneOf[a], FALSE) = {} /\ a = ForScene(lib, SceneOf[a], FALSE)
                   /\ Bare(lib, FALSE) =>
                          a = AnyVisual(lib, FALSE) /\ \A b \in Assets : ~Ready(lib, b, FALSE)
  BY FittingUnsigned
<1>4. ASSUME NEW t \in Scenes PROVE ForScene(after, t, FALSE) = ForScene(lib, t, FALSE)
  <2>1. CASE \A a \in S : SceneOf[a] # t
    <3>1. \A a \in Assets : SceneOf[a] = t => after.rank[a] = lib.rank[a]
      BY <1>1, <2>1
    <3> QED BY <1>1, <3>1, SameScene
  <2>2. ASSUME NEW a \in S, SceneOf[a] = t PROVE ForScene(after, t, FALSE) = a
    <3>1. Own(lib, t, FALSE) = {} /\ \A b \in S : SceneOf[b] = t => b = a
      BY <1>3, <2>2
    <3>2. Own(after, t, FALSE) = {a}
      <4>1. Own(lib, t, FALSE) = {b \in Assets : SceneOf[b] = t /\ Ready(lib, b, FALSE)}
        BY OwnIsReady
      <4>2. Own(after, t, FALSE) = {b \in Assets : SceneOf[b] = t /\ Ready(after, b, FALSE)}
        BY <1>1, OwnIsReady
      <4> QED BY <1>2, <2>2, <3>1, <4>1, <4>2
    <3> QED BY <1>1, <3>2, ForSceneIs
  <2> QED BY <1>3, <2>1, <2>2
<1>5. ASSUME Bare(lib, FALSE) PROVE AnyVisual(after, FALSE) = AnyVisual(lib, FALSE)
  <2>1. CASE S = {}
    <3>1. after.rank = lib.rank
      BY <1>1, <2>1 DEF Libraries
    <3>2. \A a, l : Ready(after, a, l) <=> Ready(lib, a, l)
      BY <1>1, <3>1 DEF Ready, Signed
    <3> QED BY <3>2, Zenon DEF AnyVisual
  <2>2. ASSUME NEW a \in S PROVE AnyVisual(after, FALSE) = a
    <3> DEFINE fit(kind) == {b \in Assets : KindOf[b] = kind /\ Ready(after, b, FALSE)}
               first     == NewestOf(fit("video")) ?? NewestOf(fit("image"))
    <3>1. \A b \in Assets : Ready(after, b, FALSE) <=> b = a
      BY <1>2, <1>3, <1>5
    <3>2. AnyVisual(after, FALSE) =
              first ?? (NewestOf({b \in Assets : KindOf[b] = "video" /\ Ready(after, b, TRUE)})
                            ?? NewestOf({b \in Assets : KindOf[b] = "image" /\ Ready(after, b, TRUE)}))
      BY Zenon DEF AnyVisual
    <3>3. fit("video") \in SUBSET {a} /\ fit("image") \in SUBSET {a} /\ a \in fit("video") \cup fit("image")
      BY <3>1, RepairAssumption
    <3>4. fit("video") \in SUBSET Assets /\ fit("image") \in SUBSET Assets
      OBVIOUS
    <3> HIDE DEF fit
    <3>5. first = a
      <4>1. \A T \in SUBSET {a} : T \in SUBSET Assets =>
                NewestOf(T) \in T \cup {None} /\ (NewestOf(T) = None <=> T = {})
        BY NewestOfPick
      <4> QED BY <3>3, <3>4, <4>1 DEF ??
    <3>6. a # None
      BY RepairAssumption DEF None, Assets
    <3> HIDE DEF first
    <3> QED BY <3>2, <3>5, <3>6 DEF ??
  <2>3. \A a \in S : a = AnyVisual(lib, FALSE)
    BY <1>3, <1>5
  <2> QED BY <2>1, <2>2, <2>3
<1>6. ASSUME NEW s \in Scenes PROVE Substitute(after, s, FALSE) = Substitute(lib, s, FALSE)
  <2> DEFINE others == {t \in Scenes : ForScene(lib, t, FALSE) # None}
  <2>1. {t \in Scenes : ForScene(after, t, FALSE) # None} = others
    BY <1>4
  <2>2. Scan(after, s, FALSE) = ForScene(after, s, FALSE)
            ?? (IF others = {} THEN None ELSE ForScene(after, Oldest(others), FALSE))
    BY <2>1, Zenon DEF Scan
  <2>3. Scan(lib, s, FALSE) = ForScene(lib, s, FALSE)
            ?? (IF others = {} THEN None ELSE ForScene(lib, Oldest(others), FALSE))
    BY Zenon DEF Scan
  <2>4. others # {} => Oldest(others) \in Scenes
    <3>1. others \in SUBSET Nat
      <4>1. Scenes \in SUBSET Nat
        BY RepairAssumption DEF Scenes
      <4> QED BY <4>1
    <3>2. others # {} => Oldest(others) \in others
      BY <3>1, OldestIsOne
    <3> QED BY <3>2
  <2> HIDE DEF others
  <2>5. Scan(after, s, FALSE) = Scan(lib, s, FALSE)
    <3>1. ForScene(after, s, FALSE) = ForScene(lib, s, FALSE)
      BY <1>4
    <3>2. others # {} => ForScene(after, Oldest(others), FALSE) = ForScene(lib, Oldest(others), FALSE)
      BY <1>4, <2>4
    <3>3. CASE others = {}
      BY <2>2, <2>3, <3>1, <3>3
    <3>4. CASE others # {}
      BY <2>2, <2>3, <3>1, <3>2, <3>4
    <3> QED BY <3>3, <3>4
  <2>6. Scan(lib, s, FALSE) = None => Bare(lib, FALSE)
    BY ScanPick DEF Bare
  <2> QED BY <1>5, <2>5, <2>6 DEF Substitute, ??
<1> QED BY <1>4, <1>5, <1>6 DEF after

(* One slot becomes another when it is for the same scene and names the    *)
(* same take, or now that which the scene would have got anyway.           *)
Follows(lib, x, y) ==
    /\ y.scene = x.scene
    /\ \/ y.fixed = x.fixed
       \/ x.fixed = None /\ y.fixed = ForScene(lib, x.scene, FALSE) /\ y.fixed # None

LEMMA FlattenFollows ==
    ASSUME NEW lib, NEW p \in Seq(Seq(Slot)), NEW q \in Seq(Seq(Slot)), Len(q) = Len(p),
           \A k \in 1..Len(p) :
               Len(q[k]) = Len(p[k]) /\ \A i \in 1..Len(p[k]) : Follows(lib, p[k][i], q[k][i])
    PROVE  /\ Len(FlattenSeq(q)) = Len(FlattenSeq(p))
           /\ \A i \in 1..Len(FlattenSeq(p)) : Follows(lib, FlattenSeq(p)[i], FlattenSeq(q)[i])
<1> DEFINE P(k)   == Flattening(p)[k]
           Q(k)   == Flattening(q)[k]
           Has(k) == /\ P(k) \in Seq(Slot) /\ Q(k) \in Seq(Slot) /\ Len(Q(k)) = Len(P(k))
                     /\ \A i \in 1..Len(P(k)) : Follows(lib, P(k)[i], Q(k)[i])
           Bad    == {k \in 1..Len(p) : ~Has(k)}
<1>a. /\ Len(p) \in Nat /\ \A k \in 1..Len(p) : p[k] \in Seq(Slot)
      /\ Len(q) \in Nat /\ \A k \in 1..Len(p) : q[k] \in Seq(Slot)
  OBVIOUS
<1>1. Bad = {}
  <2> SUFFICES ASSUME Bad # {} PROVE FALSE
    OBVIOUS
  <2>1. PICK k \in Bad : \A m \in Bad : k <= m
    <3>1. Bad \in SUBSET Nat
      OBVIOUS
    <3> HIDE DEF Bad
    <3> QED BY <3>1, LeastExists
  <2>2. k \in 1..Len(p) /\ ~Has(k)
    OBVIOUS
  <2>3. /\ P(k) = IF k = 1 THEN p[k] ELSE P(k - 1) \o p[k]
        /\ Q(k) = IF k = 1 THEN q[k] ELSE Q(k - 1) \o q[k]
    BY <1>a, <2>2, FlatteningUnfolds
  <2>4. /\ p[k] \in Seq(Slot) /\ q[k] \in Seq(Slot) /\ Len(q[k]) = Len(p[k])
        /\ \A i \in 1..Len(p[k]) : Follows(lib, p[k][i], q[k][i])
    BY <1>a, <2>2
  <2>5. k # 1
    <3> HIDE DEF P, Q
    <3> QED BY <2>2, <2>3, <2>4
  <2>6. k - 1 \in 1..Len(p) /\ ~(k <= k - 1)
    BY <1>a, <2>2, <2>5
  <2>7. Has(k - 1)
    BY <2>1, <2>6
  <2> HIDE DEF Bad
  <2> DEFINE a == P(k - 1)
             b == Q(k - 1)
             c == p[k]
             d == q[k]
  <2>8. /\ a \in Seq(Slot) /\ b \in Seq(Slot) /\ c \in Seq(Slot) /\ d \in Seq(Slot)
        /\ Len(b) = Len(a) /\ Len(d) = Len(c)
    BY <2>4, <2>7
  <2>8a. /\ \A i \in 1..Len(a) : Follows(lib, a[i], b[i])
         /\ \A i \in 1..Len(c) : Follows(lib, c[i], d[i])
    BY <2>4, <2>7
  <2>9. P(k) = a \o c /\ Q(k) = b \o d
    BY <2>3, <2>5
  <2> HIDE DEF a, b, c, d, P, Q
  <2>10. /\ a \o c \in Seq(Slot) /\ b \o d \in Seq(Slot)
         /\ Len(a \o c) = Len(a) + Len(c) /\ Len(b \o d) = Len(a) + Len(c)
    <3>1. \A x, y \in Seq(Slot) : x \o y \in Seq(Slot) /\ Len(x \o y) = Len(x) + Len(y)
      OBVIOUS
    <3> QED BY <2>8, <3>1
  <2>11. ASSUME NEW i \in 1..(Len(a) + Len(c)) PROVE Follows(lib, (a \o c)[i], (b \o d)[i])
    <3>0. Len(a) \in Nat /\ Len(c) \in Nat /\ i \in Int
      BY <2>8
    <3>1. CASE i <= Len(a)
      <4>1. (a \o c)[i] = a[i] /\ (b \o d)[i] = b[i] /\ i \in 1..Len(a)
        BY <2>8, <3>0, <3>1
      <4> QED BY <2>8a, <4>1
    <3>2. CASE i > Len(a)
      <4>1. /\ (a \o c)[i] = c[i - Len(a)] /\ (b \o d)[i] = d[i - Len(a)]
            /\ i - Len(a) \in 1..Len(c)
        BY <2>8, <3>0, <3>2
      <4> QED BY <2>8a, <4>1
    <3>3. i <= Len(a) \/ i > Len(a)
      BY <3>0
    <3> QED BY <3>1, <3>2, <3>3, Zenon
  <2> QED BY <2>2, <2>9, <2>10, <2>11
<1>2. CASE Len(p) = 0
  <2>1. FlattenSeq(p) = <<>> /\ FlattenSeq(q) = <<>>
    <3>1. FlattenSeq(p) = p /\ FlattenSeq(q) = q
      BY <1>2, Zenon DEF FlattenSeq
    <3>2. p = <<>> /\ q = <<>>
      BY <1>2
    <3> QED BY <3>1, <3>2
  <2> QED BY <2>1
<1>3. CASE Len(p) # 0
  <2>0. Len(p) \in 1..Len(p)
    BY <1>a, <1>3
  <2>1. Has(Len(p))
    BY <1>1, <2>0, Zenon
  <2>2. FlattenSeq(p) = P(Len(p)) /\ FlattenSeq(q) = Q(Len(p))
    BY <1>3, FlattenIs
  <2> HIDE DEF P, Q
  <2> QED BY <2>1, <2>2
<1> QED BY <1>2, <1>3

LEMMA BoardStands ==
    ASSUME NEW lib \in Libraries, Sound(lib), NEW S \in SUBSET Assets,
           \A a \in S : /\ Fits(lib, a, FALSE) /\ ~Signed(lib, a)
                        /\ lib.status[a] = "succeeded" /\ a \in lib.onDisk
    PROVE  LET before == Storyboard(lib, FALSE)
               after  == Storyboard(Sign(lib, S), FALSE)
           IN  DOMAIN after = DOMAIN before /\ \A i \in DOMAIN before : Follows(lib, before[i], after[i])
<1> DEFINE fit(l, s)  == {a \in Assets : SceneOf[a] = s /\ Ready(l, a, FALSE)}
           one(s)     == <<[scene |-> s, fixed |-> None]>>
           each(F, s) == LET order == InOrder(F)
                         IN  [i \in DOMAIN order |-> [scene |-> s, fixed |-> order[i]]]
           part(F, s) == IF UseAll /\ F # {} THEN each(F, s) ELSE one(s)
           parts(l)   == [s \in Scenes |-> part(fit(l, s), s)]
           after      == Sign(lib, S)
<1>1. Storyboard(lib, FALSE) = FlattenSeq(parts(lib)) /\ Storyboard(after, FALSE) = FlattenSeq(parts(after))
  BY Zenon DEF Storyboard
<1>2. \A a \in Assets : Ready(after, a, FALSE) <=> Ready(lib, a, FALSE) \/ a \in S
  <2>1. after.onDisk = lib.onDisk
    BY DEF Sign
  <2> QED BY <2>1, SignType DEF Ready
<1>3. ASSUME NEW F \in SUBSET Assets, NEW s \in Scenes
      PROVE  /\ part(F, s) \in Seq(Slot)
             /\ \A i \in 1..Len(part(F, s)) : Follows(lib, part(F, s)[i], part(F, s)[i])
  <2> DEFINE n == Cardinality(F)
  <2>1. InOrder(F) \in [1..n -> F] /\ n \in Nat
    BY InOrderExists, AssetsAreFinite
  <2> HIDE DEF n
  <2>2. each(F, s) \in [1..n -> Slot]
    BY <2>1 DEF Slot, Pick
  <2>3. one(s) \in Seq(Slot)
    BY DEF Slot, Pick
  <2> HIDE DEF each, one
  <2> QED BY <2>1, <2>2, <2>3 DEF Follows
<1>4. ASSUME NEW s \in Scenes
      PROVE  /\ Len(part(fit(after, s), s)) = Len(part(fit(lib, s), s))
             /\ \A i \in 1..Len(part(fit(lib, s), s)) :
                    Follows(lib, part(fit(lib, s), s)[i], part(fit(after, s), s)[i])
  <2>1. CASE \A a \in S : SceneOf[a] # s
    <3>1. fit(after, s) = fit(lib, s)
      BY <1>2, <2>1
    <3> HIDE DEF fit, part
    <3> QED BY <3>1, <1>3 DEF fit
  <2>2. ASSUME NEW a \in S, SceneOf[a] = s
        PROVE  /\ Len(part(fit(after, s), s)) = Len(part(fit(lib, s), s))
               /\ \A i \in 1..Len(part(fit(lib, s), s)) :
                      Follows(lib, part(fit(lib, s), s)[i], part(fit(after, s), s)[i])
    <3>1. /\ Own(lib, s, FALSE) = {} /\ a = ForScene(lib, s, FALSE)
          /\ \A b \in S : SceneOf[b] = s => b = a
      <4>1. \A b \in S : SceneOf[b] \in Scenes =>
                Own(lib, SceneOf[b], FALSE) = {} /\ b = ForScene(lib, SceneOf[b], FALSE)
        BY FittingUnsigned
      <4> QED BY <2>2, <4>1
    <3>2. fit(lib, s) = {}
      BY <3>1, OwnIsReady
    <3>3. fit(after, s) = {a}
      BY <1>2, <2>2, <3>1, <3>2
    <3> HIDE DEF fit
    <3>4. each({a}, s) = <<[scene |-> s, fixed |-> a]>>
      <4>1. Cardinality({a}) = 1
        BY FS_Singleton
      <4>2. InOrder({a}) \in [1..1 -> {a}]
        BY <4>1, InOrderExists
      <4> QED BY <4>2
    <3>5. part(fit(lib, s), s) = one(s) /\ part(fit(after, s), s) \in {one(s), <<[scene |-> s, fixed |-> a]>>}
      BY <3>2, <3>3, <3>4
    <3>6. a # None
      BY RepairAssumption DEF None, Assets
    <3>7. CASE part(fit(after, s), s) = one(s)
      BY <3>5, <3>7 DEF Follows
    <3>8. CASE part(fit(after, s), s) = <<[scene |-> s, fixed |-> a]>>
      <4>1. Follows(lib, [scene |-> s, fixed |-> None], [scene |-> s, fixed |-> a])
        BY <3>1, <3>6 DEF Follows
      <4> HIDE DEF part
      <4> QED BY <3>5, <3>8, <4>1
    <3> QED BY <3>5, <3>7, <3>8
  <2> QED BY <2>1, <2>2
<1>5. \A l, s : fit(l, s) \in SUBSET Assets
  OBVIOUS
<1> HIDE DEF part, fit
<1>6. parts(lib) \in Seq(Seq(Slot)) /\ parts(after) \in Seq(Seq(Slot)) /\ Len(parts(lib)) = NScenes
      /\ Len(parts(after)) = NScenes /\ 1..NScenes = Scenes
  <2>1. parts(lib) \in [1..NScenes -> Seq(Slot)] /\ parts(after) \in [1..NScenes -> Seq(Slot)]
    BY <1>3, <1>5 DEF Scenes
  <2>2. NScenes \in Nat
    BY RepairAssumption
  <2>3. \A f \in [1..NScenes -> Seq(Slot)] : f \in Seq(Seq(Slot)) /\ Len(f) = NScenes
    BY <2>2
  <2> HIDE DEF parts
  <2> QED BY <2>1, <2>3 DEF Scenes
<1>7. \A k \in 1..Len(parts(lib)) :
          /\ Len(parts(after)[k]) = Len(parts(lib)[k])
          /\ \A i \in 1..Len(parts(lib)[k]) : Follows(lib, parts(lib)[k][i], parts(after)[k][i])
  BY <1>4, <1>6
<1> HIDE DEF parts
<1> DEFINE old == Storyboard(lib, FALSE)
           new == Storyboard(after, FALSE)
<1>8. old \in Seq(Slots(lib, FALSE)) /\ new \in Seq(Slots(after, FALSE))
  BY StoryboardType, Zenon
<1>9. old = FlattenSeq(parts(lib)) /\ new = FlattenSeq(parts(after))
  BY <1>1, Zenon
<1> DEFINE p == parts(lib)
           q == parts(after)
<1>10. /\ p \in Seq(Seq(Slot)) /\ q \in Seq(Seq(Slot)) /\ Len(q) = Len(p)
       /\ \A k \in 1..Len(p) : /\ Len(q[k]) = Len(p[k])
                                 /\ \A i \in 1..Len(p[k]) : Follows(lib, p[k][i], q[k][i])
  BY <1>6, <1>7
<1> HIDE DEF p, q
<1>11. /\ Len(FlattenSeq(q)) = Len(FlattenSeq(p))
       /\ \A i \in 1..Len(FlattenSeq(p)) : Follows(lib, FlattenSeq(p)[i], FlattenSeq(q)[i])
  BY <1>10, FlattenFollows
<1> HIDE DEF old, new
<1>12. DOMAIN old = 1..Len(old) /\ DOMAIN new = 1..Len(new)
  <2>1. \A T : \A x \in Seq(T) : DOMAIN x = 1..Len(x)
    OBVIOUS
  <2> QED BY <1>8, <2>1, Zenon
<1>13. DOMAIN new = DOMAIN old /\ \A i \in DOMAIN old : Follows(lib, old[i], new[i])
  BY <1>9, <1>11, <1>12, Zenon DEF p, q
<1> QED BY <1>13, Zenon DEF old, new, after

(* Once the stills are approved none is left to approve.                   *)
LEMMA NoMoreStills ==
    ASSUME NEW lib, NEW k, k.status = lib.status, k.onDisk = lib.onDisk,
           \A a \in Assets : Signed(lib, a) \/ a \in UnsignedStills(lib) => Signed(k, a)
    PROVE  UnsignedStills(k) = {}
<1> DEFINE done(s) == {a \in Takes(lib, s, "image") : lib.status[a] = "succeeded"}
           open(l) == {s \in Scenes : /\ \A a \in done(s) : ~Signed(l, a)
                                      /\ done(s) \cap lib.onDisk # {}}
<1>1. UnsignedStills(lib) = {Newest(done(s) \cap lib.onDisk) : s \in open(lib)}
  BY Zenon DEF UnsignedStills
<1>2. UnsignedStills(k) = {Newest(done(s) \cap lib.onDisk) : s \in open(k)}
  <2>1. \A s : {a \in Takes(k, s, "image") : k.status[a] = "succeeded"} = done(s)
    BY DEF Takes
  <2> HIDE DEF done
  <2>2. UnsignedStills(k) = {Newest(done(s) \cap k.onDisk) :
            s \in {t \in Scenes : /\ \A a \in done(t) : ~Signed(k, a)
                                  /\ done(t) \cap k.onDisk # {}}}
    BY <2>1 DEF UnsignedStills
  <2> QED BY <2>2
<1>3. \A s : done(s) \in SUBSET Assets
  BY DEF Takes
<1> HIDE DEF done
<1>4. ASSUME NEW s \in open(k) PROVE FALSE
  <2>1. s \in open(lib) /\ done(s) \cap lib.onDisk # {}
    BY <1>3
  <2>2. Newest(done(s) \cap lib.onDisk) \in done(s) \cap lib.onDisk
    BY <1>3, <2>1, NewestIsOne
  <2>3. Newest(done(s) \cap lib.onDisk) \in UnsignedStills(lib)
    BY <1>1, <2>1
  <2> QED BY <1>3, <2>2, <2>3
<1> HIDE DEF open
<1> QED BY <1>2, <1>4

(* Where every slot gets the same take, following the storyboard again     *)
(* changes nothing.                                                        *)
LEMMA SyncAgain ==
    ASSUME NEW l, NEW k, NEW clips, NEW lax, NEW lasts, NEW later,
           DOMAIN Storyboard(k, lax) = DOMAIN Storyboard(l, lax),
           \A i \in DOMAIN Storyboard(l, lax) :
               Storyboard(k, lax)[i].fixed ?? Substitute(k, Storyboard(k, lax)[i].scene, lax)
               = Storyboard(l, lax)[i].fixed ?? Substitute(l, Storyboard(l, lax)[i].scene, lax)
    PROVE  Sync(k, Sync(l, clips, lax, lasts), lax, later) = Sync(l, clips, lax, lasts)
<1> DEFINE old     == Storyboard(l, lax)
           new     == Storyboard(k, lax)
           was(i)  == IF i \in DOMAIN clips THEN clips[i]
                      ELSE [asset |-> None, dur |-> lasts[old[i].scene]]
           pick(i) == old[i].fixed ?? Substitute(l, old[i].scene, lax)
           this(i) == new[i].fixed ?? Substitute(k, new[i].scene, lax)
           synced  == Sync(l, clips, lax, lasts)
<1>1. synced = [i \in DOMAIN old |-> [was(i) EXCEPT !.asset = pick(i) ?? @]]
  BY DEF Sync
<1>2. Sync(k, synced, lax, later) =
          [i \in DOMAIN new |->
              [IF i \in DOMAIN synced THEN synced[i] ELSE [asset |-> None, dur |-> later[new[i].scene]]
                  EXCEPT !.asset = this(i) ?? @]]
  <2> HIDE DEF synced
  <2> QED BY DEF Sync
<1>3. DOMAIN new = DOMAIN old /\ \A i \in DOMAIN old : this(i) = pick(i)
  OBVIOUS
<1> HIDE DEF old, new, was, pick, this, synced
<1>4. \A i \in DOMAIN old : [synced[i] EXCEPT !.asset = pick(i) ?? @] = synced[i]
  BY <1>1 DEF ??
<1>5. Sync(k, synced, lax, later) = [i \in DOMAIN old |-> [synced[i] EXCEPT !.asset = pick(i) ?? @]]
  BY <1>1, <1>2, <1>3
<1>6. Sync(k, synced, lax, later) = [i \in DOMAIN old |-> synced[i]]
  BY <1>4, <1>5
<1>7. synced = [i \in DOMAIN old |-> synced[i]]
  BY <1>1
<1> QED BY <1>6, <1>7 DEF synced

LEMMA SlotsStand ==
    ASSUME NEW lib \in Libraries, Sound(lib), NEW S \in SUBSET Assets,
           \A a \in S : /\ Fits(lib, a, FALSE) /\ ~Signed(lib, a)
                        /\ lib.status[a] = "succeeded" /\ a \in lib.onDisk
    PROVE  LET k == Sign(lib, S)
           IN  /\ DOMAIN Storyboard(k, FALSE) = DOMAIN Storyboard(lib, FALSE)
               /\ \A i \in DOMAIN Storyboard(lib, FALSE) :
                      Storyboard(k, FALSE)[i].fixed ?? Substitute(k, Storyboard(k, FALSE)[i].scene, FALSE)
                      = Storyboard(lib, FALSE)[i].fixed
                            ?? Substitute(lib, Storyboard(lib, FALSE)[i].scene, FALSE)
<1> DEFINE k   == Sign(lib, S)
           old == Storyboard(lib, FALSE)
           new == Storyboard(k, FALSE)
<1>1. DOMAIN new = DOMAIN old /\ \A i \in DOMAIN old : Follows(lib, old[i], new[i])
  BY BoardStands
<1>2. \A t \in Scenes : Substitute(k, t, FALSE) = Substitute(lib, t, FALSE)
  BY ChoiceStands
<1>3. \A i \in DOMAIN old : old[i] \in Slot
  <2>1. old \in Seq(Slots(lib, FALSE))
    BY StoryboardType, Zenon
  <2>2. \A T : \A x \in Seq(T) : \A i \in DOMAIN x : x[i] \in T
    OBVIOUS
  <2>3. Slots(lib, FALSE) \in SUBSET Slot
    BY DEF Slots
  <2> HIDE DEF old
  <2> QED BY <2>1, <2>2, <2>3, Zenon
<1> HIDE DEF k, old, new
<1>4. ASSUME NEW i \in DOMAIN old
      PROVE  new[i].fixed ?? Substitute(k, new[i].scene, FALSE)
             = old[i].fixed ?? Substitute(lib, old[i].scene, FALSE)
  <2>1. new[i].scene = old[i].scene /\ old[i].scene \in Scenes
    BY <1>1, <1>3 DEF Follows, Slot
  <2>2. Substitute(k, new[i].scene, FALSE) = Substitute(lib, old[i].scene, FALSE)
    BY <1>2, <2>1
  <2>3. CASE new[i].fixed = old[i].fixed
    BY <2>2, <2>3
  <2>4. CASE /\ old[i].fixed = None /\ new[i].fixed = ForScene(lib, old[i].scene, FALSE)
             /\ new[i].fixed # None
    <3>1. Substitute(lib, old[i].scene, FALSE) = ForScene(lib, old[i].scene, FALSE)
      BY <2>1, <2>4, SubstituteFits
    <3> QED BY <2>4, <3>1 DEF ??
  <2> QED BY <1>1, <2>3, <2>4 DEF Follows
<1> QED BY <1>1, <1>4, Zenon DEF k, old, new

(* A second repair finds nothing to do; and without the named takes of a   *)
(* storyboard every scene that has a ready take shows one of its own.      *)
THEOREM RepairIsStable ==
    ASSUME NEW lib \in Libraries, Sound(lib), NEW clips \in Seq(Clip), NEW lax \in BOOLEAN,
           NEW lasts \in [Scenes -> Nat], NEW later \in [Scenes -> Nat]
    PROVE  LET h     == Heal(lib, clips, lax, lasts)
               again == Heal(h.lib, h.clips, lax, later)
           IN  /\ ~again.counted /\ again.clips = h.clips /\ again.lib = h.lib
               /\ UseAll \/ \A s \in Scenes :
                      (\E a \in Assets : SceneOf[a] = s /\ Ready(h.lib, a, lax))
                          => SceneOf[again.clips[s].asset] = s
<1> DEFINE ours   == Ours(lib, lax)
           synced == Sync(ours, clips, lax, lasts)
           due    == UnsignedOnTimeline(ours, synced)
           k      == After(ours, synced, lax)
           h      == Heal(lib, clips, lax, lasts)
           again  == Heal(k, synced, lax, later)
           anew   == Sync(k, synced, lax, later)
<1>1. h.clips = synced /\ h.lib = k
  BY HealIsSync
<1>2. ours \in Libraries /\ Sound(ours)
  BY OursIsSound
<1> HIDE DEF ours
<1>3. k \in Libraries /\ Sound(k)
  BY <1>2, AfterIsSound
<1>4. synced \in Seq(Clip) /\ DOMAIN synced = DOMAIN Storyboard(ours, lax)
  BY <1>2, SyncType
<1>5. due \in SUBSET Assets /\ \A a \in due : /\ Fits(ours, a, lax) /\ ~Signed(ours, a)
                                             /\ ours.status[a] = "succeeded" /\ a \in ours.onDisk
  <2>1. \A i \in DOMAIN synced : Fits(ours, synced[i].asset, lax)
    BY <1>2, <1>4, SyncFits
  <2> HIDE DEF synced
  <2> QED BY <2>1 DEF UnsignedOnTimeline
<1>6. lax = FALSE => k = Sign(ours, due) /\ ours = Sign(lib, UnsignedStills(lib))
  BY DEF After, Ours, Due, Late, ours
<1>7. lax = TRUE => k = ours
  BY <1>2, SignNothing DEF After, Late
<1> HIDE DEF synced, k
<1>8. anew = synced
  <2>1. CASE lax = TRUE
    <3>1. Sync(ours, Sync(ours, clips, lax, lasts), lax, later) = Sync(ours, clips, lax, lasts)
      <4>1. DOMAIN Storyboard(ours, lax) = DOMAIN Storyboard(ours, lax)
            /\ \A i \in DOMAIN Storyboard(ours, lax) :
                   Storyboard(ours, lax)[i].fixed ?? Substitute(ours, Storyboard(ours, lax)[i].scene, lax)
                   = Storyboard(ours, lax)[i].fixed ?? Substitute(ours, Storyboard(ours, lax)[i].scene, lax)
        OBVIOUS
      <4> HIDE DEF ours
      <4> QED BY <4>1, SyncAgain
    <3> QED BY <1>7, <2>1, <3>1 DEF synced
  <2>2. CASE lax = FALSE
    <3>1. /\ DOMAIN Storyboard(k, lax) = DOMAIN Storyboard(ours, lax)
          /\ \A i \in DOMAIN Storyboard(ours, lax) :
                 Storyboard(k, lax)[i].fixed ?? Substitute(k, Storyboard(k, lax)[i].scene, lax)
                 = Storyboard(ours, lax)[i].fixed ?? Substitute(ours, Storyboard(ours, lax)[i].scene, lax)
      BY <1>2, <1>5, <1>6, <2>2, SlotsStand
    <3> QED BY <3>1, SyncAgain DEF synced
  <2> QED BY <2>1, <2>2
<1>9. Due(k, lax) = {} /\ Ours(k, lax) = k
  <2>1. CASE lax = TRUE
    BY <1>3, <2>1, SignNothing DEF Ours, Due
  <2>2. CASE lax = FALSE
    <3>1. k.status = lib.status /\ k.onDisk = lib.onDisk
      BY <1>6, <2>2 DEF Sign
    <3>2. \A a \in Assets : Signed(lib, a) \/ a \in UnsignedStills(lib) => Signed(ours, a)
      BY <1>6, <2>2, SignType, StillsAreAssets
    <3>3. \A a \in Assets : Signed(ours, a) => Signed(k, a)
      BY <1>2, <1>5, <1>6, <2>2, SignType
    <3>4. UnsignedStills(k) = {}
      BY <3>1, <3>2, <3>3, NoMoreStills
    <3> QED BY <1>3, <2>2, <3>4, SignNothing DEF Ours, Due
  <2> QED BY <2>1, <2>2
<1>10. Late(k, synced, lax) = {} /\ After(k, synced, lax) = k
  <2>1. CASE lax = TRUE
    BY <1>3, <2>1, SignNothing DEF After, Late
  <2>2. CASE lax = FALSE
    <3>1. k.status = ours.status /\ k.onDisk = ours.onDisk
      BY <1>6, <2>2 DEF Sign
    <3>2. \A a \in Assets : Signed(k, a) <=> Signed(ours, a) \/ a \in due
      BY <1>2, <1>5, <1>6, <2>2, SignType
    <3>3. UnsignedOnTimeline(k, synced) = {}
      BY <3>1, <3>2 DEF UnsignedOnTimeline
    <3> QED BY <1>3, <2>2, <3>3, SignNothing DEF After, Late
  <2> QED BY <2>1, <2>2
<1>11. again.clips = synced /\ again.lib = k /\ ~again.counted
  <2>1. /\ again.clips = Sync(Ours(k, lax), synced, lax, later)
        /\ again.lib = After(Ours(k, lax), Sync(Ours(k, lax), synced, lax, later), lax)
        /\ again.counted =>
               \/ Due(k, lax) # {} \/ Late(Ours(k, lax), Sync(Ours(k, lax), synced, lax, later), lax) # {}
               \/ \E i \in DOMAIN Sync(Ours(k, lax), synced, lax, later) :
                      Sync(Ours(k, lax), synced, lax, later)[i].asset
                          # IF i \in DOMAIN synced THEN synced[i].asset ELSE None
    BY <1>3, <1>4, HealIsSync
  <2> HIDE DEF again
  <2> QED BY <1>8, <1>9, <1>10, <2>1
<1>12. ASSUME ~UseAll, NEW s \in Scenes, NEW a \in Assets, SceneOf[a] = s, Ready(k, a, lax)
       PROVE  SceneOf[synced[s].asset] = s
  <2>1. a \in Own(k, s, lax)
    BY <1>3, <1>12, OwnIsReady
  <2>2. ForScene(k, s, lax) # None /\ SceneOf[ForScene(k, s, lax)] = s
    BY <1>3, <2>1, ForSceneIs
  <2>3. Substitute(k, s, lax) = ForScene(k, s, lax)
    BY <1>3, <2>2, SubstituteFits
  <2>4. Storyboard(k, lax) = [t \in Scenes |-> [scene |-> t, fixed |-> None]]
    BY <1>12, StoryboardOfScenes, Zenon
  <2>5. DOMAIN anew = Scenes /\ anew[s].asset = Substitute(k, s, lax)
    <3>1. anew[s] = [IF s \in DOMAIN synced THEN synced[s] ELSE [asset |-> None, dur |-> later[s]]
                        EXCEPT !.asset = (None ?? Substitute(k, s, lax)) ?? @]
          /\ DOMAIN anew = Scenes
      BY <2>4 DEF Sync
    <3>2. s \in DOMAIN synced /\ synced[s] \in Clip
      <4>1. s \in DOMAIN synced
        BY <1>8, <3>1
      <4>2. \A T : \A x \in Seq(T) : \A i \in DOMAIN x : x[i] \in T
        OBVIOUS
      <4> QED BY <1>4, <4>1, <4>2, Zenon
    <3> HIDE DEF anew
    <3> QED BY <2>2, <2>3, <3>1, <3>2 DEF ??, Clip
  <2> QED BY <1>8, <2>2, <2>3, <2>5
<1> HIDE DEF again, h
<1>13. h.clips = synced /\ h.lib = k /\ again = Heal(h.lib, h.clips, lax, later)
  BY <1>1 DEF again
<1> QED BY <1>11, <1>12, <1>13, Zenon DEF h

-----------------------------------------------------------------------------
(* A widened timeline shows the same.                                      *)
LEMMA WidenedShows ==
    ASSUME NEW clips \in Seq(Clip), NEW narration \in [Scenes -> Nat],
           \A i \in DOMAIN clips : clips[i].asset # None
    PROVE  /\ Widened(clips, narration) \in Seq(Clip)
           /\ Shows(Widened(clips, narration)) = Shows(clips)
<1> DEFINE scene(i) == SceneOf[clips[i].asset]
           leads(i) == scene(i) # 0 /\ \A j \in 1..(i - 1) : scene(j) # scene(i)
           needs(i) == IF leads(i) /\ narration[scene(i)] > 0 THEN narration[scene(i)] + VoicePad
                       ELSE 0
           held(i)  == IF needs(i) > clips[i].dur THEN needs(i) ELSE clips[i].dur
           last(i)  == IF i = Len(clips) THEN Outro ELSE 0
           wide     == Widened(clips, narration)
<1>1. wide = [i \in DOMAIN clips |-> [clips[i] EXCEPT !.dur = held(i) + last(i)]]
  BY DEF Widened
<1>2. /\ Len(clips) \in Nat /\ DOMAIN clips = 1..Len(clips)
      /\ \A i \in DOMAIN clips : clips[i] \in Clip
  OBVIOUS
<1>3. VoicePad \in Nat /\ Outro \in Nat /\ SceneOf \in [Assets -> Scenes \cup {0}]
  BY RepairAssumption
<1>4. ASSUME NEW i \in DOMAIN clips
      PROVE  held(i) + last(i) \in Nat
  <2>1. clips[i].dur \in Nat /\ clips[i].asset \in Assets
    BY <1>2 DEF Clip, Pick
  <2>2. scene(i) \in Scenes \cup {0}
    BY <1>3, <2>1
  <2> HIDE DEF scene
  <2>3. needs(i) \in Nat
    <3>1. CASE leads(i)
      <4>1. narration[scene(i)] \in Nat
        BY <2>2, <3>1
      <4> HIDE DEF leads
      <4> QED BY <1>3, <3>1, <4>1
    <3>2. CASE ~leads(i)
      BY <3>2
    <3> QED BY <3>1, <3>2
  <2> HIDE DEF needs
  <2> QED BY <1>3, <2>1, <2>3
<1> HIDE DEF held, last
<1>5. \A i \in DOMAIN clips : wide[i] \in Clip /\ wide[i].asset = clips[i].asset
  BY <1>1, <1>2, <1>4 DEF Clip
<1>6. DOMAIN wide = 1..Len(clips) /\ wide = [i \in 1..Len(clips) |-> wide[i]]
  BY <1>1, <1>2
<1> HIDE DEF wide
<1>7. wide \in Seq(Clip)
  BY <1>2, <1>5, <1>6
<1>8. Shows(wide) = Shows(clips)
  BY <1>2, <1>5, <1>6 DEF Shows
<1> QED BY <1>7, <1>8 DEF wide
=============================================================================
