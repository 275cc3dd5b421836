---------------------------- MODULE ServiceProofs ---------------------------
(* The components around the Task Executors, proved for every choice of the  *)
(* constants: the Fargate cluster, the KV Store Proxy, the schedule of       *)
(* update_graph and the bit counters.                                        *)
EXTENDS MCServices, FiniteSetTheorems, WellFoundedInduction, TLAPS

(* A sequence that has no element twice.                                     *)
Distinct(s) == \A i, j \in 1..Len(s) : s[i] = s[j] => i = j

(* What is true of some natural number is true of a least one.               *)
LEMMA LeastNat ==
    ASSUME NEW T, T \subseteq Nat, T # {}
    PROVE  \E x \in T : \A y \in T : x <= y
<1> DEFINE R == OpToRel(<, Nat)
<1>1. IsWellFoundedOn(R, Nat)
  BY NatLessThanWellFounded
<1>2. \A x, y \in Nat : <<x, y>> \in R <=> x < y
  BY DEF OpToRel
<1> HIDE DEF R
<1>3. PICK x \in T : \A y \in T : ~(<<y, x>> \in R)
  BY <1>1, WFMin
<1>4. ASSUME NEW y \in T
      PROVE  x <= y
  <2>1. x \in Nat /\ y \in Nat /\ ~(y < x)
    BY <1>2, <1>3
  <2> QED BY <2>1
<1> QED BY <1>4

(* FlattenSeq is defined by recursion: the recursive function exists.        *)
IsFlatten(f, seqs, n) ==
    f = [i \in 1..n |-> IF i = 1 THEN seqs[i] ELSE f[i - 1] \o seqs[i]]

LEMMA FlattenExists ==
    ASSUME NEW seqs, NEW n \in Nat
    PROVE  \E f : IsFlatten(f, seqs, n)
<1> DEFINE T == {m \in Nat : ~ \E f : IsFlatten(f, seqs, m)}
<1> SUFFICES ASSUME T # {} PROVE FALSE
  OBVIOUS
<1>1. PICK m \in T : \A k \in T : m <= k
  <2> HIDE DEF T
  <2>1. T \subseteq Nat
    BY DEF T
  <2> QED BY <2>1, LeastNat
<1>2. m # 0
  <2>1. IsFlatten([i \in 1..0 |-> {}], seqs, 0)
    BY DEF IsFlatten
  <2> QED BY <2>1, <1>1
<1>3. m - 1 \in Nat /\ m - 1 \notin T
  BY <1>1, <1>2
<1>4. PICK f : IsFlatten(f, seqs, m - 1)
  BY <1>3
<1> DEFINE last == IF m = 1 THEN seqs[m] ELSE f[m - 1] \o seqs[m]
           g == [i \in 1..m |-> IF i = m THEN last ELSE f[i]]
<1>5. ASSUME NEW i \in 1..m
      PROVE  g[i] = IF i = 1 THEN seqs[i] ELSE g[i - 1] \o seqs[i]
  <2>1. CASE i = m
    <3>1. m # 1 => m - 1 \in 1..m /\ g[m - 1] = f[m - 1]
      BY <1>1, <1>2
    <3> QED BY <2>1, <3>1
  <2>2. CASE i # m
    <3>1. i \in 1..(m - 1) /\ (i # 1 => i - 1 \in 1..m /\ i - 1 # m)
      BY <2>2, <1>1
    <3>2. f[i] = IF i = 1 THEN seqs[i] ELSE f[i - 1] \o seqs[i]
      BY <1>4, <3>1 DEF IsFlatten
    <3> QED BY <2>2, <3>1, <3>2
  <2> QED BY <2>1, <2>2
<1>6. g = [i \in 1..m |-> g[i]]
  OBVIOUS
<1>7. IsFlatten(g, seqs, m)
  <2> HIDE DEF g
  <2> QED BY <1>5, <1>6 DEF IsFlatten
<1> QED BY <1>7

LEMMA FlattenIs ==
    ASSUME NEW S, NEW seqs \in Seq(S), seqs # <<>>
    PROVE  \E f : IsFlatten(f, seqs, Len(seqs)) /\ FlattenSeq(seqs) = f[Len(seqs)]
<1> DEFINE n == Len(seqs)
           f == CHOOSE g : IsFlatten(g, seqs, n)
<1>1. n \in Nat /\ n # 0
  OBVIOUS
<1>2. FlattenSeq(seqs) = f[n]
  <2>1. FlattenSeq(seqs) = (CHOOSE g : g = [i \in 1..Len(seqs) |->
                IF i = 1 THEN seqs[i] ELSE g[i - 1] \o seqs[i]])[Len(seqs)]
    BY <1>1 DEF FlattenSeq
  <2> QED
    BY <2>1 DEF IsFlatten
<1>3. IsFlatten(f, seqs, n)
  BY <1>1, FlattenExists
<1> HIDE DEF f
<1> QED BY <1>2, <1>3

LEMMA ConcatIs ==
    ASSUME NEW S, NEW g \in Seq(S), NEW h \in Seq(S)
    PROVE  /\ g \o h \in Seq(S) /\ ToSet(g \o h) = ToSet(g) \cup ToSet(h)
           /\ Distinct(g \o h) <=> Distinct(g) /\ Distinct(h) /\ ToSet(g) \cap ToSet(h) = {}
<1> DEFINE m == Len(g)
           n == Len(h)
           z == g \o h
<1>1. /\ m \in Nat /\ n \in Nat /\ z \in Seq(S) /\ Len(z) = m + n
      /\ (\A i \in 1..m : z[i] = g[i]) /\ (\A i \in 1..n : z[m + i] = h[i])
  OBVIOUS
<1>2. /\ DOMAIN g = 1..m /\ DOMAIN h = 1..n /\ DOMAIN z = 1..(m + n)
      /\ \A i \in 1..(m + n) : i \in 1..m \/ (i - m \in 1..n /\ z[i] = h[i - m])
  BY <1>1
<1>3. \A i \in 1..m : z[i] = g[i] /\ i \in 1..(m + n)
  BY <1>1
<1>4. \A i \in 1..n : z[m + i] = h[i] /\ m + i \in 1..(m + n)
  BY <1>1
<1> HIDE DEF m, n, z
<1>5. ToSet(z) = ToSet(g) \cup ToSet(h)
  BY <1>2, <1>3, <1>4 DEF ToSet
<1>6. ASSUME Distinct(z)
      PROVE  Distinct(g) /\ Distinct(h) /\ ToSet(g) \cap ToSet(h) = {}
  <2>1. \A i, j \in 1..(m + n) : z[i] = z[j] => i = j
    BY <1>6, <1>1 DEF Distinct, m, n, z
  <2>2. Distinct(g)
    BY <2>1, <1>3 DEF Distinct, m
  <2>3. ASSUME NEW i \in 1..n, NEW j \in 1..n, h[i] = h[j]
        PROVE  i = j
    <3>1. m + i = m + j
      BY <2>1, <2>3, <1>4
    <3> QED BY <3>1, <1>1
  <2>4. ASSUME NEW e \in ToSet(g) \cap ToSet(h) PROVE FALSE
    <3>1. PICK i \in 1..m, j \in 1..n : g[i] = h[j]
      BY <2>4, <1>2 DEF ToSet
    <3>2. z[i] = z[m + j] /\ i # m + j
      BY <3>1, <1>1, <1>3, <1>4
    <3> QED BY <2>1, <3>1, <3>2, <1>3, <1>4
  <2>5. Distinct(h)
    BY <2>3 DEF Distinct, n
  <2> QED BY <2>2, <2>5, <2>4
<1>7. ASSUME Distinct(g), Distinct(h), ToSet(g) \cap ToSet(h) = {}
      PROVE  Distinct(z)
  <2>1. \A i \in 1..m, j \in 1..n : g[i] # h[j]
    BY <1>7, <1>2 DEF ToSet
  <2>2. ASSUME NEW i \in 1..(m + n), NEW j \in 1..(m + n), z[i] = z[j]
        PROVE  i = j
    <3>1. CASE i \in 1..m /\ j \in 1..m
      BY <3>1, <2>2, <1>3, <1>7 DEF Distinct, m
    <3>2. CASE i \notin 1..m /\ j \notin 1..m
      <4>1. i - m = j - m
        BY <3>2, <2>2, <1>2, <1>7 DEF Distinct, n
      <4> QED BY <4>1, <1>1
    <3>3. CASE i \in 1..m /\ j \notin 1..m
      BY <3>3, <2>2, <1>2, <1>3, <2>1
    <3>4. CASE i \notin 1..m /\ j \in 1..m
      BY <3>4, <2>2, <1>2, <1>3, <2>1
    <3> QED BY <3>1, <3>2, <3>3, <3>4
  <2>3. Len(z) = m + n
    BY <1>1 DEF z
  <2> QED BY <2>2, <2>3 DEF Distinct
<1> QED BY <1>1, <1>5, <1>6, <1>7 DEF z

LEMMA SetToSeqIs ==
    ASSUME NEW S, IsFiniteSet(S)
    PROVE  SetToSeq(S) \in Seq(S) /\ Distinct(SetToSeq(S)) /\ ToSet(SetToSeq(S)) = S
<1> DEFINE n == Cardinality(S)
           s == SetToSeq(S)
<1>1. n \in Nat /\ ExistsBijection(1..n, S)
  BY FS_CardinalityType
<1>2. \E f \in [1..n -> S] : IsInjective(f)
  BY <1>1 DEF ExistsBijection, Bijection, Injection
<1>3. s \in [1..n -> S] /\ IsInjective(s)
  BY <1>2 DEF SetToSeq
<1>4. s \in Injection(1..n, S)
  BY <1>3 DEF Injection
<1>5. IsFiniteSet(1..n) /\ Cardinality(1..n) = n
  BY <1>1, FS_Interval
<1>6. s \in Surjection(1..n, S)
  BY <1>4, <1>5, FS_Injection
<1> HIDE DEF s, n
<1>7. s \in Seq(S) /\ Len(s) = n /\ DOMAIN s = 1..n
  BY <1>1, <1>3
<1>8. Distinct(s)
  BY <1>3, <1>7 DEF Distinct, IsInjective
<1>9. ToSet(s) = S
  BY <1>6, <1>7, <1>3 DEF ToSet, Surjection
<1> QED BY <1>7, <1>8, <1>9 DEF s

(* A sequence without duplicates is as long as the set of its elements.      *)
LEMMA DistinctLength ==
    ASSUME NEW S, NEW s \in Seq(S), Distinct(s)
    PROVE  Cardinality(ToSet(s)) = Len(s)
<1> DEFINE n == Len(s)
<1>1. n \in Nat /\ s \in [1..n -> ToSet(s)] /\ DOMAIN s = 1..n
  BY DEF ToSet
<1>2. s \in Surjection(1..n, ToSet(s)) /\ s \in Injection(1..n, ToSet(s))
  BY <1>1 DEF Surjection, Injection, IsInjective, Distinct, ToSet
<1>3. IsFiniteSet(1..n) /\ Cardinality(1..n) = n
  BY <1>1, FS_Interval
<1> QED BY <1>2, <1>3, FS_Surjection

(* A list without some nodes.                                                *)
LEMMA OmittingIs ==
    ASSUME NEW S, NEW list \in Seq(S), Distinct(list), NEW ns
    PROVE  /\ Omitting(list, ns) \in Seq(S) /\ Distinct(Omitting(list, ns))
           /\ ToSet(Omitting(list, ns)) = ToSet(list) \ ns
<1> DEFINE seqs == [i \in DOMAIN list |-> IF list[i] \in ns THEN <<>> ELSE <<list[i]>>]
           n == Len(list)
<1>1. n \in Nat /\ DOMAIN list = 1..n /\ \A i \in 1..n : list[i] \in S
  OBVIOUS
<1>2. CASE list = <<>>
  <2>1. seqs = <<>>
    BY <1>2
  <2>2. Omitting(list, ns) = <<>>
    BY <2>1 DEF Omitting, FlattenSeq
  <2>3. ToSet(<<>>) = {} /\ Distinct(<<>>) /\ <<>> \in Seq(S)
    BY DEF Distinct, ToSet
  <2> QED
    BY <1>2, <2>2, <2>3
<1>3. CASE list # <<>>
  <2>1. seqs \in Seq(Seq(S)) /\ seqs # <<>> /\ Len(seqs) = n
    <3>1. \A i \in 1..n : seqs[i] \in Seq(S)
      BY <1>1
    <3>2. seqs \in [1..n -> Seq(S)]
      BY <1>1, <3>1
    <3> HIDE DEF seqs
    <3> QED BY <1>1, <1>3, <3>2
  <2>2. \A i \in 1..n : seqs[i] = IF list[i] \in ns THEN <<>> ELSE <<list[i]>>
    BY <1>1
  <2>3. Omitting(list, ns) = FlattenSeq(seqs)
    BY DEF Omitting
  <2> HIDE DEF seqs
  <2>4. PICK f : IsFlatten(f, seqs, n) /\ FlattenSeq(seqs) = f[n]
    BY <2>1, FlattenIs
  <2>5. \A i \in 1..n : f[i] = IF i = 1 THEN seqs[i] ELSE f[i - 1] \o seqs[i]
    BY <2>4 DEF IsFlatten
  <2> DEFINE Upto(i) == {list[j] : j \in 1..i} \ ns
             Good(i) == /\ f[i] \in Seq(S) /\ ToSet(f[i]) = Upto(i) /\ Distinct(f[i])
             T == {i \in 1..n : ~Good(i)}
  <2>6. T = {}
    <3> SUFFICES ASSUME T # {} PROVE FALSE
      OBVIOUS
    <3>1. PICK i \in T : \A k \in T : i <= k
      <4>1. T \subseteq Nat
        BY <1>1
      <4> HIDE DEF T
      <4> QED BY <4>1, LeastNat
    <3>2. i \in 1..n /\ ~Good(i)
      BY <3>1
    <3>3. seqs[i] \in Seq(S) /\ Distinct(seqs[i]) /\ ToSet(seqs[i]) = {list[i]} \ ns
      <4>1. CASE list[i] \in ns
        <5>1. seqs[i] = <<>>
          BY <2>2, <3>2, <4>1
        <5> QED BY <4>1, <5>1 DEF ToSet, Distinct
      <4>2. CASE list[i] \notin ns
        <5>1. seqs[i] = <<list[i]>>
          BY <2>2, <3>2, <4>2
        <5> QED BY <1>1, <3>2, <4>2, <5>1 DEF ToSet, Distinct
      <4> QED BY <4>1, <4>2
    <3>4. CASE i = 1
      <4>1. f[i] = seqs[i] /\ Upto(i) = {list[i]} \ ns
        BY <2>5, <3>2, <3>4
      <4> QED BY <3>2, <3>3, <4>1
    <3>5. CASE i # 1
      <4>1. i - 1 \in 1..n /\ Good(i - 1)
        <5>1. i - 1 \in 1..n /\ ~(i <= i - 1)
          BY <3>2, <3>5, <1>1
        <5>2. i - 1 \notin T
          <6> HIDE DEF T
          <6> QED BY <5>1, <3>1
        <5> HIDE DEF Good
        <5> QED BY <5>1, <5>2
      <4>2. f[i] = f[i - 1] \o seqs[i]
        BY <2>5, <3>2, <3>5
      <4>3. Upto(i) = Upto(i - 1) \cup ({list[i]} \ ns)
        <5>1. 1..i = 1..(i - 1) \cup {i}
          BY <3>2, <3>5
        <5> QED BY <5>1
      <4> DEFINE g == f[i - 1]
                 h == seqs[i]
      <4>4. g \in Seq(S) /\ h \in Seq(S) /\ Distinct(g) /\ Distinct(h)
        BY <3>3, <4>1
      <4>5. ToSet(g) \cap ToSet(h) = {}
        <5>1. list[i] \notin ToSet(g)
          <6> SUFFICES ASSUME list[i] \in Upto(i - 1) PROVE FALSE
            BY <4>1
          <6>1. PICK j \in 1..(i - 1) : list[i] = list[j]
            OBVIOUS
          <6>2. j \in 1..n /\ i \in 1..n /\ j # i
            BY <3>2, <1>1
          <6> QED BY <6>1, <6>2 DEF Distinct
        <5> QED BY <3>3, <5>1
      <4> HIDE DEF g, h
      <4>6. ToSet(g \o h) = ToSet(g) \cup ToSet(h) /\ Distinct(g \o h) /\ g \o h \in Seq(S)
        BY <4>4, <4>5, ConcatIs
      <4>7. f[i] \in Seq(S) /\ ToSet(f[i]) = Upto(i - 1) \cup ({list[i]} \ ns) /\ Distinct(f[i])
        BY <4>6, <4>2, <4>1, <3>3 DEF g, h
      <4> QED BY <3>2, <4>7, <4>3
    <3> QED BY <3>4, <3>5
  <2>7. n \in 1..n
    BY <1>1, <1>3
  <2>8. Good(n)
    BY <2>6, <2>7
  <2>9. ToSet(list) = {list[j] : j \in 1..n}
    BY <1>1 DEF ToSet
  <2> QED BY <2>3, <2>4, <2>8, <2>9
<1> QED BY <1>2, <1>3
-----------------------------------------------------------------------------
(* The Fargate cluster.                                                      *)

(* The nodes of a list, and those of the launcher's, are listed once; as     *)
(* long as no node was stopped they run, and as many run as are wanted,      *)
(* unless the launcher waits for more.                                       *)
Arns == 1..arns
FargateTypes ==
    /\ desired \in Nat /\ arns \in Nat /\ wished \in 1..MaxNodes
    /\ starting \subseteq Arns /\ running \subseteq Arns /\ starting \cap running = {}
    /\ current \in Seq(Arns) /\ launched \in Seq(Arns)
    /\ launcher \in {"none", "service", "waiting", "done"}
    /\ inGraph \in BOOLEAN /\ (~inGraph => launcher = "none")
Mapped ==
    /\ DOMAIN written \subseteq DOMAIN nodeOf
    /\ \A t \in DOMAIN written : nodeOf[t] = written[t]
ListedOnce == Distinct(current) /\ Distinct(launched)
ListsRun ==
    taken = {} =>
        /\ ToSet(current) \subseteq running /\ ToSet(launched) \subseteq running
        /\ starting = {} => Cardinality(running) >= desired \/ launcher = "waiting"
        /\ starting # {} => launcher = "waiting" /\ Cardinality(starting \cup running) <= desired
FargateInv == FargateTypes /\ Mapped /\ ListedOnce /\ ListsRun

LEMMA ArnsFinite ==
    ASSUME FargateTypes
    PROVE  IsFiniteSet(starting) /\ IsFiniteSet(running) /\ IsFiniteSet(starting \cup running)
<1>1. IsFiniteSet(Arns)
  BY FS_Interval DEF Arns, FargateTypes
<1> QED BY <1>1, FS_Subset DEF FargateTypes

LEMMA FargateInitOK == FargateInit => FargateInv
<1> SUFFICES ASSUME FargateInit PROVE FargateInv
  OBVIOUS
<1>1. FargateTypes
  <2>1. <<>> \in Seq(Arns)
    OBVIOUS
  <2> QED BY <2>1, FargateAssumption DEF FargateInit, FargateTypes
<1>2. Mapped /\ ListedOnce
  BY DEF FargateInit, Mapped, ListedOnce, Distinct
<1>3. ListsRun
  BY FS_EmptySet DEF FargateInit, ListsRun, ToSet
<1> QED BY <1>1, <1>2, <1>3 DEF FargateInv

LEMMA BeginGraphOK ==
    ASSUME FargateInv, NEW job, BeginGraph(job)
    PROVE  FargateInv'
<1> USE DEF FargateInv, BeginGraph, UserCall, ecsVars
<1>0. launcher = "none"
  BY DEF FargateTypes
<1>1. FargateTypes' /\ Mapped'
  <2>1. <<>> \in Seq(Arns)
    OBVIOUS
  <2>2. current' \in Seq(Arns) /\ launched' \in Seq(Arns) /\ launcher' \in {"none", "service"}
    BY <1>0, <2>1 DEF FargateTypes
  <2>3. FargateTypes'
    BY <2>2 DEF FargateTypes, Arns
  <2> QED BY <2>3 DEF Mapped
<1>2. ListedOnce'
  BY DEF ListedOnce, Distinct
<1>3. ToSet(<<>>) = {}
  BY DEF ToSet
<1>4. ListsRun'
  BY <1>0, <1>3 DEF ListsRun
<1> QED BY <1>1, <1>2, <1>4

LEMMA LaunchServiceOK ==
    ASSUME FargateInv, LaunchService
    PROVE  FargateInv'
<1> USE DEF FargateInv, LaunchService
<1>1. FargateTypes' /\ Mapped' /\ ListedOnce'
  BY FargateAssumption DEF FargateTypes, Mapped, ListedOnce, Distinct, Arns
<1>2. ListsRun'
  BY DEF ListsRun
<1> QED BY <1>1, <1>2

LEMMA CollectNodesOK ==
    ASSUME FargateInv, CollectNodes
    PROVE  FargateInv'
<1> USE DEF FargateInv, CollectNodes, ecsVars
<1> DEFINE new == (starting \cup running) \ ToSet(launched)
           s == SetToSeq(new)
<1>1. IsFiniteSet(new) /\ new \subseteq Arns
  BY ArnsFinite, FS_Subset DEF FargateTypes
<1>2. s \in Seq(new) /\ Distinct(s) /\ ToSet(s) = new
  BY <1>1, SetToSeqIs
<1>3. launched' = launched \o s
  OBVIOUS
<1>4. ToSet(launched) \cap new = {}
  OBVIOUS
<1>5. s \in Seq(Arns)
  BY <1>1, <1>2
<1>6. launched \in Seq(Arns) /\ Distinct(launched)
  BY DEF FargateTypes, ListedOnce
<1> HIDE DEF s, new
<1>7. launched' \in Seq(Arns) /\ Distinct(launched') /\ ToSet(launched') = ToSet(launched) \cup new
  <2>1. ToSet(launched) \cap ToSet(s) = {}
    BY <1>2, <1>4
  <2>2. /\ launched \o s \in Seq(Arns) /\ ToSet(launched \o s) = ToSet(launched) \cup ToSet(s)
        /\ Distinct(launched \o s)
    BY <2>1, <1>2, <1>5, <1>6, ConcatIs
  <2> QED BY <2>2, <1>2, <1>3
<1>8. FargateTypes' /\ Mapped' /\ ListedOnce'
  BY <1>7 DEF FargateTypes, Mapped, ListedOnce, Distinct, Arns
<1>9. taken = {} => starting = {}
  <2> SUFFICES ASSUME taken = {}, starting # {} PROVE FALSE
    OBVIOUS
  <2>1. Cardinality(starting \cup running) <= desired /\ desired = Cardinality(running)
    BY DEF ListsRun, AllRunning
  <2>2. /\ IsFiniteSet(starting \cup running) /\ running \subseteq starting \cup running
        /\ running # starting \cup running
    BY ArnsFinite DEF FargateTypes
  <2>3. Cardinality(running) <= Cardinality(starting \cup running)
        /\ Cardinality(running) # Cardinality(starting \cup running)
    BY <2>2, FS_Subset
  <2>4. Cardinality(running) \in Nat /\ Cardinality(starting \cup running) \in Nat
    BY ArnsFinite, FS_CardinalityType
  <2> QED BY <2>1, <2>3, <2>4
<1>10. ListsRun'
  <2> SUFFICES ASSUME taken = {} PROVE ListsRun'
    BY DEF ListsRun
  <2>1. ToSet(launched') \subseteq running
    BY <1>7, <1>9 DEF ListsRun, new
  <2>2. Cardinality(running) >= desired
    <3>1. Cardinality(running) = desired /\ desired \in Nat
      BY DEF AllRunning, FargateTypes
    <3> QED BY <3>1
  <2> QED BY <2>1, <2>2, <1>9 DEF ListsRun
<1> QED BY <1>8, <1>10

LEMMA JoinLauncherOK ==
    ASSUME FargateInv, JoinLauncher
    PROVE  FargateInv'
<1> USE DEF FargateInv, JoinLauncher, ecsVars
<1>1. /\ current \in Seq(Arns) /\ launched \in Seq(Arns) /\ Distinct(current) /\ Distinct(launched)
  BY DEF FargateTypes, ListedOnce
<1>2. /\ Found \in Seq(Arns) /\ Distinct(Found) /\ ToSet(Found) = ToSet(launched) \ ToSet(current)
  BY <1>1, OmittingIs DEF Found
<1>3. /\ current' \in Seq(Arns) /\ Distinct(current') /\ ToSet(current') = ToSet(current) \cup ToSet(Found)
  BY <1>1, <1>2, ConcatIs
<1>4. ToSet(<<>>) = {} /\ Distinct(<<>>)
  BY DEF ToSet, Distinct
<1>5. FargateTypes' /\ Mapped'
  BY <1>3 DEF FargateTypes, Mapped, Arns
<1>6. ListedOnce'
  BY <1>3, <1>4 DEF ListedOnce
<1>7. ListsRun'
  BY <1>2, <1>3, <1>4 DEF ListsRun
<1> QED BY <1>5, <1>6, <1>7

LEMMA MapTaskOK ==
    ASSUME FargateInv, NEW t, MapTask(t)
    PROVE  FargateInv'
<1> USE DEF FargateInv, MapTask, ecsVars
<1>1. FargateTypes' /\ ListedOnce' /\ ListsRun'
  BY DEF FargateTypes, ListedOnce, ListsRun, Arns, Distinct
<1>2. Mapped'
  BY DEF Mapped, NodesFor
<1> QED BY <1>1, <1>2

LEMMA WriteOutputOK ==
    ASSUME FargateInv, NEW t, WriteOutput(t)
    PROVE  FargateInv'
<1> USE DEF FargateInv, WriteOutput, ecsVars, scheduleOfNodes
<1>1. FargateTypes' /\ ListedOnce' /\ ListsRun'
  BY DEF FargateTypes, ListedOnce, ListsRun, Arns, Distinct
<1>2. Mapped'
  BY DEF Mapped
<1> QED BY <1>1, <1>2

LEMMA NodeStartsOK ==
    ASSUME FargateInv, NodeStarts
    PROVE  FargateInv'
<1> USE DEF FargateInv, NodeStarts, scheduleOfNodes
<1> DEFINE all == starting \cup running
<1>1. IsFiniteSet(all) /\ Cardinality(all) \in Nat /\ desired \in Nat
  BY ArnsFinite, FS_CardinalityType DEF FargateTypes
<1>2. /\ arns \in Nat /\ Arns' = Arns \cup {arns + 1} /\ arns + 1 \notin Arns
  BY DEF Arns, FargateTypes
<1>3. FargateTypes' /\ Mapped' /\ ListedOnce'
  <2>1. current \in Seq(Arns') /\ launched \in Seq(Arns')
    BY <1>2 DEF FargateTypes
  <2>2. FargateTypes'
    BY <1>2, <2>1 DEF FargateTypes
  <2>3. Mapped' /\ ListedOnce'
    BY DEF Mapped, ListedOnce, Distinct
  <2> QED BY <2>2, <2>3
<1>4. ListsRun'
  <2> SUFFICES ASSUME taken = {} PROVE ListsRun'
    BY DEF ListsRun
  <2>1. Cardinality(all) < desired
    OBVIOUS
  <2>2. launcher = "waiting"
    <3>1. CASE starting = {}
      <4>1. all = running
        BY <3>1
      <4> HIDE DEF all
      <4>2. ~(Cardinality(running) >= desired)
        BY <1>1, <2>1, <4>1
      <4> QED BY <3>1, <4>2 DEF ListsRun
    <3>2. CASE starting # {}
      BY <3>2 DEF ListsRun
    <3> QED BY <3>1, <3>2
  <2>3. starting' \cup running' = all \cup {arns + 1}
    OBVIOUS
  <2>4. Cardinality(all \cup {arns + 1}) <= desired
    <3>1. Cardinality(all \cup {arns + 1}) = IF arns + 1 \in all THEN Cardinality(all) ELSE Cardinality(all) + 1
      BY <1>1, FS_AddElement
    <3> QED BY <3>1, <2>1, <1>1
  <2> HIDE DEF all
  <2> QED BY <2>2, <2>3, <2>4 DEF ListsRun
<1> QED BY <1>3, <1>4

LEMMA NodeRunsOK ==
    ASSUME FargateInv, NEW n, NodeRuns(n)
    PROVE  FargateInv'
<1> USE DEF FargateInv, NodeRuns, scheduleOfNodes
<1>1. FargateTypes' /\ Mapped' /\ ListedOnce'
  BY DEF FargateTypes, Arns, Mapped, ListedOnce, Distinct
<1>2. starting' \cup running' = starting \cup running
  OBVIOUS
<1>3. ListsRun'
  BY <1>2 DEF ListsRun
<1> QED BY <1>1, <1>3

LEMMA StoppedOK ==
    ASSUME FargateInv, NEW ns, ns # {}, Stopped(ns), current' \in Seq(Arns), Distinct(current'),
           UNCHANGED <<wished, launched, launcher, inGraph, nodeOf, written>>
    PROVE  FargateInv'
<1>1. FargateTypes' /\ Mapped'
  BY DEF FargateInv, FargateTypes, Stopped, Arns, Mapped
<1>2. ListedOnce'
  BY DEF FargateInv, ListedOnce, Distinct
<1>3. ListsRun'
  BY DEF ListsRun, Stopped
<1> QED BY <1>1, <1>2, <1>3 DEF FargateInv

LEMMA CloseFargateTasksOK ==
    ASSUME FargateInv, CloseFargateTasks
    PROVE  FargateInv'
<1> DEFINE n == Len(current)
           ns == {current[i] : i \in {j \in DOMAIN current : j % 2 = 1}}
<1>1. n \in Nat /\ DOMAIN current = 1..n /\ current \in Seq(Arns) /\ Distinct(current)
  BY DEF FargateInv, FargateTypes, ListedOnce
<1>2. current' = [i \in 1..(n \div 2) |-> current[2 * i]] /\ n \div 2 \in Nat
  BY <1>1 DEF CloseFargateTasks
<1>3. \A i \in 1..(n \div 2) : 2 * i \in 1..n
  BY <1>1
<1>4. current' \in Seq(Arns) /\ Len(current') = n \div 2
  <2>1. \A i \in 1..(n \div 2) : current[2 * i] \in Arns
    BY <1>1, <1>3
  <2>2. current' \in [1..(n \div 2) -> Arns]
    BY <1>2, <2>1
  <2> QED BY <1>2, <2>2
<1>5. Distinct(current')
  BY <1>1, <1>2, <1>3, <1>4 DEF Distinct
<1>6. CASE n = 0
  <2>1. ns = {}
    BY <1>1, <1>6
  <2>2. FargateTypes' /\ Mapped'
    BY <1>4, <2>1 DEF FargateInv, FargateTypes, CloseFargateTasks, UserCall, Stopped, Arns, Mapped
  <2>3. ListedOnce'
    BY <1>5 DEF CloseFargateTasks, FargateInv, ListedOnce, Distinct
  <2>4. ToSet(current') = {} /\ running' = running /\ taken' = taken
    BY <1>2, <1>4, <1>6, <2>1 DEF ToSet, CloseFargateTasks, Stopped
  <2>5. ListsRun'
    BY <2>4 DEF CloseFargateTasks, Stopped, FargateInv, ListsRun
  <2> QED BY <2>2, <2>3, <2>5 DEF FargateInv
<1>7. CASE n # 0
  <2>1. 1 \in DOMAIN current /\ 1 % 2 = 1
    BY <1>1, <1>7
  <2>2. ns # {}
    BY <2>1
  <2>3. Stopped(ns) /\ UNCHANGED <<wished, launched, launcher, inGraph, nodeOf, written>>
    BY DEF CloseFargateTasks, UserCall
  <2> HIDE DEF ns
  <2> QED BY <1>4, <1>5, <2>2, <2>3, StoppedOK
<1> QED BY <1>6, <1>7

LEMMA StopFargateTasksOK ==
    ASSUME FargateInv, NEW ns, NEW given, StopFargateTasks(ns, given)
    PROVE  FargateInv'
<1>1. current \in Seq(Arns) /\ Distinct(current)
  BY DEF FargateInv, FargateTypes, ListedOnce
<1>2. Omitting(current, ns) \in Seq(Arns) /\ Distinct(Omitting(current, ns))
  BY <1>1, OmittingIs
<1>3. current' \in Seq(Arns) /\ Distinct(current')
  BY <1>1, <1>2 DEF StopFargateTasks
<1> QED
  BY <1>3, StoppedOK DEF StopFargateTasks, UserCall

LEMMA SetNumFargateNodesOK ==
    ASSUME FargateInv, NEW n \in 1..MaxNodes, SetNumFargateNodes(n)
    PROVE  FargateInv'
BY DEF FargateInv, FargateTypes, Mapped, ListedOnce, ListsRun, Distinct, Arns, SetNumFargateNodes,
       UserCall, ecsVars, scheduleOfNodes

LEMMA NodeStopsOK ==
    ASSUME FargateInv, NEW n, NodeStops(n)
    PROVE  FargateInv'
<1>1. current' \in Seq(Arns) /\ Distinct(current')
  BY DEF FargateInv, FargateTypes, ListedOnce, NodeStops, scheduleOfNodes
<1> QED
  BY <1>1, StoppedOK DEF NodeStops, scheduleOfNodes

LEMMA FargateStep == FargateInv /\ FargateNext => FargateInv'
BY BeginGraphOK, LaunchServiceOK, CollectNodesOK, JoinLauncherOK, MapTaskOK, WriteOutputOK,
   NodeStartsOK, NodeRunsOK, NodeStopsOK, CloseFargateTasksOK, StopFargateTasksOK,
   SetNumFargateNodesOK DEF FargateNext

LEMMA FargateRests == FargateInv /\ UNCHANGED fargateVars => FargateInv'
BY DEF fargateVars, FargateInv, FargateTypes, Mapped, ListedOnce, ListsRun, Distinct, Arns

(* While Fargate nodes start, stop and change in number, for any jobs and    *)
(* any number of nodes: the schedule leads an Executor to the node an output *)
(* was written to, tasks are mapped to nodes that run as long as none was    *)
(* stopped, and no node is listed twice.                                     *)
LEMMA FargateInvMeans == FargateInv => OutputsWhereMapped /\ MappedToRunning /\ NodesListedOnce
<1> SUFFICES ASSUME FargateInv
             PROVE  OutputsWhereMapped /\ MappedToRunning /\ NodesListedOnce
  OBVIOUS
<1>1. OutputsWhereMapped /\ MappedToRunning
  BY DEF FargateInv, Mapped, ListsRun, OutputsWhereMapped, MappedToRunning
<1>2. NodesListedOnce
  BY DistinctLength DEF FargateInv, FargateTypes, ListedOnce, NodesListedOnce
<1> QED BY <1>1, <1>2

FargateInFocus == focus = "fargate" => FargateInv
THEOREM FargateMappedHolds == ServicesSpec => []FargateMapped
<1>1. ServicesInit => FargateInFocus
  BY FargateInitOK DEF ServicesInit, FargateInFocus
<1>2. FargateInFocus /\ [ServicesNext]_serviceVars => FargateInFocus'
  <2> SUFFICES ASSUME FargateInFocus, [ServicesNext]_serviceVars, focus' = "fargate"
               PROVE  FargateInv'
    BY DEF FargateInFocus
  <2>1. focus = "fargate" /\ (FargateNext \/ UNCHANGED fargateVars)
    BY DEF ServicesNext, serviceVars
  <2> QED
    BY <2>1, FargateStep, FargateRests DEF FargateInFocus
<1>3. FargateInFocus => FargateMapped
  BY FargateInvMeans DEF FargateInFocus, FargateMapped
<1> QED
  BY <1>1, <1>2, <1>3, PTL DEF ServicesSpec
-----------------------------------------------------------------------------
(* A sum over a finite set (FoldFunctionOnSet), defined by recursion: the    *)
(* recursive function exists, and one more in one place is one more in all.  *)
PlusOf(es, f, T) == LET x == CHOOSE x \in T : TRUE IN es[x] + f[T \ {x}]
IsSum(f, es, S) == f = [T \in SUBSET S |-> IF T = {} THEN 0 ELSE PlusOf(es, f, T)]
Sum(es, S) == FoldFunctionOnSet(LAMBDA a, b : a + b, 0, es, S)

LEMMA SumIsChoice ==
    ASSUME NEW es, NEW S
    PROVE  Sum(es, S) = (CHOOSE f : IsSum(f, es, S))[S]
<1>1. Sum(es, S) = (CHOOSE iter : iter = [s \in SUBSET S |-> IF s = {} THEN 0
                 ELSE LET x == CHOOSE x \in s : TRUE IN es[x] + iter[s \ {x}]])[S]
  BY DEF Sum, FoldFunctionOnSet, MapThenFoldSet
<1> QED BY <1>1 DEF IsSum, PlusOf

(* The function, for the subsets of up to n elements.                        *)
SumUpTo(f, es, S, n) ==
    \A T \in SUBSET S : Cardinality(T) <= n => f[T] = IF T = {} THEN 0 ELSE PlusOf(es, f, T)

LEMMA OneLess ==
    ASSUME NEW S, IsFiniteSet(S), NEW T \in SUBSET S, T # {}
    PROVE  LET x == CHOOSE x \in T : TRUE IN
           /\ x \in T /\ T \ {x} \in SUBSET S /\ Cardinality(T) \in Nat /\ Cardinality(T) > 0
           /\ Cardinality(T \ {x}) = Cardinality(T) - 1 /\ Cardinality(T \ {x}) \in Nat
<1> DEFINE x == CHOOSE x \in T : TRUE
<1>1. x \in T
  OBVIOUS
<1> HIDE DEF x
<1>2. IsFiniteSet(T) /\ Cardinality(T) \in Nat
  BY FS_Subset, FS_CardinalityType
<1>3. Cardinality(T \ {x}) = Cardinality(T) - 1 /\ IsFiniteSet(T \ {x})
  BY <1>1, <1>2, FS_RemoveElement
<1>4. Cardinality(T \ {x}) \in Nat
  BY <1>3, FS_CardinalityType
<1>5. Cardinality(T) > 0
  BY <1>2, <1>3, <1>4
<1> QED BY <1>1, <1>2, <1>3, <1>4, <1>5 DEF x

LEMMA SumUpToExists ==
    ASSUME NEW es, NEW S, IsFiniteSet(S), NEW n \in Nat
    PROVE  \E f : SumUpTo(f, es, S, n)
<1> DEFINE B == {m \in Nat : ~ \E f : SumUpTo(f, es, S, m)}
<1> SUFFICES ASSUME B # {} PROVE FALSE
  OBVIOUS
<1>1. PICK m \in B : \A k \in B : m <= k
  <2>1. B \subseteq Nat
    OBVIOUS
  <2> HIDE DEF B
  <2> QED BY <2>1, LeastNat
<1>2. m \in Nat /\ ~ \E f : SumUpTo(f, es, S, m)
  BY <1>1
<1>3. m # 0
  <2> SUFFICES ASSUME m = 0 PROVE FALSE
    OBVIOUS
  <2> DEFINE z == [T \in SUBSET S |-> 0]
  <2>1. ASSUME NEW T \in SUBSET S, Cardinality(T) <= 0 PROVE z[T] = 0 /\ T = {}
    <3>1. IsFiniteSet(T) /\ Cardinality(T) \in Nat
      BY FS_Subset, FS_CardinalityType
    <3>2. Cardinality(T) = 0
      BY <3>1, <2>1
    <3> QED BY <3>1, <3>2, FS_EmptySet
  <2> HIDE DEF z
  <2>2. SumUpTo(z, es, S, 0)
    BY <2>1 DEF SumUpTo
  <2> QED BY <2>2, <1>2
<1>4. m - 1 \in Nat /\ m - 1 \notin B
  <2>1. m - 1 \in Nat /\ ~(m <= m - 1)
    BY <1>2, <1>3
  <2> HIDE DEF B
  <2> QED BY <2>1, <1>1
<1>5. PICK f : SumUpTo(f, es, S, m - 1)
  BY <1>4
<1> DEFINE g == [T \in SUBSET S |-> IF Cardinality(T) <= m - 1 THEN f[T] ELSE PlusOf(es, f, T)]
<1>6. ASSUME NEW T \in SUBSET S, Cardinality(T) <= m
      PROVE  g[T] = IF T = {} THEN 0 ELSE PlusOf(es, g, T)
  <2>1. CASE T = {}
    <3>1. Cardinality(T) = 0
      BY <2>1, FS_EmptySet
    <3>2. Cardinality(T) <= m - 1
      BY <3>1, <1>4
    <3>3. f[T] = 0
      BY <3>2, <2>1, <1>5 DEF SumUpTo
    <3> QED BY <3>2, <3>3, <2>1
  <2>2. CASE T # {}
    <3> DEFINE x == CHOOSE x \in T : TRUE
               U == T \ {x}
    <3>1. /\ x \in T /\ U \in SUBSET S /\ Cardinality(T) \in Nat
          /\ Cardinality(U) = Cardinality(T) - 1 /\ Cardinality(U) \in Nat
      BY <2>2, OneLess
    <3>2. PlusOf(es, f, T) = es[x] + f[U] /\ PlusOf(es, g, T) = es[x] + g[U]
      BY DEF PlusOf
    <3> HIDE DEF x, U
    <3>3. Cardinality(U) <= m - 1
      BY <3>1, <1>6, <1>2
    <3>4. g[U] = f[U]
      BY <3>1, <3>3
    <3>5. g[T] = PlusOf(es, f, T)
      <4>1. CASE Cardinality(T) <= m - 1
        BY <4>1, <2>2, <1>5 DEF SumUpTo
      <4>2. CASE ~(Cardinality(T) <= m - 1)
        BY <4>2
      <4> QED BY <4>1, <4>2
    <3> HIDE DEF g
    <3> QED BY <2>2, <3>2, <3>4, <3>5
  <2> QED BY <2>1, <2>2
<1> HIDE DEF g
<1>7. SumUpTo(g, es, S, m)
  BY <1>6 DEF SumUpTo
<1> QED BY <1>7, <1>2

LEMMA SumExists ==
    ASSUME NEW es, NEW S, IsFiniteSet(S)
    PROVE  \E f : IsSum(f, es, S)
<1>1. Cardinality(S) \in Nat
  BY FS_CardinalityType
<1>2. PICK f : SumUpTo(f, es, S, Cardinality(S))
  BY <1>1, SumUpToExists
<1> DEFINE g == [T \in SUBSET S |-> f[T]]
<1>3. ASSUME NEW T \in SUBSET S
      PROVE  g[T] = IF T = {} THEN 0 ELSE PlusOf(es, g, T)
  <2>1. Cardinality(T) <= Cardinality(S)
    BY FS_Subset
  <2>2. g[T] = IF T = {} THEN 0 ELSE PlusOf(es, f, T)
    BY <2>1, <1>2 DEF SumUpTo
  <2>3. CASE T # {}
    <3> DEFINE x == CHOOSE x \in T : TRUE
    <3>1. T \ {x} \in SUBSET S
      OBVIOUS
    <3>2. PlusOf(es, f, T) = es[x] + f[T \ {x}] /\ PlusOf(es, g, T) = es[x] + g[T \ {x}]
      BY DEF PlusOf
    <3> HIDE DEF x
    <3>3. g[T \ {x}] = f[T \ {x}]
      BY <3>1
    <3> QED BY <2>2, <2>3, <3>2, <3>3
  <2> QED BY <2>2, <2>3
<1>4. g = [T \in SUBSET S |-> g[T]]
  OBVIOUS
<1> HIDE DEF g
<1>5. IsSum(g, es, S)
  BY <1>3, <1>4 DEF IsSum
<1> QED BY <1>5

LEMMA SumIs ==
    ASSUME NEW es, NEW S, IsFiniteSet(S)
    PROVE  \E f : IsSum(f, es, S) /\ Sum(es, S) = f[S]
<1> DEFINE f == CHOOSE g : IsSum(g, es, S)
<1>1. IsSum(f, es, S)
  BY SumExists
<1>2. Sum(es, S) = f[S]
  BY SumIsChoice
<1> HIDE DEF f
<1> QED BY <1>1, <1>2

(* A set on which something is wrong has a smallest such subset.             *)
LEMMA SmallestSubset ==
    ASSUME NEW S, IsFiniteSet(S), NEW B, B \subseteq SUBSET S, B # {}
    PROVE  \E T \in B : \A U \in B : Cardinality(T) <= Cardinality(U)
<1> DEFINE C == {Cardinality(T) : T \in B}
<1>1. C \subseteq Nat /\ C # {}
  BY FS_Subset, FS_CardinalityType
<1>2. \A U \in B : Cardinality(U) \in C
  OBVIOUS
<1>3. \A c \in C : \E T \in B : c = Cardinality(T)
  OBVIOUS
<1> HIDE DEF C
<1>4. PICK c \in C : \A d \in C : c <= d
  BY <1>1, LeastNat
<1> QED BY <1>2, <1>3, <1>4

(* One more at e: the sums of the sets with e are one more.                  *)
LEMMA SumIncr ==
    ASSUME NEW S, IsFiniteSet(S), NEW es, \A x \in S : es[x] \in Nat,
           NEW es2, NEW e, \A x \in S : es2[x] = IF x = e THEN es[x] + 1 ELSE es[x]
    PROVE  Sum(es, S) \in Nat /\ Sum(es2, S) = IF e \in S THEN Sum(es, S) + 1 ELSE Sum(es, S)
<1>1. PICK f : IsSum(f, es, S) /\ Sum(es, S) = f[S]
  BY SumIs
<1>2. PICK g : IsSum(g, es2, S) /\ Sum(es2, S) = g[S]
  BY SumIs
<1> DEFINE Good(T) == f[T] \in Nat /\ g[T] = IF e \in T THEN f[T] + 1 ELSE f[T]
           B == {T \in SUBSET S : ~Good(T)}
<1>3. B = {}
  <2> SUFFICES ASSUME B # {} PROVE FALSE
    OBVIOUS
  <2>1. PICK T \in B : \A U \in B : Cardinality(T) <= Cardinality(U)
    <3>1. B \subseteq SUBSET S
      OBVIOUS
    <3> HIDE DEF B
    <3> QED BY <3>1, SmallestSubset
  <2>2. T \in SUBSET S /\ ~Good(T)
    BY <2>1
  <2>3. T # {}
    <3> SUFFICES ASSUME T = {} PROVE FALSE
      OBVIOUS
    <3>1. f[T] = 0 /\ g[T] = 0
      BY <1>1, <1>2, <2>2 DEF IsSum
    <3> QED BY <2>2, <3>1
  <2> DEFINE x == CHOOSE x \in T : TRUE
             U == T \ {x}
  <2>4. /\ x \in T /\ U \in SUBSET S /\ Cardinality(T) \in Nat
        /\ Cardinality(U) = Cardinality(T) - 1 /\ Cardinality(U) \in Nat
    BY <2>2, <2>3, OneLess
  <2>5. f[T] = es[x] + f[U] /\ g[T] = es2[x] + g[U]
    BY <1>1, <1>2, <2>2, <2>3 DEF IsSum, PlusOf
  <2>6. e \in T <=> x = e \/ e \in U
    BY <2>4
  <2>7. e \in U => x # e
    OBVIOUS
  <2> HIDE DEF x, U
  <2>8. Good(U)
    <3>1. ~(Cardinality(T) <= Cardinality(U))
      BY <2>4
    <3>2. U \notin B
      <4> HIDE DEF B
      <4> QED BY <3>1, <2>1
    <3> HIDE DEF Good
    <3> QED BY <3>2, <2>4
  <2>9. es[x] \in Nat /\ es2[x] = IF x = e THEN es[x] + 1 ELSE es[x]
    BY <2>4
  <2>10. Good(T)
    BY <2>5, <2>6, <2>7, <2>8, <2>9
  <2> QED BY <2>2, <2>10
<1>4. Good(S)
  <2> HIDE DEF Good
  <2> QED BY <1>3
<1> QED BY <1>1, <1>2, <1>4

LEMMA SumZero ==
    ASSUME NEW S, IsFiniteSet(S), NEW es, \A x \in S : es[x] = 0
    PROVE  Sum(es, S) = 0
<1>1. PICK f : IsSum(f, es, S) /\ Sum(es, S) = f[S]
  BY SumIs
<1> DEFINE B == {T \in SUBSET S : f[T] # 0}
<1>3. B = {}
  <2> SUFFICES ASSUME B # {} PROVE FALSE
    OBVIOUS
  <2>1. PICK T \in B : \A U \in B : Cardinality(T) <= Cardinality(U)
    <3>1. B \subseteq SUBSET S
      OBVIOUS
    <3> HIDE DEF B
    <3> QED BY <3>1, SmallestSubset
  <2>2. T \in SUBSET S /\ f[T] # 0
    BY <2>1
  <2>3. T # {}
    BY <1>1, <2>2 DEF IsSum
  <2> DEFINE x == CHOOSE x \in T : TRUE
             U == T \ {x}
  <2>4. /\ x \in T /\ U \in SUBSET S /\ Cardinality(T) \in Nat
        /\ Cardinality(U) = Cardinality(T) - 1 /\ Cardinality(U) \in Nat
    BY <2>2, <2>3, OneLess
  <2>5. f[T] = es[x] + f[U]
    BY <1>1, <2>2, <2>3 DEF IsSum, PlusOf
  <2> HIDE DEF x, U
  <2>6. f[U] = 0
    <3>1. ~(Cardinality(T) <= Cardinality(U))
      BY <2>4
    <3>2. U \notin B
      <4> HIDE DEF B
      <4> QED BY <3>1, <2>1
    <3> QED BY <3>2, <2>4
  <2>7. es[x] = 0
    BY <2>4
  <2> QED BY <2>2, <2>5, <2>6, <2>7
<1> QED BY <1>1, <1>3
-----------------------------------------------------------------------------
(* The KV Store Proxy.                                                       *)

(* The elements of a list from place d on.                                   *)
From(s, d) == {s[i] : i \in {j \in 1..Len(s) : j >= d}}
FromOnce(s, d) == \A i, j \in 1..Len(s) : i >= d /\ j >= d /\ s[i] = s[j] => i = j
(* The messages need_to_process holds that were not handled since.           *)
Late == From(need, draining)
Busy == {p.task : p \in procs}
Unhandled == ToSet(channel) \cup inbox \cup unread \cup ToSet(messages) \cup Late
Ready == UNION {p.ready : p \in procs}
Announced == UNION {ProxyGraphs[i] : i \in 1..inits}

ProcType ==
    [who : {"stream", "consumer", "graph"}, task : Senders, step : {"store", "count"},
     left : Seq(ProxyTasks), ready : SUBSET ProxyTasks]

(* True whatever fails: the types, and that what is counted was stored.      *)
ProxyTypes ==
    /\ sent \subseteq Senders /\ due \subseteq sent /\ inbox \subseteq Senders /\ unread \subseteq Senders
    /\ channel \in Seq(Senders) /\ messages \in Seq(Senders) /\ need \in Seq(Senders)
    /\ draining \in Nat /\ draining <= Len(need) + 1 /\ failed \in BOOLEAN
    /\ procs \subseteq ProcType /\ inits \in Nat /\ inits <= Len(ProxyGraphs)
    /\ buffered \in Seq(ProxyTasks) /\ piped \subseteq ProxyTasks
    /\ edges \in [ProxyEdges -> Nat] /\ proxyRuns \in [ProxyTasks -> Nat]
    /\ \A t \in due : ProxyBecome[t] # "none"
StoredFirst ==
    /\ \A p \in procs : p.step = "count" => p.task \in kept
    /\ \A p \in procs : ToSet(p.left) \cup p.ready \subseteq ToSet(InvokeList[p.task])
    /\ \A e \in ProxyEdges : edges[e] > 0 /\ e[2] # ProxyBecome[e[1]] => e[1] \in kept

(* Without failures: a message is in one place only, and waits there because *)
(* its task is unknown.                                                      *)
Apart(a, b, c, d, e, f) ==
    /\ a \cap (b \cup c \cup d \cup e \cup f) = {} /\ b \cap (c \cup d \cup e \cup f) = {}
    /\ c \cap (d \cup e \cup f) = {} /\ d \cap (e \cup f) = {} /\ e \cap f = {}
OnePlace ==
    /\ Distinct(channel) /\ Distinct(messages)
    /\ FromOnce(need, draining)
    /\ Apart(ToSet(channel), inbox, unread, ToSet(messages), Late, Busy)
    /\ Unhandled \cup Busy \subseteq sent
    /\ \A p, q \in procs : p.task = q.task => p = q
Waits ==
    /\ learning # {} => draining = 0
    /\ nodes \cup learning = Announced
    /\ draining = 0 /\ learning = {} => Late \cap nodes = {}
(* An edge is counted once, when the message comes to it.                    *)
Counted(t, s) ==
    IF s = ProxyBecome[t] THEN t \in sent \ due
    ELSE t \in sent \ Unhandled /\ \A p \in procs : p.task = t => s \notin ToSet(p.left)
CountsOnce ==
    /\ \A p \in procs : p.step = "store" => p.left = InvokeList[p.task]
    /\ \A p \in procs : Distinct(p.left)
    /\ \A e \in ProxyEdges : edges[e] = IF Counted(e[1], e[2]) THEN 1 ELSE 0
(* A task whose counter is complete is on its way to be started, or was.     *)
Done(s) == ProxyNumDeps[s] > 0 /\ CounterOf(edges, s) >= ProxyNumDeps[s]
Starting == ToSet(buffered) \cup piped \cup Ready
StartsOnce ==
    /\ Distinct(buffered) /\ ToSet(buffered) \cap (piped \cup Ready) = {} /\ piped \cap Ready = {}
    /\ \A p, q \in procs : p # q => p.ready \cap q.ready = {}
    /\ \A s \in Starting : Done(s)
    /\ \A s \in ProxyTasks : proxyRuns[s] = IF Done(s) /\ s \notin Starting THEN 1 ELSE 0

Good == OnePlace /\ Waits /\ CountsOnce /\ StartsOnce
ProxyInv == ProxyTypes /\ StoredFirst /\ (~failed => Good)

(* Facts about lists.                                                        *)
LEMMA EmptyIs == ToSet(<<>>) = {} /\ Distinct(<<>>) /\ \A S : <<>> \in Seq(S)
BY DEF ToSet, Distinct

LEMMA AppendIs ==
    ASSUME NEW S, NEW s \in Seq(S), NEW x \in S
    PROVE  /\ Append(s, x) \in Seq(S) /\ ToSet(Append(s, x)) = ToSet(s) \cup {x}
           /\ Distinct(s) /\ x \notin ToSet(s) => Distinct(Append(s, x))
<1> DEFINE n == Len(s)
           z == Append(s, x)
<1>1. /\ n \in Nat /\ z \in Seq(S) /\ Len(z) = n + 1 /\ DOMAIN s = 1..n /\ DOMAIN z = 1..(n + 1)
      /\ z[n + 1] = x /\ \A i \in 1..n : z[i] = s[i]
  OBVIOUS
<1> HIDE DEF z
<1>2. ToSet(z) = ToSet(s) \cup {x}
  <2>1. 1..(n + 1) = 1..n \cup {n + 1}
    BY <1>1
  <2> HIDE DEF n
  <2> QED BY <1>1, <2>1 DEF ToSet
<1>3. ASSUME Distinct(s), x \notin ToSet(s)
      PROVE  Distinct(z)
  <2>1. \A i \in 1..n : s[i] # x
    BY <1>3 DEF ToSet
  <2>2. ASSUME NEW i \in 1..(n + 1), NEW j \in 1..(n + 1), z[i] = z[j]
        PROVE  i = j
    BY <1>1, <1>3, <2>1, <2>2 DEF Distinct
  <2> QED BY <2>2, <1>1 DEF Distinct
<1> QED BY <1>1, <1>2, <1>3 DEF z

LEMMA SplitIs ==
    ASSUME NEW S, NEW s \in Seq(S), NEW n \in 0..Len(s)
    PROVE  LET a == SubSeq(s, 1, n)
               b == SubSeq(s, n + 1, Len(s))
           IN  /\ a \in Seq(S) /\ b \in Seq(S) /\ ToSet(s) = ToSet(a) \cup ToSet(b)
               /\ Distinct(s) => Distinct(a) /\ Distinct(b) /\ ToSet(a) \cap ToSet(b) = {}
<1> DEFINE a == SubSeq(s, 1, n)
           b == SubSeq(s, n + 1, Len(s))
<1>1. a \in Seq(S) /\ b \in Seq(S)
  OBVIOUS
<1>2. /\ Len(a) = n /\ Len(b) = Len(s) - n /\ n \in Nat /\ Len(s) \in Nat /\ n <= Len(s)
      /\ (\A i \in 1..n : a[i] = s[i]) /\ (\A i \in 1..(Len(s) - n) : b[i] = s[n + i])
  OBVIOUS
<1> HIDE DEF a, b
<1>3. s = a \o b
  <2> DEFINE c == a \o b
  <2>1. /\ c \in Seq(S) /\ Len(c) = Len(s)
        /\ (\A i \in 1..n : c[i] = a[i])
        /\ (\A i \in 1..Len(s) : i > n => c[i] = b[i - n])
    BY <1>1, <1>2
  <2> HIDE DEF c
  <2>2. \A i \in 1..Len(s) : c[i] = s[i]
    <3> TAKE i \in 1..Len(s)
    <3>1. CASE i <= n
      BY <3>1, <2>1, <1>2
    <3>2. CASE i > n
      <4>1. i - n \in 1..(Len(s) - n) /\ i = n + (i - n)
        BY <3>2, <1>2
      <4>2. b[i - n] = s[i]
        BY <4>1, <1>2
      <4> QED BY <4>2, <2>1, <3>2
    <3> QED BY <3>1, <3>2, <1>2
  <2>3. s = c
    BY <2>1, <2>2
  <2> QED BY <2>3 DEF c
<1>4. /\ ToSet(a \o b) = ToSet(a) \cup ToSet(b)
      /\ Distinct(a \o b) <=> Distinct(a) /\ Distinct(b) /\ ToSet(a) \cap ToSet(b) = {}
  BY <1>1, ConcatIs
<1> QED BY <1>1, <1>3, <1>4 DEF a, b

LEMMA TailIs ==
    ASSUME NEW S, NEW s \in Seq(S), s # <<>>
    PROVE  /\ Head(s) \in S /\ Tail(s) \in Seq(S) /\ ToSet(s) = {Head(s)} \cup ToSet(Tail(s))
           /\ Distinct(s) => Distinct(Tail(s)) /\ Head(s) \notin ToSet(Tail(s))
<1>1. /\ Len(s) \in Nat /\ Len(s) # 0 /\ DOMAIN s = 1..Len(s) /\ DOMAIN Tail(s) = 1..(Len(s) - 1)
      /\ Head(s) = s[1] /\ s[1] \in S /\ Tail(s) \in Seq(S) /\ Len(Tail(s)) = Len(s) - 1
      /\ \A i \in 1..(Len(s) - 1) : Tail(s)[i] = s[i + 1]
  OBVIOUS
<1>2. ToSet(s) = {Head(s)} \cup ToSet(Tail(s))
  <2>1. ASSUME NEW e \in ToSet(s) PROVE e = s[1] \/ e \in ToSet(Tail(s))
    <3>1. PICK i \in 1..Len(s) : e = s[i]
      BY <1>1 DEF ToSet
    <3>2. i # 1 => i - 1 \in 1..(Len(s) - 1) /\ Tail(s)[i - 1] = s[i]
      BY <1>1
    <3> QED BY <3>1, <3>2, <1>1 DEF ToSet
  <2>2. ASSUME NEW e \in ToSet(Tail(s)) PROVE e \in ToSet(s)
    <3>1. PICK i \in 1..(Len(s) - 1) : e = s[i + 1]
      BY <1>1 DEF ToSet
    <3>2. i + 1 \in 1..Len(s)
      BY <1>1
    <3> QED BY <3>1, <3>2, <1>1 DEF ToSet
  <2>3. s[1] \in ToSet(s)
    BY <1>1 DEF ToSet
  <2> QED BY <1>1, <2>1, <2>2, <2>3
<1>3. ASSUME Distinct(s) PROVE Distinct(Tail(s)) /\ Head(s) \notin ToSet(Tail(s))
  <2>1. \A i \in 1..(Len(s) - 1) : i + 1 \in 1..Len(s) /\ i + 1 # 1
    BY <1>1
  <2>2. ASSUME NEW i \in 1..(Len(s) - 1), NEW j \in 1..(Len(s) - 1), s[i + 1] = s[j + 1] PROVE i = j
    <3>1. i + 1 = j + 1
      BY <1>3, <2>1, <2>2 DEF Distinct
    <3> QED BY <3>1
  <2>3. Distinct(Tail(s))
    BY <1>1, <2>2 DEF Distinct
  <2>4. \A i \in 1..(Len(s) - 1) : s[i + 1] # s[1]
    BY <1>1, <1>3, <2>1 DEF Distinct
  <2> QED BY <2>3, <2>4, <1>1 DEF ToSet
<1> QED BY <1>1, <1>2, <1>3

LEMMA FromAppend ==
    ASSUME NEW S, NEW s \in Seq(S), NEW x \in S, NEW d \in Nat, d <= Len(s) + 1
    PROVE  /\ Append(s, x) \in Seq(S) /\ Len(Append(s, x)) = Len(s) + 1
           /\ From(Append(s, x), d) = From(s, d) \cup {x}
           /\ FromOnce(s, d) /\ x \notin From(s, d) => FromOnce(Append(s, x), d)
<1> DEFINE n == Len(s)
           z == Append(s, x)
<1>1. /\ n \in Nat /\ z \in Seq(S) /\ Len(z) = n + 1
      /\ z[n + 1] = x /\ \A i \in 1..n : z[i] = s[i]
  OBVIOUS
<1> HIDE DEF z
<1>2. From(z, d) = From(s, d) \cup {x}
  <2>1. {j \in 1..(n + 1) : j >= d} = {j \in 1..n : j >= d} \cup {n + 1}
    BY <1>1
  <2>2. \A j \in {j \in 1..n : j >= d} : z[j] = s[j]
    BY <1>1
  <2> HIDE DEF n
  <2> QED BY <1>1, <2>1, <2>2 DEF From, n
<1>3. ASSUME FromOnce(s, d), x \notin From(s, d)
      PROVE  FromOnce(z, d)
  <2>1. \A i \in 1..n : i >= d => s[i] # x
    BY <1>3 DEF From
  <2>2. ASSUME NEW i \in 1..(n + 1), NEW j \in 1..(n + 1), z[i] = z[j], i >= d, j >= d
        PROVE  i = j
    BY <1>1, <1>3, <2>1, <2>2 DEF FromOnce
  <2> QED BY <2>2, <1>1 DEF FromOnce
<1> QED BY <1>1, <1>2, <1>3 DEF z

LEMMA FromNext ==
    ASSUME NEW S, NEW s \in Seq(S), NEW d \in 1..Len(s)
    PROVE  /\ s[d] \in S /\ From(s, d) = From(s, d + 1) \cup {s[d]}
           /\ FromOnce(s, d) => FromOnce(s, d + 1) /\ s[d] \notin From(s, d + 1)
<1>1. {j \in 1..Len(s) : j >= d} = {j \in 1..Len(s) : j >= d + 1} \cup {d}
  OBVIOUS
<1>2. From(s, d) = From(s, d + 1) \cup {s[d]}
  BY <1>1 DEF From
<1>3. FromOnce(s, d) => FromOnce(s, d + 1) /\ s[d] \notin From(s, d + 1)
  BY DEF FromOnce, From
<1> QED BY <1>2, <1>3

LEMMA FromStart ==
    ASSUME NEW S, NEW s \in Seq(S)
    PROVE  From(s, 0) = From(s, 1) /\ (FromOnce(s, 0) <=> FromOnce(s, 1))
<1>1. {j \in 1..Len(s) : j >= 0} = {j \in 1..Len(s) : j >= 1}
  OBVIOUS
<1> QED BY <1>1 DEF From, FromOnce

LEMMA FromEnd ==
    ASSUME NEW S, NEW s \in Seq(S), NEW d \in Nat, d > Len(s)
    PROVE  From(s, d) = {} /\ From(<<>>, 0) = {} /\ FromOnce(<<>>, 0)
<1>1. {j \in 1..Len(s) : j >= d} = {}
  OBVIOUS
<1>2. {j \in 1..Len(<<>>) : j >= 0} = {}
  OBVIOUS
<1> QED BY <1>1, <1>2 DEF From, FromOnce

(* Tasks, edges and their counters.                                          *)
LEMMA SenderFacts ==
    ASSUME NEW t \in Senders
    PROVE  /\ InvokeList[t] \in Seq(ProxyTasks) /\ Distinct(InvokeList[t])
           /\ ToSet(InvokeList[t]) \subseteq ProxyTasks /\ ProxyBecome[t] \notin ToSet(InvokeList[t])
           /\ ProxyBecome[t] \in ProxyTasks \cup {"none"}
<1>1. /\ InvokeList[t] \in [1..Len(InvokeList[t]) -> ProxyTasks] /\ Len(InvokeList[t]) \in Nat
      /\ \A i, j \in 1..Len(InvokeList[t]) : InvokeList[t][i] = InvokeList[t][j] => i = j
      /\ ProxyBecome[t] \in (ProxyTasks \cup {"none"}) \ ToSet(InvokeList[t])
  BY ProxyAssumption
<1>2. InvokeList[t] \in Seq(ProxyTasks)
  BY <1>1
<1> QED BY <1>1, <1>2 DEF Distinct, ToSet

LEMMA EdgeOf ==
    ASSUME NEW t \in Senders, NEW s, s \in ToSet(InvokeList[t]) \/ (s = ProxyBecome[t] /\ s # "none")
    PROVE  <<t, s>> \in ProxyEdges /\ s \in ProxyTasks
<1>1. s \in ProxyTasks
  BY SenderFacts
<1> QED
  BY <1>1 DEF ProxyEdges, ProxyDownstream

LEMMA EdgeIs ==
    ASSUME NEW e \in ProxyEdges
    PROVE  /\ e[1] \in Senders /\ e[2] \in ProxyTasks /\ e = <<e[1], e[2]>> /\ e[2] # "none"
           /\ e[2] # ProxyBecome[e[1]] => e[2] \in ToSet(InvokeList[e[1]])
BY ProxyAssumption DEF ProxyEdges, ProxyDownstream

LEMMA EdgesFinite == \A r : IsFiniteSet({e \in ProxyEdges : e[2] = r})
<1>1. IsFiniteSet(Senders)
  BY ProxyAssumption, FS_Subset
<1> TAKE r
<1> DEFINE S == {e \in ProxyEdges : e[2] = r}
           f == [e \in S |-> e[1]]
<1>2. f \in [S -> Senders]
  BY EdgeIs
<1>3. \A d, e \in S : f[d] = f[e] => d = e
  BY EdgeIs
<1> HIDE DEF f
<1>4. f \in Injection(S, Senders)
  BY <1>2, <1>3 DEF Injection, IsInjective
<1> QED BY <1>1, <1>4, FS_Injection

LEMMA CounterStep ==
    ASSUME NEW es \in [ProxyEdges -> Nat], NEW d \in ProxyEdges, NEW r,
           NEW z, \A x \in ProxyEdges : z[x] = IF x = d THEN es[x] + 1 ELSE es[x]
    PROVE  /\ CounterOf(es, r) \in Nat
           /\ CounterOf(z, r) = IF r = d[2] THEN CounterOf(es, r) + 1 ELSE CounterOf(es, r)
<1> DEFINE S == {e \in ProxyEdges : e[2] = r}
<1>1. IsFiniteSet(S)
  BY EdgesFinite
<1>2. \A x \in S : es[x] \in Nat
  OBVIOUS
<1>3. \A x \in S : z[x] = IF x = d THEN es[x] + 1 ELSE es[x]
  OBVIOUS
<1>4. d \in S <=> r = d[2]
  OBVIOUS
<1> HIDE DEF S
<1>5. Sum(es, S) \in Nat /\ Sum(z, S) = IF d \in S THEN Sum(es, S) + 1 ELSE Sum(es, S)
  BY <1>1, <1>2, <1>3, SumIncr
<1>6. CounterOf(es, r) = Sum(es, S) /\ CounterOf(z, r) = Sum(z, S)
  BY DEF CounterOf, Sum, S
<1>7. CounterOf(es, r) \in Nat /\ CounterOf(z, r) = IF r = d[2] THEN CounterOf(es, r) + 1 ELSE CounterOf(es, r)
  BY <1>4, <1>5, <1>6
<1> QED BY <1>7

LEMMA CounterNext ==
    ASSUME edges \in [ProxyEdges -> Nat], NEW d \in ProxyEdges,
           \A x \in ProxyEdges : edges'[x] = IF x = d THEN edges[x] + 1 ELSE edges[x]
    PROVE  \A r : /\ CounterOf(edges, r) \in Nat
                  /\ CounterOf(edges', r) = IF r = d[2] THEN CounterOf(edges, r) + 1 ELSE CounterOf(edges, r)
<1> DEFINE es == edges
           z == edges'
<1>1. es \in [ProxyEdges -> Nat] /\ \A x \in ProxyEdges : z[x] = IF x = d THEN es[x] + 1 ELSE es[x]
  OBVIOUS
<1> HIDE DEF es, z
<1> TAKE r
<1>2. CounterOf(z, r) = IF r = d[2] THEN CounterOf(es, r) + 1 ELSE CounterOf(es, r)
  BY <1>1, CounterStep
<1>3. CounterOf(es, r) \in Nat
  BY <1>1, <1>2, CounterStep
<1> QED BY <1>2, <1>3 DEF es, z

LEMMA CounterZero ==
    ASSUME NEW r
    PROVE  CounterOf([e \in ProxyEdges |-> 0], r) = 0
<1> DEFINE S == {e \in ProxyEdges : e[2] = r}
           z == [e \in ProxyEdges |-> 0]
<1>1. IsFiniteSet(S) /\ \A x \in S : z[x] = 0
  BY EdgesFinite
<1> HIDE DEF z, S
<1>2. Sum(z, S) = 0
  BY <1>1, SumZero
<1> QED BY <1>2 DEF CounterOf, Sum, z, S

LEMMA ProcIs ==
    ASSUME NEW t \in Senders, NEW who \in {"stream", "consumer", "graph"}
    PROVE  LET p == Proc(who, t) IN
           /\ p \in ProcType /\ p.task = t /\ p.step = "store" /\ p.ready = {} /\ p.left = InvokeList[t]
           /\ p.who = who
<1>1. InvokeList[t] \in Seq(ProxyTasks)
  BY SenderFacts
<1> QED BY <1>1 DEF Proc, ProcType
-----------------------------------------------------------------------------
LEMMA ProxyInitOK == ProxyInit => ProxyInv
<1> SUFFICES ASSUME ProxyInit PROVE ProxyInv
  OBVIOUS
<1>1. ToSet(<<>>) = {} /\ Distinct(<<>>) /\ Late = {} /\ FromOnce(need, draining)
      /\ Busy = {} /\ Ready = {} /\ Unhandled = {}
  <2>1. From(<<>>, 0) = {} /\ FromOnce(<<>>, 0)
    BY DEF From, FromOnce
  <2> QED BY <2>1, EmptyIs DEF ProxyInit, Late, Busy, Ready, Unhandled
<1>2. <<>> \in Seq(Senders) /\ <<>> \in Seq(ProxyTasks) /\ Len(<<>>) = 0
  OBVIOUS
<1>3. ProxyTypes
  <2>1. 0 <= Len(ProxyGraphs)
    BY ProxyAssumption
  <2>2. edges \in [ProxyEdges -> Nat] /\ proxyRuns \in [ProxyTasks -> Nat]
    BY DEF ProxyInit
  <2>3. 0 <= Len(need) + 1 /\ draining = 0
    BY <1>2 DEF ProxyInit
  <2>4. \A t \in due : ProxyBecome[t] # "none"
    BY DEF ProxyInit
  <2> HIDE DEF ProxyInit
  <2>5. /\ sent = {} /\ due = {} /\ inbox = {} /\ unread = {} /\ procs = {} /\ piped = {}
        /\ channel = <<>> /\ messages = <<>> /\ need = <<>> /\ buffered = <<>>
        /\ failed = FALSE /\ inits = 0
    BY DEF ProxyInit
  <2> QED BY <1>2, <2>1, <2>2, <2>3, <2>4, <2>5 DEF ProxyTypes
<1>4. StoredFirst
  BY DEF ProxyInit, StoredFirst
<1>5. OnePlace
  BY <1>1 DEF ProxyInit, OnePlace, Apart
<1>6. Waits
  <2>1. Announced = {}
    BY DEF ProxyInit, Announced
  <2> QED BY <1>1, <2>1 DEF ProxyInit, Waits
<1>7. CountsOnce
  <2>1. ASSUME NEW e \in ProxyEdges PROVE ~Counted(e[1], e[2])
    BY DEF ProxyInit, Counted
  <2> QED BY <2>1 DEF ProxyInit, CountsOnce
<1>8. StartsOnce
  <2>1. \A s \in ProxyTasks : ~Done(s)
    BY CounterZero, ProxyAssumption DEF ProxyInit, Done
  <2>2. Starting = {}
    BY <1>1 DEF ProxyInit, Starting
  <2> QED BY <1>1, <2>1, <2>2 DEF ProxyInit, StartsOnce
<1> QED BY <1>3, <1>4, <1>5, <1>6, <1>7, <1>8 DEF ProxyInv, Good
-----------------------------------------------------------------------------
(* Whatever fails, the types are right and what is counted is stored.        *)
Sound == ProxyTypes /\ StoredFirst

LEMMA CountEdgeTypes ==
    ASSUME edges \in [ProxyEdges -> Nat], NEW t, NEW s, CountEdge(t, s)
    PROVE  /\ edges' \in [ProxyEdges -> Nat]
           /\ \A e \in ProxyEdges : edges'[e] = IF e = <<t, s>> THEN edges[e] + 1 ELSE edges[e]
<1> DEFINE d == <<t, s>>
<1>1. edges' = [edges EXCEPT ![d] = edges[d] + 1]
  BY DEF CountEdge
<1>2. \A e \in ProxyEdges : edges'[e] = IF e = d THEN edges[e] + 1 ELSE edges[e]
  <2> HIDE DEF d
  <2> QED BY <1>1
<1>3. edges' \in [ProxyEdges -> Nat]
  <2> HIDE DEF d
  <2>1. edges' = [e \in ProxyEdges |-> edges'[e]]
    BY <1>1
  <2>2. \A e \in ProxyEdges : edges'[e] \in Nat
    BY <1>2
  <2> QED BY <2>1, <2>2
<1> QED BY <1>2, <1>3

LEMMA SendSound ==
    ASSUME Sound, NEW t \in Senders, NEW direct \in BOOLEAN, SendToProxy(t, direct)
    PROVE  Sound'
<1>1. channel' \in Seq(Senders)
  <2>1. channel' = channel \/ channel' = Append(channel, t)
    BY DEF SendToProxy
  <2>2. channel \in Seq(Senders)
    BY DEF Sound, ProxyTypes
  <2> QED BY <2>1, <2>2
<1>2. ProxyTypes'
  BY <1>1 DEF Sound, ProxyTypes, SendToProxy, proxyData, invoker
<1>3. StoredFirst'
  BY DEF Sound, StoredFirst, SendToProxy, proxyData
<1> QED BY <1>2, <1>3 DEF Sound

LEMMA CountBecomeSound ==
    ASSUME Sound, NEW t \in Senders, CountBecome(t)
    PROVE  Sound'
<1> USE DEF CountBecome
<1>1. /\ edges' \in [ProxyEdges -> Nat]
      /\ \A e \in ProxyEdges : edges'[e] = IF e = <<t, ProxyBecome[t]>> THEN edges[e] + 1 ELSE edges[e]
  BY CountEdgeTypes DEF Sound, ProxyTypes
<1>2. proxyRuns' \in [ProxyTasks -> Nat]
  <2>1. proxyRuns \in [ProxyTasks -> Nat]
    BY DEF Sound, ProxyTypes
  <2>2. proxyRuns' = proxyRuns \/ proxyRuns' = [proxyRuns EXCEPT ![ProxyBecome[t]] = @ + 1]
    OBVIOUS
  <2>3. ASSUME NEW b PROVE [proxyRuns EXCEPT ![b] = @ + 1] \in [ProxyTasks -> Nat]
    <3> DEFINE z == [proxyRuns EXCEPT ![b] = @ + 1]
    <3>1. z = [s \in ProxyTasks |-> IF s = b THEN proxyRuns[b] + 1 ELSE proxyRuns[s]]
      BY <2>1
    <3>2. \A s \in ProxyTasks : (IF s = b THEN proxyRuns[b] + 1 ELSE proxyRuns[s]) \in Nat
      BY <2>1
    <3> HIDE DEF z
    <3>3. z \in [ProxyTasks -> Nat]
      BY <3>1, <3>2
    <3> QED BY <3>3 DEF z
  <2> QED BY <2>1, <2>2, <2>3
<1>3. ProxyTypes'
  BY <1>1, <1>2 DEF Sound, ProxyTypes, invoker
<1>4. StoredFirst'
  BY <1>1 DEF Sound, StoredFirst
<1> QED BY <1>3, <1>4 DEF Sound

LEMMA StoreSound ==
    ASSUME Sound, NEW p \in procs, StoreOutput(p)
    PROVE  Sound'
<1> DEFINE q == [p EXCEPT !.step = "count"]
<1>1. p \in ProcType
  BY DEF Sound, ProxyTypes
<1>2. q \in ProcType /\ q.step = "count" /\ q.task = p.task /\ q.left = p.left /\ q.ready = p.ready
  BY <1>1 DEF ProcType
<1>3. procs' = (procs \ {p}) \cup {q} /\ kept' = kept \cup {p.task}
  BY DEF StoreOutput
<1> HIDE DEF q
<1>4. ProxyTypes'
  BY <1>2, <1>3 DEF Sound, ProxyTypes, StoreOutput, arrivals, invoker
<1>5. StoredFirst'
  BY <1>2, <1>3 DEF Sound, StoredFirst, StoreOutput
<1> QED BY <1>4, <1>5 DEF Sound

LEMMA CountNextIs ==
    ASSUME Sound, NEW p \in procs, CountNext(p)
    PROVE  LET s == Head(p.left)
               ready == IF Complete(p.task, s) THEN p.ready \cup {s} ELSE p.ready
               q == [p EXCEPT !.left = Tail(@), !.ready = ready]
           IN  /\ procs' = (procs \ {p}) \cup {q} /\ q \in ProcType
               /\ q.step = "count" /\ q.task = p.task /\ q.left = Tail(p.left) /\ q.ready = ready
               /\ s \in ToSet(InvokeList[p.task]) /\ p.task \in Senders
               /\ ToSet(p.left) = {s} \cup ToSet(q.left) /\ p \in ProcType
<1> DEFINE s == Head(p.left)
           ready == IF Complete(p.task, s) THEN p.ready \cup {s} ELSE p.ready
           q == [p EXCEPT !.left = Tail(@), !.ready = ready]
<1>1. p \in ProcType /\ p.task \in Senders /\ p.left \in Seq(ProxyTasks) /\ p.left # <<>> /\ p.step = "count"
  BY DEF Sound, ProxyTypes, ProcType, CountNext
<1>2. /\ s \in ProxyTasks /\ Tail(p.left) \in Seq(ProxyTasks)
      /\ ToSet(p.left) = {s} \cup ToSet(Tail(p.left))
  BY <1>1, TailIs
<1>3. procs' = (procs \ {p}) \cup {q}
  BY <1>1 DEF CountNext, ProcType
<1>4. s \in ToSet(InvokeList[p.task])
  BY <1>2 DEF Sound, StoredFirst
<1>5. ready \in SUBSET ProxyTasks
  BY <1>1, <1>2 DEF ProcType
<1> HIDE DEF s, ready
<1>6. q \in ProcType /\ q.step = "count" /\ q.task = p.task /\ q.left = Tail(p.left) /\ q.ready = ready
  BY <1>1, <1>2, <1>5 DEF ProcType
<1> QED BY <1>1, <1>2, <1>3, <1>4, <1>6 DEF s, ready

LEMMA CountNextSound ==
    ASSUME Sound, NEW p \in procs, CountNext(p)
    PROVE  Sound'
<1> DEFINE s == Head(p.left)
<1>1. PICK q : /\ procs' = (procs \ {p}) \cup {q} /\ q \in ProcType /\ p \in ProcType
               /\ q.step = "count" /\ q.task = p.task /\ ToSet(p.left) = {s} \cup ToSet(q.left)
               /\ q.ready = p.ready \/ q.ready = p.ready \cup {s}
               /\ s \in ToSet(InvokeList[p.task])
  <2> DEFINE ready == IF Complete(p.task, s) THEN p.ready \cup {s} ELSE p.ready
             q == [p EXCEPT !.left = Tail(@), !.ready = ready]
  <2>1. /\ procs' = (procs \ {p}) \cup {q} /\ q \in ProcType /\ p \in ProcType
        /\ q.step = "count" /\ q.task = p.task /\ ToSet(p.left) = {s} \cup ToSet(q.left)
        /\ q.ready = ready /\ s \in ToSet(InvokeList[p.task])
    BY CountNextIs, Zenon
  <2>2. ready = p.ready \/ ready = p.ready \cup {s}
    OBVIOUS
  <2> HIDE DEF q, ready, s
  <2>3. q.ready = p.ready \/ q.ready = p.ready \cup {s}
    BY <2>1, <2>2, Zenon
  <2> QED BY <2>1, <2>3, Zenon
<1> HIDE DEF s
<1>2. p.step = "count" /\ CountEdge(p.task, s)
  BY DEF CountNext, s
<1>3. /\ edges' \in [ProxyEdges -> Nat]
      /\ \A e \in ProxyEdges : edges'[e] = IF e = <<p.task, s>> THEN edges[e] + 1 ELSE edges[e]
  BY <1>2, CountEdgeTypes DEF Sound, ProxyTypes
<1>4. ProxyTypes'
  BY <1>1, <1>3 DEF Sound, ProxyTypes, CountNext, arrivals, invoker
<1>5. StoredFirst'
  <2>1. p.task \in kept /\ kept' = kept
    BY <1>2 DEF Sound, StoredFirst, CountNext
  <2>2. ASSUME NEW e \in ProxyEdges, edges'[e] > 0, e[2] # ProxyBecome[e[1]]
        PROVE  e[1] \in kept
    <3>1. CASE e = <<p.task, s>>
      BY <3>1, <2>1
    <3>2. CASE e # <<p.task, s>>
      BY <3>2, <2>2, <1>3 DEF Sound, StoredFirst
    <3> QED BY <3>1, <3>2
  <2>3. \A r \in procs' : r.step = "count" => r.task \in kept
    BY <1>1, <2>1 DEF Sound, StoredFirst
  <2>4. \A r \in procs' : ToSet(r.left) \cup r.ready \subseteq ToSet(InvokeList[r.task])
    BY <1>1 DEF Sound, StoredFirst
  <2> QED BY <2>1, <2>2, <2>3, <2>4 DEF StoredFirst
<1> QED BY <1>4, <1>5 DEF Sound

LEMMA FailsSound ==
    ASSUME Sound, NEW p \in procs, ProcFails(p)
    PROVE  Sound'
<1>1. messages' \in Seq(Senders) /\ draining' \in {draining, 0}
  <2>1. messages' = messages \/ messages' = <<>>
    BY DEF ProcFails
  <2>2. messages \in Seq(Senders) /\ <<>> \in Seq(Senders)
    BY DEF Sound, ProxyTypes
  <2>3. draining' \in {draining, 0}
    BY DEF ProcFails
  <2> QED BY <2>1, <2>2, <2>3
<1>2. ProxyTypes'
  BY <1>1 DEF Sound, ProxyTypes, ProcFails, arrivals, proxyData, invoker
<1>3. StoredFirst'
  BY DEF Sound, StoredFirst, ProcFails, proxyData
<1> QED BY <1>2, <1>3 DEF Sound

LEMMA InvokeReadyIs ==
    ASSUME Sound, NEW p \in procs, InvokeReady(p)
    PROVE  LET s == SetToSeq(p.ready) IN
           /\ buffered' = buffered \o s /\ s \in Seq(ProxyTasks) /\ Distinct(s) /\ ToSet(s) = p.ready
           /\ buffered' \in Seq(ProxyTasks) /\ p \in ProcType
<1>1. p \in ProcType /\ p.ready \subseteq ProxyTasks /\ IsFiniteSet(ProxyTasks)
  BY ProxyAssumption DEF Sound, ProxyTypes, ProcType
<1>2. IsFiniteSet(p.ready)
  BY <1>1, FS_Subset
<1> DEFINE s == SetToSeq(p.ready)
<1>3. s \in Seq(p.ready) /\ Distinct(s) /\ ToSet(s) = p.ready
  BY <1>2, SetToSeqIs
<1> HIDE DEF s
<1>4. s \in Seq(ProxyTasks)
  BY <1>1, <1>3
<1>5. buffered' = buffered \o s
  BY DEF InvokeReady, s
<1>6. buffered \o s \in Seq(ProxyTasks)
  BY <1>4 DEF Sound, ProxyTypes
<1> QED BY <1>1, <1>3, <1>4, <1>5, <1>6 DEF s

LEMMA InvokeReadySound ==
    ASSUME Sound, NEW p \in procs, InvokeReady(p)
    PROVE  Sound'
<1>1. buffered' \in Seq(ProxyTasks)
  BY InvokeReadyIs
<1>2. ProxyTypes'
  BY <1>1 DEF Sound, ProxyTypes, InvokeReady, arrivals
<1>3. StoredFirst'
  BY DEF Sound, StoredFirst, InvokeReady
<1> QED BY <1>2, <1>3 DEF Sound

LEMMA OwnShareIs == ASSUME NEW n \in Nat, n # 0 PROVE OwnShare(n) \in 0..n
<1>1. ProxyInvokers \in Nat
  BY ProxyAssumption
<1> DEFINE k == ProxyInvokers + 1
           q == (n + ProxyInvokers) \div k
<1>2. k \in Nat /\ k >= 1 /\ n + ProxyInvokers \in Nat
  BY <1>1
<1>3. q \in Nat /\ k * q <= n + ProxyInvokers
  BY <1>2, Z3
<1>4. n + ProxyInvokers <= k * n
  <2>1. k * n = n + ProxyInvokers * n
    BY <1>1, Z3
  <2>2. ProxyInvokers * n >= ProxyInvokers
    BY <1>1, Z3
  <2>3. ProxyInvokers * n \in Nat
    BY <1>1, Z3
  <2> QED BY <2>1, <2>2, <2>3, <1>1
<1>5. q <= n
  <2> SUFFICES ASSUME q > n PROVE FALSE
    BY <1>3
  <2>1. k * q >= k * (n + 1)
    BY <1>2, <1>3, Z3
  <2>2. k * (n + 1) = k * n + k
    BY <1>2, Z3
  <2>3. k * n \in Nat /\ k * q \in Nat
    BY <1>2, <1>3, Z3
  <2> QED BY <1>2, <1>3, <1>4, <2>1, <2>2, <2>3
<1> QED BY <1>3, <1>5 DEF OwnShare

LEMMA BackgroundSendIs ==
    ASSUME Sound, BackgroundSend
    PROVE  \E a, b \in SUBSET ProxyTasks :
           /\ ToSet(buffered) = a \cup b /\ (Distinct(buffered) => a \cap b = {})
           /\ buffered' = <<>> /\ proxyRuns' = Invoked(proxyRuns, a) /\ piped' = piped \cup b
<1> DEFINE n == Len(buffered)
           own == OwnShare(n)
           a == SubSeq(buffered, 1, own)
           b == SubSeq(buffered, own + 1, n)
<1>1. buffered \in Seq(ProxyTasks) /\ n \in Nat /\ n # 0
  BY DEF Sound, ProxyTypes, BackgroundSend
<1>2. own \in 0..n
  BY <1>1, OwnShareIs
<1> HIDE DEF own
<1>3. /\ a \in Seq(ProxyTasks) /\ b \in Seq(ProxyTasks) /\ ToSet(buffered) = ToSet(a) \cup ToSet(b)
      /\ Distinct(buffered) => ToSet(a) \cap ToSet(b) = {}
  BY <1>1, <1>2, SplitIs
<1>4. ToSet(a) \in SUBSET ProxyTasks /\ ToSet(b) \in SUBSET ProxyTasks
  <2>1. \A z \in Seq(ProxyTasks) : ToSet(z) \in SUBSET ProxyTasks
    BY DEF ToSet
  <2> HIDE DEF a, b
  <2> QED BY <2>1, <1>3
<1>5. buffered' = <<>> /\ proxyRuns' = Invoked(proxyRuns, ToSet(a)) /\ piped' = piped \cup ToSet(b)
  BY DEF BackgroundSend, own
<1> HIDE DEF a, b
<1> QED BY <1>3, <1>4, <1>5

LEMMA InvokedTypes ==
    ASSUME NEW runs \in [ProxyTasks -> Nat], NEW ts
    PROVE  /\ Invoked(runs, ts) \in [ProxyTasks -> Nat]
           /\ \A s \in ProxyTasks : Invoked(runs, ts)[s] = IF s \in ts THEN runs[s] + 1 ELSE runs[s]
BY DEF Invoked

LEMMA BackgroundSendSound ==
    ASSUME Sound, BackgroundSend
    PROVE  Sound'
<1>1. PICK a, b \in SUBSET ProxyTasks :
        buffered' = <<>> /\ proxyRuns' = Invoked(proxyRuns, a) /\ piped' = piped \cup b
  BY BackgroundSendIs
<1>2. buffered' \in Seq(ProxyTasks) /\ proxyRuns' \in [ProxyTasks -> Nat]
  BY <1>1, InvokedTypes DEF Sound, ProxyTypes
<1>3. ProxyTypes'
  BY <1>1, <1>2 DEF Sound, ProxyTypes, BackgroundSend, arrivals
<1>4. StoredFirst'
  BY DEF Sound, StoredFirst, BackgroundSend
<1> QED BY <1>3, <1>4 DEF Sound

LEMMA PollingSound ==
    ASSUME Sound, NEW s \in piped, PollingProcess(s)
    PROVE  Sound'
<1>1. proxyRuns' \in [ProxyTasks -> Nat]
  BY InvokedTypes DEF Sound, ProxyTypes, PollingProcess
<1>2. ProxyTypes'
  BY <1>1 DEF Sound, ProxyTypes, PollingProcess, arrivals
<1>3. StoredFirst'
  BY DEF Sound, StoredFirst, PollingProcess
<1> QED BY <1>2, <1>3 DEF Sound

(* The start of process_task leaves what was stored alone.                   *)
LEMMA StartTaskSound ==
    ASSUME Sound, NEW t \in Senders, NEW who \in {"stream", "consumer", "graph"}, StartTask(who, t)
    PROVE  /\ procs' \subseteq ProcType
           /\ \A p \in procs' : p.step = "count" => p.task \in kept
           /\ \A p \in procs' : ToSet(p.left) \cup p.ready \subseteq ToSet(InvokeList[p.task])
<1> DEFINE q == Proc(who, t)
<1>1. q \in ProcType /\ q.task = t /\ q.step = "store" /\ q.ready = {} /\ q.left = InvokeList[t]
  BY ProcIs
<1>2. procs' = procs \cup {q}
  BY DEF StartTask
<1> HIDE DEF q
<1> QED BY <1>1, <1>2 DEF Sound, ProxyTypes, StoredFirst

(* A message is handled, or waits in need_to_process.                        *)
Handled(who, t) ==
    IF t \in nodes THEN StartTask(who, t) /\ UNCHANGED need
    ELSE need' = Append(need, t) /\ UNCHANGED procs
LEMMA HandledSound ==
    ASSUME Sound, NEW t \in Senders, NEW who \in {"stream", "consumer", "graph"}, Handled(who, t)
    PROVE  /\ procs' \subseteq ProcType
           /\ \A p \in procs' : p.step = "count" => p.task \in kept
           /\ \A p \in procs' : ToSet(p.left) \cup p.ready \subseteq ToSet(InvokeList[p.task])
           /\ need' \in Seq(Senders) /\ Len(need') >= Len(need)
<1>1. need \in Seq(Senders) /\ draining <= Len(need) + 1 /\ draining \in Nat
  BY DEF Sound, ProxyTypes
<1>2. Len(need) \in Nat
  BY <1>1
<1>3. CASE t \in nodes
  <2>1. StartTask(who, t) /\ need' = need
    BY <1>3 DEF Handled
  <2>2. /\ procs' \subseteq ProcType
        /\ \A p \in procs' : p.step = "count" => p.task \in kept
        /\ \A p \in procs' : ToSet(p.left) \cup p.ready \subseteq ToSet(InvokeList[p.task])
    BY <2>1, StartTaskSound
  <2>3. need' \in Seq(Senders) /\ Len(need') >= Len(need)
    BY <1>1, <1>2, <2>1
  <2> QED BY <2>2, <2>3
<1>4. CASE t \notin nodes
  <2>1. need' = Append(need, t) /\ procs' = procs
    BY <1>4 DEF Handled
  <2>2. need' \in Seq(Senders) /\ Len(need') = Len(need) + 1
    BY <1>1, <2>1, FromAppend
  <2>3. Len(need') >= Len(need)
    BY <1>2, <2>2
  <2>4. /\ procs' \subseteq ProcType
        /\ \A p \in procs' : p.step = "count" => p.task \in kept
        /\ \A p \in procs' : ToSet(p.left) \cup p.ready \subseteq ToSet(InvokeList[p.task])
    BY <2>1 DEF Sound, ProxyTypes, StoredFirst
  <2> QED BY <2>2, <2>3, <2>4
<1> QED BY <1>3, <1>4

LEMMA HandleStartSound ==
    ASSUME Sound, HandleStart
    PROVE  Sound'
BY DEF Sound, ProxyTypes, StoredFirst, HandleStart, arrivals, proxyData, invoker

LEMMA StreamClosesSound ==
    ASSUME Sound, NEW t \in Senders, StreamCloses(t)
    PROVE  Sound'
BY DEF Sound, ProxyTypes, StoredFirst, StreamCloses, ReadsMessage, proxyData, invoker

LEMMA HandleSetSound ==
    ASSUME Sound, NEW t \in Senders, HandleSet(t)
    PROVE  Sound'
<1>1. Handled("stream", t)
  BY DEF HandleSet, Handled, Postpone
<1>2. /\ procs' \subseteq ProcType
      /\ \A p \in procs' : p.step = "count" => p.task \in kept
      /\ \A p \in procs' : ToSet(p.left) \cup p.ready \subseteq ToSet(InvokeList[p.task])
      /\ need' \in Seq(Senders) /\ Len(need') >= Len(need)
  BY <1>1, HandledSound
<1>3. Len(need) \in Nat /\ Len(need') \in Nat
  BY <1>2 DEF Sound, ProxyTypes
<1>4. ProxyTypes'
  BY <1>2, <1>3 DEF Sound, ProxyTypes, HandleSet, ReadsMessage, proxyData, invoker
<1>5. StoredFirst'
  BY <1>2 DEF Sound, StoredFirst, HandleSet, proxyData
<1> QED BY <1>4, <1>5 DEF Sound

LEMMA ConsumeSound ==
    ASSUME Sound, ConsumeMessage
    PROVE  Sound'
<1> DEFINE t == Head(messages)
<1>1. t \in Senders /\ messages' \in Seq(Senders)
  BY TailIs DEF Sound, ProxyTypes, ConsumeMessage
<1>2. Handled("consumer", t)
  BY DEF ConsumeMessage, Handled, Postpone
<1>3. /\ procs' \subseteq ProcType
      /\ \A p \in procs' : p.step = "count" => p.task \in kept
      /\ \A p \in procs' : ToSet(p.left) \cup p.ready \subseteq ToSet(InvokeList[p.task])
      /\ need' \in Seq(Senders) /\ Len(need') >= Len(need)
  BY <1>1, <1>2, HandledSound
<1>4. Len(need) \in Nat /\ Len(need') \in Nat
  BY <1>3 DEF Sound, ProxyTypes
<1>5. ProxyTypes'
  BY <1>1, <1>3, <1>4 DEF Sound, ProxyTypes, ConsumeMessage, arrivals, proxyData, invoker
<1>6. StoredFirst'
  BY <1>3 DEF Sound, StoredFirst, ConsumeMessage, proxyData
<1> QED BY <1>5, <1>6 DEF Sound

LEMMA TakeMessagesIs ==
    ASSUME Sound, TakeMessages
    PROVE  /\ messages = <<>> /\ messages' \in Seq(Senders) /\ channel' \in Seq(Senders)
           /\ ToSet(channel) = ToSet(messages') \cup ToSet(channel')
           /\ Distinct(channel) => /\ Distinct(messages') /\ Distinct(channel')
                                   /\ ToSet(messages') \cap ToSet(channel') = {}
<1>1. PICK n \in 1..Len(channel) :
         messages' = SubSeq(channel, 1, n) /\ channel' = SubSeq(channel, n + 1, Len(channel))
  BY DEF TakeMessages
<1>2. channel \in Seq(Senders) /\ n \in 0..Len(channel) /\ messages = <<>>
  BY DEF Sound, ProxyTypes, TakeMessages
<1> QED BY <1>1, <1>2, SplitIs

LEMMA TakeMessagesSound ==
    ASSUME Sound, TakeMessages
    PROVE  Sound'
<1>1. messages' \in Seq(Senders) /\ channel' \in Seq(Senders)
  BY TakeMessagesIs
<1>2. ProxyTypes'
  BY <1>1 DEF Sound, ProxyTypes, TakeMessages, proxyData, invoker
<1>3. StoredFirst'
  BY DEF Sound, StoredFirst, TakeMessages, proxyData
<1> QED BY <1>2, <1>3 DEF Sound

LEMMA GraphInitSound ==
    ASSUME Sound, GraphInit
    PROVE  Sound'
<1>1. inits' \in Nat /\ inits' <= Len(ProxyGraphs)
  BY ProxyAssumption DEF Sound, ProxyTypes, GraphInit
<1>2. ProxyTypes'
  BY <1>1 DEF Sound, ProxyTypes, GraphInit, arrivals, proxyData, invoker
<1>3. StoredFirst'
  BY DEF Sound, StoredFirst, GraphInit, proxyData
<1> QED BY <1>2, <1>3 DEF Sound

LEMMA LearnNodeSound ==
    ASSUME Sound, NEW t \in learning, LearnNode(t)
    PROVE  Sound'
<1>1. draining' \in Nat /\ draining' <= Len(need) + 1
  BY DEF Sound, ProxyTypes, LearnNode
<1>2. ProxyTypes'
  BY <1>1 DEF Sound, ProxyTypes, LearnNode, arrivals, proxyData, invoker
<1>3. StoredFirst'
  BY DEF Sound, StoredFirst, LearnNode, proxyData
<1> QED BY <1>2, <1>3 DEF Sound

LEMMA DrainStepSound ==
    ASSUME Sound, DrainStep
    PROVE  Sound'
<1>1. need \in Seq(Senders) /\ Len(need) \in Nat /\ draining \in Nat /\ draining > 0 /\ <<>> \in Seq(Senders)
  BY DEF Sound, ProxyTypes, DrainStep
<1>2. CASE draining > Len(need)
  <2>1. draining' = 0 /\ need' = <<>> /\ procs' = procs /\ failed' = failed
    BY <1>2 DEF DrainStep, NeedAfterDrain
  <2>2. ProxyTypes'
    BY <1>1, <2>1 DEF Sound, ProxyTypes, DrainStep, arrivals, proxyData, invoker
  <2>3. StoredFirst'
    BY <2>1 DEF Sound, StoredFirst, DrainStep, proxyData
  <2> QED BY <2>2, <2>3 DEF Sound
<1>3. CASE ~(draining > Len(need)) /\ need[draining] \in nodes
  <2> DEFINE t == need[draining]
  <2>1. StartTask("graph", t) /\ draining' = draining + 1 /\ need' = need /\ failed' = failed
    BY <1>3 DEF DrainStep
  <2>2. t \in Senders
    BY <1>1, <1>3
  <2>3. /\ procs' \subseteq ProcType
        /\ \A p \in procs' : p.step = "count" => p.task \in kept
        /\ \A p \in procs' : ToSet(p.left) \cup p.ready \subseteq ToSet(InvokeList[p.task])
    BY <2>1, <2>2, StartTaskSound
  <2> HIDE DEF t
  <2>4. ProxyTypes'
    BY <1>1, <1>3, <2>1, <2>3 DEF Sound, ProxyTypes, DrainStep, arrivals, proxyData, invoker
  <2>5. StoredFirst'
    BY <2>3 DEF Sound, StoredFirst, DrainStep, proxyData
  <2> QED BY <2>4, <2>5 DEF Sound
<1>4. CASE ~(draining > Len(need)) /\ need[draining] \notin nodes
  <2>1. draining' = 0 /\ failed' = TRUE /\ need' = need /\ procs' = procs
    BY <1>4 DEF DrainStep
  <2>2. ProxyTypes'
    BY <1>1, <2>1 DEF Sound, ProxyTypes, DrainStep, arrivals, proxyData, invoker
  <2>3. StoredFirst'
    BY <2>1 DEF Sound, StoredFirst, DrainStep, proxyData
  <2> QED BY <2>2, <2>3 DEF Sound
<1> QED BY <1>2, <1>3, <1>4

LEMMA SoundStep == Sound /\ ProxyNext => Sound'
BY SendSound, CountBecomeSound, HandleSetSound, StreamClosesSound, StoreSound, CountNextSound,
   InvokeReadySound, FailsSound, HandleStartSound, TakeMessagesSound, ConsumeSound, GraphInitSound,
   DrainStepSound, LearnNodeSound, BackgroundSendSound, PollingSound DEF ProxyNext
-----------------------------------------------------------------------------
(* As long as nothing fails: every message, edge and task once.              *)
LEMMA CountsKept ==
    ASSUME CountsOnce, edges' = edges,
           \A p \in procs' : (p.step = "store" => p.left = InvokeList[p.task]) /\ Distinct(p.left),
           \A e \in ProxyEdges : Counted(e[1], e[2])' <=> Counted(e[1], e[2])
    PROVE  CountsOnce'
BY DEF CountsOnce

LEMMA StartsKept ==
    ASSUME StartsOnce, edges' = edges, proxyRuns' = proxyRuns, buffered' = buffered, piped' = piped,
           Ready' = Ready, \A p, q \in procs' : p # q => p.ready \cap q.ready = {}
    PROVE  StartsOnce'
<1>1. Starting' = Starting
  BY DEF Starting
<1>2. \A s : Done(s)' <=> Done(s)
  BY DEF Done
<1> QED BY <1>1, <1>2 DEF StartsOnce

LEMMA StartingTasks ==
    ASSUME Sound
    PROVE  Starting \subseteq ProxyTasks
<1>1. ToSet(buffered) \subseteq ProxyTasks
  BY DEF Sound, ProxyTypes, ToSet
<1>2. \A p \in procs : p.ready \subseteq ProxyTasks
  BY DEF Sound, ProxyTypes, ProcType
<1>3. piped \subseteq ProxyTasks
  BY DEF Sound, ProxyTypes
<1> QED BY <1>1, <1>2, <1>3 DEF Starting, Ready

(* Steps that touch nothing of this but the places of messages.              *)
LEMMA MovedGood ==
    ASSUME Good, OnePlace', Waits', procs' = procs, edges' = edges, proxyRuns' = proxyRuns,
           buffered' = buffered, piped' = piped, sent' = sent, due' = due, Unhandled' = Unhandled
    PROVE  Good'
<1>1. \A e \in ProxyEdges : Counted(e[1], e[2])' <=> Counted(e[1], e[2])
  BY DEF Counted
<1>2. CountsOnce'
  BY <1>1, CountsKept DEF Good, CountsOnce
<1>3. StartsOnce'
  BY StartsKept DEF Good, StartsOnce, Ready
<1> QED BY <1>2, <1>3 DEF Good

LEMMA WaitsKept ==
    ASSUME Waits, Late' = Late, nodes' = nodes, learning' = learning, draining' = draining, inits' = inits
    PROVE  Waits'
BY DEF Waits, Announced

LEMMA SendGood ==
    ASSUME Sound, Good, NEW t \in Senders, NEW direct \in BOOLEAN, SendToProxy(t, direct)
    PROVE  Good'
<1>1. /\ t \notin sent /\ sent' = sent \cup {t} /\ procs' = procs /\ need' = need /\ draining' = draining
      /\ unread' = unread /\ messages' = messages /\ edges' = edges /\ proxyRuns' = proxyRuns
      /\ buffered' = buffered /\ piped' = piped
      /\ due' = IF ProxyBecome[t] = "none" THEN due ELSE due \cup {t}
      /\ nodes' = nodes /\ learning' = learning /\ inits' = inits
  BY DEF SendToProxy, proxyData, invoker
<1>2. t \notin Unhandled \cup Busy /\ Late' = Late /\ Busy' = Busy
  BY <1>1 DEF Good, OnePlace, Late, Busy
<1>3. \/ inbox' = inbox \cup {t} /\ channel' = channel
      \/ inbox' = inbox /\ ToSet(channel') = ToSet(channel) \cup {t} /\ Distinct(channel')
  <2>1. \/ inbox' = inbox \cup {t} /\ channel' = channel
        \/ inbox' = inbox /\ channel' = Append(channel, t)
    BY DEF SendToProxy
  <2>2. channel \in Seq(Senders) /\ Distinct(channel) /\ t \notin ToSet(channel)
    BY <1>2 DEF Sound, ProxyTypes, Good, OnePlace, Unhandled
  <2>3. ToSet(Append(channel, t)) = ToSet(channel) \cup {t} /\ Distinct(Append(channel, t))
    BY <2>2, AppendIs
  <2> QED BY <2>1, <2>3
<1>4. Unhandled' = Unhandled \cup {t}
  BY <1>1, <1>2, <1>3 DEF Unhandled
<1>5. Distinct(channel') /\ Distinct(messages')
  BY <1>1, <1>3 DEF Good, OnePlace
<1>6. Apart(ToSet(channel'), inbox', unread', ToSet(messages'), Late', Busy')
  <2>1. /\ t \notin ToSet(channel) /\ t \notin inbox /\ t \notin unread /\ t \notin ToSet(messages)
        /\ t \notin Late /\ t \notin Busy /\ ToSet(messages') = ToSet(messages)
    BY <1>1, <1>2 DEF Unhandled
  <2>2. Apart(ToSet(channel), inbox, unread, ToSet(messages), Late, Busy)
    BY DEF Good, OnePlace
  <2>3. CASE inbox' = inbox \cup {t} /\ channel' = channel
    BY <1>1, <1>2, <2>1, <2>2, <2>3 DEF Apart
  <2>4. CASE inbox' = inbox /\ ToSet(channel') = ToSet(channel) \cup {t}
    BY <1>1, <1>2, <2>1, <2>2, <2>4 DEF Apart
  <2> QED BY <1>3, <2>3, <2>4
<1>7. OnePlace'
  BY <1>1, <1>2, <1>4, <1>5, <1>6 DEF Good, OnePlace
<1>8. Waits'
  BY <1>1, <1>2, WaitsKept DEF Good
<1>9. \A e \in ProxyEdges : Counted(e[1], e[2])' <=> Counted(e[1], e[2])
  <2> TAKE e \in ProxyEdges
  <2>1. e[2] # "none"
    BY EdgeIs
  <2>2. e[2] = ProxyBecome[e[1]] => (e[1] \in sent' \ due' <=> e[1] \in sent \ due)
    BY <1>1, <2>1
  <2>3. e[1] \in sent' \ Unhandled' <=> e[1] \in sent \ Unhandled
    BY <1>1, <1>2, <1>4
  <2> QED BY <1>1, <2>2, <2>3 DEF Counted
<1>10. CountsOnce'
  BY <1>1, <1>9, CountsKept DEF Good, CountsOnce
<1>11. StartsOnce'
  BY <1>1, StartsKept DEF Good, StartsOnce, Ready
<1> QED BY <1>7, <1>8, <1>10, <1>11 DEF Good

(* A counter that gets complete was not, and others stay as they are.        *)
LEMMA CountFacts ==
    ASSUME Sound, NEW t, NEW s, <<t, s>> \in ProxyEdges, s \in ProxyTasks, CountEdge(t, s)
    PROVE  /\ Complete(t, s) => ~Done(s) /\ Done(s)'
           /\ ~Complete(t, s) => (Done(s)' <=> Done(s))
           /\ \A r \in ProxyTasks : r # s => (Done(r)' <=> Done(r))
<1> DEFINE c == CounterOf(edges, s)
<1>1. edges \in [ProxyEdges -> Nat] /\ edges' = [edges EXCEPT ![<<t, s>>] = @ + 1]
  BY DEF Sound, ProxyTypes, CountEdge
<1>2. \A r : /\ CounterOf(edges, r) \in Nat
            /\ CounterOf(edges', r) = IF r = s THEN CounterOf(edges, r) + 1 ELSE CounterOf(edges, r)
  <2> DEFINE d == <<t, s>>
  <2>1. /\ d \in ProxyEdges /\ d[2] = s
        /\ \A x \in ProxyEdges : edges'[x] = IF x = d THEN edges[x] + 1 ELSE edges[x]
    BY <1>1, CountEdgeTypes
  <2> HIDE DEF d
  <2> QED BY <1>1, <2>1, CounterNext
<1>3. c \in Nat /\ CounterOf(edges', s) = c + 1 /\ ProxyNumDeps[s] \in Nat
  BY <1>2, ProxyAssumption
<1>4. \A r \in ProxyTasks : r # s => CounterOf(edges', r) = CounterOf(edges, r)
  BY <1>2
<1>5. Complete(t, s) <=> c + 1 = ProxyNumDeps[s]
  BY <1>1, <1>3 DEF Complete
<1>6. \A r : Done(r)' <=> ProxyNumDeps[r] > 0 /\ CounterOf(edges', r) >= ProxyNumDeps[r]
  BY DEF Done
<1> HIDE DEF c
<1>7. Done(s) <=> ProxyNumDeps[s] > 0 /\ c >= ProxyNumDeps[s]
  BY DEF Done, c
<1>8. \A r \in ProxyTasks : r # s => (Done(r)' <=> Done(r))
  BY <1>4, <1>6 DEF Done
<1> QED BY <1>3, <1>5, <1>6, <1>7, <1>8

LEMMA CountBecomeGood ==
    ASSUME Sound, Good, NEW t \in Senders, CountBecome(t)
    PROVE  Good'
<1> DEFINE s == ProxyBecome[t]
           d == <<t, s>>
<1>1. /\ t \in due /\ due' = due \ {t} /\ CountEdge(t, s) /\ s # "none" /\ t \in sent
      /\ sent' = sent /\ procs' = procs /\ need' = need /\ draining' = draining /\ channel' = channel
      /\ inbox' = inbox /\ unread' = unread /\ messages' = messages
      /\ buffered' = buffered /\ piped' = piped
      /\ nodes' = nodes /\ learning' = learning /\ inits' = inits
      /\ proxyRuns' = IF Complete(t, s) THEN [proxyRuns EXCEPT ![s] = @ + 1] ELSE proxyRuns
  BY DEF CountBecome, Sound, ProxyTypes, invoker
<1>2. d \in ProxyEdges /\ s \in ProxyTasks
  BY <1>1, EdgeOf
<1>3. Late' = Late /\ Busy' = Busy /\ Unhandled' = Unhandled /\ Ready' = Ready /\ Starting' = Starting
  BY <1>1 DEF Late, Busy, Unhandled, Ready, Starting
<1>4. OnePlace'
  BY <1>1, <1>3 DEF Good, OnePlace
<1>5. Waits'
  BY <1>1, <1>3, WaitsKept DEF Good
<1>6. \A e \in ProxyEdges : edges'[e] = IF e = d THEN edges[e] + 1 ELSE edges[e]
  BY <1>1, CountEdgeTypes DEF Sound, ProxyTypes
<1>7. CountsOnce'
  <2>1. ASSUME NEW e \in ProxyEdges
        PROVE  edges'[e] = IF Counted(e[1], e[2])' THEN 1 ELSE 0
    <3>1. edges[e] = IF Counted(e[1], e[2]) THEN 1 ELSE 0
      BY DEF Good, CountsOnce
    <3>2. CASE e = d
      <4>1. ~Counted(t, s) /\ Counted(t, s)'
        BY <1>1 DEF Counted
      <4> QED BY <3>1, <3>2, <4>1, <1>6
    <3>3. CASE e # d
      <4>1. e[2] = ProxyBecome[e[1]] => e[1] # t
        BY <3>3, EdgeIs
      <4>2. Counted(e[1], e[2])' <=> Counted(e[1], e[2])
        BY <4>1, <1>1, <1>3 DEF Counted
      <4> QED BY <3>1, <3>3, <4>2, <1>6
    <3> QED BY <3>2, <3>3
  <2> QED BY <2>1, <1>1 DEF Good, CountsOnce
<1>8. StartsOnce'
  <2>1. /\ Complete(t, s) => ~Done(s) /\ Done(s)'
        /\ ~Complete(t, s) => (Done(s)' <=> Done(s))
        /\ \A r \in ProxyTasks : r # s => (Done(r)' <=> Done(r))
    BY <1>1, <1>2, CountFacts
  <2>2. /\ \A r \in Starting : Done(r) /\ r \in ProxyTasks
        /\ \A r \in ProxyTasks : proxyRuns[r] = IF Done(r) /\ r \notin Starting THEN 1 ELSE 0
    BY StartingTasks DEF Good, StartsOnce
  <2>3. \A r \in Starting : Done(r)'
    BY <2>1, <2>2
  <2>4. proxyRuns \in [ProxyTasks -> Nat]
    BY DEF Sound, ProxyTypes
  <2> HIDE DEF s
  <2>5. ASSUME NEW r \in ProxyTasks
        PROVE  proxyRuns'[r] = IF Done(r)' /\ r \notin Starting THEN 1 ELSE 0
    <3>1. CASE r = s /\ Complete(t, s)
      <4>1. r \notin Starting /\ proxyRuns[r] = 0 /\ Done(r)'
        BY <3>1, <2>1, <2>2
      <4>2. proxyRuns'[r] = proxyRuns[r] + 1
        BY <3>1, <1>1, <2>4
      <4> QED BY <4>1, <4>2
    <3>2. CASE r # s \/ ~Complete(t, s)
      <4>1. proxyRuns'[r] = proxyRuns[r] /\ (Done(r)' <=> Done(r))
        BY <3>2, <1>1, <2>1, <2>4
      <4> QED BY <4>1, <2>2
    <3> QED BY <3>1, <3>2
  <2> QED BY <2>3, <2>5, <1>1, <1>3 DEF Good, StartsOnce
<1> QED BY <1>4, <1>5, <1>7, <1>8 DEF Good

LEMMA CountNextGood ==
    ASSUME Sound, Good, NEW p \in procs, CountNext(p)
    PROVE  Good'
<1> DEFINE t == p.task
           s == Head(p.left)
           q == [p EXCEPT !.left = Tail(@),
                          !.ready = IF Complete(t, s) THEN p.ready \cup {s} ELSE p.ready]
           d == <<t, s>>
<1>1. /\ procs' = (procs \ {p}) \cup {q} /\ q.step = "count" /\ q.task = t /\ q.left = Tail(p.left)
      /\ q.ready = IF Complete(t, s) THEN p.ready \cup {s} ELSE p.ready
      /\ s \in ToSet(InvokeList[t]) /\ t \in Senders /\ ToSet(p.left) = {s} \cup ToSet(q.left)
  BY CountNextIs
<1>2. Distinct(q.left) /\ s \notin ToSet(q.left)
  <2>1. p.left \in Seq(ProxyTasks) /\ p.left # <<>> /\ Distinct(p.left)
    BY DEF CountNext, Sound, ProxyTypes, ProcType, Good, CountsOnce
  <2>2. Distinct(Tail(p.left)) /\ Head(p.left) \notin ToSet(Tail(p.left))
    BY <2>1, TailIs
  <2> QED BY <2>2, <1>1
<1> HIDE DEF q
<1>3. /\ CountEdge(t, s) /\ sent' = sent /\ due' = due /\ need' = need /\ draining' = draining
      /\ channel' = channel /\ inbox' = inbox /\ unread' = unread /\ messages' = messages
      /\ buffered' = buffered /\ piped' = piped /\ proxyRuns' = proxyRuns
      /\ nodes' = nodes /\ learning' = learning /\ inits' = inits
  BY DEF CountNext, arrivals, invoker
<1>4. d \in ProxyEdges /\ s \in ProxyTasks /\ s # ProxyBecome[t]
  BY <1>1, EdgeOf, SenderFacts
<1>5. Late' = Late /\ Unhandled' = Unhandled /\ Busy' = Busy
  BY <1>1, <1>3 DEF Late, Unhandled, Busy
<1>6. \A u, v \in procs : u.task = v.task => u = v
  BY DEF Good, OnePlace
<1>7. OnePlace'
  <2>1. \A u, v \in procs' : u.task = v.task => u = v
    BY <1>1, <1>6
  <2>2. Distinct(channel') /\ Distinct(messages') /\ FromOnce(need', draining')
    BY <1>3 DEF Good, OnePlace
  <2>3. Apart(ToSet(channel'), inbox', unread', ToSet(messages'), Late', Busy')
    BY <1>3, <1>5 DEF Good, OnePlace
  <2>4. Unhandled' \cup Busy' \subseteq sent'
    BY <1>3, <1>5 DEF Good, OnePlace
  <2> QED BY <2>1, <2>2, <2>3, <2>4 DEF OnePlace
<1>8. Waits'
  BY <1>3, <1>5, WaitsKept DEF Good
<1>9. \A e \in ProxyEdges : edges'[e] = IF e = d THEN edges[e] + 1 ELSE edges[e]
  BY <1>3, CountEdgeTypes DEF Sound, ProxyTypes
<1>10. t \in sent \ Unhandled
  BY DEF Good, OnePlace, Busy, Unhandled, Apart
<1>11. CountsOnce'
  <2>1. ASSUME NEW e \in ProxyEdges
        PROVE  edges'[e] = IF Counted(e[1], e[2])' THEN 1 ELSE 0
    <3>1. edges[e] = IF Counted(e[1], e[2]) THEN 1 ELSE 0
      BY DEF Good, CountsOnce
    <3>2. CASE e = d
      <4>1. ~Counted(t, s)
        BY <1>1, <1>4 DEF Counted
      <4>2. \A u \in procs' : u.task = t => s \notin ToSet(u.left)
        BY <1>1, <1>2, <1>6
      <4>3. Counted(t, s)'
        BY <1>3, <1>4, <1>5, <1>10, <4>2 DEF Counted
      <4> QED BY <3>1, <3>2, <4>1, <4>3, <1>9
    <3>3. CASE e # d
      <4>1. (\A u \in procs' : u.task = e[1] => e[2] \notin ToSet(u.left))
            <=> (\A u \in procs : u.task = e[1] => e[2] \notin ToSet(u.left))
        <5>1. e[1] # t \/ e[2] # s
          BY <3>3, EdgeIs
        <5>2. CASE e[1] # t
          BY <5>2, <1>1
        <5>3. CASE e[1] = t /\ e[2] # s
          <6>1. e[2] \in ToSet(q.left) <=> e[2] \in ToSet(p.left)
            BY <5>3, <1>1
          <6> QED BY <6>1, <1>1, <1>6
        <5> QED BY <5>1, <5>2, <5>3
      <4>2. Counted(e[1], e[2])' <=> Counted(e[1], e[2])
        BY <4>1, <1>3, <1>5 DEF Counted
      <4> QED BY <3>1, <3>3, <4>2, <1>9
    <3> QED BY <3>2, <3>3
  <2>2. \A u \in procs' : (u.step = "store" => u.left = InvokeList[u.task]) /\ Distinct(u.left)
    BY <1>1, <1>2 DEF Good, CountsOnce
  <2> QED BY <2>1, <2>2 DEF CountsOnce
<1>12. StartsOnce'
  <2>1. /\ Complete(t, s) => ~Done(s) /\ Done(s)'
        /\ ~Complete(t, s) => (Done(s)' <=> Done(s))
        /\ \A r \in ProxyTasks : r # s => (Done(r)' <=> Done(r))
    BY <1>3, <1>4, CountFacts
  <2>2. /\ \A r \in Starting : Done(r) /\ r \in ProxyTasks
        /\ \A r \in ProxyTasks : proxyRuns[r] = IF Done(r) /\ r \notin Starting THEN 1 ELSE 0
    BY StartingTasks DEF Good, StartsOnce
  <2>3. Complete(t, s) => s \notin Starting
    BY <2>1, <2>2
  <2>4. Ready' = Ready \cup (IF Complete(t, s) THEN {s} ELSE {})
    BY <1>1 DEF Ready
  <2> HIDE DEF s, t
  <2>5. Starting' = Starting \cup (IF Complete(t, s) THEN {s} ELSE {})
    BY <2>4, <1>3 DEF Starting
  <2>6. /\ Distinct(buffered') /\ ToSet(buffered') \cap (piped' \cup Ready') = {} /\ piped' \cap Ready' = {}
    BY <1>3, <2>3, <2>4 DEF Good, StartsOnce, Starting
  <2>7. \A u, v \in procs' : u # v => u.ready \cap v.ready = {}
    <3>1. \A u, v \in procs : u # v => u.ready \cap v.ready = {}
      BY DEF Good, StartsOnce
    <3>2. \A u \in procs : Complete(t, s) => s \notin u.ready
      BY <2>3 DEF Starting, Ready
    <3>3. \A u \in procs : u # p => u.ready \cap q.ready = {}
      BY <3>1, <3>2, <1>1
    <3> QED BY <3>1, <3>3, <1>1
  <2>8. \A r \in Starting' : Done(r)'
    BY <2>1, <2>2, <2>5
  <2>9. ASSUME NEW r \in ProxyTasks
        PROVE  proxyRuns'[r] = IF Done(r)' /\ r \notin Starting' THEN 1 ELSE 0
    <3>1. proxyRuns'[r] = IF Done(r) /\ r \notin Starting THEN 1 ELSE 0
      BY <2>2, <1>3
    <3>2. CASE r = s /\ Complete(t, s)
      BY <3>1, <3>2, <2>1, <2>5
    <3>3. CASE r # s \/ ~Complete(t, s)
      <4>1. (Done(r)' <=> Done(r)) /\ (r \in Starting' <=> r \in Starting)
        BY <3>3, <2>1, <2>5
      <4> QED BY <3>1, <4>1
    <3> QED BY <3>2, <3>3
  <2> QED BY <2>6, <2>7, <2>8, <2>9 DEF StartsOnce
<1> QED BY <1>7, <1>8, <1>11, <1>12 DEF Good

LEMMA StoreGood ==
    ASSUME Sound, Good, NEW p \in procs, StoreOutput(p)
    PROVE  Good'
<1> DEFINE q == [p EXCEPT !.step = "count"]
<1>1. q.step = "count" /\ q.task = p.task /\ q.left = p.left /\ q.ready = p.ready
  BY DEF Sound, ProxyTypes, ProcType
<1>2. /\ procs' = (procs \ {p}) \cup {q} /\ sent' = sent /\ due' = due /\ need' = need
      /\ draining' = draining /\ edges' = edges
      /\ channel' = channel /\ inbox' = inbox /\ unread' = unread /\ messages' = messages
      /\ buffered' = buffered /\ piped' = piped /\ proxyRuns' = proxyRuns
      /\ nodes' = nodes /\ learning' = learning /\ inits' = inits
  BY DEF StoreOutput, arrivals, invoker
<1> HIDE DEF q
<1>3. Late' = Late /\ Unhandled' = Unhandled /\ Busy' = Busy /\ Ready' = Ready
  BY <1>1, <1>2 DEF Late, Unhandled, Busy, Ready
<1>4. OnePlace'
  <2>1. \A u, v \in procs' : u.task = v.task => u = v
    BY <1>1, <1>2 DEF Good, OnePlace
  <2>2. Distinct(channel') /\ Distinct(messages') /\ FromOnce(need', draining')
    BY <1>2 DEF Good, OnePlace
  <2>3. Apart(ToSet(channel'), inbox', unread', ToSet(messages'), Late', Busy')
    BY <1>2, <1>3 DEF Good, OnePlace
  <2>4. Unhandled' \cup Busy' \subseteq sent'
    BY <1>2, <1>3 DEF Good, OnePlace
  <2> QED BY <2>1, <2>2, <2>3, <2>4 DEF OnePlace
<1>5. Waits'
  BY <1>2, <1>3, WaitsKept DEF Good
<1>6. \A e \in ProxyEdges : Counted(e[1], e[2])' <=> Counted(e[1], e[2])
  <2> TAKE e \in ProxyEdges
  <2>1. (\A u \in procs' : u.task = e[1] => e[2] \notin ToSet(u.left))
            <=> (\A u \in procs : u.task = e[1] => e[2] \notin ToSet(u.left))
    BY <1>1, <1>2
  <2> QED BY <2>1, <1>2, <1>3 DEF Counted
<1>7. CountsOnce'
  <2>1. \A u \in procs' : (u.step = "store" => u.left = InvokeList[u.task]) /\ Distinct(u.left)
    BY <1>1, <1>2 DEF Good, CountsOnce
  <2> QED BY <2>1, <1>2, <1>6, CountsKept DEF Good
<1>8. StartsOnce'
  <2>1. \A u, v \in procs' : u # v => u.ready \cap v.ready = {}
    <3>1. \A u, v \in procs : u # v => u.ready \cap v.ready = {}
      BY DEF Good, StartsOnce
    <3> QED BY <3>1, <1>1, <1>2
  <2> QED BY <2>1, <1>2, <1>3, StartsKept DEF Good
<1> QED BY <1>4, <1>5, <1>7, <1>8 DEF Good

LEMMA InvokeReadyGood ==
    ASSUME Sound, Good, NEW p \in procs, InvokeReady(p)
    PROVE  Good'
<1> DEFINE s == SetToSeq(p.ready)
<1>1. /\ buffered' = buffered \o s /\ s \in Seq(ProxyTasks) /\ Distinct(s) /\ ToSet(s) = p.ready
      /\ buffered \in Seq(ProxyTasks)
  BY InvokeReadyIs DEF Sound, ProxyTypes
<1> HIDE DEF s
<1>2. /\ procs' = procs \ {p} /\ p.left = <<>> /\ sent' = sent /\ due' = due /\ need' = need
      /\ draining' = draining /\ edges' = edges
      /\ channel' = channel /\ inbox' = inbox /\ unread' = unread /\ messages' = messages
      /\ piped' = piped /\ proxyRuns' = proxyRuns
      /\ nodes' = nodes /\ learning' = learning /\ inits' = inits
  BY DEF InvokeReady, arrivals
<1>3. Late' = Late /\ Unhandled' = Unhandled /\ Busy' \subseteq Busy
  BY <1>2 DEF Late, Unhandled, Busy
<1>4. OnePlace'
  <2>1. \A u, v \in procs' : u.task = v.task => u = v
    BY <1>2 DEF Good, OnePlace
  <2>2. Distinct(channel') /\ Distinct(messages') /\ FromOnce(need', draining')
    BY <1>2 DEF Good, OnePlace
  <2>3. Apart(ToSet(channel'), inbox', unread', ToSet(messages'), Late', Busy')
    <3>1. Apart(ToSet(channel), inbox, unread, ToSet(messages), Late, Busy)
      BY DEF Good, OnePlace
    <3> QED BY <3>1, <1>2, <1>3 DEF Apart
  <2>4. Unhandled' \cup Busy' \subseteq sent'
    BY <1>2, <1>3 DEF Good, OnePlace
  <2> QED BY <2>1, <2>2, <2>3, <2>4 DEF OnePlace
<1>5. Waits'
  BY <1>2, <1>3, WaitsKept DEF Good
<1>6. \A e \in ProxyEdges : Counted(e[1], e[2])' <=> Counted(e[1], e[2])
  <2> TAKE e \in ProxyEdges
  <2>1. (\A u \in procs' : u.task = e[1] => e[2] \notin ToSet(u.left))
            <=> (\A u \in procs : u.task = e[1] => e[2] \notin ToSet(u.left))
    BY <1>2, EmptyIs
  <2> QED BY <2>1, <1>2, <1>3 DEF Counted
<1>7. CountsOnce'
  <2>1. \A u \in procs' : (u.step = "store" => u.left = InvokeList[u.task]) /\ Distinct(u.left)
    BY <1>2 DEF Good, CountsOnce
  <2> QED BY <2>1, <1>2, <1>6, CountsKept DEF Good
<1>8. StartsOnce'
  <2>1. /\ Distinct(buffered) /\ ToSet(buffered) \cap (piped \cup Ready) = {} /\ piped \cap Ready = {}
        /\ \A u, v \in procs : u # v => u.ready \cap v.ready = {}
        /\ \A r \in Starting : Done(r)
        /\ \A r \in ProxyTasks : proxyRuns[r] = IF Done(r) /\ r \notin Starting THEN 1 ELSE 0
    BY DEF Good, StartsOnce
  <2>2. p.ready \subseteq Ready /\ Ready' = Ready \ p.ready
    BY <1>2, <2>1 DEF Ready
  <2>3. ToSet(buffered) \cap ToSet(s) = {}
    BY <1>1, <2>1, <2>2
  <2>4. ToSet(buffered') = ToSet(buffered) \cup p.ready /\ Distinct(buffered')
    BY <1>1, <2>1, <2>3, ConcatIs
  <2>5. Starting' = Starting
    BY <1>2, <2>2, <2>4 DEF Starting
  <2>6. \A r : Done(r)' <=> Done(r)
    BY <1>2 DEF Done
  <2>7. ToSet(buffered') \cap (piped' \cup Ready') = {} /\ piped' \cap Ready' = {}
    BY <1>2, <2>1, <2>2, <2>4
  <2> QED BY <1>2, <2>1, <2>4, <2>5, <2>6, <2>7 DEF StartsOnce
<1> QED BY <1>4, <1>5, <1>7, <1>8 DEF Good
-----------------------------------------------------------------------------
(* A message that is handled leaves its place, and its task is at work.      *)
LEMMA StartedGood ==
    ASSUME Sound, Good, NEW t \in Senders, NEW who \in {"stream", "consumer", "graph"}, StartTask(who, t),
           t \in Unhandled, Unhandled' = Unhandled \ {t}, Waits',
           Distinct(channel'), Distinct(messages'), FromOnce(need', draining'),
           Apart(ToSet(channel'), inbox', unread', ToSet(messages'), Late', Busy \cup {t}),
           sent' = sent, due' = due, edges' = edges, proxyRuns' = proxyRuns,
           buffered' = buffered, piped' = piped
    PROVE  Good'
<1> DEFINE q == Proc(who, t)
<1>1. q.task = t /\ q.step = "store" /\ q.ready = {} /\ q.left = InvokeList[t]
  BY ProcIs
<1>2. procs' = procs \cup {q}
  BY DEF StartTask
<1> HIDE DEF q
<1>3. Busy' = Busy \cup {t} /\ Ready' = Ready
  BY <1>1, <1>2 DEF Busy, Ready
<1>4. t \notin Busy /\ \A p \in procs : p.task # t
  BY DEF Good, OnePlace, Unhandled, Apart, Busy
<1>5. OnePlace'
  <2>1. \A u, v \in procs' : u.task = v.task => u = v
    BY <1>1, <1>2, <1>4 DEF Good, OnePlace
  <2>2. Unhandled' \cup Busy' \subseteq sent'
    BY <1>3 DEF Good, OnePlace
  <2>3. Apart(ToSet(channel'), inbox', unread', ToSet(messages'), Late', Busy')
    BY <1>3
  <2> QED BY <2>1, <2>2, <2>3 DEF OnePlace
<1>6. \A e \in ProxyEdges : Counted(e[1], e[2])' <=> Counted(e[1], e[2])
  <2> TAKE e \in ProxyEdges
  <2>1. CASE e[2] = ProxyBecome[e[1]]
    BY <2>1 DEF Counted
  <2>2. CASE e[2] # ProxyBecome[e[1]] /\ e[1] = t
    <3>1. e[2] \in ToSet(q.left)
      BY <2>2, <1>1, EdgeIs
    <3>2. ~Counted(e[1], e[2])
      BY <2>2 DEF Counted
    <3>3. q \in procs' /\ q.task = e[1]
      BY <2>2, <1>1, <1>2
    <3>4. ~Counted(e[1], e[2])'
      BY <2>2, <3>1, <3>3 DEF Counted
    <3> QED BY <3>2, <3>4
  <2>3. CASE e[2] # ProxyBecome[e[1]] /\ e[1] # t
    <3>1. (\A u \in procs' : u.task = e[1] => e[2] \notin ToSet(u.left))
            <=> (\A u \in procs : u.task = e[1] => e[2] \notin ToSet(u.left))
      BY <2>3, <1>1, <1>2
    <3> QED BY <2>3, <3>1 DEF Counted
  <2> QED BY <2>1, <2>2, <2>3
<1>7. CountsOnce'
  <2>1. \A u \in procs' : (u.step = "store" => u.left = InvokeList[u.task]) /\ Distinct(u.left)
    BY <1>1, <1>2, SenderFacts DEF Good, CountsOnce
  <2> QED BY <2>1, <1>6, CountsKept DEF Good
<1>8. StartsOnce'
  <2>1. \A u, v \in procs' : u # v => u.ready \cap v.ready = {}
    BY <1>1, <1>2 DEF Good, StartsOnce
  <2> QED BY <2>1, <1>3, StartsKept DEF Good
<1> QED BY <1>5, <1>7, <1>8 DEF Good

LEMMA HandledGood ==
    ASSUME Sound, Good, NEW t \in Senders, NEW who \in {"stream", "consumer", "graph"}, Handled(who, t),
           t \in inbox \cup ToSet(messages), inbox' = inbox \ {t}, ToSet(messages') = ToSet(messages) \ {t},
           Distinct(messages'), channel' = channel, unread' = unread, draining' = draining,
           nodes' = nodes, learning' = learning, inits' = inits,
           sent' = sent, due' = due, edges' = edges, proxyRuns' = proxyRuns,
           buffered' = buffered, piped' = piped
    PROVE  Good'
<1>1. /\ Distinct(channel) /\ FromOnce(need, draining)
      /\ Apart(ToSet(channel), inbox, unread, ToSet(messages), Late, Busy)
  BY DEF Good, OnePlace
<1>2. t \in Unhandled /\ t \notin ToSet(channel) /\ t \notin unread /\ t \notin Late /\ t \notin Busy
  BY <1>1 DEF Apart, Unhandled
<1>3. CASE t \in nodes
  <2>1. StartTask(who, t) /\ need' = need
    BY <1>3 DEF Handled
  <2>2. Late' = Late
    BY <2>1 DEF Late
  <2>3. Unhandled' = Unhandled \ {t}
    BY <1>2, <2>2 DEF Unhandled
  <2>4. Waits'
    BY <2>2, WaitsKept DEF Good
  <2>5. Apart(ToSet(channel'), inbox', unread', ToSet(messages'), Late', Busy \cup {t})
    BY <1>1, <1>2, <2>2 DEF Apart
  <2>6. Distinct(channel') /\ FromOnce(need', draining')
    BY <1>1, <2>1
  <2> QED BY <1>2, <2>1, <2>3, <2>4, <2>5, <2>6, StartedGood
<1>4. CASE t \notin nodes
  <2>1. need' = Append(need, t) /\ procs' = procs
    BY <1>4 DEF Handled
  <2>2. need \in Seq(Senders) /\ draining \in Nat /\ draining <= Len(need) + 1
    BY DEF Sound, ProxyTypes
  <2>3. Late' = Late \cup {t} /\ FromOnce(need', draining')
    <3>1. /\ From(Append(need, t), draining) = From(need, draining) \cup {t}
          /\ FromOnce(Append(need, t), draining)
      BY <1>1, <1>2, <2>2, FromAppend DEF Late
    <3> QED BY <2>1, <3>1 DEF Late
  <2>4. Unhandled' = Unhandled
    BY <1>2, <2>3 DEF Unhandled
  <2>5. Busy' = Busy
    BY <2>1 DEF Busy
  <2>6. Apart(ToSet(channel'), inbox', unread', ToSet(messages'), Late', Busy')
    BY <1>1, <1>2, <2>3, <2>5 DEF Apart
  <2>7. OnePlace'
    BY <1>1, <2>1, <2>3, <2>4, <2>5, <2>6 DEF Good, OnePlace
  <2>8. Waits'
    BY <1>4, <2>3 DEF Good, Waits, Announced
  <2> QED BY <2>1, <2>4, <2>7, <2>8, MovedGood
<1> QED BY <1>3, <1>4

LEMMA HandleSetGood ==
    ASSUME Sound, Good, NEW t \in Senders, HandleSet(t)
    PROVE  Good'
<1>1. Handled("stream", t)
  BY DEF HandleSet, Handled, Postpone
<1>2. /\ t \in inbox /\ inbox' = inbox \ {t} /\ messages' = messages /\ channel' = channel
      /\ unread' = unread /\ draining' = draining /\ nodes' = nodes /\ learning' = learning
      /\ inits' = inits /\ sent' = sent /\ due' = due /\ edges' = edges /\ proxyRuns' = proxyRuns
      /\ buffered' = buffered /\ piped' = piped
  BY DEF HandleSet, ReadsMessage, proxyData, invoker
<1>3. t \notin ToSet(messages) /\ Distinct(messages)
  BY <1>2 DEF Good, OnePlace, Apart
<1>4. ToSet(messages') = ToSet(messages) \ {t}
  BY <1>2, <1>3
<1> QED BY <1>1, <1>2, <1>3, <1>4, HandledGood

LEMMA ConsumeGood ==
    ASSUME Sound, Good, ConsumeMessage
    PROVE  Good'
<1> DEFINE t == Head(messages)
<1>1. Handled("consumer", t)
  BY DEF ConsumeMessage, Handled, Postpone
<1>2. /\ messages # <<>> /\ messages' = Tail(messages) /\ inbox' = inbox /\ channel' = channel
      /\ unread' = unread /\ draining' = draining /\ nodes' = nodes /\ learning' = learning
      /\ inits' = inits /\ sent' = sent /\ due' = due /\ edges' = edges /\ proxyRuns' = proxyRuns
      /\ buffered' = buffered /\ piped' = piped
  BY DEF ConsumeMessage, arrivals, proxyData, invoker
<1>3. messages \in Seq(Senders) /\ Distinct(messages)
  BY DEF Sound, ProxyTypes, Good, OnePlace
<1>4. /\ t \in Senders /\ ToSet(messages) = {t} \cup ToSet(messages')
      /\ Distinct(messages') /\ t \notin ToSet(messages')
  BY <1>2, <1>3, TailIs
<1> HIDE DEF t
<1>5. t \notin inbox
  BY <1>4 DEF Good, OnePlace, Apart
<1>6. inbox' = inbox \ {t} /\ ToSet(messages') = ToSet(messages) \ {t} /\ t \in inbox \cup ToSet(messages)
  BY <1>2, <1>4, <1>5
<1> QED BY <1>1, <1>2, <1>4, <1>6, HandledGood

LEMMA HandleStartGood == Good /\ HandleStart => Good'
<1> SUFFICES ASSUME Good, HandleStart PROVE Good'
  OBVIOUS
<1>1. UNCHANGED <<sent, due, channel, inbox, unread, nodes, need, inits, learning, messages, procs,
                  draining, buffered, piped, edges, proxyRuns>>
  BY DEF HandleStart, arrivals, proxyData, invoker
<1>2. Late' = Late /\ Busy' = Busy
  BY <1>1 DEF Late, Busy
<1>3. Unhandled' = Unhandled
  BY <1>1, <1>2 DEF Unhandled
<1>4. OnePlace'
  BY <1>1, <1>2, <1>3 DEF Good, OnePlace
<1>5. Waits'
  BY <1>1, <1>2, WaitsKept DEF Good
<1> QED BY <1>1, <1>3, <1>4, <1>5, MovedGood

LEMMA StreamClosesGood ==
    ASSUME Good, NEW t \in Senders, StreamCloses(t)
    PROVE  Good'
<1>1. /\ t \in inbox /\ inbox' = inbox \ {t} /\ unread' = unread \cup {t}
      /\ UNCHANGED <<sent, due, channel, nodes, need, inits, learning, messages, procs,
                     draining, buffered, piped, edges, proxyRuns>>
  BY DEF StreamCloses, ReadsMessage, proxyData, invoker
<1>2. Late' = Late /\ Busy' = Busy
  BY <1>1 DEF Late, Busy
<1>3. Unhandled' = Unhandled
  BY <1>1, <1>2 DEF Unhandled
<1>4. OnePlace'
  <2>1. Apart(ToSet(channel), inbox, unread, ToSet(messages), Late, Busy)
    BY DEF Good, OnePlace
  <2>2. Apart(ToSet(channel'), inbox', unread', ToSet(messages'), Late', Busy')
    BY <1>1, <1>2, <2>1 DEF Apart
  <2> QED BY <1>1, <1>2, <1>3, <2>2 DEF Good, OnePlace
<1>5. Waits'
  BY <1>1, <1>2, WaitsKept DEF Good
<1> QED BY <1>1, <1>3, <1>4, <1>5, MovedGood

LEMMA TakeMessagesGood ==
    ASSUME Sound, Good, TakeMessages
    PROVE  Good'
<1>1. UNCHANGED <<sent, due, inbox, unread, nodes, need, inits, learning, procs,
                  draining, buffered, piped, edges, proxyRuns>>
  BY DEF TakeMessages, proxyData, invoker
<1>2. Late' = Late /\ Busy' = Busy
  BY <1>1 DEF Late, Busy
<1>3. /\ ToSet(messages) = {} /\ ToSet(channel) = ToSet(messages') \cup ToSet(channel')
      /\ Distinct(messages') /\ Distinct(channel') /\ ToSet(messages') \cap ToSet(channel') = {}
  BY TakeMessagesIs, EmptyIs DEF Good, OnePlace
<1>4. Unhandled' = Unhandled
  BY <1>1, <1>2, <1>3 DEF Unhandled
<1>5. OnePlace'
  <2>1. Apart(ToSet(channel), inbox, unread, ToSet(messages), Late, Busy)
    BY DEF Good, OnePlace
  <2>2. Apart(ToSet(channel'), inbox', unread', ToSet(messages'), Late', Busy')
    BY <1>1, <1>2, <1>3, <2>1 DEF Apart
  <2> QED BY <1>1, <1>2, <1>3, <1>4, <2>2 DEF Good, OnePlace
<1>6. Waits'
  BY <1>1, <1>2, WaitsKept DEF Good
<1> QED BY <1>1, <1>4, <1>5, <1>6, MovedGood

LEMMA GraphInitGood ==
    ASSUME Sound, Good, GraphInit
    PROVE  Good'
<1>1. /\ draining = 0 /\ learning = {} /\ inits' = inits + 1 /\ learning' = ProxyGraphs[inits + 1]
      /\ UNCHANGED <<sent, due, channel, inbox, unread, nodes, need, messages, procs,
                     draining, buffered, piped, edges, proxyRuns>>
  BY DEF GraphInit, arrivals, proxyData, invoker
<1>2. Late' = Late /\ Busy' = Busy
  BY <1>1 DEF Late, Busy
<1>3. Unhandled' = Unhandled
  BY <1>1, <1>2 DEF Unhandled
<1>4. OnePlace'
  BY <1>1, <1>2, <1>3 DEF Good, OnePlace
<1>5. Waits'
  <2>1. inits \in Nat
    BY DEF Sound, ProxyTypes
  <2>2. 1..(inits + 1) = (1..inits) \cup {inits + 1}
    BY <2>1
  <2>3. Announced' = Announced \cup ProxyGraphs[inits + 1]
    BY <1>1, <2>2 DEF Announced
  <2>4. nodes = Announced /\ Late \cap nodes = {}
    BY <1>1 DEF Good, Waits
  <2> QED BY <1>1, <1>2, <2>3, <2>4 DEF Waits
<1> QED BY <1>1, <1>3, <1>4, <1>5, MovedGood

LEMMA LearnNodeGood ==
    ASSUME Sound, Good, NEW t \in learning, LearnNode(t)
    PROVE  Good'
<1>1. /\ draining = 0 /\ nodes' = nodes \cup {t} /\ learning' = learning \ {t}
      /\ draining' = (IF learning' = {} THEN 1 ELSE 0)
      /\ UNCHANGED <<sent, due, channel, inbox, unread, inits, need, messages, procs,
                     buffered, piped, edges, proxyRuns>>
  BY DEF LearnNode, arrivals, proxyData, invoker, Good, Waits
<1>2. Late' = Late /\ (FromOnce(need', draining') <=> FromOnce(need, draining)) /\ Busy' = Busy
  <2>1. From(need, 0) = From(need, 1) /\ (FromOnce(need, 0) <=> FromOnce(need, 1))
    BY FromStart DEF Sound, ProxyTypes
  <2>2. draining' = 0 \/ draining' = 1
    BY <1>1
  <2> QED BY <1>1, <2>1, <2>2 DEF Late, Busy
<1>3. Unhandled' = Unhandled
  BY <1>1, <1>2 DEF Unhandled
<1>4. OnePlace'
  BY <1>1, <1>2, <1>3 DEF Good, OnePlace
<1>5. Waits'
  <2>1. Announced' = Announced /\ nodes \cup learning = Announced
    BY <1>1 DEF Announced, Good, Waits
  <2> QED BY <1>1, <2>1 DEF Waits
<1> QED BY <1>1, <1>3, <1>4, <1>5, MovedGood

LEMMA DrainStepGood ==
    ASSUME Sound, Good, DrainStep, ~failed'
    PROVE  Good'
<1>1. /\ draining > 0
      /\ UNCHANGED <<sent, due, channel, inbox, unread, nodes, inits, learning, messages,
                     buffered, piped, edges, proxyRuns>>
  BY DEF DrainStep, arrivals, proxyData, invoker
<1>2. need \in Seq(Senders) /\ draining \in Nat /\ Len(need) \in Nat /\ learning = {}
  BY <1>1 DEF Sound, ProxyTypes, Good, Waits
<1>3. /\ FromOnce(need, draining)
      /\ Apart(ToSet(channel), inbox, unread, ToSet(messages), Late, Busy)
      /\ Distinct(channel) /\ Distinct(messages)
  BY DEF Good, OnePlace
<1>4. CASE draining > Len(need)
  <2>1. draining' = 0 /\ need' = <<>> /\ procs' = procs
    BY <1>4 DEF DrainStep, NeedAfterDrain
  <2>2. From(need, draining) = {} /\ From(<<>>, 0) = {} /\ FromOnce(<<>>, 0)
    BY <1>2, <1>4, FromEnd
  <2>3. Late = {} /\ Late' = {} /\ FromOnce(need', draining') /\ Busy' = Busy
    BY <2>1, <2>2 DEF Late, Busy
  <2>4. Unhandled' = Unhandled
    BY <1>1, <2>3 DEF Unhandled
  <2>5. OnePlace'
    BY <1>1, <2>1, <2>3, <2>4 DEF Good, OnePlace
  <2>6. Waits'
    <3>1. Announced' = Announced
      BY <1>1 DEF Announced
    <3> QED BY <1>1, <1>2, <2>3, <3>1 DEF Good, Waits
  <2> QED BY <1>1, <2>1, <2>4, <2>5, <2>6, MovedGood
<1>5. CASE ~(draining > Len(need)) /\ need[draining] \in nodes
  <2> DEFINE t == need[draining]
  <2>1. StartTask("graph", t) /\ draining' = draining + 1 /\ need' = need
    BY <1>5 DEF DrainStep
  <2>2. /\ t \in Senders /\ From(need, draining) = From(need, draining + 1) \cup {t}
        /\ FromOnce(need, draining + 1) /\ t \notin From(need, draining + 1)
    <3>1. draining \in 1..Len(need)
      BY <1>1, <1>2, <1>5
    <3> QED BY <1>2, <1>3, <3>1, FromNext
  <2> HIDE DEF t
  <2>3. Late = Late' \cup {t} /\ t \notin Late' /\ FromOnce(need', draining')
    BY <2>1, <2>2 DEF Late
  <2>4. t \notin ToSet(channel) /\ t \notin inbox /\ t \notin unread /\ t \notin ToSet(messages) /\ t \notin Busy
    BY <1>3, <2>3 DEF Apart
  <2>5. t \in Unhandled /\ Unhandled' = Unhandled \ {t}
    BY <1>1, <2>3, <2>4 DEF Unhandled
  <2>6. Apart(ToSet(channel'), inbox', unread', ToSet(messages'), Late', Busy \cup {t})
    BY <1>1, <1>3, <2>3, <2>4 DEF Apart
  <2>7. Waits'
    <3>1. Announced' = Announced
      BY <1>1 DEF Announced
    <3>2. draining' # 0
      BY <1>2, <2>1
    <3> QED BY <1>1, <1>2, <3>1, <3>2 DEF Good, Waits
  <2>8. Distinct(channel') /\ Distinct(messages')
    BY <1>1, <1>3
  <2> QED BY <1>1, <2>1, <2>2, <2>3, <2>5, <2>6, <2>7, <2>8, StartedGood
<1>6. CASE ~(draining > Len(need)) /\ need[draining] \notin nodes
  BY <1>6 DEF DrainStep
<1> QED BY <1>4, <1>5, <1>6

(* The invocations of the ProxyLambdaInvoker.                                *)
LEMMA InvokedGood ==
    ASSUME Sound, Good, NEW a \in SUBSET Starting, proxyRuns' = Invoked(proxyRuns, a),
           Starting' = Starting \ a, Distinct(buffered'), ToSet(buffered') \cap (piped' \cup Ready') = {},
           piped' \cap Ready' = {},
           UNCHANGED <<sent, due, channel, inbox, unread, nodes, inits, learning, messages,
                       need, draining, procs, edges>>
    PROVE  Good'
<1>1. Late' = Late /\ Busy' = Busy
  BY DEF Late, Busy
<1>2. Unhandled' = Unhandled
  BY <1>1 DEF Unhandled
<1>3. OnePlace'
  BY <1>1, <1>2 DEF Good, OnePlace
<1>4. Waits'
  BY <1>1, WaitsKept DEF Good
<1>5. \A e \in ProxyEdges : Counted(e[1], e[2])' <=> Counted(e[1], e[2])
  BY <1>2 DEF Counted
<1>6. CountsOnce'
  BY <1>5, CountsKept DEF Good, CountsOnce
<1>7. StartsOnce'
  <2>1. \A r : Done(r)' <=> Done(r)
    BY DEF Done
  <2>2. /\ \A r \in Starting : Done(r)
        /\ \A r \in ProxyTasks : proxyRuns[r] = IF Done(r) /\ r \notin Starting THEN 1 ELSE 0
        /\ \A u, v \in procs : u # v => u.ready \cap v.ready = {}
    BY DEF Good, StartsOnce
  <2>3. \A r \in ProxyTasks : proxyRuns'[r] = IF r \in a THEN proxyRuns[r] + 1 ELSE proxyRuns[r]
    BY InvokedTypes DEF Sound, ProxyTypes
  <2>4. ASSUME NEW r \in ProxyTasks
        PROVE  proxyRuns'[r] = IF Done(r)' /\ r \notin Starting' THEN 1 ELSE 0
    <3>1. CASE r \in a
      BY <3>1, <2>1, <2>2, <2>3
    <3>2. CASE r \notin a
      BY <3>2, <2>1, <2>2, <2>3
    <3> QED BY <3>1, <3>2
  <2>5. \A r \in Starting' : Done(r)'
    BY <2>1, <2>2
  <2> QED BY <2>2, <2>4, <2>5 DEF StartsOnce
<1> QED BY <1>3, <1>4, <1>6, <1>7 DEF Good

LEMMA BackgroundSendGood ==
    ASSUME Sound, Good, BackgroundSend
    PROVE  Good'
<1>1. PICK a, b \in SUBSET ProxyTasks :
           /\ ToSet(buffered) = a \cup b /\ (Distinct(buffered) => a \cap b = {})
           /\ buffered' = <<>> /\ proxyRuns' = Invoked(proxyRuns, a) /\ piped' = piped \cup b
  BY BackgroundSendIs
<1>2. UNCHANGED <<sent, due, channel, inbox, unread, nodes, inits, learning, messages,
                       need, draining, procs, edges>>
  BY DEF BackgroundSend, arrivals
<1>3. /\ Distinct(buffered) /\ ToSet(buffered) \cap (piped \cup Ready) = {} /\ piped \cap Ready = {}
  BY DEF Good, StartsOnce
<1>4. ToSet(buffered') = {} /\ Distinct(buffered') /\ Ready' = Ready
  BY <1>1, <1>2, EmptyIs DEF Ready
<1>5. a \in SUBSET Starting /\ Starting' = Starting \ a
  BY <1>1, <1>2, <1>3, <1>4 DEF Starting
<1>6. ToSet(buffered') \cap (piped' \cup Ready') = {} /\ piped' \cap Ready' = {}
  BY <1>1, <1>3, <1>4
<1> QED BY <1>1, <1>2, <1>4, <1>5, <1>6, InvokedGood

LEMMA PollingGood ==
    ASSUME Sound, Good, NEW s \in piped, PollingProcess(s)
    PROVE  Good'
<1> DEFINE a == {s}
<1>1. piped' = piped \ {s} /\ proxyRuns' = Invoked(proxyRuns, a) /\ buffered' = buffered
  BY DEF PollingProcess
<1>2. UNCHANGED <<sent, due, channel, inbox, unread, nodes, inits, learning, messages,
                       need, draining, procs, edges>>
  BY DEF PollingProcess, arrivals
<1>3. /\ Distinct(buffered) /\ ToSet(buffered) \cap (piped \cup Ready) = {} /\ piped \cap Ready = {}
  BY DEF Good, StartsOnce
<1>4. Ready' = Ready
  BY <1>2 DEF Ready
<1>5. a \in SUBSET Starting /\ Starting' = Starting \ a
  BY <1>1, <1>3, <1>4 DEF Starting
<1>6. /\ Distinct(buffered') /\ ToSet(buffered') \cap (piped' \cup Ready') = {} /\ piped' \cap Ready' = {}
  BY <1>1, <1>3, <1>4
<1> HIDE DEF a
<1> QED BY <1>1, <1>2, <1>5, <1>6, InvokedGood

LEMMA GoodStep == Sound /\ Good /\ ProxyNext /\ ~failed' => Good'
<1> SUFFICES ASSUME Sound, Good, ProxyNext, ~failed' PROVE Good'
  OBVIOUS
<1>1. ASSUME NEW p \in procs, ProcFails(p) PROVE FALSE
  BY <1>1 DEF ProcFails
<1> QED
  BY <1>1, SendGood, CountBecomeGood, HandleSetGood, StreamClosesGood, StoreGood, CountNextGood,
     InvokeReadyGood, HandleStartGood, TakeMessagesGood, ConsumeGood, GraphInitGood,
     DrainStepGood, LearnNodeGood, BackgroundSendGood, PollingGood DEF ProxyNext

LEMMA ProxyStep == ProxyInv /\ ProxyNext => ProxyInv'
<1> SUFFICES ASSUME ProxyInv, ProxyNext PROVE ProxyInv'
  OBVIOUS
<1>1. Sound /\ Sound'
  BY SoundStep DEF ProxyInv, Sound
<1>2. ~failed' => ~failed
  BY DEF ProxyNext, SendToProxy, CountBecome, HandleSet, StreamCloses, StoreOutput, CountNext,
         InvokeReady, ProcFails, HandleStart, TakeMessages, ConsumeMessage, GraphInit, DrainStep,
         LearnNode, BackgroundSend, PollingProcess
<1>3. ~failed' => Good'
  BY <1>1, <1>2, GoodStep DEF ProxyInv
<1> QED BY <1>1, <1>3 DEF ProxyInv, Sound

LEMMA ProxyRests == ProxyInv /\ UNCHANGED proxyVars => ProxyInv'
<1> SUFFICES ASSUME ProxyInv, UNCHANGED proxyVars PROVE ProxyInv'
  OBVIOUS
<1>1. ProxyTypes' /\ StoredFirst'
  BY DEF proxyVars, ProxyInv, ProxyTypes, StoredFirst
<1>2. UNCHANGED <<sent, due, channel, inbox, unread, nodes, inits, learning, messages,
                  need, draining, procs, edges, proxyRuns, buffered, piped, failed>>
  BY DEF proxyVars
<1>3. ASSUME Good PROVE Good'
  <2>1. Late' = Late /\ Busy' = Busy
    BY <1>2 DEF Late, Busy
  <2>2. Unhandled' = Unhandled
    BY <1>2, <2>1 DEF Unhandled
  <2>3. OnePlace'
    BY <1>2, <1>3, <2>1, <2>2 DEF Good, OnePlace
  <2>4. Waits'
    BY <1>2, <1>3, <2>1, WaitsKept DEF Good
  <2> QED BY <1>2, <1>3, <2>2, <2>3, <2>4, MovedGood
<1> QED BY <1>1, <1>2, <1>3 DEF ProxyInv

(* At rest, nothing waits: every graph is announced.                         *)
LEMMA ProxyInvMeans == ProxyInv => ProxyCountsOnce /\ ProxyStoresFirst /\ ProxyLeavesNothing
<1> SUFFICES ASSUME ProxyInv
             PROVE  ProxyCountsOnce /\ ProxyStoresFirst /\ ProxyLeavesNothing
  OBVIOUS
<1>1. ProxyStoresFirst
  BY DEF ProxyInv, StoredFirst, ProxyStoresFirst
<1>2. ProxyCountsOnce
  <2> SUFFICES ASSUME Good
               PROVE  (\A e \in ProxyEdges : edges[e] <= 1) /\ (\A s \in ProxyTasks : proxyRuns[s] <= 1)
    BY DEF ProxyInv, ProxyCountsOnce
  <2>1. \A e \in ProxyEdges : edges[e] \in {0, 1}
    BY DEF Good, CountsOnce
  <2>2. \A s \in ProxyTasks : proxyRuns[s] \in {0, 1}
    BY DEF Good, StartsOnce
  <2> QED BY <2>1, <2>2
<1>3. ProxyLeavesNothing
  <2> SUFFICES ASSUME Good, due = {}, channel = <<>>, inbox = {}, messages = <<>>, procs = {},
                      draining = 0, learning = {}, inits = Len(ProxyGraphs), buffered = <<>>, piped = {}
               PROVE  /\ \A e \in ProxyEdges : IF e[1] \in unread /\ e[2] # ProxyBecome[e[1]] THEN edges[e] = 0
                                     ELSE e[1] \in sent => edges[e] = 1
                      /\ \A s \in ProxyTasks : CounterOf(edges, s) = ProxyNumDeps[s] /\ ProxyNumDeps[s] > 0
                                         => proxyRuns[s] = 1
    BY DEF ProxyInv, ProxyLeavesNothing
  <2>1. Announced = ProxyTasks
    <3>1. {ProxyGraphs[i] : i \in 1..inits} = ToSet(ProxyGraphs)
      BY ProxyAssumption DEF ToSet
    <3> QED BY <3>1 DEF Announced, ProxyTasks
  <2>2. Late \subseteq ProxyTasks
    BY ProxyAssumption DEF ProxyInv, ProxyTypes, Late, From
  <2>3. Late = {}
    BY <2>1, <2>2 DEF Good, Waits
  <2>4. ToSet(channel) = {} /\ ToSet(messages) = {} /\ ToSet(buffered) = {}
    BY EmptyIs
  <2>5. Unhandled = unread
    BY <2>3, <2>4 DEF Unhandled
  <2>6. Starting = {}
    BY <2>4 DEF Starting, Ready
  <2>7. ASSUME NEW e \in ProxyEdges
        PROVE  IF e[1] \in unread /\ e[2] # ProxyBecome[e[1]] THEN edges[e] = 0
                                     ELSE e[1] \in sent => edges[e] = 1
    <3>1. edges[e] = IF Counted(e[1], e[2]) THEN 1 ELSE 0
      BY DEF Good, CountsOnce
    <3>2. CASE e[1] \in unread /\ e[2] # ProxyBecome[e[1]]
      BY <3>1, <3>2, <2>5 DEF Counted
    <3>3. CASE e[2] = ProxyBecome[e[1]]
      BY <3>1, <3>3 DEF Counted
    <3>4. CASE e[1] \notin unread /\ e[2] # ProxyBecome[e[1]]
      BY <3>1, <3>4, <2>5 DEF Counted
    <3> QED BY <3>2, <3>3, <3>4
  <2>8. ASSUME NEW s \in ProxyTasks, CounterOf(edges, s) = ProxyNumDeps[s], ProxyNumDeps[s] > 0
        PROVE  proxyRuns[s] = 1
    <3>1. ProxyNumDeps[s] \in Nat
      BY ProxyAssumption
    <3>2. Done(s)
      BY <2>8, <3>1 DEF Done
    <3> QED BY <3>2, <2>6 DEF Good, StartsOnce
  <2> QED BY <2>7, <2>8
<1> QED BY <1>1, <1>2, <1>3

(* However the set messages of Executors, the announcements of graphs, the   *)
(* coroutines of the proxy and its processes interleave, for any number of   *)
(* graphs and tasks and any invoke lists: as long as no coroutine ended with *)
(* an exception, each out-edge is counted and each task started once at      *)
(* most, and nothing is left behind; and, whatever fails, the proxy counts   *)
(* only for outputs that are stored.                                         *)
ProxyInFocus == focus = "proxy" => ProxyInv
THEOREM ProxyFansOutHolds == ServicesSpec => []ProxyFansOut
<1>1. ServicesInit => ProxyInFocus
  BY ProxyInitOK DEF ServicesInit, ProxyInFocus
<1>2. ProxyInFocus /\ [ServicesNext]_serviceVars => ProxyInFocus'
  <2> SUFFICES ASSUME ProxyInFocus, [ServicesNext]_serviceVars, focus' = "proxy"
               PROVE  ProxyInv'
    BY DEF ProxyInFocus
  <2>1. focus = "proxy" /\ (ProxyNext \/ UNCHANGED proxyVars)
    BY DEF ServicesNext, serviceVars
  <2> QED
    BY <2>1, ProxyStep, ProxyRests DEF ProxyInFocus
<1>3. ProxyInFocus => ProxyFansOut
  BY ProxyInvMeans DEF ProxyInFocus, ProxyFansOut
<1> QED
  BY <1>1, <1>2, <1>3, PTL DEF ServicesSpec
-----------------------------------------------------------------------------
(* The schedule.                                                             *)

Inside(t) == \E i \in 1..Len(frames) : frames[i].task = t
(* The dependents of a task scheduled so far.                                *)
Onward(t) == ToSet(invoke[t]) \cup ({become[t]} \ {None})
FrameType == [task : visited, path : DOMAIN paths, left : SUBSET Nodes]

ScheduleTypes ==
    /\ deps \in DagDeps /\ earlier \in [Nodes -> {"new", "memory", "processing"}]
    /\ \A t \in Nodes : earlier[t] # "new" => \A s \in deps[t] : earlier[s] # "new"
    /\ leaves = LeavesOf(deps, earlier) /\ visited \subseteq NewTasks
    /\ DOMAIN paths \subseteq visited /\ \A s \in DOMAIN paths : paths[s] \in Seq(visited)
    /\ DOMAIN startsAt = visited /\ \A t \in visited : startsAt[t] \in DOMAIN paths
    /\ DOMAIN become = visited /\ \A t \in visited : become[t] \in visited \cup {None}
    /\ DOMAIN invoke = visited /\ \A t \in visited : invoke[t] \in Seq(DOMAIN paths)
    /\ frames \in Seq(FrameType)

(* Each out-edge is scheduled once, or left to the call of DFS for the task. *)
EdgesOnce ==
    /\ \A t \in visited : Distinct(invoke[t]) /\ become[t] \notin ToSet(invoke[t])
    /\ \A t \in visited : Inside(t) \/ Onward(t) = Dependents(t)
    /\ \A i \in 1..Len(frames) :
          /\ frames[i].left \subseteq Dependents(frames[i].task)
          /\ Onward(frames[i].task) = Dependents(frames[i].task) \ frames[i].left
    /\ \A i, j \in 1..Len(frames) : frames[i].task = frames[j].task => i = j

(* Every path leads along the become edges to a task without one.            *)
Chain(p) == \A i \in 1..Len(p) : become[p[i]] = IF i < Len(p) THEN p[i + 1] ELSE None
Leads(s) == paths[s] # <<>> /\ paths[s][1] = s /\ Chain(paths[s])
PathsLead ==
    /\ \A s \in DOMAIN paths : Leads(s)
    /\ \A t \in visited : t \in ToSet(paths[startsAt[t]])

(* Only the task in front may be without a become task so far, and then it   *)
(* ends its own path and no other.                                           *)
TipOf(p) == p[Len(p)]
InFront ==
    /\ \A i \in 2..Len(frames) : become[frames[i].task] # None
    /\ frames # <<>> /\ become[Current] = None =>
          \A s \in DOMAIN paths : TipOf(paths[s]) = Current <=> s = frames[1].path

WhatIsStored ==
    redis.stored =>
        /\ frames = <<>> /\ leaves \subseteq visited
        /\ redis.maps = [s \in DOMAIN paths |-> NodesMap(paths[s])]
        /\ redis.counters = [t \in visited |-> InitialCounter(t)]

ScheduleInv == ScheduleTypes /\ EdgesOnce /\ PathsLead /\ InFront /\ WhatIsStored

LEMMA GraphIs ==
    ASSUME ScheduleTypes
    PROVE  /\ deps \in [Nodes -> SUBSET Nodes] /\ IsFiniteSet(Nodes) /\ None \notin Nodes
           /\ \A S \in SUBSET Nodes : S # {} => \E t \in S : deps[t] \cap S = {}
           /\ \A t : Dependents(t) \subseteq Nodes
           /\ \A t \in NewTasks : Dependents(t) \subseteq NewTasks
           /\ visited \subseteq Nodes /\ None \notin visited
<1>1. /\ deps \in [Nodes -> SUBSET Nodes] /\ IsFiniteSet(Nodes) /\ None \notin Nodes
      /\ \A S \in SUBSET Nodes : S # {} => \E t \in S : deps[t] \cap S = {}
  BY ScheduleAssumption DEF ScheduleTypes
<1>2. \A t : Dependents(t) \subseteq Nodes
  BY DEF Dependents
<1>3. \A t \in NewTasks : Dependents(t) \subseteq NewTasks
  BY DEF ScheduleTypes, Dependents, NewTasks
<1>4. visited \subseteq Nodes
  BY DEF ScheduleTypes, NewTasks
<1> QED BY <1>1, <1>2, <1>3, <1>4

(* The stack of calls.                                                       *)
LEMMA StackRest ==
    ASSUME NEW S, NEW s \in Seq(S), s # <<>>, NEW f \in S
    PROVE  LET g == <<f>> \o Tail(s) IN
           /\ g \in Seq(S) /\ g # <<>> /\ Len(g) = Len(s) /\ g[1] = f /\ \A i \in 2..Len(s) : g[i] = s[i]
<1> DEFINE g == <<f>> \o Tail(s)
<1>1. Len(s) \in Nat /\ Len(s) >= 1 /\ Tail(s) \in Seq(S) /\ Len(Tail(s)) = Len(s) - 1
  OBVIOUS
<1>2. g \in Seq(S) /\ Len(g) = Len(s) /\ g[1] = f
  BY <1>1
<1>3. ASSUME NEW i \in 2..Len(s) PROVE g[i] = s[i]
  <2>1. i - 1 \in 1..(Len(s) - 1) /\ i \in 1..Len(g) /\ i > 1
    BY <1>1, <1>2
  <2>2. g[i] = Tail(s)[i - 1]
    BY <1>1, <2>1
  <2>3. Tail(s)[i - 1] = s[(i - 1) + 1]
    BY <2>1
  <2>4. (i - 1) + 1 = i
    OBVIOUS
  <2> QED BY <2>2, <2>3, <2>4
<1>4. g # <<>>
  BY <1>1, <1>2
<1> QED BY <1>2, <1>3, <1>4

LEMMA StackPush ==
    ASSUME NEW S, NEW s \in Seq(S), NEW f \in S
    PROVE  LET g == <<f>> \o s IN
           /\ g \in Seq(S) /\ g # <<>> /\ Len(g) = Len(s) + 1 /\ g[1] = f
           /\ \A i \in 2..Len(s) + 1 : i - 1 \in 1..Len(s) /\ g[i] = s[i - 1]
<1> DEFINE g == <<f>> \o s
<1>1. g \in Seq(S) /\ Len(g) = Len(s) + 1 /\ g[1] = f /\ Len(s) \in Nat
  OBVIOUS
<1>2. ASSUME NEW i \in 2..Len(s) + 1 PROVE i - 1 \in 1..Len(s) /\ g[i] = s[i - 1]
  <2>1. i \in 1..Len(g) /\ i > 1 /\ i - 1 \in 1..Len(s)
    BY <1>1
  <2> QED BY <2>1, <1>1
<1> QED BY <1>1, <1>2

LEMMA StackPop ==
    ASSUME NEW S, NEW s \in Seq(S), s # <<>>
    PROVE  /\ Tail(s) \in Seq(S) /\ Len(Tail(s)) = Len(s) - 1 /\ Len(s) \in Nat /\ Len(s) >= 1
           /\ \A i \in 1..Len(Tail(s)) : i + 1 \in 2..Len(s) /\ Tail(s)[i] = s[i + 1]
OBVIOUS

(* A path never leads back to a task its end depends on.                     *)
LEMMA NoWayBack ==
    ASSUME ScheduleTypes, EdgesOnce, NEW p \in Seq(visited), p # <<>>, Chain(p)
    PROVE  p[1] \notin Dependents(TipOf(p))
<1> SUFFICES ASSUME TipOf(p) \in deps[p[1]] PROVE FALSE
  BY DEF Dependents
<1> DEFINE n == Len(p)
           S == {p[i] : i \in 1..n}
<1>1. n \in Nat /\ n >= 1 /\ (\A i \in 1..n : p[i] \in visited)
  OBVIOUS
<1>2. S \in SUBSET Nodes /\ S # {}
  BY <1>1, GraphIs
<1>3. PICK t \in S : deps[t] \cap S = {}
  BY <1>2, GraphIs
<1>4. PICK i \in 1..n : t = p[i]
  BY <1>3
<1>5. CASE i = 1
  <2>1. p[n] \in S
    BY <1>1
  <2> QED BY <1>3, <1>4, <1>5, <2>1 DEF TipOf
<1>6. CASE i # 1
  <2>1. i - 1 \in 1..n /\ i - 1 < n /\ (i - 1) + 1 = i
    BY <1>1, <1>6
  <2>2. become[p[i - 1]] = p[i] /\ p[i - 1] \in visited /\ p[i] # None
    BY <1>1, <2>1, GraphIs DEF Chain
  <2>3. p[i] \in Onward(p[i - 1])
    BY <2>2 DEF Onward
  <2>4. Onward(p[i - 1]) \subseteq Dependents(p[i - 1])
    BY <2>2 DEF EdgesOnce, Inside
  <2>5. p[i - 1] \in deps[p[i]] /\ p[i - 1] \in S
    BY <2>1, <2>3, <2>4 DEF Dependents
  <2> QED BY <1>3, <1>4, <2>5
<1> QED BY <1>5, <1>6

(* The path from a task on.                                                  *)
LEMMA PathFromIs ==
    ASSUME ScheduleTypes, PathsLead, NEW s \in visited
    PROVE  LET r == PathFrom(s) IN
           /\ r \in Seq(visited) /\ r # <<>> /\ r[1] = s /\ Chain(r) /\ Len(r) \in Nat /\ Len(r) >= 1
<1>1. CASE s \in DOMAIN paths
  <2> DEFINE r == paths[s]
  <2>1. r \in Seq(visited) /\ r # <<>> /\ r[1] = s /\ Chain(r)
    BY <1>1 DEF ScheduleTypes, PathsLead, Leads
  <2>2. PathFrom(s) = r
    BY <1>1 DEF PathFrom
  <2> HIDE DEF r
  <2>3. Len(r) \in Nat /\ Len(r) >= 1
    BY <2>1
  <2> QED BY <2>1, <2>2, <2>3
<1>2. CASE s \notin DOMAIN paths
  <2> DEFINE p == paths[startsAt[s]]
             n == Len(p)
             k == Idx(p, s)
             r == SubSeq(p, k, n)
  <2>1. /\ p \in Seq(visited) /\ n \in Nat /\ s \in ToSet(p) /\ Chain(p) /\ DOMAIN p = 1..n
    <3>1. startsAt[s] \in DOMAIN paths
      BY DEF ScheduleTypes
    <3>2. p \in Seq(visited) /\ s \in ToSet(p) /\ Chain(p)
      BY <3>1 DEF ScheduleTypes, PathsLead, Leads
    <3> HIDE DEF p
    <3> QED BY <3>2
  <2>2. k \in 1..n /\ p[k] = s
    <3>1. \E i \in DOMAIN p : p[i] = s
      BY <2>1 DEF ToSet
    <3>2. k \in DOMAIN p /\ p[k] = s
      BY <3>1 DEF Idx
    <3> QED BY <2>1, <3>2
  <2> HIDE DEF p, k
  <2>3. r \in Seq(visited) /\ Len(r) = n - k + 1 /\ Len(r) \in Nat /\ Len(r) >= 1
    BY <2>1, <2>2
  <2>4. \A i \in 1..Len(r) : r[i] = p[k + i - 1]
    BY <2>1, <2>2
  <2> HIDE DEF r
  <2>5. r[1] = s
    BY <2>2, <2>3, <2>4
  <2>6. ASSUME NEW i \in 1..Len(r)
        PROVE  become[r[i]] = IF i < Len(r) THEN r[i + 1] ELSE None
    <3> DEFINE j == k + i - 1
    <3>1. j \in 1..n /\ (i < Len(r) <=> j < n) /\ r[i] = p[j]
      BY <2>1, <2>2, <2>3, <2>4
    <3>2. ASSUME i < Len(r)
          PROVE  r[i + 1] = p[j + 1]
      <4>1. i + 1 \in 1..Len(r)
        BY <3>2, <2>3
      <4>2. r[i + 1] = p[k + (i + 1) - 1]
        BY <4>1, <2>4
      <4>3. k + (i + 1) - 1 = j + 1
        BY <2>2, <2>3
      <4> QED BY <4>2, <4>3
    <3>3. become[p[j]] = IF j < n THEN p[j + 1] ELSE None
      BY <2>1, <3>1 DEF Chain
    <3> HIDE DEF j
    <3> QED BY <3>1, <3>2, <3>3
  <2>7. PathFrom(s) = r
    BY <1>2 DEF PathFrom, SubPath, r, k, p
  <2>8. r # <<>>
    BY <2>3
  <2> QED BY <2>3, <2>5, <2>6, <2>7, <2>8 DEF Chain
<1> QED BY <1>1, <1>2

(* Without a become task, the task in front ends its path, and is on no      *)
(* other.                                                                    *)
LEMMA OnOnePath ==
    ASSUME ScheduleTypes, PathsLead, InFront, frames # <<>>, become[Current] = None
    PROVE  \A s \in DOMAIN paths : \A i \in 1..Len(paths[s]) :
               paths[s][i] = Current => s = frames[1].path /\ i = Len(paths[s])
<1> SUFFICES ASSUME NEW s \in DOMAIN paths, NEW i \in 1..Len(paths[s]), paths[s][i] = Current
             PROVE  s = frames[1].path /\ i = Len(paths[s])
  OBVIOUS
<1>1. paths[s] \in Seq(visited) /\ Chain(paths[s]) /\ None \notin visited
  BY GraphIs DEF ScheduleTypes, PathsLead, Leads
<1>2. i = Len(paths[s])
  <2> SUFFICES ASSUME i < Len(paths[s]) PROVE FALSE
    BY <1>1
  <2>1. become[Current] = paths[s][i + 1] /\ paths[s][i + 1] \in visited
    BY <1>1 DEF Chain
  <2> QED BY <1>1, <2>1
<1>3. s = frames[1].path
  BY <1>2 DEF InFront, TipOf
<1> QED BY <1>2, <1>3

LEMMA ChainKept ==
    ASSUME NEW p, Chain(p), \A x \in ToSet(p) : become'[x] = become[x], DOMAIN p = 1..Len(p)
    PROVE  \A i \in 1..Len(p) : become'[p[i]] = IF i < Len(p) THEN p[i + 1] ELSE None
BY DEF Chain, ToSet

LEMMA FrontIs ==
    ASSUME ScheduleTypes, frames # <<>>
    PROVE  /\ frames[1] \in FrameType /\ Current \in visited /\ frames[1].path \in DOMAIN paths
           /\ Len(frames) \in Nat /\ Len(frames) >= 1 /\ 1 \in 1..Len(frames)
           /\ frames[1].task = Current /\ frames[1].left \subseteq Nodes
           /\ \A i \in 1..Len(frames) : frames[i] \in FrameType
<1>1. frames \in Seq(FrameType)
  BY DEF ScheduleTypes
<1>2. Len(frames) \in Nat /\ Len(frames) >= 1 /\ \A i \in 1..Len(frames) : frames[i] \in FrameType
  BY <1>1
<1> QED BY <1>2 DEF FrameType, Current

LEMMA VisitIs ==
    ASSUME ScheduleTypes, PathsLead, NEW s \in NewTasks \ visited, NEW start,
           start = s \/ start \in DOMAIN paths, Visit(s, start)
    PROVE  /\ visited' = visited \cup {s} /\ start \in DOMAIN paths' /\ DOMAIN paths \subseteq DOMAIN paths'
           /\ DOMAIN paths' = DOMAIN paths \cup {start} /\ DOMAIN paths' \subseteq visited'
           /\ \A r \in DOMAIN paths : r # start => paths'[r] = paths[r]
           /\ paths'[start] = IF start = s THEN <<s>> ELSE Append(paths[start], s)
           /\ \A r \in DOMAIN paths' : paths'[r] \in Seq(visited')
           /\ DOMAIN startsAt' = visited' /\ \A t \in visited' : startsAt'[t] \in DOMAIN paths'
           /\ \A t \in visited' : t \in ToSet(paths'[startsAt'[t]])
<1>1. /\ visited' = visited \cup {s} /\ DOMAIN startsAt' = visited \cup {s} /\ startsAt'[s] = start
      /\ \A t \in visited : startsAt'[t] = startsAt[t] /\ startsAt[t] \in DOMAIN paths
  BY DEF Visit, ScheduleTypes, Put
<1>2. DOMAIN paths \subseteq visited /\ (\A r \in DOMAIN paths : paths[r] \in Seq(visited)) /\ s \notin visited
  BY DEF ScheduleTypes
<1>3. /\ DOMAIN paths' = DOMAIN paths \cup {start}
      /\ \A r \in DOMAIN paths : r # start => paths'[r] = paths[r]
      /\ paths'[start] = IF start = s THEN <<s>> ELSE Append(paths[start], s)
  <2>1. CASE start = s
    <3> DEFINE v == <<s>>
    <3>1. paths' = Put(paths, s, v)
      BY <2>1 DEF Visit
    <3> HIDE DEF v
    <3>2. /\ DOMAIN paths' = DOMAIN paths \cup {s} /\ paths'[s] = v
          /\ \A r \in DOMAIN paths : r # s => paths'[r] = paths[r]
      BY <3>1 DEF Put
    <3> QED BY <2>1, <3>2 DEF v
  <2>2. CASE start # s
    <3>1. paths' = [paths EXCEPT ![start] = Append(paths[start], s)] /\ start \in DOMAIN paths
      BY <2>2 DEF Visit
    <3> QED BY <2>2, <3>1
  <2> QED BY <2>1, <2>2
<1>4. paths'[start] \in Seq(visited') /\ s \in ToSet(paths'[start])
  <2>1. CASE start = s
    <3>1. <<s>> \in Seq(visited') /\ ToSet(<<s>>) = {s}
      BY <1>1 DEF ToSet
    <3> QED BY <2>1, <3>1, <1>3
  <2>2. CASE start # s
    <3>1. paths[start] \in Seq(visited')
      BY <1>1, <1>2, <2>2
    <3>2. Append(paths[start], s) \in Seq(visited') /\ s \in ToSet(Append(paths[start], s))
      BY <1>1, <3>1, AppendIs
    <3> QED BY <2>2, <3>2, <1>3
  <2> QED BY <2>1, <2>2
<1>5. \A r \in DOMAIN paths' : paths'[r] \in Seq(visited')
  <2>1. \A r \in DOMAIN paths : paths[r] \in Seq(visited')
    BY <1>1, <1>2
  <2> QED BY <2>1, <1>3, <1>4
<1>6. \A r \in DOMAIN paths : ToSet(paths[r]) \subseteq ToSet(paths'[r])
  <2> TAKE r \in DOMAIN paths
  <2>1. CASE r # start
    BY <2>1, <1>3
  <2>2. CASE r = start
    <3>1. start # s /\ paths[start] \in Seq(visited')
      BY <1>1, <1>2, <2>2
    <3>2. ToSet(Append(paths[start], s)) = ToSet(paths[start]) \cup {s}
      BY <1>1, <3>1, AppendIs
    <3> QED BY <2>2, <3>1, <3>2, <1>3
  <2> QED BY <2>1, <2>2
<1>7. \A t \in visited : t \in ToSet(paths[startsAt[t]])
  BY DEF PathsLead
<1>8. \A t \in visited' : t \in ToSet(paths'[startsAt'[t]])
  BY <1>1, <1>4, <1>6, <1>7
<1>9. \A t \in visited' : startsAt'[t] \in DOMAIN paths'
  BY <1>1, <1>3
<1> QED BY <1>1, <1>2, <1>3, <1>5, <1>8, <1>9

(* A path of one task.                                                       *)
LEMMA OneTaskPath ==
    ASSUME NEW s, become'[s] = None
    PROVE  LET p == <<s>> IN
           p # <<>> /\ p[1] = s /\ TipOf(p) = s /\ \A i \in 1..Len(p) : become'[p[i]] = IF i < Len(p) THEN p[i + 1] ELSE None
BY DEF TipOf

LEMMA OnwardIs ==
    ASSUME NEW t, become'[t] = become[t], invoke'[t] = invoke[t]
    PROVE  Onward(t)' = Onward(t)
BY DEF Onward

LEMMA DependentsKept == deps' = deps => \A t : Dependents(t)' = Dependents(t)
BY DEF Dependents

LEMMA SameGraph ==
    ASSUME ScheduleTypes, UNCHANGED <<deps, earlier, leaves>>
    PROVE  /\ deps' \in DagDeps /\ earlier' \in [Nodes -> {"new", "memory", "processing"}]
           /\ \A t \in Nodes : earlier'[t] # "new" => \A s \in deps'[t] : earlier'[s] # "new"
           /\ leaves' = LeavesOf(deps', earlier') /\ NewTasks' = NewTasks
BY DEF ScheduleTypes, NewTasks

LEMMA LeafOK ==
    ASSUME ScheduleInv, NEW t \in Nodes, SearchFromLeaf(t)
    PROVE  ScheduleInv'
<1> DEFINE f == Frame(t, t)
           v == <<>>
           fs == <<f>>
<1>1. /\ frames = <<>> /\ t \in NewTasks \ visited /\ Visit(t, t) /\ become' = Put(become, t, None)
      /\ invoke' = Put(invoke, t, v) /\ frames' = fs /\ UNCHANGED <<deps, earlier, leaves, redis>>
      /\ ~(leaves \subseteq visited)
  BY DEF SearchFromLeaf, graph, ScheduleInv, ScheduleTypes, LeavesOf, NewTasks
<1>t. ScheduleTypes /\ EdgesOnce /\ PathsLead
  BY DEF ScheduleInv
<1>2. /\ visited' = visited \cup {t} /\ t \in DOMAIN paths' /\ DOMAIN paths \subseteq DOMAIN paths'
      /\ DOMAIN paths' = DOMAIN paths \cup {t} /\ DOMAIN paths' \subseteq visited'
      /\ \A r \in DOMAIN paths : r # t => paths'[r] = paths[r]
      /\ paths'[t] = <<t>>
      /\ \A r \in DOMAIN paths' : paths'[r] \in Seq(visited')
      /\ DOMAIN startsAt' = visited' /\ \A u \in visited' : startsAt'[u] \in DOMAIN paths'
      /\ \A u \in visited' : u \in ToSet(paths'[startsAt'[u]])
  BY <1>1, <1>t, VisitIs
<1>e. v \in Seq(DOMAIN paths') /\ Distinct(v) /\ ToSet(v) = {}
  BY EmptyIs
<1> HIDE DEF v
<1>3. /\ DOMAIN become' = visited' /\ become'[t] = None /\ DOMAIN invoke' = visited' /\ invoke'[t] = v
      /\ \A u \in visited : become'[u] = become[u] /\ invoke'[u] = invoke[u]
  BY <1>1, <1>2, <1>t DEF ScheduleTypes, Put
<1>4. /\ f \in [task : visited', path : DOMAIN paths', left : SUBSET Nodes]
      /\ f.task = t /\ f.path = t /\ f.left = Dependents(t)
  BY <1>2, <1>t, GraphIs DEF Frame
<1> HIDE DEF f
<1>5. /\ fs \in Seq([task : visited', path : DOMAIN paths', left : SUBSET Nodes])
      /\ Len(fs) = 1 /\ fs[1] = f /\ fs # <<>>
  BY <1>4
<1> HIDE DEF fs
<1>6. ScheduleTypes'
  <2>1. visited' \subseteq NewTasks'
    BY <1>1, <1>2, <1>t, SameGraph DEF ScheduleTypes
  <2>2. \A u \in visited' : become'[u] \in visited' \cup {None} /\ invoke'[u] \in Seq(DOMAIN paths')
    <3> TAKE u \in visited'
    <3>1. CASE u = t
      BY <3>1, <1>3, <1>e
    <3>2. CASE u \in visited
      <4>1. invoke[u] \in Seq(DOMAIN paths) /\ become[u] \in visited \cup {None}
        BY <3>2, <1>t DEF ScheduleTypes
      <4> QED BY <3>2, <4>1, <1>2, <1>3
    <3> QED BY <3>1, <3>2, <1>2
  <2> QED BY <1>1, <1>2, <1>3, <1>5, <1>t, <2>1, <2>2, SameGraph DEF ScheduleTypes, FrameType
<1>7. EdgesOnce'
  <2>1. \A u : Dependents(u)' = Dependents(u)
    BY <1>1, DependentsKept
  <2>2. \A u \in visited : Onward(u)' = Onward(u)
    BY <1>3, OnwardIs
  <2>3. Onward(t)' = {}
    BY <1>3, <1>e DEF Onward
  <2>4. \A u : Inside(u)' <=> u = t
    BY <1>1, <1>4, <1>5 DEF Inside
  <2>5. \A u \in visited' : Distinct(invoke'[u]) /\ become'[u] \notin ToSet(invoke'[u])
    BY <1>2, <1>3, <1>e, <1>t DEF EdgesOnce
  <2>6. \A u \in visited' : Inside(u)' \/ Onward(u)' = Dependents(u)'
    <3>1. \A u \in visited : ~Inside(u)
      BY <1>1 DEF Inside
    <3>2. \A u \in visited : Onward(u) = Dependents(u)
      BY <3>1, <1>t DEF EdgesOnce
    <3> QED BY <3>2, <1>2, <2>1, <2>2, <2>4
  <2>7. (\A i \in 1..Len(frames) :
          /\ frames[i].left \subseteq Dependents(frames[i].task)
          /\ Onward(frames[i].task) = Dependents(frames[i].task) \ frames[i].left)'
    BY <1>1, <1>4, <1>5, <2>1, <2>3
  <2>8. \A i, j \in 1..Len(frames') : frames'[i].task = frames'[j].task => i = j
    BY <1>1, <1>5
  <2> QED BY <2>5, <2>6, <2>7, <2>8 DEF EdgesOnce
<1>8. PathsLead' /\ \A s \in DOMAIN paths' : TipOf(paths'[s]) = t <=> s = t
  <2>1. ASSUME NEW s \in DOMAIN paths', s # t
        PROVE  Leads(s)' /\ TipOf(paths'[s]) # t
    <3>1. s \in DOMAIN paths /\ paths'[s] = paths[s] /\ Chain(paths[s]) /\ paths[s] \in Seq(visited)
          /\ paths[s] # <<>> /\ paths[s][1] = s
      BY <2>1, <1>2, <1>t DEF PathsLead, ScheduleTypes, Leads
    <3>2. \A x \in ToSet(paths[s]) : x \in visited
      BY <3>1 DEF ToSet
    <3>3. Leads(s)'
      BY <3>1, <3>2, <1>3, ChainKept DEF Chain, Leads
    <3>4. TipOf(paths[s]) \in visited
      BY <3>1 DEF TipOf
    <3> QED BY <3>1, <3>3, <3>4, <1>1
  <2>2. Leads(t)' /\ TipOf(paths'[t]) = t
    BY <1>2, <1>3, OneTaskPath DEF Chain, Leads
  <2> QED BY <2>1, <2>2, <1>2 DEF PathsLead
<1>9. InFront'
  <2>1. Current' = t /\ frames'[1].path = t
    BY <1>1, <1>4, <1>5 DEF Current
  <2> QED BY <2>1, <1>8, <1>1, <1>5 DEF InFront
<1>10. WhatIsStored'
  BY <1>1 DEF ScheduleInv, WhatIsStored
<1> QED BY <1>6, <1>7, <1>8, <1>9, <1>10 DEF ScheduleInv

(* The stack of calls once a dependent of the task in front is taken.        *)
LEMMA RestIs ==
    ASSUME ScheduleTypes, frames # <<>>, NEW s
    PROVE  LET g == Rest(s) IN
           /\ g \in Seq(FrameType) /\ g # <<>> /\ Len(g) = Len(frames)
           /\ \A i \in 1..Len(frames) :
                 /\ g[i].task = frames[i].task /\ g[i].path = frames[i].path
                 /\ g[i].left = IF i = 1 THEN frames[1].left \ {s} ELSE frames[i].left
<1> DEFINE h == [frames[1] EXCEPT !.left = @ \ {s}]
           g == Rest(s)
<1>1. frames \in Seq(FrameType) /\ frames[1] \in FrameType
  BY FrontIs DEF ScheduleTypes
<1>2. /\ h \in FrameType /\ h.task = frames[1].task /\ h.path = frames[1].path
      /\ h.left = frames[1].left \ {s}
  BY <1>1 DEF FrameType
<1>3. g = <<h>> \o Tail(frames)
  BY DEF Rest
<1> HIDE DEF g, h
<1>4. /\ g \in Seq(FrameType) /\ g # <<>> /\ Len(g) = Len(frames) /\ g[1] = h
      /\ \A i \in 2..Len(frames) : g[i] = frames[i]
  BY <1>1, <1>2, <1>3, StackRest
<1>5. \A i \in 1..Len(frames) : i = 1 \/ i \in 2..Len(frames)
  BY FrontIs
<1> QED BY <1>2, <1>4, <1>5 DEF g

(* An edge from the task in front is scheduled.                              *)
Schedules(c, s) ==
    \/ become[c] = None /\ become'[c] = s /\ invoke'[c] = invoke[c]
    \/ become[c] # None /\ become'[c] = become[c] /\ invoke'[c] = Append(invoke[c], s)

LEMMA EdgeScheduled ==
    ASSUME ScheduleTypes, EdgesOnce, frames # <<>>, NEW s \in frames[1].left,
           NEW c, c = Current, Schedules(c, s)
    PROVE  /\ Onward(c)' = Onward(c) \cup {s} /\ Onward(c)' = Dependents(c) \ (frames[1].left \ {s})
           /\ Distinct(invoke'[c]) /\ become'[c] \notin ToSet(invoke'[c]) /\ become'[c] # None
<1>1. /\ frames[1].task = c /\ c \in visited /\ s \in Dependents(c) /\ s \notin Onward(c) /\ s # None
      /\ Onward(c) = Dependents(c) \ frames[1].left /\ frames[1].left \subseteq Dependents(c)
  BY FrontIs, GraphIs DEF EdgesOnce
<1>2. Distinct(invoke[c]) /\ become[c] \notin ToSet(invoke[c]) /\ invoke[c] \in Seq(DOMAIN paths)
  BY <1>1 DEF EdgesOnce, ScheduleTypes
<1>3. CASE become[c] = None /\ become'[c] = s /\ invoke'[c] = invoke[c]
  <2>1. Onward(c)' = Onward(c) \cup {s}
    BY <1>1, <1>3 DEF Onward
  <2>2. s \notin ToSet(invoke[c])
    BY <1>1 DEF Onward
  <2> QED BY <1>1, <1>2, <1>3, <2>1, <2>2
<1>4. CASE become[c] # None /\ become'[c] = become[c] /\ invoke'[c] = Append(invoke[c], s)
  <2> DEFINE T == DOMAIN paths \cup {s}
  <2>1. invoke[c] \in Seq(T) /\ s \in T
    BY <1>2
  <2> HIDE DEF T
  <2>2. ToSet(invoke'[c]) = ToSet(invoke[c]) \cup {s} /\ (Distinct(invoke[c]) /\ s \notin ToSet(invoke[c]) => Distinct(invoke'[c]))
    BY <2>1, <1>4, AppendIs
  <2>3. s \notin ToSet(invoke[c]) /\ become[c] # s
    BY <1>1, <1>4 DEF Onward
  <2>4. Onward(c)' = Onward(c) \cup {s}
    BY <1>4, <2>2 DEF Onward
  <2> QED BY <1>1, <1>2, <1>4, <2>2, <2>3, <2>4
<1> QED BY <1>3, <1>4 DEF Schedules

(* Without a visit: the stack of calls does not grow.                        *)
LEMMA EdgeStep ==
    ASSUME ScheduleTypes, EdgesOnce, frames # <<>>, NEW s \in frames[1].left, NEW c, c = Current,
           Schedules(c, s), \A u \in visited : u # c => become'[u] = become[u] /\ invoke'[u] = invoke[u],
           deps' = deps, visited' = visited, frames' = Rest(s)
    PROVE  EdgesOnce' /\ frames' # <<>> /\ Len(frames') = Len(frames) /\ Current' = c
<1> DEFINE g == Rest(s)
<1>1. /\ frames' = g /\ g # <<>> /\ Len(g) = Len(frames)
      /\ \A i \in 1..Len(frames) :
            /\ g[i].task = frames[i].task
            /\ g[i].left = IF i = 1 THEN frames[1].left \ {s} ELSE frames[i].left
  BY RestIs
<1> HIDE DEF g
<1>2. /\ frames[1].task = c /\ c \in visited /\ 1 \in 1..Len(frames)
      /\ \A i \in 1..Len(frames) : frames[i].task \in visited
  BY FrontIs DEF FrameType
<1>3. /\ Onward(c)' = Dependents(c) \ (frames[1].left \ {s})
      /\ Distinct(invoke'[c]) /\ become'[c] \notin ToSet(invoke'[c])
  BY EdgeScheduled
<1>4. \A u : Dependents(u)' = Dependents(u)
  BY DependentsKept
<1>5. \A u \in visited : u # c => Onward(u)' = Onward(u)
  BY OnwardIs
<1>6. \A u : Inside(u)' <=> Inside(u)
  BY <1>1 DEF Inside
<1>7. \A u \in visited' : Distinct(invoke'[u]) /\ become'[u] \notin ToSet(invoke'[u])
  BY <1>3 DEF EdgesOnce
<1>8. \A u \in visited' : Inside(u)' \/ Onward(u)' = Dependents(u)'
  <2>1. Inside(c)
    BY <1>2 DEF Inside
  <2> QED BY <2>1, <1>4, <1>5, <1>6 DEF EdgesOnce
<1>9. ASSUME NEW i \in 1..Len(g), NEW t, t = g[i].task
      PROVE  g[i].left \subseteq Dependents(t)' /\ Onward(t)' = Dependents(t)' \ g[i].left
  <2>1. /\ i \in 1..Len(frames) /\ frames[i].left \subseteq Dependents(t)
        /\ Onward(t) = Dependents(t) \ frames[i].left /\ t = frames[i].task
    BY <1>1, <1>9 DEF EdgesOnce
  <2>2. CASE i = 1
    BY <2>1, <2>2, <1>1, <1>2, <1>3, <1>4
  <2>3. CASE i # 1
    <3>1. t # c /\ t \in visited
      BY <2>1, <2>3, <1>2 DEF EdgesOnce
    <3> QED BY <2>1, <2>3, <3>1, <1>1, <1>4, <1>5
  <2> QED BY <2>2, <2>3
<1>10. \A i, j \in 1..Len(g) : g[i].task = g[j].task => i = j
  BY <1>1 DEF EdgesOnce
<1>11. EdgesOnce'
  BY <1>1, <1>7, <1>8, <1>9, <1>10 DEF EdgesOnce
<1>12. Current' = c
  BY <1>1, <1>2 DEF Current
<1> QED BY <1>1, <1>11, <1>12

(* Two paths in a row, when the first ends where the second is joined to it. *)
LEMMA ChainJoined ==
    ASSUME NEW S, NEW p \in Seq(S), NEW r \in Seq(S), p # <<>>, r # <<>>, Chain(p), Chain(r),
           NEW c, \A i \in 1..Len(p) : p[i] = c => i = Len(p), TipOf(p) = c, c \notin ToSet(r),
           \A x \in S : x # c => become'[x] = become[x], become'[c] = r[1]
    PROVE  LET q == p \o r IN
           /\ q # <<>> /\ q[1] = p[1] /\ ToSet(p) \subseteq ToSet(q) /\ q \in Seq(S)
           /\ \A i \in 1..Len(q) : become'[q[i]] = IF i < Len(q) THEN q[i + 1] ELSE None
<1> DEFINE m == Len(p)
           n == Len(r)
           q == p \o r
<1>1. /\ m \in Nat /\ n \in Nat /\ m >= 1 /\ n >= 1 /\ q \in Seq(S) /\ Len(q) = m + n
      /\ \A i \in 1..m : q[i] = p[i] /\ p[i] \in S
      /\ \A i \in 1..n : q[m + i] = r[i] /\ r[i] \in S
      /\ DOMAIN r = 1..n
  OBVIOUS
<1>2. q # <<>> /\ q[1] = p[1] /\ ToSet(p) \subseteq ToSet(q)
  BY <1>1, ConcatIs
<1> HIDE DEF q
<1>3. ASSUME NEW i \in 1..(m + n)
      PROVE  become'[q[i]] = IF i < m + n THEN q[i + 1] ELSE None
  <2>1. CASE i \in 1..m /\ i # m
    <3>1. q[i] = p[i] /\ i + 1 \in 1..m /\ q[i + 1] = p[i + 1] /\ i < m + n /\ i < m /\ p[i] \in S
      BY <2>1, <1>1
    <3>2. p[i] # c
      BY <2>1
    <3>3. become[p[i]] = p[i + 1]
      BY <2>1, <3>1 DEF Chain
    <3> QED BY <3>1, <3>2, <3>3
  <2>2. CASE i = m
    <3>1. q[i] = p[m] /\ q[m + 1] = r[1] /\ i < m + n
      BY <2>2, <1>1
    <3> QED BY <2>2, <3>1 DEF TipOf
  <2>3. CASE i \notin 1..m
    <3> DEFINE j == i - m
    <3>1. j \in 1..n /\ q[i] = r[j] /\ (i < m + n <=> j < n) /\ r[j] \in S
      <4>1. j \in 1..n /\ i = m + j
        BY <2>3, <1>1
      <4> HIDE DEF j
      <4> QED BY <4>1, <1>1
    <3>2. i < m + n => q[i + 1] = r[j + 1]
      <4> SUFFICES ASSUME i < m + n PROVE q[i + 1] = r[j + 1]
        OBVIOUS
      <4>1. j + 1 \in 1..n /\ i + 1 = m + (j + 1)
        BY <3>1, <1>1
      <4> HIDE DEF j
      <4> QED BY <4>1, <1>1
    <3>3. become[r[j]] = IF j < n THEN r[j + 1] ELSE None
      BY <3>1 DEF Chain
    <3>4. r[j] # c
      BY <3>1, <1>1 DEF ToSet
    <3> HIDE DEF j
    <3> QED BY <3>1, <3>2, <3>3, <3>4
  <2> QED BY <2>1, <2>2, <2>3
<1> QED BY <1>1, <1>2, <1>3 DEF q

LEMMA JoinPathOK ==
    ASSUME ScheduleInv, NEW s \in Nodes, JoinPath(s)
    PROVE  ScheduleInv'
<1>k. PICK k : k = frames[1].path
  OBVIOUS
<1> DEFINE p == paths[k]
           r == PathFrom(s)
<1>t. ScheduleTypes /\ EdgesOnce /\ PathsLead /\ InFront
  BY DEF ScheduleInv
<1>c. PICK c : c = Current
  OBVIOUS
<1>1. /\ frames # <<>> /\ s \in frames[1].left /\ s \in visited /\ become[c] = None
      /\ become' = [become EXCEPT ![c] = s] /\ invoke' = invoke /\ frames' = Rest(s)
      /\ paths' = [paths EXCEPT ![k] = p \o r] /\ visited' = visited /\ startsAt' = startsAt
      /\ UNCHANGED <<deps, earlier, leaves, redis>>
  BY <1>c, <1>k DEF JoinPath, Becomes, graph
<1>2. /\ c \in visited /\ k \in DOMAIN paths /\ frames[1].task = c /\ s \in Dependents(c) /\ c \in DOMAIN become
      /\ Len(frames) \in Nat /\ \A i \in 1..Len(frames) : frames[i].task \in visited
      /\ 1 \in 1..Len(frames)
  <2> QED BY <1>1, <1>c, <1>k, <1>t, FrontIs DEF EdgesOnce, ScheduleTypes, FrameType
<1>3. become'[c] = s /\ (\A u \in visited : u # c => become'[u] = become[u]) /\ DOMAIN become' = visited
  BY <1>1, <1>2, <1>t DEF ScheduleTypes
<1>4. /\ r \in Seq(visited) /\ r # <<>> /\ r[1] = s /\ Chain(r) /\ Len(r) \in Nat /\ Len(r) >= 1
  BY <1>1, <1>t, PathFromIs
<1>5. p \in Seq(visited) /\ p # <<>> /\ p[1] = k /\ Chain(p)
  BY <1>2, <1>t DEF ScheduleTypes, PathsLead, Leads
<1>6. \A x \in DOMAIN paths : \A i \in 1..Len(paths[x]) : paths[x][i] = c => x = k /\ i = Len(paths[x])
  BY <1>1, <1>c, <1>k, <1>t, OnOnePath
<1>7. TipOf(p) = c
  BY <1>1, <1>2, <1>c, <1>k, <1>t DEF InFront
<1> HIDE DEF p, r
<1>8. c \notin ToSet(r)
  <2> SUFFICES ASSUME NEW i \in 1..Len(r), r[i] = c PROVE FALSE
    BY <1>4 DEF ToSet
  <2>1. CASE i < Len(r)
    <3>1. become[c] = r[i + 1] /\ r[i + 1] \in visited
      BY <2>1, <1>4 DEF Chain
    <3> QED BY <3>1, <1>1, <1>t, GraphIs
  <2>2. CASE i = Len(r)
    <3>1. TipOf(r) = c
      BY <2>2 DEF TipOf
    <3> QED BY <3>1, <1>2, <1>4, <1>t, NoWayBack
  <2> QED BY <2>1, <2>2, <1>4
<1> DEFINE q == p \o r
<1>9. /\ q # <<>> /\ q[1] = k /\ ToSet(p) \subseteq ToSet(q) /\ q \in Seq(visited)
      /\ \A i \in 1..Len(q) : become'[q[i]] = IF i < Len(q) THEN q[i + 1] ELSE None
  <2>1. \A i \in 1..Len(p) : p[i] = c => i = Len(p)
    BY <1>6, <1>2 DEF p
  <2>2. \A x \in visited : x # c => become'[x] = become[x]
    BY <1>3
  <2>3. become'[c] = r[1]
    BY <1>3, <1>4
  <2>4. /\ q # <<>> /\ q[1] = p[1] /\ ToSet(p) \subseteq ToSet(q) /\ q \in Seq(visited)
        /\ \A i \in 1..Len(q) : become'[q[i]] = IF i < Len(q) THEN q[i + 1] ELSE None
    BY <2>1, <2>2, <2>3, <1>4, <1>5, <1>7, <1>8, ChainJoined
  <2> QED BY <2>4, <1>5
<1> HIDE DEF q
<1>10. /\ DOMAIN paths' = DOMAIN paths /\ paths'[k] = q
       /\ \A x \in DOMAIN paths : x # k => paths'[x] = paths[x]
  BY <1>1, <1>2 DEF q
<1>11. EdgesOnce' /\ frames' # <<>> /\ Len(frames') = Len(frames) /\ Current' = c
  <2>1. Schedules(c, s)
    BY <1>1, <1>3 DEF Schedules
  <2> QED BY <2>1, <1>1, <1>3, <1>c, <1>t, EdgeStep
<1> DEFINE g == Rest(s)
<1>12. /\ g \in Seq(FrameType) /\ \A i \in 1..Len(frames) : g[i].task = frames[i].task
  BY <1>1, <1>t, RestIs
<1> HIDE DEF g
<1>13. ScheduleTypes'
  <2>1. frames' \in Seq([task : visited', path : DOMAIN paths', left : SUBSET Nodes])
    BY <1>1, <1>10, <1>12 DEF g, FrameType
  <2>2. \A x \in DOMAIN paths' : paths'[x] \in Seq(visited')
    <3>1. ASSUME NEW x \in DOMAIN paths'
          PROVE  paths'[x] \in Seq(visited)
      <4>1. CASE x = k
        BY <4>1, <1>9, <1>10
      <4>2. CASE x # k
        <5>1. x \in DOMAIN paths /\ paths'[x] = paths[x]
          BY <4>2, <3>1, <1>10
        <5> QED BY <5>1, <1>t DEF ScheduleTypes
      <4> QED BY <4>1, <4>2
    <3> QED BY <3>1, <1>1
  <2>3. \A u \in visited' : become'[u] \in visited' \cup {None}
    BY <1>1, <1>3, <1>t DEF ScheduleTypes
  <2> QED BY <2>1, <2>2, <2>3, <1>1, <1>3, <1>10, <1>t, SameGraph DEF ScheduleTypes, FrameType
<1>14. PathsLead'
  <2>1. ASSUME NEW x \in DOMAIN paths', x # k
        PROVE  Leads(x)'
    <3>1. x \in DOMAIN paths /\ paths'[x] = paths[x] /\ Chain(paths[x]) /\ paths[x] \in Seq(visited)
          /\ paths[x] # <<>> /\ paths[x][1] = x
      BY <2>1, <1>10, <1>t DEF PathsLead, ScheduleTypes, Leads
    <3>2. DOMAIN paths[x] = 1..Len(paths[x]) /\ \A y \in ToSet(paths[x]) : y \in visited /\ y # c
      BY <3>1, <2>1, <1>6 DEF ToSet
    <3>3. \A y \in ToSet(paths[x]) : become'[y] = become[y]
      BY <3>2, <1>3
    <3>4. \A i \in 1..Len(paths[x]) : become'[paths[x][i]] = IF i < Len(paths[x]) THEN paths[x][i + 1] ELSE None
      BY <3>1, <3>2, <3>3, ChainKept
    <3> QED BY <3>1, <3>4 DEF Chain, Leads
  <2>2. Leads(k)'
    BY <1>9, <1>10 DEF Chain, Leads
  <2>3. \A u \in visited : u \in ToSet(paths'[startsAt[u]])
    <3>1. \A u \in visited : startsAt[u] \in DOMAIN paths /\ u \in ToSet(paths[startsAt[u]])
      BY <1>t DEF PathsLead, ScheduleTypes
    <3>2. \A x \in DOMAIN paths : ToSet(paths[x]) \subseteq ToSet(paths'[x])
      BY <1>9, <1>10 DEF p
    <3> QED BY <3>1, <3>2
  <2> QED BY <2>1, <2>2, <2>3, <1>1 DEF PathsLead
<1>15. InFront'
  <2>1. \A i \in 2..Len(frames) : become'[frames'[i].task] # None
    <3> TAKE i \in 2..Len(frames)
    <3>1. i \in 1..Len(frames) /\ i # 1
      BY <1>2
    <3>2. frames'[i].task = frames[i].task /\ frames[i].task # c /\ frames[i].task \in visited
      BY <3>1, <1>1, <1>2, <1>12, <1>t DEF g, EdgesOnce
    <3> QED BY <3>2, <1>3, <1>t DEF InFront
  <2>2. become'[Current'] # None
    BY <1>1, <1>3, <1>11, <1>t, GraphIs
  <2> QED BY <2>1, <2>2, <1>11 DEF InFront
<1>16. WhatIsStored'
  BY <1>1 DEF ScheduleInv, WhatIsStored
<1> QED BY <1>11, <1>13, <1>14, <1>15, <1>16 DEF ScheduleInv

LEMMA InvokePathOK ==
    ASSUME ScheduleInv, NEW s \in Nodes, InvokePath(s)
    PROVE  ScheduleInv'
<1> DEFINE r == PathFrom(s)
           g == Rest(s)
<1>t. ScheduleTypes /\ EdgesOnce /\ PathsLead /\ InFront
  BY DEF ScheduleInv
<1>c. PICK c : c = Current
  OBVIOUS
<1>1. /\ frames # <<>> /\ s \in frames[1].left /\ s \in visited /\ become[c] # None
      /\ invoke' = [invoke EXCEPT ![c] = Append(@, s)] /\ become' = become /\ frames' = g
      /\ paths' = Put(paths, s, r) /\ visited' = visited /\ startsAt' = startsAt
      /\ UNCHANGED <<deps, earlier, leaves, redis>>
  BY <1>c DEF InvokePath, Invokes, graph
<1>2. /\ c \in visited /\ frames[1].task = c /\ c \in DOMAIN invoke
      /\ Len(frames) \in Nat /\ \A i \in 1..Len(frames) : frames[i].task \in visited
  BY <1>1, <1>c, <1>t, FrontIs DEF ScheduleTypes, FrameType
<1>3. /\ invoke'[c] = Append(invoke[c], s) /\ (\A u \in visited : u # c => invoke'[u] = invoke[u])
      /\ DOMAIN invoke' = visited
  BY <1>1, <1>2, <1>t DEF ScheduleTypes
<1>4. r \in Seq(visited) /\ r # <<>> /\ r[1] = s /\ Chain(r)
  BY <1>1, <1>t, PathFromIs
<1>5. s \in DOMAIN paths => r = paths[s]
  BY DEF PathFrom
<1> HIDE DEF r
<1>6. /\ DOMAIN paths' = DOMAIN paths \cup {s} /\ paths'[s] = r
      /\ \A x \in DOMAIN paths : paths'[x] = paths[x]
  BY <1>1, <1>5 DEF Put
<1>7. EdgesOnce' /\ frames' # <<>> /\ Len(frames') = Len(frames) /\ Current' = c
  <2>1. Schedules(c, s)
    BY <1>1, <1>3 DEF Schedules
  <2> QED BY <2>1, <1>1, <1>3, <1>c, <1>t, EdgeStep
<1>8. /\ g \in Seq(FrameType) /\ \A i \in 1..Len(frames) : g[i].task = frames[i].task
  BY <1>1, <1>t, RestIs
<1> HIDE DEF g
<1>9. ScheduleTypes'
  <2>1. frames' \in Seq([task : visited', path : DOMAIN paths', left : SUBSET Nodes])
    <3> DEFINE F == [task : visited', path : DOMAIN paths', left : SUBSET Nodes]
    <3>1. FrameType \subseteq F
      BY <1>1, <1>6 DEF FrameType
    <3> HIDE DEF F
    <3>2. g \in Seq(F)
      BY <3>1, <1>8
    <3> QED BY <3>2, <1>1 DEF F
  <2>2. DOMAIN paths' \subseteq visited' /\ \A x \in DOMAIN paths' : paths'[x] \in Seq(visited')
    BY <1>1, <1>4, <1>6, <1>t DEF ScheduleTypes
  <2>3. \A u \in visited' : invoke'[u] \in Seq(DOMAIN paths')
    <3> TAKE u \in visited'
    <3>1. invoke[u] \in Seq(DOMAIN paths') /\ s \in DOMAIN paths'
      BY <1>1, <1>6, <1>t DEF ScheduleTypes
    <3>2. Append(invoke[u], s) \in Seq(DOMAIN paths')
      BY <3>1
    <3> QED BY <3>1, <3>2, <1>1, <1>3
  <2> QED BY <2>1, <2>2, <2>3, <1>1, <1>3, <1>6, <1>t, SameGraph DEF ScheduleTypes, FrameType
<1>10. PathsLead'
  <2>1. ASSUME NEW x \in DOMAIN paths'
        PROVE  Leads(x)'
    <3>1. paths'[x] # <<>> /\ paths'[x][1] = x /\ Chain(paths'[x])
      <4>1. CASE x \in DOMAIN paths
        BY <4>1, <1>6, <1>t DEF PathsLead, Leads
      <4>2. CASE x = s
        BY <4>2, <1>4, <1>6
      <4> QED BY <4>1, <4>2, <2>1, <1>6
    <3> QED BY <3>1, <1>1 DEF Chain, Leads
  <2>2. \A u \in visited : u \in ToSet(paths'[startsAt[u]])
    BY <1>6, <1>t DEF PathsLead, ScheduleTypes
  <2> QED BY <2>1, <2>2, <1>1 DEF PathsLead
<1>11. InFront'
  <2>1. \A i \in 2..Len(frames) : become'[frames'[i].task] # None
    <3> TAKE i \in 2..Len(frames)
    <3>1. i \in 1..Len(frames)
      BY <1>2
    <3> QED BY <3>1, <1>1, <1>8, <1>t DEF InFront
  <2> QED BY <2>1, <1>1, <1>7 DEF InFront
<1>12. WhatIsStored'
  BY <1>1 DEF ScheduleInv, WhatIsStored
<1> QED BY <1>7, <1>9, <1>10, <1>11, <1>12 DEF ScheduleInv

(* The stack of calls with one for the dependent on top.                     *)
Pushed(g, f, s, S) == f \in S /\ Rest(s) \in Seq(S) /\ g = <<f>> \o Rest(s)
HasCalls(g, f, s, S) ==
    /\ g \in Seq(S) /\ g # <<>> /\ Len(g) = Len(frames) + 1 /\ g[1] = f
    /\ \A i \in 2..Len(frames) + 1 :
          /\ i - 1 \in 1..Len(frames)
          /\ g[i].task = frames[i - 1].task /\ g[i].path = frames[i - 1].path
          /\ g[i].left = IF i = 2 THEN frames[1].left \ {s} ELSE frames[i - 1].left

LEMMA PushedIs ==
    ASSUME ScheduleTypes, frames # <<>>, NEW s, NEW S, NEW f, NEW g, Pushed(g, f, s, S)
    PROVE  HasCalls(g, f, s, S)
<1> DEFINE h == Rest(s)
<1>1. /\ h \in Seq(FrameType) /\ Len(h) = Len(frames)
      /\ \A i \in 1..Len(frames) :
            /\ h[i].task = frames[i].task /\ h[i].path = frames[i].path
            /\ h[i].left = IF i = 1 THEN frames[1].left \ {s} ELSE frames[i].left
  BY RestIs
<1> HIDE DEF h
<1>2. h \in Seq(S) /\ Len(frames) \in Nat
  BY FrontIs DEF h, Pushed
<1>3. /\ g \in Seq(S) /\ g # <<>> /\ Len(g) = Len(h) + 1 /\ g[1] = f
      /\ \A i \in 2..Len(h) + 1 : i - 1 \in 1..Len(h) /\ g[i] = h[i - 1]
  <2> DEFINE z == <<f>> \o h
  <2>1. /\ z \in Seq(S) /\ z # <<>> /\ Len(z) = Len(h) + 1 /\ z[1] = f
        /\ \A i \in 2..Len(h) + 1 : i - 1 \in 1..Len(h) /\ z[i] = h[i - 1]
    BY <1>2, StackPush DEF Pushed
  <2>2. g = z
    BY DEF h, Pushed
  <2> HIDE DEF z
  <2> QED BY <2>1, <2>2
<1>4. ASSUME NEW i \in 2..Len(frames) + 1
      PROVE  /\ i - 1 \in 1..Len(frames)
             /\ g[i].task = frames[i - 1].task /\ g[i].path = frames[i - 1].path
             /\ g[i].left = IF i = 2 THEN frames[1].left \ {s} ELSE frames[i - 1].left
  <2>1. i - 1 \in 1..Len(frames) /\ g[i] = h[i - 1]
    BY <1>1, <1>3
  <2>2. i = 2 <=> i - 1 = 1
    OBVIOUS
  <2> DEFINE j == i - 1
  <2>3. /\ h[j].task = frames[j].task /\ h[j].path = frames[j].path
        /\ h[j].left = IF j = 1 THEN frames[1].left \ {s} ELSE frames[j].left
    BY <2>1, <1>1
  <2> HIDE DEF j
  <2> QED BY <2>1, <2>2, <2>3 DEF j
<1> QED BY <1>1, <1>3, <1>4 DEF HasCalls

(* The path in front, with the dependent appended.                           *)
Extended(q, p, c, s, S) ==
    /\ p \in Seq(S) /\ s \in S /\ q = Append(p, s) /\ p # <<>> /\ Chain(p) /\ TipOf(p) = c
    /\ s \notin ToSet(p) /\ \A i \in 1..Len(p) : p[i] = c => i = Len(p)
    /\ become'[c] = s /\ become'[s] = None
    /\ \A x \in S : x # c /\ x # s => become'[x] = become[x]
ChainNext(q) == \A i \in 1..Len(q) : become'[q[i]] = IF i < Len(q) THEN q[i + 1] ELSE None

LEMMA ChainExtended ==
    ASSUME NEW q, NEW p, NEW c, NEW s, NEW S, Extended(q, p, c, s, S)
    PROVE  q # <<>> /\ q[1] = p[1] /\ TipOf(q) = s /\ ChainNext(q)
<1> DEFINE m == Len(p)
<1>1. /\ m \in Nat /\ m >= 1 /\ Len(q) = m + 1 /\ q[m + 1] = s /\ q # <<>>
      /\ \A i \in 1..m : q[i] = p[i] /\ p[i] \in S
  BY DEF Extended
<1>2. ASSUME NEW i \in 1..(m + 1)
      PROVE  become'[q[i]] = IF i < m + 1 THEN q[i + 1] ELSE None
  <2>1. CASE i \in 1..m /\ i # m
    <3>1. q[i] = p[i] /\ i + 1 \in 1..m /\ q[i + 1] = p[i + 1] /\ i < m + 1 /\ i < m /\ p[i] \in S
      BY <2>1, <1>1
    <3>2. p[i] # c /\ p[i] # s
      BY <2>1 DEF ToSet, Extended
    <3>3. become[p[i]] = p[i + 1]
      BY <2>1, <3>1 DEF Chain, Extended
    <3> QED BY <3>1, <3>2, <3>3 DEF Extended
  <2>2. CASE i = m
    <3>1. q[i] = p[m] /\ q[i + 1] = s /\ i < m + 1
      BY <2>2, <1>1
    <3> QED BY <2>2, <3>1 DEF TipOf, Extended
  <2>3. CASE i = m + 1
    BY <2>3, <1>1 DEF Extended
  <2> QED BY <2>1, <2>2, <2>3, <1>1
<1>3. q[1] = p[1] /\ TipOf(q) = s
  BY <1>1 DEF TipOf
<1> QED BY <1>1, <1>2, <1>3 DEF ChainNext

LEMMA SearchOnOK ==
    ASSUME ScheduleInv, NEW s \in Nodes, SearchOn(s)
    PROVE  ScheduleInv'
<1>t. ScheduleTypes /\ EdgesOnce /\ PathsLead /\ InFront
  BY DEF ScheduleInv
<1>c. PICK c : c = Current
  OBVIOUS
<1>k. PICK k : k = IF become[c] # None THEN s ELSE frames[1].path
  OBVIOUS
<1> DEFINE v == <<>>
           f == Frame(s, k)
           g == Rest(s)
           fs == <<f>> \o g
           b == IF become[c] # None THEN become[c] ELSE s
           w == IF become[c] # None THEN Append(invoke[c], s) ELSE invoke[c]
<1>1. /\ frames # <<>> /\ s \in frames[1].left /\ s \notin visited /\ Visit(s, k)
      /\ become' = Put([become EXCEPT ![c] = b], s, None)
      /\ invoke' = Put([invoke EXCEPT ![c] = w], s, v) /\ frames' = fs
      /\ UNCHANGED <<deps, earlier, leaves, redis>>
  BY <1>c, <1>k DEF SearchOn, graph
<1>2. /\ c \in visited /\ frames[1].task = c /\ frames[1].path \in DOMAIN paths
      /\ c \in DOMAIN invoke /\ c \in DOMAIN become /\ s \in Dependents(c) /\ s \in NewTasks
      /\ Len(frames) \in Nat /\ (\A i \in 1..Len(frames) : frames[i].task \in visited) /\ 1 \in 1..Len(frames)
      /\ frames[1].left \subseteq Dependents(c)
  <2>1. /\ c \in visited /\ frames[1].task = c /\ frames[1].path \in DOMAIN paths /\ 1 \in 1..Len(frames)
        /\ Len(frames) \in Nat /\ \A i \in 1..Len(frames) : frames[i].task \in visited
    BY <1>1, <1>c, <1>t, FrontIs DEF FrameType
  <2>2. c \in NewTasks /\ c \in DOMAIN invoke /\ c \in DOMAIN become
    BY <2>1, <1>t DEF ScheduleTypes
  <2>3. frames[1].left \subseteq Dependents(c)
    BY <2>1, <1>t DEF EdgesOnce
  <2> QED BY <2>1, <2>2, <2>3, <1>1, <1>t, GraphIs
<1>3. /\ visited' = visited \cup {s} /\ k \in DOMAIN paths' /\ DOMAIN paths \subseteq DOMAIN paths'
      /\ DOMAIN paths' = DOMAIN paths \cup {k} /\ DOMAIN paths' \subseteq visited'
      /\ \A r \in DOMAIN paths : r # k => paths'[r] = paths[r]
      /\ paths'[k] = IF k = s THEN <<s>> ELSE Append(paths[k], s)
      /\ \A r \in DOMAIN paths' : paths'[r] \in Seq(visited')
      /\ DOMAIN startsAt' = visited' /\ \A u \in visited' : startsAt'[u] \in DOMAIN paths'
      /\ \A u \in visited' : u \in ToSet(paths'[startsAt'[u]])
  <2>1. k = s \/ k \in DOMAIN paths
    BY <1>2, <1>k
  <2> QED BY <2>1, <1>1, <1>2, <1>t, VisitIs
<1>e. v \in Seq(DOMAIN paths') /\ Distinct(v) /\ ToSet(v) = {}
  BY EmptyIs
<1> HIDE DEF v, b, w
<1>4. c # s /\ s # None
  BY <1>1, <1>2, <1>t, GraphIs
<1>5. /\ DOMAIN become' = visited' /\ become'[s] = None /\ become'[c] = b
      /\ \A u \in visited : u # c => become'[u] = become[u]
  <2> DEFINE bb == [become EXCEPT ![c] = b]
  <2>1. /\ DOMAIN bb = visited /\ bb[c] = b /\ \A u \in visited : u # c => bb[u] = become[u]
    BY <1>2, <1>t DEF ScheduleTypes
  <2>2. become' = Put(bb, s, None)
    BY <1>1
  <2> HIDE DEF bb
  <2> QED BY <2>1, <2>2, <1>1, <1>2, <1>3, <1>4 DEF Put
<1>6. /\ DOMAIN invoke' = visited' /\ invoke'[s] = v /\ invoke'[c] = w
      /\ \A u \in visited : u # c => invoke'[u] = invoke[u]
  <2> DEFINE ww == [invoke EXCEPT ![c] = w]
  <2>1. /\ DOMAIN ww = visited /\ ww[c] = w /\ \A u \in visited : u # c => ww[u] = invoke[u]
    BY <1>2, <1>t DEF ScheduleTypes
  <2>2. invoke' = Put(ww, s, v)
    BY <1>1
  <2> HIDE DEF ww
  <2> QED BY <2>1, <2>2, <1>1, <1>2, <1>3, <1>4 DEF Put
<1>7. Schedules(c, s)
  <2>1. CASE become[c] = None
    BY <2>1, <1>5, <1>6 DEF Schedules, b, w
  <2>2. CASE become[c] # None
    BY <2>2, <1>5, <1>6 DEF Schedules, b, w
  <2> QED BY <2>1, <2>2
<1>8. /\ Onward(c)' = Onward(c) \cup {s} /\ Onward(c)' = Dependents(c) \ (frames[1].left \ {s})
      /\ Distinct(invoke'[c]) /\ become'[c] \notin ToSet(invoke'[c]) /\ become'[c] # None
  BY <1>1, <1>7, <1>c, <1>t, EdgeScheduled
<1> DEFINE F == [task : visited', path : DOMAIN paths', left : SUBSET Nodes]
<1>9. f \in F /\ f.task = s /\ f.path = k /\ f.left = Dependents(s) /\ FrameType \subseteq F
  BY <1>3, <1>t, GraphIs DEF Frame, FrameType
<1> HIDE DEF f, F
<1>10. /\ fs \in Seq(F) /\ fs # <<>> /\ Len(fs) = Len(frames) + 1 /\ fs[1] = f
       /\ \A i \in 2..Len(frames) + 1 :
             /\ i - 1 \in 1..Len(frames)
             /\ fs[i].task = frames[i - 1].task /\ fs[i].path = frames[i - 1].path
             /\ fs[i].left = IF i = 2 THEN frames[1].left \ {s} ELSE frames[i - 1].left
  <2>1. ScheduleTypes /\ frames # <<>> /\ Rest(s) \in Seq(F) /\ f \in F
    <3>1. Rest(s) \in Seq(FrameType)
      BY <1>1, <1>t, RestIs
    <3>2. FrameType \subseteq F
      BY <1>9
    <3> QED BY <3>1, <3>2, <1>1, <1>9, <1>t
  <2>2. Pushed(fs, f, s, F)
    BY <2>1 DEF Pushed
  <2> HIDE DEF fs, g
  <2>3. HasCalls(fs, f, s, F)
    BY <2>1, <2>2, PushedIs
  <2> QED BY <2>3 DEF HasCalls
<1> HIDE DEF fs, g
<1>11. Current' = s /\ frames'[1].path = k
  BY <1>1, <1>9, <1>10 DEF Current
<1>12. ScheduleTypes'
  <2>1. visited' \subseteq NewTasks'
    <3>1. NewTasks' = NewTasks /\ visited \subseteq NewTasks
      BY <1>1, <1>t, SameGraph DEF ScheduleTypes
    <3> QED BY <3>1, <1>2, <1>3
  <2>2. \A u \in visited' : become'[u] \in visited' \cup {None}
    <3>1. \A u \in visited : become[u] \in visited \cup {None}
      BY <1>t DEF ScheduleTypes
    <3>2. b \in visited' \cup {None}
      BY <3>1, <1>2, <1>3 DEF b
    <3> QED BY <3>1, <3>2, <1>3, <1>5
  <2>3. \A u \in visited' : invoke'[u] \in Seq(DOMAIN paths')
    <3>1. \A u \in visited : invoke[u] \in Seq(DOMAIN paths)
      BY <1>t DEF ScheduleTypes
    <3>2. \A u \in visited : invoke[u] \in Seq(DOMAIN paths')
      BY <3>1, <1>3
    <3>3. w \in Seq(DOMAIN paths')
      <4>1. CASE become[c] = None
        BY <4>1, <3>2, <1>2 DEF w
      <4>2. CASE become[c] # None
        <5>1. s \in DOMAIN paths'
          BY <4>2, <1>3, <1>k
        <5>2. Append(invoke[c], s) \in Seq(DOMAIN paths')
          BY <5>1, <3>2, <1>2
        <5> QED BY <4>2, <5>2 DEF w
      <4> QED BY <4>1, <4>2
    <3> QED BY <3>2, <3>3, <1>e, <1>3, <1>6
  <2>4. frames' \in Seq(F)
    BY <1>1, <1>10
  <2> QED BY <2>1, <2>2, <2>3, <2>4, <1>1, <1>3, <1>5, <1>6, <1>t, SameGraph DEF ScheduleTypes, FrameType, F
<1>13. EdgesOnce'
  <2>1. \A u : Dependents(u)' = Dependents(u)
    BY <1>1, DependentsKept
  <2>2. \A u \in visited : u # c => Onward(u)' = Onward(u)
    BY <1>5, <1>6, OnwardIs
  <2>3. Onward(s)' = {}
    BY <1>5, <1>6, <1>e DEF Onward
  <2>4. \A u \in visited' : Inside(u) \/ u = s => Inside(u)'
    <3>1. Inside(s)'
      <4>1. 1 \in 1..Len(fs) /\ fs[1].task = s
        BY <1>2, <1>9, <1>10
      <4> QED BY <4>1, <1>1 DEF Inside
    <3>2. ASSUME NEW u, Inside(u)
          PROVE  Inside(u)'
      <4>1. PICK i \in 1..Len(frames) : frames[i].task = u
        BY <3>2 DEF Inside
      <4>2. i + 1 \in 2..Len(frames) + 1 /\ i + 1 \in 1..Len(fs) /\ (i + 1) - 1 = i
        BY <1>2, <1>10
      <4>3. fs[i + 1].task = u
        BY <4>1, <4>2, <1>10
      <4> QED BY <4>2, <4>3, <1>1 DEF Inside
    <3> QED BY <3>1, <3>2
  <2>5. \A u \in visited' : Distinct(invoke'[u]) /\ become'[u] \notin ToSet(invoke'[u])
    <3>1. \A u \in visited : Distinct(invoke[u]) /\ become[u] \notin ToSet(invoke[u])
      BY <1>t DEF EdgesOnce
    <3> QED BY <3>1, <1>3, <1>5, <1>6, <1>8, <1>e
  <2>6. \A u \in visited' : Inside(u)' \/ Onward(u)' = Dependents(u)'
    <3>1. Inside(c)
      BY <1>2 DEF Inside
    <3>2. \A u \in visited : Inside(u) \/ Onward(u) = Dependents(u)
      BY <1>t DEF EdgesOnce
    <3> QED BY <3>1, <3>2, <1>3, <2>1, <2>2, <2>4
  <2>7. ASSUME NEW i \in 1..Len(fs), NEW t, t = fs[i].task
        PROVE  fs[i].left \subseteq Dependents(t)' /\ Onward(t)' = Dependents(t)' \ fs[i].left
    <3>1. CASE i = 1
      BY <3>1, <2>7, <2>1, <2>3, <1>9, <1>10
    <3>2. CASE i # 1
      <4> DEFINE j == i - 1
      <4>1. i \in 2..Len(frames) + 1 /\ (i = 2 <=> j = 1)
        BY <3>2, <1>2, <1>10
      <4>2. /\ j \in 1..Len(frames) /\ t = frames[j].task
            /\ fs[i].left = IF j = 1 THEN frames[1].left \ {s} ELSE frames[j].left
        BY <4>1, <2>7, <1>10
      <4> HIDE DEF j
      <4>3. CASE j = 1
        BY <4>2, <4>3, <2>1, <1>2, <1>8
      <4>4. CASE j # 1
        <5>1. /\ t # c /\ t \in visited /\ frames[j].left \subseteq Dependents(t)
              /\ Onward(t) = Dependents(t) \ frames[j].left
          BY <4>2, <4>4, <1>2, <1>t DEF EdgesOnce
        <5> QED BY <5>1, <4>2, <4>4, <2>1, <2>2
      <4> QED BY <4>3, <4>4
    <3> QED BY <3>1, <3>2
  <2>8. ASSUME NEW i \in 1..Len(fs), NEW j \in 1..Len(fs), fs[i].task = fs[j].task
        PROVE  i = j
    <3>1. \A l \in 2..Len(fs) : fs[l].task \in visited /\ l - 1 \in 1..Len(frames) /\ fs[l].task = frames[l - 1].task
      BY <1>2, <1>10
    <3>2. CASE i = 1 \/ j = 1
      <4>1. (i = 1 \/ i \in 2..Len(fs)) /\ (j = 1 \/ j \in 2..Len(fs)) /\ fs[1].task = s
        BY <1>2, <1>9, <1>10
      <4> QED BY <4>1, <3>1, <3>2, <2>8, <1>1
    <3>3. CASE i # 1 /\ j # 1
      <4>1. i \in 2..Len(fs) /\ j \in 2..Len(fs)
        BY <3>3, <1>2, <1>10
      <4>2. i - 1 = j - 1
        BY <4>1, <3>1, <2>8, <1>t DEF EdgesOnce
      <4> QED BY <4>1, <4>2
    <3> QED BY <3>2, <3>3
  <2> QED BY <2>5, <2>6, <2>7, <2>8, <1>1 DEF EdgesOnce
<1>14. \A r \in DOMAIN paths : r # k => Leads(r)' /\ TipOf(paths'[r]) # s
  <2> SUFFICES ASSUME NEW r \in DOMAIN paths, r # k
               PROVE  Leads(r)' /\ TipOf(paths'[r]) # s
    OBVIOUS
  <2>1. /\ paths'[r] = paths[r] /\ Chain(paths[r]) /\ paths[r] \in Seq(visited)
        /\ paths[r] # <<>> /\ paths[r][1] = r
    BY <1>3, <1>t DEF PathsLead, ScheduleTypes, Leads
  <2>2. DOMAIN paths[r] = 1..Len(paths[r]) /\ ToSet(paths[r]) \subseteq visited
    BY <2>1 DEF ToSet
  <2>3. \A y \in ToSet(paths[r]) : become'[y] = become[y]
    <3>1. CASE become[c] # None
      BY <3>1, <2>2, <1>5 DEF b
    <3>2. CASE become[c] = None
      <4>1. \A i \in 1..Len(paths[r]) : paths[r][i] = c => r = k
        BY <3>2, <1>1, <1>c, <1>k, <1>t, OnOnePath
      <4>2. c \notin ToSet(paths[r])
        BY <4>1, <2>2 DEF ToSet
      <4> QED BY <4>2, <2>2, <1>5
    <3> QED BY <3>1, <3>2
  <2>4. \A i \in 1..Len(paths[r]) : become'[paths[r][i]] = IF i < Len(paths[r]) THEN paths[r][i + 1] ELSE None
    BY <2>1, <2>2, <2>3, ChainKept
  <2>5. Leads(r)'
    BY <2>1, <2>4 DEF Chain, Leads
  <2>6. TipOf(paths[r]) \in visited
    BY <2>1 DEF TipOf
  <2> QED BY <2>1, <2>5, <2>6, <1>1
<1>15. Leads(k)' /\ TipOf(paths'[k]) = s
  <2>1. CASE k = s
    BY <2>1, <1>3, <1>5, OneTaskPath DEF Chain, Leads
  <2>2. CASE k # s
    <3> DEFINE p == paths[k]
    <3>1. become[c] = None /\ k = frames[1].path /\ k \in DOMAIN paths
      BY <2>2, <1>2, <1>k
    <3>2. p \in Seq(visited) /\ p # <<>> /\ p[1] = k /\ Chain(p)
      BY <3>1, <1>t DEF ScheduleTypes, PathsLead, Leads
    <3>3. \A i \in 1..Len(p) : p[i] = c => i = Len(p)
      BY <3>1, <1>1, <1>c, <1>t, OnOnePath
    <3>4. TipOf(p) = c
      BY <3>1, <1>1, <1>c, <1>t DEF InFront
    <3>5. become'[c] = s /\ s \in visited' /\ visited \subseteq visited' /\ paths'[k] = Append(p, s)
      BY <2>2, <3>1, <1>3, <1>5 DEF b
    <3> HIDE DEF p
    <3> DEFINE q == Append(p, s)
    <3>6. /\ q # <<>> /\ q[1] = p[1] /\ TipOf(q) = s
          /\ \A i \in 1..Len(q) : become'[q[i]] = IF i < Len(q) THEN q[i + 1] ELSE None
      <4>1. \A x \in visited' : x # c /\ x # s => become'[x] = become[x]
        BY <1>3, <1>5
      <4>2. s \notin ToSet(p) /\ become'[s] = None /\ p \in Seq(visited')
        <5>1. ToSet(p) \subseteq visited
          BY <3>2 DEF ToSet
        <5>2. p \in Seq(visited')
          BY <3>2, <1>3
        <5> QED BY <5>1, <5>2, <1>1, <1>5
      <4>3. Extended(q, p, c, s, visited')
        BY <3>2, <3>3, <3>4, <3>5, <4>1, <4>2 DEF Extended
      <4> HIDE DEF q
      <4> QED BY <4>3, ChainExtended DEF ChainNext
    <3> HIDE DEF q
    <3>7. paths'[k] = q
      BY <3>5 DEF q
    <3> QED BY <3>2, <3>6, <3>7 DEF Chain, Leads
  <2> QED BY <2>1, <2>2
<1>16. PathsLead'
  BY <1>3, <1>14, <1>15 DEF PathsLead
<1>17. InFront'
  <2>1. \A i \in 2..Len(fs) : become'[fs[i].task] # None
    <3> TAKE i \in 2..Len(fs)
    <3> DEFINE j == i - 1
    <3>1. i \in 2..Len(frames) + 1
      BY <1>10
    <3>2. j \in 1..Len(frames) /\ fs[i].task = frames[j].task
      BY <3>1, <1>10
    <3> HIDE DEF j
    <3>3. CASE j = 1
      BY <3>2, <3>3, <1>2, <1>8
    <3>4. CASE j # 1
      <4>1. frames[j].task # c /\ frames[j].task \in visited /\ j \in 2..Len(frames)
        BY <3>2, <3>4, <1>2, <1>t DEF EdgesOnce
      <4>2. become[frames[j].task] # None
        BY <4>1, <1>t DEF InFront
      <4> QED BY <3>2, <4>1, <4>2, <1>5
    <3> QED BY <3>3, <3>4
  <2>2. \A r \in DOMAIN paths' : TipOf(paths'[r]) = s <=> r = k
    BY <1>3, <1>14, <1>15
  <2> QED BY <2>1, <2>2, <1>1, <1>10, <1>11 DEF InFront
<1>18. WhatIsStored'
  BY <1>1 DEF ScheduleInv, WhatIsStored
<1> QED BY <1>12, <1>13, <1>16, <1>17, <1>18 DEF ScheduleInv

LEMMA ScheduleInitOK == ScheduleInit => ScheduleInv
<1> SUFFICES ASSUME ScheduleInit PROVE ScheduleInv
  OBVIOUS
<1> DEFINE v == <<>>
<1>1. v \in Seq(FrameType) /\ v \in Seq(visited) /\ Len(v) = 0 /\ DOMAIN v = {}
  OBVIOUS
<1>2. /\ visited = {} /\ paths = v /\ startsAt = v /\ become = v /\ invoke = v /\ frames = v
      /\ ~redis.stored /\ leaves = LeavesOf(deps, earlier)
  BY DEF ScheduleInit
<1>3. frames = <<>>
  BY DEF ScheduleInit
<1> HIDE DEF v
<1>4. ScheduleTypes
  BY <1>1, <1>2 DEF ScheduleInit, ScheduleTypes
<1> QED BY <1>1, <1>2, <1>3, <1>4 DEF ScheduleInv, EdgesOnce, PathsLead, InFront, WhatIsStored

LEMMA ReturnOK == ScheduleInv /\ Return => ScheduleInv'
<1> SUFFICES ASSUME ScheduleInv, Return PROVE ScheduleInv'
  OBVIOUS
<1> DEFINE g == Tail(frames)
<1>t. ScheduleTypes /\ EdgesOnce /\ PathsLead /\ InFront
  BY DEF ScheduleInv
<1>1. /\ frames # <<>> /\ frames[1].left = {} /\ frames' = g
      /\ UNCHANGED <<deps, earlier, visited, paths, startsAt, become, invoke, leaves, redis>>
  BY DEF Return, graph
<1>2. /\ g \in Seq(FrameType) /\ Len(g) = Len(frames) - 1 /\ Len(frames) \in Nat /\ Len(frames) >= 1
      /\ \A i \in 1..Len(g) : i + 1 \in 2..Len(frames) /\ g[i] = frames[i + 1]
  <2>1. frames \in Seq(FrameType)
    BY <1>t DEF ScheduleTypes
  <2> QED BY <1>1, <2>1, StackPop
<1> HIDE DEF g
<1>3. \A u : Dependents(u)' = Dependents(u) /\ Onward(u)' = Onward(u)
  BY <1>1 DEF Dependents, Onward
<1>4. ScheduleTypes'
  BY <1>1, <1>2, <1>t, SameGraph DEF ScheduleTypes, FrameType
<1>5. EdgesOnce'
  <2>1. \A u \in visited' : Inside(u)' \/ Onward(u)' = Dependents(u)'
    <3> SUFFICES ASSUME NEW u \in visited, Onward(u) # Dependents(u) PROVE Inside(u)'
      BY <1>1, <1>3
    <3>1. PICK i \in 1..Len(frames) : frames[i].task = u
      BY <1>t DEF EdgesOnce, Inside
    <3>2. i # 1
      BY <3>1, <1>1, <1>t DEF EdgesOnce
    <3> DEFINE j == i - 1
    <3>3. j \in 1..Len(g) /\ j + 1 = i
      BY <3>1, <3>2, <1>2
    <3> HIDE DEF j
    <3>4. g[j].task = u
      BY <3>1, <3>3, <1>2
    <3> QED BY <3>3, <3>4, <1>1 DEF Inside
  <2>2. ASSUME NEW i \in 1..Len(g), NEW t, t = g[i].task
        PROVE  g[i].left \subseteq Dependents(t)' /\ Onward(t)' = Dependents(t)' \ g[i].left
    <3>1. i + 1 \in 1..Len(frames) /\ g[i] = frames[i + 1]
      BY <1>2
    <3> QED BY <3>1, <2>2, <1>3, <1>t DEF EdgesOnce
  <2>3. ASSUME NEW i \in 1..Len(g), NEW j \in 1..Len(g), g[i].task = g[j].task
        PROVE  i = j
    <3>1. i + 1 \in 1..Len(frames) /\ g[i] = frames[i + 1] /\ j + 1 \in 1..Len(frames) /\ g[j] = frames[j + 1]
      BY <1>2
    <3>2. i + 1 = j + 1
      BY <3>1, <2>3, <1>t DEF EdgesOnce
    <3> QED BY <3>2
  <2>4. \A u \in visited' : Distinct(invoke'[u]) /\ become'[u] \notin ToSet(invoke'[u])
    BY <1>1, <1>t DEF EdgesOnce
  <2> QED BY <2>1, <2>2, <2>3, <2>4, <1>1 DEF EdgesOnce
<1>6. PathsLead'
  <2>1. \A x : Leads(x)' <=> Leads(x)
    BY <1>1 DEF Leads, Chain
  <2> QED BY <2>1, <1>1, <1>t DEF PathsLead
<1>7. InFront'
  <2>1. \A i \in 1..Len(g) : become[g[i].task] # None
    BY <1>2, <1>t DEF InFront
  <2>2. \A i \in 2..Len(g) : i \in 1..Len(g)
    BY <1>2
  <2>3. g # <<>> => 1 \in 1..Len(g)
    BY <1>2
  <2>4. Current' = g[1].task
    BY <1>1 DEF Current
  <2> QED BY <2>1, <2>2, <2>3, <2>4, <1>1 DEF InFront
<1>8. WhatIsStored'
  BY <1>1 DEF ScheduleInv, WhatIsStored
<1> QED BY <1>4, <1>5, <1>6, <1>7, <1>8 DEF ScheduleInv

(* What only stores, invokes, or leaves the schedule alone.                  *)
LEMMA ScheduleKept ==
    ASSUME ScheduleInv, UNCHANGED <<deps, earlier, visited, paths, startsAt, become, invoke, frames, leaves>>,
           WhatIsStored'
    PROVE  ScheduleInv'
<1>1. \A u : Dependents(u)' = Dependents(u) /\ Onward(u)' = Onward(u) /\ (Inside(u)' <=> Inside(u))
             /\ (Leads(u)' <=> Leads(u))
  BY DEF Dependents, Onward, Inside, Leads, Chain
<1>2. ScheduleTypes' /\ EdgesOnce'
  BY <1>1, SameGraph DEF ScheduleInv, ScheduleTypes, FrameType, EdgesOnce
<1>3. PathsLead' /\ InFront'
  BY <1>1 DEF ScheduleInv, PathsLead, InFront, Current
<1> QED BY <1>2, <1>3 DEF ScheduleInv

LEMMA StorePathsOK == ScheduleInv /\ StorePaths => ScheduleInv'
<1> SUFFICES ASSUME ScheduleInv, StorePaths PROVE ScheduleInv'
  OBVIOUS
<1>1. /\ frames = <<>> /\ leaves \subseteq visited
      /\ redis'.maps = [s \in DOMAIN paths |-> NodesMap(paths[s])]
      /\ redis'.counters = [t \in visited |-> InitialCounter(t)]
      /\ UNCHANGED <<deps, earlier, visited, paths, startsAt, become, invoke, frames, leaves>>
  BY DEF StorePaths, graph
<1>2. WhatIsStored'
  BY <1>1 DEF WhatIsStored, NodesMap, InitialCounter
<1> QED BY <1>1, <1>2, ScheduleKept

LEMMA ScheduleRests ==
    ASSUME ScheduleInv, UNCHANGED <<deps, earlier, visited, paths, startsAt, become, invoke, frames, leaves, redis>>
    PROVE  ScheduleInv'
<1>1. WhatIsStored'
  BY DEF ScheduleInv, WhatIsStored, NodesMap, InitialCounter
<1> QED BY <1>1, ScheduleKept

LEMMA ScheduleStep == ScheduleInv /\ ScheduleNext => ScheduleInv'
<1>1. ASSUME ScheduleInv, NEW t, InvokeLeaf(t) PROVE ScheduleInv'
  BY <1>1, ScheduleRests DEF InvokeLeaf, graph
<1> QED
  BY <1>1, LeafOK, JoinPathOK, InvokePathOK, SearchOnOK, ReturnOK, StorePathsOK DEF ScheduleNext

LEMMA FindNodes == ScheduleInv => ExecutorsFindNodes
<1> SUFFICES ASSUME ScheduleInv, redis.stored, NEW t \in visited
             PROVE  /\ startsAt[t] \in DOMAIN redis.maps
                    /\ t \in redis.maps[startsAt[t]]
                    /\ ToSet(invoke[t]) \cup ({become[t]} \ {None}) \subseteq redis.maps[startsAt[t]]
                    /\ ToSet(invoke[t]) \subseteq DOMAIN redis.maps
  BY DEF ExecutorsFindNodes
<1> DEFINE s == startsAt[t]
           p == paths[s]
<1>1. /\ s \in DOMAIN paths /\ p \in Seq(visited) /\ Chain(p) /\ t \in ToSet(p)
      /\ invoke[t] \in Seq(DOMAIN paths)
  BY DEF ScheduleInv, ScheduleTypes, PathsLead, Leads
<1>2. DOMAIN redis.maps = DOMAIN paths /\ redis.maps[s] = NodesMap(p)
  BY <1>1 DEF ScheduleInv, WhatIsStored
<1> HIDE DEF s, p
<1>3. ToSet(p) \subseteq NodesMap(p) /\ ToSet(invoke[t]) \subseteq NodesMap(p)
  BY <1>1 DEF NodesMap
<1>4. become[t] # None => become[t] \in ToSet(p)
  <2> SUFFICES ASSUME become[t] # None PROVE become[t] \in ToSet(p)
    OBVIOUS
  <2>1. DOMAIN p = 1..Len(p) /\ Len(p) \in Nat
    BY <1>1
  <2>2. PICK i \in 1..Len(p) : p[i] = t
    BY <1>1, <2>1 DEF ToSet
  <2>3. i + 1 \in DOMAIN p /\ become[t] = p[i + 1]
    BY <2>1, <2>2, <1>1 DEF Chain
  <2> QED BY <2>3 DEF ToSet
<1>5. ToSet(invoke[t]) \subseteq DOMAIN paths
  BY <1>1 DEF ToSet
<1> QED BY <1>1, <1>2, <1>3, <1>4, <1>5 DEF s

LEMMA ScheduledOnce == ScheduleInv => EdgesScheduledOnce
<1> SUFFICES ASSUME ScheduleInv, redis.stored, NEW t \in visited
             PROVE  /\ ToSet(invoke[t]) \cup ({become[t]} \ {None}) = Dependents(t)
                    /\ Len(invoke[t]) + (IF become[t] = None THEN 0 ELSE 1) = Cardinality(Dependents(t))
  BY DEF EdgesScheduledOnce
<1> DEFINE T == ToSet(invoke[t])
           n == Len(invoke[t])
<1>1. frames = <<>> /\ Len(frames) = 0
  BY DEF ScheduleInv, WhatIsStored
<1>2. T \cup ({become[t]} \ {None}) = Dependents(t)
  BY <1>1 DEF ScheduleInv, EdgesOnce, Inside, Onward
<1>3. invoke[t] \in Seq(DOMAIN paths) /\ Distinct(invoke[t]) /\ become[t] \notin T
  BY DEF ScheduleInv, ScheduleTypes, EdgesOnce
<1>4. Cardinality(T) = n /\ n \in Nat
  BY <1>3, DistinctLength
<1>5. IsFiniteSet(T)
  <2>1. T \in SUBSET Nodes /\ IsFiniteSet(Nodes)
    BY <1>2, GraphIs DEF ScheduleInv
  <2> HIDE DEF T
  <2> QED BY <2>1, FS_Subset
<1> HIDE DEF T, n
<1>6. CASE become[t] = None
  <2>1. Dependents(t) = T
    BY <1>2, <1>6
  <2> QED BY <1>2, <1>4, <1>6, <2>1 DEF T, n
<1>7. CASE become[t] # None
  <2>1. Dependents(t) = T \cup {become[t]}
    BY <1>2, <1>7
  <2>2. Cardinality(T \cup {become[t]}) = n + 1
    BY <1>3, <1>4, <1>5, FS_AddElement DEF T
  <2> QED BY <1>2, <1>7, <2>1, <2>2 DEF T, n
<1> QED BY <1>6, <1>7

LEMMA AtRoots == ScheduleInv => PathsEndAtRoots
BY DEF ScheduleInv, PathsLead, Leads, Chain, PathsEndAtRoots

(* What a task depends on: tasks in memory and tasks of the schedule, which  *)
(* are not in memory, and others.                                            *)
LEMMA CounterIs ==
    ASSUME ScheduleInv, redis.stored, NEW t \in visited
    PROVE  LET mem == {s \in deps[t] : earlier[s] = "memory"} IN
           /\ redis.counters[t] + Cardinality(deps[t] \cap visited) = Cardinality(mem \cup (deps[t] \cap visited))
           /\ mem \cup (deps[t] \cap visited) \subseteq deps[t] /\ IsFiniteSet(deps[t])
<1> DEFINE mem == {s \in deps[t] : earlier[s] = "memory"}
           own == deps[t] \cap visited
<1>1. redis.counters[t] = Cardinality(mem)
  BY DEF ScheduleInv, WhatIsStored, InitialCounter
<1>2. IsFiniteSet(Nodes) /\ deps[t] \in SUBSET Nodes
  BY GraphIs DEF ScheduleInv
<1>3. IsFiniteSet(deps[t])
  BY <1>2, FS_Subset
<1>4. mem \in SUBSET deps[t] /\ own \in SUBSET deps[t] /\ mem \cap own = {}
  BY DEF ScheduleInv, ScheduleTypes, NewTasks
<1> HIDE DEF mem, own
<1>5. IsFiniteSet(mem) /\ IsFiniteSet(own)
  BY <1>3, <1>4, FS_Subset
<1>6. Cardinality(mem \cup own) = Cardinality(mem) + Cardinality(own) - Cardinality(mem \cap own)
  BY <1>5, FS_Union
<1>7. Cardinality(mem \cap own) = 0 /\ Cardinality(mem) \in Nat /\ Cardinality(own) \in Nat
  BY <1>4, <1>5, FS_EmptySet, FS_CardinalityType
<1>8. Cardinality(mem) + Cardinality(own) = Cardinality(mem \cup own)
  BY <1>6, <1>7
<1> QED BY <1>1, <1>3, <1>4, <1>8 DEF mem, own

LEMMA CountersAddUp == ScheduleInv => CountersComplete
<1> SUFFICES ASSUME ScheduleInv, redis.stored PROVE CountersComplete
  BY DEF CountersComplete
<1>t. ScheduleTypes /\ leaves \subseteq visited /\ frames = <<>> /\ Len(frames) = 0
  BY DEF ScheduleInv, WhatIsStored
<1>o. \A u \in visited : Dependents(u) \subseteq visited
  <2> TAKE u \in visited
  <2>1. Onward(u) = Dependents(u)
    BY <1>t DEF ScheduleInv, EdgesOnce, Inside
  <2>2. invoke[u] \in Seq(DOMAIN paths) /\ DOMAIN paths \subseteq visited /\ become[u] \in visited \cup {None}
    BY <1>t DEF ScheduleTypes
  <2>3. ToSet(invoke[u]) \subseteq DOMAIN paths
    BY <2>2 DEF ToSet
  <2> QED BY <2>1, <2>2, <2>3 DEF Onward
<1>1. ASSUME NEW t \in NewTasks \ Behind
      PROVE  /\ t \in visited
             /\ redis.counters[t] + Cardinality(deps[t] \cap visited) = Cardinality(deps[t])
  <2>1. PICK S \in SUBSET Nodes :
            /\ {u \in Nodes : earlier[u] = "processing"} \subseteq S
            /\ \A u \in S : Dependents(u) \subseteq S
            /\ t \notin S
    BY DEF Behind
  <2> DEFINE B == {u \in NewTasks : u \notin visited /\ u \notin S}
  <2>2. B = {}
    <3> SUFFICES ASSUME B # {} PROVE FALSE
      OBVIOUS
    <3>1. B \in SUBSET Nodes
      BY DEF NewTasks
    <3>2. PICK u \in B : deps[u] \cap B = {}
      BY <3>1, <1>t, GraphIs
    <3>3. u \in Nodes /\ earlier[u] = "new" /\ deps[u] \subseteq Nodes
      BY <3>2, <1>t, GraphIs DEF NewTasks
    <3>4. ASSUME NEW d \in deps[u] PROVE earlier[d] = "memory"
      <4>1. d \in Nodes /\ u \in Dependents(d)
        BY <3>3, <3>4 DEF Dependents
      <4>2. d \notin S
        BY <4>1, <3>2, <2>1
      <4>3. d \notin visited
        BY <4>1, <3>2, <1>o
      <4>4. d \notin NewTasks
        BY <4>2, <4>3, <3>2, <3>4
      <4>5. earlier[d] \in {"new", "memory", "processing"}
        BY <4>1, <1>t DEF ScheduleTypes
      <4> QED BY <4>1, <4>2, <4>4, <4>5, <2>1 DEF NewTasks
    <3>5. u \in leaves
      BY <3>3, <3>4, <1>t DEF ScheduleTypes, LeavesOf
    <3> QED BY <3>2, <3>5, <1>t
  <2>3. t \in visited
    BY <2>1, <2>2
  <2>4. \A d \in deps[t] : earlier[d] = "memory" \/ d \in visited
    <3> SUFFICES ASSUME NEW d \in deps[t], d \notin visited PROVE earlier[d] = "memory"
      OBVIOUS
    <3>1. t \in Nodes /\ d \in Nodes
      BY <1>t, GraphIs DEF NewTasks
    <3>2. d \notin S
      BY <3>1, <2>1 DEF Dependents
    <3>3. d \notin NewTasks
      BY <3>2, <2>2
    <3>4. earlier[d] \in {"new", "memory", "processing"}
      BY <3>1, <1>t DEF ScheduleTypes
    <3> QED BY <3>1, <3>2, <3>3, <3>4, <2>1 DEF NewTasks
  <2> DEFINE mem == {s \in deps[t] : earlier[s] = "memory"}
             all == mem \cup (deps[t] \cap visited)
  <2>5. all = deps[t]
    BY <2>4
  <2>6. redis.counters[t] + Cardinality(deps[t] \cap visited) = Cardinality(all)
    BY <2>3, CounterIs
  <2> QED BY <2>3, <2>5, <2>6
<1>2. ASSUME NEW t \in visited, NEW d \in deps[t], earlier[d] = "processing"
      PROVE  redis.counters[t] + Cardinality(deps[t] \cap visited) < Cardinality(deps[t])
  <2> DEFINE mem == {s \in deps[t] : earlier[s] = "memory"}
             all == mem \cup (deps[t] \cap visited)
  <2>1. /\ redis.counters[t] + Cardinality(deps[t] \cap visited) = Cardinality(all)
        /\ all \in SUBSET deps[t] /\ IsFiniteSet(deps[t])
    BY CounterIs
  <2>2. d \notin all
    BY <1>2, <1>t DEF ScheduleTypes, NewTasks
  <2> HIDE DEF all
  <2>3. /\ IsFiniteSet(all) /\ Cardinality(all) <= Cardinality(deps[t])
        /\ Cardinality(deps[t]) = Cardinality(all) => deps[t] = all
    BY <2>1, FS_Subset
  <2>4. Cardinality(all) # Cardinality(deps[t])
    BY <2>2, <2>3
  <2>5. Cardinality(all) \in Nat /\ Cardinality(deps[t]) \in Nat
    BY <2>1, <2>3, FS_CardinalityType
  <2> QED BY <2>1, <2>3, <2>4, <2>5
<1> QED BY <1>1, <1>2 DEF CountersComplete

(* For any finite DAG of any jobs and any order of the search: every         *)
(* Executor finds the nodes of its path, each edge between new tasks is      *)
(* scheduled exactly once, the paths lead to the tasks nothing depends on,   *)
(* and the counters are complete but for what is still executed.             *)
ScheduleInFocus == focus = "schedule" => ScheduleInv
THEOREM ScheduleCoveredHolds == ServicesSpec => []ScheduleCovered
<1>1. ServicesInit => ScheduleInFocus
  BY ScheduleInitOK DEF ServicesInit, ScheduleInFocus
<1>2. ScheduleInFocus /\ [ServicesNext]_serviceVars => ScheduleInFocus'
  <2> SUFFICES ASSUME ScheduleInFocus, [ServicesNext]_serviceVars, focus' = "schedule"
               PROVE  ScheduleInv'
    BY DEF ScheduleInFocus
  <2>1. focus = "schedule" /\ (ScheduleNext \/ UNCHANGED scheduleVars)
    BY DEF ServicesNext, serviceVars
  <2> QED
    BY <2>1, ScheduleStep, ScheduleRests DEF ScheduleInFocus, scheduleVars
<1>3. ScheduleInFocus => ScheduleCovered
  BY FindNodes, ScheduledOnce, AtRoots, CountersAddUp DEF ScheduleInFocus, ScheduleCovered
<1> QED
  BY <1>1, <1>2, <1>3, PTL DEF ServicesSpec
-----------------------------------------------------------------------------
(* The bit counter.  The first bits of a number, one after the other.        *)
IsNumber(f, T, n) ==
    f = [i \in 0..n |-> IF i = 0 THEN 0 ELSE 2 * f[i - 1] + (IF i - 1 \in T THEN 1 ELSE 0)]

LEMMA NumberExists ==
    ASSUME NEW T, NEW n \in Nat
    PROVE  \E f : IsNumber(f, T, n)
<1> DEFINE B == {m \in Nat : ~ \E f : IsNumber(f, T, m)}
<1> SUFFICES ASSUME B # {} PROVE FALSE
  OBVIOUS
<1>1. PICK m \in B : \A k \in B : m <= k
  <2>1. B \subseteq Nat
    OBVIOUS
  <2> HIDE DEF B
  <2> QED BY <2>1, LeastNat
<1>2. m \in Nat /\ ~ \E f : IsNumber(f, T, m)
  BY <1>1
<1>3. m # 0
  <2> DEFINE z == [i \in 0..0 |-> 0]
  <2>1. z = [i \in 0..0 |-> IF i = 0 THEN 0 ELSE 2 * z[i - 1] + (IF i - 1 \in T THEN 1 ELSE 0)]
    OBVIOUS
  <2> HIDE DEF z
  <2>2. IsNumber(z, T, 0)
    BY <2>1 DEF IsNumber
  <2> QED BY <2>2, <1>2
<1>4. m - 1 \in Nat /\ m - 1 \notin B
  <2>1. m - 1 \in Nat /\ ~(m <= m - 1)
    BY <1>2, <1>3
  <2> HIDE DEF B
  <2> QED BY <2>1, <1>1
<1>5. PICK f : IsNumber(f, T, m - 1)
  BY <1>4
<1> DEFINE last == 2 * f[m - 1] + (IF m - 1 \in T THEN 1 ELSE 0)
           g == [i \in 0..m |-> IF i = m THEN last ELSE f[i]]
<1>6. ASSUME NEW i \in 0..m
      PROVE  g[i] = IF i = 0 THEN 0 ELSE 2 * g[i - 1] + (IF i - 1 \in T THEN 1 ELSE 0)
  <2>1. CASE i = m
    <3>1. i - 1 \in 0..m /\ i - 1 # m /\ i # 0 /\ g[i] = last /\ i - 1 = m - 1
      BY <1>2, <1>3, <2>1
    <3>2. g[i - 1] = f[m - 1]
      BY <3>1
    <3> HIDE DEF g
    <3> QED BY <3>1, <3>2
  <2>2. CASE i # m
    <3>1. i \in 0..(m - 1) /\ (i # 0 => i - 1 \in 0..m /\ i - 1 # m)
      BY <2>2, <1>2
    <3>2. f[i] = IF i = 0 THEN 0 ELSE 2 * f[i - 1] + (IF i - 1 \in T THEN 1 ELSE 0)
      BY <1>5, <3>1 DEF IsNumber
    <3>3. g[i] = f[i] /\ (i # 0 => g[i - 1] = f[i - 1])
      BY <2>2, <3>1
    <3> HIDE DEF g
    <3> QED BY <3>2, <3>3
  <2> QED BY <2>1, <2>2
<1>7. g = [i \in 0..m |-> g[i]]
  OBVIOUS
<1> HIDE DEF g
<1>8. IsNumber(g, T, m)
  BY <1>6, <1>7 DEF IsNumber
<1> QED BY <1>8, <1>2

LEMMA NumberIs ==
    ASSUME NEW T, NEW n \in Nat
    PROVE  \E f : IsNumber(f, T, n) /\ NumberOf(T, n) = f[n]
<1> DEFINE f == CHOOSE g : IsNumber(g, T, n)
<1>1. IsNumber(f, T, n)
  BY NumberExists
<1>2. NumberOf(T, n) = f[n]
  <2>1. NumberOf(T, n) = (CHOOSE g : g = [i \in 0..n |->
            IF i = 0 THEN 0 ELSE 2 * g[i - 1] + (IF i - 1 \in T THEN 1 ELSE 0)])[n]
    BY DEF NumberOf
  <2> QED BY <2>1 DEF IsNumber
<1> HIDE DEF f
<1> QED BY <1>1, <1>2

(* A number with fewer bits set, and not with more bits, is smaller.         *)
LEMMA NumberLess ==
    ASSUME NEW m \in Nat, NEW n \in Nat, m <= n, NEW A, NEW B, A \subseteq B,
           NEW e \in B, e \notin A, e \in Nat, e < n
    PROVE  NumberOf(A, m) \in Nat /\ NumberOf(B, n) \in Nat /\ NumberOf(A, m) < NumberOf(B, n)
<1>1. PICK v : IsNumber(v, A, m) /\ NumberOf(A, m) = v[m]
  BY NumberIs
<1>2. PICK w : IsNumber(w, B, n) /\ NumberOf(B, n) = w[n]
  BY NumberIs
<1> DEFINE u(i) == IF i < m THEN v[i] ELSE v[m]
           Trails(i) == u(i) \in Nat /\ w[i] \in Nat /\ u(i) <= w[i] /\ (e < i => u(i) < w[i])
           T == {i \in 0..n : ~Trails(i)}
<1>3. ASSUME NEW i \in 0..n
      PROVE  w[i] = IF i = 0 THEN 0 ELSE 2 * w[i - 1] + (IF i - 1 \in B THEN 1 ELSE 0)
  BY <1>2 DEF IsNumber
<1>4. ASSUME NEW i \in 0..m
      PROVE  v[i] = IF i = 0 THEN 0 ELSE 2 * v[i - 1] + (IF i - 1 \in A THEN 1 ELSE 0)
  BY <1>1 DEF IsNumber
<1>5. T = {}
  <2> SUFFICES ASSUME T # {} PROVE FALSE
    OBVIOUS
  <2>1. PICK k \in T : \A j \in T : k <= j
    <3>1. T \subseteq Nat
      OBVIOUS
    <3> HIDE DEF T
    <3> QED BY <3>1, LeastNat
  <2>2. k \in 0..n /\ ~Trails(k)
    BY <2>1
  <2>3. k # 0
    <3> SUFFICES ASSUME k = 0 PROVE FALSE
      OBVIOUS
    <3>1. v[0] = 0 /\ w[0] = 0 /\ u(0) = v[0]
      BY <1>3, <1>4
    <3>2. Trails(0)
      BY <3>1
    <3> QED BY <3>2, <2>2
  <2> DEFINE j == k - 1
  <2>4. j \in 0..n /\ j + 1 = k /\ j \in Nat /\ Trails(j)
    <3>1. j \in 0..n /\ j \in Nat /\ j + 1 = k /\ ~(k <= j)
      BY <2>2, <2>3
    <3>2. j \notin T
      <4> HIDE DEF T
      <4> QED BY <3>1, <2>1
    <3> HIDE DEF Trails
    <3> QED BY <3>1, <3>2
  <2>5. w[k] = 2 * w[j] + (IF j \in B THEN 1 ELSE 0)
    BY <1>3, <2>2, <2>3
  <2>6. u(k) = IF k <= m THEN 2 * u(j) + (IF j \in A THEN 1 ELSE 0) ELSE u(j)
    <3>1. CASE k <= m
      <4>1. k \in 0..m /\ u(k) = v[k] /\ u(j) = v[j]
        BY <3>1, <2>2, <2>4
      <4> QED BY <4>1, <3>1, <1>4, <2>3
    <3>2. CASE ~(k <= m)
      <4>1. ~(k < m) /\ (j < m \/ j = m \/ j > m) /\ ~(j < m)
        BY <3>2, <2>2, <2>4
      <4> QED BY <3>2, <4>1
    <3> QED BY <3>1, <3>2
  <2> HIDE DEF j
  <2> DEFINE a == u(j)
             b == IF j \in A THEN 1 ELSE 0
             c == IF j \in B THEN 1 ELSE 0
  <2>7. a \in Nat /\ w[j] \in Nat /\ a <= w[j] /\ (e < j => a < w[j])
    BY <2>4
  <2>8. b \in {0, 1} /\ c \in {0, 1} /\ b <= c /\ (j = e => b = 0 /\ c = 1)
    <3>1. CASE j \in A
      BY <3>1
    <3>2. CASE j \notin A
      BY <3>2
    <3> QED BY <3>1, <3>2
  <2>9. w[k] = 2 * w[j] + c /\ u(k) = IF k <= m THEN 2 * a + b ELSE a
    BY <2>5, <2>6
  <2>10. e < k => e < j \/ j = e
    BY <2>4
  <2> HIDE DEF a, b, c, u
  <2>11. Trails(k)
    BY <2>7, <2>8, <2>9, <2>10
  <2> QED BY <2>11, <2>2
<1>6. Trails(n)
  <2> HIDE DEF Trails
  <2> QED BY <1>5
<1>7. u(n) = v[m]
  BY m <= n
<1> QED BY <1>1, <1>2, <1>6, <1>7

(* The answers of the bit counter.                                           *)
LEMMA WholeBytes ==
    ASSUME NEW n \in Nat \ {0}, NEW k \in 0..n - 1
    PROVE  /\ 8 * (k \div 8 + 1) \in Nat /\ 8 * ((n + 7) \div 8) \in Nat
           /\ 8 * (k \div 8 + 1) <= 8 * ((n + 7) \div 8) /\ n <= 8 * ((n + 7) \div 8)
           /\ k = n - 1 => 8 * (k \div 8 + 1) = 8 * ((n + 7) \div 8)
OBVIOUS

LEMMA MaxIs ==
    ASSUME NEW n \in Nat, NEW T \in SUBSET (0..n - 1), T # {}
    PROVE  Max(T) \in T /\ \A i \in T : i <= Max(T)
<1> DEFINE D == {n - i : i \in T}
<1>1. D \subseteq Nat /\ D # {}
  <2>1. PICK i \in T : TRUE
    OBVIOUS
  <2>2. n - i \in D
    BY <2>1
  <2>3. \A j \in T : n - j \in Nat
    OBVIOUS
  <2> QED BY <2>2, <2>3
<1>2. \A i \in T : n - i \in D
  OBVIOUS
<1>3. \A x \in D : \E i \in T : x = n - i
  OBVIOUS
<1> HIDE DEF D
<1>4. PICK x \in D : \A y \in D : x <= y
  BY <1>1, LeastNat
<1>5. PICK k \in T : x = n - k
  BY <1>3
<1>6. \A i \in T : k >= i
  <2> TAKE i \in T
  <2>1. n - k <= n - i
    BY <1>2, <1>4, <1>5
  <2> QED BY <2>1
<1>7. Max(T) \in T /\ \A i \in T : Max(T) >= i
  BY <1>6 DEF Max
<1> QED BY <1>7

(* The string of a set of bits is the mask only if no bit but one is missing.*)
LEMMA OnlyMask ==
    ASSUME NEW n \in Nat \ {0}, NEW T \in SUBSET (0..n - 1), T # {}, NEW omit,
           T \subseteq (0..n - 1) \ omit, BitValue(T) = CreateMask(n, omit)
    PROVE  T = (0..n - 1) \ omit
<1> DEFINE B == (0..n - 1) \ omit
           m == 8 * (Max(T) \div 8 + 1)
           l == 8 * ((n + 7) \div 8)
<1>1. Max(T) \in 0..n - 1
  BY MaxIs
<1>2. m \in Nat /\ l \in Nat /\ m <= l /\ n <= l
  BY <1>1, WholeBytes
<1>3. NumberOf(T, m) = NumberOf(B, l)
  BY DEF BitValue, CreateMask
<1> SUFFICES ASSUME NEW e \in B, e \notin T PROVE FALSE
  OBVIOUS
<1>4. e \in Nat /\ e < l /\ T \subseteq B
  BY <1>2
<1>5. NumberOf(T, m) \in Nat /\ NumberOf(B, l) \in Nat /\ NumberOf(T, m) < NumberOf(B, l)
  BY <1>2, <1>4, NumberLess
<1> QED BY <1>3, <1>5

(* An Executor that has not set its bit has not come to that step.  One that *)
(* is through without it took the task when it was the last one missing.     *)
BitTypes ==
    /\ size \in Sizes /\ bits \subseteq Offsets /\ claims \in Nat /\ lost \in Nat
    /\ step \in [Offsets -> Steps] /\ tries \in [Offsets -> Nat]
BitInv ==
    /\ BitTypes
    /\ \A d \in bits : step[d] \in {"set", "done", "raised"}
    /\ claims > 0 => \A d \in Offsets : step[d] # "running"
    /\ \A d \in Offsets : step[d] = "done" /\ d \notin bits => claims > 0
    /\ (\A d \in Offsets : step[d] = "done") => claims > 0
    /\ lost = 0 => /\ \A d \in bits : step[d] = "done"
                   /\ claims <= 1
                   /\ claims > 0 => \A d \in Offsets : step[d] = "done"

LEMMA BitInitOK == BitInit => BitInv
<1> SUFFICES ASSUME BitInit PROVE BitInv
  OBVIOUS
<1>1. size \in Sizes /\ size \in Nat /\ size # 0
  BY BitAssumption DEF BitInit
<1>2. 0 \in Offsets /\ step[0] # "done"
  BY <1>1 DEF BitInit, Offsets
<1> QED BY <1>1, <1>2 DEF BitInit, BitInv, BitTypes, Steps

LEMMA SetReadyIs ==
    ASSUME BitTypes, NEW T \in SUBSET Offsets, T # {}
    PROVE  SetReady(T) <=> T = Offsets
<1>1. size \in Nat \ {0}
  BY BitAssumption DEF BitTypes
<1>2. ASSUME SetReady(T) PROVE T = Offsets
  <2>1. BitValue(T) = CreateMask(size, {}) /\ T \subseteq (0..size - 1) \ {}
    BY <1>2 DEF SetReady, Offsets
  <2>2. T = (0..size - 1) \ {}
    BY <2>1, <1>1, OnlyMask DEF Offsets
  <2> QED BY <2>2 DEF Offsets
<1>3. ASSUME T = Offsets PROVE SetReady(T)
  <2>1. Max(T) \in T /\ \A i \in T : i <= Max(T)
    BY <1>1, MaxIs DEF Offsets
  <2>2. Max(T) = size - 1
    BY <1>1, <1>3, <2>1 DEF Offsets
  <2>3. size - 1 \in 0..size - 1
    BY <1>1
  <2>4. 8 * (Max(T) \div 8 + 1) = 8 * ((size + 7) \div 8)
    BY <1>1, <2>2, <2>3, WholeBytes
  <2>5. T = (0..size - 1) \ {}
    BY <1>3 DEF Offsets
  <2> QED BY <2>4, <2>5 DEF SetReady, BitValue, CreateMask
<1> QED BY <1>2, <1>3

LEMMA CheckReadyIs ==
    ASSUME BitInv, NEW d \in Offsets, step[d] = "check", CheckReady(d)
    PROVE  bits = Offsets \ {d}
<1>1. size \in Nat \ {0}
  BY BitAssumption DEF BitInv, BitTypes
<1>2. d \notin bits /\ bits \subseteq Offsets /\ bits # {}
  BY DEF BitInv, BitTypes, CheckReady
<1>3. CASE BitValue(bits) = CreateMask(size, {d})
  <2>1. bits \subseteq (0..size - 1) \ {d} /\ bits \in SUBSET (0..size - 1)
    BY <1>2 DEF Offsets
  <2>2. bits = (0..size - 1) \ {d}
    BY <1>1, <1>2, <1>3, <2>1, OnlyMask
  <2> QED BY <2>2 DEF Offsets
<1>4. CASE BitValue(bits) = CreateMask(size, {})
  <2>1. SetReady(bits)
    BY <1>4 DEF SetReady
  <2> QED BY <1>2, <2>1, SetReadyIs DEF BitInv
<1> QED BY <1>3, <1>4 DEF CheckReady

LEMMA RanOK ==
    ASSUME BitInv, NEW d \in Offsets, NEW b \in BOOLEAN, Ran(d, b)
    PROVE  BitInv'
BY DEF BitInv, BitTypes, Steps, Ran, Offsets

LEMMA CheckOK ==
    ASSUME BitInv, NEW d \in Offsets, Check(d)
    PROVE  BitInv'
<1>1. CASE CheckReady(d)
  <2>1. bits = Offsets \ {d} /\ step[d] = "check"
    BY <1>1, CheckReadyIs DEF Check
  <2>2. claims' = claims + 1 /\ step' = [step EXCEPT ![d] = "done"] /\ UNCHANGED <<size, bits, tries, lost>>
    BY <1>1 DEF Check
  <2>3. Offsets' = Offsets
    BY <2>2 DEF Offsets
  <2>4. \A e \in Offsets : e # d => step[e] \in {"set", "done", "raised"}
    BY <2>1 DEF BitInv
  <2>5. lost = 0 => claims = 0 /\ \A e \in Offsets : e # d => step[e] = "done"
    BY <2>1 DEF BitInv, BitTypes
  <2> QED BY <2>1, <2>2, <2>3, <2>4, <2>5 DEF BitInv, BitTypes, Steps
<1>2. CASE ~CheckReady(d)
  <2>1. step[d] = "check" /\ claims' = claims /\ step' = [step EXCEPT ![d] = "set"]
        /\ UNCHANGED <<size, bits, tries, lost>>
    BY <1>2 DEF Check
  <2>2. Offsets' = Offsets
    BY <2>1 DEF Offsets
  <2> QED BY <2>1, <2>2 DEF BitInv, BitTypes, Steps
<1> QED BY <1>1, <1>2

LEMMA SetBitOK ==
    ASSUME BitInv, NEW d \in Offsets, SetBit(d)
    PROVE  BitInv'
<1>1. /\ step[d] = "set" /\ bits' = bits \cup {d} /\ step' = [step EXCEPT ![d] = "done"]
      /\ UNCHANGED <<size, tries, lost>>
      /\ claims' = IF SetReady(bits \cup {d}) THEN claims + 1 ELSE claims
  BY DEF SetBit
<1>2. Offsets' = Offsets
  BY <1>1 DEF Offsets
<1>3. SetReady(bits \cup {d}) <=> bits \cup {d} = Offsets
  <2>1. bits \cup {d} \in SUBSET Offsets /\ bits \cup {d} # {}
    BY DEF BitInv, BitTypes
  <2> QED BY <2>1, SetReadyIs DEF BitInv
<1>4. lost = 0 => claims = 0
  BY <1>1 DEF BitInv, BitTypes
<1>5. CASE bits \cup {d} = Offsets
  <2>1. claims' = claims + 1
    BY <1>1, <1>3, <1>5
  <2>2. \A e \in Offsets : e # d => step[e] \in {"set", "done", "raised"}
    BY <1>5 DEF BitInv
  <2>3. lost = 0 => \A e \in Offsets : e # d => step[e] = "done"
    BY <1>5 DEF BitInv
  <2> QED BY <1>1, <1>2, <1>4, <2>1, <2>2, <2>3 DEF BitInv, BitTypes, Steps
<1>6. CASE bits \cup {d} # Offsets
  <2>1. claims' = claims
    BY <1>1, <1>3, <1>6
  <2>2. (\A e \in Offsets : step'[e] = "done") => claims > 0
    <3> SUFFICES ASSUME \A e \in Offsets : step'[e] = "done" PROVE claims > 0
      OBVIOUS
    <3>1. PICK e \in Offsets : e \notin bits /\ e # d
      BY <1>6 DEF BitInv, BitTypes
    <3>2. step[e] = "done"
      BY <3>1, <1>1 DEF BitInv, BitTypes
    <3> QED BY <3>1, <3>2 DEF BitInv
  <2> QED BY <1>1, <1>2, <1>4, <2>1, <2>2 DEF BitInv, BitTypes, Steps
<1> QED BY <1>5, <1>6

LEMMA SetBitFailsOK ==
    ASSUME BitInv, NEW d \in Offsets, SetBitFails(d)
    PROVE  BitInv'
<1>1. /\ step[d] = "set" /\ bits' = bits \cup {d} /\ lost' = lost + 1 /\ lost \in Nat
      /\ UNCHANGED <<size, claims>> /\ tries' = [tries EXCEPT ![d] = @ + 1]
  BY DEF SetBitFails, BitInv, BitTypes
<1>2. PICK z \in {"raised", "set"} : step' = [step EXCEPT ![d] = z]
  BY DEF SetBitFails
<1>3. Offsets' = Offsets /\ lost' # 0 /\ lost' \in Nat
  BY <1>1 DEF Offsets
<1> QED BY <1>1, <1>2, <1>3 DEF BitInv, BitTypes, Steps

LEMMA BitStep == BitInv /\ BitNext => BitInv'
<1> SUFFICES ASSUME BitInv, BitNext PROVE BitInv'
  OBVIOUS
<1>1. PICK d \in Offsets :
          \/ \E becomes \in BOOLEAN : Ran(d, becomes /\ d \in {0, size - 1})
          \/ Check(d) \/ SetBit(d) \/ SetBitFails(d)
  BY DEF BitNext
<1>2. ASSUME NEW becomes \in BOOLEAN, Ran(d, becomes /\ d \in {0, size - 1}) PROVE BitInv'
  <2>1. (becomes /\ d \in {0, size - 1}) \in BOOLEAN
    OBVIOUS
  <2> QED BY <1>2, <2>1, RanOK
<1> QED BY <1>1, <1>2, CheckOK, SetBitOK, SetBitFailsOK

LEMMA BitRests == BitInv /\ UNCHANGED bitVars => BitInv'
BY DEF bitVars, BitInv, BitTypes, Offsets

(* For any number of dependencies and lost answers: an Executor finds the    *)
(* task ready only when all the others have set their bits, one of them      *)
(* does, and only one unless an answer was lost.                             *)
BitsInFocus == focus = "bits" => BitInv
THEOREM BitsDecideHolds == ServicesSpec => []BitsDecide
<1>1. ServicesInit => BitsInFocus
  BY BitInitOK DEF ServicesInit, BitsInFocus
<1>2. BitsInFocus /\ [ServicesNext]_serviceVars => BitsInFocus'
  <2> SUFFICES ASSUME BitsInFocus, [ServicesNext]_serviceVars, focus' = "bits"
               PROVE  BitInv'
    BY DEF BitsInFocus
  <2>1. focus = "bits" /\ (BitNext \/ UNCHANGED bitVars)
    BY DEF ServicesNext, serviceVars
  <2> QED
    BY <2>1, BitStep, BitRests DEF BitsInFocus
<1>3. BitsInFocus => BitsDecide
  BY DEF BitsInFocus, BitsDecide, BitInv, BitTypes, BitsNotEarly, BitsClaimedOnce, BitsClaimed
<1> QED
  BY <1>1, <1>2, <1>3, PTL DEF ServicesSpec
=============================================================================
