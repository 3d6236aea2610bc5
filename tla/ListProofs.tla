------------------------------ MODULE ListProofs ------------------------------
(***************************************************************************)
(* What the loops of Lists compute, for lists of any length.  The          *)
(* induction is on sets of naturals: a set that holds 0 and the successor  *)
(* of each of its elements holds them all.                                 *)
(***************************************************************************)
EXTENDS Lists, WellFoundedInduction, FiniteSetTheorems, SequenceTheorems, TLAPS

LEMMA Least ==
  ASSUME NEW S \in SUBSET Nat, S # {}
  PROVE  \E n \in S : \A m \in S : n <= m
<1> DEFINE R == {ss \in Nat \X Nat : ss[1] < ss[2]}
<1>1. IsWellFoundedOn(R, Nat)
  BY NatLessThanWellFounded DEF OpToRel
<1>2. PICK x \in S : \A y \in S : ~(<<y, x>> \in R)
  <2> HIDE DEF R
  <2> QED
    BY <1>1, WFMin
<1>3. \A y \in S : ~(y < x)
  BY <1>2
<1> QED
  BY <1>3

LEMMA SetInduction ==
  ASSUME NEW S, 0 \in S, \A n \in Nat : n \in S => n + 1 \in S
  PROVE  Nat \subseteq S
<1> SUFFICES ASSUME Nat \ S # {} PROVE FALSE
  OBVIOUS
<1>1. PICK n \in Nat \ S : \A m \in Nat \ S : n <= m
  BY Least
<1>2. n # 0 /\ n - 1 \in Nat /\ n - 1 + 1 = n
  BY <1>1
<1>3. n - 1 \in S
  BY <1>1, <1>2
<1> QED
  BY <1>1, <1>2, <1>3

\* Finitely many naturals have a greatest.
LEMMA Greatest ==
  ASSUME NEW S \in SUBSET Nat, S # {}, NEW bound \in Nat, \A n \in S : n <= bound
  PROVE  \E n \in S : \A m \in S : m <= n
<1> DEFINE B == {b \in Nat : \A n \in S : n <= b}
<1>1. PICK b \in B : \A c \in B : b <= c
  BY Least
<1>2. CASE b \in S
  BY <1>1, <1>2
<1>3. CASE b \notin S
  <2>1. PICK s \in S : TRUE
    OBVIOUS
  <2>2. \A n \in S : n <= b /\ n # b
    BY <1>1, <1>3
  <2>3. b - 1 \in Nat /\ \A n \in S : n <= b - 1
    BY <1>1, <2>1, <2>2
  <2> QED
    BY <1>1, <2>3
<1> QED
  BY <1>2, <1>3

LEMMA ListOf ==
  ASSUME NEW S, NEW n \in Nat, NEW f \in [1 .. n -> S]
  PROVE  f \in Seq(S) /\ Len(f) = n
OBVIOUS

-----------------------------------------------------------------------------
(* Recursive functions exist                                                *)

\* The runs of a loop: step[n] leads from what it has after n passes to what it has
\* after the next.
Runs(V, base, step, n) ==
    {f \in [0 .. n -> V] : f[0] = base /\ \A m \in 0 .. n - 1 : f[m + 1] = step[m][f[m]]}

LEMMA RunExists ==
  ASSUME NEW V, NEW base \in V, NEW step \in [Nat -> [V -> V]], NEW n \in Nat
  PROVE  Runs(V, base, step, n) # {}
<1> DEFINE S == {m \in Nat : Runs(V, base, step, m) # {}}
<1>1. 0 \in S
  <2> DEFINE f == [i \in 0 .. 0 |-> base]
  <2>1. f \in Runs(V, base, step, 0)
    BY DEF Runs
  <2> QED
    BY <2>1
<1>2. ASSUME NEW m \in Nat, m \in S PROVE m + 1 \in S
  <2>1. PICK f : f \in Runs(V, base, step, m)
    BY <1>2
  <2>2. /\ f \in [0 .. m -> V] /\ f[0] = base
        /\ \A i \in 0 .. m - 1 : f[i + 1] = step[i][f[i]]
    BY <2>1 DEF Runs
  <2> DEFINE g == [i \in 0 .. m + 1 |-> IF i = m + 1 THEN step[m][f[m]] ELSE f[i]]
  <2>3. step[m][f[m]] \in V
    BY <2>2
  <2>4. g \in [0 .. m + 1 -> V]
    BY <2>2, <2>3
  <2>5. g[0] = base
    BY <2>2
  <2>6. \A i \in 0 .. (m + 1) - 1 : g[i + 1] = step[i][g[i]]
    <3> SUFFICES ASSUME NEW i \in 0 .. (m + 1) - 1 PROVE g[i + 1] = step[i][g[i]]
      OBVIOUS
    <3>1. CASE i = m
      BY <3>1
    <3>2. CASE i # m
      <4>1. i \in 0 .. m - 1 /\ i + 1 # m + 1 /\ i # m + 1 /\ i + 1 \in 0 .. m + 1 /\ i \in 0 .. m + 1
        BY <3>2
      <4> QED
        BY <2>2, <4>1
    <3> QED
      BY <3>1, <3>2
  <2>7. g \in Runs(V, base, step, m + 1)
    BY <2>4, <2>5, <2>6 DEF Runs
  <2> QED
    BY <2>7
<1> HIDE DEF S
<1>3. Nat \subseteq S
  BY <1>1, <1>2, SetInduction
<1> QED
  BY <1>3 DEF S

-----------------------------------------------------------------------------
(* Kept                                                                     *)

KeptAfter(list, S) ==
    CHOOSE kept : kept = [n \in 0 .. Len(list) |->
            IF n = 0 THEN <<>>
            ELSE IF list[n] \in S THEN Append(kept[n - 1], list[n]) ELSE kept[n - 1]]

LEMMA KeptUnfolds ==
  ASSUME NEW X, NEW list \in Seq(X), NEW S
  PROVE  /\ Kept(list, S) = KeptAfter(list, S)[Len(list)]
         /\ KeptAfter(list, S)[0] = <<>>
         /\ \A n \in 1 .. Len(list) :
               KeptAfter(list, S)[n] =
                  IF list[n] \in S THEN Append(KeptAfter(list, S)[n - 1], list[n])
                                   ELSE KeptAfter(list, S)[n - 1]
<1> DEFINE step == [m \in Nat |-> [s \in Seq(X) |->
                       IF m < Len(list) /\ list[m + 1] \in S THEN Append(s, list[m + 1]) ELSE s]]
           Pass(f, n) == IF n = 0 THEN <<>>
                         ELSE IF list[n] \in S THEN Append(f[n - 1], list[n]) ELSE f[n - 1]
           Solves(f) == f = [n \in 0 .. Len(list) |-> Pass(f, n)]
<1>1. Len(list) \in Nat
  OBVIOUS
<1>2. step \in [Nat -> [Seq(X) -> Seq(X)]]
  <2> SUFFICES ASSUME NEW m \in Nat, NEW s \in Seq(X), m < Len(list)
               PROVE  Append(s, list[m + 1]) \in Seq(X)
    OBVIOUS
  <2>1. list[m + 1] \in X
    BY <1>1
  <2> QED
    BY <2>1
<1>3. \E f : Solves(f)
  <2>1. <<>> \in Seq(X)
    OBVIOUS
  <2>2. Runs(Seq(X), <<>>, step, Len(list)) # {}
    <3> HIDE DEF step
    <3> QED
      BY <1>1, <1>2, <2>1, RunExists
  <2>3. PICK f : f \in Runs(Seq(X), <<>>, step, Len(list))
    BY <2>2
  <2>4. /\ f \in [0 .. Len(list) -> Seq(X)] /\ f[0] = <<>>
        /\ \A m \in 0 .. Len(list) - 1 : f[m + 1] = step[m][f[m]]
    BY <2>3 DEF Runs
  <2>5. ASSUME NEW n \in 0 .. Len(list) PROVE f[n] = Pass(f, n)
    <3>1. CASE n = 0
      BY <2>4, <3>1
    <3>2. CASE n # 0
      <4>1. n - 1 \in 0 .. Len(list) - 1 /\ (n - 1) + 1 = n /\ n - 1 \in Nat /\ n - 1 < Len(list)
            /\ n - 1 \in 0 .. Len(list)
        BY <1>1, <3>2
      <4>2. f[n] = step[n - 1][f[n - 1]] /\ f[n - 1] \in Seq(X)
        BY <2>4, <4>1
      <4> QED
        BY <3>2, <4>1, <4>2
    <3> QED
      BY <3>1, <3>2
  <2> HIDE DEF Pass
  <2> QED
    BY <2>4, <2>5
<1>4. PICK f : f = KeptAfter(list, S)
  OBVIOUS
<1>5. Solves(f)
  <2>1. Solves(CHOOSE g : Solves(g))
    <3> HIDE DEF Solves
    <3> QED
      BY <1>3
  <2> QED
    BY <1>4, <2>1 DEF KeptAfter
<1>6. Kept(list, S) = f[Len(list)]
  BY <1>4 DEF Kept, KeptAfter
<1>7. \A n \in 0 .. Len(list) : f[n] = Pass(f, n)
  <2> HIDE DEF Pass
  <2> QED
    BY <1>5
<1>8. f[0] = <<>> /\ \A n \in 1 .. Len(list) : n \in 0 .. Len(list) /\ n # 0
  BY <1>1, <1>7
<1>9. \A n \in 1 .. Len(list) :
         f[n] = IF list[n] \in S THEN Append(f[n - 1], list[n]) ELSE f[n - 1]
  BY <1>7, <1>8
<1> QED
  BY <1>4, <1>6, <1>8, <1>9

\* Once each: no element of a list occurs twice.
Distinct(list) == \A i, j \in 1 .. Len(list) : list[i] = list[j] => i = j

\* What the first n elements of list leave in kept.
KeptOf(kept, list, S, n) ==
    /\ Len(kept) <= n
    /\ \A i \in 1 .. Len(kept) : kept[i] \in S /\ \E j \in 1 .. n : kept[i] = list[j]
    /\ \A j \in 1 .. n : list[j] \in S => \E i \in 1 .. Len(kept) : kept[i] = list[j]
    /\ Distinct(list) => Distinct(kept)

LEMMA KeptPass ==
  ASSUME NEW X, NEW list \in Seq(X), NEW S, NEW n \in Nat, n + 1 <= Len(list),
         NEW kept \in Seq(X), KeptOf(kept, list, S, n)
  PROVE  /\ list[n + 1] \notin S => KeptOf(kept, list, S, n + 1)
         /\ list[n + 1] \in S => /\ Append(kept, list[n + 1]) \in Seq(X)
                                 /\ KeptOf(Append(kept, list[n + 1]), list, S, n + 1)
<1>1. Len(list) \in Nat /\ Len(kept) \in Nat /\ list[n + 1] \in X
  OBVIOUS
<1>2. \A j \in 1 .. n + 1 : j \in 1 .. n \/ j = n + 1
  OBVIOUS
<1>3. ASSUME list[n + 1] \notin S PROVE KeptOf(kept, list, S, n + 1)
  <2>1. Len(kept) <= n + 1
    BY <1>1 DEF KeptOf
  <2>2. \A i \in 1 .. Len(kept) : kept[i] \in S /\ \E j \in 1 .. n + 1 : kept[i] = list[j]
    BY DEF KeptOf
  <2> QED
    BY <1>2, <1>3, <2>1, <2>2 DEF KeptOf
<1>4. ASSUME list[n + 1] \in S
      PROVE  /\ Append(kept, list[n + 1]) \in Seq(X)
             /\ KeptOf(Append(kept, list[n + 1]), list, S, n + 1)
  <2>1. PICK new : new = Append(kept, list[n + 1])
    OBVIOUS
  <2>2. /\ new \in Seq(X) /\ Len(new) = Len(kept) + 1
        /\ \A i \in 1 .. Len(kept) : new[i] = kept[i]
        /\ new[Len(kept) + 1] = list[n + 1]
    BY <1>1, <2>1
  <2>3. \A i \in 1 .. Len(new) : i \in 1 .. Len(kept) \/ i = Len(kept) + 1
    BY <1>1, <2>2
  <2>4. \A i \in 1 .. Len(new) : new[i] \in S /\ \E j \in 1 .. n + 1 : new[i] = list[j]
    <3> SUFFICES ASSUME NEW i \in 1 .. Len(new)
                 PROVE  new[i] \in S /\ \E j \in 1 .. n + 1 : new[i] = list[j]
      OBVIOUS
    <3>1. CASE i \in 1 .. Len(kept)
      <4>1. kept[i] \in S /\ \E j \in 1 .. n : kept[i] = list[j]
        BY <3>1 DEF KeptOf
      <4> QED
        BY <2>2, <3>1, <4>1
    <3>2. CASE i = Len(kept) + 1
      BY <1>4, <2>2, <3>2
    <3> QED
      BY <2>3, <3>1, <3>2
  <2>5. \A j \in 1 .. n + 1 : list[j] \in S => \E i \in 1 .. Len(new) : new[i] = list[j]
    <3> SUFFICES ASSUME NEW j \in 1 .. n + 1, list[j] \in S
                 PROVE  \E i \in 1 .. Len(new) : new[i] = list[j]
      OBVIOUS
    <3>1. CASE j \in 1 .. n
      <4>1. PICK i \in 1 .. Len(kept) : kept[i] = list[j]
        BY <3>1 DEF KeptOf
      <4> QED
        BY <1>1, <2>2, <4>1
    <3>2. CASE j = n + 1
      BY <1>1, <2>2, <3>2
    <3> QED
      BY <1>2, <3>1, <3>2
  <2>6. ASSUME Distinct(list) PROVE Distinct(new)
    <3>1. Distinct(kept)
      BY <2>6 DEF KeptOf
    <3>2. \A i \in 1 .. Len(kept) : kept[i] # list[n + 1]
      <4> SUFFICES ASSUME NEW i \in 1 .. Len(kept), kept[i] = list[n + 1] PROVE FALSE
        OBVIOUS
      <4>1. PICK j \in 1 .. n : kept[i] = list[j]
        BY DEF KeptOf
      <4>2. j \in 1 .. Len(list) /\ n + 1 \in 1 .. Len(list) /\ j # n + 1
        BY <1>1
      <4> QED
        BY <2>6, <4>1, <4>2 DEF Distinct
    <3> SUFFICES ASSUME NEW i \in 1 .. Len(new), NEW k \in 1 .. Len(new), new[i] = new[k]
                 PROVE  i = k
      BY DEF Distinct
    <3> QED
      BY <2>2, <2>3, <3>1, <3>2 DEF Distinct
  <2>7. Len(new) <= n + 1
    BY <1>1, <2>2 DEF KeptOf
  <2> QED
    BY <2>1, <2>2, <2>4, <2>5, <2>6, <2>7 DEF KeptOf
<1> QED
  BY <1>3, <1>4

\* Kept is what its comment says: the elements of list in S, each as often.
LEMMA KeptIs ==
  ASSUME NEW X, NEW list \in Seq(X), NEW S
  PROVE  Kept(list, S) \in Seq(X) /\ KeptOf(Kept(list, S), list, S, Len(list))
<1> DEFINE P == {n \in Nat : n <= Len(list) =>
                    /\ KeptAfter(list, S)[n] \in Seq(X)
                    /\ KeptOf(KeptAfter(list, S)[n], list, S, n)}
<1>1. Len(list) \in Nat
  OBVIOUS
<1>2. 0 \in P
  <2>1. KeptAfter(list, S)[0] = <<>>
    BY KeptUnfolds
  <2>2. <<>> \in Seq(X) /\ Len(<<>>) = 0 /\ Distinct(<<>>)
    BY DEF Distinct
  <2>3. KeptOf(<<>>, list, S, 0)
    BY <2>2 DEF KeptOf
  <2> QED
    BY <2>1, <2>2, <2>3
<1>3. ASSUME NEW n \in Nat, n \in P PROVE n + 1 \in P
  <2> SUFFICES ASSUME n + 1 <= Len(list)
               PROVE  /\ KeptAfter(list, S)[n + 1] \in Seq(X)
                      /\ KeptOf(KeptAfter(list, S)[n + 1], list, S, n + 1)
    OBVIOUS
  <2>1. PICK kept : kept = KeptAfter(list, S)[n]
    OBVIOUS
  <2>2. kept \in Seq(X) /\ KeptOf(kept, list, S, n)
    BY <1>1, <1>3, <2>1
  <2>3. KeptAfter(list, S)[n + 1] = IF list[n + 1] \in S THEN Append(kept, list[n + 1]) ELSE kept
    <3>1. n + 1 \in 1 .. Len(list) /\ (n + 1) - 1 = n
      BY <1>1
    <3> QED
      BY <2>1, <3>1, KeptUnfolds
  <2>4. /\ list[n + 1] \notin S => KeptOf(kept, list, S, n + 1)
        /\ list[n + 1] \in S => /\ Append(kept, list[n + 1]) \in Seq(X)
                                /\ KeptOf(Append(kept, list[n + 1]), list, S, n + 1)
    BY <2>2, KeptPass
  <2>5. CASE list[n + 1] \in S
    BY <2>3, <2>4, <2>5
  <2>6. CASE list[n + 1] \notin S
    BY <2>2, <2>3, <2>4, <2>6
  <2> QED
    BY <2>5, <2>6
<1>4. Nat \subseteq P
  <2> HIDE DEF P
  <2> QED
    BY <1>2, <1>3, SetInduction
<1>5. Len(list) \in P
  BY <1>1, <1>4
<1>6. Kept(list, S) = KeptAfter(list, S)[Len(list)]
  BY KeptUnfolds
<1> QED
  BY <1>1, <1>5, <1>6

-----------------------------------------------------------------------------
(* Total                                                                    *)

TotalAfter(values) ==
    CHOOSE total : total = [n \in 0 .. Len(values) |->
            IF n = 0 THEN 0 ELSE total[n - 1] + values[n]]

LEMMA TotalUnfolds ==
  ASSUME NEW values \in Seq(Nat)
  PROVE  /\ Total(values) = TotalAfter(values)[Len(values)]
         /\ TotalAfter(values)[0] = 0
         /\ \A n \in 1 .. Len(values) :
               /\ TotalAfter(values)[n] = TotalAfter(values)[n - 1] + values[n]
               /\ TotalAfter(values)[n - 1] \in Nat
<1> DEFINE step == [m \in Nat |-> [s \in Nat |->
                       IF m < Len(values) THEN s + values[m + 1] ELSE s]]
           Pass(f, n) == IF n = 0 THEN 0 ELSE f[n - 1] + values[n]
           Solves(f) == f = [n \in 0 .. Len(values) |-> Pass(f, n)]
<1>1. Len(values) \in Nat
  OBVIOUS
<1>2. step \in [Nat -> [Nat -> Nat]]
  <2> SUFFICES ASSUME NEW m \in Nat, NEW s \in Nat, m < Len(values)
               PROVE  s + values[m + 1] \in Nat
    OBVIOUS
  <2>1. values[m + 1] \in Nat
    BY <1>1
  <2> QED
    BY <2>1
<1>3. \E f : Solves(f)
  <2>1. Runs(Nat, 0, step, Len(values)) # {}
    <3> HIDE DEF step
    <3> QED
      BY <1>1, <1>2, RunExists
  <2>2. PICK f : f \in Runs(Nat, 0, step, Len(values))
    BY <2>1
  <2>3. /\ f \in [0 .. Len(values) -> Nat] /\ f[0] = 0
        /\ \A m \in 0 .. Len(values) - 1 : f[m + 1] = step[m][f[m]]
    BY <2>2 DEF Runs
  <2>4. ASSUME NEW n \in 0 .. Len(values) PROVE f[n] = Pass(f, n)
    <3>1. CASE n = 0
      BY <2>3, <3>1
    <3>2. CASE n # 0
      <4>1. n - 1 \in 0 .. Len(values) - 1 /\ (n - 1) + 1 = n /\ n - 1 \in Nat
            /\ n - 1 < Len(values) /\ n - 1 \in 0 .. Len(values)
        BY <1>1, <3>2
      <4>2. f[n] = step[n - 1][f[n - 1]] /\ f[n - 1] \in Nat
        BY <2>3, <4>1
      <4> QED
        BY <3>2, <4>1, <4>2
    <3> QED
      BY <3>1, <3>2
  <2> HIDE DEF Pass
  <2> QED
    BY <2>3, <2>4
<1>4. PICK f : f = TotalAfter(values)
  OBVIOUS
<1>5. Solves(f)
  <2>1. Solves(CHOOSE g : Solves(g))
    <3> HIDE DEF Solves
    <3> QED
      BY <1>3
  <2> QED
    BY <1>4, <2>1 DEF TotalAfter
<1>6. Total(values) = f[Len(values)]
  BY <1>4 DEF Total, TotalAfter
<1>7. \A n \in 0 .. Len(values) : f[n] = Pass(f, n)
  <2> HIDE DEF Pass
  <2> QED
    BY <1>5
<1>8. f[0] = 0 /\ \A n \in 1 .. Len(values) : f[n] = f[n - 1] + values[n]
  BY <1>1, <1>7
<1>9. ASSUME NEW n \in Nat PROVE n <= Len(values) => f[n] \in Nat
  <2> DEFINE P == {m \in Nat : m <= Len(values) => f[m] \in Nat}
  <2>1. 0 \in P
    BY <1>8
  <2>2. ASSUME NEW m \in Nat, m \in P PROVE m + 1 \in P
    <3> SUFFICES ASSUME m + 1 <= Len(values) PROVE f[m + 1] \in Nat
      OBVIOUS
    <3>1. m + 1 \in 1 .. Len(values) /\ (m + 1) - 1 = m /\ m <= Len(values)
      BY <1>1
    <3>2. values[m + 1] \in Nat /\ f[m] \in Nat
      BY <2>2, <3>1
    <3> QED
      BY <1>8, <3>1, <3>2
  <2>3. Nat \subseteq P
    <3> HIDE DEF P
    <3> QED
      BY <2>1, <2>2, SetInduction
  <2> QED
    BY <2>3
<1>10. \A n \in 1 .. Len(values) : n - 1 \in Nat /\ n - 1 <= Len(values)
  BY <1>1
<1> QED
  BY <1>4, <1>6, <1>8, <1>9, <1>10

\* The loop is at a natural number after each pass.
LEMMA TotalPasses ==
  ASSUME NEW values \in Seq(Nat)
  PROVE  /\ \A n \in 0 .. Len(values) : TotalAfter(values)[n] \in Nat
         /\ \A n \in Nat : n + 1 <= Len(values) =>
               /\ values[n + 1] \in Nat
               /\ TotalAfter(values)[n + 1] = TotalAfter(values)[n] + values[n + 1]
<1>1. PICK f : f = TotalAfter(values)
  OBVIOUS
<1>2. /\ f[0] = 0
      /\ \A n \in 1 .. Len(values) : f[n] = f[n - 1] + values[n] /\ f[n - 1] \in Nat
  BY <1>1, TotalUnfolds
<1>3. Len(values) \in Nat /\ \A n \in 1 .. Len(values) : values[n] \in Nat
  OBVIOUS
<1>4. ASSUME NEW n \in 0 .. Len(values) PROVE f[n] \in Nat
  <2>1. CASE n = 0
    BY <1>2, <2>1
  <2>2. CASE n # 0
    <3>1. n \in 1 .. Len(values)
      BY <1>3, <2>2
    <3>2. f[n - 1] \in Nat /\ values[n] \in Nat /\ f[n] = f[n - 1] + values[n]
      BY <1>2, <1>3, <3>1
    <3> QED
      BY <3>2
  <2> QED
    BY <2>1, <2>2
<1>5. ASSUME NEW n \in Nat, n + 1 <= Len(values)
      PROVE  values[n + 1] \in Nat /\ f[n + 1] = f[n] + values[n + 1]
  <2>1. n + 1 \in 1 .. Len(values) /\ (n + 1) - 1 = n
    BY <1>3, <1>5
  <2> QED
    BY <1>2, <1>3, <2>1
<1> QED
  BY <1>1, <1>4, <1>5

LEMMA TotalMonotone ==
  ASSUME NEW a \in Seq(Nat), NEW b \in Seq(Nat), Len(a) = Len(b),
         \A i \in 1 .. Len(a) : a[i] <= b[i]
  PROVE  Total(a) <= Total(b)
<1>1. PICK f, g : f = TotalAfter(a) /\ g = TotalAfter(b)
  OBVIOUS
<1>2. /\ f[0] = 0 /\ g[0] = 0 /\ Total(a) = f[Len(a)] /\ Total(b) = g[Len(a)]
      /\ Len(a) \in Nat
  BY <1>1, TotalUnfolds
<1>3. /\ \A n \in 0 .. Len(a) : f[n] \in Nat /\ g[n] \in Nat
      /\ \A n \in Nat : n + 1 <= Len(a) =>
            /\ a[n + 1] \in Nat /\ b[n + 1] \in Nat
            /\ f[n + 1] = f[n] + a[n + 1] /\ g[n + 1] = g[n] + b[n + 1]
  BY <1>1, TotalPasses
<1> DEFINE P == {n \in Nat : n <= Len(a) => f[n] <= g[n]}
<1>4. 0 \in P
  BY <1>2
<1>5. ASSUME NEW n \in Nat, n \in P PROVE n + 1 \in P
  <2> SUFFICES ASSUME n + 1 <= Len(a) PROVE f[n + 1] <= g[n + 1]
    OBVIOUS
  <2>1. n \in 0 .. Len(a) /\ n + 1 \in 1 .. Len(a) /\ n <= Len(a)
    BY <1>2
  <2>2. f[n] \in Nat /\ g[n] \in Nat /\ f[n] <= g[n] /\ a[n + 1] <= b[n + 1]
    BY <1>3, <1>5, <2>1
  <2> QED
    BY <1>3, <2>2
<1>6. Nat \subseteq P
  <2> HIDE DEF P
  <2> QED
    BY <1>4, <1>5, SetInduction
<1> QED
  BY <1>2, <1>6

\* A sum is zero only if all its terms are.
LEMMA TotalZero ==
  ASSUME NEW a \in Seq(Nat)
  PROVE  Total(a) = 0 <=> \A i \in 1 .. Len(a) : a[i] = 0
<1>1. PICK f : f = TotalAfter(a)
  OBVIOUS
<1>2. f[0] = 0 /\ Total(a) = f[Len(a)] /\ Len(a) \in Nat
  BY <1>1, TotalUnfolds
<1>3. /\ \A n \in 0 .. Len(a) : f[n] \in Nat
      /\ \A n \in Nat : n + 1 <= Len(a) => a[n + 1] \in Nat /\ f[n + 1] = f[n] + a[n + 1]
  BY <1>1, TotalPasses
<1> DEFINE P == {n \in Nat : n <= Len(a) => (f[n] = 0 <=> \A i \in 1 .. n : a[i] = 0)}
<1>4. 0 \in P
  BY <1>2
<1>5. ASSUME NEW n \in Nat, n \in P PROVE n + 1 \in P
  <2> SUFFICES ASSUME n + 1 <= Len(a)
               PROVE  f[n + 1] = 0 <=> \A i \in 1 .. n + 1 : a[i] = 0
    OBVIOUS
  <2>1. n \in 0 .. Len(a) /\ n <= Len(a) /\ \A i \in 1 .. n + 1 : i \in 1 .. n \/ i = n + 1
    BY <1>2
  <2>2. /\ f[n] \in Nat /\ a[n + 1] \in Nat /\ f[n + 1] = f[n] + a[n + 1]
        /\ f[n] = 0 <=> \A i \in 1 .. n : a[i] = 0
    BY <1>3, <1>5, <2>1
  <2>3. f[n + 1] = 0 <=> f[n] = 0 /\ a[n + 1] = 0
    BY <2>2
  <2>4. (\A i \in 1 .. n + 1 : a[i] = 0) <=> (\A i \in 1 .. n : a[i] = 0) /\ a[n + 1] = 0
    BY <2>1
  <2> QED
    BY <2>2, <2>3, <2>4
<1>6. Nat \subseteq P
  <2> HIDE DEF P
  <2> QED
    BY <1>4, <1>5, SetInduction
<1>7. Len(a) \in P
  BY <1>2, <1>6
<1> QED
  BY <1>2, <1>7

\* A sum of terms of at most bound each, of which only those in C are not zero.
LEMMA TotalBounded ==
  ASSUME NEW a \in Seq(Nat), NEW C \in SUBSET (1 .. Len(a)), NEW bound \in Nat,
         \A i \in C : a[i] <= bound, \A i \in (1 .. Len(a)) \ C : a[i] = 0
  PROVE  Total(a) <= bound * Cardinality(C)
<1>1. PICK f : f = TotalAfter(a)
  OBVIOUS
<1>2. f[0] = 0 /\ Total(a) = f[Len(a)] /\ Len(a) \in Nat
  BY <1>1, TotalUnfolds
<1>3. /\ \A n \in 0 .. Len(a) : f[n] \in Nat
      /\ \A n \in Nat : n + 1 <= Len(a) => a[n + 1] \in Nat /\ f[n + 1] = f[n] + a[n + 1]
  BY <1>1, TotalPasses
<1> DEFINE Upto(n) == C \cap 1 .. n
           P == {n \in Nat : n <= Len(a) => f[n] <= bound * Cardinality(Upto(n))}
<1>4. ASSUME NEW n \in Nat PROVE IsFiniteSet(Upto(n)) /\ Cardinality(Upto(n)) \in Nat
  <2>1. IsFiniteSet(1 .. n) /\ Upto(n) \in SUBSET (1 .. n)
    BY FS_Interval
  <2>2. IsFiniteSet(Upto(n))
    <3> HIDE DEF Upto
    <3> QED
      BY <2>1, FS_Subset
  <2> HIDE DEF Upto
  <2> QED
    BY <2>2, FS_CardinalityType
<1>5. 0 \in P
  <2>1. Upto(0) = {}
    OBVIOUS
  <2>2. Cardinality(Upto(0)) = 0
    BY <2>1, FS_EmptySet
  <2>3. bound * 0 = 0
    OBVIOUS
  <2> HIDE DEF Upto
  <2> QED
    BY <1>2, <2>2, <2>3
<1>6. ASSUME NEW n \in Nat, n \in P PROVE n + 1 \in P
  <2> SUFFICES ASSUME n + 1 <= Len(a)
               PROVE  f[n + 1] <= bound * Cardinality(Upto(n + 1))
    OBVIOUS
  <2>1. n \in 0 .. Len(a) /\ n <= Len(a) /\ n + 1 \in 1 .. Len(a)
    BY <1>2
  <2>2. PICK c : c = Cardinality(Upto(n))
    OBVIOUS
  <2>3. c \in Nat /\ f[n] <= bound * c /\ f[n] \in Nat
    BY <1>3, <1>4, <1>6, <2>1, <2>2
  <2>4. a[n + 1] \in Nat /\ f[n + 1] = f[n] + a[n + 1]
    BY <1>3
  <2>5. CASE n + 1 \in C
    <3>1. Upto(n + 1) = Upto(n) \cup {n + 1} /\ n + 1 \notin Upto(n)
      BY <2>5
    <3>2. Cardinality(Upto(n + 1)) = c + 1
      <4> HIDE DEF Upto
      <4> QED
        BY <1>4, <2>2, <3>1, FS_AddElement
    <3>3. bound * (c + 1) = bound * c + bound
      BY <2>3
    <3>4. a[n + 1] <= bound /\ bound * c \in Nat
      BY <2>3, <2>5
    <3>5. f[n + 1] <= bound * (c + 1)
      BY <2>3, <2>4, <3>3, <3>4
    <3> HIDE DEF Upto
    <3> QED
      BY <3>2, <3>5
  <2>6. CASE n + 1 \notin C
    <3>1. Upto(n + 1) = Upto(n)
      BY <2>6
    <3>2. a[n + 1] = 0
      BY <2>1, <2>6
    <3> HIDE DEF Upto
    <3> QED
      BY <2>2, <2>3, <2>4, <3>1, <3>2
  <2> QED
    BY <2>5, <2>6
<1>7. Nat \subseteq P
  <2> HIDE DEF P
  <2> QED
    BY <1>5, <1>6, SetInduction
<1>8. Upto(Len(a)) = C
  BY <1>2
<1>9. f[Len(a)] <= bound * Cardinality(Upto(Len(a)))
  <2> HIDE DEF Upto
  <2> QED
    BY <1>2, <1>7
<1> HIDE DEF Upto
<1> QED
  BY <1>2, <1>8, <1>9
=============================================================================
