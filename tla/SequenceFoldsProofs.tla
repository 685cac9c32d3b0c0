------------------------ MODULE SequenceFoldsProofs ------------------------
(***************************************************************************)
(* Lemmas about sequences: induction over the natural numbers, stated for  *)
(* sets so that it can be cited; what a recursive function over a sequence *)
(* is; and from these, what Only, Total, Matched and RemoveAt return.      *)
(***************************************************************************)
EXTENDS SequenceFolds, SequencesExt, SequenceTheorems, WellFoundedInduction, TLAPS

----------------------------------------------------------------------------
(* Induction and recursion.                                                *)

LEMMA LeastNumber ==
  ASSUME NEW S, S \subseteq Nat, S # {}
  PROVE  \E n \in S : \A m \in S : n <= m
<1> DEFINE Less == {p \in Nat \X Nat : p[1] < p[2]}
<1>1. IsWellFoundedOn(Less, Nat)
  BY NatLessThanWellFounded DEF OpToRel
<1>2. \A m, n \in Nat : m < n => <<m, n>> \in Less
  OBVIOUS
<1> HIDE DEF Less
<1>3. PICK n \in S : \A m \in S : <<m, n>> \notin Less
  BY <1>1, WFMin
<1>4. \A m \in S : ~ m < n
  BY <1>2, <1>3
<1>5. QED
  BY <1>4

LEMMA Induction ==
  ASSUME NEW P, 0 \in P, \A n \in Nat : n \in P => n + 1 \in P
  PROVE  Nat \subseteq P
<1>1. SUFFICES ASSUME Nat \ P # {} PROVE FALSE
  OBVIOUS
<1>2. PICK n \in Nat \ P : \A m \in Nat \ P : n <= m
  BY <1>1, LeastNumber
<1>3. n - 1 \in Nat
  BY <1>2
<1>4. n - 1 \in P
  BY <1>2, <1>3
<1>5. (n - 1) + 1 \in P
  BY <1>3, <1>4
<1>6. QED
  BY <1>2, <1>5

(* A function defined by recursion: step gives its value at i from i and   *)
(* from its value at i - 1.  There is one...                               *)
Recursive(f, n, base, step) ==
  f[0] = base /\ \A i \in 1 .. n : f[i] = step[<<i, f[i - 1]>>]

LEMMA RecursionExists ==
  ASSUME NEW n \in Nat, NEW S, NEW base \in S, NEW step \in [(1 .. n) \X S -> S]
  PROVE  \E f \in [0 .. n -> S] : Recursive(f, n, base, step)
<1> USE DEF Recursive
<1> DEFINE P == {k \in Nat : k <= n => \E f \in [0 .. k -> S] : Recursive(f, k, base, step)}
<1>1. 0 \in P
  <2>1. [i \in 0 .. 0 |-> base] \in [0 .. 0 -> S] /\ Recursive([i \in 0 .. 0 |-> base], 0, base, step)
    OBVIOUS
  <2>2. QED
    BY <2>1
<1>2. ASSUME NEW k \in Nat, k \in P PROVE k + 1 \in P
  <2>1. SUFFICES ASSUME k + 1 <= n PROVE \E g \in [0 .. k + 1 -> S] : Recursive(g, k + 1, base, step)
    OBVIOUS
  <2>2. PICK f \in [0 .. k -> S] : Recursive(f, k, base, step)
    BY <1>2, <2>1
  <2> DEFINE g == [i \in 0 .. k + 1 |-> IF i <= k THEN f[i] ELSE step[<<k + 1, f[k]>>]]
  <2>3. <<k + 1, f[k]>> \in (1 .. n) \X S
    BY <2>1
  <2>4. g \in [0 .. k + 1 -> S]
    BY <2>3
  <2>5. \A i \in 0 .. k : g[i] = f[i]
    OBVIOUS
  <2>6. g[k + 1] = step[<<k + 1, g[k]>>]
    <3>1. k + 1 \in 0 .. k + 1 /\ ~ k + 1 <= k /\ k \in 0 .. k
      OBVIOUS
    <3>2. g[k + 1] = step[<<k + 1, f[k]>>]
      BY <3>1
    <3>3. QED
      BY <2>5, <3>1, <3>2
  <2> HIDE DEF g
  <2>7. ASSUME NEW i \in 1 .. k + 1 PROVE g[i] = step[<<i, g[i - 1]>>]
    <3>1. CASE i = k + 1
      BY <2>6, <3>1
    <3>2. CASE i # k + 1
      <4>1. i \in 1 .. k /\ i \in 0 .. k /\ i - 1 \in 0 .. k
        BY <3>2
      <4>2. QED
        BY <2>2, <2>5, <4>1
    <3>3. QED
      BY <3>1, <3>2
  <2>8. g[0] = base
    BY <2>2, <2>5
  <2>9. QED
    BY <2>4, <2>7, <2>8
<1> HIDE DEF P
<1>3. n \in P
  BY <1>1, <1>2, Induction
<1> USE DEF P
<1>4. QED
  BY <1>3

(* ... and no other.                                                       *)
InStep(f, g, n) == f[0] = g[0] /\ \A i \in 1 .. n : f[i - 1] = g[i - 1] => f[i] = g[i]

LEMMA RecursionUnique ==
  ASSUME NEW n \in Nat, NEW f, NEW g, InStep(f, g, n)
  PROVE  \A i \in 0 .. n : f[i] = g[i]
<1> USE DEF InStep
<1> DEFINE P == {k \in Nat : k <= n => f[k] = g[k]}
<1>1. 0 \in P
  OBVIOUS
<1>2. ASSUME NEW k \in Nat, k \in P PROVE k + 1 \in P
  <2>1. SUFFICES ASSUME k + 1 <= n PROVE f[k + 1] = g[k + 1]
    OBVIOUS
  <2>2. f[k] = g[k] /\ k + 1 \in 1 .. n /\ (k + 1) - 1 = k
    BY <1>2, <2>1
  <2>3. QED
    BY <2>2
<1> HIDE DEF P
<1>3. Nat \subseteq P
  BY <1>1, <1>2, Induction
<1>4. QED
  BY <1>3 DEF P


----------------------------------------------------------------------------
(* Only.                                                                   *)

(* kept[i] is what is kept of the first i elements.                        *)
Keeps(kept, s, T) ==
  /\ kept[0] = <<>>
  /\ \A i \in 1 .. Len(s) :
       kept[i] = IF s[i] \in T THEN Append(kept[i - 1], s[i]) ELSE kept[i - 1]

LEMMA OnlyFunction ==
  ASSUME NEW S, NEW s \in Seq(S), NEW T
  PROVE  \E kept \in [0 .. Len(s) -> Seq(S)] : Keeps(kept, s, T) /\ Only(s, T) = kept[Len(s)]
<1> DEFINE step == [p \in (1 .. Len(s)) \X Seq(S) |->
                      IF s[p[1]] \in T THEN Append(p[2], s[p[1]]) ELSE p[2]]
           Is(f) == f = [i \in 0 .. Len(s) |->
                           IF i = 0 THEN <<>>
                           ELSE IF s[i] \in T THEN Append(f[i - 1], s[i]) ELSE f[i - 1]]
<1>1. Len(s) \in Nat /\ <<>> \in Seq(S) /\ \A i \in 1 .. Len(s) : s[i] \in S
  BY ElementOfSeq, LenProperties
<1>2. step \in [(1 .. Len(s)) \X Seq(S) -> Seq(S)]
  BY <1>1, AppendProperties
<1>3. \A i \in 1 .. Len(s), r \in Seq(S) :
        step[<<i, r>>] = IF s[i] \in T THEN Append(r, s[i]) ELSE r
  OBVIOUS
<1> HIDE DEF step
<1>4. PICK f \in [0 .. Len(s) -> Seq(S)] :
        Recursive(f, Len(s), <<>>, step)
  BY <1>1, <1>2, RecursionExists
<1>5. \A i \in 1 .. Len(s) : f[i] = IF s[i] \in T THEN Append(f[i - 1], s[i]) ELSE f[i - 1]
  <2>1. \A i \in 1 .. Len(s) : f[i - 1] \in Seq(S)
    BY <1>1
  <2>2. QED
    BY <1>3, <1>4, <2>1 DEF Recursive
<1>6. Is(f)
  <2>1. ASSUME NEW i \in 0 .. Len(s)
        PROVE  f[i] = IF i = 0 THEN <<>>
                      ELSE IF s[i] \in T THEN Append(f[i - 1], s[i]) ELSE f[i - 1]
    <3>1. CASE i = 0
      BY <1>4, <3>1 DEF Recursive
    <3>2. CASE i # 0
      <4>1. i \in 1 .. Len(s)
        BY <1>1, <3>2
      <4>2. QED
        BY <1>5, <3>2, <4>1
    <3>3. QED
      BY <3>1, <3>2
  <2>2. QED
    BY <2>1
<1> DEFINE g == CHOOSE g : Is(g)
<1>7. Is(g)
  BY <1>6, Zenon
<1>8. Only(s, T) = g[Len(s)]
  BY DEF Only
<1> HIDE DEF g
<1>9. \A i \in 0 .. Len(s) : g[i] = f[i]
  <2>1. /\ g[0] = <<>>
        /\ \A i \in 1 .. Len(s) : g[i] = IF s[i] \in T THEN Append(g[i - 1], s[i]) ELSE g[i - 1]
    <3>1. \A i \in 0 .. Len(s) :
            g[i] = IF i = 0 THEN <<>>
                   ELSE IF s[i] \in T THEN Append(g[i - 1], s[i]) ELSE g[i - 1]
      BY <1>7, Zenon
    <3>2. 0 \in 0 .. Len(s) /\ \A i \in 1 .. Len(s) : i \in 0 .. Len(s) /\ i # 0
      BY <1>1
    <3>3. QED
      BY <3>1, <3>2
  <2>2. InStep(g, f, Len(s))
    BY <1>4, <1>5, <2>1 DEF InStep, Recursive
  <2>3. QED
    BY <1>1, <2>2, RecursionUnique
<1>10. Only(s, T) = f[Len(s)]
  BY <1>1, <1>8, <1>9
<1>11. Keeps(f, s, T)
  BY <1>4, <1>5 DEF Keeps, Recursive
<1>12. QED
  BY <1>10, <1>11

(* Only keeps the elements of T, each from a place e[i] of its own, in the *)
(* order of the places: k places of s were looked at.                      *)
KeptAt(e, r, s, k, T) ==
  /\ e \in [1 .. Len(r) -> 1 .. k]
  /\ \A i \in 1 .. Len(r) : r[i] = s[e[i]] /\ r[i] \in T
  /\ \A i, j \in 1 .. Len(r) : i < j => e[i] < e[j]
  /\ \A p \in 1 .. k : s[p] \in T => \E i \in 1 .. Len(r) : e[i] = p

LEMMA PlaceAdded ==
  ASSUME NEW S, NEW s \in Seq(S), NEW T, NEW r \in Seq(S), NEW k \in Nat, k < Len(s),
         NEW e, KeptAt(e, r, s, k, T)
  PROVE  /\ s[k + 1] \notin T => KeptAt(e, r, s, k + 1, T)
         /\ s[k + 1] \in T => \E f : KeptAt(f, Append(r, s[k + 1]), s, k + 1, T)
<1>1. Len(s) \in Nat /\ Len(r) \in Nat /\ k + 1 \in 1 .. Len(s) /\ s[k + 1] \in S
  BY ElementOfSeq, LenProperties
<1>2. ASSUME s[k + 1] \notin T PROVE KeptAt(e, r, s, k + 1, T)
  <2>1. e \in [1 .. Len(r) -> 1 .. k + 1]
    BY DEF KeptAt
  <2>2. \A p \in 1 .. k + 1 : s[p] \in T => p \in 1 .. k
    BY <1>2
  <2>3. QED
    BY <2>1, <2>2 DEF KeptAt
<1>3. ASSUME s[k + 1] \in T PROVE \E f : KeptAt(f, Append(r, s[k + 1]), s, k + 1, T)
  <2> DEFINE x == s[k + 1]
             q == Append(r, x)
             n == Len(r)
             f == [i \in 1 .. n + 1 |-> IF i <= n THEN e[i] ELSE k + 1]
  <2>1. Len(q) = n + 1 /\ q[n + 1] = x /\ \A i \in 1 .. n : q[i] = r[i]
    BY <1>1, AppendProperties
  <2>2. /\ \A i \in 1 .. n : e[i] \in 1 .. k /\ r[i] = s[e[i]] /\ r[i] \in T
        /\ \A i, j \in 1 .. n : i < j => e[i] < e[j]
        /\ \A p \in 1 .. k : s[p] \in T => \E i \in 1 .. n : e[i] = p
    BY DEF KeptAt
  <2>3. f[n + 1] = k + 1 /\ \A i \in 1 .. n : f[i] = e[i]
    BY <1>1
  <2>4. f \in [1 .. n + 1 -> 1 .. k + 1]
    BY <1>1, <2>2
  <2>5. s[k + 1] = x /\ x \in T
    BY <1>3
  <2> HIDE DEF f, q, x
  <2>6. n \in Nat
    BY <1>1
  <2> HIDE DEF n
  <2>7. ASSUME NEW i \in 1 .. n + 1 PROVE q[i] = s[f[i]] /\ q[i] \in T
    <3>1. CASE i = n + 1
      BY <2>1, <2>3, <2>5, <3>1
    <3>2. CASE i # n + 1
      <4>1. i \in 1 .. n
        BY <2>6, <3>2
      <4>2. QED
        BY <2>1, <2>2, <2>3, <4>1
    <3>3. QED
      BY <3>1, <3>2
  <2>8. ASSUME NEW i \in 1 .. n + 1, NEW j \in 1 .. n + 1, i < j PROVE f[i] < f[j]
    <3>1. i \in 1 .. n /\ f[i] = e[i] /\ e[i] \in 1 .. k
      BY <2>2, <2>3, <2>6, <2>8
    <3>2. CASE j = n + 1
      BY <2>3, <3>1, <3>2
    <3>3. CASE j # n + 1
      <4>1. j \in 1 .. n
        BY <2>6, <3>3
      <4>2. QED
        BY <2>2, <2>3, <2>8, <3>1, <4>1
    <3>4. QED
      BY <3>2, <3>3
  <2>9. ASSUME NEW p \in 1 .. k + 1, s[p] \in T PROVE \E i \in 1 .. n + 1 : f[i] = p
    <3>1. CASE p = k + 1
      BY <2>3, <2>6, <3>1
    <3>2. CASE p # k + 1
      <4>1. PICK i \in 1 .. n : e[i] = p
        BY <2>2, <2>9, <3>2
      <4>2. i \in 1 .. n + 1 /\ f[i] = p
        BY <2>3, <2>6, <4>1
      <4>3. QED
        BY <4>2
    <3>3. QED
      BY <3>1, <3>2
  <2>10. KeptAt(f, q, s, k + 1, T)
    BY <2>1, <2>4, <2>7, <2>8, <2>9 DEF KeptAt
  <2>11. QED
    BY <2>10 DEF q, x
<1>4. QED
  BY <1>2, <1>3

LEMMA OnlyPlaces ==
  ASSUME NEW S, NEW s \in Seq(S), NEW T
  PROVE  /\ Only(s, T) \in Seq(S)
         /\ \E e : KeptAt(e, Only(s, T), s, Len(s), T)
<1>1. PICK kept \in [0 .. Len(s) -> Seq(S)] :
        Keeps(kept, s, T) /\ Only(s, T) = kept[Len(s)]
  BY OnlyFunction
<1>2. Len(s) \in Nat
  BY LenProperties
<1> DEFINE P == {k \in Nat : k <= Len(s) => \E e : KeptAt(e, kept[k], s, k, T)}
<1>3. 0 \in P
  <2>1. KeptAt(<<>>, kept[0], s, 0, T)
    BY <1>1 DEF KeptAt, Keeps
  <2>2. QED
    BY <2>1
<1>4. ASSUME NEW k \in Nat, k \in P PROVE k + 1 \in P
  <2>1. SUFFICES ASSUME k + 1 <= Len(s) PROVE \E e : KeptAt(e, kept[k + 1], s, k + 1, T)
    OBVIOUS
  <2>2. k < Len(s) /\ k \in 0 .. Len(s) /\ k + 1 \in 1 .. Len(s) /\ (k + 1) - 1 = k
    BY <1>2, <2>1
  <2>3. PICK e : KeptAt(e, kept[k], s, k, T)
    BY <1>4, <2>2
  <2>4. kept[k] \in Seq(S)
    BY <2>2
  <2>5. kept[k + 1] = IF s[k + 1] \in T THEN Append(kept[k], s[k + 1]) ELSE kept[k]
    BY <1>1, <2>2 DEF Keeps
  <2>6. QED
    BY <2>2, <2>3, <2>4, <2>5, PlaceAdded
<1> HIDE DEF P
<1>5. Len(s) \in P
  BY <1>2, <1>3, <1>4, Induction
<1>6. QED
  BY <1>1, <1>2, <1>5 DEF P
----------------------------------------------------------------------------
(* Total.                                                                  *)

(* sum[i] is the sum of the first i elements.                              *)
Sums(sum, s) == sum[0] = 0 /\ \A i \in 1 .. Len(s) : sum[i] = sum[i - 1] + s[i]

LEMMA TotalFunction ==
  ASSUME NEW s \in Seq(Int)
  PROVE  \E sum \in [0 .. Len(s) -> Int] : Sums(sum, s) /\ Total(s) = sum[Len(s)]
<1> DEFINE step == [p \in (1 .. Len(s)) \X Int |-> p[2] + s[p[1]]]
           Is(f) == f = [i \in 0 .. Len(s) |-> IF i = 0 THEN 0 ELSE f[i - 1] + s[i]]
<1>1. Len(s) \in Nat /\ 0 \in Int /\ \A i \in 1 .. Len(s) : s[i] \in Int
  BY ElementOfSeq, LenProperties
<1>2. step \in [(1 .. Len(s)) \X Int -> Int]
  BY <1>1
<1>3. \A i \in 1 .. Len(s), n \in Int : step[<<i, n>>] = n + s[i]
  OBVIOUS
<1> HIDE DEF step
<1>4. PICK f \in [0 .. Len(s) -> Int] : Recursive(f, Len(s), 0, step)
  BY <1>1, <1>2, RecursionExists, Zenon
<1>5. \A i \in 1 .. Len(s) : f[i] = f[i - 1] + s[i]
  <2>1. \A i \in 1 .. Len(s) : f[i - 1] \in Int
    BY <1>1
  <2>2. QED
    BY <1>3, <1>4, <2>1 DEF Recursive
<1>6. Is(f)
  <2>1. ASSUME NEW i \in 0 .. Len(s) PROVE f[i] = IF i = 0 THEN 0 ELSE f[i - 1] + s[i]
    <3>1. CASE i = 0
      BY <1>4, <3>1 DEF Recursive
    <3>2. CASE i # 0
      <4>1. i \in 1 .. Len(s)
        BY <1>1, <3>2
      <4>2. QED
        BY <1>5, <3>2, <4>1
    <3>3. QED
      BY <3>1, <3>2
  <2>2. QED
    BY <2>1
<1> DEFINE g == CHOOSE g : Is(g)
<1>7. Is(g)
  BY <1>6, Zenon
<1>8. Total(s) = g[Len(s)]
  BY DEF Total
<1> HIDE DEF g
<1>9. \A i \in 0 .. Len(s) : g[i] = f[i]
  <2>1. Sums(g, s)
    <3>1. \A i \in 0 .. Len(s) : g[i] = IF i = 0 THEN 0 ELSE g[i - 1] + s[i]
      BY <1>7, Zenon
    <3>2. 0 \in 0 .. Len(s) /\ \A i \in 1 .. Len(s) : i \in 0 .. Len(s) /\ i # 0
      BY <1>1
    <3>3. QED
      BY <3>1, <3>2 DEF Sums
  <2>2. InStep(g, f, Len(s))
    BY <1>4, <1>5, <2>1 DEF InStep, Recursive, Sums
  <2>3. QED
    BY <1>1, <2>2, RecursionUnique
<1>10. Total(s) = f[Len(s)]
  BY <1>1, <1>8, <1>9
<1>11. Sums(f, s)
  BY <1>4, <1>5 DEF Sums, Recursive
<1>12. QED
  BY <1>10, <1>11

LEMMA TotalEmpty == Total(<<>>) = 0
<1>1. <<>> \in Seq(Int) /\ Len(<<>>) = 0
  BY EmptySeq
<1>2. PICK sum \in [0 .. Len(<<>>) -> Int] : Sums(sum, <<>>) /\ Total(<<>>) = sum[Len(<<>>)]
  BY <1>1, TotalFunction
<1>3. QED
  BY <1>1, <1>2 DEF Sums

LEMMA TotalAppend ==
  ASSUME NEW s \in Seq(Int), NEW x \in Int
  PROVE  Total(s) \in Int /\ Total(Append(s, x)) = Total(s) + x
<1> DEFINE r == Append(s, x)
<1>1. /\ r \in Seq(Int) /\ Len(s) \in Nat /\ Len(r) = Len(s) + 1
      /\ r[Len(s) + 1] = x /\ \A i \in 1 .. Len(s) : r[i] = s[i]
  BY AppendProperties
<1> HIDE DEF r
<1>2. PICK f \in [0 .. Len(s) -> Int] : Sums(f, s) /\ Total(s) = f[Len(s)]
  BY TotalFunction
<1>3. PICK g \in [0 .. Len(r) -> Int] : Sums(g, r) /\ Total(r) = g[Len(r)]
  BY <1>1, TotalFunction
<1>4. InStep(g, f, Len(s))
  <2>1. \A i \in 1 .. Len(s) : f[i] = f[i - 1] + s[i]
    BY <1>2 DEF Sums
  <2>2. \A i \in 1 .. Len(s) : g[i] = g[i - 1] + s[i]
    BY <1>1, <1>3 DEF Sums
  <2>3. QED
    BY <1>2, <1>3, <2>1, <2>2 DEF InStep, Sums
<1>5. g[Len(s)] = f[Len(s)]
  BY <1>1, <1>4, RecursionUnique
<1>6. g[Len(r)] = g[Len(s)] + x
  <2>1. Len(r) \in 1 .. Len(r) /\ Len(r) - 1 = Len(s) /\ r[Len(r)] = x
    BY <1>1
  <2>2. QED
    BY <1>3, <2>1 DEF Sums
<1>7. f[Len(s)] \in Int
  BY <1>1
<1>8. QED
  BY <1>2, <1>3, <1>5, <1>6, <1>7 DEF r
----------------------------------------------------------------------------
(* Matched.                                                                *)

Meets(met, s, r) == met[0] = 0 /\ \A i \in 1 .. Len(s) : met[i] = Further(met[i - 1], s[i], r)

LEMMA FurtherIsNat ==
  ASSUME NEW m \in Nat, NEW e, NEW S, NEW r \in Seq(S), m <= Len(r)
  PROVE  Further(m, e, r) \in 0 .. Len(r)
<1>1. Len(r) \in Nat
  BY LenProperties
<1>2. QED
  BY <1>1 DEF Further

LEMMA MatchedFunction ==
  ASSUME NEW S, NEW s \in Seq(S), NEW r \in Seq(S)
  PROVE  \E met \in [0 .. Len(s) -> 0 .. Len(r)] : Meets(met, s, r) /\ Matched(s, r) = met[Len(s)]
<1> DEFINE R == 0 .. Len(r)
           step == [p \in (1 .. Len(s)) \X R |-> Further(p[2], s[p[1]], r)]
           Is(f) == f = [i \in 0 .. Len(s) |-> IF i = 0 THEN 0 ELSE Further(f[i - 1], s[i], r)]
<1>1. Len(s) \in Nat /\ Len(r) \in Nat /\ 0 \in R
  BY LenProperties
<1>2. step \in [(1 .. Len(s)) \X R -> R]
  <2>1. ASSUME NEW p \in (1 .. Len(s)) \X R PROVE Further(p[2], s[p[1]], r) \in R
    <3>1. p[2] \in Nat /\ p[2] <= Len(r)
      BY <1>1
    <3>2. QED
      BY <3>1, FurtherIsNat
  <2>2. QED
    BY <2>1
<1>3. \A i \in 1 .. Len(s), m \in R : step[<<i, m>>] = Further(m, s[i], r)
  OBVIOUS
<1> HIDE DEF step, R
<1>4. PICK f \in [0 .. Len(s) -> R] : Recursive(f, Len(s), 0, step)
  BY <1>1, <1>2, RecursionExists, Zenon
<1>5. \A i \in 1 .. Len(s) : f[i] = Further(f[i - 1], s[i], r)
  <2>1. \A i \in 1 .. Len(s) : f[i - 1] \in R
    BY <1>1
  <2>2. QED
    BY <1>3, <1>4, <2>1 DEF Recursive
<1>6. Is(f)
  <2>1. ASSUME NEW i \in 0 .. Len(s)
        PROVE  f[i] = IF i = 0 THEN 0 ELSE Further(f[i - 1], s[i], r)
    <3>1. CASE i = 0
      BY <1>4, <3>1 DEF Recursive
    <3>2. CASE i # 0
      <4>1. i \in 1 .. Len(s)
        BY <1>1, <3>2
      <4>2. QED
        BY <1>5, <3>2, <4>1
    <3>3. QED
      BY <3>1, <3>2
  <2>2. QED
    BY <2>1
<1> DEFINE g == CHOOSE g : Is(g)
<1>7. Is(g)
  BY <1>6, Zenon
<1>8. Matched(s, r) = g[Len(s)]
  BY DEF Matched
<1> HIDE DEF g
<1>9. \A i \in 0 .. Len(s) : g[i] = f[i]
  <2>1. Meets(g, s, r)
    <3>1. \A i \in 0 .. Len(s) : g[i] = IF i = 0 THEN 0 ELSE Further(g[i - 1], s[i], r)
      BY <1>7, Zenon
    <3>2. 0 \in 0 .. Len(s) /\ \A i \in 1 .. Len(s) : i \in 0 .. Len(s) /\ i # 0
      BY <1>1
    <3>3. QED
      BY <3>1, <3>2 DEF Meets
  <2>2. InStep(g, f, Len(s))
    BY <1>4, <1>5, <2>1 DEF InStep, Recursive, Meets
  <2>3. QED
    BY <1>1, <2>2, RecursionUnique
<1>10. Matched(s, r) = f[Len(s)]
  BY <1>1, <1>8, <1>9
<1>11. Meets(f, s, r)
  BY <1>4, <1>5 DEF Meets, Recursive
<1>12. QED
  BY <1>10, <1>11 DEF R

(* Nothing is missing from any sequence.                                   *)
LEMMA MatchedNone ==
  ASSUME NEW S, NEW s \in Seq(S)
  PROVE  Matched(s, <<>>) = Len(<<>>)
<1>1. <<>> \in Seq(S) /\ Len(<<>>) = 0 /\ Len(s) \in Nat
  BY EmptySeq, LenProperties
<1>2. PICK met \in [0 .. Len(s) -> 0 .. Len(<<>>)] : Matched(s, <<>>) = met[Len(s)]
  BY <1>1, MatchedFunction
<1>3. QED
  BY <1>1, <1>2

(* What is in a sequence is in a longer one...                             *)
LEMMA MatchedLonger ==
  ASSUME NEW S, NEW s \in Seq(S), NEW r \in Seq(S), NEW e \in S, Matched(s, r) = Len(r)
  PROVE  Matched(Append(s, e), r) = Len(r)
<1> DEFINE t == Append(s, e)
<1>1. /\ t \in Seq(S) /\ Len(s) \in Nat /\ Len(r) \in Nat /\ Len(t) = Len(s) + 1
      /\ \A i \in 1 .. Len(s) : t[i] = s[i]
  BY AppendProperties, LenProperties
<1> HIDE DEF t
<1>2. PICK f \in [0 .. Len(s) -> 0 .. Len(r)] : Meets(f, s, r) /\ Matched(s, r) = f[Len(s)]
  BY MatchedFunction
<1>3. PICK g \in [0 .. Len(t) -> 0 .. Len(r)] : Meets(g, t, r) /\ Matched(t, r) = g[Len(t)]
  BY <1>1, MatchedFunction
<1>4. InStep(g, f, Len(s))
  <2>1. \A i \in 1 .. Len(s) : g[i] = Further(g[i - 1], s[i], r)
    BY <1>1, <1>3 DEF Meets
  <2>2. QED
    BY <1>2, <1>3, <2>1 DEF InStep, Meets
<1>5. g[Len(s)] = Len(r)
  BY <1>1, <1>2, <1>4, RecursionUnique
<1>6. g[Len(t)] = Further(g[Len(s)], t[Len(t)], r)
  <2>1. Len(t) \in 1 .. Len(t) /\ Len(t) - 1 = Len(s)
    BY <1>1
  <2>2. QED
    BY <1>3, <2>1 DEF Meets
<1>7. QED
  BY <1>1, <1>3, <1>5, <1>6 DEF Further, t

(* ... also when both grow by the same element.                            *)
Ahead(f, g, i, n) == g[i] = f[i] \/ (f[i] = n /\ g[i] = n + 1)

LEMMA MatchedBoth ==
  ASSUME NEW S, NEW s \in Seq(S), NEW r \in Seq(S), NEW e \in S, Matched(s, r) = Len(r)
  PROVE  Matched(Append(s, e), Append(r, e)) = Len(Append(r, e))
<1> DEFINE t == Append(s, e)
           q == Append(r, e)
           n == Len(r)
<1>1. /\ t \in Seq(S) /\ Len(s) \in Nat /\ Len(t) = Len(s) + 1
      /\ t[Len(t)] = e /\ \A i \in 1 .. Len(s) : t[i] = s[i]
  BY AppendProperties, LenProperties
<1>2. /\ q \in Seq(S) /\ n \in Nat /\ Len(q) = n + 1
      /\ q[n + 1] = e /\ \A i \in 1 .. n : q[i] = r[i]
  BY AppendProperties, LenProperties
<1> HIDE DEF t, q
<1>3. PICK f \in [0 .. Len(s) -> 0 .. Len(r)] : Meets(f, s, r) /\ Matched(s, r) = f[Len(s)]
  BY MatchedFunction
<1>4. PICK g \in [0 .. Len(t) -> 0 .. Len(q)] : Meets(g, t, q) /\ Matched(t, q) = g[Len(t)]
  BY <1>1, <1>2, MatchedFunction
<1> DEFINE P == {i \in Nat : i <= Len(s) => Ahead(f, g, i, n)}
<1>5. 0 \in P
  BY <1>3, <1>4 DEF Meets, Ahead
<1>6. ASSUME NEW k \in Nat, k \in P PROVE k + 1 \in P
  <2>1. SUFFICES ASSUME k + 1 <= Len(s) PROVE Ahead(f, g, k + 1, n)
    OBVIOUS
  <2>2. Ahead(f, g, k, n) /\ k + 1 \in 1 .. Len(s) /\ k + 1 \in 1 .. Len(t) /\ (k + 1) - 1 = k
    BY <1>1, <1>6, <2>1
  <2>3. f[k + 1] = Further(f[k], s[k + 1], r) /\ g[k + 1] = Further(g[k], s[k + 1], q)
    BY <1>1, <1>3, <1>4, <2>2 DEF Meets
  <2>4. f[k] \in 0 .. n /\ g[k] \in 0 .. n + 1
    BY <1>1, <1>2, <1>3, <1>4, <2>1
  <2>5. CASE f[k] = n
    BY <1>2, <2>2, <2>3, <2>4, <2>5 DEF Further, Ahead
  <2>6. CASE f[k] # n
    <3>1. g[k] = f[k] /\ f[k] + 1 \in 1 .. n
      BY <1>2, <2>2, <2>4, <2>6 DEF Ahead
    <3>2. QED
      BY <1>2, <2>3, <2>4, <2>6, <3>1 DEF Further, Ahead
  <2>7. QED
    BY <2>5, <2>6
<1> HIDE DEF P
<1>7. Len(s) \in P
  BY <1>1, <1>5, <1>6, Induction
<1>8. g[Len(s)] \in {n, n + 1}
  BY <1>1, <1>3, <1>7 DEF P, Ahead
<1>9. g[Len(t)] = Further(g[Len(s)], e, q)
  <2>1. Len(t) \in 1 .. Len(t) /\ Len(t) - 1 = Len(s)
    BY <1>1
  <2>2. QED
    BY <1>1, <1>4, <2>1 DEF Meets
<1>10. g[Len(t)] = n + 1
  BY <1>2, <1>8, <1>9 DEF Further
<1>11. QED
  BY <1>2, <1>4, <1>10 DEF t, q

----------------------------------------------------------------------------
(* RemoveAt.                                                               *)

LEMMA Removed ==
  ASSUME NEW S, NEW s \in Seq(S), NEW k \in 1 .. Len(s)
  PROVE  LET r == RemoveAt(s, k)
         IN  /\ r \in Seq(S) /\ Len(r) = Len(s) - 1 /\ DOMAIN r = 1 .. Len(r)
             /\ \A i \in 1 .. Len(r) : r[i] = IF i < k THEN s[i] ELSE s[i + 1]
<1> DEFINE r == RemoveAt(s, k)
           a == SubSeq(s, 1, k - 1)
           b == SubSeq(s, k + 1, Len(s))
<1>1. Len(s) \in Nat /\ DOMAIN s = 1 .. Len(s) /\ \A i \in 1 .. Len(s) : s[i] \in S
  BY LenProperties, ElementOfSeq
<1>2. a \in Seq(S) /\ Len(a) = k - 1 /\ \A i \in 1 .. k - 1 : a[i] = s[i]
  <2>1. /\ a \in Seq(S) /\ Len(a) = (IF 1 <= k - 1 THEN k - 1 - 1 + 1 ELSE 0)
        /\ \A i \in 1 .. k - 1 - 1 + 1 : a[i] = s[1 + i - 1]
    BY <1>1, SubSeqProperties
  <2> HIDE DEF a
  <2>2. QED
    BY <1>1, <2>1
<1>3. /\ b \in Seq(S) /\ Len(b) = Len(s) - k
      /\ \A i \in 1 .. Len(s) - k : b[i] = s[k + i]
  <2>1. /\ b \in Seq(S)
        /\ Len(b) = (IF k + 1 <= Len(s) THEN Len(s) - (k + 1) + 1 ELSE 0)
        /\ \A i \in 1 .. Len(s) - (k + 1) + 1 : b[i] = s[k + 1 + i - 1]
    BY <1>1, SubSeqProperties
  <2> HIDE DEF b
  <2>2. Len(b) = Len(s) - k
    <3>1. Len(s) \in Nat /\ k \in 1 .. Len(s)
      BY <1>1
    <3>2. Len(b) = (IF k + 1 <= Len(s) THEN Len(s) - (k + 1) + 1 ELSE 0)
      BY <2>1
    <3>3. QED
      BY ONLY <3>1, <3>2
  <2>3. ASSUME NEW i \in 1 .. Len(s) - k PROVE b[i] = s[k + i]
    <3>1. i \in 1 .. Len(s) - (k + 1) + 1 /\ k + 1 + i - 1 = k + i
      BY <1>1
    <3>2. QED
      BY <2>1, <3>1
  <2>4. QED
    BY <2>1, <2>2, <2>3
<1>4. r = a \o b
  BY DEF RemoveAt
<1> HIDE DEF r, a, b
<1>5. /\ r \in Seq(S) /\ Len(r) = Len(s) - 1 /\ DOMAIN r = 1 .. Len(r)
      /\ \A i \in 1 .. Len(r) : r[i] = IF i < k THEN s[i] ELSE s[i + 1]
  <2>1. /\ r \in Seq(S) /\ Len(r) = Len(a) + Len(b)
        /\ \A i \in 1 .. Len(a) + Len(b) : r[i] = IF i <= Len(a) THEN a[i] ELSE b[i - Len(a)]
    BY <1>2, <1>3, <1>4, ConcatProperties
  <2>2. DOMAIN r = 1 .. Len(r)
    BY <2>1, LenProperties
  <2>3. Len(r) = Len(s) - 1
    BY <1>1, <1>2, <1>3, <2>1
  <2>4. ASSUME NEW i \in 1 .. Len(r) PROVE r[i] = IF i < k THEN s[i] ELSE s[i + 1]
    <3>1. CASE i < k
      <4>1. i \in 1 .. k - 1 /\ i <= Len(a)
        BY <1>1, <1>2, <2>3, <3>1
      <4>2. r[i] = a[i]
        BY <2>1, <4>1
      <4>3. QED
        BY <1>2, <3>1, <4>1, <4>2
    <3>2. CASE ~ i < k
      <4>1. /\ i - Len(a) \in 1 .. Len(s) - k /\ ~ i <= Len(a)
            /\ k + (i - Len(a)) = i + 1
        BY <1>1, <1>2, <2>3, <3>2
      <4>2. r[i] = b[i - Len(a)]
        BY <2>1, <4>1
      <4>3. QED
        BY <1>3, <3>2, <4>1, <4>2
    <3>3. QED
      BY <3>1, <3>2
  <2>5. QED
    BY <2>1, <2>2, <2>3, <2>4
<1>6. QED
  BY <1>5 DEF r
=============================================================================
