-------------------------- MODULE EmMinimizeProofs --------------------------
(***************************************************************************)
(* Minimization, for recordings, guests and ranges of any size.  First the *)
(* lists of events: what a pass keeps, what the guest is given, and what   *)
(* is left after events are culled.  Then the search: its types and its    *)
(* stack of ranges (SearchInv), and, as long as nothing disturbs it, what  *)
(* the replays have shown of the ranges tested so far (CalmInv).           *)
(***************************************************************************)
EXTENDS EmMinimize, SequenceFoldsProofs

-----------------------------------------------------------------------------
(* Sequences of places in their order                                      *)

\* r lists the elements of T, places of a list of n.
Lists(r, T, n) ==
  /\ r \in Seq(1 .. n) /\ Len(r) <= n
  /\ \A i \in 1 .. Len(r) : r[i] \in T
  /\ \A i, j \in 1 .. Len(r) : i < j => r[i] < r[j]
  /\ \A p \in T : \E i \in 1 .. Len(r) : r[i] = p
  /\ Len(r) = n => \A i \in 1 .. n : r[i] = i

(* Places in their order leave no room for others.                         *)
LEMMA NoRoom ==
  ASSUME NEW n \in Nat, NEW k \in Nat, NEW r \in [1 .. k -> 1 .. n],
         \A i, j \in 1 .. k : i < j => r[i] < r[j]
  PROVE  /\ \A i \in 1 .. k : i <= r[i] /\ k - i <= n - r[i]
         /\ k <= n /\ (k = n => \A i \in 1 .. n : r[i] = i)
<1> DEFINE P == {i \in Nat : i + 1 <= k => i + 1 <= r[i + 1]}
           Q == {i \in Nat : i < k => i <= n - r[k - i]}
<1>1. \A i \in 1 .. k : r[i] \in 1 .. n
  OBVIOUS
<1>2. \A i \in 1 .. k - 1 : r[i] + 1 <= r[i + 1]
  BY <1>1
<1>3. Nat \subseteq P
  <2>1. 0 \in P
    BY <1>1
  <2>2. ASSUME NEW i \in Nat, i \in P PROVE i + 1 \in P
    <3>1. SUFFICES ASSUME i + 1 + 1 <= k PROVE i + 1 + 1 <= r[i + 1 + 1]
      OBVIOUS
    <3>2. i + 1 \in 1 .. k - 1 /\ i + 1 + 1 \in 1 .. k
      BY <3>1
    <3>3. i + 1 <= r[i + 1] /\ r[i + 1] + 1 <= r[i + 1 + 1]
      BY <1>2, <2>2, <3>1, <3>2
    <3>4. r[i + 1] \in Int /\ r[i + 1 + 1] \in Int
      BY <1>1, <3>2
    <3>5. QED
      BY <3>3, <3>4
  <2> HIDE DEF P
  <2>3. QED
    BY <2>1, <2>2, Induction
<1>4. Nat \subseteq Q
  <2>1. 0 \in Q
    BY <1>1
  <2>2. ASSUME NEW i \in Nat, i \in Q PROVE i + 1 \in Q
    <3>1. SUFFICES ASSUME i + 1 < k PROVE i + 1 <= n - r[k - (i + 1)]
      OBVIOUS
    <3>2. k - (i + 1) \in 1 .. k - 1 /\ k - (i + 1) + 1 = k - i /\ k - i \in 1 .. k
      BY <3>1
    <3>3. i <= n - r[k - i] /\ r[k - (i + 1)] + 1 <= r[k - i]
      BY <1>2, <2>2, <3>1, <3>2
    <3>4. r[k - i] \in Int /\ r[k - (i + 1)] \in Int
      BY <1>1, <3>2
    <3>5. QED
      BY <3>3, <3>4
  <2> HIDE DEF Q
  <2>3. QED
    BY <2>1, <2>2, Induction
<1>5. ASSUME NEW i \in 1 .. k PROVE i <= r[i] /\ k - i <= n - r[i]
  <2>1. i - 1 \in Nat /\ (i - 1) + 1 = i /\ k - i \in Nat /\ k - (k - i) = i
    OBVIOUS
  <2>2. i - 1 \in P /\ k - i \in Q
    BY <1>3, <1>4, <2>1
  <2>3. i <= r[i]
    BY <2>1, <2>2
  <2>4. k - i < k
    BY <2>1
  <2>5. k - i <= n - r[k - (k - i)]
    BY <2>2, <2>4
  <2>6. QED
    BY <2>1, <2>3, <2>5
<1>6. k <= n
  <2>1. CASE k = 0
    BY <2>1
  <2>2. CASE k > 0
    <3>1. k \in 1 .. k
      BY <2>2
    <3>2. k <= r[k] /\ r[k] \in 1 .. n
      BY <1>1, <1>5, <3>1
    <3>3. QED
      BY <3>2
  <2>3. QED
    BY <2>1, <2>2
<1>7. ASSUME k = n, NEW i \in 1 .. n PROVE r[i] = i
  <2>1. i <= r[i] /\ n - i <= n - r[i] /\ r[i] \in Int
    BY <1>1, <1>5, <1>7
  <2>2. QED
    BY <2>1
<1>8. QED
  BY <1>5, <1>6, <1>7

LEMMA OnlyLists ==
  ASSUME NEW n \in Nat, NEW T, T \subseteq 1 .. n
  PROVE  Lists(Only([p \in 1 .. n |-> p], T), T, n)
<1> DEFINE s == [p \in 1 .. n |-> p]
           r == Only(s, T)
<1>1. s \in Seq(1 .. n) /\ Len(s) = n /\ \A p \in 1 .. n : s[p] = p
  OBVIOUS
<1> HIDE DEF s
<1>2. r \in Seq(1 .. n) /\ \E e : KeptAt(e, r, s, Len(s), T)
  BY <1>1, OnlyPlaces
<1> HIDE DEF r
<1>3. PICK e : KeptAt(e, r, s, n, T)
  BY <1>1, <1>2
<1>4. Len(r) \in Nat /\ r \in [1 .. Len(r) -> 1 .. n]
  BY <1>2, LenProperties
<1>5. \A i \in 1 .. Len(r) : r[i] = e[i] /\ r[i] \in T
  BY <1>1, <1>3 DEF KeptAt
<1>6. \A i, j \in 1 .. Len(r) : i < j => r[i] < r[j]
  BY <1>3, <1>5 DEF KeptAt
<1>7. ASSUME NEW p \in T PROVE \E i \in 1 .. Len(r) : r[i] = p
  <2>1. p \in 1 .. n /\ s[p] \in T
    BY <1>1
  <2>2. PICK i \in 1 .. Len(r) : e[i] = p
    BY <1>3, <2>1 DEF KeptAt
  <2>3. QED
    BY <1>5, <2>2
<1>8. Len(r) <= n /\ (Len(r) = n => \A i \in 1 .. n : r[i] = i)
  BY <1>4, <1>6, NoRoom
<1>9. QED
  BY <1>2, <1>5, <1>6, <1>7, <1>8 DEF Lists, r, s

(* The places up to one of the list are the first ones listed.             *)
StartsMatch(r, T, n) ==
  /\ \A q \in 0 .. n : \E i \in 0 .. Len(r) : {p \in T : p <= q} = {r[j] : j \in 1 .. i}
  /\ \A i \in 0 .. Len(r) : \E q \in 0 .. n : {p \in T : p <= q} = {r[j] : j \in 1 .. i}

LEMMA FirstPlaces ==
  ASSUME NEW n \in Nat, NEW T, T \subseteq 1 .. n, NEW r, Lists(r, T, n)
  PROVE  StartsMatch(r, T, n)
<1>1. /\ Len(r) \in Nat /\ \A i \in 1 .. Len(r) : r[i] \in 1 .. n /\ r[i] \in T
      /\ \A i, j \in 1 .. Len(r) : i < j => r[i] < r[j]
      /\ \A p \in T : \E i \in 1 .. Len(r) : r[i] = p
  BY LenProperties, ElementOfSeq DEF Lists
<1>2. ASSUME NEW q \in 0 .. n, NEW i \in 0 .. Len(r),
             \A j \in 1 .. Len(r) : r[j] <= q <=> j <= i
      PROVE  {p \in T : p <= q} = {r[j] : j \in 1 .. i}
  <2>1. ASSUME NEW p \in T, p <= q PROVE p \in {r[j] : j \in 1 .. i}
    <3>1. PICK j \in 1 .. Len(r) : r[j] = p
      BY <1>1
    <3>2. j \in 1 .. i
      BY <1>2, <2>1, <3>1
    <3>3. QED
      BY <3>1, <3>2
  <2>2. ASSUME NEW j \in 1 .. i PROVE r[j] \in T /\ r[j] <= q
    <3>1. j \in 1 .. Len(r) /\ j <= i
      BY <1>1
    <3>2. QED
      BY <1>1, <1>2, <3>1
  <2>3. QED
    BY <2>1, <2>2
<1>3. ASSUME NEW q \in 0 .. n
      PROVE  \E i \in 0 .. Len(r) : {p \in T : p <= q} = {r[j] : j \in 1 .. i}
  <2> DEFINE Later == {j \in 1 .. Len(r) : ~ r[j] <= q}
  <2>1. CASE Later = {}
    <3>1. \A j \in 1 .. Len(r) : r[j] <= q <=> j <= Len(r)
      BY <1>1, <2>1
    <3>2. Len(r) \in 0 .. Len(r)
      BY <1>1
    <3>3. QED
      BY <1>2, <3>1, <3>2
  <2>2. CASE Later # {}
    <3>1. PICK l \in Later : \A m \in Later : l <= m
      <4>1. Later \subseteq Nat
        BY <1>1
      <4>2. QED
        BY <2>2, <4>1, LeastNumber
    <3>2. l \in 1 .. Len(r) /\ l - 1 \in 0 .. Len(r) /\ ~ r[l] <= q
      BY <1>1, <3>1
    <3>3. ASSUME NEW j \in 1 .. Len(r) PROVE r[j] <= q <=> j <= l - 1
      <4>1. CASE j < l
        BY <1>1, <3>1, <3>2, <4>1
      <4>2. CASE j >= l
        <5>1. j = l \/ r[l] < r[j]
          BY <1>1, <3>2, <4>2
        <5>2. r[l] \in Int /\ r[j] \in Int
          BY <1>1, <3>2
        <5>3. QED
          BY <3>2, <4>2, <5>1, <5>2
      <4>3. QED
        BY <3>2, <4>1, <4>2
    <3>4. QED
      BY <1>2, <3>2, <3>3
  <2>3. QED
    BY <2>1, <2>2
<1>4. ASSUME NEW i \in 0 .. Len(r)
      PROVE  \E q \in 0 .. n : {p \in T : p <= q} = {r[j] : j \in 1 .. i}
  <2>1. CASE i = 0
    <3>1. 0 \in 0 .. n /\ \A j \in 1 .. Len(r) : r[j] <= 0 <=> j <= 0
      BY <1>1
    <3>2. QED
      BY <1>2, <2>1, <3>1
  <2>2. CASE i # 0
    <3>1. i \in 1 .. Len(r) /\ r[i] \in 0 .. n
      BY <1>1, <2>2
    <3>2. ASSUME NEW j \in 1 .. Len(r) PROVE r[j] <= r[i] <=> j <= i
      <4>1. r[j] \in Int /\ r[i] \in Int
        BY <1>1, <3>1
      <4>2. (j < i => r[j] < r[i]) /\ (i < j => r[i] < r[j])
        BY <1>1, <3>1
      <4>3. QED
        BY <1>1, <3>1, <4>1, <4>2
    <3>3. QED
      BY <1>2, <3>1, <3>2
  <2>3. QED
    BY <2>1, <2>2
<1>5. \A q \in 0 .. n : \E i \in 0 .. Len(r) : {p \in T : p <= q} = {r[j] : j \in 1 .. i}
  BY <1>3
<1>6. \A i \in 0 .. Len(r) : \E q \in 0 .. n : {p \in T : p <= q} = {r[j] : j \in 1 .. i}
  BY <1>4
<1>7. QED
  BY <1>5, <1>6 DEF StartsMatch

-----------------------------------------------------------------------------
(* A replay, for any kinds k, list e and mask m                            *)

PenOf(k, e, m) ==
  LET pen[p \in 0 .. Len(e)] ==
        IF p = 0 \/ k[e[p]] = "up" THEN FALSE
        ELSE IF m[p] THEN k[e[p]] = "down" ELSE pen[p - 1]
  IN  pen
PlacesOf(k, e, m) ==
  LET pen == PenOf(k, e, m)
  IN  {p \in 1 .. Len(e) : IF k[e[p]] = "up" THEN pen[p - 1] ELSE m[p]}

\* The events that the guest is given up to place q; whether it fails on them,
\* and on those of any place.
FedOf(k, e, m, q) == {e[p] : p \in {x \in PlacesOf(k, e, m) : x <= q}}
FailsOn(g, seen) == \E p \in g : p.has \subseteq seen /\ p.not \cap seen = {}
ErrsOf(g, k, e, m) == \E q \in 0 .. Len(e) : FailsOn(g, FedOf(k, e, m, q))

\* What PenOf is.
Follows(pen, k, e, m) ==
  /\ pen[0] = FALSE
  /\ \A p \in 1 .. Len(e) :
       /\ k[e[p]] = "up" => pen[p] = FALSE
       /\ k[e[p]] # "up" /\ m[p] => pen[p] = (k[e[p]] = "down")
       /\ k[e[p]] # "up" /\ ~m[p] => pen[p] = pen[p - 1]

LEMMA PenIs ==
  ASSUME NEW k, NEW e, Len(e) \in Nat, NEW m \in [1 .. Len(e) -> BOOLEAN]
  PROVE  PenOf(k, e, m) \in [0 .. Len(e) -> BOOLEAN] /\ Follows(PenOf(k, e, m), k, e, m)
<1> DEFINE n == Len(e)
           Val(p, before) == IF k[e[p]] = "up" THEN FALSE
                             ELSE IF m[p] THEN k[e[p]] = "down" ELSE before
           step == [x \in (1 .. n) \X BOOLEAN |-> Val(x[1], x[2])]
           Is(f) == f = [p \in 0 .. n |-> IF p = 0 \/ k[e[p]] = "up" THEN FALSE
                                          ELSE IF m[p] THEN k[e[p]] = "down" ELSE f[p - 1]]
<1>1. \A p \in 1 .. n, b \in BOOLEAN : Val(p, b) \in BOOLEAN
  OBVIOUS
<1>2. /\ step \in [(1 .. n) \X BOOLEAN -> BOOLEAN]
      /\ \A p \in 1 .. n, b \in BOOLEAN : step[<<p, b>>] = Val(p, b)
  <2> HIDE DEF Val
  <2>1. QED
    BY <1>1
<1> HIDE DEF step
<1>3. PICK f \in [0 .. n -> BOOLEAN] : Recursive(f, n, FALSE, step)
  BY <1>2, RecursionExists, Zenon
<1>4. \A p \in 1 .. n : p - 1 \in 0 .. n /\ p \in 0 .. n /\ p # 0
  OBVIOUS
<1>5. \A p \in 1 .. n : f[p] = Val(p, f[p - 1])
  <2> HIDE DEF Val
  <2>1. QED
    BY <1>2, <1>3, <1>4, Zenon DEF Recursive
<1>6. Is(f)
  <2>1. ASSUME NEW p \in 0 .. n
        PROVE  f[p] = IF p = 0 \/ k[e[p]] = "up" THEN FALSE
                      ELSE IF m[p] THEN k[e[p]] = "down" ELSE f[p - 1]
    <3>1. CASE p = 0
      BY <1>3, <3>1, Zenon DEF Recursive
    <3>2. CASE p # 0
      <4>1. p \in 1 .. n
        BY <3>2
      <4>2. QED
        BY <1>5, <3>2, <4>1, Zenon
    <3>3. QED
      BY <3>1, <3>2
  <2>2. QED
    BY <2>1, Zenon
<1> DEFINE g == CHOOSE g : Is(g)
<1>7. Is(g)
  BY <1>6, Zenon
<1>8. PenOf(k, e, m) = g
  BY Zenon DEF PenOf
<1> HIDE DEF g
<1>9. /\ g[0] = FALSE /\ \A p \in 1 .. n : g[p] = Val(p, g[p - 1])
  <2>1. \A p \in 0 .. n : g[p] = IF p = 0 \/ k[e[p]] = "up" THEN FALSE
                                 ELSE IF m[p] THEN k[e[p]] = "down" ELSE g[p - 1]
    BY <1>7, Zenon
  <2>2. 0 \in 0 .. n
    OBVIOUS
  <2>3. QED
    BY <1>4, <2>1, <2>2, Zenon
<1>10. Follows(g, k, e, m)
  BY <1>9, Zenon DEF Follows
<1>11. \A i \in 0 .. n : g[i] = f[i]
  <2>1. InStep(g, f, n)
    <3>1. g[0] = f[0]
      BY <1>3, <1>9, Zenon DEF Recursive
    <3>2. QED
      BY <1>5, <1>9, <3>1, Zenon DEF InStep
  <2>2. QED
    BY <2>1, RecursionUnique
<1>12. g \in [0 .. n -> BOOLEAN]
  <2>1. g = [i \in 0 .. n |-> g[i]]
    BY <1>7, Zenon
  <2>2. \A i \in 0 .. n : g[i] \in BOOLEAN
    BY <1>11
  <2>3. QED
    BY <2>1, <2>2, Zenon
<1>13. QED
  BY <1>8, <1>10, <1>12

LEMMA PlacesIs ==
  ASSUME NEW k, NEW e, Len(e) \in Nat, NEW m \in [1 .. Len(e) -> BOOLEAN]
  PROVE  /\ PlacesOf(k, e, m) \subseteq 1 .. Len(e)
         /\ \A p \in 1 .. Len(e) :
              p \in PlacesOf(k, e, m) <=> IF k[e[p]] = "up" THEN PenOf(k, e, m)[p - 1] ELSE m[p]
BY Zenon DEF PlacesOf

(* One place more.                                                         *)
LEMMA FedMore ==
  ASSUME NEW k, NEW e, Len(e) \in Nat, NEW m \in [1 .. Len(e) -> BOOLEAN]
  PROVE  /\ FedOf(k, e, m, 0) = {}
         /\ \A q \in 1 .. Len(e) :
              FedOf(k, e, m, q) = FedOf(k, e, m, q - 1)
                                    \cup (IF q \in PlacesOf(k, e, m) THEN {e[q]} ELSE {})
<1> DEFINE K == PlacesOf(k, e, m)
<1>1. K \subseteq 1 .. Len(e)
  BY PlacesIs
<1>2. FedOf(k, e, m, 0) = {e[p] : p \in {x \in K : x <= 0}}
      /\ \A q \in 1 .. Len(e) : /\ FedOf(k, e, m, q) = {e[p] : p \in {x \in K : x <= q}}
                                /\ FedOf(k, e, m, q - 1) = {e[p] : p \in {x \in K : x <= q - 1}}
  BY DEF FedOf
<1> HIDE DEF K
<1>3. {x \in K : x <= 0} = {}
  <2>1. \A x \in K : ~ x <= 0
    BY <1>1
  <2>2. QED
    BY <2>1
<1>4. ASSUME NEW q \in 1 .. Len(e)
      PROVE  {x \in K : x <= q} = {x \in K : x <= q - 1} \cup (IF q \in K THEN {q} ELSE {})
  <2>1. \A x \in K : x <= q <=> (x <= q - 1 \/ x = q)
    BY <1>1
  <2>2. QED
    BY <2>1
<1>5. QED
  <2>1. FedOf(k, e, m, 0) = {}
    BY <1>2, <1>3
  <2>2. ASSUME NEW q \in 1 .. Len(e)
        PROVE FedOf(k, e, m, q) = FedOf(k, e, m, q - 1) \cup (IF q \in K THEN {e[q]} ELSE {})
    BY <1>2, <1>4
  <2>3. QED
    BY <2>1, <2>2 DEF K

(* Only the events that are not pen ups, up to a place, and their mask tell *)
(* what is given up to there.                                              *)
Agree(k, e, m, o, q) == \A p \in 1 .. q : k[e[p]] # "up" => m[p] = o[p]

LEMMA SameMasks ==
  ASSUME NEW k, NEW e, Len(e) \in Nat, NEW m \in [1 .. Len(e) -> BOOLEAN],
         NEW o \in [1 .. Len(e) -> BOOLEAN], NEW q \in 0 .. Len(e), Agree(k, e, m, o, q)
  PROVE  \A x \in 0 .. q : FedOf(k, e, m, x) = FedOf(k, e, o, x)
<1> DEFINE a == PenOf(k, e, m)
           b == PenOf(k, e, o)
<1>1. Follows(a, k, e, m) /\ Follows(b, k, e, o)
  BY PenIs
<1>2. \A p \in 1 .. q : p \in 1 .. Len(e) /\ p - 1 \in 0 .. q
  OBVIOUS
<1>3. PlacesOf(k, e, m) \subseteq 1 .. Len(e) /\ PlacesOf(k, e, o) \subseteq 1 .. Len(e)
  BY PlacesIs
<1>4. \A p \in 1 .. q : /\ p \in PlacesOf(k, e, m) <=> IF k[e[p]] = "up" THEN a[p - 1] ELSE m[p]
                        /\ p \in PlacesOf(k, e, o) <=> IF k[e[p]] = "up" THEN b[p - 1] ELSE o[p]
  BY <1>2, PlacesIs
<1> HIDE DEF a, b
<1>5. \A x \in 0 .. q : a[x] = b[x]
  <2>1. a[0] = b[0]
    BY <1>1, Zenon DEF Follows
  <2>2. ASSUME NEW p \in 1 .. q, a[p - 1] = b[p - 1] PROVE a[p] = b[p]
    <3>1. p \in 1 .. Len(e)
      BY <1>2
    <3>2. m[p] \in BOOLEAN /\ o[p] \in BOOLEAN
      BY <3>1
    <3>3. CASE k[e[p]] = "up"
      BY <1>1, <3>1, <3>3, Zenon DEF Follows
    <3>4. CASE k[e[p]] # "up"
      <4>1. m[p] = o[p]
        BY <3>4 DEF Agree
      <4>2. QED
        BY <1>1, <2>2, <3>1, <3>4, <4>1, Zenon DEF Follows
    <3>5. QED
      BY <3>3, <3>4
  <2>3. InStep(a, b, q)
    BY <2>1, <2>2, Zenon DEF InStep
  <2>4. QED
    BY <2>3, RecursionUnique
<1>6. ASSUME NEW p \in 1 .. q PROVE p \in PlacesOf(k, e, m) <=> p \in PlacesOf(k, e, o)
  <2>1. a[p - 1] = b[p - 1]
    BY <1>2, <1>5
  <2>2. k[e[p]] # "up" => m[p] = o[p]
    BY DEF Agree
  <2>3. QED
    BY <1>4, <2>1, <2>2, Zenon
<1>7. ASSUME NEW x \in 0 .. q PROVE FedOf(k, e, m, x) = FedOf(k, e, o, x)
  <2>1. {y \in PlacesOf(k, e, m) : y <= x} = {y \in PlacesOf(k, e, o) : y <= x}
    <3>1. ASSUME NEW y \in 1 .. Len(e), y <= x PROVE y \in 1 .. q
      BY <3>1
    <3>2. QED
      BY <1>3, <1>6, <3>1
  <2>2. QED
    BY <2>1 DEF FedOf
<1>8. QED
  BY <1>7

LEMMA SameErrs ==
  ASSUME NEW g, NEW k, NEW e, Len(e) \in Nat, NEW m \in [1 .. Len(e) -> BOOLEAN],
         NEW o \in [1 .. Len(e) -> BOOLEAN], Agree(k, e, m, o, Len(e))
  PROVE  ErrsOf(g, k, e, m) <=> ErrsOf(g, k, e, o)
<1>1. Len(e) \in 0 .. Len(e)
  OBVIOUS
<1>2. \A x \in 0 .. Len(e) : FedOf(k, e, m, x) = FedOf(k, e, o, x)
  BY <1>1, SameMasks
<1>3. QED
  BY <1>2 DEF ErrsOf

(* From place i to place j nothing is let through by the mask: no more is  *)
(* given, pen ups apart; nor those, if the pen is up where there are any.  *)
LEMMA NothingPasses ==
  ASSUME NEW k, NEW e, Len(e) \in Nat, NEW m \in [1 .. Len(e) -> BOOLEAN],
         NEW i \in 0 .. Len(e), NEW j \in i .. Len(e),
         \A p \in i + 1 .. j : k[e[p]] # "up" => ~m[p]
  PROVE  \A x : k[x] # "up" => (x \in FedOf(k, e, m, j) <=> x \in FedOf(k, e, m, i))
<1> DEFINE K == PlacesOf(k, e, m)
<1>1. K \subseteq 1 .. Len(e)
  BY PlacesIs
<1>2. \A p \in K : k[e[p]] # "up" => m[p]
  BY <1>1, PlacesIs, Zenon
<1> HIDE DEF K
<1>3. ASSUME NEW p \in K, k[e[p]] # "up" PROVE p <= j <=> p <= i
  BY <1>1, <1>2, <1>3
<1>4. ASSUME NEW x, k[x] # "up" PROVE x \in FedOf(k, e, m, j) <=> x \in FedOf(k, e, m, i)
  <2>1. \A q : x \in FedOf(k, e, m, q) <=> \E p \in K : p <= q /\ e[p] = x
    BY DEF FedOf, K
  <2>2. QED
    BY <1>3, <1>4, <2>1
<1>5. QED
  BY <1>4

Blocked(k, e, m, i, j) ==
  \A p \in i + 1 .. j : IF k[e[p]] = "up" THEN ~PenOf(k, e, m)[i] ELSE ~m[p]

Passes(k, e, m, i, p) == IF k[e[p]] = "up" THEN PenOf(k, e, m)[i] ELSE m[p]

LEMMA PenStays ==
  ASSUME NEW k, NEW e, Len(e) \in Nat, NEW m \in [1 .. Len(e) -> BOOLEAN],
         NEW i \in 0 .. Len(e), NEW j \in i .. Len(e),
         Blocked(k, e, m, i, j)
  PROVE  PenOf(k, e, m)[j] = PenOf(k, e, m)[i] /\ FedOf(k, e, m, j) = FedOf(k, e, m, i)
<1> DEFINE pen == PenOf(k, e, m)
           P == {d \in Nat : i + d <= j => pen[i + d] = pen[i]}
<1>1. pen \in [0 .. Len(e) -> BOOLEAN] /\ Follows(pen, k, e, m)
  BY PenIs
<1>2. PlacesOf(k, e, m) \subseteq 1 .. Len(e)
  BY PlacesIs
<1>3. \A p \in 1 .. Len(e) :
        p \in PlacesOf(k, e, m) <=> IF k[e[p]] = "up" THEN pen[p - 1] ELSE m[p]
  BY PlacesIs
<1> HIDE DEF pen
<1>4. 0 \in P
  OBVIOUS
<1>5. ASSUME NEW d \in Nat, d \in P PROVE d + 1 \in P
  <2>1. SUFFICES ASSUME i + (d + 1) <= j PROVE pen[i + (d + 1)] = pen[i]
    OBVIOUS
  <2> DEFINE p == i + (d + 1)
  <2>2. p \in i + 1 .. j /\ p \in 1 .. Len(e) /\ p - 1 = i + d
    BY <2>1
  <2>3. pen[p - 1] = pen[i]
    BY <1>5, <2>1, <2>2
  <2> HIDE DEF p
  <2>4. CASE k[e[p]] = "up"
    <3>1. ~pen[i]
      BY <2>2, <2>4 DEF pen, Blocked
    <3>2. pen[p] = FALSE /\ pen[i] \in BOOLEAN
      BY <1>1, <2>2, <2>4 DEF Follows
    <3>3. QED
      BY <3>1, <3>2 DEF p
  <2>5. CASE k[e[p]] # "up"
    <3>1. ~m[p]
      BY <2>2, <2>5 DEF Blocked
    <3>2. pen[p] = pen[p - 1]
      BY <1>1, <2>2, <2>5, <3>1 DEF Follows
    <3>3. QED
      BY <2>3, <3>2 DEF p
  <2>6. QED
    BY <2>4, <2>5
<1> HIDE DEF P
<1>6. Nat \subseteq P
  BY <1>4, <1>5, Induction
<1>7. ASSUME NEW x \in i .. j PROVE pen[x] = pen[i]
  <2>1. x - i \in Nat /\ i + (x - i) = x /\ i + (x - i) <= j
    OBVIOUS
  <2>2. x - i \in P
    BY <1>6, <2>1
  <2>3. QED
    BY <2>1, <2>2 DEF P
<1>8. ASSUME NEW p \in i + 1 .. j PROVE p \notin PlacesOf(k, e, m)
  <2>1. p \in 1 .. Len(e) /\ p - 1 \in i .. j
    OBVIOUS
  <2>2. pen[p - 1] = pen[i]
    BY <1>7, <2>1
  <2>3. IF k[e[p]] = "up" THEN ~pen[i] ELSE ~m[p]
    BY DEF pen, Blocked
  <2>4. QED
    BY <1>3, <2>1, <2>2, <2>3
<1>9. {x \in PlacesOf(k, e, m) : x <= j} = {x \in PlacesOf(k, e, m) : x <= i}
  <2>1. ASSUME NEW x \in PlacesOf(k, e, m) PROVE x <= j <=> x <= i
    BY <1>2, <1>8
  <2>2. QED
    BY <2>1
<1>10. j \in i .. j
  OBVIOUS
<1>11. FedOf(k, e, m, j) = FedOf(k, e, m, i)
  BY <1>9 DEF FedOf
<1>12. QED
  BY <1>7, <1>10, <1>11 DEF pen

(* The next event that passes.                                             *)
LEMMA OnePasses ==
  ASSUME NEW k, NEW e, Len(e) \in Nat, NEW m \in [1 .. Len(e) -> BOOLEAN],
         NEW i \in 0 .. Len(e), NEW p \in i + 1 .. Len(e),
         Blocked(k, e, m, i, p - 1), Passes(k, e, m, i, p)
  PROVE  /\ PenOf(k, e, m)[p] = (k[e[p]] = "down")
         /\ FedOf(k, e, m, p) = FedOf(k, e, m, i) \cup {e[p]}
<1>1. p \in 1 .. Len(e) /\ p - 1 \in i .. Len(e)
  OBVIOUS
<1>2. PenOf(k, e, m)[p - 1] = PenOf(k, e, m)[i] /\ FedOf(k, e, m, p - 1) = FedOf(k, e, m, i)
  BY <1>1, PenStays
<1>3. p \in PlacesOf(k, e, m)
  BY <1>1, <1>2, PlacesIs DEF Passes
<1>4. FedOf(k, e, m, p) = FedOf(k, e, m, i) \cup {e[p]}
  BY <1>1, <1>2, <1>3, FedMore
<1>5. Follows(PenOf(k, e, m), k, e, m)
  BY PenIs
<1>6. PenOf(k, e, m)[p] = (k[e[p]] = "down")
  <2>1. CASE k[e[p]] = "up"
    <3>1. PenOf(k, e, m)[p] = FALSE
      BY <1>1, <1>5, <2>1, Zenon DEF Follows
    <3>2. k[e[p]] # "down"
      BY <2>1
    <3>3. QED
      BY <3>1, <3>2
  <2>2. CASE k[e[p]] # "up"
    BY <1>1, <1>5, <2>2, Zenon DEF Follows, Passes
  <2>3. QED
    BY <2>1, <2>2
<1>7. QED
  BY <1>4, <1>6

(* What is given, place by place.                                          *)
Gets(k, e, m, p) == IF p \in PlacesOf(k, e, m) THEN {e[p]} ELSE {}

LEMMA FedAgain ==
  ASSUME NEW k, NEW e, Len(e) \in Nat, NEW m \in [1 .. Len(e) -> BOOLEAN], NEW p \in 1 .. Len(e)
  PROVE  FedOf(k, e, m, p) = FedOf(k, e, m, p - 1) \cup Gets(k, e, m, p)
BY FedMore DEF Gets

(* A guest fails on what it has a say about.                               *)
LEMMA SameFailure ==
  ASSUME NEW g, NEW seen, NEW known,
         \A x \in UNION {p.has \cup p.not : p \in g} : x \in seen <=> x \in known
  PROVE  FailsOn(g, seen) <=> FailsOn(g, known)
<1>1. ASSUME NEW p \in g
      PROVE  p.has \cup p.not \subseteq UNION {q.has \cup q.not : q \in g}
  OBVIOUS
<1>2. ASSUME NEW p \in g
      PROVE  /\ p.has \subseteq seen <=> p.has \subseteq known
             /\ p.not \cap seen = {} <=> p.not \cap known = {}
  <2>1. \A x \in p.has \cup p.not : x \in seen <=> x \in known
    BY <1>1
  <2>2. QED
    BY <2>1
<1>3. QED
  BY <1>2 DEF FailsOn

-----------------------------------------------------------------------------
(* Culling: r lists what is left of the list e                             *)

Shortened(e, r) == [i \in 1 .. Len(r) |-> e[r[i]]]
AllOf(e) == [i \in 1 .. Len(e) |-> TRUE]

\* i is the number of places left up to place p.
LeftBy(r, p, i) == \A j \in 1 .. Len(r) : r[j] <= p <=> j <= i

PensMatch(k, e, m, r) ==
  \A p \in 0 .. Len(e) : \A i \in 0 .. Len(r) : LeftBy(r, p, i) =>
    PenOf(k, e, m)[p] = PenOf(k, Shortened(e, r), AllOf(Shortened(e, r)))[i]

LEMMA PenIsKept ==
  ASSUME NEW k, NEW e, Len(e) \in Nat, NEW m \in [1 .. Len(e) -> BOOLEAN],
         NEW r, Lists(r, PlacesOf(k, e, m), Len(e))
  PROVE  PensMatch(k, e, m, r)
<1> DEFINE K == PlacesOf(k, e, m)
           s == Shortened(e, r)
           pen == PenOf(k, e, m)
           new == PenOf(k, s, AllOf(s))
           P == {p \in Nat : p <= Len(e) =>
                   \A i \in 0 .. Len(r) : LeftBy(r, p, i) => pen[p] = new[i]}
<1>1. /\ Len(r) \in Nat /\ \A i \in 1 .. Len(r) : r[i] \in 1 .. Len(e) /\ r[i] \in K
      /\ \A i, j \in 1 .. Len(r) : i < j => r[i] < r[j]
      /\ \A p \in K : \E i \in 1 .. Len(r) : r[i] = p
  BY LenProperties, ElementOfSeq DEF Lists
<1>2. Len(s) = Len(r) /\ \A i \in 1 .. Len(r) : s[i] = e[r[i]]
  BY <1>1 DEF Shortened
<1>3. AllOf(s) \in [1 .. Len(s) -> BOOLEAN] /\ \A i \in 1 .. Len(s) : AllOf(s)[i] = TRUE
  BY DEF AllOf
<1> HIDE DEF s
<1>4. pen \in [0 .. Len(e) -> BOOLEAN] /\ Follows(pen, k, e, m)
  BY PenIs
<1>5. new \in [0 .. Len(r) -> BOOLEAN] /\ Follows(new, k, s, AllOf(s))
  BY <1>1, <1>2, <1>3, PenIs
<1>6. \A p \in 1 .. Len(e) : p \in K <=> IF k[e[p]] = "up" THEN pen[p - 1] ELSE m[p]
  BY PlacesIs
<1> HIDE DEF K, pen, new
<1>7. 0 \in P
  <2>1. ASSUME NEW i \in 0 .. Len(r), LeftBy(r, 0, i) PROVE i = 0
    <3>1. SUFFICES ASSUME i >= 1 PROVE FALSE
      OBVIOUS
    <3>2. 1 \in 1 .. Len(r) /\ r[1] <= 0 /\ r[1] \in 1 .. Len(e)
      BY <1>1, <2>1, <3>1 DEF LeftBy
    <3>3. QED
      BY <3>2
  <2>2. pen[0] = new[0]
    BY <1>4, <1>5, Zenon DEF Follows
  <2>3. QED
    BY <2>1, <2>2
<1>8. ASSUME NEW d \in Nat, d \in P PROVE d + 1 \in P
  <2>1. SUFFICES ASSUME d + 1 <= Len(e), NEW i \in 0 .. Len(r), LeftBy(r, d + 1, i)
                 PROVE  pen[d + 1] = new[i]
    OBVIOUS
  <2> DEFINE p == d + 1
  <2>2. p \in 1 .. Len(e) /\ p - 1 = d /\ d <= Len(e)
    BY <2>1
  <2>3. LeftBy(r, p, i)
    BY <2>1
  <2>4. \A j \in 0 .. Len(r) : LeftBy(r, d, j) => pen[d] = new[j]
    BY <1>8, <2>2
  <2> HIDE DEF p
  <2>5. CASE p \in K
    <3>1. PICK j \in 1 .. Len(r) : r[j] = p
      BY <1>1, <2>5
    <3>2. j <= i
      BY <2>2, <2>3, <3>1 DEF LeftBy
    <3>3. i \in 1 .. Len(r)
      BY <1>1, <3>2
    <3>4. r[i] <= p /\ (j < i => r[j] < r[i]) /\ r[i] \in Int
      BY <1>1, <2>3, <3>3 DEF LeftBy
    <3>5. r[i] = p
      BY <2>2, <3>1, <3>2, <3>3, <3>4
    <3>6. s[i] = e[p] /\ AllOf(s)[i] = TRUE
      BY <1>2, <1>3, <3>3, <3>5
    <3>7. CASE k[e[p]] = "up"
      <4>1. pen[p] = FALSE
        BY <1>4, <2>2, <3>7, Zenon DEF Follows
      <4>2. new[i] = FALSE
        BY <1>2, <1>5, <3>3, <3>6, <3>7, Zenon DEF Follows
      <4>3. QED
        BY <4>1, <4>2 DEF p
    <3>8. CASE k[e[p]] # "up"
      <4>1. m[p]
        BY <1>6, <2>2, <2>5, <3>8
      <4>2. pen[p] = (k[e[p]] = "down")
        BY <1>4, <2>2, <3>8, <4>1, Zenon DEF Follows
      <4>3. i \in 1 .. Len(s) /\ k[s[i]] # "up" /\ AllOf(s)[i]
        BY <1>2, <3>3, <3>6, <3>8
      <4>4. new[i] = (k[s[i]] = "down")
        BY <1>5, <4>3, Zenon DEF Follows
      <4>5. QED
        BY <3>6, <4>2, <4>4 DEF p
    <3>9. QED
      BY <3>7, <3>8
  <2>6. CASE p \notin K
    <3>1. ASSUME NEW j \in 1 .. Len(r) PROVE r[j] <= p <=> r[j] <= d
      <4>1. r[j] \in Int /\ r[j] # p
        BY <1>1, <2>6
      <4>2. QED
        BY <2>2, <4>1
    <3>2. LeftBy(r, d, i)
      BY <2>3, <3>1 DEF LeftBy
    <3>3. pen[d] = new[i] /\ pen[p - 1] = pen[d]
      BY <2>2, <2>4, <3>2
    <3>4. CASE k[e[p]] = "up"
      <4>1. pen[p] = FALSE
        BY <1>4, <2>2, <3>4, Zenon DEF Follows
      <4>2. ~pen[p - 1]
        BY <1>6, <2>2, <2>6, <3>4
      <4>3. pen[p - 1] \in BOOLEAN
        BY <1>4, <2>2
      <4>4. QED
        BY <3>3, <4>1, <4>2, <4>3 DEF p
    <3>5. CASE k[e[p]] # "up"
      <4>1. ~m[p]
        BY <1>6, <2>2, <2>6, <3>5
      <4>2. pen[p] = pen[p - 1]
        BY <1>4, <2>2, <3>5, <4>1, Zenon DEF Follows
      <4>3. QED
        BY <3>3, <4>2 DEF p
    <3>6. QED
      BY <3>4, <3>5
  <2>7. QED
    BY <2>5, <2>6
<1> HIDE DEF P
<1>9. Nat \subseteq P
  BY <1>7, <1>8, Induction
<1>10. QED
  BY <1>9 DEF P, pen, new, s, PensMatch

(* What is left is left for good: with all of it, the guest is given the   *)
(* same, and so fails as it did.                                           *)
ErrsIn(g, e, r) == \E i \in 0 .. Len(r) : FailsOn(g, {e[r[j]] : j \in 1 .. i})

LEMMA Culled ==
  ASSUME NEW g, NEW k, NEW e, Len(e) \in Nat, NEW m \in [1 .. Len(e) -> BOOLEAN],
         NEW r, Lists(r, PlacesOf(k, e, m), Len(e))
  PROVE  /\ PlacesOf(k, Shortened(e, r), AllOf(Shortened(e, r))) = 1 .. Len(r)
         /\ \A i \in 0 .. Len(r) :
              FedOf(k, Shortened(e, r), AllOf(Shortened(e, r)), i) = {e[r[j]] : j \in 1 .. i}
         /\ ErrsOf(g, k, Shortened(e, r), AllOf(Shortened(e, r))) <=> ErrsOf(g, k, e, m)
         /\ ErrsOf(g, k, e, m) <=> ErrsIn(g, e, r)
<1> DEFINE K == PlacesOf(k, e, m)
           s == Shortened(e, r)
           new == PenOf(k, s, AllOf(s))
           L == PlacesOf(k, s, AllOf(s))
<1>1. /\ Len(r) \in Nat /\ \A i \in 1 .. Len(r) : r[i] \in 1 .. Len(e) /\ r[i] \in K
      /\ \A i, j \in 1 .. Len(r) : i < j => r[i] < r[j]
  BY LenProperties, ElementOfSeq DEF Lists
<1>2. Len(s) = Len(r) /\ \A i \in 1 .. Len(r) : s[i] = e[r[i]]
  BY <1>1 DEF Shortened
<1>3. AllOf(s) \in [1 .. Len(s) -> BOOLEAN] /\ \A i \in 1 .. Len(s) : AllOf(s)[i] = TRUE
  BY DEF AllOf
<1>4. K \subseteq 1 .. Len(e)
      /\ \A p \in 1 .. Len(e) : p \in K <=> IF k[e[p]] = "up" THEN PenOf(k, e, m)[p - 1] ELSE m[p]
  BY PlacesIs
<1>5. \A p \in 0 .. Len(e) : \A i \in 0 .. Len(r) : LeftBy(r, p, i) => PenOf(k, e, m)[p] = new[i]
  <2>1. PensMatch(k, e, m, r)
    BY PenIsKept
  <2>2. QED
    BY <2>1, Zenon DEF PensMatch
<1> HIDE DEF s
<1>6. L \subseteq 1 .. Len(r)
      /\ \A i \in 1 .. Len(r) : i \in L <=> IF k[s[i]] = "up" THEN new[i - 1] ELSE AllOf(s)[i]
  BY <1>1, <1>2, <1>3, PlacesIs
<1> HIDE DEF K, new, L
<1>7. L = 1 .. Len(r)
  <2>1. ASSUME NEW i \in 1 .. Len(r) PROVE i \in L
    <3>1. CASE k[s[i]] = "up"
      <4>1. r[i] \in 1 .. Len(e) /\ r[i] \in K /\ k[e[r[i]]] = "up" /\ r[i] - 1 \in 0 .. Len(e)
        BY <1>1, <1>2, <3>1
      <4>2. PenOf(k, e, m)[r[i] - 1]
        BY <1>4, <4>1
      <4>3. ASSUME NEW j \in 1 .. Len(r) PROVE r[j] <= r[i] - 1 <=> j <= i - 1
        <5>1. r[j] \in Int /\ r[i] \in Int
          BY <1>1
        <5>2. (j < i => r[j] < r[i]) /\ (i < j => r[i] < r[j])
          BY <1>1
        <5>3. j = i => r[j] = r[i]
          OBVIOUS
        <5>4. QED
          BY <1>1, <5>1, <5>2, <5>3
      <4>4. LeftBy(r, r[i] - 1, i - 1) /\ i - 1 \in 0 .. Len(r)
        BY <1>1, <4>3 DEF LeftBy
      <4>5. new[i - 1]
        BY <1>5, <4>1, <4>2, <4>4
      <4>6. QED
        BY <1>6, <3>1, <4>5
    <3>2. CASE k[s[i]] # "up"
      <4>1. AllOf(s)[i]
        BY <1>2, <1>3
      <4>2. QED
        BY <1>6, <3>2, <4>1
    <3>3. QED
      BY <3>1, <3>2
  <2>2. QED
    BY <1>6, <2>1
<1>8. ASSUME NEW i \in 0 .. Len(r)
      PROVE  FedOf(k, s, AllOf(s), i) = {e[r[j]] : j \in 1 .. i}
  <2>1. {x \in L : x <= i} = 1 .. i
    BY <1>1, <1>7
  <2>2. FedOf(k, s, AllOf(s), i) = {s[j] : j \in 1 .. i}
    BY <2>1 DEF FedOf, L
  <2>3. \A j \in 1 .. i : s[j] = e[r[j]]
    BY <1>1, <1>2
  <2>4. QED
    BY <2>2, <2>3
<1>9. ErrsOf(g, k, s, AllOf(s)) <=> \E i \in 0 .. Len(r) : FailsOn(g, {e[r[j]] : j \in 1 .. i})
  BY <1>2, <1>8 DEF ErrsOf
<1>10. ErrsOf(g, k, e, m) <=> \E i \in 0 .. Len(r) : FailsOn(g, {e[r[j]] : j \in 1 .. i})
  <2>1. ASSUME NEW q \in 0 .. Len(e), NEW i \in 0 .. Len(r),
               {p \in K : p <= q} = {r[j] : j \in 1 .. i}
        PROVE  FedOf(k, e, m, q) = {e[r[j]] : j \in 1 .. i}
    <3>1. FedOf(k, e, m, q) = {e[x] : x \in {r[j] : j \in 1 .. i}}
      BY <2>1 DEF FedOf, K
    <3>2. QED
      BY <3>1
  <2>2. StartsMatch(r, K, Len(e))
    BY <1>4, FirstPlaces DEF K
  <2>3. /\ \A q \in 0 .. Len(e) : \E i \in 0 .. Len(r) : {p \in K : p <= q} = {r[j] : j \in 1 .. i}
        /\ \A i \in 0 .. Len(r) : \E q \in 0 .. Len(e) : {p \in K : p <= q} = {r[j] : j \in 1 .. i}
    BY <2>2, Zenon DEF StartsMatch
  <2>4. ASSUME NEW q \in 0 .. Len(e), FailsOn(g, FedOf(k, e, m, q))
        PROVE  \E i \in 0 .. Len(r) : FailsOn(g, {e[r[j]] : j \in 1 .. i})
    <3>1. PICK i \in 0 .. Len(r) : {p \in K : p <= q} = {r[j] : j \in 1 .. i}
      BY <2>3
    <3>2. FedOf(k, e, m, q) = {e[r[j]] : j \in 1 .. i}
      BY <2>1, <3>1
    <3>3. QED
      BY <2>4, <3>2
  <2>5. ASSUME NEW i \in 0 .. Len(r), FailsOn(g, {e[r[j]] : j \in 1 .. i})
        PROVE  \E q \in 0 .. Len(e) : FailsOn(g, FedOf(k, e, m, q))
    <3>1. PICK q \in 0 .. Len(e) : {p \in K : p <= q} = {r[j] : j \in 1 .. i}
      BY <2>3
    <3>2. FedOf(k, e, m, q) = {e[r[j]] : j \in 1 .. i}
      BY <2>1, <3>1
    <3>3. QED
      BY <2>5, <3>2
  <2>6. QED
    BY <2>4, <2>5 DEF ErrsOf
<1>11. QED
  BY <1>7, <1>8, <1>9, <1>10 DEF L, s, ErrsIn

(* If nothing is left out, only pen ups have been.                         *)
LEMMA NothingCulled ==
  ASSUME NEW S, NEW k, NEW e \in Seq(S), NEW m \in [1 .. Len(e) -> BOOLEAN],
         NEW r, Lists(r, PlacesOf(k, e, m), Len(e)), Len(r) = Len(e)
  PROVE  /\ PlacesOf(k, e, m) = 1 .. Len(e)
         /\ Shortened(e, r) = e
         /\ \A p \in 1 .. Len(e) : k[e[p]] # "up" => m[p]
<1>1. Len(e) \in Nat /\ e = [i \in 1 .. Len(e) |-> e[i]]
  BY LenProperties
<1>2. \A i \in 1 .. Len(e) : r[i] = i /\ r[i] \in PlacesOf(k, e, m)
  BY DEF Lists
<1>3. PlacesOf(k, e, m) \subseteq 1 .. Len(e)
  BY <1>1, PlacesIs
<1>4. PlacesOf(k, e, m) = 1 .. Len(e)
  BY <1>2, <1>3
<1>5. Shortened(e, r) = e
  BY <1>1, <1>2 DEF Shortened
<1>6. \A p \in 1 .. Len(e) : k[e[p]] # "up" => m[p]
  BY <1>1, <1>4, PlacesIs
<1>7. QED
  BY <1>4, <1>5, <1>6

(* Where no event is left out, a pen up comes after a pen down.            *)
LEMMA UpAfterDown ==
  ASSUME NEW k, NEW e, Len(e) \in Nat, PlacesOf(k, e, AllOf(e)) = 1 .. Len(e),
         NEW p \in 1 .. Len(e), p + 1 <= Len(e), k[e[p]] = "up"
  PROVE  k[e[p + 1]] # "up"
<1>1. AllOf(e) \in [1 .. Len(e) -> BOOLEAN]
  BY DEF AllOf
<1>2. Follows(PenOf(k, e, AllOf(e)), k, e, AllOf(e))
  BY <1>1, PenIs
<1>3. PenOf(k, e, AllOf(e))[p] = FALSE
  BY <1>2, Zenon DEF Follows
<1>4. p + 1 \in 1 .. Len(e) /\ (p + 1) - 1 = p
  OBVIOUS
<1>5. k[e[p + 1]] = "up" => PenOf(k, e, AllOf(e))[(p + 1) - 1]
  BY <1>1, <1>4, PlacesIs
<1>6. QED
  BY <1>3, <1>4, <1>5

-----------------------------------------------------------------------------
(* The same of the module's own operators                                  *)

Errs(m) == ErrsOf(guest, kind, events, m)
Fed(q) == FedOf(kind, events, mask, q)

ListTypes ==
  /\ kind \in Recordings /\ tracks \in BOOLEAN
  /\ events \in Seq(DOMAIN kind) /\ N <= Len(kind)
  /\ mask \in [1 .. N -> BOOLEAN]

LEMMA ListFacts ==
  ASSUME ListTypes
  PROVE  /\ N \in Nat /\ Len(kind) \in Nat /\ DOMAIN kind = 1 .. Len(kind)
         /\ events = [p \in 1 .. N |-> events[p]]
         /\ \A p \in 1 .. N : events[p] \in DOMAIN kind
         /\ \A p \in 1 .. N : mask[p] \in BOOLEAN
<1>1. kind \in Seq({"key", "down", "up"})
  BY RecordingsAssumption DEF ListTypes
<1>2. Len(kind) \in Nat /\ DOMAIN kind = 1 .. Len(kind)
  BY <1>1, LenProperties
<1>3. events \in Seq(DOMAIN kind) /\ mask \in [1 .. N -> BOOLEAN]
  BY DEF ListTypes
<1>4. /\ Len(events) \in Nat /\ events = [p \in 1 .. Len(events) |-> events[p]]
      /\ \A p \in 1 .. Len(events) : events[p] \in DOMAIN kind
  BY <1>3, LenProperties, ElementOfSeq
<1>5. QED
  BY <1>2, <1>3, <1>4 DEF N

LEMMA ReplayedIs ==
  ASSUME ListTypes, NEW m \in [1 .. N -> BOOLEAN]
  PROVE  /\ Replayed(m) = Shortened(events, Kept(m))
         /\ KeptPlaces(m) = PlacesOf(kind, events, m)
         /\ PenAfter(m) = PenOf(kind, events, m)
         /\ Lists(Kept(m), PlacesOf(kind, events, m), N)
<1>1. PenAfter(m) = PenOf(kind, events, m)
  BY Zenon DEF PenAfter, PenOf, IsUp, IsDown, N
<1>2. KeptPlaces(m) = PlacesOf(kind, events, m)
  BY <1>1, Zenon DEF KeptPlaces, PlacesOf, IsUp, N
<1>3. N \in Nat
  BY ListFacts
<1>4. PlacesOf(kind, events, m) \subseteq 1 .. N
  BY <1>3, PlacesIs DEF N
<1>5. Lists(Kept(m), PlacesOf(kind, events, m), N)
  BY <1>2, <1>3, <1>4, OnlyLists DEF Kept
<1>6. Replayed(m) = Shortened(events, Kept(m))
  BY Zenon DEF Replayed, Shortened
<1>7. QED
  BY <1>1, <1>2, <1>5, <1>6

LEMMA ReproducesIs ==
  ASSUME ListTypes, NEW m \in [1 .. N -> BOOLEAN]
  PROVE  Reproduces(Replayed(m)) <=> Errs(m)
<1> DEFINE r == Kept(m)
           s == Replayed(m)
<1>1. Lists(r, PlacesOf(kind, events, m), N) /\ s = Shortened(events, r)
  BY ReplayedIs
<1>2. N \in Nat /\ \A p \in 1 .. N : events[p] \in DOMAIN kind
  BY ListFacts
<1>3. Len(r) \in Nat /\ \A i \in 1 .. Len(r) : r[i] \in 1 .. N
  BY <1>1, LenProperties, ElementOfSeq DEF Lists
<1> HIDE DEF r, s
<1>4. Len(s) = Len(r) /\ \A i \in 1 .. Len(r) : s[i] = events[r[i]] /\ s[i] \in DOMAIN kind
  BY <1>1, <1>2, <1>3 DEF Shortened
<1>5. ASSUME NEW i \in 0 .. Len(r)
      PROVE  Range(SubSeq(s, 1, i)) = {events[r[j]] : j \in 1 .. i}
  <2>1. \A j \in 1 .. i : s[j] \in DOMAIN kind /\ s[j] = events[r[j]]
    BY <1>3, <1>4
  <2>2. i \in Int /\ 1 \in Int
    OBVIOUS
  <2>3. /\ SubSeq(s, 1, i) \in Seq(DOMAIN kind)
        /\ Len(SubSeq(s, 1, i)) = IF 1 <= i THEN i - 1 + 1 ELSE 0
        /\ \A j \in 1 .. i - 1 + 1 : SubSeq(s, 1, i)[j] = s[1 + j - 1]
    BY <2>1, <2>2, SubSeqProperties
  <2>4. Len(SubSeq(s, 1, i)) = i /\ \A j \in 1 .. i : SubSeq(s, 1, i)[j] = s[j]
    BY <2>3
  <2>5. DOMAIN SubSeq(s, 1, i) = 1 .. i
    BY <2>3, <2>4, LenProperties
  <2> DEFINE f == SubSeq(s, 1, i)
  <2>6. DOMAIN f = 1 .. i /\ \A j \in 1 .. i : f[j] = events[r[j]]
    BY <2>1, <2>4, <2>5
  <2> HIDE DEF f
  <2>7. Range(f) = {events[r[j]] : j \in 1 .. i}
    BY <2>6 DEF Range
  <2>8. QED
    BY <2>7 DEF f
<1>6. Reproduces(s) <=> ErrsIn(guest, events, r)
  <2>1. \A x : Fails(x) <=> FailsOn(guest, x)
    BY DEF Fails, FailsOn
  <2>2. Reproduces(s) <=> \E i \in 0 .. Len(r) : Fails(Range(SubSeq(s, 1, i)))
    BY <1>4 DEF Reproduces
  <2>3. QED
    BY <1>5, <2>1, <2>2 DEF ErrsIn
<1>7. Errs(m) <=> ErrsIn(guest, events, r)
  BY <1>1, <1>2, Culled DEF Errs, N
<1>8. QED
  BY <1>6, <1>7 DEF s

-----------------------------------------------------------------------------
(* The search: its types, and the ranges on the stack                      *)

LevelSet == [begin : 1 .. N + 1, end : 1 .. N + 1, checked : BOOLEAN]
Looking == {"SplitAndStartAgain", "DisableAndStartAgain"}
CallNames ==
  Looking \cup {"none", "NoErrorOccurred", "NextSubRange", "StartAgain", "MinimizationPassComplete"}

SearchTypes ==
  /\ levels \in Seq(LevelSet)
  /\ passNumber \in Nat /\ passNumber + N <= Len(kind) + 1
  /\ call \in CallNames

FlagTypes ==
  /\ index \in 0 .. Len(kind) /\ given \in SUBSET DOMAIN kind
  /\ fgIsOn \in BOOLEAN /\ replaying \in BOOLEAN /\ penIsDown \in BOOLEAN
  /\ loadState \in BOOLEAN /\ endedInError \in BOOLEAN /\ penPolled \in BOOLEAN
  /\ stopped \in BOOLEAN /\ calm \in BOOLEAN
  /\ stage \in {"starting", "running", "failing", "failed", "off", "asleep"}
  /\ wasOn \in [playback : BOOLEAN, minimization : BOOLEAN]

\* A function that looks for a range finds one, also the replay that has been
\* turned off for a moment only.
On == fgIsOn \/ (stage = "asleep" /\ wasOn.minimization)
RangeFound ==
  /\ call \in CallNames \ {"none", "MinimizationPassComplete"} => levels # <<>>
  /\ call = "none" /\ On => levels # <<>>
  /\ call = "MinimizationPassComplete" => levels = <<>>
  /\ stage \in {"off", "asleep"} => call = "none"

\* The ranges of the stack t follow each other to the end of a list of n, and
\* are not empty if the list is not.
Stacked(t, n) ==
  t # <<>> =>
    /\ t[1].end = n + 1
    /\ \A i \in 1 .. Len(t) - 1 : t[i].begin = t[i + 1].end /\ t[i].begin < t[i].end
    /\ n > 0 => \A i \in 1 .. Len(t) : t[i].begin < t[i].end

\* What comes after the range under test has not been left out, nor has the
\* range itself where it is about to be split or left out.
RestKept ==
  /\ levels # <<>> => \A p \in Top.end .. N : mask[p]
  /\ call \in Looking => \A p \in Top.begin .. N : mask[p]

SearchInv == ListTypes /\ SearchTypes /\ FlagTypes /\ RangeFound /\ Stacked(levels, N) /\ RestKept

LEMMA TopFacts ==
  ASSUME ListTypes, SearchTypes, levels # <<>>
  PROVE  /\ Len(levels) \in Nat \ {0} /\ Len(levels) \in 1 .. Len(levels)
         /\ \A i \in 1 .. Len(levels) : /\ levels[i] \in LevelSet
                                        /\ levels[i].begin \in 1 .. N + 1
                                        /\ levels[i].end \in 1 .. N + 1
                                        /\ levels[i].checked \in BOOLEAN
         /\ Top = levels[Len(levels)] /\ Top \in LevelSet
         /\ Top.begin \in 1 .. N + 1 /\ Top.end \in 1 .. N + 1 /\ Top.checked \in BOOLEAN
         /\ N \in Nat
         /\ Stacked(levels, N) /\ N > 0 => Top.begin < Top.end
<1>1. levels \in Seq(LevelSet)
  BY DEF SearchTypes
<1>2. Len(levels) \in Nat \ {0}
  BY <1>1, EmptySeq
<1>3. ASSUME NEW i \in 1 .. Len(levels)
      PROVE  levels[i] \in LevelSet /\ levels[i].begin \in 1 .. N + 1
             /\ levels[i].end \in 1 .. N + 1 /\ levels[i].checked \in BOOLEAN
  <2>1. levels[i] \in LevelSet
    BY <1>1, ElementOfSeq
  <2>2. QED
    BY <2>1 DEF LevelSet
<1>4. Top = levels[Len(levels)]
  BY DEF Top, Last
<1>5. Len(levels) \in 1 .. Len(levels)
  BY <1>2
<1>6. Top.begin \in 1 .. N + 1 /\ Top.end \in 1 .. N + 1 /\ Top.checked \in BOOLEAN /\ Top \in LevelSet
  BY <1>3, <1>4, <1>5
<1>7. Stacked(levels, N) /\ N > 0 => Top.begin < Top.end
  BY <1>4, <1>5 DEF Stacked
<1>8. QED
  BY <1>2, <1>3, <1>4, <1>5, <1>6, <1>7, ListFacts

(* Steps of the replay and of the user.                                    *)
LEMMA SearchStays ==
  ASSUME SearchInv, UNCHANGED <<program, list, levels, passNumber>>,
         call' \in CallNames \ Looking, FlagTypes', RangeFound'
  PROVE  SearchInv'
<1> USE DEF program, list
<1>1. ListTypes' /\ N' = N /\ Top' = Top
  BY DEF SearchInv, ListTypes, N, Top
<1>2. SearchTypes'
  BY <1>1 DEF SearchInv, SearchTypes, LevelSet
<1>3. Stacked(levels, N)'
  BY <1>1 DEF SearchInv
<1>4. RestKept'
  BY <1>1 DEF SearchInv, RestKept
<1>5. QED
  BY <1>1, <1>2, <1>3, <1>4 DEF SearchInv

LEMMA LeastIsMin ==
  ASSUME NEW D, NEW n \in D, \A p \in D : n <= p
  PROVE  Min(D) \in D /\ \A p \in D : Min(D) <= p
BY DEF Min

LEMMA NextPlace ==
  ASSUME ListTypes, index \in 0 .. Len(kind), Deliverable # {}
  PROVE  /\ Min(Deliverable) \in Deliverable
         /\ \A p \in Deliverable : Min(Deliverable) <= p
         /\ Min(Deliverable) \in 1 .. N /\ Min(Deliverable) \in index + 1 .. N
<1>1. Deliverable \subseteq index + 1 .. N /\ N \in Nat /\ index \in Nat
  BY ListFacts DEF Deliverable
<1>2. Deliverable \subseteq Nat
  BY <1>1
<1>3. PICK n \in Deliverable : \A p \in Deliverable : n <= p
  BY <1>2, LeastNumber
<1>4. Min(Deliverable) \in Deliverable /\ \A p \in Deliverable : Min(Deliverable) <= p
  BY <1>3, LeastIsMin
<1> DEFINE d == Min(Deliverable)
<1> HIDE DEF d
<1>5. d \in index + 1 .. N
  BY <1>1, <1>4 DEF d
<1>6. d \in 1 .. N
  BY <1>1, <1>5
<1>7. QED
  BY <1>4, <1>5, <1>6 DEF d

LEMMA GivenTyped ==
  ASSUME SearchInv, NEW p \in 1 .. N, Give(p)
  PROVE  /\ index' \in 0 .. Len(kind) /\ given' \subseteq DOMAIN kind
         /\ stage' \in {"failing", "running", "off"} /\ penPolled' \in BOOLEAN
<1>1. N \in Nat /\ Len(kind) \in Nat /\ N <= Len(kind) /\ events[p] \in DOMAIN kind
  BY ListFacts DEF SearchInv, ListTypes
<1>2. given \subseteq DOMAIN kind
  BY DEF SearchInv, FlagTypes
<1>3. given' \subseteq DOMAIN kind
  BY <1>1, <1>2 DEF Give
<1>4. tracks \in BOOLEAN
  BY DEF SearchInv, ListTypes
<1>5. QED
  BY <1>1, <1>3, <1>4 DEF Give, IsDown

LEMMA ReplaySearches ==
  ASSUME SearchInv, GetEvent \/ GetPen PROVE SearchInv'
<1> USE DEF program, list, search
<1>1. ListTypes /\ index \in 0 .. Len(kind) /\ N \in 0 .. Len(kind) /\ FlagTypes /\ RangeFound
  BY ListFacts DEF SearchInv, FlagTypes, ListTypes
<1>2. UNCHANGED <<program, list, levels, passNumber>> /\ DOMAIN kind' = DOMAIN kind
  BY DEF GetEvent, GetPen
<1>3. stage = "running" /\ call = "none"
  BY DEF GetEvent, GetPen, Ready
<1>4. CASE GetEvent
  <2>1. /\ UNCHANGED <<fgIsOn, loadState, endedInError, stopped, calm, wasOn>>
    BY <1>4 DEF GetEvent
  <2>2. CASE Deliverable # {}
    <3>1. Min(Deliverable) \in 1 .. N
      BY <1>1, <2>2, NextPlace
    <3>2. Give(Min(Deliverable)) /\ penIsDown' = IsDown(Min(Deliverable)) /\ UNCHANGED <<replaying, call>>
      BY <1>4, <2>2 DEF GetEvent
    <3>3. /\ index' \in 0 .. Len(kind) /\ given' \subseteq DOMAIN kind
          /\ stage' \in {"failing", "running", "off"} /\ penPolled' \in BOOLEAN
      BY <3>1, <3>2, GivenTyped
    <3>4. FlagTypes'
      BY <1>1, <1>2, <2>1, <3>2, <3>3 DEF FlagTypes, IsDown
    <3>5. RangeFound'
      BY <1>1, <1>2, <1>3, <2>1, <3>2, <3>3 DEF RangeFound, On
    <3>6. call' \in CallNames \ Looking
      BY <1>3, <3>2 DEF CallNames, Looking
    <3>7. QED
      BY <1>2, <3>4, <3>5, <3>6, SearchStays
  <2>3. CASE Deliverable = {}
    <3>1. /\ replaying' = FALSE /\ index' = N /\ call' = IF fgIsOn THEN "NoErrorOccurred" ELSE "none"
          /\ UNCHANGED <<given, stage, penPolled, penIsDown>>
      BY <1>4, <2>3 DEF GetEvent
    <3>2. FlagTypes'
      BY <1>1, <1>2, <2>1, <3>1 DEF FlagTypes
    <3>3. RangeFound'
      BY <1>1, <1>2, <1>3, <2>1, <3>1 DEF RangeFound, On, CallNames, Looking
    <3>4. call' \in CallNames \ Looking
      BY <3>1 DEF CallNames, Looking
    <3>5. QED
      BY <1>2, <3>2, <3>3, <3>4, SearchStays
  <2>4. QED
    BY <2>2, <2>3
<1>5. CASE GetPen
  <2>1. UNCHANGED <<fgIsOn, loadState, endedInError, stopped, calm, wasOn, replaying, call>>
    BY <1>5 DEF GetPen
  <2>2. FlagTypes' /\ stage' \in {"failing", "running", "off"}
    <3>1. CASE Deliverable # {} /\ kind[events[Min(Deliverable)]] # "key"
      <4>1. Min(Deliverable) \in 1 .. N
        BY <1>1, <3>1, NextPlace
      <4>2. Give(Min(Deliverable)) /\ UNCHANGED penIsDown
        BY <1>5, <3>1 DEF GetPen
      <4>3. /\ index' \in 0 .. Len(kind) /\ given' \subseteq DOMAIN kind
            /\ stage' \in {"failing", "running", "off"} /\ penPolled' \in BOOLEAN
        BY <4>1, <4>2, GivenTyped
      <4>4. QED
        BY <1>1, <1>2, <2>1, <4>2, <4>3 DEF FlagTypes
    <3>2. CASE ~(Deliverable # {} /\ kind[events[Min(Deliverable)]] # "key")
      <4>1. /\ index' = IF Deliverable = {} THEN N ELSE index
            /\ penIsDown' = FALSE /\ penPolled' = FALSE /\ UNCHANGED <<given, stage>>
        BY <1>5, <3>2 DEF GetPen
      <4>2. QED
        BY <1>1, <1>2, <1>3, <2>1, <4>1 DEF FlagTypes
    <3>3. QED
      BY <3>1, <3>2
  <2>3. RangeFound'
    BY <1>1, <1>2, <1>3, <2>1, <2>2 DEF RangeFound, On
  <2>4. call' \in CallNames \ Looking
    BY <1>3, <2>1 DEF CallNames, Looking
  <2>5. QED
    BY <1>2, <2>2, <2>3, <2>4, SearchStays
<1>6. QED
  BY <1>4, <1>5

LEMMA DeviceSearches ==
  ASSUME SearchInv, LoadState \/ Stop \/ FallAsleep \/ WakeUp \/ StartAgain PROVE SearchInv'
<1> USE DEF program, list, search, replay, device
<1>1. /\ FlagTypes /\ RangeFound /\ call \in CallNames /\ Len(kind) \in Nat
  BY ListFacts DEF SearchInv, SearchTypes
<1>2. /\ UNCHANGED <<program, list, levels, passNumber>> /\ DOMAIN kind' = DOMAIN kind
      /\ Len(kind') = Len(kind)
  BY DEF LoadState, Stop, FallAsleep, WakeUp, StartAgain, CallStep
<1>3. call \notin Looking => call' \in CallNames \ Looking
  BY <1>1 DEF LoadState, Stop, FallAsleep, WakeUp, StartAgain, CallStep, CallNames, Looking
<1>4. CASE LoadState
  <2>1. FlagTypes'
    BY <1>1, <1>2, <1>4 DEF LoadState, FlagTypes
  <2>2. RangeFound' /\ call \notin Looking
    BY <1>1, <1>4 DEF LoadState, RangeFound, On, Looking
  <2>3. QED
    BY <1>2, <1>3, <2>1, <2>2, SearchStays
<1>5. CASE Stop
  <2>1. FlagTypes'
    BY <1>1, <1>2, <1>5 DEF Stop, FlagTypes
  <2>2. RangeFound'
    BY <1>1, <1>5 DEF Stop, RangeFound, On
  <2>3. ListTypes' /\ N' = N /\ Top' = Top /\ call' = call
    BY <1>2, <1>5 DEF SearchInv, ListTypes, N, Top, Stop
  <2>4. QED
    BY <1>2, <2>1, <2>2, <2>3 DEF SearchInv, SearchTypes, LevelSet, RestKept
<1>6. CASE FallAsleep
  <2>1. FlagTypes'
    BY <1>1, <1>2, <1>6 DEF FallAsleep, FlagTypes
  <2>2. RangeFound' /\ call \notin Looking
    BY <1>1, <1>6 DEF FallAsleep, RangeFound, On, Looking
  <2>3. QED
    BY <1>2, <1>3, <2>1, <2>2, SearchStays
<1>7. CASE WakeUp
  <2>1. FlagTypes'
    <3>1. index' \in 0 .. Len(kind) /\ replaying' \in BOOLEAN /\ penIsDown' \in BOOLEAN
      <4>1. Rewind \/ UNCHANGED replay
        BY <1>7, Zenon DEF WakeUp
      <4>2. replaying' \in BOOLEAN /\ penIsDown' \in BOOLEAN
        BY <1>1, <4>1, Zenon DEF Rewind, FlagTypes
      <4>3. 0 \in 0 .. Len(kind) /\ index \in 0 .. Len(kind)
        BY <1>1 DEF FlagTypes
      <4>4. index' \in 0 .. Len(kind)
        BY <4>1, <4>3, Zenon DEF Rewind
      <4>5. QED
        BY <4>2, <4>4
    <3>2. fgIsOn' \in BOOLEAN /\ stage' = "running"
      BY <1>7 DEF WakeUp
    <3>3. UNCHANGED <<program, given, penPolled, wasOn, loadState, stopped, calm, endedInError>>
      BY <1>7 DEF WakeUp
    <3>4. QED
      BY <1>1, <1>2, <3>1, <3>2, <3>3 DEF FlagTypes
  <2>2. RangeFound' /\ call \notin Looking
    BY <1>1, <1>7 DEF WakeUp, RangeFound, On, Looking
  <2>3. QED
    BY <1>2, <1>3, <2>1, <2>2, SearchStays
<1>8. CASE StartAgain
  <2>1. FlagTypes'
    <3>1. index' \in 0 .. Len(kind) /\ replaying' = TRUE /\ penIsDown' = FALSE /\ loadState' = TRUE
      BY <1>1, <1>8 DEF StartAgain, Rewind
    <3>2. UNCHANGED <<program, device, stopped, calm, endedInError, fgIsOn>>
      BY <1>8 DEF StartAgain, CallStep
    <3>3. QED
      BY <1>1, <1>2, <3>1, <3>2 DEF FlagTypes
  <2>2. RangeFound' /\ call \notin Looking
    BY <1>1, <1>8 DEF StartAgain, CallStep, RangeFound, On, Looking, CallNames
  <2>3. QED
    BY <1>2, <1>3, <2>1, <2>2, SearchStays
<1>9. QED
  BY <1>4, <1>5, <1>6, <1>7, <1>8

(* A range of the list is left out, or put back.                           *)
LEMMA MaskTyped ==
  ASSUME ListTypes, UNCHANGED <<kind, tracks, events>>, NEW on \in BOOLEAN, NEW b, NEW x,
         EnableEvents(b, x, on)
  PROVE  /\ ListTypes' /\ N' = N
         /\ \A p \in 1 .. N : mask'[p] = IF b <= p /\ p < x THEN on ELSE mask[p]
<1>1. N' = N /\ \A p \in 1 .. N : mask[p] \in BOOLEAN
  BY ListFacts DEF N
<1>2. mask' = [p \in 1 .. N |-> IF b <= p /\ p < x THEN on ELSE mask[p]]
  BY DEF EnableEvents
<1>3. mask' \in [1 .. N -> BOOLEAN]
  BY <1>1, <1>2
<1>4. \A p \in 1 .. N : mask'[p] = IF b <= p /\ p < x THEN on ELSE mask[p]
  BY <1>2
<1>5. QED
  BY <1>1, <1>3, <1>4 DEF ListTypes

LEMMA ErrorSearches ==
  ASSUME SearchInv, FirstError \/ SecondError PROVE SearchInv'
<1> USE DEF program, list, search, replay
<1>1. /\ FlagTypes /\ RangeFound /\ ListTypes /\ call = "none" /\ stage \in {"failing", "failed"}
      /\ ErrorOccurred /\ calm' \in BOOLEAN
  BY DEF SearchInv, FlagTypes, FirstError, SecondError
<1>2. /\ UNCHANGED <<program, events, passNumber, replay>>
      /\ UNCHANGED <<given, penPolled, wasOn, fgIsOn, loadState, stopped>>
      /\ stage' = "failed" /\ DOMAIN kind' = DOMAIN kind /\ Len(kind') = Len(kind) /\ N' = N
  BY <1>1 DEF ErrorOccurred, N
<1>3. FlagTypes'
  BY <1>1, <1>2 DEF FlagTypes, ErrorOccurred
<1>4. CASE ~fgIsOn
  <2>1. UNCHANGED <<list, search, call>>
    BY <1>1, <1>4 DEF ErrorOccurred
  <2>2. RangeFound' /\ call' \in CallNames \ Looking
    BY <1>1, <1>2, <1>4, <2>1 DEF RangeFound, On, CallNames, Looking
  <2>3. QED
    BY <1>2, <1>3, <2>1, <2>2, SearchStays
<1>5. CASE fgIsOn /\ index < N
  <2>1. EnableEvents(FirstUnplayed, N + 1, FALSE) /\ levels' = <<>> /\ call' = "MinimizationPassComplete"
    BY <1>1, <1>5 DEF ErrorOccurred
  <2>2. ListTypes'
    BY <1>1, <1>2, <2>1, MaskTyped
  <2>3. SearchTypes'
    <3>1. <<>> \in Seq(LevelSet')
      BY EmptySeq
    <3>2. QED
      BY <1>2, <2>1, <3>1 DEF SearchInv, SearchTypes, CallNames
  <2>4. RangeFound' /\ Stacked(levels, N)' /\ RestKept'
    BY <1>2, <2>1 DEF RangeFound, Stacked, RestKept, CallNames, Looking
  <2>5. QED
    BY <1>3, <2>2, <2>3, <2>4 DEF SearchInv
<1>6. CASE fgIsOn /\ ~(index < N)
  <2>1. call' = "NextSubRange" /\ UNCHANGED <<mask, levels>>
    BY <1>1, <1>6 DEF ErrorOccurred
  <2>2. RangeFound' /\ call' \in CallNames \ Looking
    BY <1>1, <1>2, <1>6, <2>1 DEF RangeFound, On, CallNames, Looking
  <2>3. QED
    BY <1>2, <1>3, <2>1, <2>2, SearchStays
<1>7. QED
  BY <1>1, <1>4, <1>5, <1>6 DEF FlagTypes

(* The stack, when a range is taken off it, split, or marked.              *)
LEMMA StackTop ==
  ASSUME NEW S, NEW t \in Seq(S), t # <<>>
  PROVE  /\ Len(t) \in Nat \ {0} /\ Last(t) = t[Len(t)] /\ Last(t) \in S
         /\ Front(t) \in Seq(S) /\ Len(Front(t)) = Len(t) - 1
         /\ \A i \in 1 .. Len(t) - 1 : Front(t)[i] = t[i]
<1>1. Len(t) \in Nat \ {0}
  BY EmptySeq
<1>2. \A i \in 1 .. Len(t) : t[i] \in S
  BY ElementOfSeq
<1>3. 1 \in Int /\ Len(t) - 1 \in Int /\ \A i \in 1 .. Len(t) - 1 : t[i] \in S
  BY <1>1, <1>2
<1> DEFINE n == Len(t) - 1
<1>4. /\ SubSeq(t, 1, n) \in Seq(S)
      /\ Len(SubSeq(t, 1, n)) = IF 1 <= n THEN n - 1 + 1 ELSE 0
      /\ \A i \in 1 .. n - 1 + 1 : SubSeq(t, 1, n)[i] = t[1 + i - 1]
  BY <1>3, SubSeqProperties
<1>5. /\ Front(t) \in Seq(S) /\ Len(Front(t)) = Len(t) - 1
      /\ \A i \in 1 .. Len(t) - 1 : Front(t)[i] = t[i]
  <2> DEFINE f == SubSeq(t, 1, n)
  <2>1. Front(t) = f
    BY DEF Front
  <2> HIDE DEF f
  <2>2. f \in Seq(S) /\ Len(f) = n /\ \A i \in 1 .. n : f[i] = t[i]
    <3>1. Len(t) - 1 \in Nat /\ Len(t) - 1 - 1 + 1 = Len(t) - 1 /\ (~ 1 <= Len(t) - 1 => Len(t) - 1 = 0)
      <4>1. \A l \in Nat \ {0} : l - 1 \in Nat /\ l - 1 - 1 + 1 = l - 1 /\ (~ 1 <= l - 1 => l - 1 = 0)
        OBVIOUS
      <4>2. QED
        BY <1>1, <4>1
    <3>2. \A i \in 1 .. n : 1 + i - 1 = i
      BY <3>1
    <3>3. QED
      BY <1>4, <3>1, <3>2 DEF f
  <2>3. QED
    BY <2>1, <2>2
<1>6. Last(t) = t[Len(t)] /\ Last(t) \in S
  BY <1>1, <1>2 DEF Last
<1>7. QED
  BY <1>1, <1>5, <1>6

LEMMA StackPopped ==
  ASSUME NEW S, NEW t \in Seq(S), t # <<>>, NEW n, Stacked(t, n)
  PROVE  /\ Stacked(Front(t), n)
         /\ Front(t) = <<>> <=> Len(t) = 1
         /\ Front(t) = <<>> => Last(t).end = n + 1
         /\ Front(t) # <<>> => /\ Last(Front(t)).begin = Last(t).end
                               /\ Last(Front(t)).begin < Last(Front(t)).end
<1> DEFINE f == Front(t)
<1>1. /\ Len(t) \in Nat \ {0} /\ Last(t) = t[Len(t)] /\ f \in Seq(S) /\ Len(f) = Len(t) - 1
      /\ \A i \in 1 .. Len(t) - 1 : f[i] = t[i]
  BY StackTop
<1> HIDE DEF f
<1>2. f = <<>> <=> Len(f) = 0
  BY <1>1, EmptySeq
<1>3. f # <<>> => Len(f) \in Nat \ {0} /\ Last(f) = t[Len(t) - 1]
  <2>1. SUFFICES ASSUME f # <<>> PROVE Len(f) \in Nat \ {0} /\ Last(f) = t[Len(t) - 1]
    OBVIOUS
  <2>2. Len(f) \in Nat \ {0} /\ Last(f) = f[Len(f)]
    BY <1>1, <2>1, StackTop
  <2>3. Len(f) \in 1 .. Len(t) - 1
    BY <1>1, <2>2
  <2>4. QED
    BY <1>1, <2>2, <2>3
<1>4. /\ t[1].end = n + 1
      /\ \A i \in 1 .. Len(t) - 1 : t[i].begin = t[i + 1].end /\ t[i].begin < t[i].end
      /\ n > 0 => \A i \in 1 .. Len(t) : t[i].begin < t[i].end
  BY DEF Stacked
<1>5. Stacked(f, n)
  <2>1. SUFFICES ASSUME f # <<>>
                 PROVE  /\ f[1].end = n + 1
                        /\ \A i \in 1 .. Len(f) - 1 : f[i].begin = f[i + 1].end /\ f[i].begin < f[i].end
                        /\ n > 0 => \A i \in 1 .. Len(f) : f[i].begin < f[i].end
    BY DEF Stacked
  <2>2. Len(f) \in Nat \ {0} /\ 1 \in 1 .. Len(t) - 1
    BY <1>1, <1>3, <2>1
  <2>3. f[1] = t[1]
    BY <1>1, <2>2
  <2>4. ASSUME NEW i \in 1 .. Len(f) - 1 PROVE f[i].begin = f[i + 1].end /\ f[i].begin < f[i].end
    <3>1. i \in 1 .. Len(t) - 1 /\ i + 1 \in 1 .. Len(t) - 1
      BY <1>1
    <3>2. f[i] = t[i] /\ f[i + 1] = t[i + 1]
      BY <1>1, <3>1
    <3>3. QED
      BY <1>4, <3>1, <3>2
  <2>5. ASSUME n > 0, NEW i \in 1 .. Len(f) PROVE f[i].begin < f[i].end
    <3>1. i \in 1 .. Len(t) - 1 /\ i \in 1 .. Len(t)
      BY <1>1
    <3>2. QED
      BY <1>1, <1>4, <2>5, <3>1
  <2>6. QED
    BY <1>4, <2>3, <2>4, <2>5
<1>6. f = <<>> => Last(t).end = n + 1
  <2>1. f = <<>> => Len(t) = 1
    BY <1>1, <1>2
  <2>2. QED
    BY <1>1, <1>4, <2>1
<1>7. f # <<>> => Last(f).begin = Last(t).end /\ Last(f).begin < Last(f).end
  <2>1. SUFFICES ASSUME f # <<>> PROVE Last(f).begin = Last(t).end /\ Last(f).begin < Last(f).end
    OBVIOUS
  <2>2. Len(t) - 1 \in 1 .. Len(t) - 1 /\ (Len(t) - 1) + 1 = Len(t)
    BY <1>1, <1>3, <2>1
  <2>3. t[Len(t) - 1].begin = t[(Len(t) - 1) + 1].end /\ t[Len(t) - 1].begin < t[Len(t) - 1].end
    BY <1>4, <2>2
  <2>4. QED
    BY <1>1, <1>3, <2>1, <2>2, <2>3
<1>8. QED
  BY <1>1, <1>2, <1>5, <1>6, <1>7 DEF f

LEMMA StackSplit ==
  ASSUME NEW S, NEW t \in Seq(S), t # <<>>, NEW n, Stacked(t, n), NEW u \in S, NEW v \in S,
         u.begin = v.end, u.end = Last(t).end, v.begin = Last(t).begin,
         u.begin < u.end, v.begin < v.end
  PROVE  /\ Front(t) \o <<u, v>> \in Seq(S) /\ Front(t) \o <<u, v>> # <<>>
         /\ Stacked(Front(t) \o <<u, v>>, n) /\ Last(Front(t) \o <<u, v>>) = v
         /\ Len(Front(t) \o <<u, v>>) = Len(t) + 1
         /\ (Front(t) \o <<u, v>>)[Len(t)] = u
         /\ \A i \in 1 .. Len(t) - 1 : (Front(t) \o <<u, v>>)[i] = t[i]
<1> DEFINE f == Front(t)
           r == f \o <<u, v>>
<1>1. /\ Len(t) \in Nat \ {0} /\ Last(t) = t[Len(t)] /\ f \in Seq(S) /\ Len(f) = Len(t) - 1
      /\ \A i \in 1 .. Len(t) - 1 : f[i] = t[i]
  BY StackTop
<1>2. <<u, v>> \in Seq(S) /\ Len(<<u, v>>) = 2 /\ <<u, v>>[1] = u /\ <<u, v>>[2] = v
  OBVIOUS
<1> HIDE DEF f
<1>3. /\ r \in Seq(S) /\ Len(r) = Len(f) + 2
      /\ \A i \in 1 .. Len(f) + 2 : r[i] = IF i <= Len(f) THEN f[i] ELSE <<u, v>>[i - Len(f)]
  BY <1>1, <1>2, ConcatProperties
<1> HIDE DEF r
<1>4. /\ Len(r) = Len(t) + 1 /\ \A i \in 1 .. Len(t) - 1 : r[i] = t[i]
      /\ r[Len(t)] = u /\ r[Len(t) + 1] = v
  <2>1. Len(r) = Len(t) + 1 /\ \A i \in 1 .. Len(t) - 1 : r[i] = t[i]
    BY <1>1, <1>3
  <2>2. Len(t) \in 1 .. Len(f) + 2 /\ ~ Len(t) <= Len(f) /\ Len(t) - Len(f) = 1
    BY <1>1
  <2>3. Len(t) + 1 \in 1 .. Len(f) + 2 /\ ~ Len(t) + 1 <= Len(f) /\ (Len(t) + 1) - Len(f) = 2
    BY <1>1
  <2>4. r[Len(t)] = <<u, v>>[1]
    BY <1>3, <2>2
  <2>5. r[Len(t) + 1] = <<u, v>>[2]
    BY <1>3, <2>3
  <2>6. QED
    BY <1>2, <2>1, <2>4, <2>5
<1>5. Last(r) = v /\ r # <<>>
  BY <1>1, <1>4, EmptySeq DEF Last
<1>6. /\ t[1].end = n + 1
      /\ \A i \in 1 .. Len(t) - 1 : t[i].begin = t[i + 1].end /\ t[i].begin < t[i].end
      /\ n > 0 => \A i \in 1 .. Len(t) : t[i].begin < t[i].end
  BY DEF Stacked
<1>7. r[1].end = n + 1
  <2>1. CASE Len(t) = 1
    BY <1>1, <1>4, <1>6, <2>1
  <2>2. CASE Len(t) # 1
    <3>1. 1 \in 1 .. Len(t) - 1
      BY <1>1, <2>2
    <3>2. QED
      BY <1>4, <1>6, <3>1
  <2>3. QED
    BY <2>1, <2>2
<1>8. ASSUME NEW i \in 1 .. Len(r) PROVE r[i].begin < r[i].end
  <2>1. i \in 1 .. Len(t) - 1 \/ i = Len(t) \/ i = Len(t) + 1
    BY <1>1, <1>4
  <2>2. QED
    BY <1>4, <1>6, <2>1
<1>9. ASSUME NEW i \in 1 .. Len(r) - 1 PROVE r[i].begin = r[i + 1].end
  <2>1. CASE i = Len(t)
    BY <1>4, <2>1
  <2>2. CASE i = Len(t) - 1
    <3>1. i \in 1 .. Len(t) - 1 /\ i + 1 = Len(t)
      BY <1>1, <2>2
    <3>2. r[i] = t[i] /\ t[i].begin = t[i + 1].end /\ r[i + 1] = u
      BY <1>4, <1>6, <3>1
    <3>3. QED
      BY <1>1, <3>1, <3>2
  <2>3. CASE i # Len(t) /\ i # Len(t) - 1
    <3>1. i \in 1 .. Len(t) - 1 /\ i + 1 \in 1 .. Len(t) - 1
      BY <1>1, <1>4, <2>3
    <3>2. QED
      BY <1>4, <1>6, <3>1
  <2>4. QED
    BY <2>1, <2>2, <2>3
<1>10. Stacked(r, n)
  <2>1. \A i \in 1 .. Len(r) - 1 : i \in 1 .. Len(r)
    BY <1>1, <1>4
  <2>2. QED
    BY <1>7, <1>8, <1>9, <2>1 DEF Stacked
<1>11. QED
  BY <1>3, <1>4, <1>5, <1>10 DEF r, f

LEMMA StackMarked ==
  ASSUME NEW S, NEW t \in Seq(S), NEW r, NEW n, Stacked(t, n), Len(r) = Len(t),
         r = <<>> <=> t = <<>>,
         \A i \in 1 .. Len(t) : r[i].begin = t[i].begin /\ r[i].end = t[i].end
  PROVE  Stacked(r, n)
<1>1. Len(t) \in Nat /\ (t # <<>> => Len(t) # 0)
  BY EmptySeq, LenProperties
<1>2. SUFFICES ASSUME t # <<>>
               PROVE  /\ r[1].end = n + 1
                      /\ \A i \in 1 .. Len(r) - 1 : r[i].begin = r[i + 1].end /\ r[i].begin < r[i].end
                      /\ n > 0 => \A i \in 1 .. Len(r) : r[i].begin < r[i].end
  BY DEF Stacked
<1>3. /\ t[1].end = n + 1
      /\ \A i \in 1 .. Len(t) - 1 : t[i].begin = t[i + 1].end /\ t[i].begin < t[i].end
      /\ n > 0 => \A i \in 1 .. Len(t) : t[i].begin < t[i].end
  BY <1>2 DEF Stacked
<1>4. 1 \in 1 .. Len(t) /\ \A i \in 1 .. Len(t) - 1 : i \in 1 .. Len(t) /\ i + 1 \in 1 .. Len(t)
  BY <1>1, <1>2
<1>5. QED
  BY <1>3, <1>4

(* The functions of the search.                                            *)
LEMMA CallFlags ==
  ASSUME SearchInv, NEW f, CallStep(f), index' \in 0 .. Len(kind), fgIsOn' \in BOOLEAN,
         replaying' \in BOOLEAN, penIsDown' \in BOOLEAN, loadState' \in BOOLEAN, endedInError' \in BOOLEAN
  PROVE  FlagTypes' /\ UNCHANGED <<kind, tracks, guest>>
<1> USE DEF program, device
<1>1. UNCHANGED <<kind, tracks, guest, given, stage, penPolled, wasOn, stopped, calm>>
  BY DEF CallStep
<1>2. FlagTypes'
  BY <1>1 DEF SearchInv, FlagTypes
<1>3. QED
  BY <1>1, <1>2

LEMMA NoErrorSearches ==
  ASSUME SearchInv, NoErrorOccurred PROVE SearchInv'
<1> USE DEF replay
<1>1. /\ ListTypes /\ SearchTypes /\ FlagTypes /\ RangeFound /\ call = "NoErrorOccurred" /\ levels # <<>>
      /\ CallStep("NoErrorOccurred")
  BY DEF SearchInv, NoErrorOccurred, CallStep, RangeFound, CallNames, Looking
<1>2. UNCHANGED <<events, replay, passNumber, fgIsOn, loadState>> /\ endedInError' = FALSE /\ N' = N
  BY DEF NoErrorOccurred, N
<1>3. FlagTypes' /\ UNCHANGED <<kind, tracks>> /\ stage' = stage
  <2>1. /\ index' \in 0 .. Len(kind) /\ fgIsOn' \in BOOLEAN /\ replaying' \in BOOLEAN
        /\ penIsDown' \in BOOLEAN /\ loadState' \in BOOLEAN /\ endedInError' \in BOOLEAN
    BY <1>1, <1>2 DEF FlagTypes
  <2>2. stage' = stage
    BY <1>1 DEF CallStep, device
  <2>3. QED
    BY <1>1, <2>1, <2>2, CallFlags
<1>4. stage \notin {"off", "asleep"}
  BY <1>1 DEF RangeFound
<1>5. mask' = [p \in 1 .. N |-> InCurrentRange(p) \/ mask[p]]
  BY DEF NoErrorOccurred
<1>6. ListTypes'
  <2>1. mask' \in [1 .. N -> BOOLEAN]
    BY <1>5, ListFacts, <1>1 DEF InCurrentRange
  <2>2. QED
    BY <1>1, <1>2, <1>3, <2>1 DEF ListTypes
<1>7. CASE passNumber = kLastPass
  <2>1. levels' = <<>> /\ call' = "MinimizationPassComplete"
    BY <1>7 DEF NoErrorOccurred
  <2>2. <<>> \in Seq(LevelSet')
    BY EmptySeq
  <2>3. SearchTypes' /\ RangeFound' /\ Stacked(levels, N)' /\ RestKept'
    BY <1>1, <1>2, <1>3, <1>4, <2>1, <2>2 DEF SearchTypes, RangeFound, Stacked, RestKept, CallNames, Looking
  <2>4. QED
    BY <1>3, <1>6, <2>3 DEF SearchInv
<1>8. CASE passNumber # kLastPass
  <2> DEFINE n == Len(levels)
             t == [Top EXCEPT !.checked = TRUE]
  <2>1. levels' = [levels EXCEPT ![n].checked = TRUE] /\ call' = "SplitAndStartAgain"
    BY <1>8 DEF NoErrorOccurred
  <2>2. /\ n \in Nat \ {0} /\ n \in 1 .. n /\ Top = levels[n] /\ Top \in LevelSet
        /\ Top.begin \in 1 .. N + 1 /\ Top.end \in 1 .. N + 1 /\ N \in Nat
    BY <1>1, TopFacts
  <2>3. t \in LevelSet /\ t.begin = Top.begin /\ t.end = Top.end
    BY <2>2 DEF LevelSet
  <2>4. levels' = [levels EXCEPT ![n] = t]
    BY <2>1, <2>2
  <2> HIDE DEF t
  <2>5. /\ levels' \in Seq(LevelSet) /\ Len(levels') = n
        /\ \A i \in 1 .. n : levels'[i] = IF i = n THEN t ELSE levels[i]
    <3>1. levels \in Seq(LevelSet)
      BY <1>1 DEF SearchTypes
    <3>2. QED
      BY <2>2, <2>3, <2>4, <3>1, ExceptSeq
  <2>6. levels' # <<>> /\ Top' = t
    BY <2>2, <2>5, EmptySeq DEF Top, Last
  <2>7. Stacked(levels', N)
    <3>1. levels \in Seq(LevelSet) /\ Stacked(levels, N)
      BY <1>1 DEF SearchTypes, SearchInv
    <3>2. \A i \in 1 .. n : levels'[i].begin = levels[i].begin /\ levels'[i].end = levels[i].end
      BY <2>2, <2>3, <2>5
    <3>3. QED
      BY <1>1, <2>5, <2>6, <3>1, <3>2, StackMarked
  <2>8. RestKept'
    <3>1. ASSUME NEW p \in Top.begin .. N PROVE mask'[p]
      <4>1. p \in 1 .. N
        BY <2>2
      <4>2. mask'[p] = (InCurrentRange(p) \/ mask[p])
        BY <1>5, <4>1
      <4>3. CASE p < Top.end
        <5>1. Top.begin <= p
          BY <2>2
        <5>2. InCurrentRange(p)
          BY <1>1, <4>3, <5>1, Zenon DEF InCurrentRange
        <5>3. QED
          BY <4>2, <5>2, Zenon
      <4>4. CASE p >= Top.end
        <5>1. p \in Top.end .. N
          BY <2>2, <4>1, <4>4
        <5>2. mask[p]
          BY <1>1, <5>1 DEF SearchInv, RestKept
        <5>3. QED
          BY <4>2, <5>2
      <4>5. QED
        BY <2>2, <4>1, <4>3, <4>4
    <3>2. ASSUME NEW p \in Top.end .. N PROVE mask'[p]
      <4>1. p \in 1 .. N
        BY <2>2
      <4>2. mask[p]
        BY <1>1 DEF SearchInv, RestKept
      <4>3. QED
        BY <1>5, <4>1, <4>2
    <3>3. QED
      BY <1>2, <2>3, <2>6, <3>1, <3>2 DEF RestKept
  <2>9. SearchTypes' /\ RangeFound'
    BY <1>1, <1>2, <1>3, <1>4, <2>1, <2>5, <2>6 DEF SearchTypes, RangeFound, CallNames, Looking, LevelSet
  <2>10. QED
    BY <1>2, <1>3, <1>6, <2>7, <2>8, <2>9 DEF SearchInv
<1>9. QED
  BY <1>7, <1>8

LEMMA SplitSearches ==
  ASSUME SearchInv, SplitAndStartAgain PROVE SearchInv'
<1> USE DEF replay, list
<1>1. /\ ListTypes /\ SearchTypes /\ FlagTypes /\ RangeFound /\ call = "SplitAndStartAgain"
      /\ levels # <<>> /\ CallStep("SplitAndStartAgain") /\ levels \in Seq(LevelSet) /\ Stacked(levels, N)
  BY DEF SearchInv, SplitAndStartAgain, CallStep, RangeFound, CallNames, Looking, SearchTypes
<1>2. UNCHANGED <<list, replay, passNumber, endedInError, fgIsOn, loadState>> /\ N' = N
  BY DEF SplitAndStartAgain, N
<1>3. FlagTypes' /\ UNCHANGED <<kind, tracks>> /\ stage' = stage
  BY <1>1, <1>2, CallFlags DEF FlagTypes, CallStep, device
<1>4. stage \notin {"off", "asleep"}
  BY <1>1 DEF RangeFound
<1>5. ListTypes'
  BY <1>1, <1>2, <1>3 DEF ListTypes
<1>6. /\ Len(levels) \in Nat \ {0} /\ Len(levels) \in 1 .. Len(levels) /\ Top = levels[Len(levels)]
      /\ Top \in LevelSet /\ Top.begin \in 1 .. N + 1 /\ Top.end \in 1 .. N + 1 /\ N \in Nat
      /\ Top.checked \in BOOLEAN /\ \A i \in 1 .. Len(levels) : levels[i] \in LevelSet
  BY <1>1, TopFacts
<1>7. \A p \in Top.begin .. N : mask[p]
  BY <1>1 DEF SearchInv, RestKept, Looking
<1>8. CASE ~CanSplit
  <2>1. levels' = [i \in DOMAIN levels |-> [levels[i] EXCEPT !.checked = FALSE]] /\ call' = "NextSubRange"
    BY <1>8 DEF SplitAndStartAgain
  <2>2. DOMAIN levels = 1 .. Len(levels)
    BY <1>1, LenProperties
  <2>3. /\ levels' \in Seq(LevelSet) /\ Len(levels') = Len(levels)
        /\ \A i \in 1 .. Len(levels) : levels'[i] = [levels[i] EXCEPT !.checked = FALSE]
    <3>1. \A i \in 1 .. Len(levels) : [levels[i] EXCEPT !.checked = FALSE] \in LevelSet
      BY <1>6 DEF LevelSet
    <3>2. QED
      BY <1>6, <2>1, <2>2, <3>1
  <2>4. \A i \in 1 .. Len(levels) : levels'[i].begin = levels[i].begin /\ levels'[i].end = levels[i].end
    BY <1>6, <2>3 DEF LevelSet
  <2>5. levels' # <<>>
    BY <1>6, <2>3, EmptySeq
  <2>6. Stacked(levels', N)
    BY <1>1, <2>3, <2>4, <2>5, StackMarked
  <2>7. Last(levels').end = Top.end
    BY <1>6, <2>3, <2>4 DEF Last
  <2>8. RestKept'
    <3>1. \A p \in Top.end .. N : mask[p]
      BY <1>1 DEF SearchInv, RestKept
    <3>2. QED
      BY <1>2, <2>1, <2>7, <3>1 DEF RestKept, Top, Looking
  <2>9. SearchTypes' /\ RangeFound'
    BY <1>1, <1>2, <1>3, <1>4, <2>1, <2>3, <2>5 DEF SearchTypes, RangeFound, CallNames, Looking, LevelSet
  <2>10. QED
    BY <1>2, <1>3, <1>5, <2>6, <2>8, <2>9 DEF SearchInv
<1>9. CASE CanSplit
  <2> DEFINE u == Half(Midpoint, Top.end)
             v == Half(Top.begin, Midpoint)
  <2>1. levels' = Front(levels) \o <<u, v>> /\ call' \in Looking
    BY <1>1, <1>9 DEF SplitAndStartAgain, Halves, Looking
  <2>2. Top.begin < Midpoint /\ Midpoint < Top.end /\ Midpoint \in 1 .. N + 1
    <3>1. \A b, x \in Int : x - b > 1 => b < (b + x) \div 2 /\ (b + x) \div 2 < x /\ (b + x) \div 2 \in Int
      OBVIOUS
    <3>2. Top.begin \in Int /\ Top.end \in Int /\ Top.end - Top.begin > 1
      BY <1>6, <1>9 DEF CanSplit, Size
    <3>3. Top.begin < Midpoint /\ Midpoint < Top.end /\ Midpoint \in Int
      BY <3>1, <3>2 DEF Midpoint
    <3>4. QED
      BY <1>6, <3>3
  <2>3. /\ u \in LevelSet /\ v \in LevelSet /\ u.begin = Midpoint /\ u.end = Top.end
        /\ v.begin = Top.begin /\ v.end = Midpoint
    BY <1>6, <2>2 DEF Half, Level, LevelSet
  <2> HIDE DEF u, v
  <2>4. /\ levels' \in Seq(LevelSet) /\ levels' # <<>> /\ Stacked(levels', N) /\ Last(levels') = v
    BY <1>1, <2>1, <2>2, <2>3, StackSplit DEF Top
  <2>5. RestKept'
    <3>1. \A p \in Midpoint .. N : p \in Top.begin .. N
      BY <1>6, <2>2
    <3>2. QED
      BY <1>2, <1>7, <2>3, <2>4, <3>1 DEF RestKept, Top
  <2>6. SearchTypes' /\ RangeFound'
    BY <1>1, <1>2, <1>3, <1>4, <2>1, <2>4 DEF SearchTypes, RangeFound, CallNames, Looking, LevelSet
  <2>7. QED
    BY <1>2, <1>3, <1>5, <2>4, <2>5, <2>6 DEF SearchInv
<1>10. QED
  BY <1>8, <1>9

LEMMA DisableSearches ==
  ASSUME SearchInv, DisableAndStartAgain PROVE SearchInv'
<1> USE DEF replay, search
<1>1. /\ ListTypes /\ SearchTypes /\ FlagTypes /\ RangeFound /\ call = "DisableAndStartAgain"
      /\ levels # <<>> /\ CallStep("DisableAndStartAgain") /\ Stacked(levels, N)
  BY DEF SearchInv, DisableAndStartAgain, CallStep, RangeFound, CallNames, Looking
<1>2. UNCHANGED <<events, replay, search, fgIsOn, loadState>> /\ N' = N /\ Top' = Top
  BY DEF DisableAndStartAgain, N, Top
<1>3. FlagTypes' /\ UNCHANGED <<kind, tracks>> /\ stage' = stage
  BY <1>1, <1>2, CallFlags DEF FlagTypes, CallStep, device
<1>4. stage \notin {"off", "asleep"}
  BY <1>1 DEF RangeFound
<1>5. \/ call' = "NextSubRange" /\ UNCHANGED mask
      \/ call' = "StartAgain" /\ EnableEvents(Top.begin, Top.end, FALSE)
  BY DEF DisableAndStartAgain
<1>6. Top.begin \in 1 .. N + 1 /\ Top.end \in 1 .. N + 1 /\ N \in Nat
  BY <1>1, TopFacts
<1>7. \A p \in Top.end .. N : mask[p]
  BY <1>1 DEF SearchInv, RestKept
<1>8. ListTypes' /\ \A p \in Top.end .. N : mask'[p]
  <2>1. CASE UNCHANGED mask
    BY <1>1, <1>2, <1>3, <1>7, <2>1 DEF ListTypes
  <2>2. CASE EnableEvents(Top.begin, Top.end, FALSE)
    <3>1. /\ ListTypes'
          /\ \A p \in 1 .. N : mask'[p] = IF Top.begin <= p /\ p < Top.end THEN FALSE ELSE mask[p]
      BY <1>1, <1>2, <1>3, <2>2, MaskTyped
    <3>2. \A p \in Top.end .. N : p \in 1 .. N /\ ~ p < Top.end
      BY <1>6
    <3>3. QED
      BY <1>7, <3>1, <3>2
  <2>3. QED
    BY <1>5, <2>1, <2>2
<1>9. RestKept'
  BY <1>2, <1>5, <1>8 DEF RestKept, Looking
<1>10. SearchTypes' /\ RangeFound'
  BY <1>1, <1>2, <1>3, <1>4, <1>5 DEF SearchTypes, RangeFound, CallNames, Looking, LevelSet
<1>11. QED
  BY <1>1, <1>2, <1>3, <1>8, <1>9, <1>10 DEF SearchInv

LEMMA NextRangeSearches ==
  ASSUME SearchInv, NextSubRange PROVE SearchInv'
<1> USE DEF replay, list
<1>1. /\ ListTypes /\ SearchTypes /\ FlagTypes /\ RangeFound /\ call = "NextSubRange" /\ levels # <<>>
      /\ CallStep("NextSubRange") /\ Stacked(levels, N) /\ levels \in Seq(LevelSet)
  BY DEF SearchInv, NextSubRange, CallStep, RangeFound, CallNames, Looking, SearchTypes
<1>2. /\ UNCHANGED <<list, replay, passNumber, endedInError, fgIsOn, loadState>> /\ N' = N
      /\ levels' = Front(levels)
  BY DEF NextSubRange, N
<1>3. FlagTypes' /\ UNCHANGED <<kind, tracks>> /\ stage' = stage
  BY <1>1, <1>2, CallFlags DEF FlagTypes, CallStep, device
<1>4. stage \notin {"off", "asleep"}
  BY <1>1 DEF RangeFound
<1>5. /\ call' \in CallNames /\ call' # "none"
      /\ call' = "MinimizationPassComplete" <=> levels' = <<>>
  BY DEF NextSubRange, CallNames, Looking
<1>6. /\ levels' \in Seq(LevelSet) /\ Stacked(levels', N)
      /\ levels' # <<>> => /\ Last(levels').begin = Top.end
                           /\ Last(levels').begin < Last(levels').end
  BY <1>1, <1>2, StackTop, StackPopped DEF Top
<1>7. ListTypes' /\ SearchTypes' /\ RangeFound'
  BY <1>1, <1>2, <1>3, <1>4, <1>5, <1>6 DEF ListTypes, SearchTypes, RangeFound, LevelSet
<1>8. RestKept'
  <2>1. SUFFICES ASSUME levels' # <<>>
                 PROVE  \A p \in Top'.begin .. N : mask[p] /\ (p \in Top'.end .. N => mask[p])
    <3>1. call' \in Looking => levels' # <<>>
      BY <1>5 DEF Looking
    <3>2. Top' = Last(levels')
      BY DEF Top
    <3>3. levels' # <<>> => \A p \in Top'.end .. N : p \in Top'.begin .. N
      <4>1. SUFFICES ASSUME levels' # <<>> PROVE \A p \in Top'.end .. N : p \in Top'.begin .. N
        OBVIOUS
      <4>2. Top'.begin \in Int /\ Top'.end \in Int /\ N \in Int
        <5>1. Last(levels') \in LevelSet
          BY <1>6, <4>1, StackTop
        <5>2. N \in Nat
          BY <1>1, ListFacts
        <5>3. QED
          BY <3>2, <5>1, <5>2 DEF LevelSet
      <4>3. Top'.begin < Top'.end
        BY <1>6, <3>2, <4>1
      <4>4. QED
        BY <4>2, <4>3
    <3>4. QED
      BY <1>2, <2>1, <3>1, <3>3 DEF RestKept
  <2>2. Top'.begin = Top.end
    BY <1>6, <2>1 DEF Top
  <2>3. QED
    BY <1>1, <2>2 DEF SearchInv, RestKept
<1>9. QED
  BY <1>2, <1>3, <1>6, <1>7, <1>8 DEF SearchInv

LEMMA PassSearches ==
  ASSUME SearchInv, MinimizationPassComplete PROVE SearchInv'
<1> DEFINE r == Kept(mask)
<1>1. /\ ListTypes /\ SearchTypes /\ FlagTypes /\ RangeFound /\ call = "MinimizationPassComplete"
      /\ levels = <<>> /\ CallStep("MinimizationPassComplete") /\ CullEvents
      /\ N \in Nat /\ Len(kind) \in Nat /\ N <= Len(kind) /\ mask \in [1 .. N -> BOOLEAN]
  BY ListFacts DEF SearchInv, MinimizationPassComplete, CallStep, RangeFound, ListTypes
<1>2. Lists(r, PlacesOf(kind, events, mask), N) /\ events' = Shortened(events, r)
  BY <1>1, ReplayedIs DEF CullEvents
<1> HIDE DEF r
<1>3. Len(r) \in Nat /\ Len(r) <= N /\ \A i \in 1 .. Len(r) : r[i] \in 1 .. N
  BY <1>2, LenProperties, ElementOfSeq DEF Lists
<1>4. events' \in Seq(DOMAIN kind) /\ N' = Len(r) /\ Len(events') = Len(r)
  <2>1. \A i \in 1 .. Len(r) : events[r[i]] \in DOMAIN kind
    BY <1>1, <1>3, ListFacts
  <2>2. Shortened(events, r) \in Seq(DOMAIN kind) /\ Len(Shortened(events, r)) = Len(r)
    BY <1>3, <2>1 DEF Shortened
  <2>3. QED
    BY <1>2, <2>2 DEF N
<1>5. mask' \in [1 .. N' -> BOOLEAN] /\ \A p \in 1 .. N' : mask'[p] = TRUE
  <2>1. DOMAIN events' = 1 .. N'
    BY <1>4, LenProperties DEF N
  <2>2. mask' = [p \in 1 .. N' |-> TRUE]
    BY <1>1, <2>1 DEF CullEvents
  <2>3. QED
    BY <2>2
<1>6. UNCHANGED <<kind, tracks, endedInError>> /\ index' = N /\ penIsDown' \in BOOLEAN /\ stage' = stage
  BY <1>1 DEF CallStep, program, device, MinimizationPassComplete
<1>7. ListTypes'
  BY <1>1, <1>3, <1>4, <1>5, <1>6 DEF ListTypes
<1>8. \/ /\ Len(r) < N /\ passNumber' = passNumber + 1 /\ InitialLevel /\ call' = "SplitAndStartAgain"
         /\ UNCHANGED <<replaying, fgIsOn, loadState>>
      \/ /\ Len(r) = N /\ passNumber # kLastPass /\ passNumber' = kLastPass
         /\ InitialLevel /\ call' = "StartAgain" /\ UNCHANGED <<replaying, fgIsOn, loadState>>
      \/ /\ Len(r) = N /\ passNumber = kLastPass
         /\ fgIsOn' = FALSE /\ replaying' = FALSE /\ loadState' = TRUE /\ call' = "none"
         /\ UNCHANGED <<levels, passNumber>>
  BY <1>4 DEF MinimizationPassComplete
<1>9. FlagTypes'
  <2>1. fgIsOn' \in BOOLEAN /\ replaying' \in BOOLEAN /\ loadState' \in BOOLEAN
    BY <1>1, <1>8 DEF FlagTypes
  <2>2. index' \in 0 .. Len(kind) /\ endedInError' \in BOOLEAN
    BY <1>1, <1>6 DEF FlagTypes
  <2>3. QED
    BY <1>1, <1>6, <2>1, <2>2, CallFlags
<1>10. stage \notin {"off", "asleep"} /\ call' \in CallNames
  BY <1>1, <1>8 DEF RangeFound, CallNames, Looking
<1>11. CASE levels' = levels
  <2>1. passNumber' \in Nat /\ passNumber' + N' <= Len(kind) + 1 /\ call' = "none" /\ fgIsOn' = FALSE
    <3>1. ~InitialLevel
      <4>1. SUFFICES ASSUME levels' = Append(<<>>, Level(1, Len(events') + 1, FALSE)) PROVE FALSE
        BY <1>1 DEF InitialLevel
      <4>2. levels' # <<>>
        BY <4>1
      <4>3. QED
        BY <1>1, <1>11, <4>2
    <3>2. QED
      BY <1>1, <1>4, <1>8, <3>1 DEF SearchTypes
  <2>2. levels' \in Seq(LevelSet')
    BY <1>1, <1>11, EmptySeq
  <2>3. QED
    BY <1>1, <1>6, <1>7, <1>9, <1>10, <1>11, <2>1, <2>2
    DEF SearchInv, SearchTypes, RangeFound, On, Stacked, RestKept, Looking, CallNames
<1>12. CASE InitialLevel
  <2> DEFINE t == Level(1, Len(r) + 1, FALSE)
  <2>1. levels' = <<t>>
    BY <1>1, <1>4, <1>12 DEF InitialLevel
  <2>2. t.begin = 1 /\ t.end = Len(r) + 1 /\ t \in LevelSet'
    BY <1>3, <1>4 DEF Level, LevelSet
  <2> HIDE DEF t
  <2>3. levels' \in Seq(LevelSet') /\ levels' # <<>> /\ Len(levels') = 1 /\ levels'[1] = t
    BY <2>1, <2>2
  <2>4. Top' = t
    BY <2>3 DEF Top, Last
  <2>5. call' \in {"SplitAndStartAgain", "StartAgain"} /\ passNumber' \in Nat
        /\ passNumber' + N' <= Len(kind) + 1
    <3>1. call' # "none"
      <4>1. levels' # levels
        BY <1>1, <2>3
      <4>2. QED
        BY <1>8, <4>1
    <3>2. passNumber \in Nat /\ passNumber + N <= Len(kind) + 1
      BY <1>1 DEF SearchTypes
    <3>3. QED
      BY <1>1, <1>3, <1>4, <1>8, <3>1, <3>2 DEF kLastPass
  <2>6. SearchTypes' /\ RangeFound'
    BY <1>6, <1>10, <2>3, <2>5 DEF SearchTypes, RangeFound, CallNames, Looking
  <2>7. Stacked(levels', N')
    <3>1. N' > 0 => 1 < Len(r) + 1
      BY <1>3, <1>4
    <3>2. QED
      BY <1>3, <1>4, <2>2, <2>3, <3>1 DEF Stacked
  <2>8. RestKept'
    <3>1. \A p \in Top'.begin .. N' : mask'[p]
      BY <1>5, <2>2, <2>4
    <3>2. \A p \in Top'.end .. N' : mask'[p]
      BY <1>3, <1>4, <2>2, <2>4
    <3>3. QED
      BY <3>1, <3>2 DEF RestKept
  <2>9. QED
    BY <1>7, <1>9, <2>6, <2>7, <2>8 DEF SearchInv
<1>13. QED
  BY <1>8, <1>11, <1>12

LEMMA InitSearches == Init => SearchInv
<1> SUFFICES ASSUME Init PROVE SearchInv
  OBVIOUS
<1>1. kind \in Seq({"key", "down", "up"})
  BY RecordingsAssumption DEF Init
<1> DEFINE n == Len(kind)
           t == Level(1, n + 1, FALSE)
<1>2. n \in Nat /\ DOMAIN kind = 1 .. n
  BY <1>1, LenProperties
<1> HIDE DEF n
<1>3. events \in Seq(1 .. n) /\ N = n /\ mask = [i \in 1 .. n |-> TRUE]
  <2>1. events = [i \in 1 .. n |-> i]
    BY DEF Init, n
  <2>2. QED
    BY <1>2, <2>1 DEF Init, n, N
<1>4. ListTypes
  BY <1>2, <1>3 DEF Init, ListTypes, n
<1>5. levels = <<t>> /\ t.begin = 1 /\ t.end = n + 1 /\ t \in LevelSet
  BY <1>2, <1>3 DEF Init, Level, LevelSet, n
<1> HIDE DEF t
<1>6. levels \in Seq(LevelSet) /\ levels # <<>> /\ Len(levels) = 1 /\ levels[1] = t /\ Top = t
  BY <1>5 DEF Top, Last
<1>7. SearchTypes /\ RangeFound
  <2>1. passNumber = 1 /\ call = "SplitAndStartAgain" /\ stage = "starting"
    BY DEF Init
  <2>2. passNumber \in Nat /\ passNumber + N <= Len(kind) + 1
    BY <1>2, <1>3, <2>1 DEF n
  <2>3. QED
    BY <1>6, <2>1, <2>2 DEF SearchTypes, RangeFound, CallNames, Looking
<1>8. FlagTypes
  <2>2. index \in 0 .. Len(kind) /\ given \subseteq DOMAIN kind
    BY <1>2 DEF Init, n
  <2>3. wasOn \in [playback : BOOLEAN, minimization : BOOLEAN]
    BY DEF Init
  <2>4. QED
    BY <2>2, <2>3 DEF Init, FlagTypes
<1>9. Stacked(levels, N)
  BY <1>2, <1>3, <1>5, <1>6 DEF Stacked
<1>10. RestKept
  <2>1. \A p \in 1 .. N : mask[p]
    BY <1>3
  <2>2. \A p \in n + 1 .. N : p \in 1 .. N
    BY <1>2, <1>3
  <2>3. QED
    BY <1>5, <1>6, <2>1, <2>2 DEF RestKept
<1>11. QED
  BY <1>4, <1>7, <1>8, <1>9, <1>10 DEF SearchInv

LEMMA SearchInvariant == Spec => []SearchInv
<1>1. SearchInv /\ [Next]_vars => SearchInv'
  <2>1. ASSUME SearchInv, UNCHANGED vars PROVE SearchInv'
    <3>1. /\ N' = N /\ Top' = Top /\ LevelSet' = LevelSet /\ On' = On
      BY <2>1 DEF vars, program, list, replay, search, device, N, Top, LevelSet, On
    <3>2. QED
      BY <2>1, <3>1 DEF vars, program, list, replay, search, device, SearchInv,
        ListTypes, SearchTypes, FlagTypes, RangeFound, RestKept
  <2>2. QED
    BY <2>1, ReplaySearches, DeviceSearches, ErrorSearches, NoErrorSearches, SplitSearches,
      DisableSearches, NextRangeSearches, PassSearches DEF Next, CPU, Calls
<1>2. QED
  BY <1>1, InitSearches, PTL DEF Spec

(* The values of the variables.                                            *)
THEOREM MinimizationIsTyped == Spec => []TypeOK
<1>1. SearchInv => TypeOK
  <2> SUFFICES ASSUME SearchInv PROVE TypeOK
    OBVIOUS
  <2>1. ListTypes /\ SearchTypes /\ FlagTypes /\ N \in Nat /\ Len(kind) \in Nat /\ N <= Len(kind)
    BY ListFacts DEF SearchInv, ListTypes
  <2>2. Range(events) \subseteq DOMAIN kind /\ mask \in [1 .. N -> BOOLEAN]
    <3>1. events \in Seq(DOMAIN kind)
      BY <2>1 DEF ListTypes
    <3>2. \A i \in DOMAIN events : events[i] \in DOMAIN kind
      BY <3>1, LenProperties, ElementOfSeq
    <3>3. QED
      BY <2>1, <3>2 DEF ListTypes, Range
  <2>3. \A i \in DOMAIN levels : levels[i] \in [begin : 1 .. N + 1, end : 1 .. N + 1, checked : BOOLEAN]
    <3>1. levels \in Seq(LevelSet)
      BY <2>1 DEF SearchTypes
    <3>2. QED
      BY <3>1, LenProperties, ElementOfSeq DEF LevelSet
  <2>4. passNumber \in 0 .. Len(kind) + 1
    BY <2>1 DEF SearchTypes
  <2>5. given \subseteq DOMAIN kind
    BY <2>1 DEF FlagTypes
  <2>6. call \in CallNames /\ FlagTypes
    BY <2>1 DEF SearchTypes
  <2>7. QED
    BY <2>2, <2>3, <2>4, <2>5, <2>6 DEF TypeOK, FlagTypes, CallNames, Looking
<1>2. QED
  BY <1>1, SearchInvariant, PTL

(* The ranges on the stack follow each other to the end of the list, with  *)
(* nothing left out behind the one on top, and a function that looks for a *)
(* range finds one: the assertions of EmMinimize.cpp about fLevels.        *)
THEOREM RangesCoverTheRest == Spec => []StackCoversRest
<1>1. SearchInv => StackCoversRest
  BY DEF SearchInv, RangeFound, Stacked, RestKept, StackCoversRest, CallNames, Looking
<1>2. QED
  BY <1>1, SearchInvariant, PTL

-----------------------------------------------------------------------------
(* What the search has found out, as long as it is calm                    *)

Mentioned == UNION {p.has \cup p.not : p \in guest}
GuestOK ==
  /\ ~FailsOn(guest, {}) /\ (penPolled => tracks)
  /\ tracks => \A x \in Mentioned : kind[x] # "up"

\* When the session is loaded, the list is at its beginning; the guest fails
\* in a replay; minimization is turned off at the end of the last pass only.
Settled ==
  /\ stage # "asleep" /\ (loadState => call = "none")
  /\ stage = "failing" => ~loadState /\ call = "none" /\ (fgIsOn => replaying)
  /\ replaying /\ loadState => index = 0 /\ ~penIsDown
  /\ ~fgIsOn /\ ~stopped => passNumber = kLastPass /\ call = "none"

\* In a replay, the guest has been given what the mask lets through up to the
\* place reached, as far as it cares, and has not failed before.
Live == replaying /\ ~loadState /\ stage \in {"running", "failing"}
GivenSoFar ==
  Live =>
    /\ call = "none" /\ index \in 0 .. N
    /\ \A x \in Mentioned : x \in given <=> x \in Fed(index)
    /\ ~tracks => penIsDown = PenOf(kind, events, mask)[index]
    /\ stage = "running" => \A q \in 0 .. index : ~FailsOn(guest, Fed(q))
    /\ stage = "failing" => FailsOn(guest, Fed(index))

(* A step of the control, seen alone.                                      *)
LEMMA StaysCalm ==
  ASSUME SearchInv, Next, calm' PROVE calm
BY DEF SearchInv, FlagTypes, Next, CPU, Calls, GetEvent, GetPen, FirstError, LoadState, WakeUp,
  SecondError, FallAsleep, Stop, NoErrorOccurred, SplitAndStartAgain, DisableAndStartAgain,
  NextSubRange, StartAgain, MinimizationPassComplete, CallStep, device

LEMMA ControlKept ==
  ASSUME SearchInv, GuestOK, Settled, Next, calm'
  PROVE  GuestOK' /\ Settled'
<1> USE DEF program, list, search, replay, device
<1>1. calm /\ FlagTypes
  BY StaysCalm DEF SearchInv
<1>2. UNCHANGED <<kind, guest, tracks>>
  BY DEF Next, CPU, Calls, GetEvent, GetPen, FirstError, ErrorOccurred, LoadState, WakeUp,
    SecondError, FallAsleep, Stop, NoErrorOccurred, SplitAndStartAgain, DisableAndStartAgain,
    NextSubRange, StartAgain, MinimizationPassComplete, CallStep
<1>3. ASSUME penPolled' => tracks PROVE GuestOK'
  BY <1>2, <1>3 DEF GuestOK, Mentioned
<1>4. CASE GetEvent
  <2>1. penPolled' => tracks
    BY <1>4 DEF GetEvent, Give, GuestOK
  <2>2. stage' \in {"running", "failing", "off"} /\ ~loadState' /\ UNCHANGED <<passNumber, fgIsOn, stopped>>
    BY <1>4 DEF GetEvent, Give, Ready
  <2>3. /\ stage' = "failing" => call' = "none" /\ replaying'
        /\ ~fgIsOn => call' = "none"
    BY <1>4 DEF GetEvent, Give, Ready
  <2>4. QED
    BY <1>1, <1>3, <2>1, <2>2, <2>3 DEF Settled
<1>5. CASE GetPen
  <2>1. penPolled' => tracks
    BY <1>5 DEF GetPen, Give, GuestOK
  <2>2. /\ stage' \in {"running", "failing", "off"} /\ ~loadState' /\ UNCHANGED <<passNumber, fgIsOn, stopped>>
        /\ call' = "none" /\ replaying'
    BY <1>5 DEF GetPen, Give, Ready
  <2>3. QED
    BY <1>1, <1>3, <2>1, <2>2 DEF Settled
<1>6. CASE FirstError
  <2>1. /\ stage' = "failed" /\ UNCHANGED <<penPolled, loadState, fgIsOn, stopped>> /\ ~loadState
        /\ ~fgIsOn => UNCHANGED <<passNumber, call>>
    BY <1>6 DEF FirstError, ErrorOccurred, Settled
  <2>2. QED
    BY <1>1, <1>3, <2>1 DEF Settled, GuestOK
<1>7. CASE Calls
  <2>1. UNCHANGED <<penPolled, stage, stopped>> /\ call # "none"
    BY <1>7 DEF Calls, NoErrorOccurred, SplitAndStartAgain, DisableAndStartAgain,
    NextSubRange, StartAgain, MinimizationPassComplete, CallStep
  <2>2. stage \notin {"asleep", "failing"} /\ ~loadState /\ (fgIsOn \/ stopped)
    BY <2>1 DEF Settled
  <2>3. loadState' => call' = "none" /\ (replaying' => index' = 0 /\ ~penIsDown')
    <3>1. CASE StartAgain
      BY <3>1 DEF StartAgain, Rewind
    <3>2. CASE MinimizationPassComplete
      BY <2>2, <3>2 DEF MinimizationPassComplete
    <3>3. CASE ~StartAgain /\ ~MinimizationPassComplete
      BY <1>7, <2>2, <3>3 DEF Calls, NoErrorOccurred, SplitAndStartAgain, DisableAndStartAgain,
        NextSubRange
    <3>4. QED
      BY <3>1, <3>2, <3>3
  <2>4. fgIsOn /\ ~fgIsOn' => passNumber' = kLastPass /\ call' = "none"
    BY <1>7 DEF Calls, NoErrorOccurred, SplitAndStartAgain, DisableAndStartAgain,
    NextSubRange, StartAgain, MinimizationPassComplete
  <2>5. QED
    BY <1>1, <1>3, <2>1, <2>2, <2>3, <2>4 DEF Settled, GuestOK
<1>8. CASE LoadState
  <2>1. /\ ~loadState' /\ stage' = "running" /\ ~penPolled'
        /\ UNCHANGED <<passNumber, fgIsOn, stopped, call>>
    BY <1>8 DEF LoadState
  <2>2. QED
    BY <1>1, <1>3, <2>1 DEF Settled
<1>9. CASE Stop
  <2>1. /\ ~fgIsOn' /\ ~replaying' /\ stopped' /\ UNCHANGED <<stage, penPolled, loadState, call>>
    BY <1>9 DEF Stop
  <2>2. QED
    BY <1>1, <1>3, <2>1 DEF Settled, GuestOK
<1>10. CASE WakeUp
  BY <1>10 DEF WakeUp, Settled
<1>11. CASE SecondError \/ FallAsleep
  BY <1>11 DEF SecondError, FallAsleep
<1>12. QED
  BY <1>4, <1>5, <1>6, <1>7, <1>8, <1>9, <1>10, <1>11 DEF Next, CPU

(* The next event that may be delivered is the next that the mask lets     *)
(* through, as far as the guest cares.                                     *)
LEMMA Passing ==
  ASSUME ListTypes, index \in 0 .. N, tracks => \A x \in Mentioned : kind[x] # "up",
         ~tracks => penIsDown = PenOf(kind, events, mask)[index]
  PROVE  /\ \A q \in index .. N : (\A p \in Deliverable : q < p) =>
              \A x \in Mentioned : x \in Fed(q) <=> x \in Fed(index)
         /\ \A p \in Deliverable : (\A q \in Deliverable : p <= q) =>
              /\ \A x \in Mentioned : x \in Fed(p) <=> (x \in Fed(index) \/ x = events[p])
              /\ ~tracks => PenOf(kind, events, mask)[p] = IsDown(p)
<1> DEFINE pen == PenOf(kind, events, mask)
<1>1. /\ N \in Nat /\ Len(events) = N /\ Len(events) \in Nat /\ mask \in [1 .. Len(events) -> BOOLEAN]
      /\ tracks \in BOOLEAN
  BY ListFacts DEF ListTypes, N
<1> HIDE DEF pen
<1>2. \A p \in index + 1 .. N : p \in Deliverable <=> IF kind[events[p]] = "up" THEN penIsDown ELSE mask[p]
  BY DEF Deliverable, IsUp
<1>3. Deliverable \subseteq index + 1 .. N
  BY DEF Deliverable
<1>4. ASSUME NEW q \in index .. N, \A p \in Deliverable : q < p
      PROVE  /\ \A x \in Mentioned : x \in Fed(q) <=> x \in Fed(index)
             /\ ~tracks => Blocked(kind, events, mask, index, q)
  <2>1. \A p \in index + 1 .. q : p \in index + 1 .. N /\ p \notin Deliverable
    <3>1. ASSUME NEW p \in index + 1 .. q, p \in Deliverable PROVE FALSE
      BY <1>1, <1>4, <3>1
    <3>2. QED
      BY <1>1, <3>1
  <2>2. \A p \in index + 1 .. q : IF kind[events[p]] = "up" THEN ~penIsDown ELSE ~mask[p]
    BY <1>2, <2>1
  <2>3. q \in index .. Len(events) /\ index \in 0 .. Len(events)
    BY <1>1
  <2>4. CASE tracks
    <3>1. \A p \in index + 1 .. q : kind[events[p]] # "up" => ~mask[p]
      BY <2>2
    <3>2. \A x : kind[x] # "up" =>
            (x \in FedOf(kind, events, mask, q) <=> x \in FedOf(kind, events, mask, index))
      BY <1>1, <2>3, <3>1, NothingPasses
    <3>3. QED
      BY <2>4, <3>2 DEF Fed
  <2>5. CASE ~tracks
    <3>1. Blocked(kind, events, mask, index, q)
      BY <2>2, <2>5 DEF Blocked
    <3>2. FedOf(kind, events, mask, q) = FedOf(kind, events, mask, index)
      BY <1>1, <2>3, <3>1, PenStays
    <3>3. QED
      BY <3>1, <3>2 DEF Fed
  <2>6. QED
    BY <2>4, <2>5
<1>5. ASSUME NEW p \in Deliverable, \A q \in Deliverable : p <= q
      PROVE  /\ \A x \in Mentioned : x \in Fed(p) <=> (x \in Fed(index) \/ x = events[p])
             /\ ~tracks => PenOf(kind, events, mask)[p] = IsDown(p)
  <2>1. /\ p \in index + 1 .. Len(events) /\ p \in 1 .. Len(events) /\ p - 1 \in index .. N
        /\ index \in 0 .. Len(events)
    BY <1>1, <1>3
  <2>2. \A q \in Deliverable : p - 1 < q
    BY <1>1, <1>3, <1>5
  <2>3. /\ \A x \in Mentioned : x \in Fed(p - 1) <=> x \in Fed(index)
        /\ ~tracks => Blocked(kind, events, mask, index, p - 1)
    BY <1>4, <2>1, <2>2
  <2>4. IF kind[events[p]] = "up" THEN penIsDown ELSE mask[p]
    BY <1>1, <1>2, <2>1
  <2>5. CASE tracks
    <3>1. FedOf(kind, events, mask, p)
            = FedOf(kind, events, mask, p - 1) \cup Gets(kind, events, mask, p)
      BY <1>1, <2>1, FedAgain
    <3>2. kind[events[p]] # "up" => p \in PlacesOf(kind, events, mask)
      BY <1>1, <2>1, <2>4, PlacesIs
    <3>3. ASSUME NEW x \in Mentioned PROVE x \in Fed(p) <=> (x \in Fed(index) \/ x = events[p])
      <4>1. x = events[p] => p \in PlacesOf(kind, events, mask)
        BY <2>5, <3>2
      <4>2. QED
        BY <2>3, <3>1, <4>1 DEF Fed, Gets
    <3>4. QED
      BY <2>5, <3>3
  <2>6. CASE ~tracks
    <3>1. Passes(kind, events, mask, index, p)
      BY <2>4, <2>6 DEF Passes
    <3>a. Blocked(kind, events, mask, index, p - 1)
      BY <2>3, <2>6
    <3>2. /\ PenOf(kind, events, mask)[p] = (kind[events[p]] = "down")
          /\ FedOf(kind, events, mask, p) = FedOf(kind, events, mask, index) \cup {events[p]}
      <4>1. Len(events) \in Nat
        BY <1>1
      <4>2. mask \in [1 .. Len(events) -> BOOLEAN]
        BY <1>1
      <4>3. index \in 0 .. Len(events)
        BY <2>1
      <4>4. p \in index + 1 .. Len(events)
        BY <2>1
      <4>5. QED
        BY <3>1, <3>a, <4>1, <4>2, <4>3, <4>4, OnePasses
    <3>3. PenOf(kind, events, mask)[p] = IsDown(p)
      BY <3>2, Zenon DEF IsDown
    <3>4. QED
      BY <3>2, <3>3 DEF Fed
  <2>7. QED
    BY <2>5, <2>6
<1>6. QED
  BY <1>4, <1>5

\* What GivenSoFar says of the pen and of the places passed.
PenTold == ~tracks => penIsDown = PenOf(kind, events, mask)[index]
NoErrorTo(z) == \A q \in 0 .. z : ~FailsOn(guest, Fed(q))

LEMMA NoErrorBefore ==
  ASSUME ListTypes, index \in 0 .. N, GuestOK, PenTold, NoErrorTo(index),
         NEW z \in index .. N, \A p \in Deliverable : z < p
  PROVE  NoErrorTo(z) /\ \A x \in Mentioned : x \in Fed(z) <=> x \in Fed(index)
<1>1. N \in Nat
  BY ListFacts
<1>2. /\ tracks => \A x \in Mentioned : kind[x] # "up"
      /\ ~tracks => penIsDown = PenOf(kind, events, mask)[index]
  BY DEF GuestOK, PenTold
<1>3. \A q \in index .. N : (\A p \in Deliverable : q < p) =>
        \A x \in Mentioned : x \in Fed(q) <=> x \in Fed(index)
  BY <1>2, Passing
<1>4. ASSUME NEW q \in 0 .. z PROVE ~FailsOn(guest, Fed(q))
  <2>1. CASE q \in 0 .. index
    BY <2>1 DEF NoErrorTo
  <2>2. CASE q \notin 0 .. index
    <3>1. q \in index .. N /\ \A p \in Deliverable : q < p
      BY <1>1, <2>2 DEF Deliverable
    <3>2. \A x \in Mentioned : x \in Fed(q) <=> x \in Fed(index)
      BY <1>3, <3>1
    <3>3. FailsOn(guest, Fed(q)) <=> FailsOn(guest, Fed(index))
      BY <3>2, SameFailure DEF Mentioned
    <3>4. index \in 0 .. index
      BY <1>1
    <3>5. QED
      BY <3>3, <3>4 DEF NoErrorTo
  <2>3. QED
    BY <2>1, <2>2
<1>5. \A x \in Mentioned : x \in Fed(z) <=> x \in Fed(index)
  BY <1>3
<1>6. QED
  BY <1>4, <1>5 DEF NoErrorTo

LEMMA GiveKeeps ==
  ASSUME ListTypes, index \in 0 .. N, GuestOK, PenTold, NoErrorTo(index),
         \A x \in Mentioned : x \in given <=> x \in Fed(index),
         NEW p \in Deliverable, \A q \in Deliverable : p <= q,
         Give(p)
  PROVE  /\ index' = p /\ p \in 0 .. N
         /\ \A x \in Mentioned : x \in given' <=> x \in Fed(p)
         /\ ~tracks => PenOf(kind, events, mask)[p] = IsDown(p)
         /\ stage' = "running" => NoErrorTo(p)
         /\ stage' = "failing" => FailsOn(guest, Fed(p))
<1>1. N \in Nat /\ p \in index + 1 .. N /\ p \in 1 .. N /\ p - 1 \in index .. N /\ p \in 0 .. N
  BY ListFacts DEF Deliverable
<1>2. /\ tracks => \A x \in Mentioned : kind[x] # "up"
      /\ ~tracks => penIsDown = PenOf(kind, events, mask)[index]
  BY DEF GuestOK, PenTold
<1>3. /\ \A x \in Mentioned : x \in Fed(p) <=> (x \in Fed(index) \/ x = events[p])
      /\ ~tracks => PenOf(kind, events, mask)[p] = IsDown(p)
  BY <1>2, Passing
<1>4. index' = p /\ given' = given \cup {events[p]}
      /\ stage' = IF Fails(given') THEN "failing" ELSE IF events[p] \in offs THEN "off" ELSE "running"
  BY DEF Give
<1>6. \A x \in Mentioned : x \in given' <=> x \in Fed(p)
  BY <1>3, <1>4
<1>7. Fails(given') <=> FailsOn(guest, Fed(p))
  <2>1. Fails(given') <=> FailsOn(guest, given')
    BY DEF Fails, FailsOn
  <2>2. QED
    BY <1>6, <2>1, SameFailure DEF Mentioned
<1>8. \A q \in Deliverable : p - 1 < q
  BY <1>1 DEF Deliverable
<1>9. NoErrorTo(p - 1)
  BY <1>1, <1>8, NoErrorBefore
<1>10. ASSUME stage' = "running" PROVE NoErrorTo(p)
  <2>1. ~FailsOn(guest, Fed(p))
    BY <1>4, <1>7, <1>10
  <2>2. \A q \in 0 .. p : q = p \/ q \in 0 .. p - 1
    BY <1>1
  <2>3. QED
    BY <1>9, <2>1, <2>2 DEF NoErrorTo
<1>11. stage' = "failing" => FailsOn(guest, Fed(p))
  BY <1>4, <1>7
<1>12. QED
  BY <1>1, <1>3, <1>4, <1>6, <1>10, <1>11

LEMMA GivenKept ==
  ASSUME SearchInv, GuestOK, Settled, GivenSoFar, calm, Next, calm'
  PROVE  GivenSoFar'
<1> USE DEF program, list
<1>1. ListTypes /\ N \in Nat /\ index \in 0 .. Len(kind)
  BY ListFacts DEF SearchInv, FlagTypes
<1>2. ASSUME GetEvent \/ GetPen
      PROVE  /\ UNCHANGED <<program, list>> /\ N' = N
             /\ call = "none" /\ stage = "running" /\ index \in 0 .. N
             /\ PenTold /\ NoErrorTo(index)
             /\ \A x \in Mentioned : x \in given <=> x \in Fed(index)
  <2>1. UNCHANGED <<program, list>> /\ Live /\ stage = "running" /\ call = "none"
    BY <1>2 DEF GetEvent, GetPen, Ready, Live
  <2>2. N' = N
    BY <2>1 DEF N
  <2>3. /\ index \in 0 .. N /\ PenTold /\ NoErrorTo(index)
        /\ \A x \in Mentioned : x \in given <=> x \in Fed(index)
    BY <2>1 DEF GivenSoFar, PenTold, NoErrorTo
  <2>4. QED
    BY <2>1, <2>2, <2>3
<1>3. ASSUME GetEvent \/ GetPen, Deliverable # {}, Give(Min(Deliverable)), call' = "none",
             ~tracks => penIsDown' = IsDown(Min(Deliverable))
      PROVE  GivenSoFar'
  <2> DEFINE p == Min(Deliverable)
  <2>1. p \in Deliverable /\ \A q \in Deliverable : p <= q
    BY <1>1, <1>3, NextPlace
  <2> HIDE DEF p
  <2>2. Give(p) /\ (~tracks => penIsDown' = IsDown(p))
    BY <1>3 DEF p
  <2>3. /\ index' = p /\ p \in 0 .. N
        /\ \A x \in Mentioned : x \in given' <=> x \in Fed(p)
        /\ ~tracks => PenOf(kind, events, mask)[p] = IsDown(p)
        /\ stage' = "running" => NoErrorTo(p)
        /\ stage' = "failing" => FailsOn(guest, Fed(p))
    BY <1>1, <1>2, <1>3, <2>1, <2>2, GiveKeeps
  <2>4. /\ UNCHANGED <<kind, guest, tracks, events, mask>> /\ N' = N
    BY <1>2, <1>3
  <2>5. Mentioned' = Mentioned
    BY <2>4 DEF Mentioned
  <2>6. \A x \in Mentioned' : x \in given' <=> x \in FedOf(kind, events, mask, p)
    BY <2>3, <2>5 DEF Fed
  <2>7. ~tracks => penIsDown' = PenOf(kind, events, mask)[p]
    BY <2>2, <2>3, Zenon
  <2>8. stage' = "running" => \A q \in 0 .. p : ~FailsOn(guest, FedOf(kind, events, mask, q))
    BY <2>3 DEF NoErrorTo, Fed
  <2>9. stage' = "failing" => FailsOn(guest, FedOf(kind, events, mask, p))
    BY <2>3 DEF Fed
  <2>10. QED
    BY <1>3, <2>3, <2>4, <2>6, <2>7, <2>8, <2>9, Zenon DEF GivenSoFar, Fed
<1>4. CASE GetEvent
  <2>1. CASE Deliverable # {}
    <3>1. Give(Min(Deliverable)) /\ penIsDown' = IsDown(Min(Deliverable)) /\ call' = call
      BY <1>4, <2>1, Zenon DEF GetEvent
    <3>2. call' = "none"
      BY <1>2, <1>4, <3>1
    <3>3. QED
      BY <1>3, <1>4, <2>1, <3>1, <3>2
  <2>2. CASE Deliverable = {}
    <3>1. ~replaying'
      BY <1>4, <2>2 DEF GetEvent
    <3>2. QED
      BY <3>1 DEF GivenSoFar, Live
  <2>3. QED
    BY <2>1, <2>2
<1>5. CASE GetPen
  <2>0. tracks
    BY <1>5 DEF GetPen, GuestOK
  <2>1. CASE Deliverable # {} /\ kind[events[Min(Deliverable)]] # "key"
    <3>1. Give(Min(Deliverable)) /\ call' = call
      BY <1>5, <2>1, Zenon DEF GetPen
    <3>2. call' = "none"
      BY <1>2, <1>5, <3>1
    <3>3. QED
      BY <1>3, <1>5, <2>0, <2>1, <3>1, <3>2
  <2>2. CASE ~(Deliverable # {} /\ kind[events[Min(Deliverable)]] # "key")
    <3>1. /\ index' = IF Deliverable = {} THEN N ELSE index
          /\ UNCHANGED <<given, stage, call, tracks, kind, guest, events, mask>>
      BY <1>5, <2>2 DEF GetPen
    <3>2. /\ index' \in 0 .. N /\ NoErrorTo(index')
          /\ \A x \in Mentioned : x \in Fed(index') <=> x \in Fed(index)
      <4>1. CASE Deliverable = {}
        <5>1. N \in index .. N /\ \A p \in Deliverable : N < p
          BY <1>1, <1>2, <1>5, <4>1
        <5>2. NoErrorTo(N) /\ \A x \in Mentioned : x \in Fed(N) <=> x \in Fed(index)
          BY <1>1, <1>2, <1>5, <5>1, NoErrorBefore
        <5>3. index' = N /\ N \in 0 .. N
          BY <1>1, <3>1, <4>1
        <5>4. QED
          BY <5>2, <5>3
      <4>2. CASE Deliverable # {}
        BY <1>2, <1>5, <3>1, <4>2
      <4>3. QED
        BY <4>1, <4>2
    <3>3. Mentioned' = Mentioned
      BY <3>1 DEF Mentioned
    <3>4. \A x \in Mentioned' : x \in given' <=> x \in FedOf(kind, events, mask, index')
      BY <1>2, <1>5, <3>1, <3>2, <3>3 DEF Fed
    <3>5. \A q \in 0 .. index' : ~FailsOn(guest, FedOf(kind, events, mask, q))
      BY <3>2 DEF NoErrorTo, Fed
    <3>6. stage' = "running" /\ call' = "none" /\ tracks' /\ N' = N
      BY <1>2, <1>5, <2>0, <3>1 DEF N
    <3>7. QED
      BY <3>1, <3>2, <3>4, <3>5, <3>6, Zenon DEF GivenSoFar, Fed
  <2>3. QED
    BY <2>1, <2>2
<1>6. CASE FirstError
  <2>1. stage' = "failed"
    BY <1>6 DEF FirstError, ErrorOccurred
  <2>2. QED
    BY <2>1 DEF GivenSoFar, Live
<1>7. CASE Calls
  <2>1. StartAgain \/ MinimizationPassComplete => loadState' \/ ~Live'
    <3>1. CASE StartAgain
      BY <3>1 DEF StartAgain
    <3>2. CASE MinimizationPassComplete
      <4>1. \/ /\ UNCHANGED <<replaying, loadState, stage>> /\ call # "none"
            \/ loadState'
        BY <3>2 DEF MinimizationPassComplete, CallStep, device
      <4>2. ~Live \/ loadState'
        BY <4>1 DEF GivenSoFar
      <4>3. QED
        BY <4>1, <4>2 DEF Live
    <3>3. QED
      BY <3>1, <3>2
  <2>2. CASE ~StartAgain /\ ~MinimizationPassComplete
    <3>1. UNCHANGED <<replaying, loadState, stage>> /\ call # "none"
      BY <1>7, <2>2 DEF Calls, NoErrorOccurred, SplitAndStartAgain, DisableAndStartAgain,
        NextSubRange, CallStep, device, replay
    <3>2. ~Live'
      BY <3>1 DEF GivenSoFar, Live
    <3>3. QED
      BY <3>2 DEF GivenSoFar
  <2>3. QED
    BY <2>1, <2>2 DEF GivenSoFar, Live
<1>8. CASE LoadState
  <2>1. /\ UNCHANGED <<program, list, replaying, index, penIsDown, call>>
        /\ loadState /\ call = "none" /\ given' = {} /\ stage' = "running"
    BY <1>8 DEF LoadState, replay
  <2>2. SUFFICES ASSUME replaying PROVE GivenSoFar'
    BY <2>1 DEF GivenSoFar, Live
  <2>3. index' = 0 /\ penIsDown' = FALSE
    BY <2>1, <2>2 DEF Settled, SearchInv, FlagTypes
  <2>4. FedOf(kind, events, mask, 0) = {} /\ PenOf(kind, events, mask)[0] = FALSE
    <3>1. Len(events) \in Nat /\ mask \in [1 .. Len(events) -> BOOLEAN]
      BY <1>1, ListFacts DEF ListTypes, N
    <3>2. Follows(PenOf(kind, events, mask), kind, events, mask)
      BY <3>1, PenIs
    <3>3. PenOf(kind, events, mask)[0] = FALSE
      BY <3>2, Zenon DEF Follows
    <3>4. FedOf(kind, events, mask, 0) = {}
      BY <3>1, FedMore
    <3>5. QED
      BY <3>3, <3>4
  <2>6. \A q \in 0 .. 0 : ~FailsOn(guest, FedOf(kind, events, mask, q))
    BY <2>4 DEF GuestOK
  <2>7. index' \in 0 .. N' /\ N' = N
    BY <1>1, <2>1, <2>3 DEF N
  <2>8. \A x \in Mentioned' : x \in given' <=> x \in FedOf(kind, events, mask, 0)
    BY <2>1, <2>4
  <2>9. penIsDown' = PenOf(kind, events, mask)[0]
    BY <2>3, <2>4, Zenon
  <2>10. UNCHANGED <<kind, guest, tracks, events, mask>>
    BY <2>1
  <2>11. QED
    BY <2>1, <2>3, <2>6, <2>7, <2>8, <2>9, <2>10 DEF GivenSoFar, Fed
<1>9. CASE Stop
  BY <1>9 DEF Stop, GivenSoFar, Live
<1>10. CASE WakeUp
  BY <1>10 DEF WakeUp, Settled
<1>11. CASE SecondError \/ FallAsleep
  BY <1>11 DEF SecondError, FallAsleep
<1>12. QED
  BY <1>4, <1>5, <1>6, <1>7, <1>8, <1>9, <1>10, <1>11 DEF Next, CPU

-----------------------------------------------------------------------------
(* What the ranges tested so far have shown                                *)

InRange(t, p) == t # <<>> /\ Last(t).begin <= p /\ p < Last(t).end
WithRange(m, t, n) == [p \in 1 .. n |-> m[p] \/ InRange(t, p)]

\* The list without the event at p does not make the guest fail; so with every
\* event before place b, pen ups apart, if none of them is left out.
AllBut(p, n) == [q \in 1 .. n |-> q # p]
Needed(g, k, e, p) == ~ErrsOf(g, k, e, AllBut(p, Len(e)))
NoneOut(k, e, m, b) == \A q \in 1 .. Len(e) : q < b /\ k[e[q]] # "up" => m[q]
AllNeeded(g, k, e, b) == \A p \in 1 .. Len(e) : p < b /\ k[e[p]] # "up" => Needed(g, k, e, p)
NeededBelow(g, k, e, m, b) == NoneOut(k, e, m, b) => AllNeeded(g, k, e, b)

\* The range under test is left out, and is worth a run.
RangeOut(k, e, m, t) ==
  /\ \A p \in 1 .. Len(e) : InRange(t, p) => ~m[p]
  /\ \E p \in 1 .. Len(e) : InRange(t, p) /\ k[e[p]] # "up"

\* A range of one is not split: it is never checked, except for a moment.
SplitOnce(t, c) ==
  \A i \in 1 .. Len(t) :
    t[i].checked => Size(t[i]) > 1 \/ (i = Len(t) /\ c = "SplitAndStartAgain")

ErrorLeft ==
  /\ call = "NextSubRange" => Errs(mask)
  /\ call = "NoErrorOccurred" => ~Errs(mask)
  /\ Errs(WithRange(mask, levels, N))
  /\ PlacesOf(kind, events, AllOf(events)) = 1 .. N

LastPass ==
  passNumber = kLastPass =>
    /\ Len(levels) <= 1 /\ call \notin Looking \cup {"NoErrorOccurred"}
    /\ call # "MinimizationPassComplete" => mask = AllOf(events)
    /\ N > 1 => AllNeeded(guest, kind, events, N + 1)

\* What each of the functions may rely on, before the last pass.
BeforeLast(c) ==
  /\ c = "MinimizationPassComplete" => NeededBelow(guest, kind, events, mask, N + 1)
  /\ levels # <<>> => NeededBelow(guest, kind, events, mask, Top.begin)
  /\ c = "NextSubRange" \/ (c = "SplitAndStartAgain" /\ Size(Top) = 1) =>
       NeededBelow(guest, kind, events, mask, Top.end)
  /\ SplitOnce(levels, c)
  /\ c \in {"StartAgain", "none", "NoErrorOccurred"} /\ levels # <<>> =>
       RangeOut(kind, events, mask, levels)
RangesTried == passNumber # kLastPass /\ N > 1 => BeforeLast(call)

Searched == ErrorLeft /\ LastPass /\ RangesTried

(* Steps of the replay and of the user.                                    *)
LEMMA SearchedStays ==
  ASSUME Searched, UNCHANGED <<program, list, levels, passNumber>>,
         \/ call' = call
         \/ call \in {"none", "StartAgain"} /\ call' = "none"
         \/ call = "none" /\ call' = "NoErrorOccurred" /\ ~Errs(mask) /\ passNumber # kLastPass
  PROVE  Searched'
<1>1. UNCHANGED <<kind, guest, tracks, events, mask, levels, passNumber>> /\ N' = N /\ Top' = Top
  BY DEF program, list, N, Top
<1>2. ErrorLeft'
  BY <1>1 DEF Searched, ErrorLeft, Errs
<1>3. LastPass'
  BY <1>1 DEF Searched, LastPass, Looking
<1>4. ASSUME passNumber # kLastPass, N > 1 PROVE BeforeLast(call)'
  <2>1. BeforeLast(call)
    BY <1>4 DEF Searched, RangesTried
  <2>2. SplitOnce(levels, call')
    BY <2>1 DEF BeforeLast, SplitOnce
  <2>3. QED
    BY <1>1, <2>1, <2>2 DEF BeforeLast
<1>5. QED
  BY <1>1, <1>2, <1>3, <1>4 DEF Searched, RangesTried

(* The range, and the masks that agree with each other.                    *)
LEMMA MaskWithRange ==
  ASSUME NEW n \in Nat, NEW m \in [1 .. n -> BOOLEAN], NEW t,
         \A p \in 1 .. n : InRange(t, p) => m[p]
  PROVE  WithRange(m, t, n) = m
<1>1. \A p \in 1 .. n : (m[p] \/ InRange(t, p)) = m[p]
  <2>1. ASSUME NEW p \in 1 .. n PROVE (m[p] \/ InRange(t, p)) = m[p]
    <3>1. m[p] \in BOOLEAN /\ InRange(t, p) \in BOOLEAN /\ (InRange(t, p) => m[p])
      BY DEF InRange
    <3>2. QED
      BY <3>1
  <2>2. QED
    BY <2>1
<1>2. m = [p \in 1 .. n |-> m[p]]
  OBVIOUS
<1>3. QED
  BY <1>1, <1>2, Zenon DEF WithRange

LEMMA RangeIs ==
  ASSUME ListTypes, SearchTypes, levels # <<>>
  PROVE  /\ \A p \in 1 .. N : InRange(levels, p) <=> Top.begin <= p /\ p < Top.end
         /\ \A p \in 1 .. N : InCurrentRange(p) <=> InRange(levels, p)
BY DEF InRange, InCurrentRange, Top

LEMMA SameBelow ==
  ASSUME NEW g, NEW k, NEW e, NEW m, NEW o, NEW b,
         NeededBelow(g, k, e, m, b), \A q \in 1 .. Len(e) : q < b /\ o[q] => m[q]
  PROVE  NeededBelow(g, k, e, o, b)
BY DEF NeededBelow, NoneOut

(* The guest fails: at the end of the list, or before.                     *)
LEMMA ErrorSearched ==
  ASSUME SearchInv, Settled, GivenSoFar, Searched, FirstError
  PROVE  Searched'
<1> USE DEF program, list, search
<1>1. /\ ListTypes /\ SearchTypes /\ N \in Nat /\ N = Len(events) /\ Len(events) \in Nat
      /\ mask \in [1 .. Len(events) -> BOOLEAN] /\ index \in 0 .. Len(kind) /\ fgIsOn \in BOOLEAN
  BY ListFacts DEF SearchInv, FlagTypes, ListTypes, N
<1>2. stage = "failing" /\ call = "none" /\ UNCHANGED <<kind, guest, tracks, events>> /\ N' = N
  BY DEF FirstError, ErrorOccurred, N
<1>3. CASE ~fgIsOn
  <2>1. UNCHANGED <<program, list, levels, passNumber, call>>
    BY <1>3 DEF FirstError, ErrorOccurred
  <2>2. QED
    BY <2>1, SearchedStays
<1>4. ASSUME fgIsOn
      PROVE  /\ index \in 0 .. N /\ FailsOn(guest, Fed(index)) /\ levels # <<>>
             /\ UNCHANGED passNumber
             /\ passNumber # kLastPass /\ N > 1 => /\ BeforeLast("none")
                                                   /\ RangeOut(kind, events, mask, levels)
  <2>1. Live
    BY <1>2, <1>4 DEF Settled, Live
  <2>2. index \in 0 .. N /\ FailsOn(guest, Fed(index))
    BY <1>2, <2>1 DEF GivenSoFar
  <2>3. levels # <<>>
    BY <1>2, <1>4 DEF SearchInv, RangeFound, On
  <2>4. UNCHANGED passNumber
    BY <1>4 DEF FirstError, ErrorOccurred
  <2>5. passNumber # kLastPass /\ N > 1 => BeforeLast("none") /\ RangeOut(kind, events, mask, levels)
    BY <1>2, <2>3 DEF Searched, RangesTried, BeforeLast
  <2>6. QED
    BY <2>2, <2>3, <2>4, <2>5
<1>5. ASSUME fgIsOn, NEW b, NEW p \in 1 .. N, InRange(levels, p), kind[events[p]] # "up",
             NEW o, p < b, ~o[p]
      PROVE  NeededBelow(guest, kind, events, o, b)
  BY <1>1, <1>5 DEF NeededBelow, NoneOut
<1>6. CASE fgIsOn /\ index >= N
  <2>1. index = N /\ call' = "NextSubRange" /\ UNCHANGED <<mask, levels, passNumber>>
    <3>1. index = N /\ ~(index < N)
      BY <1>1, <1>4, <1>6
    <3>2. QED
      BY <1>6, <3>1 DEF FirstError, ErrorOccurred
  <2>2. Top' = Top /\ UNCHANGED <<kind, guest, events, mask, levels, passNumber>> /\ N' = N
    BY <1>2, <2>1 DEF Top
  <2>3. ErrorLeft'
    <3>1. Errs(mask)
      BY <1>1, <1>4, <1>6, <2>1 DEF Errs, ErrsOf, Fed
    <3>2. QED
      BY <2>1, <2>2, <3>1 DEF Searched, ErrorLeft, Errs
  <2>4. LastPass'
    BY <1>2, <2>1, <2>2 DEF Searched, LastPass, Looking
  <2>5. ASSUME passNumber # kLastPass, N > 1 PROVE BeforeLast(call)'
    <3>1. BeforeLast("none") /\ RangeOut(kind, events, mask, levels)
      BY <1>4, <1>6, <2>5
    <3>2. PICK p \in 1 .. N : InRange(levels, p) /\ kind[events[p]] # "up"
      BY <1>1, <3>1 DEF RangeOut
    <3>3. ~mask[p] /\ p < Top.end
      BY <1>1, <3>1, <3>2 DEF RangeOut, InRange, Top
    <3>4. NeededBelow(guest, kind, events, mask, Top.end)
      BY <1>5, <1>6, <3>2, <3>3
    <3>5. SplitOnce(levels, "NextSubRange")
      BY <3>1 DEF BeforeLast, SplitOnce
    <3>6. QED
      BY <2>1, <2>2, <3>1, <3>4, <3>5 DEF BeforeLast
  <2>6. QED
    BY <2>2, <2>3, <2>4, <2>5 DEF Searched, RangesTried
<1>7. CASE fgIsOn /\ index < N
  <2>1. /\ EnableEvents(index + 1, N + 1, FALSE) /\ levels' = <<>>
        /\ call' = "MinimizationPassComplete" /\ UNCHANGED passNumber
    BY <1>7 DEF FirstError, ErrorOccurred, FirstUnplayed
  <2>2. index \in 0 .. N
    BY <1>4, <1>7
  <2>3. /\ mask' = [p \in 1 .. N |-> IF index + 1 <= p /\ p < N + 1 THEN FALSE ELSE mask[p]]
        /\ \A p \in 1 .. N : mask'[p] = IF index + 1 <= p /\ p < N + 1 THEN FALSE ELSE mask[p]
    BY <2>1 DEF EnableEvents
  <2>4. mask' \in [1 .. N -> BOOLEAN]
    BY <1>1, <2>3, MaskTyped
  <2>5. ErrsOf(guest, kind, events, mask')
    <3>1. Agree(kind, events, mask, mask', index)
      <4>1. ASSUME NEW p \in 1 .. index PROVE mask'[p] = mask[p]
        <5>1. p \in 1 .. N /\ ~(index + 1 <= p /\ p < N + 1)
          BY <1>1, <2>2
        <5>2. QED
          BY <2>3, <5>1
      <4>2. QED
        BY <4>1 DEF Agree
    <3>2. index \in 0 .. index /\ index \in 0 .. Len(events)
      BY <1>1, <2>2
    <3>3. \A x \in 0 .. index : FedOf(kind, events, mask, x) = FedOf(kind, events, mask', x)
      BY <1>1, <2>4, <3>1, <3>2, SameMasks
    <3>4. FailsOn(guest, FedOf(kind, events, mask', index))
      BY <1>4, <1>7, <3>2, <3>3 DEF Fed
    <3>5. QED
      BY <3>2, <3>4 DEF ErrsOf
  <2>6. WithRange(mask', levels', N) = mask'
    BY <1>1, <2>1, <2>4, MaskWithRange DEF InRange
  <2>7. ErrorLeft'
    BY <1>2, <2>1, <2>5, <2>6 DEF Searched, ErrorLeft, Errs
  <2>8. LastPass'
    BY <1>2, <2>1 DEF Searched, LastPass, Looking
  <2>9. ASSUME passNumber # kLastPass, N > 1 PROVE BeforeLast(call)'
    <3>1. RangeOut(kind, events, mask, levels)
      BY <1>4, <1>7, <2>9
    <3>2. PICK p \in 1 .. N : InRange(levels, p) /\ kind[events[p]] # "up"
      BY <1>1, <3>1 DEF RangeOut
    <3>3. ~mask[p]
      BY <1>1, <3>1, <3>2 DEF RangeOut
    <3>4. ~mask'[p] /\ p < N + 1
      BY <1>1, <2>3, <3>3
    <3>5. NeededBelow(guest, kind, events, mask', N + 1)
      BY <1>5, <1>7, <3>2, <3>4
    <3>6. SplitOnce(levels', call')
      BY <2>1 DEF SplitOnce
    <3>7. QED
      BY <1>2, <2>1, <3>5, <3>6 DEF BeforeLast
  <2>10. QED
    BY <1>2, <2>1, <2>7, <2>8, <2>9 DEF Searched, RangesTried
<1>8. QED
  BY <1>1, <1>3, <1>4, <1>6, <1>7

(* What a function of the search finds.                                    *)
LEMMA SearchFacts ==
  ASSUME SearchInv
  PROVE  /\ ListTypes /\ SearchTypes /\ N \in Nat /\ N = Len(events) /\ Len(events) \in Nat
         /\ mask \in [1 .. N -> BOOLEAN] /\ Stacked(levels, N) /\ RestKept /\ RangeFound
BY ListFacts DEF SearchInv, ListTypes, N

\* The list and the stack, as the steps that change neither the program nor
\* the list of events leave them.
LEMMA SearchedSteps ==
  ASSUME Searched, UNCHANGED <<kind, guest, events, passNumber>>, passNumber # kLastPass,
         call' = "NextSubRange" => ErrsOf(guest, kind, events, mask'),
         call' # "NoErrorOccurred",
         ErrsOf(guest, kind, events, WithRange(mask', levels', N)),
         N > 1 => BeforeLast(call)'
  PROVE  Searched'
<1>1. N' = N
  BY DEF N
<1>2. ErrorLeft'
  BY <1>1 DEF Searched, ErrorLeft, Errs
<1>3. QED
  BY <1>1, <1>2 DEF Searched, LastPass, RangesTried

(* No error: the range is put back, and checked.                           *)
LEMMA NoErrorSearched ==
  ASSUME SearchInv, Searched, NoErrorOccurred
  PROVE  Searched'
<1>1. /\ ListTypes /\ SearchTypes /\ N \in Nat /\ N = Len(events) /\ Len(events) \in Nat
      /\ mask \in [1 .. N -> BOOLEAN] /\ Stacked(levels, N) /\ RestKept
  BY SearchFacts
<1>2. /\ call = "NoErrorOccurred" /\ passNumber # kLastPass /\ levels # <<>> /\ ~Errs(mask)
      /\ UNCHANGED <<kind, guest, tracks, events, passNumber>> /\ N' = N
  BY DEF NoErrorOccurred, CallStep, program, SearchInv, RangeFound, CallNames, Searched,
    LastPass, ErrorLeft, N
<1>3. /\ call' = "SplitAndStartAgain" /\ mask' = [p \in 1 .. N |-> InCurrentRange(p) \/ mask[p]]
      /\ levels' = [levels EXCEPT ![Len(levels)].checked = TRUE]
  BY <1>2 DEF NoErrorOccurred
<1> DEFINE n == Len(levels)
           t == [Top EXCEPT !.checked = TRUE]
<1>4. /\ n \in Nat \ {0} /\ n \in 1 .. n /\ Top = levels[n] /\ Top \in LevelSet
      /\ Top.begin \in 1 .. N + 1 /\ Top.end \in 1 .. N + 1
  BY <1>1, <1>2, TopFacts
<1>5. t \in LevelSet /\ t.begin = Top.begin /\ t.end = Top.end
  BY <1>4 DEF LevelSet
<1>6. levels' = [levels EXCEPT ![n] = t]
  BY <1>3, <1>4
<1> HIDE DEF t
<1>7. /\ Len(levels') = n /\ levels' \in Seq(LevelSet)
      /\ \A i \in 1 .. n : levels'[i] = IF i = n THEN t ELSE levels[i]
  <2>1. levels \in Seq(LevelSet)
    BY <1>1 DEF SearchTypes
  <2>2. QED
    BY <1>4, <1>5, <1>6, <2>1, ExceptSeq
<1>8. levels' # <<>> /\ Last(levels') = t /\ Top' = t
  BY <1>4, <1>7, EmptySeq DEF Last, Top
<1>9. \A p \in 1 .. N : InRange(levels', p) = InRange(levels, p)
  BY <1>2, <1>5, <1>8 DEF InRange, Top
<1>10. ASSUME NEW p \in 1 .. N PROVE mask'[p] = (InRange(levels, p) \/ mask[p])
  BY <1>3, Zenon DEF InRange, InCurrentRange, Top
<1>11. WithRange(mask', levels', N) = WithRange(mask, levels, N)
  <2>1. ASSUME NEW p \in 1 .. N
        PROVE  (mask'[p] \/ InRange(levels', p)) = (mask[p] \/ InRange(levels, p))
    <3>1. /\ mask'[p] = (InRange(levels, p) \/ mask[p])
          /\ InRange(levels', p) = InRange(levels, p)
      BY <1>9, <1>10
    <3>2. mask[p] \in BOOLEAN /\ InRange(levels, p) \in BOOLEAN
      BY <1>1 DEF InRange
    <3>3. QED
      BY <3>1, <3>2, Zenon
  <2>2. QED
    BY <2>1, Zenon DEF WithRange
<1>12. ErrsOf(guest, kind, events, WithRange(mask', levels', N))
  BY <1>11 DEF Searched, ErrorLeft, Errs
<1>13. ASSUME N > 1 PROVE BeforeLast(call)'
  <2>1. /\ NeededBelow(guest, kind, events, mask, Top.begin)
        /\ SplitOnce(levels, "NoErrorOccurred") /\ RangeOut(kind, events, mask, levels)
    BY <1>2, <1>13 DEF Searched, RangesTried, BeforeLast
  <2>2. \A q \in 1 .. Len(events) : q < Top.begin /\ mask'[q] => mask[q]
    <3>1. ASSUME NEW q \in 1 .. N, q < Top.begin, mask'[q] PROVE mask[q]
      <4>1. ~InRange(levels, q)
        BY <1>4, <3>1 DEF InRange, Top
      <4>2. InRange(levels, q) \/ mask[q]
        BY <1>10, <3>1
      <4>3. QED
        BY <4>1, <4>2
    <3>2. QED
      BY <1>1, <3>1
  <2>3. NeededBelow(guest, kind, events, mask', Top.begin)
    BY <2>1, <2>2, SameBelow
  <2>4. ASSUME Size(Top) = 1 PROVE NeededBelow(guest, kind, events, mask', Top.end)
    <3>1. Top.end = Top.begin + 1
      BY <1>4, <2>4 DEF Size
    <3>2. SUFFICES ASSUME NoneOut(kind, events, mask', Top.end)
                   PROVE  AllNeeded(guest, kind, events, Top.end)
      BY DEF NeededBelow
    <3>3. AllNeeded(guest, kind, events, Top.begin)
      <4>1. NoneOut(kind, events, mask', Top.begin)
        BY <1>1, <1>4, <3>1, <3>2 DEF NoneOut
      <4>2. QED
        BY <2>3, <4>1 DEF NeededBelow
    <3>4. ASSUME NEW p \in 1 .. Len(events), p = Top.begin, kind[events[p]] # "up"
          PROVE  Needed(guest, kind, events, p)
      <4> DEFINE o == AllBut(p, Len(events))
      <4>1. o \in [1 .. Len(events) -> BOOLEAN] /\ \A q \in 1 .. Len(events) : o[q] = (q # p)
        BY DEF AllBut
      <4> HIDE DEF o
      <4>2. ASSUME NEW q \in 1 .. Len(events), kind[events[q]] # "up" PROVE mask[q] = o[q]
        <5>1. mask[q] \in BOOLEAN /\ o[q] = (q # p)
          BY <1>1, <4>1
        <5>2. CASE q < p
          <6>1. q < Top.begin /\ q < Top.end
            BY <1>4, <3>1, <3>4, <5>2
          <6>2. mask'[q]
            BY <3>2, <4>2, <6>1 DEF NoneOut
          <6>3. mask[q] /\ q # p
            BY <2>2, <5>2, <6>1, <6>2
          <6>4. QED
            BY <5>1, <6>3
        <5>3. CASE q = p
          <6>1. InRange(levels, p)
            BY <1>2, <1>4, <3>1, <3>4 DEF InRange, Top
          <6>2. ~mask[p]
            BY <2>1, <6>1 DEF RangeOut
          <6>3. QED
            BY <5>1, <5>3, <6>2
        <5>4. CASE q > p
          <6>1. q \in Top.end .. N
            BY <1>1, <1>4, <3>1, <3>4, <5>4
          <6>2. mask[q] /\ q # p
            BY <1>1, <1>2, <5>4, <6>1 DEF RestKept
          <6>3. QED
            BY <5>1, <6>2
        <5>5. QED
          BY <1>1, <1>4, <5>2, <5>3, <5>4
      <4>3. Agree(kind, events, mask, o, Len(events))
        BY <4>2 DEF Agree
      <4>4. ErrsOf(guest, kind, events, mask) <=> ErrsOf(guest, kind, events, o)
        BY <1>1, <4>1, <4>3, SameErrs
      <4>5. QED
        BY <1>2, <4>4 DEF Errs, Needed, o
    <3>5. QED
      BY <1>1, <1>4, <3>1, <3>3, <3>4 DEF AllNeeded
  <2>5. SplitOnce(levels', "SplitAndStartAgain")
    BY <1>7, <2>1 DEF SplitOnce
  <2>6. Size(t) = Size(Top)
    BY <1>5 DEF Size
  <2>7. /\ NeededBelow(guest, kind, events, mask', t.begin)
        /\ Size(t) = 1 => NeededBelow(guest, kind, events, mask', t.end)
    BY <1>5, <2>3, <2>4, <2>6
  <2>8. QED
    BY <1>2, <1>3, <1>8, <2>5, <2>7 DEF BeforeLast
<1>14. QED
  BY <1>2, <1>3, <1>12, <1>13, SearchedSteps

\* Nothing from the top of the stack on has been left out.
LEMMA RangeInMask ==
  ASSUME SearchInv, call \in Looking, NEW t, t # <<>> => Last(t).begin >= Top.begin,
         t # <<>> => Last(t).begin \in Nat
  PROVE  WithRange(mask, t, N) = mask
<1>1. /\ ListTypes /\ SearchTypes /\ N \in Nat /\ mask \in [1 .. N -> BOOLEAN] /\ RestKept /\ levels # <<>>
  BY SearchFacts DEF RangeFound, CallNames, Looking
<1>2. Top.begin \in 1 .. N + 1
  BY <1>1, TopFacts
<1>3. ASSUME NEW p \in 1 .. N, InRange(t, p) PROVE mask[p]
  <2>1. p \in Top.begin .. N
    BY <1>1, <1>2, <1>3 DEF InRange
  <2>2. QED
    BY <1>1, <2>1 DEF RestKept
<1>4. QED
  BY <1>1, <1>3, MaskWithRange

\* The range is split in two, or has been given up.
LEMMA SplitSearched ==
  ASSUME SearchInv, Searched, SplitAndStartAgain
  PROVE  Searched'
<1>1. /\ ListTypes /\ SearchTypes /\ N \in Nat /\ N = Len(events) /\ Len(events) \in Nat
      /\ mask \in [1 .. N -> BOOLEAN] /\ Stacked(levels, N) /\ RestKept
  BY SearchFacts
<1>2. /\ call = "SplitAndStartAgain" /\ passNumber # kLastPass /\ levels # <<>>
      /\ UNCHANGED <<kind, guest, tracks, events, mask, passNumber>> /\ N' = N
  BY DEF SplitAndStartAgain, CallStep, program, list, SearchInv, RangeFound, CallNames, Searched,
    LastPass, Looking, N
<1> DEFINE n == Len(levels)
<1>3. /\ n \in Nat \ {0} /\ n \in 1 .. n /\ Top = levels[n] /\ Top = Last(levels)
      /\ Top.begin \in 1 .. N + 1 /\ Top.end \in 1 .. N + 1 /\ Top.checked \in BOOLEAN
      /\ levels \in Seq(LevelSet) /\ (N > 0 => Top.begin < Top.end)
  BY <1>1, <1>2, TopFacts DEF Top, SearchTypes
<1>4. call \in Looking
  BY <1>2 DEF Looking
<1>5. WithRange(mask, levels, N) = mask
  <2>1. Last(levels).begin >= Top.begin /\ Last(levels).begin \in Nat
    BY <1>3
  <2>2. QED
    BY <1>4, <2>1, RangeInMask
<1>6. ErrsOf(guest, kind, events, mask)
  BY <1>5 DEF Searched, ErrorLeft, Errs
<1>7. ASSUME N > 1
      PROVE  /\ NeededBelow(guest, kind, events, mask, Top.begin)
             /\ Size(Top) = 1 => NeededBelow(guest, kind, events, mask, Top.end)
             /\ SplitOnce(levels, "SplitAndStartAgain")
  BY <1>2, <1>7 DEF Searched, RangesTried, BeforeLast
<1>8. CASE ~CanSplit
  <2>1. /\ levels' = [i \in DOMAIN levels |-> [levels[i] EXCEPT !.checked = FALSE]]
        /\ call' = "NextSubRange"
    BY <1>8 DEF SplitAndStartAgain
  <2>2. DOMAIN levels = 1 .. n
    BY <1>3, LenProperties
  <2>3. \A i \in 1 .. n : levels[i] \in LevelSet
    BY <1>3, ElementOfSeq
  <2>4. /\ Len(levels') = n /\ levels' # <<>>
        /\ \A i \in 1 .. n : /\ levels'[i].begin = levels[i].begin /\ levels'[i].end = levels[i].end
                             /\ ~levels'[i].checked
    <3>1. \A i \in 1 .. n : levels'[i] = [levels[i] EXCEPT !.checked = FALSE]
      BY <2>1, <2>2
    <3>2. \A i \in 1 .. n : /\ levels'[i].begin = levels[i].begin /\ levels'[i].end = levels[i].end
                            /\ ~levels'[i].checked
      BY <2>3, <3>1 DEF LevelSet
    <3>3. DOMAIN levels' = 1 .. n
      BY <2>1, <2>2
    <3>4. Len(levels') = n
      BY <1>3, <3>3
    <3>5. levels' # <<>>
      BY <1>3, <3>4
    <3>6. QED
      BY <3>2, <3>4, <3>5
  <2>5. Last(levels').begin = Top.begin /\ Last(levels').end = Top.end
    BY <1>3, <2>4 DEF Last
  <2>6. WithRange(mask, levels', N) = mask
    <3>1. Last(levels').begin >= Top.begin /\ Last(levels').begin \in Nat
      BY <1>3, <2>5
    <3>2. QED
      BY <1>4, <3>1, RangeInMask
  <2>7. ASSUME N > 1 PROVE BeforeLast(call)'
    <3>1. Size(Top) = 1
      BY <1>1, <1>3, <1>8, <2>7 DEF Size, CanSplit
    <3>2. /\ NeededBelow(guest, kind, events, mask, Top.begin)
          /\ NeededBelow(guest, kind, events, mask, Top.end)
      BY <1>7, <2>7, <3>1
    <3>3. SplitOnce(levels', "NextSubRange")
      BY <2>4 DEF SplitOnce
    <3>4. Top'.begin = Top.begin /\ Top'.end = Top.end
      BY <2>5 DEF Top
    <3>5. QED
      BY <1>2, <2>1, <3>2, <3>3, <3>4 DEF BeforeLast
  <2>8. QED
    BY <1>2, <1>6, <2>1, <2>6, <2>7, SearchedSteps
<1>9. CASE CanSplit
  <2> DEFINE u == Half(Midpoint, Top.end)
             v == Half(Top.begin, Midpoint)
  <2>1. Top.begin + 1 < Top.end
    BY <1>3, <1>9 DEF CanSplit, Size
  <2>2. Midpoint \in 1 .. N + 1 /\ Top.begin < Midpoint /\ Midpoint < Top.end
    BY <1>1, <1>3, <2>1 DEF Midpoint
  <2>3. /\ u.begin = Midpoint /\ u.end = Top.end /\ v.begin = Top.begin /\ v.end = Midpoint
        /\ u.checked => Size(u) > 1
        /\ v.checked => Size(v) > 1
    BY <1>3, <2>2 DEF Half, Level, Size
  <2>4. u \in LevelSet /\ v \in LevelSet
    BY <1>1, <1>3, <2>2 DEF Half, Level, LevelSet
  <2>5. Halves = <<u, v>>
    BY DEF Halves
  <2> HIDE DEF u, v
  <2>6. levels' = Front(levels) \o <<u, v>> /\ Last(Halves) = v
    BY <1>9, <2>5 DEF SplitAndStartAgain, Last
  <2>7. /\ levels' # <<>> /\ Last(levels') = v /\ Len(levels') = n + 1 /\ levels'[n] = u
        /\ \A i \in 1 .. n - 1 : levels'[i] = levels[i]
    <3>1. /\ u.begin = v.end /\ u.end = Last(levels).end /\ v.begin = Last(levels).begin
          /\ u.begin < u.end /\ v.begin < v.end
      BY <1>3, <2>2, <2>3
    <3>2. levels \in Seq(LevelSet) /\ levels # <<>> /\ Stacked(levels, N)
      BY <1>1, <1>2, <1>3
    <3>3. QED
      BY <2>4, <2>6, <3>1, <3>2, StackSplit
  <2>8. call' \in Looking /\ (call' = "SplitAndStartAgain" => Size(v) > kMaxRange)
    BY <1>2, <1>9, <2>6, <2>3, <2>2, <1>3, kMaxRangeAssumption DEF SplitAndStartAgain, Looking, Size
  <2>9. WithRange(mask, levels', N) = mask
    <3>1. Last(levels').begin >= Top.begin /\ Last(levels').begin \in Nat
      BY <1>3, <2>3, <2>7
    <3>2. QED
      BY <1>4, <3>1, RangeInMask
  <2>10. ASSUME N > 1 PROVE BeforeLast(call)'
    <3>1. call' = "SplitAndStartAgain" => Size(v) # 1
      BY <1>3, <2>2, <2>3, <2>8, kMaxRangeAssumption DEF Size
    <3>2. SplitOnce(levels', call')
      <4>1. ASSUME NEW i \in 1 .. n + 1, levels'[i].checked PROVE Size(levels'[i]) > 1
        <5>1. CASE i = n
          BY <2>3, <2>7, <4>1, <5>1
        <5>2. CASE i = n + 1
          BY <1>3, <2>3, <2>7, <4>1, <5>2 DEF Last
        <5>3. CASE i \in 1 .. n - 1
          BY <1>3, <1>7, <2>7, <2>10, <4>1, <5>3 DEF SplitOnce
        <5>4. QED
          BY <1>3, <5>1, <5>2, <5>3
      <4>2. QED
        BY <2>7, <4>1 DEF SplitOnce
    <3>3. NeededBelow(guest, kind, events, mask, v.begin)
      BY <1>7, <2>3, <2>10
    <3>4. Top' = v /\ call' \in Looking
      BY <2>7, <2>8 DEF Top
    <3>5. QED
      BY <1>2, <3>1, <3>2, <3>3, <3>4 DEF BeforeLast, Looking
  <2>11. QED
    BY <1>2, <1>6, <2>8, <2>9, <2>10, SearchedSteps DEF Looking
<1>10. QED
  BY <1>8, <1>9

\* The range is left out, or is not worth a run.
LEMMA DisableSearched ==
  ASSUME SearchInv, Searched, DisableAndStartAgain
  PROVE  Searched'
<1>1. /\ ListTypes /\ SearchTypes /\ N \in Nat /\ N = Len(events) /\ Len(events) \in Nat
      /\ mask \in [1 .. N -> BOOLEAN] /\ Stacked(levels, N) /\ RestKept
  BY SearchFacts
<1>2. /\ call = "DisableAndStartAgain" /\ passNumber # kLastPass /\ levels # <<>>
      /\ UNCHANGED <<kind, guest, tracks, events, levels, passNumber>> /\ N' = N /\ Top' = Top
  BY DEF DisableAndStartAgain, CallStep, program, search, SearchInv, RangeFound, CallNames,
    Searched, LastPass, Looking, N, Top
<1>3. /\ Top = Last(levels) /\ Top.begin \in 1 .. N + 1 /\ Top.end \in 1 .. N + 1
      /\ N > 0 => Top.begin < Top.end
  BY <1>1, <1>2, TopFacts DEF Top
<1>4. WithRange(mask, levels, N) = mask
  <2>1. Last(levels).begin >= Top.begin /\ Last(levels).begin \in Nat
    BY <1>3
  <2>2. QED
    BY <1>2, <2>1, RangeInMask DEF Looking
<1>5. ErrsOf(guest, kind, events, mask)
  BY <1>4 DEF Searched, ErrorLeft, Errs
<1>6. ASSUME N > 1
      PROVE  /\ NeededBelow(guest, kind, events, mask, Top.begin)
             /\ SplitOnce(levels, "DisableAndStartAgain")
  BY <1>2, <1>6 DEF Searched, RangesTried, BeforeLast
<1>7. CASE Size(Top) = 1 /\ IsUp(Top.begin)
  <2>1. call' = "NextSubRange" /\ mask' = mask
    BY <1>7 DEF DisableAndStartAgain
  <2>2. ASSUME N > 1 PROVE BeforeLast(call)'
    <3>1. NeededBelow(guest, kind, events, mask, Top.end)
      <4>1. \A p \in 1 .. Len(events) : p < Top.end /\ kind[events[p]] # "up" => p < Top.begin
        BY <1>1, <1>3, <1>7 DEF Size, IsUp
      <4>2. \A p \in 1 .. Len(events) : p < Top.begin => p < Top.end
        BY <1>1, <1>3, <2>2
      <4>3. QED
        BY <1>6, <2>2, <4>1, <4>2 DEF NeededBelow, NoneOut, AllNeeded
    <3>2. SplitOnce(levels, "NextSubRange")
      BY <1>6, <2>2 DEF SplitOnce
    <3>3. QED
      BY <1>2, <1>6, <2>1, <2>2, <3>1, <3>2 DEF BeforeLast
  <2>3. QED
    BY <1>2, <1>4, <1>5, <2>1, <2>2, SearchedSteps
<1>8. CASE ~(Size(Top) = 1 /\ IsUp(Top.begin))
  <2>1. call' = "StartAgain" /\ EnableEvents(Top.begin, Top.end, FALSE)
    BY <1>8 DEF DisableAndStartAgain
  <2>2. /\ mask' = [p \in 1 .. N |-> IF Top.begin <= p /\ p < Top.end THEN FALSE ELSE mask[p]]
        /\ \A p \in 1 .. N : mask'[p] = IF Top.begin <= p /\ p < Top.end THEN FALSE ELSE mask[p]
    BY <2>1 DEF EnableEvents
  <2>3. \A p \in 1 .. N : InRange(levels, p) <=> Top.begin <= p /\ p < Top.end
    BY <1>2, <1>3 DEF InRange
  <2>4. WithRange(mask', levels, N) = WithRange(mask, levels, N)
    <3>1. ASSUME NEW p \in 1 .. N
          PROVE  (mask'[p] \/ InRange(levels, p)) = (mask[p] \/ InRange(levels, p))
      <4>1. CASE InRange(levels, p)
        BY <4>1
      <4>2. CASE ~InRange(levels, p)
        <5>1. mask'[p] = mask[p]
          BY <2>2, <2>3, <4>2
        <5>2. QED
          BY <5>1
      <4>3. QED
        BY <4>1, <4>2
    <3>2. QED
      BY <3>1, Zenon DEF WithRange
  <2>5. ErrsOf(guest, kind, events, WithRange(mask', levels', N))
    BY <1>2, <2>4 DEF Searched, ErrorLeft, Errs
  <2>6. ASSUME N > 1 PROVE BeforeLast(call)'
    <3>1. NeededBelow(guest, kind, events, mask', Top.begin)
      <4>1. \A q \in 1 .. Len(events) : q < Top.begin /\ mask'[q] => mask[q]
        BY <1>1, <1>3, <2>2
      <4>2. QED
        BY <1>6, <2>6, <4>1, SameBelow
    <3>2. \A p \in 1 .. Len(events) : InRange(levels, p) => ~mask'[p]
      BY <1>1, <2>2, <2>3
    <3>3. \E p \in 1 .. Len(events) : InRange(levels, p) /\ kind[events[p]] # "up"
      <4>1. Top.begin < Top.end /\ Top.begin \in 1 .. N /\ InRange(levels, Top.begin)
        BY <1>1, <1>3, <2>3, <2>6
      <4>2. CASE kind[events[Top.begin]] # "up"
        BY <1>1, <4>1, <4>2
      <4>3. CASE kind[events[Top.begin]] = "up"
        <5>1. Size(Top) # 1
          BY <1>8, <4>3 DEF IsUp
        <5>2. Top.begin + 1 < Top.end /\ Top.begin + 1 \in 1 .. N
          BY <1>1, <1>3, <4>1, <5>1 DEF Size
        <5>3. InRange(levels, Top.begin + 1)
          BY <1>3, <2>3, <5>2
        <5>4. PlacesOf(kind, events, AllOf(events)) = 1 .. Len(events)
          BY <1>1 DEF Searched, ErrorLeft
        <5>5. kind[events[Top.begin + 1]] # "up"
          <6> DEFINE b == Top.begin
          <6>1. b \in 1 .. Len(events) /\ b + 1 <= Len(events) /\ kind[events[b]] = "up"
            BY <1>1, <4>1, <4>3, <5>2
          <6> HIDE DEF b
          <6>2. kind[events[b + 1]] # "up"
            BY <1>1, <5>4, <6>1, UpAfterDown
          <6>3. QED
            BY <6>2 DEF b
        <5>6. QED
          BY <1>1, <5>2, <5>3, <5>5
      <4>4. QED
        BY <4>2, <4>3
    <3>4. SplitOnce(levels, "StartAgain")
      BY <1>6, <2>6 DEF SplitOnce
    <3>5. RangeOut(kind, events, mask', levels)
      BY <3>2, <3>3 DEF RangeOut
    <3>6. QED
      BY <1>2, <2>1, <3>1, <3>4, <3>5 DEF BeforeLast
  <2>7. QED
    BY <1>2, <2>1, <2>5, <2>6, SearchedSteps
<1>9. QED
  BY <1>7, <1>8

\* The next range to the right, or the end of the pass.
LEMMA NextRangeSearched ==
  ASSUME SearchInv, Searched, NextSubRange
  PROVE  Searched'
<1>1. /\ ListTypes /\ SearchTypes /\ N \in Nat /\ N = Len(events) /\ Len(events) \in Nat
      /\ mask \in [1 .. N -> BOOLEAN] /\ Stacked(levels, N) /\ RestKept
  BY SearchFacts
<1>2. /\ call = "NextSubRange" /\ levels # <<>> /\ levels' = Front(levels)
      /\ call' = IF levels' = <<>> THEN "MinimizationPassComplete"
                 ELSE IF Last(levels').checked \/ Size(Last(levels')) > kMaxRange
                 THEN "SplitAndStartAgain" ELSE "DisableAndStartAgain"
      /\ UNCHANGED <<kind, guest, tracks, events, mask, passNumber>> /\ N' = N
  BY DEF NextSubRange, CallStep, program, list, SearchInv, RangeFound, CallNames, N
<1> DEFINE n == Len(levels)
           r == Front(levels)
<1>3. /\ Top = Last(levels) /\ Top.begin \in 1 .. N + 1 /\ Top.end \in 1 .. N + 1
      /\ N > 0 => Top.begin < Top.end
  BY <1>1, <1>2, TopFacts DEF Top
<1>4. /\ n \in Nat \ {0} /\ Len(r) = n - 1 /\ \A i \in 1 .. n - 1 : r[i] = levels[i]
      /\ r \in Seq(LevelSet)
  BY <1>1, <1>2, StackTop DEF SearchTypes
<1>5. /\ r = <<>> <=> n = 1
      /\ r = <<>> => Top.end = N + 1
      /\ r # <<>> => Last(r).begin = Top.end
  BY <1>1, <1>2, <1>3, StackPopped DEF SearchTypes
<1>6. Errs(mask)
  BY <1>2 DEF Searched, ErrorLeft
<1> HIDE DEF r
<1>7. levels' = r
  BY <1>2 DEF r
<1>8. WithRange(mask, r, N) = mask
  <2>1. ASSUME NEW p \in 1 .. N, InRange(r, p) PROVE mask[p]
    <3>1. p \in Top.end .. N
      BY <1>1, <1>3, <1>5, <2>1 DEF InRange
    <3>2. QED
      BY <1>1, <1>2, <3>1 DEF RestKept
  <2>2. QED
    BY <1>1, <2>1, MaskWithRange
<1>9. call' \in {"MinimizationPassComplete"} \cup Looking
  BY <1>2 DEF Looking
<1>10. ErrsOf(guest, kind, events, WithRange(mask', levels', N))
  BY <1>2, <1>6, <1>7, <1>8 DEF Errs
<1>11. CASE passNumber # kLastPass
  <2>1. ASSUME N > 1 PROVE BeforeLast(call)'
    <3>1. NeededBelow(guest, kind, events, mask, Top.end) /\ SplitOnce(levels, "NextSubRange")
      BY <1>2, <1>11, <2>1 DEF Searched, RangesTried, BeforeLast
    <3>2. \A i \in 1 .. n - 1 : r[i].checked => Size(r[i]) > 1
      BY <1>4, <3>1 DEF SplitOnce
    <3>3. SplitOnce(r, call')
      BY <1>4, <3>2 DEF SplitOnce
    <3>4. CASE r = <<>>
      <4>1. call' = "MinimizationPassComplete" /\ NeededBelow(guest, kind, events, mask, N + 1)
        BY <1>2, <1>5, <1>7, <3>1, <3>4
      <4>2. QED
        BY <1>2, <1>7, <3>3, <3>4, <4>1 DEF BeforeLast
    <3>5. CASE r # <<>>
      <4>1. Last(r) = r[n - 1] /\ n - 1 \in 1 .. n - 1 /\ n - 1 \in Nat
        BY <1>4, <1>5, <3>5 DEF Last
      <4>2. Last(r).checked => Size(Last(r)) > 1
        BY <3>2, <4>1
      <4>3. call' = "SplitAndStartAgain" => Size(Last(r)) # 1
        BY <1>2, <1>7, <3>5, <4>2, kMaxRangeAssumption
      <4>4. NeededBelow(guest, kind, events, mask, Last(r).begin)
        BY <1>5, <3>1, <3>5
      <4>5. call' \in Looking /\ Top' = Last(r)
        BY <1>2, <1>7, <3>5 DEF Looking, Top
      <4>6. QED
        BY <1>2, <1>7, <3>3, <4>3, <4>4, <4>5 DEF BeforeLast, Looking
    <3>6. QED
      BY <3>4, <3>5
  <2>2. QED
    BY <1>2, <1>9, <1>10, <1>11, <2>1, SearchedSteps DEF Looking
<1>12. CASE passNumber = kLastPass
  <2>1. n = 1 /\ (N > 1 => AllNeeded(guest, kind, events, N + 1))
    BY <1>4, <1>12 DEF Searched, LastPass
  <2>2. r = <<>> /\ call' = "MinimizationPassComplete" /\ Len(r) = 0
    BY <1>2, <1>4, <1>5, <1>7, <2>1
  <2>3. ErrorLeft'
    BY <1>2, <1>10, <2>2 DEF Searched, ErrorLeft, Errs
  <2>4. LastPass'
    BY <1>2, <1>7, <2>1, <2>2 DEF LastPass, Looking
  <2>5. QED
    BY <1>2, <1>12, <2>3, <2>4 DEF Searched, RangesTried
<1>13. QED
  BY <1>11, <1>12

\* The list is culled, for another pass, for the last one, or for good.
LEMMA PassSearched ==
  ASSUME SearchInv, SearchInv', Searched, MinimizationPassComplete
  PROVE  Searched'
<1>1. /\ ListTypes /\ SearchTypes /\ N \in Nat /\ N = Len(events) /\ Len(events) \in Nat
      /\ mask \in [1 .. N -> BOOLEAN]
  BY SearchFacts
<1>2. /\ call = "MinimizationPassComplete" /\ levels = <<>> /\ CullEvents
      /\ UNCHANGED <<kind, guest, tracks>>
  BY DEF MinimizationPassComplete, CallStep, program, SearchInv, RangeFound
<1> DEFINE r == Kept(mask)
<1>3. Lists(r, PlacesOf(kind, events, mask), N) /\ events' = Shortened(events, r)
  BY <1>1, <1>2, ReplayedIs DEF CullEvents
<1> HIDE DEF r
<1>4. Len(r) \in Nat /\ N' = Len(r) /\ Len(events') = Len(r)
  BY <1>3, LenProperties DEF Lists, Shortened, N
<1>5. mask' = AllOf(events') /\ mask' \in [1 .. N' -> BOOLEAN] /\ \A p \in 1 .. N' : mask'[p]
  <2>1. DOMAIN events' = 1 .. Len(events')
    BY <1>3, <1>4 DEF Shortened
  <2>2. mask' = AllOf(events')
    BY <1>2, <2>1 DEF CullEvents, AllOf
  <2>3. QED
    BY <1>4, <2>2 DEF AllOf
<1>6. /\ PlacesOf(kind, events', AllOf(events')) = 1 .. Len(r)
      /\ ErrsOf(guest, kind, events', AllOf(events')) <=> ErrsOf(guest, kind, events, mask)
  BY <1>1, <1>3, Culled
<1>7. ErrsOf(guest, kind, events, mask)
  <2>1. WithRange(mask, <<>>, N) = mask
    BY <1>1, MaskWithRange DEF InRange
  <2>2. QED
    BY <1>2, <2>1 DEF Searched, ErrorLeft, Errs
<1>8. WithRange(mask', levels', N') = mask'
  BY <1>4, <1>5, MaskWithRange
<1>9. \/ /\ Len(r) < N /\ passNumber' = passNumber + 1 /\ InitialLevel /\ call' = "SplitAndStartAgain"
      \/ /\ Len(r) = N /\ passNumber # kLastPass /\ passNumber' = kLastPass
         /\ InitialLevel /\ call' = "StartAgain"
      \/ /\ Len(r) = N /\ passNumber = kLastPass
         /\ call' = "none" /\ UNCHANGED <<levels, passNumber>>
  BY <1>4 DEF MinimizationPassComplete
<1>10. ErrorLeft'
  BY <1>2, <1>4, <1>5, <1>6, <1>7, <1>8, <1>9 DEF ErrorLeft, Errs
<1> DEFINE t == Level(1, Len(r) + 1, FALSE)
<1>11. InitialLevel => levels' = <<t>>
  BY <1>2, <1>4 DEF InitialLevel
<1>12. t.begin = 1 /\ t.end = Len(r) + 1 /\ ~t.checked
  BY DEF Level
<1> HIDE DEF t
<1>13. ASSUME InitialLevel
       PROVE  levels' = <<t>> /\ Len(levels') = 1 /\ levels'[1] = t /\ Last(levels') = t
  <2>1. levels' = <<t>>
    BY <1>11, <1>13
  <2>2. QED
    BY <2>1 DEF Last
<1>14. CASE Len(r) < N /\ passNumber' = passNumber + 1 /\ InitialLevel /\ call' = "SplitAndStartAgain"
  <2>1. passNumber' # kLastPass
    BY <1>1, <1>14 DEF SearchTypes, kLastPass
  <2>2. ASSUME N' > 1 PROVE BeforeLast(call)'
    <3>1. Top' = t /\ Size(t) # 1
      BY <1>4, <1>12, <1>13, <1>14, <2>2 DEF Top, Size
    <3>2. SplitOnce(levels', call')
      <4>1. Len(levels') = 1 /\ ~levels'[1].checked
        BY <1>12, <1>13, <1>14
      <4>2. \A i \in 1 .. Len(levels') : i = 1
        BY <4>1
      <4>3. \A i \in 1 .. Len(levels') : ~levels'[i].checked
        BY <4>1, <4>2
      <4>4. QED
        BY <4>3 DEF SplitOnce
    <3>3. NeededBelow(guest, kind, events', mask', t.begin)
      BY <1>4, <1>12 DEF NeededBelow, AllNeeded
    <3>4. QED
      BY <1>2, <1>14, <3>1, <3>2, <3>3 DEF BeforeLast
  <2>3. QED
    BY <1>10, <2>1, <2>2 DEF Searched, LastPass, RangesTried
<1>15. ASSUME Len(r) = N
       PROVE  events' = events /\ \A p \in 1 .. Len(events) : kind[events[p]] # "up" => mask[p]
  <2>1. events \in Seq(DOMAIN kind)
    BY <1>1 DEF ListTypes
  <2>2. QED
    BY <1>1, <1>3, <1>15, <2>1, NothingCulled
<1>16. CASE Len(r) = N /\ passNumber # kLastPass /\ passNumber' = kLastPass
            /\ InitialLevel /\ call' = "StartAgain"
  <2>1. N > 1 => AllNeeded(guest, kind, events, N + 1)
    <3>1. NoneOut(kind, events, mask, N + 1)
      BY <1>15, <1>16 DEF NoneOut
    <3>2. QED
      BY <1>2, <1>16, <3>1 DEF Searched, RangesTried, BeforeLast, NeededBelow
  <2>2. LastPass'
    <3>1. UNCHANGED <<kind, guest, events>> /\ N' = N /\ Len(levels') = 1 /\ mask' = AllOf(events')
      BY <1>2, <1>4, <1>5, <1>13, <1>15, <1>16
    <3>2. QED
      BY <1>16, <2>1, <3>1 DEF LastPass, Looking
  <2>3. QED
    BY <1>10, <1>16, <2>2 DEF Searched, RangesTried
<1>17. CASE Len(r) = N /\ passNumber = kLastPass /\ call' = "none" /\ UNCHANGED <<levels, passNumber>>
  <2>1. N > 1 => AllNeeded(guest, kind, events, N + 1)
    BY <1>17 DEF Searched, LastPass
  <2>2. LastPass'
    BY <1>2, <1>4, <1>5, <1>15, <1>17, <2>1 DEF LastPass, Looking
  <2>3. QED
    BY <1>10, <1>17, <2>2 DEF Searched, RangesTried
<1>18. QED
  BY <1>9, <1>14, <1>16, <1>17

(* At Start, the recording ends in the error, and no event is left out.    *)
LEMMA InitSearched ==
  ASSUME Init PROVE GuestOK /\ Settled /\ GivenSoFar /\ Searched
<1>1. SearchInv /\ ListTypes /\ N \in Nat /\ N = Len(events) /\ Len(events) \in Nat
      /\ mask \in [1 .. N -> BOOLEAN]
  BY InitSearches, SearchFacts
<1>2. /\ N = Len(kind) /\ \A i \in 1 .. N : events[i] = i
      /\ mask = AllOf(events) /\ DOMAIN events = 1 .. N /\ events \in Seq(DOMAIN kind)
  <2>1. Len(kind) \in Nat
    BY <1>1, ListFacts
  <2>2. events = [i \in 1 .. Len(kind) |-> i] /\ mask = [i \in 1 .. Len(kind) |-> TRUE]
    BY DEF Init
  <2>3. Len(events) = Len(kind)
    BY <2>1, <2>2
  <2>4. QED
    BY <1>1, <2>1, <2>2, <2>3 DEF AllOf, ListTypes
<1>3. Kept(mask) = events /\ Fails(Range(events)) /\ ~Reproduces(Front(events))
  BY DEF Init
<1>4. Lists(events, PlacesOf(kind, events, mask), N)
  BY <1>1, <1>3, ReplayedIs
<1>5. PlacesOf(kind, events, mask) = 1 .. N
  <2>1. \A i \in 1 .. N : i \in PlacesOf(kind, events, mask)
    BY <1>1, <1>2, <1>4 DEF Lists
  <2>2. PlacesOf(kind, events, mask) \subseteq 1 .. N
    BY <1>1, PlacesIs
  <2>3. QED
    BY <2>1, <2>2
<1>6. ErrsOf(guest, kind, events, mask)
  <2>1. ErrsOf(guest, kind, events, mask) <=> ErrsIn(guest, events, events)
    BY <1>1, <1>4, Culled
  <2>2. FailsOn(guest, Range(events))
    BY <1>3 DEF Fails, FailsOn
  <2>3. Range(events) = {events[events[j]] : j \in 1 .. Len(events)}
    BY <1>1, <1>2 DEF Range
  <2>4. Len(events) \in 0 .. Len(events)
    BY <1>1
  <2>5. QED
    BY <2>1, <2>2, <2>3, <2>4 DEF ErrsIn
<1>7. ~FailsOn(guest, {})
  <2>1. CASE events = <<>>
    <3>1. Range(events) = {}
      BY <2>1 DEF Range
    <3>2. \A i \in 0 .. Len(Front(events)) : ~Fails(Range(SubSeq(Front(events), 1, i)))
      BY <1>3 DEF Reproduces
    <3>3. Front(events) = <<>>
      <4>1. Front(events) = SubSeq(events, 1, Len(events) - 1) /\ Len(events) = 0
        BY <2>1 DEF Front
      <4>2. QED
        BY <4>1, SubSeqEmpty
    <3>4. SubSeq(<<>>, 1, 0) = <<>>
      BY SubSeqEmpty
    <3>5. ~Fails(Range(events))
      <4>1. 0 \in 0 .. Len(<<>>)
        OBVIOUS
      <4>2. ~Fails(Range(SubSeq(<<>>, 1, 0)))
        BY <3>2, <3>3, <4>1
      <4>3. QED
        BY <2>1, <3>4, <4>2
    <3>6. QED
      BY <1>3, <3>5
  <2>2. CASE events # <<>>
    <3>1. Len(Front(events)) \in Nat
      BY <1>2, <2>2, StackTop
    <3>2. ~Fails(Range(SubSeq(Front(events), 1, 0)))
      BY <1>3, <3>1 DEF Reproduces
    <3>3. SubSeq(Front(events), 1, 0) = <<>>
      BY SubSeqEmpty
    <3>4. Range(<<>>) = {}
      BY DEF Range
    <3>5. QED
      BY <3>2, <3>3, <3>4 DEF Fails, FailsOn
  <2>3. QED
    BY <2>1, <2>2
<1>8. GuestOK
  <2>1. tracks => \A p \in guest : \A i \in p.has \cup p.not : kind[i] # "up"
    BY DEF Init
  <2>2. tracks => \A x \in Mentioned : kind[x] # "up"
    BY <2>1 DEF Mentioned
  <2>3. QED
    BY <1>7, <2>2 DEF GuestOK, Init
<1>9. Settled /\ GivenSoFar
  BY DEF Init, Settled, GivenSoFar, Live
<1> DEFINE t == Level(1, N + 1, FALSE)
<1>10. t.begin = 1 /\ t.end = N + 1 /\ t.checked = FALSE
  BY DEF Level
<1>11. levels = <<t>> /\ call = "SplitAndStartAgain" /\ passNumber # kLastPass
  BY <1>2 DEF Init, kLastPass
<1> HIDE DEF t
<1>12. levels = <<t>> /\ Len(levels) = 1 /\ levels[1] = t /\ Last(levels) = t /\ Top = t
  BY <1>11 DEF Last, Top
<1>13. ErrorLeft
  <2>1. \A p \in 1 .. N : mask[p]
    BY <1>1, <1>2 DEF AllOf
  <2>2. WithRange(mask, levels, N) = mask
    BY <1>1, <2>1, MaskWithRange
  <2>3. QED
    BY <1>2, <1>5, <1>6, <1>11, <2>2 DEF ErrorLeft, Errs
<1>14. ASSUME N > 1 PROVE BeforeLast(call)
  <2>1. NeededBelow(guest, kind, events, mask, Top.begin)
    BY <1>1, <1>10, <1>12 DEF NeededBelow, AllNeeded
  <2>2. Size(Top) # 1
    BY <1>1, <1>10, <1>12, <1>14 DEF Size
  <2>3. SplitOnce(levels, call)
    BY <1>10, <1>12 DEF SplitOnce
  <2>4. QED
    BY <1>11, <2>1, <2>2, <2>3 DEF BeforeLast
<1>15. QED
  BY <1>8, <1>9, <1>11, <1>13, <1>14 DEF Searched, LastPass, RangesTried

\* The search, as long as it is calm.
CalmInv == SearchInv /\ (calm => GuestOK /\ Settled /\ GivenSoFar /\ Searched)

LEMMA StepSearched ==
  ASSUME SearchInv, SearchInv', GuestOK, Settled, GivenSoFar, Searched, calm, Next, calm'
  PROVE  Searched'
<1>1. CASE GetEvent
  <2>1. UNCHANGED <<program, list, levels, passNumber>> /\ call = "none" /\ stage = "running"
        /\ replaying /\ ~loadState
    BY <1>1 DEF GetEvent, search, Ready
  <2>2. CASE Deliverable # {}
    <3>1. call' = call
      BY <1>1, <2>2 DEF GetEvent
    <3>2. QED
      BY <2>1, <3>1, SearchedStays
  <2>3. CASE Deliverable = {} /\ ~fgIsOn
    <3>1. call' = "none"
      BY <1>1, <2>3 DEF GetEvent
    <3>2. QED
      BY <2>1, <3>1, SearchedStays
  <2>4. CASE Deliverable = {} /\ fgIsOn
    <3>1. call' = "NoErrorOccurred"
      BY <1>1, <2>4 DEF GetEvent
    <3>2. Live /\ index \in 0 .. N /\ PenTold /\ NoErrorTo(index)
      BY <2>1 DEF GivenSoFar, Live, PenTold, NoErrorTo
    <3>3. ListTypes /\ N \in Nat /\ N = Len(events) /\ mask \in [1 .. N -> BOOLEAN]
      BY SearchFacts
    <3>4. N \in index .. N /\ \A p \in Deliverable : N < p
      BY <2>4, <3>2, <3>3
    <3>5. NoErrorTo(N)
      BY <3>2, <3>3, <3>4, NoErrorBefore
    <3>6. ~Errs(mask)
      BY <3>3, <3>5 DEF NoErrorTo, Errs, ErrsOf, Fed
    <3>7. passNumber # kLastPass
      <4>1. SUFFICES ASSUME passNumber = kLastPass PROVE FALSE
        OBVIOUS
      <4>2. mask = AllOf(events) /\ \A p \in 1 .. N : mask[p]
        BY <2>1, <3>3, <4>1 DEF Searched, LastPass, AllOf
      <4>3. WithRange(mask, levels, N) = mask
        BY <3>3, <4>2, MaskWithRange
      <4>4. QED
        BY <3>6, <4>3 DEF Searched, ErrorLeft
    <3>8. QED
      BY <2>1, <3>1, <3>6, <3>7, SearchedStays
  <2>5. QED
    BY <2>2, <2>3, <2>4 DEF SearchInv, FlagTypes
<1>2. CASE GetPen
  <2>1. UNCHANGED <<program, list, levels, passNumber, call>>
    BY <1>2 DEF GetPen, search
  <2>2. QED
    BY <2>1, SearchedStays
<1>3. CASE LoadState \/ Stop
  <2>1. UNCHANGED <<program, list, levels, passNumber, call>>
    BY <1>3 DEF LoadState, Stop, search
  <2>2. QED
    BY <2>1, SearchedStays
<1>4. CASE StartAgain
  <2>1. UNCHANGED <<program, list, levels, passNumber>> /\ call = "StartAgain" /\ call' = "none"
    BY <1>4 DEF StartAgain, CallStep, search
  <2>2. QED
    BY <2>1, SearchedStays
<1>5. CASE WakeUp
  BY <1>5 DEF WakeUp, Settled
<1>6. CASE SecondError \/ FallAsleep
  BY <1>6 DEF SecondError, FallAsleep
<1>7. QED
  BY <1>1, <1>2, <1>3, <1>4, <1>5, <1>6, ErrorSearched, NoErrorSearched, SplitSearched,
    DisableSearched, NextRangeSearched, PassSearched DEF Next, CPU, Calls

LEMMA CalmInvariant == Spec => []CalmInv
<1>1. ASSUME CalmInv, [Next]_vars, SearchInv' PROVE CalmInv'
  <2>1. CASE UNCHANGED vars
    <3>1. UNCHANGED <<program, list, levels, passNumber, call, calm, penPolled, loadState, stage,
                      fgIsOn, stopped, replaying, index, penIsDown, given>>
      BY <2>1 DEF vars, search, replay, device
    <3>2. calm => Searched'
      BY <1>1, <3>1, SearchedStays DEF CalmInv
    <3>3. calm => GuestOK' /\ Settled'
      BY <1>1, <3>1 DEF CalmInv, GuestOK, Settled, Mentioned, program
    <3>4. Mentioned' = Mentioned /\ N' = N
      BY <3>1 DEF Mentioned, N, program, list
    <3>5. calm => GivenSoFar'
      BY <1>1, <3>1, <3>4 DEF CalmInv, GivenSoFar, Live, Fed, program, list
    <3>6. QED
      BY <1>1, <3>1, <3>2, <3>3, <3>5 DEF CalmInv
  <2>2. CASE Next
    <3>1. SUFFICES ASSUME calm' PROVE GuestOK' /\ Settled' /\ GivenSoFar' /\ Searched'
      BY <1>1 DEF CalmInv
    <3>a. calm
      BY <1>1, <2>2, <3>1, StaysCalm DEF CalmInv
    <3>2. calm /\ GuestOK' /\ Settled'
      BY <1>1, <2>2, <3>1, <3>a, ControlKept DEF CalmInv
    <3>3. QED
      BY <1>1, <2>2, <3>1, <3>2, GivenKept, StepSearched DEF CalmInv
  <2>3. QED
    BY <1>1, <2>1, <2>2
<1>2. Init => CalmInv
  BY InitSearches, InitSearched DEF CalmInv
<1>3. QED
  BY <1>1, <1>2, SearchInvariant, PTL DEF Spec

(* The search never loses the error (EmMinimize.cpp:380-423, 455-520): the *)
(* events not discarded, with the range under test among them, still make  *)
(* the guest fail.                                                         *)
THEOREM TheErrorIsKept == Spec => []ErrorKept
<1>1. CalmInv => ErrorKept
  <2>1. SUFFICES ASSUME CalmInv, calm
                 PROVE  Reproduces(Replayed([p \in 1 .. N |-> mask[p] \/ InCurrentRange(p)]))
    BY DEF ErrorKept
  <2>2. ListTypes /\ mask \in [1 .. N -> BOOLEAN]
    BY <2>1, SearchFacts DEF CalmInv
  <2> DEFINE m == WithRange(mask, levels, N)
  <2>3. m = [p \in 1 .. N |-> mask[p] \/ InCurrentRange(p)]
    BY Zenon DEF WithRange, InRange, InCurrentRange, Top
  <2>4. m \in [1 .. N -> BOOLEAN]
    BY <2>2 DEF WithRange, InRange
  <2>5. Errs(m)
    BY <2>1 DEF CalmInv, Searched, ErrorLeft
  <2> HIDE DEF m
  <2>6. Reproduces(Replayed(m))
    BY <2>2, <2>4, <2>5, ReproducesIs
  <2>7. QED
    BY <2>3, <2>6
<1>2. QED
  BY <1>1, CalmInvariant, PTL

(* When the search ends undisturbed, no event of the result but a pen up   *)
(* can be left out, whatever the recording and the guest.                  *)
THEOREM TheResultIsMinimal == Spec => []ResultIsMinimal
<1>1. CalmInv => ResultIsMinimal
  <2>1. SUFFICES ASSUME CalmInv, calm, ~fgIsOn, ~stopped, N > 1, NEW p \in 1 .. N, ~IsUp(p)
                 PROVE  ~Reproduces(Replayed([mask EXCEPT ![p] = FALSE]))
    BY DEF ResultIsMinimal
  <2>2. ListTypes /\ N \in Nat /\ N = Len(events) /\ mask \in [1 .. N -> BOOLEAN]
    BY <2>1, SearchFacts DEF CalmInv
  <2>3. passNumber = kLastPass /\ call = "none"
    BY <2>1 DEF CalmInv, Settled
  <2>4. mask = AllOf(events) /\ AllNeeded(guest, kind, events, N + 1)
    BY <2>1, <2>3 DEF CalmInv, Searched, LastPass
  <2> DEFINE m == AllBut(p, N)
  <2>5. m = [mask EXCEPT ![p] = FALSE] /\ m \in [1 .. N -> BOOLEAN]
    BY <2>1, <2>2, <2>4 DEF AllBut, AllOf
  <2>6. ~Errs(m)
    <3>1. p < N + 1 /\ kind[events[p]] # "up" /\ p \in 1 .. Len(events)
      BY <2>1, <2>2 DEF IsUp
    <3>2. Needed(guest, kind, events, p)
      BY <2>4, <3>1 DEF AllNeeded
    <3>3. QED
      BY <2>2, <3>2 DEF Needed, Errs
  <2> HIDE DEF m
  <2>7. ~Reproduces(Replayed(m))
    BY <2>2, <2>5, <2>6, ReproducesIs
  <2>8. QED
    BY <2>5, <2>7
<1>2. QED
  BY <1>1, CalmInvariant, PTL

(* The last pass ends in the error, as NoErrorOccurred says it is supposed *)
(* to (EmMinimize.cpp:484).                                                *)
THEOREM TheLastPassFails == Spec => []LastPassEndsInError
<1>1. CalmInv => LastPassEndsInError
  BY DEF CalmInv, Searched, LastPass, LastPassEndsInError
<1>2. QED
  BY <1>1, CalmInvariant, PTL
=============================================================================
