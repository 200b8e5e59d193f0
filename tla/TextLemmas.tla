----------------------------- MODULE TextLemmas -----------------------------
(***************************************************************************)
(* Lemmas about texts of any length: how counting, picking, splitting and  *)
(* trimming commute with putting texts together.                           *)
(***************************************************************************)
EXTENDS Lexemes, Integers, FiniteSetTheorems, SequenceTheorems, TLAPS

-----------------------------------------------------------------------------
(* Counting places.  Lexemes takes the n-th of some places as the one with *)
(* n places before it.                                                     *)

Count(places, i) == Cardinality({j \in places : j < i})

LEMMA CountType ==
  ASSUME NEW places, places \subseteq Int, IsFiniteSet(places), NEW i \in Int
  PROVE  /\ IsFiniteSet({j \in places : j < i})
         /\ Count(places, i) \in Nat /\ Cardinality(places) \in Nat
         /\ Count(places, i) <= Cardinality(places)
         /\ i \in places => Count(places, i) < Cardinality(places)
<1> DEFINE before == {j \in places : j < i}
<1>1. before \in SUBSET places
  OBVIOUS
<1>2. /\ IsFiniteSet(before) /\ Cardinality(before) <= Cardinality(places)
      /\ Cardinality(places) = Cardinality(before) => places = before
  BY <1>1, FS_Subset
<1>3. Cardinality(before) \in Nat /\ Cardinality(places) \in Nat
  BY <1>2, FS_CardinalityType
<1>4. i \in places => places # before
  OBVIOUS
<1>5. QED
  BY <1>2, <1>3, <1>4 DEF Count

\* Of two places the later one has more before it.
LEMMA CountGrows ==
  ASSUME NEW places, places \subseteq Int, IsFiniteSet(places),
         NEW i \in places, NEW k \in Int, i < k
  PROVE  Count(places, i) < Count(places, k)
<1> DEFINE early == {j \in places : j < i}
           late  == {j \in places : j < k}
<1>1. early \union {i} \in SUBSET late
  <2>1. i \in Int /\ \A j \in places : j \in Int
    OBVIOUS
  <2>2. \A j \in places : j < i => j < k
    BY <2>1
  <2>3. QED
    BY <2>2
<1>2. IsFiniteSet(early) /\ IsFiniteSet(late)
  BY CountType
<1>3. Cardinality(early \union {i}) = Cardinality(early) + 1
  <2>1. i \notin early
    OBVIOUS
  <2>2. QED
    BY <1>2, <2>1, FS_AddElement
<1>4. Cardinality(early \union {i}) <= Cardinality(late)
  BY <1>1, <1>2, FS_Subset
<1>5. Cardinality(early) \in Nat /\ Cardinality(late) \in Nat
  BY <1>2, FS_CardinalityType
<1>6. QED
  BY <1>3, <1>4, <1>5 DEF Count

\* A place is the n-th for the n places before it, and for no other n.
LEMMA NthOfCount ==
  ASSUME NEW places, places \subseteq Int, IsFiniteSet(places), NEW i \in places
  PROVE  Nth(places, Count(places, i)) = i
<1>1. \A k \in places : Count(places, k) = Count(places, i) => k = i
  <2> SUFFICES ASSUME NEW k \in places, k # i PROVE Count(places, k) # Count(places, i)
    OBVIOUS
  <2>1. i \in Int /\ k \in Int
    OBVIOUS
  <2>2. CASE k < i
    <3>1. Count(places, k) < Count(places, i)
      BY <2>1, <2>2, CountGrows
    <3>2. Count(places, k) \in Nat /\ Count(places, i) \in Nat
      BY <2>1, CountType
    <3>3. QED
      BY <3>1, <3>2
  <2>3. CASE i < k
    <3>1. Count(places, i) < Count(places, k)
      BY <2>1, <2>3, CountGrows
    <3>2. Count(places, k) \in Nat /\ Count(places, i) \in Nat
      BY <2>1, CountType
    <3>3. QED
      BY <3>1, <3>2
  <2>4. QED
    BY <2>1, <2>2, <2>3
<1>2. QED
  BY <1>1 DEF Nth, Count

\* As many places as there are, so many n: counting is an injection into an
\* interval of the same size.
LEMMA NthIsPlace ==
  ASSUME NEW places, places \subseteq Int, IsFiniteSet(places),
         NEW n \in 0..(Cardinality(places) - 1)
  PROVE  Nth(places, n) \in places /\ Count(places, Nth(places, n)) = n
<1> DEFINE size == Cardinality(places)
           f    == [i \in places |-> Count(places, i)]
<1>1. size \in Nat
  BY FS_CardinalityType
<1>2. \A i \in places : Count(places, i) \in 0..(size - 1)
  <2> TAKE i \in places
  <2>1. i \in Int
    OBVIOUS
  <2>2. Count(places, i) \in Nat /\ Count(places, i) < size
    BY <2>1, CountType
  <2>3. QED
    BY <1>1, <2>2
<1>3. \A i, k \in places : Count(places, i) = Count(places, k) => i = k
  <2> TAKE i \in places, k \in places
  <2>1. Nth(places, Count(places, i)) = i /\ Nth(places, Count(places, k)) = k
    BY NthOfCount
  <2>2. QED
    BY <2>1
<1>4. f \in Injection(places, 0..(size - 1))
  <2>1. f \in [places -> 0..(size - 1)]
    BY <1>2
  <2>2. QED
    BY <1>3, <2>1 DEF Injection, IsInjective
<1>5. IsFiniteSet(0..(size - 1)) /\ Cardinality(0..(size - 1)) = size
  BY <1>1, FS_Interval
<1>6. f \in Surjection(places, 0..(size - 1))
  BY <1>4, <1>5, FS_Injection
<1>7. PICK i \in places : f[i] = n
  BY <1>6 DEF Surjection
<1>8. Count(places, i) = n
  BY <1>7
<1>9. QED
  BY <1>8, NthOfCount

IsPlaces(places) == places \subseteq Int /\ IsFiniteSet(places)

\* The n places in their order.
Lists(f, n, places) ==
  /\ n \in Nat /\ f \in [1..n -> Int]
  /\ \A k \in 1..n : f[k] \in places
  /\ \A i, j \in 1..n : i < j => f[i] < f[j]
  /\ \A i \in places : \E k \in 1..n : f[k] = i

\* A list of all the places in their order is the one Nth makes.
LEMMA Enumeration ==
  ASSUME NEW places, NEW n, NEW f, Lists(f, n, places)
  PROVE  /\ IsPlaces(places) /\ Cardinality(places) = n /\ n \in Nat
         /\ \A k \in 1..n : Nth(places, k - 1) = f[k]
<1> USE DEF Lists
<1>0. places \subseteq Int
  OBVIOUS
<1>1. \A i, j \in 1..n : f[i] < f[j] => i < j
  <2> TAKE i \in 1..n, j \in 1..n
  <2>1. f[i] \in Int /\ f[j] \in Int
    OBVIOUS
  <2>2. j < i => f[j] < f[i]
    OBVIOUS
  <2>3. QED
    BY <2>1, <2>2
<1>2. \A i, j \in 1..n : f[i] = f[j] => i = j
  <2> TAKE i \in 1..n, j \in 1..n
  <2>1. f[i] \in Int /\ f[j] \in Int
    OBVIOUS
  <2>2. (j < i => f[j] < f[i]) /\ (i < j => f[i] < f[j])
    OBVIOUS
  <2>3. QED
    BY <2>1, <2>2
<1>3. f \in Bijection(1..n, places)
  BY <1>2 DEF Bijection, Injection, Surjection, IsInjective
<1>4. IsFiniteSet(1..n) /\ Cardinality(1..n) = n
  BY FS_Interval
<1>5. IsFiniteSet(places) /\ Cardinality(places) = n
  BY <1>3, <1>4, FS_Bijection DEF ExistsBijection
<1>6. ASSUME NEW k \in 1..n PROVE Count(places, f[k]) = k - 1
  <2> DEFINE before == {j \in places : j < f[k]}
             g == [i \in 1..(k - 1) |-> f[i]]
  <2>1. \A i \in 1..(k - 1) : i \in 1..n /\ i < k
    OBVIOUS
  <2>2. g \in [1..(k - 1) -> before]
    BY <2>1
  <2>3. \A j \in before : \E i \in 1..(k - 1) : g[i] = j
    <3> TAKE j \in before
    <3>1. PICK i \in 1..n : f[i] = j
      OBVIOUS
    <3>2. i < k
      BY <1>1, <3>1
    <3>3. QED
      BY <3>1, <3>2
  <2>4. g \in Bijection(1..(k - 1), before)
    BY <1>2, <2>1, <2>2, <2>3 DEF Bijection, Injection, Surjection, IsInjective
  <2>5. IsFiniteSet(1..(k - 1)) /\ Cardinality(1..(k - 1)) = k - 1
    BY FS_Interval
  <2>6. QED
    BY <2>4, <2>5, FS_Bijection DEF Count, ExistsBijection
<1>7. ASSUME NEW k \in 1..n PROVE Nth(places, k - 1) = f[k]
  <2>1. f[k] \in places
    OBVIOUS
  <2>2. Nth(places, Count(places, f[k])) = f[k]
    BY <1>0, <1>5, <2>1, NthOfCount
  <2>3. QED
    BY <1>6, <2>2
<1>8. QED
  BY <1>0, <1>5, <1>7 DEF IsPlaces

\* There is one.
LEMMA PlacesAreListed ==
  ASSUME NEW places, IsPlaces(places)
  PROVE  \E n, f : Lists(f, n, places)
<1>1. places \subseteq Int /\ IsFiniteSet(places)
  BY DEF IsPlaces
<1>2. PICK n \in Nat : n = Cardinality(places)
  BY <1>1, FS_CardinalityType
<1>3. PICK f : f = [k \in 1..n |-> Nth(places, k - 1)]
  OBVIOUS
<1>4. \A k \in 1..n : f[k] \in places /\ f[k] \in Int /\ Count(places, f[k]) = k - 1
  <2> TAKE k \in 1..n
  <2>1. k - 1 \in 0..(n - 1)
    OBVIOUS
  <2>2. Nth(places, k - 1) \in places /\ Count(places, Nth(places, k - 1)) = k - 1
    BY <1>1, <1>2, <2>1, NthIsPlace
  <2>3. QED
    BY <1>1, <1>3, <2>2
<1>5. ASSUME NEW i \in 1..n, NEW j \in 1..n, i < j PROVE f[i] < f[j]
  <2>1. CASE f[i] = f[j]
    BY <1>4, <1>5, <2>1
  <2>2. CASE f[j] < f[i]
    <3>1. Count(places, f[j]) < Count(places, f[i])
      BY <1>1, <1>4, <2>2, CountGrows
    <3>2. QED
      BY <1>4, <1>5, <3>1
  <2>3. f[i] \in Int /\ f[j] \in Int
    BY <1>4
  <2>4. QED
    BY <2>1, <2>2, <2>3
<1>6. ASSUME NEW i \in places PROVE \E k \in 1..n : f[k] = i
  <2>1. i \in Int
    BY <1>1
  <2>2. Count(places, i) \in Nat /\ Count(places, i) < n
    BY <1>1, <1>2, <2>1, CountType
  <2>3. Count(places, i) + 1 \in 1..n /\ (Count(places, i) + 1) - 1 = Count(places, i)
    BY <2>2
  <2>4. Nth(places, Count(places, i)) = i
    BY <1>1, NthOfCount
  <2>5. QED
    BY <1>3, <2>3, <2>4
<1>7. f \in [1..n -> Int]
  BY <1>3, <1>4
<1>8. Lists(f, n, places)
  BY <1>4, <1>5, <1>6, <1>7 DEF Lists
<1>9. QED
  BY <1>8

\* The places of a text.
LEMMA PlacesInText ==
  ASSUME NEW S, NEW s \in Seq(S), NEW places, places \subseteq DOMAIN s
  PROVE  IsPlaces(places) /\ places \subseteq Int /\ places \subseteq 1..Len(s) /\ Len(s) \in Nat
<1>1. DOMAIN s = 1..Len(s) /\ Len(s) \in Nat
  OBVIOUS
<1>2. IsFiniteSet(1..Len(s)) /\ places \in SUBSET (1..Len(s))
  BY <1>1, FS_Interval
<1>3. IsFiniteSet(places)
  BY <1>2, FS_Subset
<1>4. QED
  BY <1>1, <1>3 DEF IsPlaces

-----------------------------------------------------------------------------
(* Lists. *)

LEMMA ListType ==
  ASSUME NEW S, NEW n \in Nat, NEW r \in [1..n -> S]
  PROVE  r \in Seq(S) /\ Len(r) = n
OBVIOUS

LEMMA ConcatAt ==
  ASSUME NEW S, NEW p \in Seq(S), NEW q \in Seq(S), NEW a, NEW b, a = Len(p), b = Len(q),
         NEW m, m = a + b
  PROVE  /\ p \o q \in Seq(S) /\ Len(p \o q) = m
         /\ \A k \in 1..a : (p \o q)[k] = p[k]
         /\ \A k \in 1..b : (p \o q)[a + k] = q[k]
OBVIOUS

LEMMA SubSeqAt ==
  ASSUME NEW S, NEW s \in Seq(S), NEW a \in Int, NEW b \in Int, 1 <= a, b <= Len(s)
  PROVE  /\ SubSeq(s, a, b) \in Seq(S)
         /\ a <= b + 1 => Len(SubSeq(s, a, b)) = (b - a) + 1
         /\ b < a => SubSeq(s, a, b) = <<>>
         /\ \A k \in 1..((b - a) + 1) : SubSeq(s, a, b)[k] = s[(a + k) - 1]
OBVIOUS

\* Places of a second text stand behind those of the first, of length n.
Joined(n, A, B) == A \union {i + n : i \in B}

TwoLists(n, A, a, f, B, b, g) ==
  /\ n \in Nat /\ A \subseteq 1..n /\ B \subseteq Nat \ {0}
  /\ Lists(f, a, A) /\ Lists(g, b, B)

LEMMA JoinedList ==
  ASSUME NEW n, NEW A, NEW a, NEW f, NEW B, NEW b, NEW g, TwoLists(n, A, a, f, B, b, g),
         NEW m, m = a + b
  PROVE  \E h : /\ Lists(h, m, Joined(n, A, B))
                /\ \A k \in 1..a : h[k] = f[k]
                /\ \A k \in 1..b : h[a + k] = g[k] + n
<1>0. /\ n \in Nat /\ A \subseteq 1..n /\ B \subseteq Nat \ {0}
      /\ Lists(f, a, A) /\ Lists(g, b, B)
  BY DEF TwoLists
<1> USE <1>0
<1>1. a \in Nat /\ b \in Nat /\ m \in Nat
  BY DEF Lists
<1>2. \A k \in 1..m : k \in 1..a \/ (~(k <= a) /\ k - a \in 1..b /\ k = a + (k - a))
  BY <1>1
<1>3. PICK h : h = [k \in 1..m |-> IF k <= a THEN f[k] ELSE g[k - a] + n]
  OBVIOUS
<1>4. \A k \in 1..a : f[k] \in A /\ f[k] \in 1..n
  BY DEF Lists
<1>5. \A k \in 1..b : g[k] \in B /\ g[k] \in Nat \ {0}
  BY DEF Lists
<1>6. \A k \in 1..m :
        /\ k <= a => k \in 1..a /\ h[k] = f[k]
        /\ ~(k <= a) => k - a \in 1..b /\ h[k] = g[k - a] + n
  BY <1>1, <1>2, <1>3
<1>7. \A k \in 1..m : h[k] \in Joined(n, A, B) /\ h[k] \in Int
  <2> TAKE k \in 1..m
  <2>1. CASE k <= a
    BY <1>4, <1>6, <2>1 DEF Joined
  <2>2. CASE ~(k <= a)
    <3>1. k - a \in 1..b /\ h[k] = g[k - a] + n
      BY <1>6, <2>2
    <3>2. QED
      BY <1>5, <3>1 DEF Joined
  <2>3. QED
    BY <2>1, <2>2
<1>8. ASSUME NEW i \in 1..m, NEW j \in 1..m, i < j PROVE h[i] < h[j]
  <2>1. CASE j <= a
    <3>1. i \in 1..a /\ j \in 1..a /\ h[i] = f[i] /\ h[j] = f[j]
      BY <1>1, <1>6, <1>8, <2>1
    <3>2. QED
      BY <1>8, <3>1 DEF Lists
  <2>2. CASE i <= a /\ ~(j <= a)
    <3>1. i \in 1..a /\ j - a \in 1..b /\ h[i] = f[i] /\ h[j] = g[j - a] + n
      BY <1>6, <2>2
    <3>2. f[i] \in 1..n /\ g[j - a] \in Nat \ {0}
      BY <1>4, <1>5, <3>1
    <3>3. QED
      BY <3>1, <3>2
  <2>3. CASE ~(i <= a)
    <3>1. ~(j <= a)
      BY <1>1, <1>8, <2>3
    <3>2. PICK x \in 1..b, y \in 1..b : x = i - a /\ y = j - a /\ h[i] = g[x] + n /\ h[j] = g[y] + n
      BY <1>6, <2>3, <3>1
    <3>3. x < y
      BY <1>1, <1>8, <3>2
    <3>4. g[x] < g[y] /\ g[x] \in Nat /\ g[y] \in Nat
      BY <1>5, <3>3 DEF Lists
    <3>5. QED
      BY <3>2, <3>4
  <2>4. QED
    BY <1>1, <2>1, <2>2, <2>3
<1>9. \A k \in 1..a : k \in 1..m /\ h[k] = f[k]
  BY <1>1, <1>6
<1>10. ASSUME NEW k \in 1..b PROVE a + k \in 1..m /\ h[a + k] = g[k] + n
  <2>1. a + k \in 1..m /\ ~(a + k <= a) /\ (a + k) - a = k
    BY <1>1
  <2>2. QED
    BY <1>6, <2>1
<1>11. ASSUME NEW i \in Joined(n, A, B) PROVE \E k \in 1..m : h[k] = i
  <2>1. CASE i \in A
    <3>1. PICK k \in 1..a : f[k] = i
      BY <2>1 DEF Lists
    <3>2. QED
      BY <1>9, <3>1
  <2>2. ASSUME NEW x \in B, i = x + n PROVE \E k \in 1..m : h[k] = i
    <3>1. PICK k \in 1..b : g[k] = x
      BY <2>2 DEF Lists
    <3>2. QED
      BY <1>10, <2>2, <3>1
  <2>3. QED
    BY <2>1, <2>2 DEF Joined
<1>12. h \in [1..m -> Int]
  BY <1>3, <1>7
<1>13. Lists(h, m, Joined(n, A, B))
  BY <1>1, <1>7, <1>8, <1>11, <1>12 DEF Lists
<1>14. QED
  BY <1>9, <1>10, <1>13

LEMMA JoinedCount ==
  ASSUME NEW n \in Nat, NEW A, NEW B, A \subseteq 1..n, B \subseteq Nat \ {0},
         IsPlaces(A), IsPlaces(B)
  PROVE  Cardinality(Joined(n, A, B)) = Cardinality(A) + Cardinality(B)
<1>1. PICK a, f : Lists(f, a, A)
  BY PlacesAreListed
<1>2. PICK b, g : Lists(g, b, B)
  BY PlacesAreListed
<1>3. PICK m : m = a + b
  OBVIOUS
<1>4. PICK h : Lists(h, m, Joined(n, A, B))
  <2>1. TwoLists(n, A, a, f, B, b, g)
    BY <1>1, <1>2 DEF TwoLists
  <2>2. QED
    BY ONLY <1>3, <2>1, JoinedList
<1>5. Cardinality(A) = a /\ Cardinality(B) = b /\ Cardinality(Joined(n, A, B)) = m
  BY <1>1, <1>2, <1>4, Enumeration
<1>6. QED
  BY <1>3, <1>5

-----------------------------------------------------------------------------
(* What is picked from a text, and from two texts put together. *)

LEMMA PickedBy ==
  ASSUME NEW s, NEW places, NEW n, NEW f, Lists(f, n, places)
  PROVE  /\ DOMAIN Picked(s, places) = 1..n
         /\ \A k \in 1..n : Picked(s, places)[k] = s[f[k]] /\ f[k] \in places
<1>1. Cardinality(places) = n /\ \A k \in 1..n : Nth(places, k - 1) = f[k]
  BY Enumeration
<1>2. QED
  BY <1>1 DEF Picked, Lists

LEMMA PickedType ==
  ASSUME NEW S, NEW s \in Seq(S), NEW places, places \subseteq DOMAIN s
  PROVE  /\ Picked(s, places) \in Seq(S) /\ Len(Picked(s, places)) = Cardinality(places)
         /\ Cardinality(places) \in Nat
         /\ \A i \in places : \E k \in DOMAIN Picked(s, places) : Picked(s, places)[k] = s[i]
         /\ \A k \in DOMAIN Picked(s, places) : \E i \in places : Picked(s, places)[k] = s[i]
<1>1. IsPlaces(places) /\ places \subseteq Int
  BY PlacesInText
<1>2. PICK n, f : Lists(f, n, places)
  BY <1>1, PlacesAreListed
<1>3. n \in Nat /\ Cardinality(places) = n
  BY <1>1, <1>2, Enumeration
<1>4. PICK r : r = Picked(s, places)
  OBVIOUS
<1>5. DOMAIN r = 1..n /\ \A k \in 1..n : r[k] = s[f[k]] /\ f[k] \in places
  BY <1>1, <1>2, <1>4, PickedBy
<1>6. \A k \in 1..n : s[f[k]] \in S
  BY <1>5
<1>7. r \in [1..n -> S]
  <2>1. r = [k \in 1..n |-> s[Nth(places, k - 1)]]
    BY <1>3, <1>4 DEF Picked
  <2>2. QED
    BY <1>5, <1>6, <2>1
<1>8. r \in Seq(S) /\ Len(r) = n
  BY <1>3, <1>7, ListType
<1>9. \A i \in places : \E k \in 1..n : r[k] = s[i]
  BY <1>2, <1>5 DEF Lists
<1>10. QED
  BY <1>3, <1>4, <1>5, <1>8, <1>9

LEMMA PickedConcat ==
  ASSUME NEW S, NEW s \in Seq(S), NEW t \in Seq(S),
         NEW A, NEW B, A \subseteq DOMAIN s, B \subseteq DOMAIN t
  PROVE  Picked(s \o t, Joined(Len(s), A, B)) = Picked(s, A) \o Picked(t, B)
<1>1. /\ IsPlaces(A) /\ A \subseteq 1..Len(s) /\ Len(s) \in Nat /\ A \subseteq Int
      /\ IsPlaces(B) /\ B \subseteq 1..Len(t) /\ B \subseteq Int
  BY PlacesInText
<1>2. PICK n \in Nat : n = Len(s)
  BY <1>1
<1>3. PICK a, f : Lists(f, a, A)
  BY <1>1, PlacesAreListed
<1>4. PICK b, g : Lists(g, b, B)
  BY <1>1, PlacesAreListed
<1>5. PICK m : m = a + b
  OBVIOUS
<1>6. PICK J : J = Joined(n, A, B)
  OBVIOUS
<1>7. PICK h : /\ Lists(h, m, J)
               /\ \A k \in 1..a : h[k] = f[k]
               /\ \A k \in 1..b : h[a + k] = g[k] + n
  <2>1. B \subseteq Nat \ {0} /\ A \subseteq 1..n
    BY <1>1, <1>2
  <2>2. TwoLists(n, A, a, f, B, b, g)
    BY <1>3, <1>4, <2>1 DEF TwoLists
  <2>3. QED
    BY ONLY <1>5, <1>6, <2>2, JoinedList
<1>8. a \in Nat /\ b \in Nat /\ m \in Nat
  BY <1>3, <1>4, <1>5 DEF Lists
<1>9. PICK p : p = Picked(s, A) /\ p \in Seq(S) /\ Len(p) = a
  BY <1>1, <1>3, PickedType, Enumeration
<1>10. PICK q : q = Picked(t, B) /\ q \in Seq(S) /\ Len(q) = b
  BY <1>1, <1>4, PickedType, Enumeration
<1>11. PICK r : r = Picked(s \o t, J)
  OBVIOUS
<1>12. J \subseteq Int
  BY <1>1, <1>2, <1>6 DEF Joined
<1>13. DOMAIN r = 1..m /\ \A k \in 1..m : r[k] = (s \o t)[h[k]]
  <2>1. Lists(h, m, J)
    BY <1>7
  <2>2. PICK u : u = s \o t
    OBVIOUS
  <2>3. DOMAIN Picked(u, J) = 1..m /\ \A k \in 1..m : Picked(u, J)[k] = u[h[k]]
    BY <2>1, PickedBy
  <2>4. QED
    BY <1>11, <2>2, <2>3
<1>14. \A k \in 1..a : p[k] = s[f[k]] /\ f[k] \in A
  BY <1>1, <1>3, <1>9, PickedBy
<1>15. \A k \in 1..b : q[k] = t[g[k]] /\ g[k] \in B
  BY <1>1, <1>4, <1>10, PickedBy
<1>16. /\ p \o q \in Seq(S) /\ Len(p \o q) = m
       /\ \A k \in 1..a : (p \o q)[k] = p[k]
       /\ \A k \in 1..b : (p \o q)[a + k] = q[k]
  BY <1>5, <1>9, <1>10, ConcatAt
<1>17. /\ \A k \in A : (s \o t)[k] = s[k] /\ s[k] \in S
       /\ \A k \in B : (s \o t)[k + n] = t[k] /\ t[k] \in S
  BY <1>1, <1>2
<1>18. \A k \in 1..m : r[k] = (p \o q)[k]
  <2> TAKE k \in 1..m
  <2>1. r[k] = (s \o t)[h[k]]
    BY <1>13
  <2>2. k \in 1..a \/ \E i \in 1..b : k = a + i
    <3>1. k \in 1..a \/ (k - a \in 1..b /\ k = a + (k - a))
      BY <1>5, <1>8
    <3>2. QED
      BY <3>1
  <2>3. CASE k \in 1..a
    <3>1. h[k] = f[k] /\ f[k] \in A /\ p[k] = s[f[k]]
      BY <1>7, <1>14, <2>3
    <3>2. (s \o t)[f[k]] = s[f[k]] /\ (p \o q)[k] = p[k]
      BY <1>16, <1>17, <2>3, <3>1
    <3>3. QED
      BY ONLY <2>1, <3>1, <3>2
  <2>4. ASSUME NEW i \in 1..b, k = a + i
        PROVE  r[k] = (p \o q)[k]
    <3>1. (p \o q)[k] = q[i] /\ h[k] = g[i] + n
      BY <1>7, <1>16, <2>4
    <3>2. q[i] = t[g[i]] /\ (s \o t)[g[i] + n] = t[g[i]]
      BY <1>15, <1>17
    <3>3. QED
      BY <2>1, <3>1, <3>2
  <2>5. QED
    BY <2>2, <2>3, <2>4
<1>19. r \in Seq(S) /\ Len(r) = m
  <2>1. s \o t \in Seq(S) /\ J \subseteq DOMAIN (s \o t)
    BY <1>1, <1>2, <1>6 DEF Joined
  <2>2. r \in Seq(S) /\ DOMAIN r = 1..m
    BY <1>11, <1>13, <2>1, PickedType
  <2>3. QED
    BY <1>8, <2>2
<1>20. r = p \o q
  BY <1>16, <1>18, <1>19, SeqEqual
<1>21. QED
  BY <1>2, <1>6, <1>9, <1>10, <1>11, <1>20

\* So with the pieces that are not empty, and with the ink of a text.
LEMMA NonEmptyConcat ==
  ASSUME NEW S, NEW p \in Seq(S), NEW q \in Seq(S)
  PROVE  /\ NonEmpty(p \o q) = NonEmpty(p) \o NonEmpty(q)
         /\ NonEmpty(p) \in Seq(S)
<1>1. Filled(p) \subseteq DOMAIN p /\ Filled(q) \subseteq DOMAIN q
  BY DEF Filled
<1>2. Filled(p \o q) = Joined(Len(p), Filled(p), Filled(q))
  <2>1. ASSUME NEW i \in 1..Len(p) PROVE i \in Filled(p \o q) <=> i \in Filled(p)
    BY DEF Filled
  <2>2. ASSUME NEW i \in 1..Len(q) PROVE i + Len(p) \in Filled(p \o q) <=> i \in Filled(q)
    <3>1. (p \o q)[i + Len(p)] = q[i] /\ i + Len(p) \in DOMAIN (p \o q) /\ i \in DOMAIN q
      OBVIOUS
    <3>2. QED
      BY <3>1 DEF Filled
  <2>3. \A i \in DOMAIN (p \o q) : i \in 1..Len(p) \/ \E j \in 1..Len(q) : i = j + Len(p)
    <3> TAKE i \in DOMAIN (p \o q)
    <3>1. i \in 1..(Len(p) + Len(q)) /\ Len(p) \in Nat /\ Len(q) \in Nat
      OBVIOUS
    <3>2. i \in 1..Len(p) \/ (i - Len(p) \in 1..Len(q) /\ i = (i - Len(p)) + Len(p))
      BY <3>1
    <3>3. QED
      BY <3>2
  <2>4. /\ Filled(p) \subseteq 1..Len(p) /\ Filled(q) \subseteq 1..Len(q)
        /\ Filled(p \o q) \subseteq DOMAIN (p \o q)
    BY DEF Filled
  <2>5. QED
    BY <2>1, <2>2, <2>3, <2>4 DEF Joined
<1>3. Picked(p \o q, Joined(Len(p), Filled(p), Filled(q)))
        = Picked(p, Filled(p)) \o Picked(q, Filled(q))
  BY <1>1, PickedConcat
<1>4. QED
  BY <1>1, <1>2, <1>3, PickedType DEF NonEmpty

LEMMA InkedConcat ==
  ASSUME NEW S, NEW s \in Seq(S), NEW t \in Seq(S)
  PROVE  Picked(s \o t, InkedPlaces(s \o t))
           = Picked(s, InkedPlaces(s)) \o Picked(t, InkedPlaces(t))
<1>1. InkedPlaces(s) \subseteq DOMAIN s /\ InkedPlaces(t) \subseteq DOMAIN t
  BY DEF InkedPlaces
<1>2. InkedPlaces(s \o t) = Joined(Len(s), InkedPlaces(s), InkedPlaces(t))
  <2>1. ASSUME NEW i \in 1..Len(s) PROVE i \in InkedPlaces(s \o t) <=> i \in InkedPlaces(s)
    BY DEF InkedPlaces
  <2>2. ASSUME NEW i \in 1..Len(t)
        PROVE  i + Len(s) \in InkedPlaces(s \o t) <=> i \in InkedPlaces(t)
    <3>1. (s \o t)[i + Len(s)] = t[i] /\ i + Len(s) \in DOMAIN (s \o t) /\ i \in DOMAIN t
      OBVIOUS
    <3>2. QED
      BY <3>1 DEF InkedPlaces
  <2>3. \A i \in DOMAIN (s \o t) : i \in 1..Len(s) \/ \E j \in 1..Len(t) : i = j + Len(s)
    <3> TAKE i \in DOMAIN (s \o t)
    <3>1. i \in 1..(Len(s) + Len(t)) /\ Len(s) \in Nat /\ Len(t) \in Nat
      OBVIOUS
    <3>2. i \in 1..Len(s) \/ (i - Len(s) \in 1..Len(t) /\ i = (i - Len(s)) + Len(s))
      BY <3>1
    <3>3. QED
      BY <3>2
  <2>4. /\ InkedPlaces(s) \subseteq 1..Len(s) /\ InkedPlaces(t) \subseteq 1..Len(t)
        /\ InkedPlaces(s \o t) \subseteq DOMAIN (s \o t)
    BY DEF InkedPlaces
  <2>5. QED
    BY <2>1, <2>2, <2>3, <2>4 DEF Joined
<1>3. Picked(s \o t, Joined(Len(s), InkedPlaces(s), InkedPlaces(t)))
        = Picked(s, InkedPlaces(s)) \o Picked(t, InkedPlaces(t))
  BY <1>1, PickedConcat
<1>4. QED
  BY <1>2, <1>3

-----------------------------------------------------------------------------
(* Splitting.  The cuts in their order, the start of the text at 0. *)

Cuts(s, sep) == {0, Len(s) + 1} \union {i \in DOMAIN s : s[i] = sep}

Cutting(c, n, s, sep) ==
  /\ n \in Nat \ {0} /\ c \in [0..n -> Int]
  /\ c[0] = 0 /\ c[n] = Len(s) + 1
  /\ \A i, j \in 0..n : i < j => c[i] < c[j]
  /\ \A k \in 1..(n - 1) : c[k] \in DOMAIN s /\ s[c[k]] = sep
  /\ \A i \in DOMAIN s : s[i] = sep => \E k \in 1..(n - 1) : c[k] = i

LEMMA CuttingLists ==
  ASSUME NEW S, NEW s \in Seq(S), NEW sep, NEW n, NEW c, Cutting(c, n, s, sep),
         NEW m, m = n + 1
  PROVE  Lists([k \in 1..m |-> c[k - 1]], m, Cuts(s, sep))
<1> USE DEF Cutting
<1>1. PICK f : f = [k \in 1..m |-> c[k - 1]]
  OBVIOUS
<1>2. \A k \in 1..m : k - 1 \in 0..n /\ f[k] = c[k - 1]
  BY <1>1
<1>3. m \in Nat /\ f \in [1..m -> Int]
  BY <1>1, <1>2
<1>4. ASSUME NEW k \in 1..m PROVE f[k] \in Cuts(s, sep)
  <2>1. k - 1 = 0 \/ k - 1 = n \/ k - 1 \in 1..(n - 1)
    BY <1>2
  <2>2. QED
    BY <1>2, <2>1 DEF Cuts
<1>5. \A i, j \in 1..m : i < j => f[i] < f[j]
  BY <1>2
<1>6. ASSUME NEW i \in Cuts(s, sep) PROVE \E k \in 1..m : f[k] = i
  <2>1. PICK k \in 0..n : c[k] = i
    BY <1>6 DEF Cuts
  <2>2. k + 1 \in 1..m /\ (k + 1) - 1 = k
    OBVIOUS
  <2>3. QED
    BY <1>2, <2>1, <2>2
<1>7. Lists(f, m, Cuts(s, sep))
  BY <1>3, <1>4, <1>5, <1>6 DEF Lists
<1>8. QED
  BY <1>1, <1>7

LEMMA CutsInOrder ==
  ASSUME NEW S, NEW s \in Seq(S), NEW sep, NEW n, NEW c, Cutting(c, n, s, sep)
  PROVE  /\ \A k \in 0..n : Nth(Cuts(s, sep), k) = c[k]
         /\ Cardinality(Cuts(s, sep)) = n + 1
<1>1. PICK m : m = n + 1
  OBVIOUS
<1>2. PICK f : f = [k \in 1..m |-> c[k - 1]]
  OBVIOUS
<1>3. Lists(f, m, Cuts(s, sep))
  BY <1>1, <1>2, CuttingLists
<1>4. Cardinality(Cuts(s, sep)) = m /\ \A k \in 1..m : Nth(Cuts(s, sep), k - 1) = f[k]
  BY <1>3, Enumeration
<1>5. n \in Nat
  BY DEF Cutting
<1>6. ASSUME NEW k \in 0..n PROVE Nth(Cuts(s, sep), k) = c[k]
  <2>1. k + 1 \in 1..m /\ (k + 1) - 1 = k
    BY <1>1, <1>5
  <2>2. QED
    BY <1>2, <1>4, <2>1
<1>7. QED
  BY <1>1, <1>4, <1>6

LEMMA SplitBy ==
  ASSUME NEW S, NEW s \in Seq(S), NEW sep, NEW n, NEW c, Cutting(c, n, s, sep)
  PROVE  /\ DOMAIN Split(s, sep) = 1..n
         /\ \A k \in 1..n : Split(s, sep)[k] = SubSeq(s, c[k - 1] + 1, c[k] - 1)
         /\ Split(s, sep) \in Seq(Seq(S)) /\ Len(Split(s, sep)) = n
<1>5. n \in Nat /\ \A k \in 0..n : c[k] \in Int
  BY DEF Cutting
<1>6. ASSUME NEW k \in 0..n PROVE Nth(Cuts(s, sep), k) = c[k]
  BY CutsInOrder
<1>7. Split(s, sep) =
        [k \in 1..(Cardinality(Cuts(s, sep)) - 1) |->
           SubSeq(s, Nth(Cuts(s, sep), k - 1) + 1, Nth(Cuts(s, sep), k) - 1)]
  BY DEF Split, Cuts
<1>8. Cardinality(Cuts(s, sep)) - 1 = n
  BY <1>5, CutsInOrder
<1>9. PICK r : r = Split(s, sep)
  OBVIOUS
<1>10. DOMAIN r = 1..n
  BY <1>7, <1>8, <1>9
<1>11. ASSUME NEW k \in 1..n PROVE r[k] = SubSeq(s, c[k - 1] + 1, c[k] - 1)
  <2>1. k \in 0..n /\ k - 1 \in 0..n
    BY <1>5
  <2>2. QED
    BY <1>6, <1>7, <1>8, <1>9, <2>1
<1>12. ASSUME NEW k \in 1..n PROVE r[k] \in Seq(S)
  <2>1. k \in 0..n /\ k - 1 \in 0..n
    BY <1>5
  <2>2. c[k - 1] + 1 \in Int /\ c[k] - 1 \in Int /\ 0 <= c[k - 1] /\ c[k] <= Len(s) + 1
    <3>1. c[k - 1] \in Int /\ c[k] \in Int
      BY <2>1 DEF Cutting
    <3>2. c[0] = 0 /\ (0 < k - 1 => c[0] < c[k - 1])
      BY <2>1 DEF Cutting
    <3>3. c[n] = Len(s) + 1 /\ (k < n => c[k] < c[n])
      BY <2>1 DEF Cutting
    <3>4. 0 <= c[k - 1]
      BY <1>5, <3>1, <3>2
    <3>5. c[k] <= Len(s) + 1
      BY <1>5, <3>1, <3>3
    <3>6. QED
      BY <3>1, <3>4, <3>5
  <2>3. SubSeq(s, c[k - 1] + 1, c[k] - 1) \in Seq(S)
    <3>1. PICK a \in Int, b \in Int : a = c[k - 1] + 1 /\ b = c[k] - 1
      BY <2>2
    <3>2. 1 <= a /\ b <= Len(s)
      BY <1>5, <2>1, <2>2, <3>1
    <3>3. QED
      BY <3>1, <3>2, SubSeqAt
  <2>4. QED
    BY <1>11, <2>3
<1>13. r \in [1..n -> Seq(S)]
  BY <1>7, <1>8, <1>9, <1>12
<1>14. r \in Seq(Seq(S)) /\ Len(r) = n
  BY <1>5, <1>13, ListType
<1>15. QED
  BY <1>9, <1>10, <1>11, <1>14

LEMMA CuttingExists ==
  ASSUME NEW S, NEW s \in Seq(S), NEW sep
  PROVE  \E n, c : Cutting(c, n, s, sep)
<1>1. PICK l \in Nat : l = Len(s) /\ DOMAIN s = 1..l
  OBVIOUS
<1>2. PICK C : C = Cuts(s, sep)
  OBVIOUS
<1>3. C \subseteq 0..(l + 1) /\ 0 \in C /\ l + 1 \in C
  BY <1>1, <1>2 DEF Cuts
<1>4. IsPlaces(C)
  <2>1. IsFiniteSet(0..(l + 1)) /\ C \in SUBSET (0..(l + 1))
    BY <1>3, FS_Interval
  <2>2. IsFiniteSet(C)
    BY <2>1, FS_Subset
  <2>3. QED
    BY <1>3, <2>2 DEF IsPlaces
<1>5. PICK m, f : Lists(f, m, C)
  BY <1>4, PlacesAreListed
<1>6. PICK i \in 1..m : f[i] = 0
  BY <1>3, <1>5 DEF Lists
<1>7. PICK j \in 1..m : f[j] = l + 1
  BY <1>3, <1>5 DEF Lists
<1>8. m \in Nat /\ \A k \in 1..m : f[k] \in C /\ f[k] \in 0..(l + 1)
  BY <1>3, <1>5 DEF Lists
<1>9. i = 1
  <2>1. 1 \in 1..m /\ f[1] \in 0..(l + 1)
    BY <1>8
  <2>2. 1 < i => f[1] < f[i]
    BY <1>5, <2>1 DEF Lists
  <2>3. QED
    BY <1>6, <2>1, <2>2
<1>10. j = m
  <2>1. m \in 1..m /\ f[m] \in 0..(l + 1)
    BY <1>8
  <2>2. j < m => f[j] < f[m]
    BY <1>5, <2>1 DEF Lists
  <2>3. QED
    BY <1>7, <1>8, <2>1, <2>2
<1>11. i # j
  BY <1>6, <1>7
<1>12. PICK n : n = m - 1
  OBVIOUS
<1>13. n \in Nat \ {0} /\ \A k \in 0..n : k + 1 \in 1..m
  BY <1>8, <1>9, <1>10, <1>11, <1>12
<1>14. PICK c : c = [k \in 0..n |-> f[k + 1]]
  OBVIOUS
<1>15. \A k \in 0..n : c[k] = f[k + 1] /\ c[k] \in C /\ c[k] \in 0..(l + 1)
  BY <1>8, <1>13, <1>14
<1>16. c \in [0..n -> Int] /\ c[0] = 0 /\ c[n] = l + 1
  BY <1>6, <1>7, <1>8, <1>9, <1>10, <1>12, <1>13, <1>14, <1>15
<1>17. ASSUME NEW x \in 0..n, NEW y \in 0..n, x < y PROVE c[x] < c[y]
  <2>1. x + 1 \in 1..m /\ y + 1 \in 1..m /\ x + 1 < y + 1
    BY <1>13, <1>17
  <2>2. f[x + 1] < f[y + 1]
    BY <1>5, <2>1 DEF Lists
  <2>3. QED
    BY <1>15, <2>2
<1>18. ASSUME NEW k \in 1..(n - 1) PROVE c[k] \in DOMAIN s /\ s[c[k]] = sep
  <2>1. k \in 0..n /\ 0 < k /\ k < n /\ 0 \in 0..n /\ n \in 0..n
    BY <1>13
  <2>2. c[0] < c[k] /\ c[k] < c[n]
    BY <1>17, <2>1
  <2>3. c[k] # 0 /\ c[k] # l + 1 /\ c[k] \in Cuts(s, sep)
    BY <1>2, <1>15, <1>16, <2>1, <2>2
  <2>4. QED
    BY <1>1, <2>3 DEF Cuts
<1>19. ASSUME NEW x \in DOMAIN s, s[x] = sep PROVE \E k \in 1..(n - 1) : c[k] = x
  <2>1. x \in C
    BY <1>2, <1>19 DEF Cuts
  <2>2. PICK y \in 1..m : f[y] = x
    BY <1>5, <2>1 DEF Lists
  <2>3. y # 1 /\ y # m
    BY <1>1, <1>6, <1>7, <1>9, <1>10, <2>2
  <2>4. y - 1 \in 1..(n - 1) /\ y - 1 \in 0..n /\ (y - 1) + 1 = y
    BY <1>8, <1>12, <2>3
  <2>5. QED
    BY <1>15, <2>2, <2>4
<1>20. Cutting(c, n, s, sep)
  BY <1>1, <1>13, <1>16, <1>17, <1>18, <1>19 DEF Cutting
<1>21. QED
  BY <1>20

LEMMA SubSeqLeft ==
  ASSUME NEW S, NEW s \in Seq(S), NEW t \in Seq(S), NEW a \in Int, NEW b \in Int,
         1 <= a, b <= Len(s)
  PROVE  SubSeq(s \o t, a, b) = SubSeq(s, a, b)
OBVIOUS

LEMMA SubSeqRight ==
  ASSUME NEW S, NEW s \in Seq(S), NEW t \in Seq(S), NEW a \in Int, NEW b \in Int,
         1 <= a, b <= Len(t), NEW x, NEW y, x = a + Len(s), y = b + Len(s)
  PROVE  SubSeq(s \o t, x, y) = SubSeq(t, a, b)
OBVIOUS

\* A text put together from what is before a place and what is behind it.
LEMMA CutAt ==
  ASSUME NEW S, NEW s \in Seq(S), NEW i \in 1..Len(s)
  PROVE  s = SubSeq(s, 1, i - 1) \o <<s[i]>> \o SubSeq(s, i + 1, Len(s))
<1>1. s = SubSeq(s, 1, i - 1) \o SubSeq(s, i, Len(s))
  OBVIOUS
<1>2. SubSeq(s, i, Len(s)) = <<s[i]>> \o SubSeq(s, i + 1, Len(s))
  OBVIOUS
<1>3. SubSeq(s, 1, i - 1) \in Seq(S)
  OBVIOUS
<1>4. SubSeq(s, i + 1, Len(s)) \in Seq(S)
  OBVIOUS
<1>5. \A x, y \in Seq(S), z \in S : x \o (<<z>> \o y) = x \o <<z>> \o y
  OBVIOUS
<1>6. s[i] \in S
  OBVIOUS
<1>7. PICK x, y, z : x = SubSeq(s, 1, i - 1) /\ y = SubSeq(s, i + 1, Len(s)) /\ z = s[i]
  OBVIOUS
<1>8. s = x \o (<<z>> \o y)
  BY <1>1, <1>2, <1>7
<1>9. x \o (<<z>> \o y) = x \o <<z>> \o y
  <2>1. x \in Seq(S) /\ y \in Seq(S) /\ z \in S
    BY <1>3, <1>4, <1>6, <1>7
  <2>2. QED
    BY <1>5, <2>1
<1>10. QED
  BY <1>7, <1>8, <1>9

\* A separator between two texts.
LEMMA With ==
  ASSUME NEW S, NEW s \in Seq(S), NEW t \in Seq(S), NEW sep \in S, NEW l, l = Len(s) + 1
  PROVE  /\ s \o <<sep>> \in Seq(S) /\ Len(s \o <<sep>>) = l
         /\ s \o <<sep>> \o t \in Seq(S)
         /\ (s \o <<sep>>) \o t = s \o (<<sep>> \o t) /\ <<sep>> \o t \in Seq(S)
         /\ Len(s \o <<sep>> \o t) = l + Len(t)
         /\ \A i \in DOMAIN s : (s \o <<sep>> \o t)[i] = s[i] /\ i \in 1..(l - 1)
         /\ (s \o <<sep>> \o t)[l] = sep
         /\ \A i \in DOMAIN t : (s \o <<sep>> \o t)[l + i] = t[i] /\ l + i \in DOMAIN (s \o <<sep>> \o t)
OBVIOUS

\* u is s and t with a separator between them.
JoinedBy(u, s, sep, t) == u = s \o <<sep>> \o t

LEMMA SplitConcat ==
  ASSUME NEW S, NEW s \in Seq(S), NEW t \in Seq(S), NEW sep \in S,
         NEW u, JoinedBy(u, s, sep, t)
  PROVE  Split(u, sep) = Split(s, sep) \o Split(t, sep)
<1>1. u = s \o <<sep>> \o t
  BY DEF JoinedBy
<1>2. PICK l : l = Len(s) + 1
  OBVIOUS
<1>3. /\ l \in Nat /\ u \in Seq(S) /\ Len(u) = l + Len(t) /\ DOMAIN u = 1..(l + Len(t))
      /\ DOMAIN s = 1..(l - 1) /\ DOMAIN t = 1..Len(t) /\ Len(t) \in Nat
      /\ \A i \in 1..(l - 1) : u[i] = s[i]
      /\ u[l] = sep
      /\ \A i \in 1..Len(t) : u[l + i] = t[i]
  <2>1. l \in Nat /\ DOMAIN s = 1..(l - 1) /\ DOMAIN t = 1..Len(t) /\ Len(t) \in Nat
    BY <1>2
  <2>2. PICK z : z = s \o <<sep>> \o t
    OBVIOUS
  <2>3. /\ z \in Seq(S) /\ Len(z) = l + Len(t) /\ z[l] = sep
        /\ \A i \in DOMAIN s : z[i] = s[i]
        /\ \A i \in DOMAIN t : z[l + i] = t[i]
    <3>1. /\ s \o <<sep>> \o t \in Seq(S) /\ Len(s \o <<sep>> \o t) = l + Len(t)
          /\ (s \o <<sep>> \o t)[l] = sep
          /\ \A i \in DOMAIN s : (s \o <<sep>> \o t)[i] = s[i]
          /\ \A i \in DOMAIN t : (s \o <<sep>> \o t)[l + i] = t[i]
      BY ONLY <1>2, s \in Seq(S), t \in Seq(S), sep \in S
    <3>2. QED
      BY <2>2, <3>1
  <2>4. z = u
    BY <1>1, <2>2
  <2>5. DOMAIN z = 1..(l + Len(t))
    BY <2>1, <2>3
  <2>6. QED
    BY ONLY <2>1, <2>3, <2>4, <2>5
<1>4. PICK n, c : Cutting(c, n, s, sep)
  BY CuttingExists
<1>5. PICK m, e : Cutting(e, m, t, sep)
  BY CuttingExists
<1>6. PICK o : o = n + m
  OBVIOUS
<1>7. PICK d : d = [k \in 0..o |-> IF k <= n THEN c[k] ELSE e[k - n] + l]
  OBVIOUS
<1>8. n \in Nat \ {0} /\ m \in Nat \ {0} /\ o \in Nat \ {0}
  BY <1>4, <1>5, <1>6 DEF Cutting
<1>9. \A k \in 0..n : k \in 0..o /\ d[k] = c[k] /\ d[k] \in 0..l
  <2> TAKE k \in 0..n
  <2>1. k \in 0..o /\ d[k] = c[k]
    BY <1>6, <1>7, <1>8
  <2>2. c[k] \in Int /\ c[0] = 0 /\ c[n] = l /\ (0 < k => c[0] < c[k]) /\ (k < n => c[k] < c[n])
    BY <1>2, <1>4 DEF Cutting
  <2>3. QED
    BY <1>3, <1>8, <2>1, <2>2
<1>10. \A k \in 0..m : n + k \in 0..o /\ d[n + k] = e[k] + l /\ e[k] \in 0..(Len(t) + 1)
  <2> TAKE k \in 0..m
  <2>1. n + k \in 0..o /\ (n + k) - n = k
    BY <1>6, <1>8
  <2>2. e[k] \in Int /\ e[0] = 0 /\ e[m] = Len(t) + 1 /\ (0 < k => e[0] < e[k]) /\ (k < m => e[k] < e[m])
    BY <1>5 DEF Cutting
  <2>3. CASE k = 0
    <3>1. d[n] = c[n] /\ c[n] = Len(s) + 1
      BY <1>4, <1>8, <1>9 DEF Cutting
    <3>2. QED
      BY <1>2, <1>3, <1>8, <2>1, <2>2, <2>3, <3>1
  <2>4. CASE k # 0
    <3>1. ~(n + k <= n)
      BY <1>8, <2>4
    <3>2. d[n + k] = e[k] + l
      BY <1>7, <2>1, <3>1
    <3>3. QED
      BY <1>3, <1>8, <2>1, <2>2, <3>2
  <2>5. QED
    BY <2>3, <2>4
<1>11. \A k \in 0..o : k \in 0..n \/ \E i \in 1..m : k = n + i
  <2> TAKE k \in 0..o
  <2>1. k \in 0..n \/ (k - n \in 1..m /\ k = n + (k - n))
    BY <1>6, <1>8
  <2>2. QED
    BY <2>1
<1>12. d \in [0..o -> Int]
  <2>1. \A k \in 0..o : d[k] \in Int
    <3> TAKE k \in 0..o
    <3>1. k \in 0..n \/ \E i \in 1..m : k = n + i
      BY <1>11
    <3>2. CASE k \in 0..n
      BY <1>3, <1>9, <3>2
    <3>3. ASSUME NEW i \in 1..m, k = n + i PROVE d[k] \in Int
      <4>1. i \in 0..m
        BY <1>8
      <4>2. d[k] = e[i] + l /\ e[i] \in Int
        BY <1>10, <3>3, <4>1
      <4>3. QED
        BY <1>3, <4>2
    <3>4. QED
      BY <3>1, <3>2, <3>3
  <2>2. QED
    BY <1>7, <2>1
<1>13. d[0] = 0 /\ d[o] = Len(u) + 1
  <2>1. c[0] = 0 /\ e[m] = Len(t) + 1
    BY <1>4, <1>5 DEF Cutting
  <2>2. 0 \in 0..n /\ m \in 0..m
    BY <1>8
  <2>3. d[0] = c[0] /\ d[n + m] = e[m] + l
    BY <1>9, <1>10, <2>2
  <2>4. QED
    BY <1>3, <1>6, <2>1, <2>3
<1>14. ASSUME NEW i \in 0..o, NEW j \in 0..o, i < j PROVE d[i] < d[j]
  <2>1. i \in 0..n \/ \E x \in 1..m : i = n + x
    BY <1>11
  <2>2. j \in 0..n \/ \E y \in 1..m : j = n + y
    BY <1>11
  <2>3. CASE i \in 0..n /\ j \in 0..n
    <3>1. c[i] < c[j]
      BY <1>4, <1>14, <2>3 DEF Cutting
    <3>2. QED
      BY <1>9, <2>3, <3>1
  <2>4. ASSUME NEW y \in 1..m, j = n + y, i \in 0..n PROVE d[i] < d[j]
    <3>1. 0 \in 0..m /\ y \in 0..m /\ 0 < y
      BY <1>8
    <3>2. e[0] < e[y] /\ e[0] = 0
      BY <1>5, <3>1 DEF Cutting
    <3>3. e[y] \in 0..(Len(t) + 1) /\ d[n + y] = e[y] + l
      BY <1>10, <3>1
    <3>4. d[i] = c[i] /\ c[i] \in 0..l /\ d[j] = d[n + y]
      BY <1>9, <2>4
    <3>5. l \in Nat /\ Len(t) \in Nat
      BY <1>3
    <3>6. PICK x, z : x = c[i] /\ z = e[y]
      OBVIOUS
    <3>7. x \in 0..l /\ z \in 0..(Len(t) + 1) /\ 0 < z /\ d[i] = x /\ d[j] = z + l
      BY <3>2, <3>3, <3>4, <3>6
    <3>8. x < z + l
      BY ONLY <3>5, <3>7
    <3>9. QED
      BY <3>7, <3>8
  <2>5. ASSUME NEW x \in 1..m, i = n + x, NEW y \in 1..m, j = n + y PROVE d[i] < d[j]
    <3>1. x < y /\ x \in 0..m /\ y \in 0..m
      BY <1>8, <1>14, <2>5
    <3>2. e[x] < e[y] /\ e[x] \in Int /\ e[y] \in Int
      BY <1>5, <3>1 DEF Cutting
    <3>3. d[i] = e[x] + l /\ d[j] = e[y] + l
      BY <1>10, <2>5, <3>1
    <3>4. QED
      BY <1>3, <3>2, <3>3
  <2>6. ASSUME NEW x \in 1..m, i = n + x, j \in 0..n PROVE FALSE
    BY <1>8, <1>14, <2>6
  <2>7. QED
    BY <2>1, <2>2, <2>3, <2>4, <2>5, <2>6
<1>15. ASSUME NEW k \in 1..(o - 1) PROVE d[k] \in DOMAIN u /\ u[d[k]] = sep
  <2>1. k \in 1..(n - 1) \/ k = n \/ \E i \in 1..(m - 1) : k = n + i
    <3>1. k \in 1..(n - 1) \/ k = n \/ (k - n \in 1..(m - 1) /\ k = n + (k - n))
      BY <1>6, <1>8
    <3>2. QED
      BY <3>1
  <2>2. CASE k \in 1..(n - 1)
    <3>1. c[k] \in DOMAIN s /\ s[c[k]] = sep /\ k \in 0..n
      BY <1>4, <1>8, <2>2 DEF Cutting
    <3>2. QED
      BY <1>3, <1>9, <3>1
  <2>3. CASE k = n
    <3>1. d[n] = c[n] /\ c[n] = l
      BY <1>2, <1>4, <1>8, <1>9 DEF Cutting
    <3>2. l \in DOMAIN u /\ u[l] = sep
      BY <1>2, <1>3
    <3>3. d[k] = l
      BY <2>3, <3>1
    <3>4. QED
      BY <3>2, <3>3
  <2>4. ASSUME NEW i \in 1..(m - 1), k = n + i PROVE d[k] \in DOMAIN u /\ u[d[k]] = sep
    <3>1. e[i] \in 1..Len(t) /\ t[e[i]] = sep /\ i \in 0..m
      <4>1. e[i] \in DOMAIN t /\ t[e[i]] = sep
        BY <1>5 DEF Cutting
      <4>2. i \in 0..m
        BY <1>8
      <4>3. QED
        BY <1>3, <4>1, <4>2
    <3>2. d[k] = l + e[i]
      BY <1>3, <1>10, <2>4, <3>1
    <3>3. QED
      BY <1>3, <3>1, <3>2
  <2>5. QED
    BY <2>1, <2>2, <2>3, <2>4
<1>16. ASSUME NEW i \in DOMAIN u, u[i] = sep PROVE \E k \in 1..(o - 1) : d[k] = i
  <2>1. i \in 1..(l - 1) \/ i = l \/ \E j \in 1..Len(t) : i = l + j
    <3>1. i \in 1..(l - 1) \/ i = l \/ (i - l \in 1..Len(t) /\ i = l + (i - l))
      BY <1>2, <1>3
    <3>2. QED
      BY <3>1
  <2>2. CASE i \in 1..(l - 1)
    <3>1. PICK k \in 1..(n - 1) : c[k] = i
      BY <1>3, <1>4, <1>16, <2>2 DEF Cutting
    <3>2. k \in 1..(o - 1) /\ k \in 0..n
      BY <1>6, <1>8
    <3>3. QED
      BY <1>9, <3>1, <3>2
  <2>3. CASE i = l
    <3>1. n \in 1..(o - 1) /\ n \in 0..n
      BY <1>6, <1>8
    <3>2. c[n] = l
      BY <1>2, <1>4 DEF Cutting
    <3>3. QED
      BY <1>9, <2>3, <3>1, <3>2
  <2>4. ASSUME NEW j \in 1..Len(t), i = l + j PROVE \E k \in 1..(o - 1) : d[k] = i
    <3>1. PICK k \in 1..(m - 1) : e[k] = j
      BY <1>3, <1>5, <1>16, <2>4 DEF Cutting
    <3>2. n + k \in 1..(o - 1) /\ k \in 0..m
      BY <1>6, <1>8
    <3>3. d[n + k] = i
      BY <1>3, <1>10, <2>4, <3>1, <3>2
    <3>4. QED
      BY <3>2, <3>3
  <2>5. QED
    BY <2>1, <2>2, <2>3, <2>4
<1>17. Cutting(d, o, u, sep)
  BY <1>8, <1>12, <1>13, <1>14, <1>15, <1>16 DEF Cutting
<1>18. PICK p : /\ p = Split(s, sep) /\ p \in Seq(Seq(S)) /\ Len(p) = n
                /\ \A k \in 1..n : p[k] = SubSeq(s, c[k - 1] + 1, c[k] - 1)
  BY <1>4, SplitBy
<1>19. PICK q : /\ q = Split(t, sep) /\ q \in Seq(Seq(S)) /\ Len(q) = m
                /\ \A k \in 1..m : q[k] = SubSeq(t, e[k - 1] + 1, e[k] - 1)
  BY <1>5, SplitBy
<1>20. PICK r : /\ r = Split(u, sep) /\ r \in Seq(Seq(S)) /\ Len(r) = o
                /\ \A k \in 1..o : r[k] = SubSeq(u, d[k - 1] + 1, d[k] - 1)
  <2>1. u \in Seq(S)
    BY <1>3
  <2>2. PICK r : r = Split(u, sep)
    OBVIOUS
  <2>3. /\ Split(u, sep) \in Seq(Seq(S)) /\ Len(Split(u, sep)) = o
        /\ \A k \in 1..o : Split(u, sep)[k] = SubSeq(u, d[k - 1] + 1, d[k] - 1)
    BY ONLY <1>17, <2>1, SplitBy
  <2>4. QED
    BY <2>2, <2>3
<1>21. /\ p \o q \in Seq(Seq(S)) /\ Len(p \o q) = o
       /\ \A k \in 1..n : (p \o q)[k] = p[k]
       /\ \A k \in 1..m : (p \o q)[n + k] = q[k]
  <2>1. PICK T : T = Seq(S)
    OBVIOUS
  <2>2. p \in Seq(T) /\ q \in Seq(T) /\ n = Len(p) /\ m = Len(q)
    BY <1>18, <1>19, <2>1
  <2>3. /\ p \o q \in Seq(T) /\ Len(p \o q) = o
        /\ \A k \in 1..n : (p \o q)[k] = p[k]
        /\ \A k \in 1..m : (p \o q)[n + k] = q[k]
    BY ONLY <1>6, <2>2, ConcatAt
  <2>4. QED
    BY ONLY <2>1, <2>3
<1>22. ASSUME NEW k \in 1..n PROVE r[k] = p[k]
  <2>1. k \in 0..n /\ k - 1 \in 0..n /\ k \in 1..o
    BY <1>6, <1>8
  <2>2. PICK a \in Int, b \in Int : a = c[k - 1] + 1 /\ b = c[k] - 1
    <3>1. c[k - 1] \in 0..l /\ c[k] \in 0..l
      BY <1>9, <2>1
    <3>2. c[k - 1] + 1 \in Int /\ c[k] - 1 \in Int
      BY ONLY <3>1
    <3>3. QED
      BY <3>2
  <2>3. 1 <= a /\ b <= Len(s) /\ a = d[k - 1] + 1 /\ b = d[k] - 1
    <3>1. d[k - 1] = c[k - 1] /\ d[k] = c[k] /\ c[k - 1] \in 0..l /\ c[k] \in 0..l
      BY <1>9, <2>1
    <3>2. l \in Nat /\ l = Len(s) + 1 /\ Len(s) \in Nat
      BY <1>2, <1>3
    <3>3. PICK x, y : x = c[k - 1] /\ y = c[k]
      OBVIOUS
    <3>4. /\ x \in 0..l /\ y \in 0..l /\ a = x + 1 /\ b = y - 1 /\ d[k - 1] = x /\ d[k] = y
      BY <2>2, <3>1, <3>3
    <3>5. 1 <= a /\ b <= Len(s)
      BY ONLY <3>2, <3>4
    <3>6. QED
      BY <3>4, <3>5
  <2>4. PICK v : v = <<sep>> \o t /\ v \in Seq(S) /\ u = s \o v
    <3>1. <<sep>> \o t \in Seq(S) /\ s \o <<sep>> \o t = s \o (<<sep>> \o t)
      OBVIOUS
    <3>2. QED
      BY <1>1, <3>1
  <2>5. SubSeq(s \o v, a, b) = SubSeq(s, a, b)
    <3>1. s \in Seq(S) /\ v \in Seq(S) /\ a \in Int /\ b \in Int /\ 1 <= a /\ b <= Len(s)
      BY <2>3, <2>4
    <3>2. QED
      BY ONLY <3>1, SubSeqLeft
  <2>6. r[k] = SubSeq(u, a, b) /\ p[k] = SubSeq(s, a, b)
    <3>1. r[k] = SubSeq(u, d[k - 1] + 1, d[k] - 1)
      BY <1>20, <2>1
    <3>2. p[k] = SubSeq(s, c[k - 1] + 1, c[k] - 1)
      BY <1>18
    <3>3. QED
      BY <2>2, <2>3, <3>1, <3>2
  <2>7. QED
    BY <2>4, <2>5, <2>6
<1>23. ASSUME NEW k \in 1..m PROVE r[n + k] = q[k]
  <2>1. k \in 0..m /\ k - 1 \in 0..m /\ n + k \in 1..o /\ (n + k) - 1 = n + (k - 1)
    BY <1>6, <1>8
  <2>2. PICK a \in Int, b \in Int : a = e[k - 1] + 1 /\ b = e[k] - 1
    <3>1. e[k - 1] \in 0..(Len(t) + 1) /\ e[k] \in 0..(Len(t) + 1)
      BY <1>10, <2>1
    <3>2. e[k - 1] + 1 \in Int /\ e[k] - 1 \in Int
      BY ONLY <3>1
    <3>3. QED
      BY <3>2
  <2>3. 1 <= a /\ b <= Len(t) /\ a + l = d[n + (k - 1)] + 1 /\ b + l = d[n + k] - 1
    <3>1. /\ d[n + k] = e[k] + l /\ e[k] \in 0..(Len(t) + 1)
          /\ d[n + (k - 1)] = e[k - 1] + l /\ e[k - 1] \in 0..(Len(t) + 1)
      BY <1>10, <2>1
    <3>2. l \in Nat /\ Len(t) \in Nat
      BY <1>3
    <3>3. PICK x, y : x = e[k - 1] /\ y = e[k]
      OBVIOUS
    <3>4. /\ d[n + k] = y + l /\ y \in 0..(Len(t) + 1) /\ b = y - 1
          /\ d[n + (k - 1)] = x + l /\ x \in 0..(Len(t) + 1) /\ a = x + 1
      BY <2>2, <3>1, <3>3
    <3>5. 1 <= a /\ b <= Len(t) /\ a + l = (x + l) + 1 /\ b + l = (y + l) - 1
      BY <3>2, <3>4
    <3>6. QED
      BY <3>4, <3>5
  <2>4. s \o <<sep>> \in Seq(S) /\ Len(s \o <<sep>>) = l
    BY <1>2, With
  <2>5. SubSeq((s \o <<sep>>) \o t, a + l, b + l) = SubSeq(t, a, b)
    <3>1. PICK v : v = s \o <<sep>>
      OBVIOUS
    <3>2. PICK x, y : x = a + Len(v) /\ y = b + Len(v)
      OBVIOUS
    <3>3. v \in Seq(S) /\ x = a + l /\ y = b + l
      BY <2>4, <3>1, <3>2
    <3>4. SubSeq(v \o t, x, y) = SubSeq(t, a, b)
      BY <2>3, <3>2, <3>3, SubSeqRight
    <3>5. QED
      BY <3>1, <3>3, <3>4
  <2>6. r[n + k] = SubSeq(u, d[n + (k - 1)] + 1, d[n + k] - 1) /\ q[k] = SubSeq(t, a, b)
    BY <1>19, <1>20, <2>1, <2>2
  <2>7. QED
    BY <1>1, <2>3, <2>5, <2>6
<1>24. \A k \in 1..o : r[k] = (p \o q)[k]
  <2> TAKE k \in 1..o
  <2>1. k \in 1..n \/ \E i \in 1..m : k = n + i
    <3>1. k \in 0..o /\ k # 0
      BY <1>8
    <3>2. k \in 0..n => k \in 1..n
      BY <1>8, <3>1
    <3>3. QED
      BY <1>11, <3>1, <3>2
  <2>2. QED
    BY <1>21, <1>22, <1>23, <2>1
<1>25. r = p \o q
  BY <1>20, <1>21, <1>24, SeqEqual
<1>26. QED
  BY <1>1, <1>18, <1>19, <1>20, <1>25

\* A text without the separator is its only piece, and no piece holds it.
LEMMA SplitWhole ==
  ASSUME NEW S, NEW s \in Seq(S), NEW sep, sep \notin LexemesOf(s)
  PROVE  Split(s, sep) = <<s>>
<1>1. PICK n, c : Cutting(c, n, s, sep)
  BY CuttingExists
<1>2. n \in Nat \ {0} /\ c[0] = 0 /\ c[n] = Len(s) + 1
  BY <1>1 DEF Cutting
<1>3. n = 1
  <2>1. 1 \notin 1..(n - 1)
    BY <1>1 DEF Cutting, LexemesOf
  <2>2. QED
    BY <1>2, <2>1
<1>4. PICK r : /\ r = Split(s, sep) /\ r \in Seq(Seq(S)) /\ Len(r) = n
               /\ \A k \in 1..n : r[k] = SubSeq(s, c[k - 1] + 1, c[k] - 1)
  BY <1>1, SplitBy
<1>5. r[1] = SubSeq(s, 1, Len(s))
  <2>1. r[1] = SubSeq(s, c[1 - 1] + 1, c[1] - 1)
    BY <1>3, <1>4
  <2>2. c[1 - 1] + 1 = 1 /\ c[1] - 1 = Len(s)
    BY <1>2, <1>3
  <2>3. QED
    BY <2>1, <2>2
<1>6. SubSeq(s, 1, Len(s)) = s
  OBVIOUS
<1>7. r = <<s>>
  BY <1>3, <1>4, <1>5, <1>6
<1>8. QED
  BY <1>4, <1>7

LEMMA SplitType ==
  ASSUME NEW S, NEW s \in Seq(S), NEW sep
  PROVE  /\ Split(s, sep) \in Seq(Seq(S))
         /\ \A k \in DOMAIN Split(s, sep) :
              /\ sep \notin LexemesOf(Split(s, sep)[k])
              /\ LexemesOf(Split(s, sep)[k]) \subseteq LexemesOf(s)
<1>1. PICK n, c : Cutting(c, n, s, sep)
  BY CuttingExists
<1>2. PICK r : /\ r = Split(s, sep) /\ r \in Seq(Seq(S)) /\ DOMAIN r = 1..n
               /\ \A k \in 1..n : r[k] = SubSeq(s, c[k - 1] + 1, c[k] - 1)
  BY <1>1, SplitBy
<1>3. ASSUME NEW k \in 1..n
      PROVE  sep \notin LexemesOf(r[k]) /\ LexemesOf(r[k]) \subseteq LexemesOf(s)
  <2>1. k \in 0..n /\ k - 1 \in 0..n /\ 0 \in 0..n /\ n \in 0..n /\ n \in Nat
    BY <1>1 DEF Cutting
  <2>2. PICK a \in Int, b \in Int : a = c[k - 1] + 1 /\ b = c[k] - 1
    <3>1. c[k - 1] \in Int /\ c[k] \in Int
      BY <1>1, <2>1 DEF Cutting
    <3>2. QED
      BY <3>1
  <2>3. c[0] = 0 /\ c[n] = Len(s) + 1 /\ (0 < k - 1 => c[0] < c[k - 1]) /\ (k < n => c[k] < c[n])
    BY <1>1, <2>1 DEF Cutting
  <2>4. c[k - 1] \in Int /\ c[k] \in Int /\ c[k - 1] < c[k]
    BY <1>1, <2>1 DEF Cutting
  <2>5. 1 <= a /\ b <= Len(s) /\ a <= b + 1
    <3>1. PICK x \in Int, y \in Int, f \in Int, g \in Int :
            x = c[k - 1] /\ y = c[k] /\ f = c[0] /\ g = c[n]
      <4>1. c[0] \in Int /\ c[n] \in Int
        BY <2>3
      <4>2. QED
        BY <2>4, <4>1
    <3>2. k \in 1..n /\ n \in Nat /\ Len(s) \in Nat
      BY <2>1
    <3>3. /\ k = 1 => x = f
          /\ k = n => y = g
      BY <3>1
    <3>4. /\ f = 0 /\ g = Len(s) + 1 /\ (0 < k - 1 => f < x) /\ (k < n => y < g)
          /\ x < y /\ a = x + 1 /\ b = y - 1
      BY <2>2, <2>3, <2>4, <3>1
    <3>5. QED
      BY ONLY <3>2, <3>3, <3>4, x \in Int, y \in Int
  <2>6. /\ SubSeq(s, a, b) \in Seq(S) /\ Len(SubSeq(s, a, b)) = (b - a) + 1
        /\ \A i \in 1..((b - a) + 1) : SubSeq(s, a, b)[i] = s[(a + i) - 1]
    BY <2>5, SubSeqAt
  <2>7. \A i \in DOMAIN r[k] : r[k][i] = s[(a + i) - 1] /\ (a + i) - 1 \in DOMAIN s /\ i \in 1..((b - a) + 1)
    <3>1. PICK w : w = SubSeq(s, a, b)
      OBVIOUS
    <3>2. w = r[k]
      BY <1>2, <2>2, <3>1
    <3>3. DOMAIN w = 1..((b - a) + 1) /\ \A i \in 1..((b - a) + 1) : w[i] = s[(a + i) - 1]
      BY <2>6, <3>1
    <3>4. \A i \in 1..((b - a) + 1) : (a + i) - 1 \in 1..Len(s)
      BY <2>5
    <3>5. DOMAIN s = 1..Len(s)
      OBVIOUS
    <3>6. QED
      BY ONLY <3>2, <3>3, <3>4, <3>5
  <2>8. ASSUME NEW j \in DOMAIN s, a <= j, j <= b PROVE s[j] # sep
    <3>1. SUFFICES ASSUME s[j] = sep PROVE FALSE
      OBVIOUS
    <3>2. PICK i \in 1..(n - 1) : c[i] = j
      BY <1>1, <3>1 DEF Cutting
    <3>3. i \in 0..n /\ j \in Int
      BY <2>1
    <3>4. c[k - 1] < c[i] /\ c[i] < c[k]
      BY <2>2, <2>4, <2>8, <3>2, <3>3
    <3>5. (i <= k - 1 => i = k - 1 \/ c[i] < c[k - 1]) /\ (k <= i => i = k \/ c[k] < c[i])
      BY <1>1, <2>1, <3>3 DEF Cutting
    <3>6. c[i] \in Int
      BY <3>2, <3>3
    <3>7. QED
      BY <2>1, <2>4, <3>3, <3>4, <3>5, <3>6
  <2>9. \A i \in DOMAIN r[k] : r[k][i] # sep
    <3> TAKE i \in DOMAIN r[k]
    <3>1. PICK j : j = (a + i) - 1
      OBVIOUS
    <3>2. j \in DOMAIN s /\ a <= j /\ j <= b /\ r[k][i] = s[j]
      BY <2>5, <2>7, <3>1
    <3>3. QED
      BY <2>8, <3>2
  <2>10. QED
    BY <2>7, <2>9 DEF LexemesOf
<1>4. QED
  BY <1>2, <1>3

-----------------------------------------------------------------------------
(* Splitting once. *)

LEMMA BeforeAfter ==
  ASSUME NEW S, NEW s \in Seq(S), NEW t \in Seq(S), NEW sep \in S,
         sep \notin LexemesOf(s)
  PROVE  Before(s \o <<sep>> \o t, sep) = s /\ After(s \o <<sep>> \o t, sep) = t
<1>1. PICK u : u = s \o <<sep>> \o t
  OBVIOUS
<1>2. PICK l : l = Len(s) + 1
  OBVIOUS
<1>3. /\ l \in Nat \ {0} /\ u \in Seq(S) /\ Len(u) = l + Len(t) /\ Len(t) \in Nat
      /\ DOMAIN s = 1..(l - 1)
      /\ \A i \in 1..(l - 1) : u[i] = s[i]
      /\ u[l] = sep
  <2>1. /\ s \o <<sep>> \o t \in Seq(S) /\ Len(s \o <<sep>> \o t) = l + Len(t)
        /\ \A i \in DOMAIN s : (s \o <<sep>> \o t)[i] = s[i]
        /\ (s \o <<sep>> \o t)[l] = sep
    BY <1>2, With
  <2>2. l \in Nat \ {0} /\ Len(t) \in Nat /\ DOMAIN s = 1..(l - 1)
    BY <1>2
  <2>3. QED
    BY <1>1, <2>1, <2>2
<1>4. \A i \in 1..(l - 1) : u[i] # sep
  BY <1>3 DEF LexemesOf
<1>5. FirstPlace(u, sep) = l
  <2>1. l \in 1..(Len(u) + 1)
    BY <1>3
  <2>2. ASSUME NEW i \in 1..(Len(u) + 1), \A j \in 1..(i - 1) : u[j] # sep,
               i <= Len(u) => u[i] = sep
        PROVE  i = l
    <3>1. ~(l < i)
      BY <1>3, <2>2
    <3>2. ~(i < l)
      BY <1>3, <1>4, <2>2
    <3>3. QED
      BY <1>3, <3>1, <3>2
  <2>3. QED
    BY <1>3, <1>4, <2>1, <2>2 DEF FirstPlace
<1>6. Before(u, sep) = SubSeq(u, 1, l - 1) /\ After(u, sep) = SubSeq(u, l + 1, Len(u))
  BY <1>5 DEF Before, After
<1>7. SubSeq(u, 1, l - 1) = s
  <2>1. <<sep>> \o t \in Seq(S) /\ s \o <<sep>> \o t = s \o (<<sep>> \o t)
    OBVIOUS
  <2>2. PICK v : v = <<sep>> \o t /\ v \in Seq(S) /\ u = s \o v
    BY <1>1, <2>1
  <2>3. SubSeq(s \o v, 1, Len(s)) = SubSeq(s, 1, Len(s))
    BY <2>2, SubSeqLeft
  <2>4. SubSeq(s, 1, Len(s)) = s
    OBVIOUS
  <2>5. l - 1 = Len(s)
    BY <1>2
  <2>6. QED
    BY <2>2, <2>3, <2>4, <2>5
<1>8. SubSeq(u, l + 1, Len(u)) = t
  <2>1. PICK v : v = s \o <<sep>> /\ v \in Seq(S) /\ Len(v) = l /\ u = v \o t
    <3>1. s \o <<sep>> \in Seq(S) /\ Len(s \o <<sep>>) = l
      BY <1>2, With
    <3>2. QED
      BY <1>1, <3>1
  <2>2. PICK x, y : x = 1 + Len(v) /\ y = Len(t) + Len(v)
    OBVIOUS
  <2>3. SubSeq(v \o t, x, y) = SubSeq(t, 1, Len(t))
    BY <1>3, <2>1, <2>2, SubSeqRight
  <2>4. SubSeq(t, 1, Len(t)) = t
    OBVIOUS
  <2>5. x = l + 1 /\ y = Len(u)
    BY <1>3, <2>1, <2>2
  <2>6. QED
    BY <2>1, <2>3, <2>4, <2>5
<1>9. QED
  BY <1>1, <1>6, <1>7, <1>8

LEMMA BeforeWhole ==
  ASSUME NEW S, NEW s \in Seq(S), NEW sep, sep \notin LexemesOf(s)
  PROVE  Before(s, sep) = s /\ After(s, sep) = <<>>
<1>1. PICK l \in Nat : l = Len(s) /\ DOMAIN s = 1..l
  OBVIOUS
<1>2. \A i \in 1..l : s[i] # sep
  BY <1>1 DEF LexemesOf
<1>3. FirstPlace(s, sep) = l + 1
  <2>1. l + 1 \in 1..(Len(s) + 1) /\ ~(l + 1 <= Len(s))
    BY <1>1
  <2>2. \A i \in 1..(Len(s) + 1) : (i <= Len(s) => s[i] = sep) => i = l + 1
    BY <1>1, <1>2
  <2>3. \A j \in 1..((l + 1) - 1) : s[j] # sep
    BY <1>2
  <2>4. QED
    BY <2>1, <2>2, <2>3 DEF FirstPlace
<1>4. SubSeq(s, 1, l) = s /\ SubSeq(s, (l + 1) + 1, l) = <<>> /\ (l + 1) - 1 = l
  BY <1>1
<1>5. QED
  BY <1>1, <1>3, <1>4 DEF Before, After

LEMMA FirstOfPlaces ==
  ASSUME NEW places, IsPlaces(places), places # {}
  PROVE  \E i \in places : /\ \A j \in places : i <= j
                           /\ Nth(places, 0) = i
<1>1. PICK n, f : Lists(f, n, places)
  BY PlacesAreListed
<1>2. n # 0 /\ n \in Nat
  BY <1>1 DEF Lists
<1>3. Nth(places, 1 - 1) = f[1] /\ f[1] \in places
  <2>1. 1 \in 1..n
    BY <1>2
  <2>2. f[1] \in places
    BY <1>1, <2>1 DEF Lists
  <2>3. QED
    BY <1>1, <2>1, <2>2, Enumeration
<1>4. ASSUME NEW j \in places PROVE f[1] <= j
  <2>1. PICK k \in 1..n : f[k] = j
    BY <1>1 DEF Lists
  <2>2. 1 < k => f[1] < f[k]
    BY <1>1, <1>2 DEF Lists
  <2>3. f[1] \in Int /\ f[k] \in Int
    BY <1>1, <1>2 DEF Lists
  <2>4. QED
    BY <1>2, <2>1, <2>2, <2>3
<1>5. QED
  BY <1>3, <1>4

LEMMA LastOfPlaces ==
  ASSUME NEW places, IsPlaces(places), places # {}
  PROVE  \E i \in places : /\ \A j \in places : j <= i
                           /\ Nth(places, Cardinality(places) - 1) = i
<1>1. PICK n, f : Lists(f, n, places)
  BY PlacesAreListed
<1>2. n \in 1..n /\ n \in Nat
  BY <1>1 DEF Lists
<1>3. Nth(places, n - 1) = f[n] /\ f[n] \in places /\ Cardinality(places) = n
  <2>1. f[n] \in places
    BY <1>1, <1>2 DEF Lists
  <2>2. QED
    BY <1>1, <1>2, <2>1, Enumeration
<1>4. ASSUME NEW j \in places PROVE j <= f[n]
  <2>1. PICK k \in 1..n : f[k] = j
    BY <1>1 DEF Lists
  <2>2. k < n => f[k] < f[n]
    BY <1>1, <1>2 DEF Lists
  <2>3. f[n] \in Int /\ f[k] \in Int
    BY <1>1, <1>2 DEF Lists
  <2>4. QED
    BY <1>2, <2>1, <2>2, <2>3
<1>5. QED
  BY <1>3, <1>4

\* A text with a separator is what is before its first, and what is after it.
LEMMA SplitOnce ==
  ASSUME NEW S, NEW s \in Seq(S), NEW sep, sep \in LexemesOf(s)
  PROVE  /\ Before(s, sep) \in Seq(S) /\ After(s, sep) \in Seq(S) /\ sep \in S
         /\ s = Before(s, sep) \o <<sep>> \o After(s, sep)
         /\ sep \notin LexemesOf(Before(s, sep))
<1>1. PICK l \in Nat : l = Len(s) /\ DOMAIN s = 1..l
  OBVIOUS
<1>2. PICK places : places = {i \in DOMAIN s : s[i] = sep}
  OBVIOUS
<1>3. IsPlaces(places) /\ places # {}
  BY <1>2, PlacesInText DEF LexemesOf
<1>4. PICK i \in places : \A j \in places : i <= j
  BY <1>3, FirstOfPlaces
<1>5. i \in 1..l /\ s[i] = sep /\ sep \in S
  BY <1>1, <1>2
<1>6. \A j \in 1..(i - 1) : s[j] # sep
  BY <1>1, <1>2, <1>4, <1>5
<1>7. PICK x : x = SubSeq(s, 1, i - 1)
  OBVIOUS
<1>8. PICK y : y = SubSeq(s, i + 1, l)
  OBVIOUS
<1>9. x \in Seq(S) /\ Len(x) = i - 1 /\ \A k \in 1..(i - 1) : x[k] = s[k]
  BY <1>1, <1>5, <1>7
<1>10. y \in Seq(S) /\ Len(y) = l - i /\ \A k \in 1..(l - i) : y[k] = s[i + k]
  BY <1>1, <1>5, <1>8
<1>11. sep \notin LexemesOf(x)
  BY <1>6, <1>9 DEF LexemesOf
<1>12. s = x \o <<sep>> \o y
  BY <1>1, <1>5, <1>7, <1>8, CutAt
<1>13. Before(s, sep) = x /\ After(s, sep) = y
  BY <1>5, <1>9, <1>10, <1>11, <1>12, BeforeAfter
<1>14. QED
  BY <1>5, <1>9, <1>10, <1>11, <1>12, <1>13

-----------------------------------------------------------------------------
(* Trimming. *)

IsBlank(s)   == LexemesOf(s) \subseteq Blanks
IsTrimmed(s) == s # <<>> => s[1] \notin Blanks /\ s[Len(s)] \notin Blanks

\* There is one way to part a text in blanks, what is left of it, and blanks.
LEMMA TrimBy ==
  ASSUME NEW S, NEW x \in Seq(S), NEW m \in Seq(S), NEW y \in Seq(S),
         IsBlank(x), IsTrimmed(m), IsBlank(y)
  PROVE  Trim(x \o m \o y) = m
<1>1. PICK s : s = x \o m \o y
  OBVIOUS
<1>2. PICK a \in Nat, b \in Nat, c \in Nat : a = Len(x) /\ b = Len(m) /\ c = Len(y)
  OBVIOUS
<1>3. s \in Seq(S) /\ Len(s) = (a + b) + c
  BY <1>1, <1>2
<1>4. \A i \in 1..a : s[i] = x[i]
  BY <1>1, <1>2
<1>5. \A i \in 1..b : s[a + i] = m[i]
  BY <1>1, <1>2
<1>6. \A i \in 1..c : s[(a + b) + i] = y[i]
  BY <1>1, <1>2
<1>7. \A i \in 1..a : s[i] \in Blanks
  BY <1>2, <1>4 DEF IsBlank, LexemesOf
<1>8. \A i \in 1..c : s[(a + b) + i] \in Blanks
  BY <1>2, <1>6 DEF IsBlank, LexemesOf
<1>9. \A i \in DOMAIN s : i \in Int /\ (i <= a => i \in 1..a)
                          /\ (a + b < i => i - (a + b) \in 1..c /\ (a + b) + (i - (a + b)) = i)
  BY <1>3
<1>10. \A i \in InkedPlaces(s) : i \in Int /\ a < i /\ i <= a + b
  <2> TAKE i \in InkedPlaces(s)
  <2>1. i \in DOMAIN s /\ s[i] \notin Blanks
    BY DEF InkedPlaces
  <2>2. ~(i <= a)
    BY <1>7, <1>9, <2>1
  <2>3. ~(a + b < i)
    <3>1. SUFFICES ASSUME a + b < i PROVE FALSE
      OBVIOUS
    <3>2. PICK j \in 1..c : (a + b) + j = i
      BY <1>9, <2>1, <3>1
    <3>3. QED
      BY <1>8, <2>1, <3>2
  <2>4. QED
    BY <1>9, <2>1, <2>2, <2>3
<1>11. CASE m = <<>>
  <2>1. b = 0
    BY <1>2, <1>11
  <2>2. InkedPlaces(s) = {}
    BY <1>10, <2>1
  <2>3. QED
    BY <1>1, <1>11, <2>2 DEF Trim
<1>12. CASE m # <<>>
  <2>1. 1 <= b /\ 1 \in 1..b /\ b \in 1..b
    BY <1>2, <1>12
  <2>2. s[a + 1] \notin Blanks /\ s[a + b] \notin Blanks
    BY <1>2, <1>5, <1>12, <2>1 DEF IsTrimmed
  <2>3. a + 1 \in DOMAIN s /\ a + b \in DOMAIN s
    BY <1>3, <2>1
  <2>4. a + 1 \in InkedPlaces(s) /\ a + b \in InkedPlaces(s)
    BY <2>2, <2>3 DEF InkedPlaces
  <2>5. PICK P : P = InkedPlaces(s)
    OBVIOUS
  <2>6. IsPlaces(P) /\ P # {}
    BY <1>3, <2>4, <2>5, PlacesInText DEF InkedPlaces
  <2>7. PICK i \in P : (\A j \in P : i <= j) /\ Nth(P, 0) = i
    BY <2>6, FirstOfPlaces
  <2>8. PICK k \in P : (\A j \in P : j <= k) /\ Nth(P, Cardinality(P) - 1) = k
    BY <2>6, LastOfPlaces
  <2>9. i = a + 1 /\ k = a + b
    BY <1>10, <2>4, <2>5, <2>7, <2>8
  <2>10. Trim(s) = SubSeq(s, a + 1, a + b)
    BY <2>5, <2>6, <2>7, <2>8, <2>9 DEF Trim
  <2>11. SubSeq(s, a + 1, a + b) = m
    <3>1. PICK w : w = SubSeq(s, a + 1, a + b)
      OBVIOUS
    <3>2. w \in Seq(S) /\ Len(w) = b /\ \A j \in 1..b : w[j] = s[a + j]
      BY <1>3, <2>1, <3>1
    <3>3. w = m
      BY <1>2, <1>5, <3>2, SeqEqual
    <3>4. QED
      BY <3>1, <3>3
  <2>12. QED
    BY <1>1, <2>10, <2>11
<1>13. QED
  BY <1>11, <1>12

\* And there is such a way.
Margins(s, x, y) == IsBlank(x) /\ IsBlank(y) /\ s = x \o Trim(s) \o y

LEMMA TrimParts ==
  ASSUME NEW S, NEW s \in Seq(S)
  PROVE  /\ Trim(s) \in Seq(S) /\ IsTrimmed(Trim(s))
         /\ \E x, y \in Seq(S) : Margins(s, x, y)
<1>1. PICK l \in Nat : l = Len(s) /\ DOMAIN s = 1..l
  OBVIOUS
<1>2. PICK P : P = InkedPlaces(s)
  OBVIOUS
<1>3. IsPlaces(P) /\ P \subseteq 1..l
  BY <1>1, <1>2, PlacesInText DEF InkedPlaces
<1>4. CASE P = {}
  <2>1. Trim(s) = <<>>
    BY <1>2, <1>4 DEF Trim
  <2>2. IsBlank(s) /\ IsBlank(<<>>)
    BY <1>2, <1>4 DEF InkedPlaces, IsBlank, LexemesOf
  <2>3. s = s \o <<>> \o <<>> /\ <<>> \in Seq(S)
    OBVIOUS
  <2>4. Margins(s, s, <<>>)
    BY <2>1, <2>2, <2>3 DEF Margins
  <2>5. QED
    BY <2>1, <2>3, <2>4 DEF IsTrimmed
<1>5. CASE P # {}
  <2>1. PICK i \in P : (\A j \in P : i <= j) /\ Nth(P, 0) = i
    BY <1>3, <1>5, FirstOfPlaces
  <2>2. PICK k \in P : (\A j \in P : j <= k) /\ Nth(P, Cardinality(P) - 1) = k
    BY <1>3, <1>5, LastOfPlaces
  <2>3. Trim(s) = SubSeq(s, i, k)
    BY <1>2, <1>5, <2>1, <2>2 DEF Trim
  <2>4. i \in 1..l /\ k \in 1..l /\ i <= k
    BY <1>3, <2>1
  <2>5. PICK x : x = SubSeq(s, 1, i - 1)
    OBVIOUS
  <2>6. PICK m : m = SubSeq(s, i, k)
    OBVIOUS
  <2>7. PICK y : y = SubSeq(s, k + 1, l)
    OBVIOUS
  <2>8. x \in Seq(S) /\ Len(x) = i - 1 /\ \A j \in 1..(i - 1) : x[j] = s[j]
    BY <1>1, <2>4, <2>5
  <2>9. m \in Seq(S) /\ Len(m) = (k - i) + 1 /\ \A j \in 1..((k - i) + 1) : m[j] = s[(i - 1) + j]
    BY <1>1, <2>4, <2>6
  <2>10. y \in Seq(S) /\ Len(y) = l - k /\ \A j \in 1..(l - k) : y[j] = s[k + j]
    BY <1>1, <2>4, <2>7
  <2>11. \A j \in 1..l : j < i \/ k < j => s[j] \in Blanks
    BY <1>1, <1>2, <2>1, <2>2, <2>4 DEF InkedPlaces
  <2>12. IsBlank(x) /\ IsBlank(y)
    <3>1. \A j \in 1..(i - 1) : j \in 1..l /\ j < i
      BY <2>4
    <3>2. \A j \in 1..(l - k) : k + j \in 1..l /\ k < k + j
      BY <2>4
    <3>3. DOMAIN x = 1..(i - 1) /\ DOMAIN y = 1..(l - k)
      BY <2>4, <2>8, <2>10
    <3>4. (\A j \in DOMAIN x : x[j] \in Blanks) /\ (\A j \in DOMAIN y : y[j] \in Blanks)
      BY <2>8, <2>10, <2>11, <3>1, <3>2, <3>3
    <3>5. QED
      BY <3>4 DEF IsBlank, LexemesOf
  <2>13. IsTrimmed(m)
    <3>1. s[i] \notin Blanks /\ s[k] \notin Blanks
      BY <1>2, <2>1, <2>2 DEF InkedPlaces
    <3>2. m[1] = s[i] /\ m[(k - i) + 1] = s[k]
      BY <2>4, <2>9
    <3>3. QED
      BY <2>9, <3>1, <3>2 DEF IsTrimmed
  <2>14. s = x \o m \o y
    <3>1. PICK v : v = x \o m
      OBVIOUS
    <3>2. /\ v \in Seq(S) /\ Len(v) = k
          /\ \A j \in 1..(i - 1) : v[j] = x[j]
          /\ \A j \in 1..((k - i) + 1) : v[(i - 1) + j] = m[j]
      <4>1. k = (i - 1) + ((k - i) + 1)
        BY <2>4
      <4>2. QED
        BY <2>8, <2>9, <3>1, <4>1, ConcatAt
    <3>3. PICK u : u = v \o y
      OBVIOUS
    <3>4. /\ u \in Seq(S) /\ Len(u) = l
          /\ \A j \in 1..k : u[j] = v[j]
          /\ \A j \in 1..(l - k) : u[k + j] = y[j]
      <4>1. l = k + (l - k) /\ k = Len(v) /\ l - k = Len(y)
        BY <2>4, <2>10, <3>2
      <4>2. v \in Seq(S) /\ y \in Seq(S)
        BY <2>10, <3>2
      <4>3. /\ v \o y \in Seq(S) /\ Len(v \o y) = l
            /\ \A j \in 1..k : (v \o y)[j] = v[j]
            /\ \A j \in 1..(l - k) : (v \o y)[k + j] = y[j]
        BY ONLY <4>1, <4>2, ConcatAt
      <4>4. QED
        BY ONLY <3>3, <4>3
    <3>5. ASSUME NEW j \in 1..l PROVE u[j] = s[j]
      <4>1. CASE j < i
        <5>1. j \in 1..(i - 1) /\ j \in 1..k
          BY <2>4, <4>1
        <5>2. QED
          BY <2>8, <3>2, <3>4, <5>1
      <4>2. CASE i <= j /\ j <= k
        <5>1. PICK z \in 1..((k - i) + 1) : z = j - (i - 1) /\ j = (i - 1) + z /\ j \in 1..k
          BY <2>4, <4>2
        <5>2. QED
          BY <2>9, <3>2, <3>4, <5>1
      <4>3. CASE k < j
        <5>1. PICK z \in 1..(l - k) : z = j - k /\ j = k + z
          BY <2>4, <4>3
        <5>2. QED
          BY <2>10, <3>4, <5>1
      <4>4. QED
        BY <2>4, <4>1, <4>2, <4>3
    <3>6. u = s
      BY <1>1, <3>4, <3>5, SeqEqual
    <3>7. QED
      BY <3>1, <3>3, <3>6
  <2>15. Margins(s, x, y)
    BY <2>3, <2>6, <2>12, <2>14 DEF Margins
  <2>16. QED
    BY <2>3, <2>6, <2>8, <2>9, <2>10, <2>13, <2>15
<1>6. QED
  BY <1>4, <1>5

LEMMA LexemesConcat ==
  ASSUME NEW S, NEW s \in Seq(S), NEW t \in Seq(S)
  PROVE  \A x : x \in LexemesOf(s \o t) <=> x \in LexemesOf(s) \/ x \in LexemesOf(t)
<1>2. PICK a, b, m : a = Len(s) /\ b = Len(t) /\ m = a + b
  OBVIOUS
<1>3. PICK u : u = s \o t
  OBVIOUS
<1>4. /\ u \in Seq(S) /\ Len(u) = m
      /\ \A k \in 1..a : u[k] = s[k]
      /\ \A k \in 1..b : u[a + k] = t[k]
  BY <1>2, <1>3, ConcatAt
<1>5. a \in Nat /\ b \in Nat /\ DOMAIN s = 1..a /\ DOMAIN t = 1..b /\ DOMAIN u = 1..m
  BY <1>2, <1>4
<1>6. ASSUME NEW k \in 1..m PROVE u[k] \in LexemesOf(s) \/ u[k] \in LexemesOf(t)
  <2>1. CASE k \in 1..a
    BY <1>4, <1>5, <2>1 DEF LexemesOf
  <2>2. CASE ~(k <= a)
    <3>0. k - a \in 1..b /\ k = a + (k - a)
      BY <1>2, <1>5, <2>2
    <3>1. PICK j \in 1..b : j = k - a /\ k = a + j
      BY <3>0
    <3>2. QED
      BY <1>4, <1>5, <3>1 DEF LexemesOf
  <2>3. QED
    BY <1>5, <2>1, <2>2
<1>7. ASSUME NEW k \in 1..a PROVE s[k] \in LexemesOf(u)
  <2>1. k \in 1..m
    BY <1>2, <1>5
  <2>2. QED
    BY <1>4, <1>5, <2>1 DEF LexemesOf
<1>8. ASSUME NEW k \in 1..b PROVE t[k] \in LexemesOf(u)
  <2>1. a + k \in 1..m
    BY <1>2, <1>5
  <2>2. QED
    BY <1>4, <1>5, <2>1 DEF LexemesOf
<1>9. \A x : x \in LexemesOf(u) <=> x \in LexemesOf(s) \/ x \in LexemesOf(t)
  <2>1. \A x \in LexemesOf(u) : x \in LexemesOf(s) \/ x \in LexemesOf(t)
    BY <1>5, <1>6 DEF LexemesOf
  <2>2. (\A x \in LexemesOf(s) : x \in LexemesOf(u)) /\ (\A x \in LexemesOf(t) : x \in LexemesOf(u))
    BY <1>5, <1>7, <1>8 DEF LexemesOf
  <2>3. QED
    BY <2>1, <2>2
<1>10. QED
  BY <1>3, <1>9

LEMMA LexemesType ==
  ASSUME NEW S, NEW s \in Seq(S), NEW x \in LexemesOf(s)
  PROVE  x \in S
BY DEF LexemesOf

LEMMA BlankConcat ==
  ASSUME NEW S, NEW s \in Seq(S), NEW t \in Seq(S)
  PROVE  IsBlank(s \o t) <=> IsBlank(s) /\ IsBlank(t)
<1>1. \A x : x \in LexemesOf(s \o t) <=> x \in LexemesOf(s) \/ x \in LexemesOf(t)
  BY LexemesConcat
<1>2. QED
  BY <1>1 DEF IsBlank

Associate(s, t, u) == s \o (t \o u) = s \o t \o u
LEMMA TextsAssociate ==
  ASSUME NEW S, NEW s \in Seq(S), NEW t \in Seq(S), NEW u \in Seq(S)
  PROVE  Associate(s, t, u)
BY DEF Associate

LEMMA ConcatAssoc ==
  ASSUME NEW S, NEW s \in Seq(S), NEW t \in Seq(S), NEW u \in Seq(S)
  PROVE  /\ s \o (t \o u) = s \o t \o u /\ s \o t \in Seq(S) /\ t \o u \in Seq(S)
         /\ s \o t \o u \in Seq(S)
OBVIOUS

LEMMA EmptyConcat ==
  ASSUME NEW S, NEW s \in Seq(S)
  PROVE  s \o <<>> = s /\ <<>> \o s = s /\ <<>> \in Seq(S) /\ LexemesOf(<<>>) = {} /\ IsBlank(<<>>)
BY DEF LexemesOf, IsBlank

\* Blanks at the ends mean nothing.
LEMMA TrimBlanks ==
  ASSUME NEW S, NEW s \in Seq(S), NEW t \in Seq(S), IsBlank(t)
  PROVE  Trim(t \o s) = Trim(s) /\ Trim(s \o t) = Trim(s)
<1>1. Trim(s) \in Seq(S) /\ IsTrimmed(Trim(s))
  BY TrimParts
<1>2. PICK x, y \in Seq(S) : Margins(s, x, y)
  BY TrimParts
<1>3. PICK m : m = Trim(s)
  OBVIOUS
<1>4. s = x \o m \o y /\ IsBlank(x) /\ IsBlank(y) /\ m \in Seq(S) /\ IsTrimmed(m)
  BY <1>1, <1>2, <1>3 DEF Margins
<1>5. IsBlank(t \o x) /\ t \o x \in Seq(S) /\ IsBlank(y \o t) /\ y \o t \in Seq(S)
  <2>1. t \o x \in Seq(S) /\ y \o t \in Seq(S)
    OBVIOUS
  <2>2. QED
    BY <1>4, <2>1, BlankConcat
<1>6. t \o s = (t \o x) \o m \o y
  <2>1. x \o m \in Seq(S)
    BY <1>4
  <2>2. t \o ((x \o m) \o y) = t \o (x \o m) \o y
    BY <2>1
  <2>3. t \o (x \o m) = t \o x \o m
    BY <1>4
  <2>4. QED
    BY <1>4, <2>2, <2>3
<1>7. s \o t = x \o m \o (y \o t)
  <2>1. x \o m \in Seq(S)
    BY <1>4
  <2>2. ((x \o m) \o y) \o t = (x \o m) \o (y \o t)
    BY <2>1
  <2>3. QED
    BY <1>4, <2>2
<1>8. Trim(t \o s) = m
  <2>1. PICK v : v = t \o x
    OBVIOUS
  <2>2. Trim(v \o m \o y) = m
    BY <1>4, <1>5, <2>1, TrimBy
  <2>3. QED
    BY <1>6, <2>1, <2>2
<1>9. Trim(s \o t) = m
  BY <1>4, <1>5, <1>7, TrimBy
<1>10. QED
  BY <1>3, <1>8, <1>9

LEMMA TrimTwice ==
  ASSUME NEW S, NEW s \in Seq(S)
  PROVE  /\ Trim(Trim(s)) = Trim(s)
         /\ LexemesOf(Trim(s)) \subseteq LexemesOf(s)
         /\ LexemesOf(s) \subseteq LexemesOf(Trim(s)) \union Blanks
<1>1. PICK m : m = Trim(s)
  OBVIOUS
<1>2. m \in Seq(S) /\ IsTrimmed(m)
  BY <1>1, TrimParts
<1>3. <<>> \o m \o <<>> = m /\ <<>> \in Seq(S) /\ IsBlank(<<>>)
  BY <1>2, EmptyConcat
<1>4. Trim(m) = m
  <2>1. PICK e : e = <<>> /\ e \in Seq(S) /\ IsBlank(e)
    BY <1>3
  <2>2. Trim(e \o m \o e) = m
    BY <1>2, <2>1, TrimBy
  <2>3. QED
    BY <1>3, <2>1, <2>2
<1>5. PICK x, y \in Seq(S) : Margins(s, x, y)
  BY TrimParts
<1>6. s = x \o m \o y /\ IsBlank(x) /\ IsBlank(y)
  BY <1>1, <1>5 DEF Margins
<1>7. /\ \A z : z \in LexemesOf(x \o m) <=> z \in LexemesOf(x) \/ z \in LexemesOf(m)
      /\ x \o m \in Seq(S)
  <2>1. x \o m \in Seq(S)
    BY <1>2
  <2>2. QED
    BY <1>2, <2>1, LexemesConcat
<1>8. \A z : z \in LexemesOf(s) <=> z \in LexemesOf(x) \/ z \in LexemesOf(m) \/ z \in LexemesOf(y)
  <2>1. PICK v : v = x \o m
    OBVIOUS
  <2>2. v \in Seq(S) /\ y \in Seq(S)
    BY <1>7, <2>1
  <2>3. \A z : z \in LexemesOf(v \o y) <=> z \in LexemesOf(v) \/ z \in LexemesOf(y)
    BY ONLY <2>2, LexemesConcat
  <2>4. QED
    BY <1>6, <1>7, <2>1, <2>3
<1>9. QED
  BY <1>1, <1>4, <1>6, <1>8 DEF IsBlank

\* Neither does what is trimmed decide on either side of a separator.
LEMMA TrimAroundSeparator ==
  ASSUME NEW S, NEW s \in Seq(S), NEW sep, sep \notin Blanks
  PROVE  /\ sep \in LexemesOf(Trim(s)) <=> sep \in LexemesOf(s)
         /\ Trim(Before(Trim(s), sep)) = Trim(Before(s, sep))
         /\ Trim(After(Trim(s), sep)) = Trim(After(s, sep))
<1>1. PICK m : m = Trim(s)
  OBVIOUS
<1>2. m \in Seq(S) /\ Trim(m) = m
  BY <1>1, TrimParts, TrimTwice
<1>3. PICK x, y \in Seq(S) : Margins(s, x, y)
  BY TrimParts
<1>4. s = x \o m \o y /\ IsBlank(x) /\ IsBlank(y)
  BY <1>1, <1>3 DEF Margins
<1>5. sep \notin LexemesOf(x) /\ sep \notin LexemesOf(y)
  BY <1>4 DEF IsBlank
<1>6. sep \in LexemesOf(m) <=> sep \in LexemesOf(s)
  BY <1>1, TrimTwice
<1>7. CASE sep \notin LexemesOf(m)
  <2>1. Before(m, sep) = m /\ After(m, sep) = <<>>
    BY <1>2, <1>7, BeforeWhole
  <2>2. Before(s, sep) = s /\ After(s, sep) = <<>>
    BY <1>6, <1>7, BeforeWhole
  <2>3. QED
    BY <1>1, <1>2, <1>6, <2>1, <2>2
<1>8. CASE sep \in LexemesOf(m)
  <2>1. PICK a, b : a = Before(m, sep) /\ b = After(m, sep)
    OBVIOUS
  <2>2. a \in Seq(S) /\ b \in Seq(S) /\ sep \in S /\ m = a \o <<sep>> \o b /\ sep \notin LexemesOf(a)
    BY <1>2, <1>8, <2>1, SplitOnce
  <2>3. PICK p, q : p = x \o a /\ q = b \o y
    OBVIOUS
  <2>4. p \in Seq(S) /\ q \in Seq(S) /\ sep \notin LexemesOf(p)
    <3>1. x \o a \in Seq(S) /\ b \o y \in Seq(S)
      BY <2>2
    <3>2. \A z : z \in LexemesOf(x \o a) <=> z \in LexemesOf(x) \/ z \in LexemesOf(a)
      BY <2>2, LexemesConcat
    <3>3. QED
      BY <1>5, <2>2, <2>3, <3>1, <3>2
  <2>5. s = p \o <<sep>> \o q
    <3>0. <<sep>> \in Seq(S)
      BY <2>2
    <3>1. PICK z : z = <<sep>> /\ z \in Seq(S)
      BY <3>0
    <3>2. x \o (a \o z \o b) = x \o (a \o z) \o b
      BY <2>2, <3>1
    <3>3. x \o (a \o z) = x \o a \o z
      BY <2>2, <3>1
    <3>4. x \o (a \o z \o b) = p \o z \o b
      BY <2>3, <3>2, <3>3
    <3>5. (p \o z) \o b \o y = (p \o z) \o (b \o y)
      <4>1. p \o z \in Seq(S) /\ b \in Seq(S) /\ y \in Seq(S)
        BY <2>2, <2>4, <3>1
      <4>2. PICK w : w = p \o z
        OBVIOUS
      <4>3. w \in Seq(S)
        BY <4>1, <4>2
      <4>4. w \o (b \o y) = w \o b \o y
        <5>1. w \in Seq(S) /\ b \in Seq(S) /\ y \in Seq(S)
          BY <4>1, <4>3
        <5>2. Associate(w, b, y)
          BY ONLY <5>1, TextsAssociate
        <5>3. QED
          BY ONLY <5>2 DEF Associate
      <4>5. QED
        BY <4>2, <4>4
    <3>6. QED
      BY <1>4, <2>2, <2>3, <3>1, <3>4, <3>5
  <2>6. Before(s, sep) = p /\ After(s, sep) = q
    BY <2>2, <2>4, <2>5, BeforeAfter
  <2>7. Trim(p) = Trim(a) /\ Trim(q) = Trim(b)
    BY <1>4, <2>2, <2>3, TrimBlanks
  <2>8. QED
    BY <1>1, <1>6, <1>8, <2>1, <2>6, <2>7
<1>9. QED
  BY <1>7, <1>8

\* The ink of a text is what trimming leaves of it.
LEMMA InkOfBlank ==
  ASSUME NEW S, NEW s \in Seq(S), IsBlank(s)
  PROVE  Picked(s, InkedPlaces(s)) = <<>>
<1>1. InkedPlaces(s) = {}
  BY DEF InkedPlaces, IsBlank, LexemesOf
<1>2. Cardinality({}) = 0
  BY FS_EmptySet
<1>3. Picked(s, InkedPlaces(s)) \in Seq(S) /\ Len(Picked(s, InkedPlaces(s))) = 0
  BY <1>1, <1>2, PickedType
<1>4. QED
  BY <1>3

LEMMA InkOfTrimmed ==
  ASSUME NEW S, NEW s \in Seq(S)
  PROVE  Picked(Trim(s), InkedPlaces(Trim(s))) = Picked(s, InkedPlaces(s))
<1> DEFINE Ink(z) == Picked(z, InkedPlaces(z))
<1>1. PICK m : m = Trim(s) /\ m \in Seq(S)
  BY TrimParts
<1>2. PICK x, y \in Seq(S) : Margins(s, x, y)
  BY TrimParts
<1>3. s = x \o m \o y /\ IsBlank(x) /\ IsBlank(y)
  BY <1>1, <1>2 DEF Margins
<1>4. x \o m \in Seq(S)
  BY <1>1
<1>5. Ink(s) = Ink(x) \o Ink(m) \o Ink(y)
  <2>1. PICK v : v = x \o m
    OBVIOUS
  <2>2. v \in Seq(S) /\ m \in Seq(S) /\ x \in Seq(S) /\ y \in Seq(S)
    BY <1>1, <1>4, <2>1
  <2>3. Ink(v \o y) = Ink(v) \o Ink(y)
    BY ONLY <2>2, InkedConcat
  <2>4. Ink(x \o m) = Ink(x) \o Ink(m)
    BY ONLY <2>2, InkedConcat
  <2> HIDE DEF Ink
  <2>5. QED
    BY <1>3, <2>1, <2>3, <2>4
<1>6. Ink(x) = <<>> /\ Ink(y) = <<>>
  BY <1>3, InkOfBlank
<1>7. Ink(m) \in Seq(S)
  BY <1>1, PickedType DEF InkedPlaces
<1>8. Ink(s) = Ink(m)
  <2> HIDE DEF Ink
  <2>1. QED
    BY <1>5, <1>6, <1>7, EmptyConcat
<1>9. QED
  BY <1>1, <1>8

LEMMA WiderSeq ==
  ASSUME NEW A, NEW S, NEW s \in Seq(A), \A x \in A : x \in S
  PROVE  s \in Seq(S)
<1>1. PICK n \in Nat : s \in [1..n -> A]
  OBVIOUS
<1>2. s \in [1..n -> S]
  BY <1>1
<1>3. QED
  BY <1>2

-----------------------------------------------------------------------------
(* The piece of a text in which an edit falls. *)

\* e is the end of u behind its last separator, and P the pieces before.
LeftPiece(S, u, sep, P, e) ==
  /\ P \in Seq(Seq(S)) /\ e \in Seq(S) /\ sep \notin LexemesOf(e)
  /\ \E n \in 0..Len(u) :
       /\ Len(u) = n + Len(e) /\ \A k \in 1..Len(e) : e[k] = u[n + k]
       /\ n = 0 \/ u[n] = sep
  /\ \A r \in Seq(S) : Split(u \o r, sep) = P \o Split(e \o r, sep)

\* f is the start of v up to its first separator, and Q the pieces behind.
RightPiece(S, v, sep, Q, f) ==
  /\ Q \in Seq(Seq(S)) /\ f \in Seq(S) /\ sep \notin LexemesOf(f)
  /\ Len(f) <= Len(v) /\ \A k \in 1..Len(f) : f[k] = v[k]
  /\ Len(f) = Len(v) \/ v[Len(f) + 1] = sep
  /\ \A r \in Seq(S) : sep \notin LexemesOf(r) => Split(r \o v, sep) = <<r \o f>> \o Q

LEMMA LastCut ==
  ASSUME NEW S, NEW s \in Seq(S), NEW sep, sep \in LexemesOf(s)
  PROVE  \E i \in 1..Len(s) :
           /\ s[i] = sep /\ s = SubSeq(s, 1, i - 1) \o <<s[i]>> \o SubSeq(s, i + 1, Len(s))
           /\ sep \notin LexemesOf(SubSeq(s, i + 1, Len(s)))
<1>1. PICK places : places = {i \in DOMAIN s : s[i] = sep}
  OBVIOUS
<1>2. places # {} /\ places \subseteq DOMAIN s
  BY <1>1 DEF LexemesOf
<1>3. IsPlaces(places)
  BY <1>2, PlacesInText
<1>4. PICK i \in places : \A j \in places : j <= i
  BY <1>2, <1>3, LastOfPlaces
<1>5. i \in 1..Len(s) /\ s[i] = sep
  BY <1>1, <1>4
<1>6. s = SubSeq(s, 1, i - 1) \o <<s[i]>> \o SubSeq(s, i + 1, Len(s))
  BY <1>5, CutAt
<1>7. PICK e : e = SubSeq(s, i + 1, Len(s))
  OBVIOUS
<1>8. e \in Seq(S) /\ Len(e) = Len(s) - i /\ \A k \in 1..Len(e) : e[k] = s[i + k]
  BY <1>5, <1>7
<1>9. \A k \in 1..Len(e) : e[k] # sep
  <2>1. ASSUME NEW k \in 1..Len(e), e[k] = sep PROVE FALSE
    <3>1. i + k \in DOMAIN s /\ s[i + k] = sep
      BY <1>5, <1>8, <2>1
    <3>2. i + k <= i
      BY <1>1, <1>4, <3>1
    <3>3. QED
      BY <1>5, <3>2
  <2>2. QED
    BY <2>1
<1>10. sep \notin LexemesOf(e)
  BY <1>8, <1>9 DEF LexemesOf
<1>11. QED
  BY <1>5, <1>6, <1>7, <1>10

LEMMA LeftPieceExists ==
  ASSUME NEW S, NEW u \in Seq(S), NEW sep \in S
  PROVE  \E P, e : LeftPiece(S, u, sep, P, e)
<1>1. CASE sep \notin LexemesOf(u)
  <2>1. PICK P : P = <<>>
    OBVIOUS
  <2>2. P \in Seq(Seq(S))
    BY <2>1
  <2>3. \A r \in Seq(S) : Split(u \o r, sep) = P \o Split(u \o r, sep)
    <3>1. ASSUME NEW r \in Seq(S) PROVE Split(u \o r, sep) = P \o Split(u \o r, sep)
      <4>1. u \o r \in Seq(S)
        OBVIOUS
      <4>2. PICK d : d = Split(u \o r, sep)
        OBVIOUS
      <4>3. PICK T : T = Seq(S)
        OBVIOUS
      <4>4. d \in Seq(T)
        BY <4>1, <4>2, <4>3, SplitType
      <4>5. QED
        BY <2>1, <4>2, <4>4, EmptyConcat
    <3>2. QED
      BY <3>1
  <2>4. \E n \in 0..Len(u) :
         /\ Len(u) = n + Len(u) /\ \A k \in 1..Len(u) : u[k] = u[n + k]
         /\ n = 0 \/ u[n] = sep
    <3>1. 0 \in 0..Len(u) /\ Len(u) = 0 + Len(u) /\ \A k \in 1..Len(u) : u[k] = u[0 + k]
      OBVIOUS
    <3>2. QED
      BY <3>1
  <2>5. LeftPiece(S, u, sep, P, u)
    BY <1>1, <2>2, <2>3, <2>4 DEF LeftPiece
  <2>6. QED
    BY <2>5
<1>2. CASE sep \in LexemesOf(u)
  <2>1. PICK i \in 1..Len(u) :
          /\ u[i] = sep /\ u = SubSeq(u, 1, i - 1) \o <<u[i]>> \o SubSeq(u, i + 1, Len(u))
          /\ sep \notin LexemesOf(SubSeq(u, i + 1, Len(u)))
    BY <1>2, LastCut
  <2>2. PICK g, e : g = SubSeq(u, 1, i - 1) /\ e = SubSeq(u, i + 1, Len(u))
    OBVIOUS
  <2>3. g \in Seq(S) /\ e \in Seq(S)
    BY ONLY i \in 1..Len(u), u \in Seq(S), <2>2
  <2>4. Len(u) = i + Len(e) /\ \A k \in 1..Len(e) : e[k] = u[i + k]
    BY ONLY i \in 1..Len(u), u \in Seq(S), <2>2
  <2>5. u = g \o <<sep>> \o e /\ sep \notin LexemesOf(e)
    BY <2>1, <2>2
  <2>6. PICK P : P = Split(g, sep) /\ P \in Seq(Seq(S))
    BY <2>3, SplitType
  <2>7. ASSUME NEW r \in Seq(S) PROVE Split(u \o r, sep) = P \o Split(e \o r, sep)
    <3>1. e \o r \in Seq(S) /\ g \o <<sep>> \in Seq(S)
      BY <2>3
    <3>2. u \o r = g \o <<sep>> \o (e \o r)
      <4>1. PICK v : v = g \o <<sep>>
        OBVIOUS
      <4>2. v \in Seq(S) /\ e \in Seq(S) /\ r \in Seq(S)
        BY <2>3, <3>1, <4>1
      <4>3. Associate(v, e, r)
        BY ONLY <4>2, TextsAssociate
      <4>4. v \o (e \o r) = v \o e \o r
        BY ONLY <4>3 DEF Associate
      <4>5. QED
        BY <2>5, <4>1, <4>4
    <3>3. Split(g \o <<sep>> \o (e \o r), sep) = Split(g, sep) \o Split(e \o r, sep)
      <4>1. PICK y, x : y = e \o r /\ x = g \o <<sep>> \o y
        OBVIOUS
      <4>2. g \in Seq(S) /\ y \in Seq(S) /\ JoinedBy(x, g, sep, y)
        BY <2>3, <3>1, <4>1 DEF JoinedBy
      <4>3. Split(x, sep) = Split(g, sep) \o Split(y, sep)
        BY <4>2, SplitConcat
      <4>4. QED
        BY <4>1, <4>3
    <3>4. QED
      BY <2>6, <3>2, <3>3
  <2>8. \E n \in 0..Len(u) :
         /\ Len(u) = n + Len(e) /\ \A k \in 1..Len(e) : e[k] = u[n + k]
         /\ n = 0 \/ u[n] = sep
    <3>1. i \in 0..Len(u) /\ u[i] = sep
      BY <2>1
    <3>2. QED
      BY <2>4, <3>1
  <2>9. LeftPiece(S, u, sep, P, e)
    BY ONLY <2>3, <2>5, <2>6, <2>7, <2>8 DEF LeftPiece
  <2>10. QED
    BY <2>9
<1>3. QED
  BY <1>1, <1>2

LEMMA RightPieceExists ==
  ASSUME NEW S, NEW v \in Seq(S), NEW sep \in S
  PROVE  \E Q, f : RightPiece(S, v, sep, Q, f)
<1>1. CASE sep \notin LexemesOf(v)
  <2>1. PICK Q : Q = <<>>
    OBVIOUS
  <2>2. Q \in Seq(Seq(S))
    BY <2>1
  <2>3. ASSUME NEW r \in Seq(S), sep \notin LexemesOf(r)
        PROVE  Split(r \o v, sep) = <<r \o v>> \o Q
    <3>1. r \o v \in Seq(S) /\ sep \notin LexemesOf(r \o v)
      BY <1>1, <2>3, LexemesConcat
    <3>2. PICK x : x = r \o v
      OBVIOUS
    <3>3. Split(x, sep) = <<x>>
      BY <3>1, <3>2, SplitWhole
    <3>4. <<x>> \o <<>> = <<x>>
      OBVIOUS
    <3>5. QED
      BY <2>1, <3>2, <3>3, <3>4
  <2>4. RightPiece(S, v, sep, Q, v)
    <3>1. v \in Seq(S) /\ Len(v) <= Len(v)
      OBVIOUS
    <3>2. QED
      BY ONLY <1>1, <2>2, <2>3, <3>1 DEF RightPiece
  <2>5. QED
    BY <2>4
<1>2. CASE sep \in LexemesOf(v)
  <2>1. PICK f, t : f = Before(v, sep) /\ t = After(v, sep)
    OBVIOUS
  <2>2. f \in Seq(S) /\ t \in Seq(S) /\ v = f \o <<sep>> \o t /\ sep \notin LexemesOf(f)
    <3>1. /\ Before(v, sep) \in Seq(S) /\ After(v, sep) \in Seq(S)
          /\ v = Before(v, sep) \o <<sep>> \o After(v, sep)
          /\ sep \notin LexemesOf(Before(v, sep))
      BY ONLY v \in Seq(S), <1>2, SplitOnce
    <3>2. QED
      BY <2>1, <3>1
  <2>3. /\ Len(f) <= Len(v) /\ \A k \in 1..Len(f) : f[k] = v[k]
        /\ v[Len(f) + 1] = sep
    BY <2>2
  <2>4. PICK Q : Q = Split(t, sep) /\ Q \in Seq(Seq(S))
    BY <2>2, SplitType
  <2>5. ASSUME NEW r \in Seq(S), sep \notin LexemesOf(r)
        PROVE  Split(r \o v, sep) = <<r \o f>> \o Q
    <3>1. r \o f \in Seq(S) /\ sep \notin LexemesOf(r \o f)
      BY <2>2, <2>5, LexemesConcat
    <3>2. r \o v = (r \o f) \o <<sep>> \o t
      <4>1. <<sep>> \in Seq(S) /\ f \o <<sep>> \in Seq(S)
        BY <2>2
      <4>2. r \o (f \o <<sep>> \o t) = r \o (f \o <<sep>>) \o t
        BY <2>2, <4>1, ConcatAssoc
      <4>3. r \o (f \o <<sep>>) = (r \o f) \o <<sep>>
        BY <2>2, <4>1, ConcatAssoc
      <4>4. QED
        BY <2>2, <4>2, <4>3
    <3>3. PICK x : x = r \o f
      OBVIOUS
    <3>4. x \in Seq(S) /\ sep \notin LexemesOf(x)
      BY <3>1, <3>3
    <3>5. Split(x \o <<sep>> \o t, sep) = Split(x, sep) \o Split(t, sep)
      <4>1. PICK y : y = x \o <<sep>> \o t
        OBVIOUS
      <4>2. JoinedBy(y, x, sep, t)
        BY <4>1 DEF JoinedBy
      <4>3. Split(y, sep) = Split(x, sep) \o Split(t, sep)
        BY <2>2, <3>4, <4>2, SplitConcat
      <4>4. QED
        BY <4>1, <4>3
    <3>6. Split(x, sep) = <<x>>
      BY <3>4, SplitWhole
    <3>7. QED
      BY <2>4, <3>2, <3>3, <3>5, <3>6
  <2>6. RightPiece(S, v, sep, Q, f)
    BY <2>2, <2>3, <2>4, <2>5 DEF RightPiece
  <2>7. QED
    BY <2>6
<1>3. QED
  BY <1>1, <1>2

\* t is w with u before it and v behind it.
Placed(t, u, w, v) == t = u \o w \o v

LEMMA PlacedType ==
  ASSUME NEW S, NEW u \in Seq(S), NEW w \in Seq(S), NEW v \in Seq(S), NEW t, Placed(t, u, w, v)
  PROVE  t \in Seq(S)
BY DEF Placed

LEMMA PlacedLexemes ==
  ASSUME NEW S, NEW u \in Seq(S), NEW w \in Seq(S), NEW v \in Seq(S), NEW t, Placed(t, u, w, v)
  PROVE  \A x : x \in LexemesOf(t) <=> x \in LexemesOf(u) \/ x \in LexemesOf(w) \/ x \in LexemesOf(v)
<1>1. PICK r : r = u \o w
  OBVIOUS
<1>2. t = r \o v /\ r \in Seq(S)
  BY <1>1 DEF Placed
<1>3. \A x : x \in LexemesOf(r) <=> x \in LexemesOf(u) \/ x \in LexemesOf(w)
  BY <1>1, LexemesConcat
<1>4. \A x : x \in LexemesOf(t) <=> x \in LexemesOf(r) \/ x \in LexemesOf(v)
  BY <1>2, LexemesConcat
<1>5. QED
  BY <1>3, <1>4

\* The places of the text in the middle.
LEMMA PlacedAt ==
  ASSUME NEW S, NEW u \in Seq(S), NEW w \in Seq(S), NEW v \in Seq(S), NEW t, Placed(t, u, w, v)
  PROVE  LET a == Len(u) + 1
             b == Len(u) + Len(w)
         IN  /\ SubSeq(t, a, b) = w /\ Len(t) = b + Len(v)
             /\ \A i \in 1..Len(u) : t[i] = u[i]
             /\ \A i \in 1..Len(v) : t[b + i] = v[i]
<1>1. PICK r, a, b : r = u \o w /\ a = Len(u) + 1 /\ b = Len(u) + Len(w)
  OBVIOUS
<1>2. t = r \o v /\ r \in Seq(S) /\ Len(r) = b
  BY <1>1 DEF Placed
<1>3. a \in Int /\ b \in Int /\ 1 <= a /\ b <= Len(r)
  BY <1>1, <1>2
<1>4. SubSeq(t, a, b) = SubSeq(r, a, b)
  <2>1. SubSeq(r \o v, a, b) = SubSeq(r, a, b)
    BY <1>2, <1>3, SubSeqLeft
  <2>2. QED
    BY <1>2, <2>1
<1>5. SubSeq(r, a, b) = w
  <2>1. /\ 1 \in Int /\ Len(w) \in Int /\ 1 <= 1 /\ Len(w) <= Len(w)
        /\ a = 1 + Len(u) /\ b = Len(w) + Len(u)
    BY <1>1
  <2>2. SubSeq(u \o w, a, b) = SubSeq(w, 1, Len(w))
    BY <2>1, SubSeqRight
  <2>3. SubSeq(w, 1, Len(w)) = w
    OBVIOUS
  <2>4. QED
    BY <1>1, <2>2, <2>3
<1>6. /\ Len(t) = b + Len(v)
      /\ \A i \in 1..b : t[i] = r[i]
      /\ \A i \in 1..Len(v) : t[b + i] = v[i]
  <2>1. /\ Len(r \o v) = b + Len(v)
        /\ \A i \in 1..b : (r \o v)[i] = r[i]
        /\ \A i \in 1..Len(v) : (r \o v)[b + i] = v[i]
    <3>1. PICK d, m : d = Len(v) /\ m = b + d
      OBVIOUS
    <3>2. b = Len(r) /\ r \in Seq(S)
      BY <1>2
    <3>3. /\ Len(r \o v) = m
          /\ \A i \in 1..b : (r \o v)[i] = r[i]
          /\ \A i \in 1..d : (r \o v)[b + i] = v[i]
      BY ONLY <3>1, <3>2, v \in Seq(S), ConcatAt
    <3>4. QED
      BY <3>1, <3>3
  <2>2. QED
    BY <1>2, <2>1
<1>7. \A i \in 1..Len(u) : i \in 1..b /\ r[i] = u[i]
  BY <1>1
<1>8. QED
  BY <1>1, <1>4, <1>5, <1>6, <1>7

LEMMA PieceAround ==
  ASSUME NEW S, NEW u \in Seq(S), NEW v \in Seq(S), NEW w \in Seq(S), NEW sep,
         sep \notin LexemesOf(w),
         NEW P, NEW e, LeftPiece(S, u, sep, P, e), NEW Q, NEW f, RightPiece(S, v, sep, Q, f),
         NEW t, Placed(t, u, w, v), NEW x, Placed(x, e, w, f)
  PROVE  Placed(Split(t, sep), P, <<x>>, Q)
<1>0. t = u \o w \o v /\ x = e \o w \o f
  BY DEF Placed
<1>1. /\ P \in Seq(Seq(S)) /\ e \in Seq(S) /\ sep \notin LexemesOf(e)
      /\ \A r \in Seq(S) : Split(u \o r, sep) = P \o Split(e \o r, sep)
  BY DEF LeftPiece
<1>2. /\ Q \in Seq(Seq(S)) /\ f \in Seq(S)
      /\ \A r \in Seq(S) : sep \notin LexemesOf(r) => Split(r \o v, sep) = <<r \o f>> \o Q
  BY DEF RightPiece
<1>3. PICK r : r = w \o v
  OBVIOUS
<1>4. PICK y : y = e \o w
  OBVIOUS
<1>5. r \in Seq(S) /\ t = u \o r /\ e \o r = y \o v
  <2>1. u \o (w \o v) = u \o w \o v /\ w \o v \in Seq(S)
    BY ConcatAssoc
  <2>2. e \o (w \o v) = e \o w \o v
    <3>1. e \in Seq(S)
      BY <1>1
    <3>2. QED
      BY <3>1, ConcatAssoc
  <2>3. QED
    BY <1>0, <1>3, <1>4, <2>1, <2>2
<1>6. y \in Seq(S) /\ sep \notin LexemesOf(y)
  BY <1>1, <1>4, LexemesConcat
<1>7. Split(t, sep) = P \o Split(y \o v, sep)
  BY <1>1, <1>5
<1>8. Split(y \o v, sep) = <<x>> \o Q
  BY <1>0, <1>2, <1>4, <1>6
<1>9. x \in Seq(S)
  BY <1>1, <1>2, PlacedType
<1>10. PICK T : T = Seq(S)
  OBVIOUS
<1>11. P \in Seq(T) /\ Q \in Seq(T) /\ <<x>> \in Seq(T)
  BY <1>1, <1>2, <1>9, <1>10
<1>12. P \o (<<x>> \o Q) = P \o <<x>> \o Q
  BY ONLY <1>11, ConcatAssoc
<1>13. Split(t, sep) = P \o <<x>> \o Q
  BY <1>7, <1>8, <1>12
<1>14. QED
  BY <1>13 DEF Placed

\* u is what s has before its place i, and v what it has from there on.
CutBefore(s, i, u, v) ==
  /\ Len(s) \in Nat /\ i \in 1..(Len(s) + 1)
  /\ Len(u) = i - 1 /\ \A k \in 1..(i - 1) : u[k] = s[k]
  /\ Len(v) = Len(s) - (i - 1) /\ \A k \in 1..(Len(s) - (i - 1)) : v[k] = s[(i - 1) + k]

\* e and f are what the segment at place i of s has before and behind it.
SegmentAt(S, s, sep, i, e, f) ==
  /\ e \in Seq(S) /\ f \in Seq(S)
  /\ \A k \in 1..Len(e) : e[k] # sep
  /\ \A k \in 1..Len(f) : f[k] # sep
  /\ \E n \in 0..(i - 1) :
      /\ i - 1 = n + Len(e) /\ \A k \in 1..Len(e) : e[k] = s[n + k]
      /\ n = 0 \/ s[n] = sep
  /\ Len(f) <= Len(s) - (i - 1) /\ \A k \in 1..Len(f) : f[k] = s[(i - 1) + k]
  /\ Len(f) = Len(s) - (i - 1) \/ s[(i - 1) + Len(f) + 1] = sep

LEMMA SegmentOfPieces ==
  ASSUME NEW S, NEW s, NEW sep, NEW i, NEW u, NEW v, CutBefore(s, i, u, v),
         NEW P, NEW e, LeftPiece(S, u, sep, P, e), NEW Q, NEW f, RightPiece(S, v, sep, Q, f)
  PROVE  SegmentAt(S, s, sep, i, e, f)
<1>1. e \in Seq(S) /\ \A k \in 1..Len(e) : e[k] # sep
  BY DEF LeftPiece, LexemesOf
<1>2. f \in Seq(S) /\ \A k \in 1..Len(f) : f[k] # sep
  BY DEF RightPiece, LexemesOf
<1>3. PICK l, a, b : l = Len(s) /\ a = Len(e) /\ b = Len(f)
  OBVIOUS
<1>4. l \in Nat /\ a \in Nat /\ b \in Nat /\ i \in 1..(l + 1)
  BY <1>1, <1>2, <1>3 DEF CutBefore
<1>5. Len(u) = i - 1 /\ \A k \in 1..(i - 1) : u[k] = s[k]
  BY DEF CutBefore
<1>6. Len(v) = l - (i - 1) /\ \A k \in 1..(l - (i - 1)) : v[k] = s[(i - 1) + k]
  BY <1>3 DEF CutBefore
<1>7. PICK n \in 0..(i - 1) :
        /\ i - 1 = n + a /\ \A k \in 1..a : e[k] = u[n + k]
        /\ n = 0 \/ u[n] = sep
  BY <1>3, <1>5 DEF LeftPiece
<1>8. \A k \in 1..a : n + k \in 1..(i - 1)
  BY <1>4, <1>7
<1>9. \A k \in 1..a : e[k] = s[n + k]
  BY <1>5, <1>7, <1>8
<1>10. n = 0 \/ s[n] = sep
  <2>1. n = 0 \/ n \in 1..(i - 1)
    BY <1>4, <1>7
  <2>2. QED
    BY <1>5, <1>7, <2>1
<1>11. /\ b <= l - (i - 1) /\ \A k \in 1..b : f[k] = v[k]
       /\ b = l - (i - 1) \/ v[b + 1] = sep
  BY <1>3, <1>6 DEF RightPiece
<1>12. \A k \in 1..b : f[k] = s[(i - 1) + k]
  <2>1. \A k \in 1..b : k \in 1..(l - (i - 1))
    BY <1>4, <1>11
  <2>2. QED
    BY <1>6, <1>11, <2>1
<1>13. b = l - (i - 1) \/ s[(i - 1) + b + 1] = sep
  <2>1. b = l - (i - 1) \/ (b + 1 \in 1..(l - (i - 1)) /\ (i - 1) + (b + 1) = (i - 1) + b + 1)
    BY <1>4, <1>11
  <2>2. QED
    BY <1>6, <1>11, <2>1
<1>14. QED
  BY <1>1, <1>2, <1>3, <1>7, <1>9, <1>10, <1>11, <1>12, <1>13 DEF SegmentAt

\* A text is what stands before a place and what stands from there on.
LEMMA CutInTwo ==
  ASSUME NEW S, NEW s \in Seq(S), NEW i \in 1..(Len(s) + 1)
  PROVE  \E u, v \in Seq(S) :
           /\ CutBefore(s, i, u, v) /\ s = u \o v
           /\ u = SubSeq(s, 1, i - 1) /\ v = SubSeq(s, i, Len(s))
<1>1. PICK l : l = Len(s) /\ l \in Nat
  OBVIOUS
<1>2. PICK u, v : u = SubSeq(s, 1, i - 1) /\ v = SubSeq(s, i, l)
  OBVIOUS
<1>3. i \in 1..(l + 1) /\ i - 1 \in Int /\ i \in Int
  BY <1>1
<1>4. u \in Seq(S) /\ Len(u) = i - 1 /\ \A k \in 1..(i - 1) : u[k] = s[k]
  BY ONLY s \in Seq(S), <1>1, <1>2, <1>3
<1>5. /\ v \in Seq(S) /\ Len(v) = l - (i - 1)
      /\ \A k \in 1..(l - (i - 1)) : v[k] = s[(i - 1) + k]
  BY ONLY s \in Seq(S), <1>1, <1>2, <1>3
<1>6. CutBefore(s, i, u, v)
  BY <1>1, <1>3, <1>4, <1>5 DEF CutBefore
<1>7. s = u \o v
  <2>1. PICK r : r = u \o v
    OBVIOUS
  <2>2. /\ r \in Seq(S) /\ Len(r) = l
        /\ \A k \in 1..(i - 1) : r[k] = u[k]
        /\ \A k \in 1..(l - (i - 1)) : r[(i - 1) + k] = v[k]
    <3>1. u \in Seq(S) /\ v \in Seq(S) /\ i - 1 = Len(u) /\ l - (i - 1) = Len(v)
      BY <1>4, <1>5
    <3>2. l = Len(u) + Len(v)
      BY <1>1, <1>3, <3>1
    <3>3. /\ u \o v \in Seq(S) /\ Len(u \o v) = Len(u) + Len(v)
          /\ \A k \in 1..Len(u) : (u \o v)[k] = u[k]
          /\ \A k \in 1..Len(v) : (u \o v)[Len(u) + k] = v[k]
      BY ONLY <3>1, ConcatAt
    <3>4. QED
      BY ONLY <2>1, <3>1, <3>2, <3>3
  <2>3. ASSUME NEW k \in 1..l PROVE r[k] = s[k]
    <3>1. CASE k \in 1..(i - 1)
      BY <1>4, <2>2, <3>1
    <3>2. k \in 1..(i - 1) \/ (k - (i - 1) \in 1..(l - (i - 1)) /\ (i - 1) + (k - (i - 1)) = k)
      BY <1>1, <1>3
    <3>3. QED
      BY <1>5, <2>2, <3>1, <3>2
  <2>4. r = s
    BY <1>1, <2>2, <2>3, SeqEqual
  <2>5. QED
    BY <2>1, <2>4
<1>8. QED
  BY <1>1, <1>2, <1>4, <1>5, <1>6, <1>7

\* x is y and behind it z, which stands at place i of s.
CutOff(S, s, i, x, y, z) ==
  /\ x = y \o z /\ x \in Seq(S) /\ y \in Seq(S) /\ z \in Seq(S)
  /\ z # <<>> => z[1] = s[i]

\* What stands up to a place is cut in two as well.
LEMMA CutWithin ==
  ASSUME NEW S, NEW s \in Seq(S), NEW m \in 0..Len(s), NEW i \in 1..(m + 1),
         NEW e, e = SubSeq(s, 1, m), NEW f, f = SubSeq(s, 1, i - 1), NEW g, g = SubSeq(s, i, m)
  PROVE  CutOff(S, s, i, e, f, g)
<1>1. PICK u, v \in Seq(S) : /\ CutBefore(s, m + 1, u, v) /\ s = u \o v
                             /\ u = SubSeq(s, 1, (m + 1) - 1) /\ v = SubSeq(s, m + 1, Len(s))
  <2>1. m + 1 \in 1..(Len(s) + 1)
    OBVIOUS
  <2>2. QED
    BY ONLY s \in Seq(S), <2>1, CutInTwo
<1>2. m \in Nat /\ i \in Nat /\ (m + 1) - 1 = m /\ u = SubSeq(s, 1, m) /\ Len(u) = m
  <2>1. m \in Nat /\ i \in Nat /\ (m + 1) - 1 = m
    OBVIOUS
  <2>2. u = SubSeq(s, 1, (m + 1) - 1) /\ Len(u) = (m + 1) - 1
    BY <1>1 DEF CutBefore
  <2>3. QED
    BY ONLY <2>1, <2>2
<1>3. PICK x, y \in Seq(S) : /\ CutBefore(u, i, x, y) /\ u = x \o y
                             /\ x = SubSeq(u, 1, i - 1) /\ y = SubSeq(u, i, Len(u))
  <2>1. u \in Seq(S) /\ i \in 1..(Len(u) + 1)
    BY <1>2
  <2>2. QED
    BY ONLY <2>1, CutInTwo
<1>4. x = SubSeq(s, 1, i - 1)
  <2>1. PICK j : j = i - 1
    OBVIOUS
  <2>2. /\ u \in Seq(S) /\ v \in Seq(S) /\ j \in Int /\ j <= Len(u)
    BY <1>2, <2>1
  <2>3. SubSeq(u \o v, 1, j) = SubSeq(u, 1, j)
    BY ONLY <2>2, SubSeqLeft
  <2>4. QED
    BY <1>1, <1>3, <2>1, <2>3
<1>5. y = SubSeq(s, i, m)
  <2>1. u \in Seq(S) /\ v \in Seq(S) /\ i \in Int /\ m \in Int /\ 1 <= i /\ m <= Len(u)
    BY <1>2
  <2>2. SubSeq(u \o v, i, m) = SubSeq(u, i, m)
    BY ONLY <2>1, SubSeqLeft
  <2>3. QED
    BY <1>1, <1>2, <1>3, <2>2
<1>6. ASSUME y # <<>> PROVE y[1] = s[i]
  <2>1. Len(y) = m - (i - 1) /\ \A k \in 1..(m - (i - 1)) : y[k] = u[(i - 1) + k]
    BY <1>2, <1>3 DEF CutBefore
  <2>2. Len(y) \in Nat \ {0}
    BY <1>6
  <2>3. 1 \in 1..(m - (i - 1)) /\ (i - 1) + 1 = i /\ i \in 1..m
    BY <1>2, <2>1, <2>2
  <2>4. y[1] = u[i]
    BY <2>1, <2>3
  <2>5. u[i] = s[i]
    <3>1. \A k \in 1..((m + 1) - 1) : u[k] = s[k]
      BY <1>1 DEF CutBefore
    <3>2. QED
      BY <1>2, <2>3, <3>1
  <2>6. QED
    BY <2>4, <2>5
<1>7. e = u /\ f = x /\ g = y
  BY <1>2, <1>4, <1>5
<1>8. QED
  BY ONLY <1>3, <1>6, <1>7 DEF CutOff

LEMMA NonEmptySingle ==
  ASSUME NEW x
  PROVE  /\ x = <<>> => NonEmpty(<<x>>) = <<>>
         /\ x # <<>> => NonEmpty(<<x>>) = <<x>>
<1>1. PICK p : p = <<x>>
  OBVIOUS
<1>2. p \in Seq({x}) /\ DOMAIN p = {1} /\ p[1] = x
  BY <1>1
<1>3. CASE x = <<>>
  <2>1. Filled(p) = {}
    BY <1>2, <1>3 DEF Filled
  <2>2. Cardinality({}) = 0
    BY FS_EmptySet
  <2>3. NonEmpty(p) \in Seq({x}) /\ Len(NonEmpty(p)) = 0
    <3>1. PICK f : f = Filled(p) /\ f = {}
      BY <2>1
    <3>2. f \subseteq DOMAIN p
      BY <3>1
    <3>3. Picked(p, f) \in Seq({x}) /\ Len(Picked(p, f)) = Cardinality(f)
      BY <1>2, <3>2, PickedType
    <3>4. QED
      BY <2>2, <3>1, <3>3 DEF NonEmpty
  <2>4. QED
    BY <1>1, <1>3, <2>3
<1>4. CASE x # <<>>
  <2>1. Filled(p) = {1}
    BY <1>2, <1>4 DEF Filled
  <2>2. Cardinality({1}) = 1
    BY FS_Singleton
  <2>3. PICK f : f = Filled(p) /\ f = {1}
    BY <2>1
  <2>4. f \subseteq DOMAIN p
    BY <1>2, <2>3
  <2>5. PICK r : r = Picked(p, f)
    OBVIOUS
  <2>6. /\ r \in Seq({x}) /\ Len(r) = Cardinality(f)
        /\ \A k \in DOMAIN r : \E i \in f : r[k] = p[i]
    BY <1>2, <2>4, <2>5, PickedType
  <2>7. Len(r) = 1 /\ r[1] = x
    BY <1>2, <2>2, <2>3, <2>6
  <2>8. r = <<x>>
    BY <2>6, <2>7
  <2>9. QED
    BY <1>1, <1>4, <2>3, <2>5, <2>8 DEF NonEmpty
<1>5. QED
  BY <1>3, <1>4

-----------------------------------------------------------------------------
(* The elements of a list, empty ones aside. *)

\* The entries of a list, empty ones aside.
EntryList(s, sep) == NonEmpty(Split(s, sep))

LEMMA EntryListType ==
  ASSUME NEW S, NEW s \in Seq(S), NEW sep
  PROVE  EntryList(s, sep) \in Seq(Seq(S)) /\ EntryList(<<>>, sep) = <<>>
<1>1. PICK T : T = Seq(S)
  OBVIOUS
<1>2. PICK p : p = Split(s, sep) /\ p \in Seq(T)
  BY <1>1, SplitType
<1>3. NonEmpty(p) \in Seq(T)
  BY <1>2, NonEmptyConcat
<1>4. PICK x : x = <<>>
  OBVIOUS
<1>5. x \in Seq({}) /\ sep \notin LexemesOf(x)
  BY <1>4 DEF LexemesOf
<1>6. Split(x, sep) = <<x>>
  BY <1>5, SplitWhole
<1>7. NonEmpty(<<x>>) = <<>>
  BY <1>4, NonEmptySingle
<1>8. QED
  BY <1>1, <1>2, <1>3, <1>4, <1>6, <1>7 DEF EntryList

LEMMA EntryListJoined ==
  ASSUME NEW S, NEW u \in Seq(S), NEW v \in Seq(S), NEW sep \in S, NEW t, JoinedBy(t, u, sep, v)
  PROVE  EntryList(t, sep) = EntryList(u, sep) \o EntryList(v, sep)
<1>1. PICK p, q : p = Split(u, sep) /\ q = Split(v, sep)
  OBVIOUS
<1>2. PICK T : T = Seq(S)
  OBVIOUS
<1>3. p \in Seq(T) /\ q \in Seq(T)
  BY <1>1, <1>2, SplitType
<1>4. Split(t, sep) = p \o q
  <2>1. Split(t, sep) = Split(u, sep) \o Split(v, sep)
    BY SplitConcat
  <2>2. QED
    BY ONLY <1>1, <2>1
<1>5. NonEmpty(p \o q) = NonEmpty(p) \o NonEmpty(q)
  BY <1>3, NonEmptyConcat
<1>6. QED
  BY <1>1, <1>4, <1>5 DEF EntryList

\* A separator here adds an empty entry and no other.
Halves(s, u, v) == s = u \o v
Starts(v, sep) == v # <<>> /\ v[1] = sep
Ends(u, sep)   == u # <<>> /\ u[Len(u)] = sep
AddsNothing(u, v, sep) == u = <<>> \/ v = <<>> \/ Starts(v, sep) \/ Ends(u, sep)

Nothing(z) == z = <<>>

LEMMA NoEntries ==
  ASSUME NEW S, NEW z, Nothing(z), NEW sep
  PROVE  z \in Seq(S) /\ EntryList(z, sep) = z
<1>1. <<>> \in Seq(S)
  OBVIOUS
<1>2. EntryList(<<>>, sep) = <<>>
  BY <1>1, EntryListType
<1>3. QED
  BY <1>1, <1>2 DEF Nothing

LEMMA ConcatNothing ==
  ASSUME NEW S, NEW s \in Seq(S), NEW z, Nothing(z)
  PROVE  z \o s = s /\ s \o z = s
BY EmptyConcat DEF Nothing

LEMMA SeparatorFirst ==
  ASSUME NEW S, NEW u \in Seq(S), NEW v \in Seq(S), NEW sep \in S, NEW s, Halves(s, u, v),
         Starts(v, sep)
  PROVE  EntryList(s, sep) = EntryList(u, sep) \o EntryList(v, sep)
<1>1. PICK T : T = Seq(S)
  OBVIOUS
<1>2. PICK v1 : v1 = SubSeq(v, 2, Len(v))
  OBVIOUS
<1>3. v1 \in Seq(S) /\ v = <<sep>> \o v1
  BY ONLY v \in Seq(S), Starts(v, sep), <1>2 DEF Starts
<1>4. PICK z : Nothing(z)
  BY DEF Nothing
<1>5. v1 \in Seq(S)
  BY <1>3
<1>6. z \in Seq(S) /\ EntryList(z, sep) = z
  BY <1>4, NoEntries
<1>7. z \in Seq(S)
  BY <1>6
<1>8. JoinedBy(v, z, sep, v1)
  <2>1. PICK o : o = <<sep>>
    OBVIOUS
  <2>3. o \in Seq(S)
    BY ONLY sep \in S, <2>1
  <2>2. z \o o = o
    BY <1>4, <2>3, ConcatNothing
  <2>4. QED
    BY <1>3, <2>1, <2>2 DEF JoinedBy
<1>9. EntryList(v, sep) = EntryList(z, sep) \o EntryList(v1, sep)
  BY <1>5, <1>8, <1>7, EntryListJoined
<1>10. EntryList(v1, sep) \in Seq(T)
  BY <1>1, <1>3, EntryListType
<1>11. EntryList(v, sep) = EntryList(v1, sep)
  BY <1>4, <1>9, <1>10, <1>6, ConcatNothing
<1>12. JoinedBy(s, u, sep, v1)
  <2>1. PICK l : l = Len(u) + 1
    OBVIOUS
  <2>2. (u \o <<sep>>) \o v1 = u \o (<<sep>> \o v1)
    BY <1>3, <2>1, With
  <2>3. QED
    BY <1>3, <2>2 DEF JoinedBy, Halves
<1>13. EntryList(s, sep) = EntryList(u, sep) \o EntryList(v1, sep)
  BY <1>3, <1>12, EntryListJoined
<1>14. QED
  BY <1>11, <1>13

LEMMA SeparatorLast ==
  ASSUME NEW S, NEW u \in Seq(S), NEW v \in Seq(S), NEW sep \in S, NEW s, Halves(s, u, v),
         Ends(u, sep)
  PROVE  EntryList(s, sep) = EntryList(u, sep) \o EntryList(v, sep)
<1>1. PICK T : T = Seq(S)
  OBVIOUS
<1>2. PICK u1 : u1 = SubSeq(u, 1, Len(u) - 1)
  OBVIOUS
<1>3. u1 \in Seq(S) /\ u = u1 \o <<sep>>
  BY ONLY u \in Seq(S), Ends(u, sep), <1>2 DEF Ends
<1>4. PICK z : Nothing(z)
  BY DEF Nothing
<1>5. u1 \in Seq(S)
  BY <1>3
<1>6. z \in Seq(S) /\ EntryList(z, sep) = z
  BY <1>4, NoEntries
<1>7. z \in Seq(S)
  BY <1>6
<1>8. JoinedBy(u, u1, sep, z)
  <2>1. u \o z = u
    BY <1>4, ConcatNothing
  <2>2. QED
    BY <1>3, <2>1 DEF JoinedBy
<1>9. EntryList(u, sep) = EntryList(u1, sep) \o EntryList(z, sep)
  BY <1>5, <1>8, <1>7, EntryListJoined
<1>10. EntryList(u1, sep) \in Seq(T)
  BY <1>1, <1>3, EntryListType
<1>11. EntryList(u, sep) = EntryList(u1, sep)
  BY <1>4, <1>9, <1>10, <1>6, ConcatNothing
<1>12. JoinedBy(s, u1, sep, v)
  BY <1>3 DEF JoinedBy, Halves
<1>13. EntryList(s, sep) = EntryList(u1, sep) \o EntryList(v, sep)
  BY <1>3, <1>12, EntryListJoined
<1>14. QED
  BY <1>11, <1>13

LEMMA EmptyEntryAside ==
  ASSUME NEW S, NEW u \in Seq(S), NEW v \in Seq(S), NEW sep \in S, NEW s, Halves(s, u, v),
         NEW t, JoinedBy(t, u, sep, v), AddsNothing(u, v, sep)
  PROVE  EntryList(t, sep) = EntryList(s, sep)
<1>1. PICK T : T = Seq(S)
  OBVIOUS
<1>2. EntryList(t, sep) = EntryList(u, sep) \o EntryList(v, sep)
  BY EntryListJoined
<1>3. EntryList(u, sep) \in Seq(T) /\ EntryList(v, sep) \in Seq(T)
  BY <1>1, EntryListType
<1>4. EntryList(<<>>, sep) = <<>>
  BY EntryListType
<1>5. CASE u = <<>>
  <2>1. s = v
    BY <1>5, EmptyConcat DEF Halves
  <2>2. <<>> \o EntryList(v, sep) = EntryList(v, sep)
    BY <1>3, EmptyConcat
  <2>3. QED
    BY <1>2, <1>4, <1>5, <2>1, <2>2
<1>6. CASE v = <<>>
  <2>1. s = u
    BY <1>6, EmptyConcat DEF Halves
  <2>2. EntryList(u, sep) \o <<>> = EntryList(u, sep)
    BY <1>3, EmptyConcat
  <2>3. QED
    BY <1>2, <1>4, <1>6, <2>1, <2>2
<1>7. CASE Starts(v, sep)
  BY <1>2, <1>7, SeparatorFirst
<1>8. CASE Ends(u, sep)
  BY <1>2, <1>8, SeparatorLast
<1>9. QED
  BY <1>5, <1>6, <1>7, <1>8 DEF AddsNothing
-----------------------------------------------------------------------------
(* A text that is read piece by piece. *)

\* What is seen of a text after the first k pieces.
Seen(s, sep, k) == SubSeq(s, 1, Nth(Cuts(s, sep), k) - 1)

LEMMA SeenAtFirst ==
  ASSUME NEW S, NEW s \in Seq(S), NEW sep
  PROVE  /\ Seen(s, sep, 0) = <<>>
         /\ 1 \in DOMAIN Split(s, sep) /\ Seen(s, sep, 1) = Split(s, sep)[1]
<1>1. PICK n, c : Cutting(c, n, s, sep)
  BY CuttingExists
<1>2. n \in Nat \ {0} /\ c[0] = 0
  BY <1>1 DEF Cutting
<1>3. \A k \in 0..n : Nth(Cuts(s, sep), k) = c[k]
  BY <1>1, CutsInOrder
<1>4. Seen(s, sep, 0) = SubSeq(s, 1, 0 - 1)
  BY <1>2, <1>3 DEF Seen
<1>5. Seen(s, sep, 1) = SubSeq(s, 1, c[1] - 1)
  <2>1. 1 \in 0..n
    BY <1>2
  <2>2. Nth(Cuts(s, sep), 1) = c[1]
    BY <1>3, <2>1
  <2>3. QED
    BY <2>2 DEF Seen
<1>6. /\ DOMAIN Split(s, sep) = 1..n
      /\ \A k \in 1..n : Split(s, sep)[k] = SubSeq(s, c[k - 1] + 1, c[k] - 1)
  BY <1>1, SplitBy
<1>7. Split(s, sep)[1] = SubSeq(s, c[1 - 1] + 1, c[1] - 1) /\ 1 \in 1..n
  BY <1>2, <1>6
<1>8. SubSeq(s, 1, 0 - 1) = <<>>
  BY ONLY s \in Seq(S)
<1>9. QED
  BY <1>2, <1>4, <1>5, <1>6, <1>7, <1>8

LEMMA SeenAtLast ==
  ASSUME NEW S, NEW s \in Seq(S), NEW sep
  PROVE  Seen(s, sep, Len(Split(s, sep))) = s
<1>1. PICK n, c : Cutting(c, n, s, sep)
  BY CuttingExists
<1>2. n \in Nat \ {0} /\ c[n] = Len(s) + 1
  BY <1>1 DEF Cutting
<1>3. Nth(Cuts(s, sep), n) = Len(s) + 1
  BY <1>1, <1>2, CutsInOrder
<1>4. Len(Split(s, sep)) = n
  BY <1>1, SplitBy
<1>5. SubSeq(s, 1, (Len(s) + 1) - 1) = s
  BY ONLY s \in Seq(S)
<1>6. QED
  BY <1>3, <1>4, <1>5 DEF Seen

LEMMA SeenStep ==
  ASSUME NEW S, NEW s \in Seq(S), NEW sep, NEW k \in DOMAIN Split(s, sep), k # 1
  PROVE  /\ JoinedBy(Seen(s, sep, k), Seen(s, sep, k - 1), sep, Split(s, sep)[k])
         /\ Seen(s, sep, k - 1) \in Seq(S)
<1>1. PICK n, c : Cutting(c, n, s, sep)
  BY CuttingExists
<1>2. k \in 2..n /\ n \in Nat
  <2>1. DOMAIN Split(s, sep) = 1..n
    BY <1>1, SplitBy
  <2>2. n \in Nat
    BY <1>1 DEF Cutting
  <2>3. QED
    BY <2>1, <2>2
<1>3. PICK a, b : a = c[k - 1] /\ b = c[k]
  OBVIOUS
<1>4. a \in 1..Len(s) /\ s[a] = sep /\ b \in Int /\ a < b /\ b <= Len(s) + 1
  <2>1. k - 1 \in 1..(n - 1) /\ k \in 1..n /\ k - 1 \in 0..n /\ k \in 0..n /\ k - 1 < k
    BY <1>2
  <2>2. a \in 1..Len(s) /\ s[a] = sep /\ a < b /\ b \in Int
    BY <1>1, <1>3, <2>1 DEF Cutting
  <2>3. b <= Len(s) + 1
    <3>1. CASE k = n
      BY <1>1, <1>3, <3>1 DEF Cutting
    <3>2. CASE k # n
      <4>1. k \in 1..(n - 1)
        BY <1>2, <3>2
      <4>2. b \in DOMAIN s
        BY <1>1, <1>3, <4>1 DEF Cutting
      <4>3. QED
        BY <4>2
    <3>3. QED
      BY <3>1, <3>2
  <2>4. QED
    BY <2>2, <2>3
<1>5. Seen(s, sep, k) = SubSeq(s, 1, b - 1) /\ Seen(s, sep, k - 1) = SubSeq(s, 1, a - 1)
  <2>1. k \in 0..n /\ k - 1 \in 0..n
    BY <1>2
  <2>2. Nth(Cuts(s, sep), k) = c[k] /\ Nth(Cuts(s, sep), k - 1) = c[k - 1]
    BY <1>1, <2>1, CutsInOrder
  <2>3. QED
    BY <1>3, <2>2 DEF Seen
<1>6. Split(s, sep)[k] = SubSeq(s, a + 1, b - 1)
  <2>1. k \in 1..n
    BY <1>2
  <2>2. Split(s, sep)[k] = SubSeq(s, c[k - 1] + 1, c[k] - 1)
    BY <1>1, <2>1, SplitBy
  <2>3. QED
    BY <1>3, <2>2
<1>7. PICK p : p = SubSeq(s, 1, b - 1)
  OBVIOUS
<1>8. p \in Seq(S) /\ Len(p) = b - 1 /\ p[a] = s[a] /\ a \in 1..Len(p)
  BY ONLY s \in Seq(S), <1>4, <1>7
<1>9. SubSeq(p, 1, a - 1) = SubSeq(s, 1, a - 1)
  BY ONLY s \in Seq(S), <1>4, <1>7
<1>10. SubSeq(p, a + 1, b - 1) = SubSeq(s, a + 1, b - 1)
  BY ONLY s \in Seq(S), <1>4, <1>7
<1>11. p = SubSeq(p, 1, a - 1) \o <<p[a]>> \o SubSeq(p, a + 1, Len(p))
  BY <1>8, CutAt
<1>12. JoinedBy(p, SubSeq(s, 1, a - 1), sep, SubSeq(s, a + 1, b - 1))
  BY <1>4, <1>8, <1>9, <1>10, <1>11 DEF JoinedBy
<1>13. SubSeq(s, 1, a - 1) \in Seq(S)
  BY ONLY s \in Seq(S), <1>4
<1>14. QED
  BY <1>5, <1>6, <1>7, <1>12, <1>13

-----------------------------------------------------------------------------
(* Where a text stands inside another one. *)

\* Where a text stands inside another one: what stands before it ends in a lexeme
\* of L, if it is not empty, and what stands behind it starts with one of R.
EndsIn(x, L)   == x # <<>> => x[Len(x)] \in L
StartsIn(y, R) == y # <<>> => y[1] \in R
Framed(s, x, w, y, L, R) == Placed(s, x, w, y) /\ EndsIn(x, L) /\ StartsIn(y, R)
Within(S, s, w, L, R)  == \E x, y \in Seq(S) : Framed(s, x, w, y, L, R)
Follows(S, s, w, L, R) == \E x, y \in Seq(S) : Framed(s, x, w, y, L, R) /\ x # <<>>

\* A text inside a text inside a text.
Overlaid(x1, K, L) == x1 # <<>> \/ K = L

LEMMA FramedTwice ==
  ASSUME NEW S, NEW x \in Seq(S), NEW y \in Seq(S), NEW t, NEW s,
         NEW x1 \in Seq(S), NEW y1 \in Seq(S), NEW w \in Seq(S), NEW K, NEW L, NEW R,
         Framed(s, x, t, y, K, R), Framed(t, x1, w, y1, L, R), Overlaid(x1, K, L)
  PROVE  /\ x \o x1 \in Seq(S) /\ y1 \o y \in Seq(S)
         /\ Framed(s, x \o x1, w, y1 \o y, L, R)
         /\ x # <<>> \/ x1 # <<>> => x \o x1 # <<>>
<1>1. PICK u, v : u = x \o x1 /\ v = y1 \o y
  OBVIOUS
<1>2. u \in Seq(S) /\ v \in Seq(S)
  BY <1>1
<1>3. Placed(s, u, w, v)
  <2>1. s = x \o (x1 \o w \o y1) \o y
    BY DEF Framed, Placed
  <2>2. x \o (x1 \o w \o y1) \o y = (x \o x1) \o w \o (y1 \o y)
    <3>1. x1 \o w \in Seq(S) /\ u \o w \in Seq(S)
      BY <1>2
    <3>2. PICK a, b : a = x1 \o w /\ b = u \o w
      OBVIOUS
    <3>3. /\ x \in Seq(S) /\ x1 \in Seq(S) /\ w \in Seq(S) /\ y1 \in Seq(S) /\ y \in Seq(S)
          /\ a \in Seq(S) /\ b \in Seq(S)
      BY <3>1, <3>2
    <3>4. x \o (a \o y1) = x \o a \o y1
      <4>1. x \in Seq(S) /\ a \in Seq(S) /\ y1 \in Seq(S)
        BY <3>3
      <4>2. Associate(x, a, y1)
        BY ONLY <4>1, TextsAssociate
      <4>3. QED
        BY ONLY <4>2 DEF Associate
    <3>5. b \o (y1 \o y) = b \o y1 \o y
      <4>1. b \in Seq(S) /\ y1 \in Seq(S) /\ y \in Seq(S)
        BY <3>3
      <4>2. Associate(b, y1, y)
        BY ONLY <4>1, TextsAssociate
      <4>3. QED
        BY ONLY <4>2 DEF Associate
    <3>6. x \o a = b
      <4>1. Associate(x, x1, w)
        BY TextsAssociate
      <4>2. x \o (x1 \o w) = x \o x1 \o w
        BY ONLY <4>1 DEF Associate
      <4>3. QED
        BY <1>1, <3>2, <4>2
    <3>7. QED
      BY <1>1, <3>2, <3>4, <3>5, <3>6
  <2>3. QED
    BY <1>1, <2>1, <2>2 DEF Placed
<1>4. StartsIn(v, R)
  <2>1. CASE y1 = <<>>
    <3>1. v = y
      BY <1>1, <2>1
    <3>2. QED
      BY <3>1 DEF Framed
  <2>2. CASE y1 # <<>>
    <3>1. v[1] = y1[1]
      BY <1>1, <2>2
    <3>2. QED
      BY <2>2, <3>1 DEF Framed, StartsIn
  <2>3. QED
    BY <2>1, <2>2
<1>5. EndsIn(u, L)
  <2>1. CASE x1 # <<>>
    <3>1. u[Len(u)] = x1[Len(x1)]
      BY <1>1, <2>1
    <3>2. QED
      BY <2>1, <3>1 DEF Framed, EndsIn
  <2>2. CASE x1 = <<>>
    <3>1. u = x
      BY <1>1, <2>2
    <3>2. QED
      BY <2>2, <3>1 DEF Framed, Overlaid
  <2>3. QED
    BY <2>1, <2>2
<1>6. x # <<>> \/ x1 # <<>> => u # <<>>
  BY <1>1
<1>7. QED
  BY <1>1, <1>2, <1>3, <1>4, <1>5, <1>6 DEF Framed

LEMMA WithinTwice ==
  ASSUME NEW S, NEW s, NEW t, NEW w \in Seq(S), NEW L, NEW R,
         Within(S, s, t, L, R), Within(S, t, w, L, R)
  PROVE  Within(S, s, w, L, R)
<1>1. PICK x \in Seq(S), y \in Seq(S) : Framed(s, x, t, y, L, R)
  BY DEF Within
<1>2. PICK x1 \in Seq(S), y1 \in Seq(S) : Framed(t, x1, w, y1, L, R)
  BY DEF Within
<1>3. Overlaid(x1, L, L)
  BY DEF Overlaid
<1>4. /\ x \o x1 \in Seq(S) /\ y1 \o y \in Seq(S)
      /\ Framed(s, x \o x1, w, y1 \o y, L, R)
  BY <1>1, <1>2, <1>3, FramedTwice
<1>5. QED
  BY <1>4 DEF Within

LEMMA FollowsWithin ==
  ASSUME NEW S, NEW s, NEW t, NEW w \in Seq(S), NEW K, NEW L, NEW R,
         Within(S, s, t, K, R), Follows(S, t, w, L, R)
  PROVE  Follows(S, s, w, L, R)
<1>1. PICK x \in Seq(S), y \in Seq(S) : Framed(s, x, t, y, K, R)
  BY DEF Within
<1>2. PICK x1 \in Seq(S), y1 \in Seq(S) : Framed(t, x1, w, y1, L, R) /\ x1 # <<>>
  BY DEF Follows
<1>3. Overlaid(x1, K, L)
  BY <1>2 DEF Overlaid
<1>4. /\ x \o x1 \in Seq(S) /\ y1 \o y \in Seq(S) /\ x \o x1 # <<>>
      /\ Framed(s, x \o x1, w, y1 \o y, L, R)
  BY <1>1, <1>2, <1>3, FramedTwice
<1>5. QED
  BY <1>4 DEF Follows

LEMMA WithinFollows ==
  ASSUME NEW S, NEW s, NEW t, NEW w \in Seq(S), NEW L, NEW R,
         Follows(S, s, t, L, R), Within(S, t, w, L, R)
  PROVE  Follows(S, s, w, L, R)
<1>1. PICK x \in Seq(S), y \in Seq(S) : Framed(s, x, t, y, L, R) /\ x # <<>>
  BY DEF Follows
<1>2. PICK x1 \in Seq(S), y1 \in Seq(S) : Framed(t, x1, w, y1, L, R)
  BY DEF Within
<1>3. Overlaid(x1, L, L)
  BY DEF Overlaid
<1>4. /\ x \o x1 \in Seq(S) /\ y1 \o y \in Seq(S) /\ x \o x1 # <<>>
      /\ Framed(s, x \o x1, w, y1 \o y, L, R)
  BY <1>1, <1>2, <1>3, FramedTwice
<1>5. QED
  BY <1>4 DEF Follows

\* A piece of a text stands between separators, or at an end of it.
LEMMA PieceWithin ==
  ASSUME NEW S, NEW s \in Seq(S), NEW sep, NEW k \in DOMAIN Split(s, sep),
         NEW L, NEW R, sep \in L, sep \in R
  PROVE  /\ Within(S, s, Split(s, sep)[k], L, R)
         /\ Split(s, sep)[k] \in Seq(S)
<1>1. PICK n, c : Cutting(c, n, s, sep)
  BY CuttingExists
<1>2. k \in 1..n /\ n \in Nat
  <2>1. DOMAIN Split(s, sep) = 1..n
    BY <1>1, SplitBy
  <2>2. n \in Nat
    BY <1>1 DEF Cutting
  <2>3. QED
    BY <2>1, <2>2
<1>3. PICK a, b : a = c[k - 1] /\ b = c[k]
  OBVIOUS
<1>4. a \in 0..Len(s) /\ b \in 1..(Len(s) + 1) /\ a < b
  <2>1. k - 1 \in 0..n /\ k \in 0..n /\ k - 1 < k
    BY <1>2
  <2>2. a \in Int /\ b \in Int /\ a < b
    BY <1>1, <1>3, <2>1 DEF Cutting
  <2>3. 0 <= a
    <3>1. CASE k = 1
      BY <1>1, <1>3, <3>1 DEF Cutting
    <3>2. CASE k # 1
      <4>1. k - 1 \in 1..(n - 1)
        BY <1>2, <3>2
      <4>2. a \in DOMAIN s
        BY <1>1, <1>3, <4>1 DEF Cutting
      <4>3. QED
        BY <4>2
    <3>3. QED
      BY <3>1, <3>2
  <2>4. b <= Len(s) + 1
    <3>1. CASE k = n
      BY <1>1, <1>3, <3>1 DEF Cutting
    <3>2. CASE k # n
      <4>1. k \in 1..(n - 1)
        BY <1>2, <3>2
      <4>2. b \in DOMAIN s
        BY <1>1, <1>3, <4>1 DEF Cutting
      <4>3. QED
        BY <4>2
    <3>3. QED
      BY <3>1, <3>2
  <2>5. QED
    BY <2>2, <2>3, <2>4
<1>5. a # 0 => s[a] = sep
  <2> SUFFICES ASSUME a # 0 PROVE s[a] = sep
    OBVIOUS
  <2>1. k - 1 \in 1..(n - 1)
    <3>1. k # 1
      BY <1>1, <1>3 DEF Cutting
    <3>2. QED
      BY <1>2, <3>1
  <2>2. QED
    BY <1>1, <1>3, <2>1 DEF Cutting
<1>6. b # Len(s) + 1 => s[b] = sep
  <2> SUFFICES ASSUME b # Len(s) + 1 PROVE s[b] = sep
    OBVIOUS
  <2>1. k \in 1..(n - 1)
    <3>1. k # n
      BY <1>1, <1>3 DEF Cutting
    <3>2. QED
      BY <1>2, <3>1
  <2>2. QED
    BY <1>1, <1>3, <2>1 DEF Cutting
<1>7. PICK x, w, y : x = SubSeq(s, 1, a) /\ w = SubSeq(s, a + 1, b - 1) /\ y = SubSeq(s, b, Len(s))
  OBVIOUS
<1>8. Split(s, sep)[k] = w
  <2>1. Split(s, sep)[k] = SubSeq(s, c[k - 1] + 1, c[k] - 1)
    <3>1. \A m \in 1..n : Split(s, sep)[m] = SubSeq(s, c[m - 1] + 1, c[m] - 1)
      BY <1>1, SplitBy
    <3>2. QED
      BY <1>2, <3>1
  <2>2. QED
    BY <1>3, <1>7, <2>1
<1>9. /\ x \in Seq(S) /\ w \in Seq(S) /\ y \in Seq(S)
      /\ s = x \o w \o y
      /\ a # 0 => x[Len(x)] = s[a]
      /\ a = 0 => x = <<>>
      /\ b # Len(s) + 1 => y[1] = s[b]
      /\ b = Len(s) + 1 => y = <<>>
  <2>1. PICK p : p = SubSeq(s, 1, b - 1)
    OBVIOUS
  <2>2. /\ x \in Seq(S) /\ Len(x) = a /\ \A i \in 1..a : x[i] = s[i]
        /\ y \in Seq(S) /\ Len(y) = (Len(s) - b) + 1
        /\ b # Len(s) + 1 => y[1] = s[b]
        /\ p \in Seq(S) /\ Len(p) = b - 1 /\ w \in Seq(S)
    <3>1. /\ a \in Int /\ 1 <= 1 /\ a <= Len(s) /\ 1 \in Int
          /\ b \in Int /\ 1 <= b /\ Len(s) <= Len(s) /\ Len(s) \in Int
          /\ b - 1 \in Int /\ b - 1 <= Len(s) /\ a + 1 \in Int /\ 1 <= a + 1
      BY <1>4
    <3>2. /\ SubSeq(s, 1, a) \in Seq(S) /\ Len(SubSeq(s, 1, a)) = (a - 1) + 1
          /\ \A i \in 1..((a - 1) + 1) : SubSeq(s, 1, a)[i] = s[(1 + i) - 1]
      BY <1>4, <3>1, SubSeqAt
    <3>3. /\ SubSeq(s, b, Len(s)) \in Seq(S) /\ Len(SubSeq(s, b, Len(s))) = (Len(s) - b) + 1
          /\ \A i \in 1..((Len(s) - b) + 1) : SubSeq(s, b, Len(s))[i] = s[(b + i) - 1]
      BY <1>4, <3>1, SubSeqAt
    <3>4. SubSeq(s, 1, b - 1) \in Seq(S) /\ Len(SubSeq(s, 1, b - 1)) = ((b - 1) - 1) + 1
      BY <1>4, <3>1, SubSeqAt
    <3>5. SubSeq(s, a + 1, b - 1) \in Seq(S)
      BY <1>4, <3>1, SubSeqAt
    <3>6. \A i \in 1..a : x[i] = s[i]
      BY <1>4, <1>7, <3>2
    <3>7. b # Len(s) + 1 => y[1] = s[b]
      BY <1>4, <1>7, <3>3
    <3>8. QED
      BY <1>4, <1>7, <2>1, <3>2, <3>3, <3>4, <3>5, <3>6, <3>7
  <2>3. s = p \o y
    <3>1. b \in 1..(Len(s) + 1)
      BY <1>4
    <3>2. s = SubSeq(s, 1, b - 1) \o SubSeq(s, b, Len(s))
      BY <3>1, CutInTwo
    <3>3. QED
      BY <1>7, <2>1, <3>2
  <2>4. p = x \o w
    <3>1. a + 1 \in 1..(Len(p) + 1)
      BY <1>4, <2>2
    <3>2. p = SubSeq(p, 1, (a + 1) - 1) \o SubSeq(p, a + 1, Len(p))
      <4>1. p \in Seq(S)
        BY <2>2
      <4>2. QED
        BY ONLY <3>1, <4>1, CutInTwo
    <3>3. /\ (a + 1) - 1 = a /\ Len(p) = b - 1 /\ 1 <= a + 1 /\ a <= Len(p)
          /\ a \in Int /\ b - 1 \in Int
      BY <1>4, <2>2
    <3>4. PICK from \in Int, to \in Int : from = a + 1 /\ to = b - 1
      BY <3>3
    <3>5. SubSeq(p \o y, 1, a) = SubSeq(p, 1, a)
      <4>1. p \in Seq(S) /\ y \in Seq(S) /\ a \in Int /\ a <= Len(p)
        BY <2>2, <3>3
      <4>2. QED
        BY ONLY <4>1, SubSeqLeft
    <3>6. SubSeq(p \o y, a + 1, b - 1) = SubSeq(p, a + 1, b - 1)
      <4>1. /\ p \in Seq(S) /\ y \in Seq(S) /\ 1 <= from /\ to <= Len(p)
            /\ from \in Int /\ to \in Int
        BY <2>2, <3>4, <3>3
      <4>2. SubSeq(p \o y, from, to) = SubSeq(p, from, to)
        BY ONLY <4>1, SubSeqLeft
      <4>3. QED
        BY <3>4, <4>2
    <3>7. QED
      BY <1>7, <2>3, <3>2, <3>3, <3>5, <3>6
  <2>5. a # 0 => x[Len(x)] = s[a]
    BY <1>4, <2>2
  <2>6. (a = 0 => x = <<>>) /\ (b = Len(s) + 1 => y = <<>>)
    BY <1>4, <2>2
  <2>7. QED
    BY <2>2, <2>3, <2>4, <2>5, <2>6
<1>10. Placed(s, x, w, y)
  BY <1>9 DEF Placed
<1>11. EndsIn(x, L) /\ StartsIn(y, R)
  BY <1>5, <1>6, <1>9 DEF EndsIn, StartsIn
<1>12. QED
  BY <1>8, <1>9, <1>10, <1>11 DEF Framed, Within

\* A trimmed text stands between blanks.
LEMMA TrimWithin ==
  ASSUME NEW S, NEW s \in Seq(S), NEW L, NEW R, Blanks \subseteq L, Blanks \subseteq R
  PROVE  Within(S, s, Trim(s), L, R) /\ Trim(s) \in Seq(S)
<1>1. PICK x \in Seq(S), y \in Seq(S) : Margins(s, x, y)
  BY TrimParts
<1>2. Trim(s) \in Seq(S)
  BY TrimParts
<1>3. Placed(s, x, Trim(s), y)
  BY <1>1 DEF Margins, Placed
<1>4. EndsIn(x, L)
  <2>1. x # <<>> => x[Len(x)] \in LexemesOf(x)
    BY DEF LexemesOf
  <2>2. QED
    BY <1>1, <2>1 DEF Margins, IsBlank, EndsIn
<1>5. StartsIn(y, R)
  <2>1. y # <<>> => y[1] \in LexemesOf(y)
    BY DEF LexemesOf
  <2>2. QED
    BY <1>1, <2>1 DEF Margins, IsBlank, StartsIn
<1>6. QED
  BY <1>2, <1>3, <1>4, <1>5 DEF Framed, Within

\* What stands behind a separator follows it.
LEMMA AfterFollows ==
  ASSUME NEW S, NEW s \in Seq(S), NEW sep, sep \in LexemesOf(s), NEW L, NEW R, sep \in L
  PROVE  Follows(S, s, After(s, sep), L, R) /\ After(s, sep) \in Seq(S)
<1>1. PICK g, h : g = Before(s, sep) /\ h = After(s, sep)
  OBVIOUS
<1>2. g \in Seq(S) /\ h \in Seq(S) /\ sep \in S /\ s = g \o <<sep>> \o h
  <2>1. /\ Before(s, sep) \in Seq(S) /\ After(s, sep) \in Seq(S) /\ sep \in S
        /\ s = Before(s, sep) \o <<sep>> \o After(s, sep)
    BY ONLY s \in Seq(S), sep \in LexemesOf(s), SplitOnce
  <2>2. QED
    BY <1>1, <2>1
<1>3. PICK x, y : x = g \o <<sep>> /\ y = <<>>
  OBVIOUS
<1>4. x \in Seq(S) /\ y \in Seq(S) /\ x # <<>> /\ x[Len(x)] = sep /\ s = x \o h \o y
  BY ONLY <1>2, <1>3
<1>5. Placed(s, x, h, y) /\ EndsIn(x, L) /\ StartsIn(y, R)
  BY <1>3, <1>4 DEF Placed, EndsIn, StartsIn
<1>6. QED
  BY <1>1, <1>2, <1>4, <1>5 DEF Framed, Follows
=============================================================================
