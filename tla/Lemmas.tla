------------------------------- MODULE Lemmas -------------------------------
(***************************************************************************)
(* Facts that the proofs about different parts of the kernel share: ring   *)
(* buffers whose indexes count modulo a multiple of the size, as those of  *)
(* kernel/pipe.c and kernel/virtio_disk.c do.                              *)
(***************************************************************************)
EXTENDS Integers, TLAPS

-----------------------------------------------------------------------------
(* Division with remainder.                                                *)

\* Quotient and remainder determine each other.
LEMMA ModUnique ==
    ASSUME NEW m \in Nat \ {0}, NEW k \in Int, NEW l \in Int,
           NEW r \in 0..(m - 1), NEW s \in 0..(m - 1), m * k + r = m * l + s
    PROVE  r = s
<1>1. CASE k - l >= 1
    <2>1. m * k - m * l = m * (k - l)
        OBVIOUS
    <2>2. m * (k - l) >= m
        BY <1>1
    <2> QED BY <2>1, <2>2
<1>2. CASE k - l <= -1
    <2>1. m * k - m * l = m * (k - l)
        OBVIOUS
    <2>2. m * (k - l) <= -m
        BY <1>2
    <2> QED BY <2>1, <2>2
<1>3. CASE k = l
    BY <1>3
<1> QED BY <1>1, <1>2, <1>3

\* Division with remainder.
LEMMA ModDiv ==
    ASSUME NEW m \in Nat \ {0}, NEW a \in Int
    PROVE  a \div m \in Int /\ a % m \in 0..(m - 1) /\ a = m * (a \div m) + (a % m)
  OBVIOUS

\* The same, with quotient and remainder as witnesses.
LEMMA Divided ==
    ASSUME NEW m \in Nat \ {0}, NEW a \in Int
    PROVE  \E k \in Int, r \in 0..(m - 1) : r = a % m /\ a = m * k + r
<1>1. PICK k \in Int : k = a \div m
    BY ModDiv
<1>2. PICK r \in 0..(m - 1) : r = a % m
    BY ModDiv
<1>3. a = m * k + r
    BY <1>1, <1>2, ModDiv
<1> QED BY <1>2, <1>3

\* An index that wraps around at a multiple of the size keeps its place in the ring.
LEMMA WrapKeepsPlace ==
    ASSUME NEW m \in Nat \ {0}, NEW w \in Nat \ {0}, w % m = 0, NEW x \in 0..(2 * w - 1)
    PROVE  (x % w) % m = x % m
<1>1. CASE x < w
    <2>1. x % w = x
        BY <1>1
    <2> QED BY <2>1
<1>2. CASE x >= w
    <2>1. PICK y \in Int : y = x - w
        OBVIOUS
    <2>2. x % w = y
        BY <1>2, <2>1
    <2>3. PICK d \in Int : w = m * d
        <3>1. w \div m \in Int /\ w = m * (w \div m) + (w % m)
            BY ModDiv
        <3>2. PICK d \in Int : w = m * d + 0
            BY <3>1
        <3> QED BY <3>2
    <2>4. PICK k \in Int, r \in 0..(m - 1) : r = x % m /\ x = m * k + r
        <3>1. x \in Int /\ m \in Nat \ {0}
            OBVIOUS
        <3> QED BY <3>1, Divided
    <2>5. PICK l \in Int, s \in 0..(m - 1) : s = y % m /\ y = m * l + s
        BY Divided
    <2>6. m * (l + d) = m * l + m * d
        OBVIOUS
    <2>7. PICK e \in Int : e = l + d
        OBVIOUS
    <2>8. m * k + r = m * e + s
        <3>1. PICK a, b, c \in Int : a = m * k /\ b = m * l /\ c = m * d
            OBVIOUS
        <3>2. m * e = b + c
            BY <2>6, <2>7, <3>1
        <3> QED BY <2>1, <2>3, <2>4, <2>5, <3>1, <3>2
    <2>9. r = s
        BY <2>8, ModUnique
    <2> QED BY <2>2, <2>4, <2>5, <2>9
<1> QED BY <1>1, <1>2

\* Less than the size apart, two indexes have different places in the ring.
LEMMA PlacesDiffer ==
    ASSUME NEW m \in Nat \ {0}, NEW x \in Int, NEW y \in Int, x < y, y - x < m
    PROVE  x % m # y % m
<1>1. SUFFICES ASSUME x % m = y % m PROVE FALSE
    OBVIOUS
<1>2. PICK k \in Int, r \in 0..(m - 1) : r = x % m /\ x = m * k + r
    BY Divided
<1>3. PICK l \in Int : y = m * l + r
    <2>1. PICK l \in Int, s \in 0..(m - 1) : s = y % m /\ y = m * l + s
        BY Divided
    <2> QED BY <1>1, <1>2, <2>1
<1>4. PICK u, v \in 0..(m - 1) : u = y - x /\ v = 0
    OBVIOUS
<1>5. m * k + u = m * l + v
    <2>1. PICK a, b \in Int : a = m * k /\ b = m * l
        OBVIOUS
    <2> QED BY <1>2, <1>3, <1>4, <2>1
<1>6. u = v
    BY <1>5, ModUnique
<1> QED BY <1>4, <1>6

\* An index x that counts modulo w, the next one, and how far y is ahead of x.
Index(w, x) == w \in Nat \ {0} /\ x \in 0..(w - 1)
After(w, x) == (x + 1) % w
Ahead(w, x, y) == (y - x) % w

\* The next index is an index.
LEMMA AfterIs ==
    ASSUME NEW w, NEW x, Index(w, x)
    PROVE  Index(w, After(w, x))
  BY DEF Index, After

\* How far apart two indexes are, ...
LEMMA AheadIs ==
    ASSUME NEW w, NEW x, NEW y, Index(w, x), Index(w, y)
    PROVE  /\ Ahead(w, x, y) \in 0..(w - 1)
           /\ y = (x + Ahead(w, x, y)) % w
           /\ Ahead(w, x, y) = 0 <=> x = y
<1> USE DEF Index, Ahead
<1>1. CASE x <= y
    <2>1. PICK n \in 0..(w - 1) : n = y - x
        BY <1>1
    <2>2. n = (y - x) % w /\ y = (x + n) % w /\ (n = 0 <=> x = y)
        BY <1>1, <2>1
    <2> QED BY <2>2
<1>2. CASE y < x
    <2>1. PICK n \in 0..(w - 1) : n = y - x + w
        BY <1>2
    <2>2. n = (y - x) % w
        BY <1>2, <2>1
    <2>3. x + n = y + w
        BY <2>1
    <2>4. (y + w) % w = y
        OBVIOUS
    <2> QED BY <1>2, <2>1, <2>2, <2>3, <2>4
<1> QED BY <1>1, <1>2

\* ... when the second moves on, ...
LEMMA AheadUp ==
    ASSUME NEW w, NEW x, NEW y, Index(w, x), Index(w, y), Ahead(w, x, y) + 1 < w
    PROVE  Ahead(w, x, After(w, y)) = Ahead(w, x, y) + 1
<1> USE DEF Index, Ahead, After
<1>1. CASE x <= y
    <2>1. (y - x) % w = y - x
        BY <1>1
    <2> QED BY <1>1, <2>1
<1>2. CASE y < x
    <2>1. (y - x) % w = y - x + w
        BY <1>2
    <2>2. (y + 1) % w = y + 1
        BY <1>2
    <2>3. (y + 1 - x) % w = y + 1 - x + w
        BY <1>2, <2>1
    <2> QED BY <2>1, <2>2, <2>3
<1> QED BY <1>1, <1>2

\* ... and when the first does.
LEMMA AheadDown ==
    ASSUME NEW w, NEW x, NEW y, Index(w, x), Index(w, y), x # y
    PROVE  Ahead(w, After(w, x), y) = Ahead(w, x, y) - 1
<1> USE DEF Index, Ahead, After
<1>1. CASE x < y
    <2>1. (y - x) % w = y - x /\ (x + 1) % w = x + 1
        BY <1>1
    <2>2. (y - (x + 1)) % w = y - (x + 1)
        BY <1>1
    <2> QED BY <2>1, <2>2
<1>2. CASE y < x
    <2>1. (y - x) % w = y - x + w
        BY <1>2
    <2>2. CASE x + 1 < w
        <3>1. (x + 1) % w = x + 1
            BY <2>2
        <3>2. (y - (x + 1)) % w = y - (x + 1) + w
            BY <1>2, <2>2
        <3> QED BY <2>1, <3>1, <3>2
    <2>3. CASE x + 1 = w
        <3>1. (x + 1) % w = 0
            BY <2>3
        <3>2. (y - 0) % w = y
            OBVIOUS
        <3> QED BY <2>1, <2>3, <3>1, <3>2
    <2> QED BY <2>2, <2>3
<1> QED BY <1>1, <1>2

-----------------------------------------------------------------------------
(* The n entries of a ring of size m that start at index x.                *)

Entries(m, ring, x, n) == {ring[(x + k) % m] : k \in 0..(n - 1)}

\* No entry occurs twice.
Distinct(m, ring, x, n) ==
    \A j, k \in 0..(n - 1) : ring[(x + j) % m] = ring[(x + k) % m] => j = k

\* Entry i of a ring is replaced.
Replaced(ring, i, e) == [ring EXCEPT ![i] = e]

\* The ring has entries in S; from index x it holds n different ones.
Holds(m, S, ring, x, n) ==
    /\ m \in Nat \ {0} /\ x \in Int /\ ring \in [0..(m - 1) -> S]
    /\ n \in 0..m /\ Distinct(m, ring, x, n)

\* The indexes of a ring of size m count modulo w.
Divides(m, w) == m \in Nat \ {0} /\ w \in Nat \ {0} /\ w % m = 0 /\ m <= w

\* Where the next entry goes.
LEMMA NextEntry ==
    ASSUME NEW m, NEW w, NEW x, NEW y, Divides(m, w), Index(w, x), Index(w, y)
    PROVE  y % m = (x + Ahead(w, x, y)) % m /\ y % m \in 0..(m - 1)
<1>1. PICK n \in 0..(w - 1) : n = Ahead(w, x, y) /\ y = (x + n) % w
    BY AheadIs
<1>2. PICK z \in 0..(2 * w - 1) : z = x + n
    BY DEF Index
<1>3. (z % w) % m = z % m
    BY WrapKeepsPlace DEF Divides
<1>4. y % m \in 0..(m - 1)
    BY DEF Divides, Index
<1> QED BY <1>1, <1>2, <1>3, <1>4

\* Entries are where they are whether the index has wrapped around or not.
LEMMA EntriesWrap ==
    ASSUME NEW m, NEW w, NEW x, Divides(m, w), Index(w, x), NEW n \in 0..m, NEW ring
    PROVE  /\ Entries(m, ring, After(w, x), n) = Entries(m, ring, x + 1, n)
           /\ Distinct(m, ring, After(w, x), n) <=> Distinct(m, ring, x + 1, n)
<1>0. m \in Nat \ {0} /\ w \in Nat \ {0} /\ w % m = 0 /\ m <= w /\ x \in 0..(w - 1)
    BY DEF Divides, Index
<1>1. \A k \in 0..(n - 1) : (((x + 1) % w) + k) % m = (x + 1 + k) % m
    <2>1. SUFFICES ASSUME NEW k \in 0..(n - 1) PROVE (((x + 1) % w) + k) % m = (x + 1 + k) % m
        OBVIOUS
    <2>2. CASE x + 1 < w
        <3>1. (x + 1) % w = x + 1
            BY <1>0, <2>2
        <3> QED BY <3>1
    <2>3. CASE x + 1 = w
        <3>1. (x + 1) % w = 0
            BY <1>0, <2>3
        <3>2. PICK y \in 0..(2 * w - 1) : y = x + 1 + k
            BY <1>0, <2>3
        <3>3. y % w = k
            BY <1>0, <2>3, <3>2
        <3>4. k % m = y % m
            BY <1>0, <3>3, WrapKeepsPlace
        <3>5. ((x + 1) % w) + k = k
            BY <1>0, <3>1
        <3> QED BY <3>2, <3>4, <3>5
    <2> QED BY <1>0, <2>2, <2>3
<1> DEFINE u == After(w, x)
<1>2. \A k \in 0..(n - 1) : (u + k) % m = (x + 1 + k) % m
    BY <1>1 DEF After
<1> HIDE DEF u
<1>3. Entries(m, ring, u, n) = Entries(m, ring, x + 1, n)
    BY <1>2 DEF Entries
<1>4. Distinct(m, ring, u, n) <=> Distinct(m, ring, x + 1, n)
    BY <1>2 DEF Distinct
<1> QED BY <1>3, <1>4 DEF u

\* e is the entry behind the last one.
Behind(m, ring, x, n, e) == ring[(x + n) % m] = e

\* Writing behind the last entry changes none of them, ...
LEMMA EntriesPut ==
    ASSUME NEW m, NEW S, NEW ring, NEW x, NEW n, Holds(m, S, ring, x, n), n < m,
           NEW e \in S, NEW i, i = (x + n) % m
    PROVE  /\ Replaced(ring, i, e)[i] = e
           /\ Entries(m, Replaced(ring, i, e), x, n) = Entries(m, ring, x, n)
           /\ Holds(m, S, Replaced(ring, i, e), x, n)
<1> DEFINE new == Replaced(ring, i, e)
<1> USE DEF Holds
<1>1. \A k \in Int : k % m \in 0..(m - 1)
    OBVIOUS
<1>2. (x + n) % m \in 0..(m - 1)
    <2>1. x + n \in Int
        OBVIOUS
    <2> QED BY <1>1, <2>1
<1>3. \A k \in 0..(n - 1) : (x + k) % m # (x + n) % m /\ (x + k) % m \in 0..(m - 1)
    <2>1. SUFFICES ASSUME NEW k \in 0..(n - 1)
                   PROVE (x + k) % m # (x + n) % m /\ (x + k) % m \in 0..(m - 1)
        OBVIOUS
    <2>2. PICK y, z \in Int : y = x + k /\ z = x + n /\ y < z /\ z - y < m
        OBVIOUS
    <2>3. y % m # z % m
        BY <2>2, PlacesDiffer
    <2> QED BY <1>1, <2>2, <2>3
<1>4. new \in [0..(m - 1) -> S] /\ new[(x + n) % m] = e
    BY <1>2 DEF Replaced
<1>5. \A k \in 0..(n - 1) : new[(x + k) % m] = ring[(x + k) % m]
    BY <1>2, <1>3 DEF Replaced
<1>6. Entries(m, new, x, n) = Entries(m, ring, x, n)
    BY <1>5 DEF Entries
<1>7. Distinct(m, new, x, n)
    BY <1>5 DEF Distinct
<1> QED BY <1>4, <1>6, <1>7

\* ... and then there is one more.
LEMMA EntriesAdd ==
    ASSUME NEW m, NEW S, NEW ring, NEW x, NEW n, Holds(m, S, ring, x, n), n < m,
           NEW e, Behind(m, ring, x, n, e), e \notin Entries(m, ring, x, n)
    PROVE  /\ Entries(m, ring, x, n + 1) = Entries(m, ring, x, n) \cup {e}
           /\ Holds(m, S, ring, x, n + 1)
<1> USE DEF Holds, Behind
<1>1. PICK h \in Nat : h = n + 1
    OBVIOUS
<1>2. \A k : k \in 0..(h - 1) <=> k \in 0..(n - 1) \/ k = n
    BY <1>1
<1> DEFINE At(k) == ring[(x + k) % m]
<1>3. /\ Entries(m, ring, x, n) = {At(k) : k \in 0..(n - 1)}
      /\ Entries(m, ring, x, h) = {At(k) : k \in 0..(h - 1)}
      /\ Distinct(m, ring, x, n) <=> \A j, k \in 0..(n - 1) : At(j) = At(k) => j = k
      /\ Distinct(m, ring, x, h) <=> \A j, k \in 0..(h - 1) : At(j) = At(k) => j = k
    BY DEF Entries, Distinct
<1> HIDE DEF At
<1>4. Entries(m, ring, x, h) = Entries(m, ring, x, n) \cup {At(n)}
    BY <1>2, <1>3
<1>5. At(n) = e
    BY DEF At
<1>6. Distinct(m, ring, x, h)
    BY <1>2, <1>3, <1>5
<1> QED BY <1>1, <1>4, <1>5, <1>6

\* Taking the first entry leaves the others.
LEMMA EntriesTake ==
    ASSUME NEW m, NEW w, Divides(m, w), NEW S, NEW ring, NEW x, NEW n, Index(w, x),
           Holds(m, S, ring, x, n), n # 0, NEW e \in S
    PROVE  /\ ring[x % m] \in Entries(m, ring, x, n)
           /\ Entries(m, Replaced(ring, x % m, e), After(w, x), n - 1)
                = Entries(m, ring, x, n) \ {ring[x % m]}
           /\ Holds(m, S, Replaced(ring, x % m, e), After(w, x), n - 1)
<1> DEFINE new == Replaced(ring, x % m, e)
<1> USE DEF Holds
<1>1. \A k \in Int : k % m \in 0..(m - 1)
    OBVIOUS
<1>2. new \in [0..(m - 1) -> S]
    BY <1>1 DEF Replaced
<1>3. 0 \in 0..(n - 1) /\ (x + 0) % m = x % m
    OBVIOUS
<1>4. ring[x % m] \in Entries(m, ring, x, n)
    BY <1>3 DEF Entries
<1>5. \A k \in 0..(n - 1 - 1) : new[(x + 1 + k) % m] = ring[(x + (k + 1)) % m]
    <2>1. SUFFICES ASSUME NEW k \in 0..(n - 1 - 1)
                   PROVE new[(x + 1 + k) % m] = ring[(x + (k + 1)) % m]
        OBVIOUS
    <2>2. PICK y \in Int : y = x + 1 + k /\ y = x + (k + 1) /\ x < y /\ y - x < m
        OBVIOUS
    <2>3. x % m # y % m
        BY <2>2, PlacesDiffer
    <2>4. new[y % m] = ring[y % m]
        BY <1>1, <2>3 DEF Replaced
    <2> QED BY <2>2, <2>4
<1>6. \A k \in 0..(n - 1) : k # 0 => ring[(x + k) % m] # ring[x % m]
    BY <1>3 DEF Distinct
<1>7. Entries(m, new, x + 1, n - 1) = Entries(m, ring, x, n) \ {ring[x % m]}
    <2>1. ASSUME NEW k \in 0..(n - 1 - 1)
          PROVE new[(x + 1 + k) % m] \in Entries(m, ring, x, n) \ {ring[x % m]}
        <3>1. PICK j \in 0..(n - 1) : j = k + 1 /\ j # 0
            OBVIOUS
        <3> QED BY <1>5, <1>6, <3>1 DEF Entries
    <2>2. ASSUME NEW j \in 0..(n - 1), ring[(x + j) % m] # ring[x % m]
          PROVE ring[(x + j) % m] \in Entries(m, new, x + 1, n - 1)
        <3>1. j # 0
            BY <1>3, <2>2
        <3>2. PICK k \in 0..(n - 1 - 1) : j = k + 1
            BY <3>1
        <3> QED BY <1>5, <3>2 DEF Entries
    <2>3. Entries(m, new, x + 1, n - 1) \subseteq Entries(m, ring, x, n) \ {ring[x % m]}
        BY <2>1 DEF Entries
    <2>4. Entries(m, ring, x, n) \ {ring[x % m]} \subseteq Entries(m, new, x + 1, n - 1)
        BY <2>2 DEF Entries
    <2> QED BY <2>3, <2>4
<1>8. Distinct(m, new, x + 1, n - 1)
    <2>1. SUFFICES ASSUME NEW j \in 0..(n - 1 - 1), NEW k \in 0..(n - 1 - 1),
                          new[(x + 1 + j) % m] = new[(x + 1 + k) % m]
                   PROVE j = k
        BY DEF Distinct
    <2>2. ring[(x + (j + 1)) % m] = ring[(x + (k + 1)) % m]
        BY <1>5, <2>1
    <2>3. PICK a, b \in 0..(n - 1) : a = j + 1 /\ b = k + 1
        OBVIOUS
    <2>4. a = b
        BY <2>2, <2>3 DEF Distinct
    <2> QED BY <2>3, <2>4
<1>9. n - 1 \in 0..m /\ After(w, x) \in Int
    BY DEF After, Index
<1> HIDE DEF new, Holds
<1>10. /\ Entries(m, new, After(w, x), n - 1) = Entries(m, new, x + 1, n - 1)
       /\ Distinct(m, new, After(w, x), n - 1) <=> Distinct(m, new, x + 1, n - 1)
    BY <1>9, EntriesWrap
<1> QED BY <1>2, <1>4, <1>7, <1>8, <1>9, <1>10 DEF Holds, new

\* The entries are of the set that the ring is for.
LEMMA EntriesIn ==
    ASSUME NEW m, NEW S, NEW ring, NEW x, NEW n, Holds(m, S, ring, x, n)
    PROVE  Entries(m, ring, x, n) \subseteq S
<1>1. \A k \in 0..(n - 1) : (x + k) % m \in 0..(m - 1)
    BY DEF Holds
<1> QED BY <1>1 DEF Entries, Holds

=============================================================================
