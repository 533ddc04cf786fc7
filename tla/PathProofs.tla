----------------------------- MODULE PathProofs -----------------------------
(***************************************************************************)
(* For every text that the buffer holds and every length of names: the     *)
(* short names that FAT_Open's loop makes of a path are those its          *)
(* components mean.                                                        *)
(***************************************************************************)
EXTENDS Path, SequenceTheorems, FiniteSetTheorems, TLAPS

\* Where FAT_Open's loop is defined, how much of the path it has left, and what
\* it makes of a path.
WalksOf(p) == Walks
LeftOf(w)  == Len(w.path)
WalkBody(f, w, p) == IF w.path = <<>> THEN w ELSE f[Take(w)]

Taking == INSTANCE Recursion WITH
    Arguments <- WalksOf, Rank <- LeftOf, Body <- WalkBody

-----------------------------------------------------------------------------
(* The members of a finite set of naturals in their order                  *)

Under(s, k) == {j \in s : j < k}

LEMMA BelowIs ==
    ASSUME NEW s, s \subseteq Nat, IsFiniteSet(s), NEW k
    PROVE  /\ IsFiniteSet(Under(s, k)) /\ Cardinality(Under(s, k)) \in Nat
           /\ Cardinality(s) \in Nat
<1>1. Under(s, k) \in SUBSET s
  BY DEF Under
<1> QED BY <1>1, FS_Subset, FS_CardinalityType

\* The next member has one more below it.
LEMMA NextMember ==
    ASSUME NEW s, s \subseteq Nat, IsFiniteSet(s), NEW k \in s,
           Cardinality(Under(s, k)) + 1 < Cardinality(s)
    PROVE  \E m \in s : /\ k < m
                        /\ Cardinality(Under(s, m)) = Cardinality(Under(s, k)) + 1
                        /\ \A j \in s : ~(k < j /\ j < m)
<1> DEFINE above == {j \in s : k < j}
<1>1. above # {}
  <2>1. ASSUME above = {} PROVE FALSE
    <3>1. s = Under(s, k) \cup {k}
      <4>1. \A j \in s : j < k \/ j = k
        BY <2>1
      <4> QED BY <4>1 DEF Under
    <3>2. Cardinality(s) = Cardinality(Under(s, k)) + 1
      <4>1. k \notin Under(s, k)
        BY DEF Under
      <4> QED BY <3>1, <4>1, BelowIs, FS_AddElement
    <3>3. Cardinality(Under(s, k)) \in Nat
      BY BelowIs
    <3> QED BY <3>2, <3>3
  <2> QED BY <2>1
<1>2. above \subseteq Nat
  OBVIOUS
<1>3. PICK m \in above : \A j \in above : m <= j
  <2> HIDE DEF above
  <2> QED BY <1>1, <1>2, Taking!LeastNatural
<1>4. \A j \in s : ~(k < j /\ j < m)
  BY <1>3
<1>5. Under(s, m) = Under(s, k) \cup {k}
  <2>1. \A j \in s : j < m <=> (j < k \/ j = k)
    BY <1>3
  <2> QED BY <2>1 DEF Under
<1>6. Cardinality(Under(s, m)) = Cardinality(Under(s, k)) + 1
  <2>1. k \notin Under(s, k)
    BY DEF Under
  <2> QED BY <1>5, <2>1, BelowIs, FS_AddElement
<1> QED BY <1>3, <1>4, <1>6

LEMMA FirstMember ==
    ASSUME NEW s, s \subseteq Nat, IsFiniteSet(s), NEW k \in s, \A j \in s : k <= j
    PROVE  Cardinality(Under(s, k)) = 0
<1>1. Under(s, k) = {}
  <2>1. \A j \in s : j \in Nat /\ k \in Nat /\ ~(j < k)
    OBVIOUS
  <2> QED BY <2>1 DEF Under
<1> QED BY <1>1, FS_EmptySet

LEMMA LastMember ==
    ASSUME NEW s, s \subseteq Nat, IsFiniteSet(s), NEW k \in s, \A j \in s : j <= k
    PROVE  Cardinality(Under(s, k)) = Cardinality(s) - 1
<1>1. Under(s, k) = s \ {k}
  <2>1. \A j \in s : j \in Nat /\ k \in Nat /\ (j < k <=> j # k)
    OBVIOUS
  <2> QED BY <2>1 DEF Under
<1> QED BY <1>1, FS_RemoveElement

LEMMA OneMember ==
    ASSUME NEW s, s \subseteq Nat, IsFiniteSet(s), NEW k \in s, NEW m \in s,
           Cardinality(Under(s, k)) = Cardinality(Under(s, m))
    PROVE  k = m
<1>1. ASSUME NEW x \in s, NEW y \in s, x < y,
             Cardinality(Under(s, x)) = Cardinality(Under(s, y))
      PROVE  FALSE
  <2>1. Under(s, x) \subseteq Under(s, y) /\ x \in Under(s, y) /\ x \notin Under(s, x)
    <3>1. \A j \in s : j < x => j < y
      <4>1. \A j \in s : j \in Nat
        OBVIOUS
      <4> QED BY <1>1, <4>1
    <3>2. ~(x < x)
      <4>1. x \in Nat
        OBVIOUS
      <4> QED BY <4>1
    <3> QED BY <1>1, <3>1, <3>2 DEF Under
  <2>2. Under(s, y) = Under(s, x)
    BY <1>1, <2>1, BelowIs, FS_Subset
  <2> QED BY <2>1, <2>2
<1>2. k \in Nat /\ m \in Nat
  OBVIOUS
<1>3. ~(k < m) /\ ~(m < k)
  BY <1>1
<1> QED BY <1>2, <1>3

Nth(s, n) == CHOOSE k \in s : Cardinality(Under(s, k)) = n

LEMMA NthIs ==
    ASSUME NEW s, s \subseteq Nat, IsFiniteSet(s), NEW n \in Nat, n < Cardinality(s)
    PROVE  Nth(s, n) \in s /\ Cardinality(Under(s, Nth(s, n))) = n
<1> DEFINE S == {i \in Nat : i < Cardinality(s) =>
                    \E k \in s : Cardinality(Under(s, k)) = i}
<1>1. 0 \in S
  <2> SUFFICES ASSUME 0 < Cardinality(s) PROVE \E k \in s : Cardinality(Under(s, k)) = 0
    OBVIOUS
  <2>1. s # {}
    BY FS_EmptySet
  <2>2. PICK k \in s : \A j \in s : k <= j
    BY <2>1, Taking!LeastNatural
  <2> QED BY <2>2, FirstMember
<1>2. ASSUME NEW i \in Nat, i \in S PROVE i + 1 \in S
  <2> SUFFICES ASSUME i + 1 < Cardinality(s)
               PROVE  \E k \in s : Cardinality(Under(s, k)) = i + 1
    OBVIOUS
  <2>1. i < Cardinality(s)
    <3>1. Cardinality(s) \in Nat
      BY FS_CardinalityType
    <3> QED BY <3>1
  <2>2. PICK k \in s : Cardinality(Under(s, k)) = i
    BY <1>2, <2>1
  <2> HIDE DEF S
  <2>3. PICK m \in s : Cardinality(Under(s, m)) = Cardinality(Under(s, k)) + 1
    BY <2>2, NextMember
  <2> QED BY <2>2, <2>3
<1> HIDE DEF S
<1>3. n \in S
  BY <1>1, <1>2, Taking!SetInduction
<1>4. \E k \in s : Cardinality(Under(s, k)) = n
  BY <1>3 DEF S
<1> QED BY <1>4 DEF Nth

LEMMA NthNext ==
    ASSUME NEW s, s \subseteq Nat, IsFiniteSet(s), NEW n \in Nat, n + 1 < Cardinality(s)
    PROVE  /\ Nth(s, n) < Nth(s, n + 1)
           /\ \A j \in s : ~(Nth(s, n) < j /\ j < Nth(s, n + 1))
<1>1. PICK k \in s : k = Nth(s, n) /\ Cardinality(Under(s, k)) = n
  <2>1. n < Cardinality(s)
    <3>1. Cardinality(s) \in Nat
      BY FS_CardinalityType
    <3> QED BY <3>1
  <2> QED BY <2>1, NthIs
<1>2. PICK m \in s : /\ k < m /\ Cardinality(Under(s, m)) = n + 1
                     /\ \A j \in s : ~(k < j /\ j < m)
  <2>1. Cardinality(Under(s, k)) + 1 < Cardinality(s)
    BY <1>1
  <2>2. \E m \in s : /\ k < m
                      /\ Cardinality(Under(s, m)) = Cardinality(Under(s, k)) + 1
                      /\ \A j \in s : ~(k < j /\ j < m)
    BY <2>1, NextMember, Zenon
  <2> QED BY <1>1, <2>2
<1>3. Nth(s, n + 1) = m
  <2>1. PICK i \in Nat : i = n + 1
    OBVIOUS
  <2>2. Nth(s, i) \in s /\ Cardinality(Under(s, Nth(s, i))) = i
    BY <2>1, NthIs
  <2>3. PICK l \in s : l = Nth(s, i) /\ Cardinality(Under(s, l)) = i
    BY <2>2
  <2>4. l = m
    BY <1>2, <2>1, <2>3, OneMember
  <2> QED BY <2>1, <2>3, <2>4
<1> QED BY <1>1, <1>2, <1>3

LEMMA NthFirst ==
    ASSUME NEW s, s \subseteq Nat, IsFiniteSet(s), NEW k \in s, \A j \in s : k <= j
    PROVE  Nth(s, 0) = k
<1>1. Cardinality(Under(s, k)) = 0
  BY FirstMember
<1>2. Nth(s, 0) \in s /\ Cardinality(Under(s, Nth(s, 0))) = 0
  BY <1>1 DEF Nth
<1> QED BY <1>1, <1>2, OneMember

LEMMA NthLast ==
    ASSUME NEW s, s \subseteq Nat, IsFiniteSet(s), NEW k \in s, \A j \in s : j <= k
    PROVE  Nth(s, Cardinality(s) - 1) = k
<1>1. PICK n : n = Cardinality(s) - 1
  OBVIOUS
<1>2. Cardinality(Under(s, k)) = n
  BY <1>1, LastMember
<1>3. Nth(s, n) \in s /\ Cardinality(Under(s, Nth(s, n))) = n
  BY <1>2 DEF Nth
<1> QED BY <1>1, <1>2, <1>3, OneMember


-----------------------------------------------------------------------------
(* Splitting a text                                                         *)

Cuts(text, c) == {0, Len(text) + 1} \cup {k \in DOMAIN text : text[k] = c}

\* The places from a to b, and no c between them.
Piece(text, a, b)    == SubSeq(text, a, b)
Clear(text, c, a, b) == \A j \in 1 .. Len(text) : a < j /\ j < b => text[j] # c

\* The pieces of a text lie between cut[n - 1] and cut[n].
CutBy(text, c, N, cut) ==
    /\ cut[0] = 0 /\ cut[N] = Len(text) + 1
    /\ \A n \in 1 .. N : /\ cut[n - 1] < cut[n]
                         /\ n < N => cut[n] <= Len(text) /\ text[cut[n]] = c
                         /\ Clear(text, c, cut[n - 1], cut[n])
    /\ Split(text, c) = [n \in 1 .. N |-> Piece(text, cut[n - 1] + 1, cut[n] - 1)]

LEMMA CutsAre ==
    ASSUME NEW text \in Seq(Nat), NEW c
    PROVE  /\ Cuts(text, c) \subseteq Nat /\ IsFiniteSet(Cuts(text, c))
           /\ 0 \in Cuts(text, c) /\ Len(text) + 1 \in Cuts(text, c)
           /\ \A j \in Cuts(text, c) : 0 <= j /\ j <= Len(text) + 1
           /\ \A j \in 1 .. Len(text) : j \in Cuts(text, c) <=> text[j] = c
<1>1. Len(text) \in Nat /\ DOMAIN text = 1 .. Len(text)
  BY LenProperties
<1>2. Cuts(text, c) \subseteq 0 .. Len(text) + 1
  BY <1>1 DEF Cuts
<1>3. IsFiniteSet(Cuts(text, c))
  <2>1. IsFiniteSet(0 .. Len(text) + 1)
    <3>1. PICK n \in Int, z \in Int : n = Len(text) + 1 /\ z = 0
      BY <1>1
    <3>2. IsFiniteSet(z .. n)
      BY FS_Interval
    <3> QED BY <3>1, <3>2
  <2> QED BY <1>2, <2>1, FS_Subset
<1> QED BY <1>1, <1>2, <1>3 DEF Cuts

LEMMA SplitIs ==
    ASSUME NEW text \in Seq(Nat), NEW c
    PROVE  \E N \in Nat \ {0} : \E cut \in [0 .. N -> 0 .. Len(text) + 1] :
              CutBy(text, c, N, cut)
<1> DEFINE cuts == Cuts(text, c)
           size == Cardinality(cuts)
<1>1. /\ cuts \subseteq Nat /\ IsFiniteSet(cuts) /\ 0 \in cuts /\ Len(text) + 1 \in cuts
      /\ \A j \in cuts : 0 <= j /\ j <= Len(text) + 1
      /\ \A j \in 1 .. Len(text) : j \in cuts <=> text[j] = c
      /\ Len(text) \in Nat
  BY CutsAre, LenProperties
<1>2. Split(text, c) = [n \in 1 .. size - 1 |->
                           Piece(text, Nth(cuts, n - 1) + 1, Nth(cuts, n) - 1)]
  BY DEF Split, Cuts, Nth, Under, Piece
<1> HIDE DEF cuts
<1>3. Nth(cuts, 0) = 0 /\ Nth(cuts, size - 1) = Len(text) + 1
  <2>1. PICK z \in cuts, l \in cuts : z = 0 /\ l = Len(text) + 1
    BY <1>1
  <2> QED BY <1>1, <2>1, NthFirst, NthLast
<1>4. PICK N \in Nat \ {0} : N = size - 1
  <2>1. size \in Nat
    BY <1>1, FS_CardinalityType
  <2>2. size # 0
    BY <1>1, FS_EmptySet
  <2>3. size # 1
    BY <1>1, <1>3
  <2> QED BY <2>1, <2>2, <2>3
<1> HIDE DEF size
<1>5. \A n \in Nat : n <= N => Nth(cuts, n) \in cuts
  <2>1. ASSUME NEW n \in Nat, n <= N PROVE n < size
    <3>1. size \in Nat
      BY <1>1, FS_CardinalityType DEF size
    <3> QED BY <1>4, <2>1, <3>1
  <2> QED BY <1>1, <2>1, NthIs DEF size
<1> DEFINE cut == [n \in 0 .. N |-> Nth(cuts, n)]
<1>6. cut \in [0 .. N -> 0 .. Len(text) + 1]
  <2>1. \A n \in 0 .. N : Nth(cuts, n) \in cuts
    BY <1>5
  <2>2. \A j \in cuts : j \in 0 .. Len(text) + 1
    <3> HIDE DEF cut
    <3> QED BY <1>1
  <2>3. \A n \in 0 .. N : Nth(cuts, n) \in 0 .. Len(text) + 1
    BY <2>1, <2>2, Zenon
  <2> QED BY <2>3
<1>7. \A n \in 0 .. N : cut[n] = Nth(cuts, n)
  OBVIOUS
<1>8. cut[0] = 0 /\ cut[N] = Len(text) + 1
  BY <1>3, <1>4, <1>7
<1>9. \A n \in 1 .. N : /\ cut[n - 1] < cut[n]
                        /\ \A j \in cuts : ~(cut[n - 1] < j /\ j < cut[n])
  <2> SUFFICES ASSUME NEW n \in 1 .. N
               PROVE  /\ cut[n - 1] < cut[n]
                      /\ \A j \in cuts : ~(cut[n - 1] < j /\ j < cut[n])
    OBVIOUS
  <2>1. PICK m \in Nat : m = n - 1 /\ n = m + 1
    OBVIOUS
  <2>2. m + 1 < Cardinality(cuts)
    <3>1. Cardinality(cuts) \in Nat
      BY <1>1, FS_CardinalityType
    <3> QED BY <1>4, <2>1, <3>1 DEF size
  <2>3. /\ Nth(cuts, m) < Nth(cuts, m + 1)
        /\ \A j \in cuts : ~(Nth(cuts, m) < j /\ j < Nth(cuts, m + 1))
    BY <1>1, <2>2, NthNext
  <2>4. cut[n - 1] = Nth(cuts, m) /\ cut[n] = Nth(cuts, m + 1)
    BY <1>7, <2>1
  <2> HIDE DEF cut
  <2> QED BY <2>3, <2>4
<1>10. Split(text, c) = [n \in 1 .. N |-> Piece(text, cut[n - 1] + 1, cut[n] - 1)]
  <2>1. \A n \in 1 .. N : cut[n - 1] = Nth(cuts, n - 1) /\ cut[n] = Nth(cuts, n)
    BY <1>7
  <2> HIDE DEF cut
  <2> QED BY <1>2, <1>4, <2>1
<1> HIDE DEF cut
<1>11. \A n \in 0 .. N : cut[n] \in cuts
  BY <1>5, <1>7
<1>12. \A n \in 0 .. N : n < N => cut[n] # Len(text) + 1
  <2> SUFFICES ASSUME NEW n \in 0 .. N, n < N, cut[n] = Len(text) + 1 PROVE FALSE
    OBVIOUS
  <2>1. n + 1 \in 1 .. N /\ (n + 1) - 1 = n
    BY <1>4
  <2>2. cut[n] < cut[n + 1] /\ cut[n + 1] \in cuts
    BY <1>9, <1>11, <2>1
  <2>3. cut[n + 1] <= Len(text) + 1 /\ cut[n + 1] \in Nat
    BY <1>1, <2>2
  <2> QED BY <1>1, <2>2, <2>3
<1>13. ASSUME NEW n \in 1 .. N
       PROVE  /\ cut[n - 1] < cut[n]
              /\ n < N => cut[n] <= Len(text) /\ text[cut[n]] = c
              /\ Clear(text, c, cut[n - 1], cut[n])
  <2>1. /\ cut[n - 1] < cut[n] /\ cut[n - 1] \in Nat /\ cut[n] \in cuts
        /\ cut[n] <= Len(text) + 1
    <3>1. n - 1 \in 0 .. N /\ n \in 0 .. N
      OBVIOUS
    <3>2. cut[n - 1] \in cuts /\ cut[n] \in cuts /\ cut[n - 1] < cut[n]
      BY <1>9, <1>11, <3>1
    <3> QED BY <1>1, <3>2
  <2>2. n < N => cut[n] \in 1 .. Len(text)
    <3>1. n < N => cut[n] # Len(text) + 1
      <4>1. n \in 0 .. N
        OBVIOUS
      <4> QED BY <1>12, <4>1
    <3>2. cut[n] \in Nat
      BY <1>1, <2>1
    <3> QED BY <1>1, <2>1, <3>1, <3>2
  <2>3. \A j \in 1 .. Len(text) : cut[n - 1] < j /\ j < cut[n] => text[j] # c
    BY <1>1, <1>9
  <2> QED BY <1>1, <2>1, <2>2, <2>3 DEF Clear
<1>14. CutBy(text, c, N, cut)
  BY <1>8, <1>10, <1>13 DEF CutBy
<1> QED BY <1>6, <1>14

\* The nth of N pieces lies between a and b.
PieceAt(text, c, N, n, a, b) ==
    /\ a < b /\ Clear(text, c, a, b) /\ Split(text, c)[n] = Piece(text, a + 1, b - 1)
    /\ n < N => b <= Len(text) /\ text[b] = c

LEMMA CutAt ==
    ASSUME NEW text, NEW c, NEW N, NEW cut, CutBy(text, c, N, cut), NEW n \in 1 .. N
    PROVE  PieceAt(text, c, N, n, cut[n - 1], cut[n])
BY DEF CutBy, PieceAt

LEMMA PieceIs ==
    ASSUME NEW s \in Seq(Nat), NEW a \in Nat, NEW b \in Nat, 1 <= a, b <= Len(s)
    PROVE  /\ Piece(s, a, b) \in Seq(Nat)
           /\ Len(Piece(s, a, b)) = IF a <= b THEN b - a + 1 ELSE 0
           /\ \A i \in 1 .. b - a + 1 : Piece(s, a, b)[i] = s[a + i - 1]
<1>1. \A i \in a .. b : s[i] \in Nat
  <2>1. \A i \in a .. b : i \in 1 .. Len(s)
    BY LenProperties
  <2> QED BY <2>1, ElementOfSeq
<1>2. /\ SubSeq(s, a, b) \in Seq(Nat)
      /\ Len(SubSeq(s, a, b)) = IF a <= b THEN b - a + 1 ELSE 0
      /\ \A i \in 1 .. b - a + 1 : SubSeq(s, a, b)[i] = s[a + i - 1]
  BY <1>1, SubSeqProperties
<1> QED BY <1>2, Zenon DEF Piece

LEMMA WholePiece ==
    ASSUME NEW s \in Seq(Nat)
    PROVE  Piece(s, 1, Len(s)) = s
BY LenProperties DEF Piece


-----------------------------------------------------------------------------
(* strchr                                                                   *)

LEMMA StrchrAt ==
    ASSUME NEW text \in Seq(Nat), NEW c, NEW k \in 1 .. Len(text), text[k] = c,
           \A j \in 1 .. Len(text) : j < k => text[j] # c
    PROVE  strchr(text, c) = k
<1> DEFINE places == {j \in DOMAIN text : text[j] = c}
<1>1. DOMAIN text = 1 .. Len(text) /\ Len(text) \in Nat
  BY LenProperties
<1>2. k \in places /\ \A j \in places : j \in Nat /\ k <= j
  BY <1>1
<1>3. strchr(text, c) = First(places)
  BY <1>2 DEF strchr
<1> HIDE DEF places
<1>4. First(places) \in places /\ First(places) <= k
  BY <1>2 DEF First
<1>5. k <= First(places) /\ First(places) \in Nat /\ k \in Nat
  BY <1>2, <1>4
<1> QED BY <1>3, <1>4, <1>5

LEMMA StrchrNone ==
    ASSUME NEW text \in Seq(Nat), NEW c, \A j \in 1 .. Len(text) : text[j] # c
    PROVE  strchr(text, c) = 0
<1>1. DOMAIN text = 1 .. Len(text)
  BY LenProperties
<1>2. {j \in DOMAIN text : text[j] = c} = {}
  BY <1>1
<1> QED BY <1>2 DEF strchr

LEMMA StrchrIs ==
    ASSUME NEW text \in Seq(Nat), NEW c
    PROVE  \/ strchr(text, c) = 0 /\ \A j \in 1 .. Len(text) : text[j] # c
           \/ /\ strchr(text, c) \in 1 .. Len(text) /\ text[strchr(text, c)] = c
              /\ \A j \in 1 .. Len(text) : j < strchr(text, c) => text[j] # c
<1> DEFINE places == {j \in 1 .. Len(text) : text[j] = c}
<1>1. CASE places = {}
  <2>1. \A j \in 1 .. Len(text) : text[j] # c
    BY <1>1
  <2> HIDE DEF places
  <2> QED BY <2>1, StrchrNone
<1>2. CASE places # {}
  <2>1. places \subseteq Nat
    OBVIOUS
  <2>2. PICK k \in places : \A j \in places : k <= j
    <3> HIDE DEF places
    <3> QED BY <1>2, <2>1, Taking!LeastNatural
  <2>3. k \in 1 .. Len(text) /\ text[k] = c
    OBVIOUS
  <2>4. \A j \in 1 .. Len(text) : j < k => text[j] # c
    BY <2>2, <2>3
  <2> HIDE DEF places
  <2>5. strchr(text, c) = k
    BY <2>3, <2>4, StrchrAt
  <2> QED BY <2>3, <2>4, <2>5
<1> QED BY <1>1, <1>2

-----------------------------------------------------------------------------
(* What a component means                                                   *)

\* The short name of a component whose dot is at place d, or that has none.
ShortOf(word, d) ==
    [k \in 1 .. NAME + EXT |->
        IF k <= NAME
        THEN IF k <= Len(word) /\ (d = 0 \/ k < d) THEN toupper(word[k]) ELSE BLANK
        ELSE IF d # 0 /\ d + k - NAME <= Len(word)
             THEN toupper(word[d + k - NAME]) ELSE BLANK]

\* A component with its only dot at place d, or none.
DotAt(word, d) ==
    \/ d = 0 /\ Len(word) \in 1 .. NAME /\ \A j \in 1 .. Len(word) : word[j] # DOT
    \/ /\ d \in 1 .. Len(word) /\ word[d] = DOT
       /\ \A j \in 1 .. Len(word) : j # d => word[j] # DOT
       /\ d - 1 \in 1 .. NAME /\ Len(word) - d <= EXT

\* What Split makes of a component with its dot there.
PartsBy(word, d) ==
    /\ DotAt(word, d)
    /\ d = 0 => Split(word, DOT) = <<word>>
    /\ d # 0 => Split(word, DOT) = <<Piece(word, 1, d - 1), Piece(word, d + 1, Len(word))>>

LEMMA OnePart ==
    ASSUME NEW word \in Seq(Nat), NEW N, N = 1, NEW cut, CutBy(word, DOT, N, cut),
           Len(word) \in 1 .. NAME
    PROVE  PartsBy(word, 0)
<1>1. PICK l \in Nat, z \in Nat, e \in Nat : l = Len(word) /\ z = 0 /\ e = l + 1
  <2>1. Len(word) \in Nat
    BY LenProperties
  <2> QED BY <2>1
<1>2. cut[N - 1] = z /\ cut[N] = e /\ N \in 1 .. N
  BY <1>1 DEF CutBy
<1>3. PieceAt(word, DOT, N, N, z, e)
  <2>1. PieceAt(word, DOT, N, N, cut[N - 1], cut[N])
    BY <1>2, CutAt, Zenon
  <2> QED BY <1>2, <2>1
<1>4. Clear(word, DOT, z, e) /\ Split(word, DOT)[N] = Piece(word, z + 1, e - 1)
  BY <1>3 DEF PieceAt
<1>5. Split(word, DOT)[1] = word
  <2>1. z + 1 = 1 /\ e - 1 = Len(word)
    BY <1>1
  <2> QED BY <1>4, <2>1, WholePiece
<1>6. Split(word, DOT) = <<word>>
  <2>1. PICK parts : parts = Split(word, DOT)
    OBVIOUS
  <2>2. parts = [n \in 1 .. 1 |-> Piece(word, cut[n - 1] + 1, cut[n] - 1)]
    BY <2>1 DEF CutBy
  <2>3. parts = [n \in 1 .. 1 |-> parts[n]] /\ parts[1] = word
    BY <1>5, <2>1, <2>2
  <2>4. parts = <<word>>
    BY <2>3
  <2> QED BY <2>1, <2>4
<1>7. \A j \in 1 .. Len(word) : word[j] # DOT
  BY <1>1, <1>4 DEF Clear
<1> QED BY <1>6, <1>7 DEF PartsBy, DotAt

LEMMA TwoParts ==
    ASSUME NEW word \in Seq(Nat), NEW N, N = 2, NEW cut \in [0 .. N -> 0 .. Len(word) + 1],
           CutBy(word, DOT, N, cut),
           Len(Split(word, DOT)[1]) \in 1 .. NAME, Len(Split(word, DOT)[2]) <= EXT
    PROVE  \E d \in Nat : PartsBy(word, d)
<1>1. PICK l \in Nat, z \in Nat, e \in Nat, one \in Nat :
         l = Len(word) /\ z = 0 /\ e = l + 1 /\ one = 1
  <2>1. Len(word) \in Nat
    BY LenProperties
  <2> QED BY <2>1
<1>2. PICK d \in Nat : d = cut[1]
  <2>1. cut[1] \in 0 .. Len(word) + 1
    OBVIOUS
  <2> QED BY <2>1
<1>3. /\ cut[one - 1] = z /\ cut[one] = d /\ one \in 1 .. N /\ one < N
      /\ cut[N - 1] = d /\ cut[N] = e /\ N \in 1 .. N
  BY <1>1, <1>2 DEF CutBy
<1>4. PieceAt(word, DOT, N, one, z, d) /\ PieceAt(word, DOT, N, N, d, e)
  <2>1. /\ PieceAt(word, DOT, N, one, cut[one - 1], cut[one])
        /\ PieceAt(word, DOT, N, N, cut[N - 1], cut[N])
    BY <1>3, CutAt, Zenon
  <2> QED BY <1>3, <2>1
<1>5. /\ z < d /\ Clear(word, DOT, z, d) /\ Split(word, DOT)[one] = Piece(word, z + 1, d - 1)
      /\ d <= Len(word) /\ word[d] = DOT
      /\ d < e /\ Clear(word, DOT, d, e) /\ Split(word, DOT)[N] = Piece(word, d + 1, e - 1)
  BY <1>3, <1>4, Zenon DEF PieceAt
<1>6. d \in 1 .. Len(word) /\ \A j \in 1 .. Len(word) : j # d => word[j] # DOT
  <2>1. d \in 1 .. Len(word)
    BY <1>1, <1>5
  <2>2. ASSUME NEW j \in 1 .. Len(word), j # d PROVE word[j] # DOT
    <3>1. (z < j /\ j < d) \/ (d < j /\ j < e)
      BY <1>1, <1>2, <2>2
    <3> QED BY <1>5, <3>1 DEF Clear
  <2> QED BY <2>1, <2>2
<1>7. PICK a \in Nat, b \in Nat : a = d - 1 /\ b = d + 1
  <2>1. d - 1 \in Nat /\ d + 1 \in Nat
    BY <1>1, <1>5
  <2> QED BY <2>1
<1>8. Split(word, DOT)[1] = Piece(word, one, a) /\ Split(word, DOT)[2] = Piece(word, b, l)
  <2>1. z + 1 = one /\ e - 1 = l /\ d - 1 = a /\ d + 1 = b /\ one = 1 /\ N = 2
    BY <1>1, <1>7
  <2> QED BY <1>5, <2>1
<1>9. Split(word, DOT) = <<Piece(word, one, a), Piece(word, b, l)>>
  <2>1. PICK parts, p, q : /\ parts = Split(word, DOT) /\ p = Piece(word, one, a)
                           /\ q = Piece(word, b, l)
    OBVIOUS
  <2>2. parts = [n \in 1 .. 2 |-> Piece(word, cut[n - 1] + 1, cut[n] - 1)]
    BY <2>1 DEF CutBy
  <2>3. parts = [n \in 1 .. 2 |-> parts[n]] /\ parts[1] = p /\ parts[2] = q
    BY <1>8, <2>1, <2>2
  <2>4. parts = <<p, q>>
    BY <2>3
  <2> QED BY <2>1, <2>4
<1>10. Len(Piece(word, one, a)) = a /\ Len(Piece(word, b, l)) = l - d
  <2>1. 1 <= one /\ a <= Len(word) /\ 1 <= b /\ l <= Len(word)
    BY <1>1, <1>5, <1>7
  <2>2. Len(Piece(word, one, a)) = IF one <= a THEN a - one + 1 ELSE 0
    BY <2>1, PieceIs, Zenon
  <2>3. Len(Piece(word, b, l)) = IF b <= l THEN l - b + 1 ELSE 0
    BY <2>1, PieceIs, Zenon
  <2>4. (one <= a => a - one + 1 = a) /\ (~(one <= a) => a = 0)
    BY <1>1
  <2>5. (b <= l => l - b + 1 = l - d) /\ (~(b <= l) => l - d = 0)
    BY <1>1, <1>5, <1>7
  <2> QED BY <2>2, <2>3, <2>4, <2>5, Zenon
<1>11. d - 1 \in 1 .. NAME /\ Len(word) - d <= EXT
  BY <1>1, <1>7, <1>8, <1>10
<1>12. DotAt(word, d)
  BY <1>5, <1>6, <1>11 DEF DotAt
<1>13. d # 0
  BY <1>6
<1>14. Split(word, DOT) = <<Piece(word, 1, d - 1), Piece(word, d + 1, Len(word))>>
  BY <1>1, <1>7, <1>9
<1> QED BY <1>12, <1>13, <1>14, Zenon DEF PartsBy

LEMMA PartsAre ==
    ASSUME NEW word \in Seq(Nat), Plain(word)
    PROVE  \E d \in Nat : PartsBy(word, d)
<1>1. PICK N \in Nat \ {0} : \E cut \in [0 .. N -> 0 .. Len(word) + 1] :
                                CutBy(word, DOT, N, cut)
  BY SplitIs
<1>2. PICK cut \in [0 .. N -> 0 .. Len(word) + 1] : CutBy(word, DOT, N, cut)
  BY <1>1
<1>3. PICK parts : parts = Split(word, DOT)
  OBVIOUS
<1>4. Len(parts) = N
  <2>1. parts = [n \in 1 .. N |-> Piece(word, cut[n - 1] + 1, cut[n] - 1)]
    BY <1>2, <1>3 DEF CutBy
  <2> QED BY <2>1
<1>5. /\ Len(parts[1]) \in 1 .. NAME
      /\ N = 1 \/ (N = 2 /\ Len(parts[2]) <= EXT)
  BY <1>3, <1>4 DEF Plain
<1>6. CASE N = 1
  <2>1. parts[1] = word
    <3>1. /\ cut[0] = 0 /\ cut[1] = Len(word) + 1
          /\ parts[1] = Piece(word, cut[0] + 1, cut[1] - 1)
      BY <1>2, <1>3, <1>6 DEF CutBy
    <3>2. PICK l \in Nat : l = Len(word)
      BY LenProperties
    <3>3. cut[0] + 1 = 1 /\ cut[1] - 1 = Len(word)
      BY <3>1, <3>2
    <3> QED BY <3>1, <3>3, WholePiece
  <2>2. PartsBy(word, 0)
    BY <1>2, <1>5, <1>6, <2>1, OnePart
  <2> QED BY <2>2
<1>7. CASE N = 2
  <2>1. Len(Split(word, DOT)[1]) \in 1 .. NAME /\ Len(Split(word, DOT)[2]) <= EXT
    BY <1>3, <1>5, <1>7
  <2> QED BY <1>2, <1>7, <2>1, TwoParts, Zenon
<1> QED BY <1>5, <1>6, <1>7


LEMMA Sizes ==
    NAME \in Nat /\ EXT \in Nat /\ NAME >= 1 /\ EXT >= 1 /\ MAX_PATH_SIZE \in Nat
BY PathAssumption

LEMMA CharType == \A c \in Nat : toupper(c) \in Nat /\ BLANK \in Nat
BY DEF toupper, islower, BLANK

LEMMA PaddedJoined ==
    ASSUME NEW p, NEW q
    PROVE  Padded(p, NAME) \o Padded(q, EXT) =
              [k \in 1 .. NAME + EXT |->
                  IF k <= NAME THEN IF k <= Len(p) THEN toupper(p[k]) ELSE BLANK
                  ELSE IF k - NAME <= Len(q) THEN toupper(q[k - NAME]) ELSE BLANK]
<1>1. PICK f, g : f = Padded(p, NAME) /\ g = Padded(q, EXT)
  OBVIOUS
<1>2. /\ f = [k \in 1 .. NAME |-> IF k <= Len(p) THEN toupper(p[k]) ELSE BLANK]
      /\ g = [k \in 1 .. EXT |-> IF k <= Len(q) THEN toupper(q[k]) ELSE BLANK]
  BY <1>1 DEF Padded
<1>3. Len(f) = NAME /\ Len(g) = EXT
  BY <1>2, Sizes
<1>4. f \o g = [k \in 1 .. NAME + EXT |-> IF k <= NAME THEN f[k] ELSE g[k - NAME]]
  BY <1>2, <1>3, Sizes
<1>5. \A k \in 1 .. NAME + EXT :
         (IF k <= NAME THEN f[k] ELSE g[k - NAME]) =
             IF k <= NAME THEN IF k <= Len(p) THEN toupper(p[k]) ELSE BLANK
             ELSE IF k - NAME <= Len(q) THEN toupper(q[k - NAME]) ELSE BLANK
  <2> SUFFICES ASSUME NEW k \in 1 .. NAME + EXT
               PROVE  (IF k <= NAME THEN f[k] ELSE g[k - NAME]) =
                         IF k <= NAME THEN IF k <= Len(p) THEN toupper(p[k]) ELSE BLANK
                         ELSE IF k - NAME <= Len(q) THEN toupper(q[k - NAME]) ELSE BLANK
    OBVIOUS
  <2>1. CASE k <= NAME
    <3>1. k \in 1 .. NAME
      BY <2>1, Sizes
    <3> QED BY <1>2, <2>1, <3>1
  <2>2. CASE ~(k <= NAME)
    <3>1. PICK i \in 1 .. EXT : i = k - NAME
      <4>1. k - NAME \in 1 .. EXT
        BY <2>2, Sizes
      <4> QED BY <4>1
    <3>2. g[i] = IF i <= Len(q) THEN toupper(q[i]) ELSE BLANK
      BY <1>2
    <3> QED BY <2>2, <3>1, <3>2
  <2> QED BY <2>1, <2>2
<1> QED BY <1>1, <1>4, <1>5

\* What a component means is the short name its dot makes of it.
LEMMA MeantIs ==
    ASSUME NEW word \in Seq(Nat), NEW d \in Nat, PartsBy(word, d)
    PROVE  Meant(word) = ShortOf(word, d)
<1>1. PICK l \in Nat : l = Len(word)
  BY LenProperties
<1>2. CASE d = 0
  <2>1. Split(word, DOT) = <<word>> /\ Len(word) <= NAME
    BY <1>2, Sizes DEF PartsBy, DotAt
  <2>2. Meant(word) = Padded(word, NAME) \o Padded(<<>>, EXT)
    <3>1. PICK parts : parts = Split(word, DOT)
      OBVIOUS
    <3>2. Len(parts) = 1 /\ parts[1] = word
      BY <2>1, <3>1
    <3> QED BY <3>1, <3>2 DEF Meant
  <2>3. Meant(word) = [k \in 1 .. NAME + EXT |->
            IF k <= NAME THEN IF k <= Len(word) THEN toupper(word[k]) ELSE BLANK
            ELSE IF k - NAME <= Len(<<>>) THEN toupper(<<>>[k - NAME]) ELSE BLANK]
    BY <2>2, PaddedJoined
  <2>4. \A k \in 1 .. NAME + EXT : ~(k <= NAME) => ~(k - NAME <= Len(<<>>))
    BY Sizes
  <2> QED BY <1>2, <2>3, <2>4 DEF ShortOf
<1>3. CASE d # 0
  <2>1. PICK p \in Seq(Nat), q \in Seq(Nat) :
           /\ Split(word, DOT) = <<p, q>> /\ Len(p) = d - 1 /\ Len(q) = l - d
           /\ \A i \in 1 .. d - 1 : p[i] = word[i]
           /\ \A i \in 1 .. l - d : q[i] = word[d + i]
    <3>1. d \in 1 .. l
      BY <1>1, <1>3 DEF PartsBy, DotAt
    <3>2. PICK one \in Nat, a \in Nat, b \in Nat : one = 1 /\ a = d - 1 /\ b = d + 1
      <4>1. d - 1 \in Nat /\ d + 1 \in Nat
        BY <3>1
      <4> QED BY <4>1
    <3>3. PICK p, q : p = Piece(word, one, a) /\ q = Piece(word, b, l)
      OBVIOUS
    <3>4. Split(word, DOT) = <<p, q>>
      <4>1. Split(word, DOT) = <<Piece(word, 1, d - 1), Piece(word, d + 1, Len(word))>>
        BY <1>3 DEF PartsBy
      <4> QED BY <1>1, <3>2, <3>3, <4>1
    <3>5. 1 <= one /\ a <= Len(word) /\ 1 <= b /\ l <= Len(word)
      BY <1>1, <3>1, <3>2
    <3>6. /\ p \in Seq(Nat) /\ Len(p) = IF one <= a THEN a - one + 1 ELSE 0
          /\ \A i \in 1 .. a - one + 1 : p[i] = word[one + i - 1]
      <4>1. /\ Piece(word, one, a) \in Seq(Nat)
            /\ Len(Piece(word, one, a)) = IF one <= a THEN a - one + 1 ELSE 0
            /\ \A i \in 1 .. a - one + 1 : Piece(word, one, a)[i] = word[one + i - 1]
        BY <3>5, PieceIs, ZenonT(60)
      <4> QED BY <3>3, <4>1
    <3>7. /\ q \in Seq(Nat) /\ Len(q) = IF b <= l THEN l - b + 1 ELSE 0
          /\ \A i \in 1 .. l - b + 1 : q[i] = word[b + i - 1]
      <4>1. /\ Piece(word, b, l) \in Seq(Nat)
            /\ Len(Piece(word, b, l)) = IF b <= l THEN l - b + 1 ELSE 0
            /\ \A i \in 1 .. l - b + 1 : Piece(word, b, l)[i] = word[b + i - 1]
        BY <3>5, PieceIs, ZenonT(60)
      <4> QED BY <3>3, <4>1
    <3>8. Len(p) = d - 1 /\ \A i \in 1 .. d - 1 : p[i] = word[i]
      BY <3>1, <3>2, <3>6
    <3>9. Len(q) = l - d /\ \A i \in 1 .. l - d : q[i] = word[d + i]
      BY <3>1, <3>2, <3>7
    <3> QED BY <3>4, <3>6, <3>7, <3>8, <3>9
  <2>2. Meant(word) = Padded(p, NAME) \o Padded(q, EXT)
    <3>1. PICK parts : parts = Split(word, DOT)
      OBVIOUS
    <3>2. Len(parts) = 2 /\ parts[1] = p /\ parts[2] = q
      BY <2>1, <3>1
    <3> QED BY <3>1, <3>2 DEF Meant
  <2>3. Meant(word) = [k \in 1 .. NAME + EXT |->
            IF k <= NAME THEN IF k <= Len(p) THEN toupper(p[k]) ELSE BLANK
            ELSE IF k - NAME <= Len(q) THEN toupper(q[k - NAME]) ELSE BLANK]
    BY <2>2, PaddedJoined
  <2>4. ASSUME NEW k \in 1 .. NAME + EXT
        PROVE  (IF k <= NAME THEN IF k <= Len(p) THEN toupper(p[k]) ELSE BLANK
                ELSE IF k - NAME <= Len(q) THEN toupper(q[k - NAME]) ELSE BLANK)
               = ShortOf(word, d)[k]
    <3>1. CASE k <= NAME
      <4>1. k <= Len(p) <=> (k <= Len(word) /\ k < d)
        <5>1. d <= l
          BY <1>1, <1>3 DEF PartsBy, DotAt
        <5> QED BY <1>1, <2>1, <5>1, Sizes
      <4>2. k <= Len(p) => p[k] = word[k]
        BY <2>1
      <4> QED BY <1>3, <3>1, <4>1, <4>2 DEF ShortOf
    <3>2. CASE ~(k <= NAME)
      <4>1. PICK i \in Nat : i = k - NAME /\ i >= 1
        <5>1. k - NAME \in Nat /\ k - NAME >= 1
          BY <3>2, Sizes
        <5> QED BY <5>1
      <4>2. i <= Len(q) <=> d + k - NAME <= Len(word)
        <5>1. Len(q) = l - d
          BY <2>1
        <5> QED BY <1>1, <4>1, <5>1, Sizes
      <4>3. i <= Len(q) => q[i] = word[d + i]
        <5>1. Len(q) = l - d /\ \A j \in 1 .. l - d : q[j] = word[d + j]
          BY <2>1
        <5> QED BY <1>1, <4>1, <5>1
      <4>4. d + i = d + k - NAME
        BY <4>1, Sizes
      <4> QED BY <1>3, <3>2, <4>1, <4>2, <4>3, <4>4 DEF ShortOf
    <3> QED BY <3>1, <3>2
  <2>5. ShortOf(word, d) = [k \in 1 .. NAME + EXT |-> ShortOf(word, d)[k]]
    BY DEF ShortOf
  <2> QED BY <2>3, <2>4, <2>5
<1> QED BY <1>2, <1>3


\* A component that leaves no room for a character behind it.
Cut(word, d) == IF d = 0 THEN Len(word) = NAME ELSE Len(word) - d = EXT

\* The component, perhaps with a character behind it that is cut off.
Holds(text, word, d) ==
    /\ \A i \in 1 .. Len(word) : text[i] = word[i]
    /\ \/ Len(text) = Len(word)
       \/ Len(text) = Len(word) + 1 /\ Cut(word, d)

\* The dot FAT_GetShortName finds.
LEMMA DotFound ==
    ASSUME NEW word \in Seq(Nat), NEW d \in Nat, DotAt(word, d),
           NEW text \in Seq(Nat), Holds(text, word, d)
    PROVE  \/ d # 0 /\ strchr(text, DOT) = d
           \/ d = 0 /\ strchr(text, DOT) = 0
           \/ d = 0 /\ strchr(text, DOT) = NAME + 1 /\ Len(text) = NAME + 1
<1>1. PICK l \in Nat, m \in Nat : l = Len(word) /\ m = Len(text)
  BY LenProperties
<1>2. CASE d # 0
  <2>1. d \in 1 .. Len(text) /\ text[d] = DOT
    BY <1>1, <1>2 DEF DotAt, Holds
  <2>2. \A j \in 1 .. Len(text) : j < d => text[j] # DOT
    <3>1. /\ d <= l /\ \A j \in 1 .. l : j # d => word[j] # DOT
          /\ \A j \in 1 .. l : text[j] = word[j]
      BY <1>1, <1>2 DEF DotAt, Holds
    <3> SUFFICES ASSUME NEW j \in 1 .. m, j < d PROVE text[j] # DOT
      BY <1>1
    <3>2. j \in 1 .. l /\ j # d
      BY <3>1
    <3> QED BY <3>1, <3>2
  <2>3. strchr(text, DOT) = d
    BY <2>1, <2>2, StrchrAt
  <2> QED BY <1>2, <2>3
<1>3. CASE d = 0
  <2>1. \A j \in 1 .. Len(word) : text[j] # DOT
    BY <1>3 DEF DotAt, Holds
  <2>2. PICK e : e = strchr(text, DOT)
    OBVIOUS
  <2>3. e = 0 \/ (e \in 1 .. Len(text) /\ text[e] = DOT)
    BY <2>2, StrchrIs
  <2>4. e # 0 => e = NAME + 1 /\ Len(text) = NAME + 1
    <3> SUFFICES ASSUME e # 0 PROVE e = NAME + 1 /\ Len(text) = NAME + 1
      OBVIOUS
    <3>1. e \in 1 .. Len(text) /\ e \notin 1 .. Len(word)
      BY <2>1, <2>3
    <3>2. Len(text) = Len(word) + 1 /\ Len(word) = NAME
      BY <1>1, <1>3, <3>1 DEF Holds, Cut
    <3> QED BY <1>1, <3>1, <3>2
  <2> QED BY <1>3, <2>2, <2>3, <2>4
<1> QED BY <1>2, <1>3

\* The short name FAT_GetShortName makes of a component.
LEMMA ShortNameIs ==
    ASSUME NEW word \in Seq(Nat), NEW d \in Nat, DotAt(word, d),
           NEW text \in Seq(Nat), Holds(text, word, d)
    PROVE  GetShortName(text) = ShortOf(word, d)
<1>1. PICK l \in Nat, m \in Nat : l = Len(word) /\ m = Len(text)
  BY LenProperties
<1>2. PICK e : e = strchr(text, DOT)
  OBVIOUS
<1>3. \/ d # 0 /\ e = d /\ d <= NAME + 1 /\ d >= 1 /\ d <= l
      \/ d = 0 /\ e = 0
      \/ d = 0 /\ e = NAME + 1 /\ m = NAME + 1
  <2>1. d # 0 => d <= NAME + 1 /\ d >= 1 /\ d <= l
    BY <1>1, Sizes DEF DotAt
  <2> QED BY <1>1, <1>2, <2>1, DotFound
<1>4. PICK ext \in Nat : ext = IF e = 0 THEN NAME + EXT + 1 ELSE e
  <2>1. NAME + EXT + 1 \in Nat /\ e \in Nat
    BY <1>3, Sizes
  <2> QED BY <2>1
<1>5. m = l \/ (m = l + 1 /\ (d = 0 => l = NAME) /\ (d # 0 => l - d = EXT))
  BY <1>1 DEF Holds, Cut
<1> DEFINE Char(k) == IF k <= Len(text) THEN toupper(text[k]) ELSE BLANK
<1>6. GetShortName(text) =
         [k \in 1 .. NAME + EXT |->
            IF k <= NAME THEN IF k < ext THEN Char(k) ELSE BLANK
            ELSE IF ext = NAME + EXT + 1 THEN BLANK ELSE Char(ext + k - NAME)]
  BY <1>2, <1>4 DEF GetShortName
<1>7. \A i \in 1 .. l : text[i] = word[i]
  BY <1>1 DEF Holds
<1>8. ASSUME NEW k \in 1 .. NAME + EXT, k <= NAME
      PROVE  (IF k < ext THEN Char(k) ELSE BLANK) = ShortOf(word, d)[k]
  <2>1. ShortOf(word, d)[k] = IF k <= l /\ (d = 0 \/ k < d) THEN toupper(word[k]) ELSE BLANK
    BY <1>1, <1>8 DEF ShortOf
  <2>2. k < ext <=> (d = 0 \/ k < d)
    BY <1>3, <1>4, <1>8, Sizes
  <2>3. (d = 0 \/ k < d) => (k <= l <=> k <= m)
    BY <1>3, <1>5, <1>8, Sizes
  <2>4. k <= l => text[k] = word[k]
    BY <1>7
  <2> QED BY <1>1, <2>1, <2>2, <2>3, <2>4
<1>9. ASSUME NEW k \in 1 .. NAME + EXT, ~(k <= NAME)
      PROVE  (IF ext = NAME + EXT + 1 THEN BLANK ELSE Char(ext + k - NAME))
             = ShortOf(word, d)[k]
  <2>1. ShortOf(word, d)[k] = IF d # 0 /\ d + k - NAME <= l
                              THEN toupper(word[d + k - NAME]) ELSE BLANK
    BY <1>1, <1>9 DEF ShortOf
  <2>2. CASE d # 0
    <3>1. ext = d /\ ext # NAME + EXT + 1
      <4>1. e = d /\ d <= NAME + 1 /\ d >= 1
        BY <1>3, <2>2
      <4>2. ext = d
        BY <1>4, <4>1
      <4> HIDE DEF Char
      <4> QED BY <4>1, <4>2, Sizes
    <3>2. PICK i \in Nat : i = d + k - NAME /\ i >= 1 /\ i <= d + EXT
      <4>1. d + k - NAME \in Nat /\ d + k - NAME >= 1 /\ d + k - NAME <= d + EXT
        BY <1>9, Sizes
      <4> QED BY <4>1
    <3>3. i <= l <=> i <= m
      BY <1>5, <2>2, <3>2, Sizes
    <3>4. i <= l => text[i] = word[i]
      BY <1>7, <3>2
    <3>5. Char(i) = IF i <= l THEN toupper(word[i]) ELSE BLANK
      BY <1>1, <3>3, <3>4
    <3> HIDE DEF Char
    <3> QED BY <2>1, <2>2, <3>1, <3>2, <3>5
  <2>3. CASE d = 0
    <3>1. CASE e = 0
      BY <1>4, <2>1, <2>3, <3>1
    <3>2. CASE e # 0
      <4>1. ext = NAME + 1 /\ m = NAME + 1
        BY <1>3, <1>4, <2>3, <3>2
      <4>2. ~(ext + k - NAME <= m)
        BY <1>9, <4>1, Sizes
      <4>3. Char(ext + k - NAME) = BLANK
        BY <1>1, <4>2
      <4> HIDE DEF Char
      <4> QED BY <2>1, <2>3, <4>3
    <3> QED BY <3>1, <3>2
  <2> QED BY <2>2, <2>3
<1> HIDE DEF Char
<1>10. \A k \in 1 .. NAME + EXT : GetShortName(text)[k] = ShortOf(word, d)[k]
  BY <1>6, <1>8, <1>9
<1>11. GetShortName(text) = [k \in 1 .. NAME + EXT |-> GetShortName(text)[k]]
  BY <1>6
<1>12. ShortOf(word, d) = [k \in 1 .. NAME + EXT |-> ShortOf(word, d)[k]]
  BY DEF ShortOf
<1> QED BY <1>10, <1>11, <1>12

LEMMA ShortNameType ==
    ASSUME NEW text \in Seq(Nat)
    PROVE  GetShortName(text) \in [1 .. NAME + EXT -> Nat]
<1>1. PICK m \in Nat : m = Len(text)
  BY LenProperties
<1>2. PICK e \in Nat : e = strchr(text, DOT)
  <2>1. strchr(text, DOT) \in Nat
    BY <1>1, StrchrIs
  <2> QED BY <2>1
<1>3. PICK ext \in Nat : ext = IF e = 0 THEN NAME + EXT + 1 ELSE e
  <2>1. NAME + EXT + 1 \in Nat
    BY Sizes
  <2> QED BY <2>1
<1> DEFINE Char(k) == IF k <= Len(text) THEN toupper(text[k]) ELSE BLANK
<1>4. GetShortName(text) =
         [k \in 1 .. NAME + EXT |->
            IF k <= NAME THEN IF k < ext THEN Char(k) ELSE BLANK
            ELSE IF ext = NAME + EXT + 1 THEN BLANK ELSE Char(ext + k - NAME)]
  BY <1>2, <1>3 DEF GetShortName
<1>5. \A k \in Nat : k >= 1 => Char(k) \in Nat
  <2>1. \A k \in 1 .. m : text[k] \in Nat
    BY <1>1, ElementOfSeq
  <2> SUFFICES ASSUME NEW k \in Nat, k >= 1 PROVE Char(k) \in Nat
    OBVIOUS
  <2>2. CASE k <= m
    <3>1. text[k] \in Nat
      BY <2>1, <2>2
    <3>2. toupper(text[k]) \in Nat
      BY <3>1, CharType
    <3> QED BY <1>1, <2>2, <3>2
  <2>3. CASE ~(k <= m)
    BY <1>1, <2>3 DEF BLANK
  <2> QED BY <2>2, <2>3
<1>6. BLANK \in Nat
  BY DEF BLANK
<1> HIDE DEF Char
<1>7. \A k \in 1 .. NAME + EXT :
         (IF k <= NAME THEN IF k < ext THEN Char(k) ELSE BLANK
          ELSE IF ext = NAME + EXT + 1 THEN BLANK ELSE Char(ext + k - NAME)) \in Nat
  <2> SUFFICES ASSUME NEW k \in 1 .. NAME + EXT
               PROVE  /\ k <= NAME => Char(k) \in Nat
                      /\ ~(k <= NAME) => Char(ext + k - NAME) \in Nat
    BY <1>6
  <2>1. k \in Nat /\ k >= 1
    BY Sizes
  <2>2. ~(k <= NAME) => ext + k - NAME \in Nat /\ ext + k - NAME >= 1
    BY Sizes
  <2> QED BY <1>5, <2>1, <2>2
<1> QED BY <1>4, <1>7


\* A component whose short name leaves no blank at the end of it.
Full(word) ==
    LET parts == Split(word, DOT)
    IN  IF Len(parts) = 1 THEN Len(parts[1]) = NAME ELSE Len(parts[2]) = EXT

LEMMA FullIsCut ==
    ASSUME NEW word \in Seq(Nat), NEW d \in Nat, PartsBy(word, d), Full(word)
    PROVE  Cut(word, d)
<1>1. PICK l \in Nat : l = Len(word)
  BY LenProperties
<1>2. PICK parts : parts = Split(word, DOT)
  OBVIOUS
<1>3. IF Len(parts) = 1 THEN Len(parts[1]) = NAME ELSE Len(parts[2]) = EXT
  BY <1>2 DEF Full
<1>4. CASE d = 0
  <2>1. parts = <<word>>
    BY <1>2, <1>4 DEF PartsBy
  <2>2. Len(parts) = 1 /\ parts[1] = word
    BY <2>1
  <2> QED BY <1>3, <1>4, <2>2 DEF Cut
<1>5. CASE d # 0
  <2>1. PICK q : q = Piece(word, d + 1, Len(word))
    OBVIOUS
  <2>2. parts = <<Piece(word, 1, d - 1), q>>
    BY <1>2, <1>5, <2>1 DEF PartsBy
  <2>3. Len(parts) = 2 /\ parts[2] = q
    BY <2>2
  <2>4. Len(q) = l - d
    <3>1. d \in 1 .. l
      BY <1>1, <1>5 DEF PartsBy, DotAt
    <3>2. PICK b \in Nat : b = d + 1
      OBVIOUS
    <3>3. 1 <= b /\ l <= Len(word)
      BY <1>1, <3>2
    <3>4. Len(Piece(word, b, l)) = IF b <= l THEN l - b + 1 ELSE 0
      BY <3>3, PieceIs, Zenon
    <3>5. q = Piece(word, b, l)
      BY <1>1, <2>1, <3>2
    <3> QED BY <3>1, <3>2, <3>4, <3>5
  <2> QED BY <1>1, <1>3, <1>5, <2>3, <2>4 DEF Cut
<1> QED BY <1>4, <1>5

\* The short name of a component, or of it with a character behind it, is what
\* it means.
LEMMA NameMeant ==
    ASSUME NEW word \in Seq(Nat), Plain(word), NEW text \in Seq(Nat),
           \A i \in 1 .. Len(word) : text[i] = word[i],
           Len(text) = Len(word) \/ (Len(text) = Len(word) + 1 /\ Full(word))
    PROVE  GetShortName(text) = Meant(word)
<1>1. PICK d \in Nat : PartsBy(word, d)
  BY PartsAre
<1>2. Holds(text, word, d)
  BY <1>1, FullIsCut DEF Holds
<1>3. DotAt(word, d)
  BY <1>1 DEF PartsBy
<1> QED BY <1>1, <1>2, <1>3, ShortNameIs, MeantIs

-----------------------------------------------------------------------------
(* One turn of the loop                                                     *)

Buffers == [1 .. MAX_PATH_SIZE -> Nat]

\* What memcpy and the terminator leave in the buffer.
Overwritten(whole, buffer, len, end) ==
    [SubSeq(whole, 1, len) \o SubSeq(buffer, len + 1, MAX_PATH_SIZE) EXCEPT ![end] = NUL]

IsCopied(word, whole, buffer, len, end) ==
    /\ word \in Buffers
    /\ \A j \in 1 .. MAX_PATH_SIZE :
          word[j] = IF j = end THEN NUL ELSE IF j <= len THEN whole[j] ELSE buffer[j]

LEMMA NameCopied ==
    ASSUME NEW whole \in Seq(Nat), NEW buffer \in Buffers, NEW len \in Nat, NEW end \in Nat,
           len <= Len(whole), len <= MAX_PATH_SIZE, end \in 1 .. MAX_PATH_SIZE,
           NEW word, word = Overwritten(whole, buffer, len, end)
    PROVE  IsCopied(word, whole, buffer, len, end)
<1>1. PICK max \in Nat : max = MAX_PATH_SIZE
  BY Sizes
<1>2. PICK p : p = SubSeq(whole, 1, len)
  OBVIOUS
<1>3. PICK q : q = SubSeq(buffer, len + 1, MAX_PATH_SIZE)
  OBVIOUS
<1>4. p \in Seq(Nat) /\ Len(p) = len /\ \A i \in 1 .. len : p[i] = whole[i]
  <2>1. PICK one \in Nat : one = 1
    OBVIOUS
  <2>2. \A i \in one .. len : whole[i] \in Nat
    <3>1. Len(whole) \in Nat
      BY LenProperties
    <3>2. \A i \in one .. len : i \in 1 .. Len(whole)
      BY <2>1, <3>1
    <3> QED BY <3>2, ElementOfSeq
  <2>3. /\ SubSeq(whole, one, len) \in Seq(Nat)
        /\ Len(SubSeq(whole, one, len)) = IF one <= len THEN len - one + 1 ELSE 0
        /\ \A i \in 1 .. len - one + 1 : SubSeq(whole, one, len)[i] = whole[one + i - 1]
    BY <2>2, SubSeqProperties
  <2>4. /\ p \in Seq(Nat) /\ Len(p) = IF one <= len THEN len - one + 1 ELSE 0
        /\ \A i \in 1 .. len - one + 1 : p[i] = whole[one + i - 1]
    BY <1>2, <2>1, <2>3
  <2> QED BY <2>1, <2>4
<1>5. q \in Seq(Nat) /\ Len(q) = max - len /\ \A i \in 1 .. max - len : q[i] = buffer[len + i]
  <2>1. PICK from \in Nat : from = len + 1
    OBVIOUS
  <2>2. \A i \in from .. max : buffer[i] \in Nat
    BY <1>1, <2>1 DEF Buffers
  <2>3. /\ SubSeq(buffer, from, max) \in Seq(Nat)
        /\ Len(SubSeq(buffer, from, max)) = IF from <= max THEN max - from + 1 ELSE 0
        /\ \A i \in 1 .. max - from + 1 : SubSeq(buffer, from, max)[i] = buffer[from + i - 1]
    BY <2>2, SubSeqProperties
  <2>4. /\ q \in Seq(Nat) /\ Len(q) = IF from <= max THEN max - from + 1 ELSE 0
        /\ \A i \in 1 .. max - from + 1 : q[i] = buffer[from + i - 1]
    BY <1>1, <1>3, <2>1, <2>3
  <2>5. Len(q) = max - len
    BY <1>1, <2>1, <2>4
  <2>6. ASSUME NEW i \in 1 .. max - len PROVE q[i] = buffer[len + i]
    <3>1. i \in 1 .. max - from + 1 /\ from + i - 1 = len + i
      BY <2>1
    <3> QED BY <2>4, <3>1
  <2> QED BY <2>4, <2>5, <2>6
<1>6. PICK copied : copied = p \o q
  OBVIOUS
<1>7. /\ copied \in Seq(Nat) /\ Len(copied) = Len(p) + Len(q)
      /\ \A i \in 1 .. Len(p) + Len(q) :
            copied[i] = IF i <= Len(p) THEN p[i] ELSE q[i - Len(p)]
  <2>1. /\ p \o q \in Seq(Nat) /\ Len(p \o q) = Len(p) + Len(q)
        /\ \A i \in 1 .. Len(p) + Len(q) :
              (p \o q)[i] = IF i <= Len(p) THEN p[i] ELSE q[i - Len(p)]
    BY <1>4, <1>5, ConcatProperties
  <2> QED BY <1>6, <2>1, Zenon
<1>8. /\ copied \in Seq(Nat) /\ Len(copied) = max
      /\ \A i \in 1 .. max : copied[i] = IF i <= len THEN whole[i] ELSE buffer[i]
  <2>1. Len(copied) = max
    BY <1>1, <1>4, <1>5, <1>7
  <2> SUFFICES ASSUME NEW i \in 1 .. max
               PROVE  copied[i] = IF i <= len THEN whole[i] ELSE buffer[i]
    BY <1>7, <2>1
  <2>2. copied[i] = IF i <= len THEN p[i] ELSE q[i - len]
    BY <1>1, <1>4, <1>5, <1>7
  <2>3. CASE i <= len
    BY <1>4, <2>2, <2>3
  <2>4. CASE ~(i <= len)
    <3>1. PICK k \in 1 .. max - len : k = i - len /\ i = len + k
      <4>1. i - len \in 1 .. max - len /\ i = len + (i - len)
        BY <2>4
      <4> QED BY <4>1
    <3> QED BY <1>5, <2>2, <2>4, <3>1
  <2> QED BY <2>3, <2>4
<1>9. word = [copied EXCEPT ![end] = NUL]
  BY <1>2, <1>3, <1>6 DEF Overwritten
<1>10. copied \in [1 .. max -> Nat]
  BY <1>8
<1>11. /\ word \in [1 .. max -> Nat]
       /\ \A j \in 1 .. max : word[j] = IF j = end THEN NUL ELSE copied[j]
  <2>1. NUL \in Nat
    BY DEF NUL
  <2> QED BY <1>9, <1>10, <2>1
<1> QED BY <1>1, <1>8, <1>11 DEF Buffers, IsCopied

\* The text in the buffer ends where the first NUL is.
LEMMA TerminatedAt ==
    ASSUME NEW buffer \in Buffers, NEW end \in 1 .. MAX_PATH_SIZE, buffer[end] = NUL,
           \A j \in 1 .. MAX_PATH_SIZE : j < end => buffer[j] # NUL
    PROVE  /\ Terminated(buffer) \in Seq(Nat) /\ Len(Terminated(buffer)) = end - 1
           /\ \A i \in 1 .. end - 1 : Terminated(buffer)[i] = buffer[i]
<1>1. buffer \in Seq(Nat) /\ Len(buffer) = MAX_PATH_SIZE
  BY Sizes DEF Buffers
<1>2. strchr(buffer, NUL) = end
  BY <1>1, StrchrAt
<1>3. PICK one \in Nat, b \in Nat : one = 1 /\ b = end - 1
  <2>1. end - 1 \in Nat
    BY Sizes
  <2> QED BY <2>1
<1>4. Terminated(buffer) = Piece(buffer, one, b)
  BY <1>2, <1>3 DEF Terminated, Piece
<1>5. 1 <= one /\ b <= Len(buffer)
  BY <1>1, <1>3, Sizes
<1>6. /\ Piece(buffer, one, b) \in Seq(Nat)
      /\ Len(Piece(buffer, one, b)) = IF one <= b THEN b - one + 1 ELSE 0
      /\ \A i \in 1 .. b - one + 1 : Piece(buffer, one, b)[i] = buffer[one + i - 1]
  BY <1>1, <1>5, PieceIs, Zenon
<1>7. PICK t : t = Terminated(buffer)
  OBVIOUS
<1>8. /\ t \in Seq(Nat) /\ Len(t) = IF one <= b THEN b - one + 1 ELSE 0
      /\ \A i \in 1 .. b - one + 1 : t[i] = buffer[one + i - 1]
  BY <1>4, <1>6, <1>7
<1>9. Len(t) = end - 1 /\ \A i \in 1 .. end - 1 : t[i] = buffer[i]
  BY <1>3, <1>8
<1> QED BY <1>7, <1>8, <1>9


\* Where the terminator goes, and what is copied.
Delim(w)  == strchr(w.path, SLASH)
Copies(w) == IF Delim(w) # 0 THEN Delim(w) - 1 ELSE Len(w.path)
End(w)    == IF Delim(w) # 0 THEN Copies(w) + 1 ELSE Copies(w) + 2

LEMMA CopiesAre ==
    ASSUME NEW w \in Walks, w.path # <<>>
    PROVE  /\ w.path \in Seq(Nat) /\ w.buffer \in Buffers
           /\ w.names \in Seq([1 .. NAME + EXT -> Nat])
           /\ Copies(w) \in Nat /\ Copies(w) <= Len(w.path) /\ Copies(w) <= MAX_PATH_SIZE
           /\ End(w) \in 1 .. MAX_PATH_SIZE /\ End(w) \in Nat /\ End(w) > Copies(w)
           /\ Delim(w) \in Nat /\ Delim(w) <= Len(w.path)
           /\ \A j \in 1 .. Copies(w) : w.path[j] # SLASH
           /\ Delim(w) # 0 => w.path[Delim(w)] = SLASH
<1>1. /\ w.path \in Seq(Nat) /\ w.buffer \in Buffers
      /\ w.names \in Seq([1 .. NAME + EXT -> Nat])
      /\ Len(w.path) + 2 <= MAX_PATH_SIZE
  BY DEF Walks, Buffers
<1>2. PICK l \in Nat, max \in Nat : l = Len(w.path) /\ max = MAX_PATH_SIZE
  BY <1>1, Sizes, LenProperties
<1>3. PICK t \in Seq(Nat) : t = w.path
  BY <1>1
<1>4. PICK d : d = strchr(t, SLASH)
  OBVIOUS
<1>5. \/ d = 0 /\ \A j \in 1 .. Len(t) : t[j] # SLASH
      \/ d \in 1 .. Len(t) /\ t[d] = SLASH /\ \A j \in 1 .. Len(t) : j < d => t[j] # SLASH
  BY <1>4, StrchrIs
<1>6. CASE d = 0
  <2>1. Delim(w) = 0 /\ Copies(w) = l /\ End(w) = l + 2
    BY <1>2, <1>3, <1>4, <1>6 DEF Delim, Copies, End
  <2>2. l + 2 <= max /\ l <= l /\ l <= max /\ l + 2 > l /\ l + 2 >= 1
    BY <1>1, <1>2
  <2>3. \A j \in 1 .. l : t[j] # SLASH
    <3>1. \A j \in 1 .. Len(t) : t[j] # SLASH
      BY <1>5, <1>6
    <3> QED BY <1>2, <1>3, <3>1
  <2>4. l + 2 \in 1 .. MAX_PATH_SIZE /\ l + 2 \in Nat
    BY <1>2, <2>2
  <2>5. /\ Copies(w) \in Nat /\ Copies(w) <= Len(w.path) /\ Copies(w) <= MAX_PATH_SIZE
        /\ End(w) \in 1 .. MAX_PATH_SIZE /\ End(w) \in Nat /\ End(w) > Copies(w)
        /\ Delim(w) \in Nat /\ Delim(w) <= Len(w.path) /\ ~(Delim(w) # 0)
    BY <1>2, <2>1, <2>2, <2>4
  <2>6. \A j \in 1 .. Copies(w) : w.path[j] # SLASH
    BY <1>3, <2>1, <2>3, Zenon
  <2> HIDE DEF SLASH
  <2> QED BY <1>1, <2>5, <2>6, Zenon
<1>7. CASE d # 0
  <2>1. Delim(w) = d /\ Copies(w) = d - 1 /\ End(w) = (d - 1) + 1
    BY <1>2, <1>3, <1>4, <1>7 DEF Delim, Copies, End
  <2>2. /\ d \in 1 .. Len(t) /\ t[d] = SLASH
        /\ \A j \in 1 .. Len(t) : j < d => t[j] # SLASH
    BY <1>5, <1>7
  <2>3. d \in Nat /\ d >= 1 /\ d <= l
    BY <1>2, <1>3, <2>2
  <2>4. /\ d - 1 \in Nat /\ d - 1 <= l /\ d - 1 <= max
        /\ (d - 1) + 1 >= 1 /\ (d - 1) + 1 <= max /\ (d - 1) + 1 > d - 1
    BY <1>1, <1>2, <2>3
  <2>5. \A j \in 1 .. d - 1 : t[j] # SLASH
    <3>1. \A j \in 1 .. d - 1 : j \in 1 .. Len(t) /\ j < d
      BY <1>2, <1>3, <2>3
    <3> QED BY <2>2, <3>1
  <2>6. /\ Copies(w) \in Nat /\ Copies(w) <= Len(w.path) /\ Copies(w) <= MAX_PATH_SIZE
        /\ End(w) \in 1 .. MAX_PATH_SIZE /\ End(w) \in Nat /\ End(w) > Copies(w)
        /\ Delim(w) \in Nat /\ Delim(w) <= Len(w.path)
    BY <1>2, <2>1, <2>3, <2>4
  <2>7. \A j \in 1 .. Copies(w) : w.path[j] # SLASH
    BY <1>3, <2>1, <2>5, Zenon
  <2>8. w.path[Delim(w)] = SLASH
    BY <1>3, <2>1, <2>2, Zenon
  <2> QED BY <1>1, <2>6, <2>7, <2>8, Zenon
<1> QED BY <1>6, <1>7

\* The buffer after a turn.
LEMMA BufferTaken ==
    ASSUME NEW w \in Walks, w.path # <<>>
    PROVE  /\ Take(w).buffer \in Buffers
           /\ \A j \in 1 .. MAX_PATH_SIZE :
                 Take(w).buffer[j] = IF j = End(w) THEN NUL
                                     ELSE IF j <= Copies(w) THEN w.path[j] ELSE w.buffer[j]
           /\ Take(w).names = Append(w.names, GetShortName(Terminated(Take(w).buffer)))
           /\ Take(w).path = IF Delim(w) # 0 THEN Piece(w.path, Delim(w) + 1, Len(w.path))
                             ELSE <<>>
<1>1. PICK b : b = Overwritten(w.path, w.buffer, Copies(w), End(w))
  OBVIOUS
<1>2. Take(w) = [path   |-> IF Delim(w) # 0
                            THEN SubSeq(w.path, Delim(w) + 1, Len(w.path)) ELSE <<>>,
                 buffer |-> b,
                 names  |-> Append(w.names, GetShortName(Terminated(b)))]
  BY <1>1, Zenon DEF Overwritten, Take, Copies, End, Delim
<1>3. /\ b \in Buffers
      /\ \A j \in 1 .. MAX_PATH_SIZE :
            b[j] = IF j = End(w) THEN NUL
                   ELSE IF j <= Copies(w) THEN w.path[j] ELSE w.buffer[j]
  <2>1. PICK n \in Nat, e \in Nat, p \in Seq(Nat), q \in Buffers :
           n = Copies(w) /\ e = End(w) /\ p = w.path /\ q = w.buffer
    BY CopiesAre, Zenon
  <2>2. n <= Len(p) /\ n <= MAX_PATH_SIZE /\ e \in 1 .. MAX_PATH_SIZE
    BY <2>1, CopiesAre
  <2>3. b = Overwritten(p, q, n, e)
    BY <1>1, <2>1, Zenon
  <2>4. IsCopied(b, p, q, n, e)
    BY <2>2, <2>3, NameCopied, Zenon
  <2> QED BY <2>1, <2>4, Zenon DEF IsCopied
<1>4. /\ Take(w).buffer = b /\ Take(w).names = Append(w.names, GetShortName(Terminated(b)))
      /\ Take(w).path = IF Delim(w) # 0 THEN Piece(w.path, Delim(w) + 1, Len(w.path))
                        ELSE <<>>
  <2>1. PICK p, n : /\ p = IF Delim(w) # 0
                            THEN SubSeq(w.path, Delim(w) + 1, Len(w.path)) ELSE <<>>
                    /\ n = Append(w.names, GetShortName(Terminated(b)))
    OBVIOUS
  <2>2. Take(w) = [path |-> p, buffer |-> b, names |-> n]
    BY <1>2, <2>1, Zenon
  <2>3. PICK u : u = Take(w) /\ u = [path |-> p, buffer |-> b, names |-> n]
    BY <2>2, Zenon
  <2>4. u.path = p /\ u.buffer = b /\ u.names = n
    BY <2>3
  <2> QED BY <2>1, <2>3, <2>4, Zenon DEF Piece
<1> QED BY <1>3, <1>4, Zenon

\* What is left of the path.
LEMMA PathTaken ==
    ASSUME NEW w \in Walks, w.path # <<>>
    PROVE  /\ Take(w).path \in Seq(Nat) /\ Len(Take(w).path) < Len(w.path)
           /\ Len(Take(w).path) \in Nat /\ Len(w.path) \in Nat
<1>1. PICK l \in Nat, d \in Nat, t \in Seq(Nat) :
         l = Len(w.path) /\ d = Delim(w) /\ t = w.path /\ d <= l /\ l # 0
  <2>1. w.path \in Seq(Nat)
    BY CopiesAre
  <2>2. Len(w.path) \in Nat /\ Len(w.path) # 0
    BY <2>1, EmptySeq, LenProperties
  <2> QED BY <2>1, <2>2, CopiesAre
<1>2. Take(w).path = IF d # 0 THEN Piece(t, d + 1, l) ELSE <<>>
  BY <1>1, BufferTaken
<1>3. CASE d = 0
  <2>1. Take(w).path = <<>>
    BY <1>2, <1>3
  <2>2. Len(<<>>) = 0 /\ <<>> \in Seq(Nat)
    OBVIOUS
  <2> QED BY <1>1, <2>1, <2>2
<1>4. CASE d # 0
  <2>1. PICK a \in Nat : a = d + 1
    OBVIOUS
  <2>2. 1 <= a /\ l <= Len(t)
    BY <1>1, <2>1
  <2>3. Piece(t, a, l) \in Seq(Nat) /\ Len(Piece(t, a, l)) = IF a <= l THEN l - a + 1 ELSE 0
    BY <2>2, PieceIs, Zenon
  <2>4. Take(w).path = Piece(t, a, l)
    BY <1>2, <1>4, <2>1
  <2>5. PICK p : p = Piece(t, a, l)
    OBVIOUS
  <2>6. p \in Seq(Nat) /\ Len(p) = IF a <= l THEN l - a + 1 ELSE 0
    BY <2>3, <2>5
  <2>7. Len(p) < l /\ Len(p) \in Nat
    BY <1>1, <1>4, <2>1, <2>6, SMTT(40)
  <2> QED BY <1>1, <2>4, <2>5, <2>6, <2>7
<1> QED BY <1>3, <1>4

LEMMA BufferEnds ==
    ASSUME NEW b \in Buffers, NEW e \in 1 .. MAX_PATH_SIZE, b[e] = NUL
    PROVE  Terminated(b) \in Seq(Nat)
<1> DEFINE ends == {j \in 1 .. MAX_PATH_SIZE : b[j] = NUL}
<1>1. ends \subseteq Nat /\ ends # {}
  BY Sizes
<1>2. PICK f \in ends : \A j \in ends : f <= j
  <2> HIDE DEF ends
  <2> QED BY <1>1, Taking!LeastNatural
<1>3. PICK g \in 1 .. MAX_PATH_SIZE : g = f /\ b[g] = NUL
  OBVIOUS
<1>4. \A j \in 1 .. MAX_PATH_SIZE : j < g => b[j] # NUL
  BY <1>2, <1>3, Sizes
<1> HIDE DEF ends
<1> QED BY <1>3, <1>4, TerminatedAt

LEMMA TakeType ==
    ASSUME NEW w \in Walks, w.path # <<>>
    PROVE  Take(w) \in Walks /\ Len(Take(w).path) < Len(w.path)
<1>1. PICK u : u = Take(w)
  OBVIOUS
<1>2. u.path \in Seq(Nat) /\ Len(u.path) < Len(w.path) /\ Len(u.path) \in Nat
      /\ Len(w.path) \in Nat
  BY <1>1, PathTaken
<1>3. u.buffer \in Buffers /\ u.buffer[End(w)] = NUL
  BY <1>1, BufferTaken, CopiesAre
<1>4. Terminated(u.buffer) \in Seq(Nat)
  BY <1>3, CopiesAre, BufferEnds
<1>5. u.names \in Seq([1 .. NAME + EXT -> Nat])
  <2>1. PICK s \in [1 .. NAME + EXT -> Nat] : s = GetShortName(Terminated(u.buffer))
    BY <1>4, ShortNameType
  <2>2. u.names = Append(w.names, s)
    BY <1>1, <2>1, BufferTaken
  <2>3. w.names \in Seq([1 .. NAME + EXT -> Nat])
    BY CopiesAre
  <2> QED BY <2>2, <2>3, AppendProperties
<1>6. u = [path |-> u.path, buffer |-> u.buffer, names |-> u.names]
  BY <1>1, Zenon DEF Take
<1>7. Len(u.path) + 2 <= MAX_PATH_SIZE
  <2>1. Len(w.path) + 2 <= MAX_PATH_SIZE
    BY DEF Walks
  <2> QED BY <1>2, <2>1, Sizes
<1> QED BY <1>1, <1>2, <1>3, <1>5, <1>6, <1>7 DEF Walks, Buffers

\* The loop goes on behind each turn.
LEMMA TakeAllObeys == Taking!Obeys(TakeAll, 0)
<1>1. ASSUME NEW w \in WalksOf(0), NEW f, NEW g, Taking!AgreeBelow(f, g, w, 0)
      PROVE  WalkBody(f, w, 0) = WalkBody(g, w, 0)
  <2>1. CASE w.path = <<>>
    BY <2>1 DEF WalkBody
  <2>2. CASE w.path # <<>>
    <3>1. f[Take(w)] = g[Take(w)]
      BY <1>1, <2>2, TakeType DEF Taking!AgreeBelow, WalksOf, LeftOf
    <3> QED BY <2>2, <3>1 DEF WalkBody
  <2> QED BY <2>1, <2>2
<1>2. \A w \in WalksOf(0) : LeftOf(w) \in Nat
  <2>1. \A w \in Walks : w.path \in Seq(Nat)
    BY DEF Walks
  <2> QED BY <2>1, LenProperties DEF WalksOf, LeftOf
<1>3. Taking!LooksBelow(0)
  BY <1>1, <1>2, Zenon DEF Taking!LooksBelow
<1>4. Taking!Obeys(Taking!Function(0), 0)
  BY <1>3, Taking!FunctionObeys
<1>5. TakeAll = Taking!Function(0)
  BY Zenon DEF TakeAll, Taking!Function, Taking!Obeys, WalkBody, WalksOf
<1> QED BY <1>4, <1>5

LEMMA TakeAllStep ==
    ASSUME NEW w \in Walks
    PROVE  TakeAll[w] = IF w.path = <<>> THEN w ELSE TakeAll[Take(w)]
<1>1. w \in WalksOf(0)
  BY DEF WalksOf
<1>2. TakeAll[w] = WalkBody(TakeAll, w, 0)
  BY <1>1, TakeAllObeys DEF Taking!Obeys
<1> QED BY <1>2 DEF WalkBody


\* The short name of a turn is what the component it copies means, when the
\* late terminator spoils nothing.
LEMMA NameTaken ==
    ASSUME NEW w \in Walks, w.path # <<>>,
           NEW word \in Seq(Nat), Plain(word), Len(word) = Copies(w),
           \A i \in 1 .. Len(word) : word[i] = w.path[i] /\ word[i] # NUL,
           Delim(w) # 0 \/ Full(word) \/ w.buffer[Copies(w) + 1] = NUL
    PROVE  GetShortName(Terminated(Take(w).buffer)) = Meant(word)
<1>1. PICK k \in Nat, e \in Nat, max \in Nat :
         k = Copies(w) /\ e = End(w) /\ max = MAX_PATH_SIZE /\ e > k /\ e <= max /\ k = Len(word)
  <2>1. End(w) <= MAX_PATH_SIZE
    BY CopiesAre, Sizes
  <2> QED BY <2>1, CopiesAre, Sizes
<1>2. PICK b \in Buffers, q \in Buffers, t \in Seq(Nat) :
         b = Take(w).buffer /\ q = w.buffer /\ t = w.path
  BY BufferTaken, CopiesAre
<1>3. /\ \A j \in 1 .. max : b[j] = IF j = e THEN NUL ELSE IF j <= k THEN t[j] ELSE q[j]
      /\ \A i \in 1 .. k : word[i] = t[i] /\ word[i] # NUL
  BY <1>1, <1>2, BufferTaken
<1>4. \A j \in 1 .. k : b[j] = word[j] /\ b[j] # NUL
  <2>1. \A j \in 1 .. k : j \in 1 .. max /\ j # e /\ j <= k
    BY <1>1
  <2> QED BY <1>3, <2>1
<1>5. PICK m \in Nat : m = k + 1 /\ m \in 1 .. max /\ m <= e
  BY <1>1
<1>6. CASE b[m] = NUL
  <2>1. \A j \in 1 .. MAX_PATH_SIZE : j < m => b[j] # NUL
    BY <1>1, <1>4, <1>5
  <2>2. m \in 1 .. MAX_PATH_SIZE
    BY <1>1, <1>5
  <2>3. /\ Terminated(b) \in Seq(Nat) /\ Len(Terminated(b)) = m - 1
        /\ \A i \in 1 .. m - 1 : Terminated(b)[i] = b[i]
    BY <1>6, <2>1, <2>2, TerminatedAt
  <2>4. PICK text \in Seq(Nat) : text = Terminated(b)
    BY <2>3
  <2>5. Len(text) = Len(word) /\ \A i \in 1 .. Len(word) : text[i] = word[i]
    <3>1. Len(text) = m - 1 /\ \A i \in 1 .. m - 1 : text[i] = b[i]
      BY <2>3, <2>4
    <3>2. Len(text) = k /\ \A i \in 1 .. k : text[i] = b[i]
      <4>1. m - 1 = k
        BY <1>5
      <4> QED BY <3>1, <4>1, Zenon
    <3> QED BY <1>1, <1>4, <3>2
  <2>6. GetShortName(text) = Meant(word)
    BY <2>5, NameMeant
  <2> QED BY <1>2, <2>4, <2>6
<1>7. CASE b[m] # NUL
  <2>1. e # m /\ Delim(w) = 0 /\ e = k + 2
    <3>1. e # m
      BY <1>3, <1>5, <1>7
    <3>2. Delim(w) = 0 /\ e = k + 2
      BY <1>1, <1>5, <3>1 DEF End
    <3> QED BY <3>1, <3>2
  <2>2. q[m] # NUL
    BY <1>3, <1>5, <1>7, <2>1
  <2>3. Full(word)
    BY <1>1, <1>2, <1>5, <2>1, <2>2
  <2>4. \A j \in 1 .. MAX_PATH_SIZE : j < e => b[j] # NUL
    <3>1. \A j \in 1 .. MAX_PATH_SIZE : j < e => j \in 1 .. k \/ j = m
      BY <1>1, <1>5, <2>1
    <3> QED BY <1>4, <1>7, <3>1
  <2>5. e \in 1 .. MAX_PATH_SIZE /\ b[e] = NUL
    BY <1>1, <1>3
  <2>6. /\ Terminated(b) \in Seq(Nat) /\ Len(Terminated(b)) = e - 1
        /\ \A i \in 1 .. e - 1 : Terminated(b)[i] = b[i]
    BY <2>4, <2>5, TerminatedAt
  <2>7. PICK text \in Seq(Nat) : text = Terminated(b)
    BY <2>6
  <2>8. Len(text) = Len(word) + 1 /\ \A i \in 1 .. Len(word) : text[i] = word[i]
    <3>1. Len(text) = e - 1 /\ \A i \in 1 .. e - 1 : text[i] = b[i]
      BY <2>6, <2>7
    <3>2. Len(text) = k + 1 /\ \A i \in 1 .. k : text[i] = b[i]
      BY <2>1, <3>1, SMTT(40)
    <3> QED BY <1>1, <1>4, <3>2
  <2>9. GetShortName(text) = Meant(word)
    BY <2>3, <2>8, NameMeant
  <2> QED BY <1>2, <2>7, <2>9
<1> QED BY <1>6, <1>7

\* A piece of what is left of the text is a piece of it.
LEMMA PieceOfPiece ==
    ASSUME NEW s \in Seq(Nat), NEW a \in Nat, NEW b \in Nat, 1 <= a, a <= b,
           b <= Len(s) + 1
    PROVE  Piece(Piece(s, a, Len(s)), b - a + 1, Len(s) - a + 1) = Piece(s, b, Len(s))
<1>1. PICK l \in Nat : l = Len(s)
  BY LenProperties
<1>2. PICK p : p = Piece(s, a, l)
  OBVIOUS
<1>3. p \in Seq(Nat) /\ Len(p) = l - a + 1 /\ \A i \in 1 .. l - a + 1 : p[i] = s[a + i - 1]
  <2>1. /\ Piece(s, a, l) \in Seq(Nat)
        /\ Len(Piece(s, a, l)) = IF a <= l THEN l - a + 1 ELSE 0
        /\ \A i \in 1 .. l - a + 1 : Piece(s, a, l)[i] = s[a + i - 1]
    <3>1. l <= Len(s)
      BY <1>1
    <3> QED BY <3>1, PieceIs, Zenon
  <2> QED BY <1>1, <1>2, <2>1
<1>4. PICK c \in Nat, m \in Nat : c = b - a + 1 /\ m = l - a + 1
  <2>1. b - a + 1 \in Nat /\ l - a + 1 \in Nat
    BY <1>1
  <2> QED BY <2>1
<1>5. PICK q : q = Piece(p, c, m)
  OBVIOUS
<1>6. PICK r : r = Piece(s, b, l)
  OBVIOUS
<1>7. q \in Seq(Nat) /\ Len(q) = l - b + 1 /\ \A i \in 1 .. l - b + 1 : q[i] = s[b + i - 1]
  <2>1. 1 <= c /\ m <= Len(p)
    BY <1>3, <1>4
  <2>2. /\ Piece(p, c, m) \in Seq(Nat)
        /\ Len(Piece(p, c, m)) = IF c <= m THEN m - c + 1 ELSE 0
        /\ \A i \in 1 .. m - c + 1 : Piece(p, c, m)[i] = p[c + i - 1]
    <3>1. p \in Seq(Nat) /\ 1 <= c /\ m <= Len(p)
      BY <1>3, <2>1
    <3> HIDE DEF Piece
    <3> QED BY <3>1, PieceIs, ZenonT(60)
  <2>3. /\ q \in Seq(Nat)
        /\ Len(q) = IF c <= m THEN m - c + 1 ELSE 0
        /\ \A i \in 1 .. m - c + 1 : q[i] = p[c + i - 1]
    BY <1>5, <2>2
  <2>4. m - c + 1 = l - b + 1 /\ Len(q) = l - b + 1
    BY <1>1, <1>4, <2>3
  <2>5. ASSUME NEW i \in 1 .. l - b + 1 PROVE q[i] = s[b + i - 1]
    <3>1. q[i] = p[c + i - 1]
      BY <2>3, <2>4
    <3>2. PICK j \in 1 .. l - a + 1 : j = c + i - 1 /\ a + j - 1 = b + i - 1
      <4>1. c + i - 1 \in 1 .. l - a + 1 /\ a + (c + i - 1) - 1 = b + i - 1
        BY <1>4
      <4> QED BY <4>1
    <3> QED BY <1>3, <3>1, <3>2
  <2> QED BY <2>3, <2>4, <2>5
<1>8. r \in Seq(Nat) /\ Len(r) = l - b + 1 /\ \A i \in 1 .. l - b + 1 : r[i] = s[b + i - 1]
  <2>1. /\ Piece(s, b, l) \in Seq(Nat)
        /\ Len(Piece(s, b, l)) = IF b <= l THEN l - b + 1 ELSE 0
        /\ \A i \in 1 .. l - b + 1 : Piece(s, b, l)[i] = s[b + i - 1]
    <3>1. l <= Len(s) /\ 1 <= b
      BY <1>1
    <3> QED BY <3>1, PieceIs, Zenon
  <2> QED BY <1>1, <1>6, <2>1
<1>9. q = r
  <2>1. DOMAIN q = 1 .. Len(q) /\ DOMAIN r = 1 .. Len(r)
    BY <1>7, <1>8, LenProperties
  <2>2. Len(q) = Len(r) /\ \A i \in 1 .. Len(q) : q[i] = r[i]
    BY <1>7, <1>8
  <2> QED BY <1>7, <1>8, <2>2, SeqEqual
<1> QED BY <1>1, <1>2, <1>4, <1>5, <1>6, <1>9, Zenon


\* The first and the last piece of a path are empty where it begins and ends with
\* a slash.
LEMMA FirstPiece ==
    ASSUME NEW text \in Seq(Nat), text # <<>>, NEW N \in Nat \ {0},
           NEW cut \in [0 .. N -> 0 .. Len(text) + 1], CutBy(text, SLASH, N, cut)
    PROVE  \/ Split(text, SLASH)[1] = <<>> /\ 1 < N /\ cut[1] = 1 /\ text[1] = SLASH
           \/ Split(text, SLASH)[1] # <<>> /\ cut[0] = 0 /\ text[1] # SLASH
<1>1. PICK l \in Nat : l = Len(text) /\ l >= 1
  BY LenProperties, EmptySeq
<1>2. PICK z \in Nat, one \in Nat, two \in Nat : z = 0 /\ one = 1 /\ two = 2
  OBVIOUS
<1>3. one \in 1 .. N /\ one - 1 = z
  BY <1>2
<1>4. PieceAt(text, SLASH, N, one, cut[one - 1], cut[one])
  BY <1>3, CutAt, Zenon
<1>5. PICK b \in 0 .. l + 1 : b = cut[one]
  BY <1>1, <1>2
<1>6. cut[z] = z /\ cut[N] = l + 1
  BY <1>1, <1>2 DEF CutBy
<1>7. /\ z < b /\ Clear(text, SLASH, z, b)
      /\ Split(text, SLASH)[one] = Piece(text, z + 1, b - 1)
      /\ one < N => b <= Len(text) /\ text[b] = SLASH
  BY <1>3, <1>4, <1>5, <1>6 DEF PieceAt
<1>8. PICK c \in Nat : c = b - 1
  BY <1>2, <1>7
<1>9. /\ Piece(text, one, c) \in Seq(Nat)
      /\ Len(Piece(text, one, c)) = IF one <= c THEN c - one + 1 ELSE 0
  <2>1. 1 <= one /\ c <= Len(text)
    BY <1>1, <1>2, <1>8
  <2> QED BY <2>1, PieceIs, ZenonT(60)
<1>10. PICK p \in Seq(Nat) : p = Split(text, SLASH)[one] /\ p = Piece(text, one, c)
  <2>1. z + 1 = one
    BY <1>2
  <2>2. Split(text, SLASH)[one] = Piece(text, one, c)
    BY <1>7, <1>8, <2>1, Zenon
  <2> QED BY <1>9, <2>2
<1>11. Len(p) = b - 1
  BY <1>2, <1>7, <1>8, <1>9, <1>10, SMTT(40)
<1>12. CASE b = one
  <2>1. p = <<>>
    BY <1>2, <1>11, <1>12, EmptySeq
  <2>2. N # one
    <3>1. ASSUME N = one PROVE FALSE
      <4>1. cut[N] = cut[one]
        BY <3>1, Zenon
      <4>2. b = l + 1
        BY <1>5, <1>6, <4>1
      <4> QED BY <1>1, <1>2, <1>12, <4>2
    <3> QED BY <3>1
  <2>3. one < N
    BY <1>2, <2>2
  <2> QED BY <1>2, <1>5, <1>7, <1>10, <1>12, <2>1, <2>3
<1>13. CASE b # one
  <2>1. p # <<>>
    <3>1. Len(p) # 0
      BY <1>2, <1>7, <1>11, <1>13
    <3> QED BY <3>1, EmptySeq
  <2>2. text[one] # SLASH
    <3>1. one \in 1 .. Len(text) /\ z < one /\ one < b
      BY <1>1, <1>2, <1>7, <1>13
    <3> QED BY <1>7, <3>1 DEF Clear
  <2> QED BY <1>2, <1>6, <1>10, <2>1, <2>2
<1> QED BY <1>12, <1>13

LEMMA LastPiece ==
    ASSUME NEW text \in Seq(Nat), text # <<>>, NEW N \in Nat \ {0},
           NEW cut \in [0 .. N -> 0 .. Len(text) + 1], CutBy(text, SLASH, N, cut)
    PROVE  \/ /\ Split(text, SLASH)[N] = <<>> /\ 1 < N /\ cut[N - 1] = Len(text)
              /\ text[Len(text)] = SLASH
           \/ Split(text, SLASH)[N] # <<>> /\ cut[N] = Len(text) + 1 /\ text[Len(text)] # SLASH
<1>1. PICK l \in Nat : l = Len(text) /\ l >= 1
  BY LenProperties, EmptySeq
<1>2. PICK m \in 0 .. N : m = N - 1 /\ m < N
  OBVIOUS
<1>3. N \in 1 .. N
  OBVIOUS
<1>4. PieceAt(text, SLASH, N, N, cut[N - 1], cut[N])
  BY <1>3, CutAt, Zenon
<1>5. PICK a \in 0 .. l + 1, b \in 0 .. l + 1 : a = cut[m] /\ b = cut[N]
  BY <1>1, <1>2
<1>6. b = l + 1 /\ cut[0] = 0
  BY <1>1, <1>5 DEF CutBy
<1>7. /\ a < b /\ Clear(text, SLASH, a, b)
      /\ Split(text, SLASH)[N] = Piece(text, a + 1, b - 1)
  BY <1>2, <1>4, <1>5 DEF PieceAt
<1>8. PICK from \in Nat : from = a + 1
  OBVIOUS
<1>9. /\ Piece(text, from, l) \in Seq(Nat)
      /\ Len(Piece(text, from, l)) = IF from <= l THEN l - from + 1 ELSE 0
  <2>1. 1 <= from /\ l <= Len(text)
    BY <1>1, <1>8
  <2> QED BY <2>1, PieceIs, Zenon
<1>10. PICK p \in Seq(Nat) : p = Split(text, SLASH)[N] /\ p = Piece(text, from, l)
  <2>1. b - 1 = l
    BY <1>6
  <2>2. Split(text, SLASH)[N] = Piece(text, from, l)
    BY <1>7, <1>8, <2>1, Zenon
  <2> QED BY <1>9, <2>2
<1>11. Len(p) = l - a
  <2>1. Len(p) = IF from <= l THEN l - from + 1 ELSE 0
    BY <1>9, <1>10, Zenon
  <2> QED BY <1>6, <1>7, <1>8, <2>1
<1>12. CASE a = l
  <2>1. p = <<>>
    BY <1>11, <1>12, EmptySeq
  <2>2. m # 0
    <3>1. ASSUME m = 0 PROVE FALSE
      <4>1. cut[m] = cut[0]
        BY <3>1, Zenon
      <4>2. a = 0
        BY <1>5, <1>6, <4>1
      <4> QED BY <1>1, <1>12, <4>2
    <3> QED BY <3>1
  <2>3. m \in 1 .. N /\ 1 < N
    BY <1>2, <2>2
  <2>4. PieceAt(text, SLASH, N, m, cut[m - 1], cut[m])
    BY <2>3, CutAt, Zenon
  <2>5. text[a] = SLASH
    BY <1>2, <1>5, <2>4 DEF PieceAt
  <2> QED BY <1>1, <1>2, <1>5, <1>10, <1>12, <2>1, <2>3, <2>5
<1>13. CASE a # l
  <2>1. p # <<>>
    <3>1. Len(p) # 0
      BY <1>11, <1>13
    <3> QED BY <3>1, EmptySeq
  <2>2. text[l] # SLASH
    <3>1. l \in 1 .. Len(text) /\ a < l /\ l < b
      BY <1>1, <1>6, <1>7, <1>13
    <3> QED BY <1>7, <3>1 DEF Clear
  <2> QED BY <1>1, <1>5, <1>6, <1>10, <2>1, <2>2
<1> QED BY <1>12, <1>13


\* Component i of the M of a path lies between a and b, where b is the place of
\* a slash or, behind the last one, that of the terminator.
ComponentAt(text, M, i, a, b) ==
    /\ a < b /\ Clear(text, SLASH, a, b) /\ Components(text)[i] = Piece(text, a + 1, b - 1)
    /\ \/ b <= Len(text) /\ text[b] = SLASH
       \/ i = M /\ b = Len(text) + 1 /\ text[Len(text)] # SLASH

ComponentsBy(text, M, at) ==
    /\ Len(Components(text)) = M /\ DOMAIN Components(text) = 1 .. M
    /\ at[M] >= Len(text)
    /\ (at[0] = 1 /\ text[1] = SLASH) \/ (at[0] = 0 /\ text[1] # SLASH)
    /\ \A i \in 1 .. M : ComponentAt(text, M, i, at[i - 1], at[i])

LEMMA ComponentsAre ==
    ASSUME NEW text \in Seq(Nat), text # <<>>
    PROVE  \E M \in Nat : \E at \in [0 .. M -> 0 .. Len(text) + 1] : ComponentsBy(text, M, at)
<1>1. PICK N \in Nat \ {0} : \E cut \in [0 .. N -> 0 .. Len(text) + 1] :
                                CutBy(text, SLASH, N, cut)
  BY SplitIs
<1>2. PICK cut \in [0 .. N -> 0 .. Len(text) + 1] : CutBy(text, SLASH, N, cut)
  BY <1>1
<1>3. PICK P : P = Split(text, SLASH)
  OBVIOUS
<1>4. PICK f \in Nat, from \in Nat :
         /\ from = IF P[1] = <<>> THEN 2 ELSE 1
         /\ from = f + 1
         /\ (f = 1 /\ 1 < N /\ cut[1] = 1 /\ text[1] = SLASH)
            \/ (f = 0 /\ cut[0] = 0 /\ text[1] # SLASH)
  <2>1. CASE P[1] = <<>>
    <3>1. 1 < N /\ cut[1] = 1 /\ text[1] = SLASH
      BY <1>2, <1>3, <2>1, FirstPiece
    <3>2. 1 \in Nat /\ 2 \in Nat /\ 2 = 1 + 1
      OBVIOUS
    <3> QED BY <2>1, <3>1, <3>2
  <2>2. CASE P[1] # <<>>
    <3>1. cut[0] = 0 /\ text[1] # SLASH
      BY <1>2, <1>3, <2>2, FirstPiece
    <3>2. 0 \in Nat /\ 1 \in Nat /\ 1 = 0 + 1
      OBVIOUS
    <3> QED BY <2>2, <3>1, <3>2
  <2> QED BY <2>1, <2>2
<1>5. PICK upto \in Nat :
         /\ upto = IF P[N] = <<>> THEN N - 1 ELSE N
         /\ \/ upto = N - 1 /\ 1 < N /\ cut[upto] = Len(text) /\ text[Len(text)] = SLASH
            \/ upto = N /\ cut[upto] = Len(text) + 1 /\ text[Len(text)] # SLASH
  <2>1. CASE P[N] = <<>>
    <3>1. 1 < N /\ cut[N - 1] = Len(text) /\ text[Len(text)] = SLASH
      BY <1>2, <1>3, <2>1, LastPiece
    <3>2. N - 1 \in Nat
      OBVIOUS
    <3> QED BY <2>1, <3>1, <3>2
  <2>2. CASE P[N] # <<>>
    <3>1. cut[N] = Len(text) + 1 /\ text[Len(text)] # SLASH
      BY <1>2, <1>3, <2>2, LastPiece
    <3> QED BY <2>2, <3>1
  <2> QED BY <2>1, <2>2
<1>6. Len(P) = N /\ DOMAIN P = 1 .. N
  <2>1. P = [n \in 1 .. N |-> Piece(text, cut[n - 1] + 1, cut[n] - 1)]
    BY <1>2, <1>3 DEF CutBy
  <2> HIDE DEF Piece
  <2> QED BY <2>1
<1>7. Components(text) = SubSeq(P, from, upto)
  <2>1. Last(P) = P[N]
    BY <1>6 DEF Last
  <2>2. Components(text) = SubSeq(P, IF P[1] = <<>> THEN 2 ELSE 1,
                                     IF Last(P) = <<>> THEN Len(P) - 1 ELSE Len(P))
    BY <1>3, Zenon DEF Components
  <2> QED BY <1>4, <1>5, <1>6, <2>1, <2>2, Zenon
<1>8. PICK C : C = Components(text)
  OBVIOUS
<1>9. PICK M \in Nat : M = upto - f
  <2>1. upto - f \in Nat
    BY <1>4, <1>5
  <2> QED BY <2>1
<1>10. Len(C) = M /\ DOMAIN C = 1 .. M /\ \A i \in 1 .. M : C[i] = P[f + i]
  <2> DEFINE S == {P[n] : n \in 1 .. N}
  <2>1. \A i \in from .. upto : P[i] \in S
    <3>1. \A i \in from .. upto : i \in 1 .. N
      BY <1>4, <1>5
    <3> QED BY <3>1
  <2> HIDE DEF S
  <2>2. /\ SubSeq(P, from, upto) \in Seq(S)
        /\ Len(SubSeq(P, from, upto)) = IF from <= upto THEN upto - from + 1 ELSE 0
        /\ \A i \in 1 .. upto - from + 1 : SubSeq(P, from, upto)[i] = P[from + i - 1]
    BY <2>1, SubSeqProperties
  <2>3. /\ C \in Seq(S)
        /\ Len(C) = IF from <= upto THEN upto - from + 1 ELSE 0
        /\ \A i \in 1 .. upto - from + 1 : C[i] = P[from + i - 1]
    BY <1>7, <1>8, <2>2, Zenon
  <2>4. Len(C) = M /\ upto - from + 1 = M
    BY <1>4, <1>9, <2>3, SMTT(40)
  <2>5. DOMAIN C = 1 .. M
    BY <2>3, <2>4, LenProperties
  <2>6. ASSUME NEW i \in 1 .. M PROVE C[i] = P[f + i]
    <3>1. from + i - 1 = f + i
      BY <1>4
    <3> QED BY <2>3, <2>4, <3>1
  <2> QED BY <2>4, <2>5, <2>6
<1>11. DEFINE at == [i \in 0 .. M |-> cut[f + i]]
<1>12. \A i \in 0 .. M : f + i \in 0 .. N
  BY <1>4, <1>5, <1>9
<1>13. at \in [0 .. M -> 0 .. Len(text) + 1]
  BY <1>12
<1>14. at[0] = cut[f] /\ at[M] = cut[upto]
  <2>1. 0 \in 0 .. M /\ M \in 0 .. M /\ f + 0 = f /\ f + M = upto
    BY <1>9
  <2> QED BY <2>1
<1>15. at[M] >= Len(text)
  <2>1. Len(text) \in Nat
    BY LenProperties
  <2> QED BY <1>5, <1>14, <2>1
<1>16. (at[0] = 1 /\ text[1] = SLASH) \/ (at[0] = 0 /\ text[1] # SLASH)
  BY <1>4, <1>14
<1>17. ASSUME NEW i \in 1 .. M
       PROVE  ComponentAt(text, M, i, at[i - 1], at[i])
  <2>1. PICK n \in 1 .. N : n = f + i /\ n - 1 = f + (i - 1) /\ n <= upto
    <3>1. f + i \in 1 .. N /\ (f + i) - 1 = f + (i - 1) /\ f + i <= upto
      BY <1>4, <1>5, <1>9
    <3> QED BY <3>1
  <2>2. PieceAt(text, SLASH, N, n, cut[n - 1], cut[n])
    BY <1>2, CutAt, Zenon
  <2>3. at[i - 1] = cut[n - 1] /\ at[i] = cut[n]
    <3>1. i - 1 \in 0 .. M /\ i \in 0 .. M
      OBVIOUS
    <3> QED BY <2>1, <3>1
  <2>4. PICK a, b : a = at[i - 1] /\ b = at[i]
    OBVIOUS
  <2>5. /\ a < b /\ Clear(text, SLASH, a, b) /\ P[n] = Piece(text, a + 1, b - 1)
        /\ n < N => b <= Len(text) /\ text[b] = SLASH
    BY <1>3, <2>2, <2>3, <2>4, Zenon DEF PieceAt
  <2>6. Components(text)[i] = Piece(text, a + 1, b - 1)
    BY <1>8, <1>10, <2>1, <2>5
  <2>7. CASE n < N
    BY <2>4, <2>5, <2>6, <2>7, Zenon DEF ComponentAt
  <2>8. CASE ~(n < N)
    <3>1. n = N /\ i = M /\ upto = N
      BY <1>5, <1>9, <2>1, <2>8
    <3>2. b = Len(text) + 1 /\ text[Len(text)] # SLASH
      <4>1. b = cut[upto]
        BY <2>3, <2>4, <3>1
      <4> QED BY <1>5, <3>1, <4>1
    <3> QED BY <2>4, <2>5, <2>6, <3>1, <3>2, Zenon DEF ComponentAt
  <2> QED BY <2>7, <2>8
<1> HIDE DEF at
<1>18. ComponentsBy(text, M, at)
  BY <1>8, <1>10, <1>15, <1>16, <1>17, Zenon DEF ComponentsBy
<1> QED BY <1>13, <1>18


LEMMA PlainSome ==
    ASSUME NEW word \in Seq(Nat), Plain(word)
    PROVE  Len(word) >= 1 /\ Len(word) \in Nat
<1>1. PICK d \in Nat : PartsBy(word, d)
  BY PartsAre
<1>2. Len(word) \in Nat
  BY LenProperties
<1> QED BY <1>1, <1>2 DEF PartsBy, DotAt

\* A turn takes the component between a and b, and leaves what follows b.
Turned(text, M, k, b, word, w) ==
    /\ word \in Seq(Nat) /\ w.path # <<>> /\ Copies(w) = Len(word)
    /\ \A i \in 1 .. Len(word) : word[i] = w.path[i] /\ word[i] # NUL
    /\ Take(w).path = Piece(text, b + 1, Len(text))
    /\ Delim(w) # 0 \/ (k = M /\ text[Len(text)] # SLASH)

LEMMA TurnAt ==
    ASSUME NEW text \in Seq(Nat), \A j \in 1 .. Len(text) : text[j] # NUL,
           NEW M \in Nat, NEW k \in 1 .. M,
           NEW a \in 0 .. Len(text) + 1, NEW b \in 0 .. Len(text) + 1,
           ComponentAt(text, M, k, a, b), Plain(Components(text)[k]),
           NEW w \in Walks, w.path = Piece(text, a + 1, Len(text)),
           NEW word, word = Components(text)[k]
    PROVE  Turned(text, M, k, b, word, w)
<1>1. PICK l \in Nat : l = Len(text)
  BY LenProperties
<1>2. PICK from \in Nat, upto \in Nat :
         from = a + 1 /\ upto = b - 1 /\ a < b /\ upto <= l /\ a \in Nat /\ b \in Nat
  <2>1. a < b /\ a + 1 \in Nat /\ b - 1 \in Nat /\ b - 1 <= l /\ a \in Nat /\ b \in Nat
    BY <1>1 DEF ComponentAt
  <2> QED BY <2>1
<1>3. Clear(text, SLASH, a, b) /\ word = Piece(text, from, upto)
  BY <1>2, Zenon DEF ComponentAt
<1>4. (b <= l /\ text[b] = SLASH) \/ (k = M /\ b = l + 1 /\ text[l] # SLASH)
  BY <1>1, Zenon DEF ComponentAt
<1>5. /\ word \in Seq(Nat) /\ Len(word) = upto - a
      /\ \A i \in 1 .. upto - a : word[i] = text[a + i]
  <2>1. /\ Piece(text, from, upto) \in Seq(Nat)
        /\ Len(Piece(text, from, upto)) = IF from <= upto THEN upto - from + 1 ELSE 0
        /\ \A i \in 1 .. upto - from + 1 : Piece(text, from, upto)[i] = text[from + i - 1]
    <3>1. 1 <= from /\ upto <= Len(text)
      BY <1>1, <1>2
    <3> QED BY <3>1, PieceIs, ZenonT(60)
  <2>2. /\ word \in Seq(Nat)
        /\ Len(word) = IF from <= upto THEN upto - from + 1 ELSE 0
        /\ \A i \in 1 .. upto - from + 1 : word[i] = text[from + i - 1]
    BY <1>3, <2>1, Zenon
  <2>3. Len(word) = upto - a
    BY <1>2, <2>2
  <2>4. ASSUME NEW i \in 1 .. upto - a PROVE word[i] = text[a + i]
    <3>1. i \in 1 .. upto - from + 1 /\ from + i - 1 = a + i
      BY <1>2
    <3> QED BY <2>2, <3>1
  <2> QED BY <2>2, <2>3, <2>4
<1>6. upto - a >= 1
  <2>1. Plain(word)
    OBVIOUS
  <2> QED BY <1>5, <2>1, PlainSome
<1>7. PICK t \in Seq(Nat) :
         /\ t = w.path /\ t = Piece(text, from, l) /\ Len(t) = l - a
         /\ \A i \in 1 .. l - a : t[i] = text[a + i]
  <2>1. /\ Piece(text, from, l) \in Seq(Nat)
        /\ Len(Piece(text, from, l)) = IF from <= l THEN l - from + 1 ELSE 0
        /\ \A i \in 1 .. l - from + 1 : Piece(text, from, l)[i] = text[from + i - 1]
    <3>1. 1 <= from /\ l <= Len(text)
      BY <1>1, <1>2
    <3> QED BY <3>1, PieceIs, ZenonT(60)
  <2>2. w.path = Piece(text, from, l)
    BY <1>1, <1>2, Zenon
  <2>3. PICK t : t = w.path /\ t = Piece(text, from, l)
    BY <2>2, Zenon
  <2>4. /\ t \in Seq(Nat) /\ Len(t) = IF from <= l THEN l - from + 1 ELSE 0
        /\ \A i \in 1 .. l - from + 1 : t[i] = text[from + i - 1]
    BY <2>1, <2>3, Zenon
  <2>5. Len(t) = l - a
    BY <1>2, <1>6, <2>4
  <2>6. ASSUME NEW i \in 1 .. l - a PROVE t[i] = text[a + i]
    <3>1. i \in 1 .. l - from + 1 /\ from + i - 1 = a + i
      BY <1>2
    <3> QED BY <2>4, <3>1
  <2> QED BY <2>3, <2>4, <2>5, <2>6
<1>8. w.path # <<>>
  <2>1. Len(t) # 0
    BY <1>2, <1>6, <1>7
  <2> QED BY <1>7, <2>1, EmptySeq
<1>9. \A i \in 1 .. Len(word) : word[i] = w.path[i] /\ word[i] # NUL
  <2> SUFFICES ASSUME NEW i \in 1 .. upto - a
               PROVE  word[i] = t[i] /\ word[i] # NUL
    BY <1>5, <1>7
  <2>1. i \in 1 .. l - a /\ a + i \in 1 .. Len(text)
    BY <1>1, <1>2
  <2> QED BY <1>5, <1>7, <2>1
<1>10. PICK d \in Nat : d = Delim(w) /\ d = strchr(t, SLASH)
  BY <1>7, <1>8, CopiesAre DEF Delim
<1>11. \A j \in 1 .. l - a : j < b - a => t[j] # SLASH
  <2> SUFFICES ASSUME NEW j \in 1 .. l - a, j < b - a
               PROVE  t[j] # SLASH
    OBVIOUS
  <2>1. a + j \in 1 .. Len(text) /\ a < a + j /\ a + j < b
    BY <1>1, <1>2
  <2> QED BY <1>7, <1>3, <2>1 DEF Clear
<1>12. CASE b <= l /\ text[b] = SLASH
  <2>1. PICK m \in 1 .. Len(t) : m = b - a /\ a + m = b
    <3>1. b - a \in 1 .. l - a /\ a + (b - a) = b
      BY <1>2, <1>6, <1>12
    <3> QED BY <1>7, <3>1
  <2>2. t[m] = SLASH /\ \A j \in 1 .. Len(t) : j < m => t[j] # SLASH
    BY <1>7, <1>11, <1>12, <2>1
  <2>3. d = m
    BY <1>10, <2>2, StrchrAt
  <2>4. d # 0 /\ d - 1 = upto - a
    BY <1>2, <2>1, <2>3
  <2>5. Copies(w) = Len(word)
    BY <1>5, <1>10, <2>4 DEF Copies
  <2>6. Take(w).path = Piece(t, d + 1, Len(t))
    BY <1>7, <1>8, <1>10, <2>4, BufferTaken
  <2>7. PICK e \in Nat : e = b + 1 /\ 1 <= from /\ from <= e /\ e <= l + 1
    BY <1>2, <1>12
  <2>8. Piece(Piece(text, from, l), e - from + 1, l - from + 1) = Piece(text, e, l)
    <3>1. 1 <= from /\ from <= e /\ e <= Len(text) + 1
      BY <1>1, <2>7
    <3>2. Piece(Piece(text, from, Len(text)), e - from + 1, Len(text) - from + 1)
             = Piece(text, e, Len(text))
      BY <3>1, PieceOfPiece, Zenon
    <3> QED BY <1>1, <3>2, Zenon
  <2>9. e - from + 1 = d + 1 /\ l - from + 1 = Len(t)
    BY <1>2, <1>7, <2>1, <2>3, <2>7
  <2>10. Take(w).path = Piece(text, b + 1, Len(text))
    BY <1>1, <1>7, <2>6, <2>7, <2>8, <2>9, Zenon
  <2> QED BY <1>5, <1>8, <1>9, <1>10, <2>4, <2>5, <2>10 DEF Turned
<1>13. CASE k = M /\ b = l + 1 /\ text[l] # SLASH
  <2>1. \A j \in 1 .. Len(t) : t[j] # SLASH
    <3>1. \A j \in 1 .. l - a : j < b - a
      BY <1>13
    <3> QED BY <1>7, <1>11, <3>1
  <2>2. d = 0
    BY <1>10, <2>1, StrchrNone
  <2>3. Copies(w) = Len(word)
    <3>1. Copies(w) = Len(t)
      BY <1>7, <1>10, <2>2 DEF Copies
    <3>2. upto = l
      BY <1>2, <1>13
    <3> QED BY <1>5, <1>7, <3>1, <3>2
  <2>4. Take(w).path = <<>>
    BY <1>8, <1>10, <2>2, BufferTaken
  <2>5. Piece(text, b + 1, Len(text)) = <<>>
    <3>1. PICK e \in Int : e = b + 1 /\ l < e
      BY <1>13
    <3>2. SubSeq(text, e, l) = <<>>
      BY <3>1, SubSeqEmpty
    <3> QED BY <1>1, <3>1, <3>2, Zenon DEF Piece
  <2> QED BY <1>1, <1>5, <1>8, <1>9, <1>13, <2>3, <2>4, <2>5 DEF Turned
<1> QED BY <1>12, <1>13, <1>4


\* Nothing is left in the buffer behind the last component.
Quiet(text, c, M) ==
    c = NUL /\ \A i \in 1 .. M : Len(Components(text)[i]) <= Len(Components(text)[M])

\* FAT_Open after n of the M components of its path.
Stage(text, c, M, at, n, w) ==
    /\ w \in Walks /\ w.path = Piece(text, at[n] + 1, Len(text))
    /\ Len(w.names) = n /\ \A i \in 1 .. n : w.names[i] = Meant(Components(text)[i])
    /\ Quiet(text, c, M) => \A j \in 1 .. MAX_PATH_SIZE :
                               j > Len(Components(text)[M]) => w.buffer[j] = NUL

\* A path that PathIsMeant is about.
Fit(text, c, M) ==
    /\ \A j \in 1 .. Len(text) : text[j] # NUL
    /\ \A i \in 1 .. M : Plain(Components(text)[i])
    /\ M > 0 => text[Len(text)] = SLASH \/ Full(Components(text)[M]) \/ Quiet(text, c, M)

LEMMA ComponentType ==
    ASSUME NEW text \in Seq(Nat), NEW M \in Nat,
           NEW at \in [0 .. M -> 0 .. Len(text) + 1], ComponentsBy(text, M, at),
           NEW i \in 1 .. M
    PROVE  Components(text)[i] \in Seq(Nat)
<1>1. PICK l \in Nat : l = Len(text)
  BY LenProperties
<1>2. PICK a \in Nat, b \in Nat : a = at[i - 1] /\ b = at[i] /\ b <= l + 1
  <2>1. i - 1 \in 0 .. M /\ i \in 0 .. M
    OBVIOUS
  <2> QED BY <1>1, <2>1
<1>3. ComponentAt(text, M, i, a, b)
  BY <1>2 DEF ComponentsBy
<1>4. PICK from \in Nat, upto \in Nat : from = a + 1 /\ upto = b - 1 /\ upto <= l /\ 1 <= from
  <2>1. a < b
    BY <1>3 DEF ComponentAt
  <2>2. a + 1 \in Nat /\ b - 1 \in Nat /\ b - 1 <= l /\ 1 <= a + 1
    BY <1>2, <2>1
  <2> QED BY <2>2
<1>5. Piece(text, from, upto) \in Seq(Nat)
  <2>1. 1 <= from /\ upto <= Len(text)
    BY <1>1, <1>4
  <2> QED BY <2>1, PieceIs, Zenon
<1>6. Components(text)[i] = Piece(text, from, upto)
  BY <1>3, <1>4, Zenon DEF ComponentAt
<1> QED BY <1>5, <1>6

LEMMA StageStep ==
    ASSUME NEW text \in Seq(Nat), NEW c, NEW M \in Nat,
           NEW at \in [0 .. M -> 0 .. Len(text) + 1],
           ComponentsBy(text, M, at), Fit(text, c, M),
           NEW n \in Nat, n < M, NEW w, Stage(text, c, M, at, n, w)
    PROVE  w.path # <<>> /\ Stage(text, c, M, at, n + 1, Take(w))
<1>1. PICK k \in 1 .. M : k = n + 1 /\ k - 1 = n
  <2>1. n + 1 \in 1 .. M /\ (n + 1) - 1 = n
    OBVIOUS
  <2> QED BY <2>1
<1>2. PICK a \in 0 .. Len(text) + 1, b \in 0 .. Len(text) + 1 : a = at[n] /\ b = at[k]
  <2>1. n \in 0 .. M /\ k \in 0 .. M
    OBVIOUS
  <2> QED BY <2>1
<1>3. ComponentAt(text, M, k, a, b)
  BY <1>1, <1>2 DEF ComponentsBy
<1>4. PICK word : word = Components(text)[k]
  OBVIOUS
<1>5. /\ Plain(Components(text)[k]) /\ w \in Walks
      /\ w.path = Piece(text, a + 1, Len(text))
      /\ \A j \in 1 .. Len(text) : text[j] # NUL
  BY <1>2, Zenon DEF Fit, Stage
<1>6. /\ word \in Seq(Nat) /\ w.path # <<>> /\ Copies(w) = Len(word)
      /\ \A i \in 1 .. Len(word) : word[i] = w.path[i] /\ word[i] # NUL
      /\ Take(w).path = Piece(text, b + 1, Len(text))
      /\ Delim(w) # 0 \/ (k = M /\ text[Len(text)] # SLASH)
  <2>1. Turned(text, M, k, b, word, w)
    BY <1>3, <1>4, <1>5, TurnAt, Zenon
  <2> QED BY <2>1, Zenon DEF Turned
<1>7. PICK m \in Nat, e \in 1 .. MAX_PATH_SIZE :
         m = Len(word) /\ m = Copies(w) /\ e = End(w) /\ e > m
  BY <1>5, <1>6, CopiesAre
<1>8. Len(Components(text)[M]) \in Nat
  <2>1. M \in 1 .. M
    OBVIOUS
  <2> QED BY <2>1, ComponentType, LenProperties
<1>9. Delim(w) # 0 \/ Full(word) \/ w.buffer[Copies(w) + 1] = NUL
  <2>1. CASE k = M /\ text[Len(text)] # SLASH
    <3>1. Full(word) \/ Quiet(text, c, M)
      BY <1>4, <2>1 DEF Fit
    <3>2. CASE Quiet(text, c, M)
      <4>1. m + 1 \in 1 .. MAX_PATH_SIZE /\ m + 1 > Len(Components(text)[M])
        <5>1. Len(Components(text)[M]) = m
          BY <1>4, <1>7, <2>1, Zenon
        <5>2. m + 1 \in 1 .. MAX_PATH_SIZE /\ m + 1 > m
          BY <1>7, Sizes
        <5> QED BY <5>1, <5>2
      <4>2. w.buffer[m + 1] = NUL
        BY <3>2, <4>1 DEF Stage
      <4> QED BY <1>7, <4>2
    <3> QED BY <3>1, <3>2
  <2> QED BY <1>6, <2>1
<1>10. GetShortName(Terminated(Take(w).buffer)) = Meant(word)
  BY <1>4, <1>5, <1>6, <1>9, NameTaken
<1>11. PICK u : u = Take(w)
  OBVIOUS
<1>12. /\ \A j \in 1 .. MAX_PATH_SIZE :
             u.buffer[j] = IF j = e THEN NUL ELSE IF j <= m THEN w.path[j] ELSE w.buffer[j]
       /\ u.names = Append(w.names, Meant(word))
  BY <1>5, <1>6, <1>7, <1>10, <1>11, BufferTaken, Zenon
<1>13. u \in Walks
  BY <1>5, <1>6, <1>11, TakeType
<1>14. u.path = Piece(text, at[k] + 1, Len(text))
  BY <1>2, <1>6, <1>11, Zenon
<1>15. Len(u.names) = k /\ \A i \in 1 .. k : u.names[i] = Meant(Components(text)[i])
  <2>1. PICK s \in Seq([1 .. NAME + EXT -> Nat]), x \in [1 .. NAME + EXT -> Nat] :
           s = w.names /\ x = Meant(word)
    <3>1. w.names \in Seq([1 .. NAME + EXT -> Nat])
      BY <1>5, <1>6, CopiesAre
    <3>2. u.names \in Seq([1 .. NAME + EXT -> Nat])
      BY <1>13 DEF Walks
    <3>3. GetShortName(Terminated(Take(w).buffer)) \in [1 .. NAME + EXT -> Nat]
      <4>1. Take(w).buffer \in Buffers /\ Take(w).buffer[e] = NUL
        BY <1>5, <1>6, <1>7, BufferTaken
      <4> QED BY <4>1, BufferEnds, ShortNameType
    <3> QED BY <1>10, <3>1, <3>3
  <2>2. Len(s) = n /\ \A i \in 1 .. n : s[i] = Meant(Components(text)[i])
    BY <2>1 DEF Stage
  <2>3. PICK v : v = Append(s, x)
    OBVIOUS
  <2>4. Len(v) = n + 1 /\ v[n + 1] = x /\ \A i \in 1 .. n : v[i] = s[i]
    BY <2>2, <2>3, AppendProperties
  <2>5. \A i \in 1 .. k : v[i] = Meant(Components(text)[i])
    <3> SUFFICES ASSUME NEW i \in 1 .. k PROVE v[i] = Meant(Components(text)[i])
      OBVIOUS
    <3>1. CASE i = k
      BY <1>1, <1>4, <2>1, <2>4, <3>1
    <3>2. CASE i # k
      <4>1. i \in 1 .. n
        BY <1>1, <3>2
      <4> QED BY <2>2, <2>4, <4>1
    <3> QED BY <3>1, <3>2
  <2> QED BY <1>1, <1>12, <2>1, <2>3, <2>4, <2>5
<1>16. ASSUME Quiet(text, c, M), NEW j \in 1 .. MAX_PATH_SIZE, j > Len(Components(text)[M])
       PROVE  u.buffer[j] = NUL
  <2>1. w.buffer[j] = NUL
    BY <1>16 DEF Stage
  <2>2. m <= Len(Components(text)[M])
    BY <1>4, <1>7, <1>16 DEF Quiet
  <2>3. ~(j <= m)
    BY <1>8, <1>16, <2>2, Sizes
  <2> QED BY <1>12, <2>1, <2>3
<1>17. Stage(text, c, M, at, k, u)
  BY <1>13, <1>14, <1>15, <1>16, Zenon DEF Stage
<1> QED BY <1>1, <1>6, <1>11, <1>17


Meanings(text, M) == [i \in 1 .. M |-> Meant(Components(text)[i])]

\* From any stage on, the loop comes to what the components mean.
LEMMA StageAll ==
    ASSUME NEW text \in Seq(Nat), NEW c, NEW M \in Nat,
           NEW at \in [0 .. M -> 0 .. Len(text) + 1],
           ComponentsBy(text, M, at), Fit(text, c, M),
           NEW w, Stage(text, c, M, at, 0, w)
    PROVE  TakeAll[w].names = Meanings(text, M)
<1> DEFINE Ends(v) == TakeAll[v].names = Meanings(text, M)
           S == {d \in Nat : \A n \in Nat : n + d = M =>
                                \A v : Stage(text, c, M, at, n, v) => Ends(v)}
<1>1. 0 \in S
  <2> SUFFICES ASSUME NEW n \in Nat, n + 0 = M, NEW v, Stage(text, c, M, at, n, v)
               PROVE  Ends(v)
    OBVIOUS
  <2>1. n = M
    OBVIOUS
  <2>2. v.path = <<>>
    <3>1. PICK l \in Nat, e \in Int : l = Len(text) /\ e = at[M] + 1 /\ l < e
      <4>1. Len(text) \in Nat
        BY LenProperties
      <4>2. M \in 0 .. M
        OBVIOUS
      <4>3. at[M] \in Nat /\ at[M] >= Len(text)
        BY <4>1, <4>2 DEF ComponentsBy
      <4> QED BY <4>1, <4>3
    <3>2. SubSeq(text, e, l) = <<>>
      BY <3>1, SubSeqEmpty
    <3>3. v.path = Piece(text, at[M] + 1, Len(text))
      BY <2>1, Zenon DEF Stage
    <3> QED BY <3>1, <3>2, <3>3, Zenon DEF Piece
  <2>3. v \in Walks /\ Len(v.names) = M
        /\ \A i \in 1 .. M : v.names[i] = Meant(Components(text)[i])
    BY <2>1, Zenon DEF Stage
  <2>4. TakeAll[v] = v
    BY <2>2, <2>3, TakeAllStep
  <2>5. v.names = Meanings(text, M)
    <3>1. PICK s \in Seq([1 .. NAME + EXT -> Nat]) : s = v.names
      BY <2>3 DEF Walks
    <3>2. s = [i \in 1 .. M |-> s[i]]
      BY <2>3, <3>1, LenProperties
    <3> HIDE DEF Meant, Components
    <3> QED BY <2>3, <3>1, <3>2 DEF Meanings
  <2> QED BY <2>4, <2>5
<1>2. ASSUME NEW d \in Nat, d \in S PROVE d + 1 \in S
  <2> SUFFICES ASSUME NEW n \in Nat, n + (d + 1) = M, NEW v, Stage(text, c, M, at, n, v)
               PROVE  Ends(v)
    OBVIOUS
  <2>1. PICK k \in Nat : k = n + 1 /\ k + d = M /\ n < M
    OBVIOUS
  <2> HIDE DEF Ends
  <2>2. v.path # <<>> /\ Stage(text, c, M, at, k, Take(v))
    BY <2>1, StageStep
  <2>3. Ends(Take(v))
    BY <1>2, <2>1, <2>2
  <2>4. v \in Walks
    BY DEF Stage
  <2>5. TakeAll[v] = TakeAll[Take(v)]
    BY <2>2, <2>4, TakeAllStep
  <2> QED BY <2>3, <2>5 DEF Ends
<1> HIDE DEF S
<1>3. M \in S
  BY <1>1, <1>2, Taking!SetInduction
<1>4. 0 + M = M
  OBVIOUS
<1> QED BY <1>3, <1>4, Zenon DEF S

\* Where FAT_Open's loop starts.
WalkStart(text, c) ==
    [path   |-> IF text # <<>> /\ Head(text) = SLASH THEN Tail(text) ELSE text,
     buffer |-> [k \in 1 .. MAX_PATH_SIZE |-> c],
     names  |-> <<>>]

LEMMA StageStart ==
    ASSUME NEW text \in Seq(Nat), text # <<>>, Len(text) + 2 <= MAX_PATH_SIZE,
           NEW c \in Nat, NEW M \in Nat, NEW at \in [0 .. M -> 0 .. Len(text) + 1],
           ComponentsBy(text, M, at)
    PROVE  Stage(text, c, M, at, 0, WalkStart(text, c))
<1>1. PICK l \in Nat, one \in Nat, two \in Nat :
         l = Len(text) /\ l >= 1 /\ one = 1 /\ two = 2 /\ l + 2 <= MAX_PATH_SIZE
  BY LenProperties, EmptySeq
<1>2. PICK p : p = IF text # <<>> /\ Head(text) = SLASH THEN Tail(text) ELSE text
  OBVIOUS
<1>3. PICK b : b = [k \in 1 .. MAX_PATH_SIZE |-> c]
  OBVIOUS
<1>4. b \in [1 .. MAX_PATH_SIZE -> Nat] /\ \A j \in 1 .. MAX_PATH_SIZE : b[j] = c
  BY <1>3
<1>5. p \in Seq(Nat) /\ Len(p) <= l /\ Len(p) \in Nat /\ p = Piece(text, at[0] + 1, Len(text))
  <2>1. CASE at[0] = 1 /\ text[1] = SLASH
    <3>1. Head(text) = SLASH
      BY <2>1
    <3>2. p = Tail(text)
      BY <1>2, <3>1
    <3>3. PICK t \in Seq(Nat) : t = Tail(text) /\ Len(t) = l - 1
                                /\ \A i \in 1 .. l - 1 : t[i] = text[i + 1]
      BY <1>1, HeadTailProperties
    <3>4. PICK q : q = Piece(text, two, l)
      OBVIOUS
    <3>5. q \in Seq(Nat) /\ Len(q) = l - 1 /\ \A i \in 1 .. l - 1 : q[i] = text[i + 1]
      <4>1. /\ Piece(text, two, l) \in Seq(Nat)
            /\ Len(Piece(text, two, l)) = IF two <= l THEN l - two + 1 ELSE 0
            /\ \A i \in 1 .. l - two + 1 : Piece(text, two, l)[i] = text[two + i - 1]
        <5>1. 1 <= two /\ l <= Len(text)
          BY <1>1
        <5> QED BY <5>1, PieceIs, ZenonT(60)
      <4>2. /\ q \in Seq(Nat) /\ Len(q) = IF two <= l THEN l - two + 1 ELSE 0
            /\ \A i \in 1 .. l - two + 1 : q[i] = text[two + i - 1]
        BY <3>4, <4>1, Zenon
      <4>3. Len(q) = l - 1
        BY <1>1, <4>2
      <4>4. ASSUME NEW i \in 1 .. l - 1 PROVE q[i] = text[i + 1]
        <5>1. i \in 1 .. l - two + 1 /\ two + i - 1 = i + 1
          BY <1>1
        <5> QED BY <4>2, <5>1
      <4> QED BY <4>2, <4>3, <4>4
    <3>6. t = q
      <4>1. Len(t) = Len(q) /\ \A i \in 1 .. Len(t) : t[i] = q[i]
        BY <3>3, <3>5
      <4> QED BY <3>5, <4>1, SeqEqual
    <3>7. at[0] + 1 = two
      BY <1>1, <2>1
    <3>8. p = Piece(text, at[0] + 1, Len(text))
      BY <1>1, <3>2, <3>3, <3>4, <3>6, <3>7, Zenon
    <3>9. p = t
      BY <3>2, <3>3
    <3>10. Len(p) <= l /\ Len(p) \in Nat /\ p \in Seq(Nat)
      BY <1>1, <3>3, <3>9
    <3> QED BY <3>8, <3>10
  <2>2. CASE at[0] = 0 /\ text[1] # SLASH
    <3>1. Head(text) # SLASH
      BY <2>2
    <3>2. p = text
      BY <1>2, <3>1
    <3>3. at[0] + 1 = one
      BY <1>1, <2>2
    <3>4. Piece(text, 1, Len(text)) = text
      BY WholePiece
    <3>5. p = Piece(text, at[0] + 1, Len(text))
      BY <1>1, <3>2, <3>3, <3>4, Zenon
    <3>6. Len(p) <= l /\ Len(p) \in Nat /\ p \in Seq(Nat)
      BY <1>1, <3>2
    <3> QED BY <3>5, <3>6
  <2> QED BY <2>1, <2>2 DEF ComponentsBy
<1>6. PICK w : w = [path |-> p, buffer |-> b, names |-> <<>>]
  OBVIOUS
<1>7. w = WalkStart(text, c)
  BY <1>2, <1>3, <1>6, Zenon DEF WalkStart
<1>8. w.path = p /\ w.buffer = b /\ w.names = <<>>
  BY <1>6
<1>9. w \in Walks
  <2>1. Len(p) + 2 <= MAX_PATH_SIZE
    BY <1>1, <1>5, Sizes
  <2>2. <<>> \in Seq([1 .. NAME + EXT -> Nat])
    OBVIOUS
  <2> QED BY <1>4, <1>5, <1>6, <2>1, <2>2 DEF Walks
<1>10. Len(w.names) = 0 /\ \A i \in 1 .. 0 : w.names[i] = Meant(Components(text)[i])
  BY <1>8
<1>11. Quiet(text, c, M) => \A j \in 1 .. MAX_PATH_SIZE :
                               j > Len(Components(text)[M]) => w.buffer[j] = NUL
  BY <1>4, <1>8 DEF Quiet
<1>12. Stage(text, c, M, at, 0, w)
  BY <1>5, <1>8, <1>9, <1>10, <1>11, Zenon DEF Stage
<1> QED BY <1>7, <1>12

\* What FAT_Open looks for is what the components of its path mean.
THEOREM WalkedMeant ==
    ASSUME NEW text \in Seq(Nat), text # <<>>, Len(text) + 2 <= MAX_PATH_SIZE,
           \A j \in 1 .. Len(text) : text[j] # NUL, NEW c \in Nat, Firm(text, c),
           \A i \in DOMAIN Components(text) : Plain(Components(text)[i])
    PROVE  Walked(text, c) = [i \in DOMAIN Components(text) |-> Meant(Components(text)[i])]
<1>1. PICK M \in Nat : \E at \in [0 .. M -> 0 .. Len(text) + 1] : ComponentsBy(text, M, at)
  BY ComponentsAre
<1>2. PICK at \in [0 .. M -> 0 .. Len(text) + 1] : ComponentsBy(text, M, at)
  BY <1>1
<1>3. PICK C : C = Components(text)
  OBVIOUS
<1>4. Len(C) = M /\ DOMAIN C = 1 .. M
  BY <1>2, <1>3 DEF ComponentsBy
<1>5. Last(C) = C[M]
  BY <1>4 DEF Last
<1>6. text[Len(text)] = SLASH \/ Full(C[M]) \/ Quiet(text, c, M)
  <2>1. \/ Last(text) = SLASH
        \/ IF Len(Split(Last(C), DOT)) = 1 THEN Len(Split(Last(C), DOT)[1]) = NAME
           ELSE Len(Split(Last(C), DOT)[2]) = EXT
        \/ c = NUL /\ \A k \in DOMAIN C : Len(C[k]) <= Len(Last(C))
    BY <1>3, Zenon DEF Firm
  <2>2. CASE Last(text) = SLASH
    BY <2>2 DEF Last
  <2>3. CASE IF Len(Split(Last(C), DOT)) = 1 THEN Len(Split(Last(C), DOT)[1]) = NAME
             ELSE Len(Split(Last(C), DOT)[2]) = EXT
    BY <1>5, <2>3, Zenon DEF Full
  <2>4. CASE c = NUL /\ \A k \in DOMAIN C : Len(C[k]) <= Len(Last(C))
    BY <1>3, <1>4, <1>5, <2>4, Zenon DEF Quiet
  <2> QED BY <2>1, <2>2, <2>3, <2>4, Zenon
<1>7. Fit(text, c, M)
  BY <1>3, <1>4, <1>6, Zenon DEF Fit
<1>8. Stage(text, c, M, at, 0, WalkStart(text, c))
  BY <1>2, StageStart
<1>9. TakeAll[WalkStart(text, c)].names = Meanings(text, M)
  BY <1>2, <1>7, <1>8, StageAll
<1>10. Walked(text, c) = TakeAll[WalkStart(text, c)].names
  BY Zenon DEF Walked, WalkStart
<1>11. Meanings(text, M) = [i \in DOMAIN Components(text) |-> Meant(Components(text)[i])]
  BY <1>3, <1>4, Zenon DEF Meanings
<1> QED BY <1>9, <1>10, <1>11

\* An empty path has no components for FAT_Open.
LEMMA WalkedNothing ==
    ASSUME NEW c \in Nat, MAX_PATH_SIZE >= 2
    PROVE  Walked(<<>>, c) = <<>>
<1>1. PICK w : w = WalkStart(<<>>, c)
  OBVIOUS
<1>2. PICK t, b : t = <<>> /\ b = [k \in 1 .. MAX_PATH_SIZE |-> c]
  OBVIOUS
<1>3. w = [path |-> t, buffer |-> b, names |-> t]
  BY <1>1, <1>2, Zenon DEF WalkStart
<1>4. w \in Walks
  <2>1. t \in Seq(Nat) /\ Len(t) + 2 <= MAX_PATH_SIZE /\ t \in Seq([1 .. NAME + EXT -> Nat])
    BY <1>2, Sizes
  <2>2. b \in [1 .. MAX_PATH_SIZE -> Nat]
    BY <1>2
  <2> QED BY <1>3, <2>1, <2>2 DEF Walks
<1>5. w.path = <<>> /\ w.names = <<>>
  BY <1>2, <1>3
<1>6. TakeAll[w] = w
  BY <1>4, <1>5, TakeAllStep
<1>7. Walked(<<>>, c) = TakeAll[w].names
  BY <1>1, Zenon DEF Walked, WalkStart
<1> QED BY <1>5, <1>6, <1>7
=============================================================================
