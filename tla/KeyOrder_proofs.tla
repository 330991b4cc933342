--------------------------- MODULE KeyOrder_proofs ---------------------------
(***************************************************************************)
(* What rests on the order of keys (KeyOrder): listings (Listing) and the    *)
(* WebDAV tree (DavTree), for all alphabets, names, keys and page sizes.     *)
(*                                                                          *)
(* Listings come out in order and complete.  Each walk keeps: its entries   *)
(* are in order, each is Shown of a key of the prefix, and the next query - *)
(* whatever it resumes from: a key, the upper bound of a common prefix, a   *)
(* marker - gets exactly the keys that are Ahead of the last entry (Follows, *)
(* Resumes).  So an object that stays is Covered by the entries, or ahead of *)
(* them while there is still something to ask (ObjectsWalk, VersionsWalk).   *)
(*                                                                          *)
(* Moves lose nothing.  By the time a move removes an original, the content *)
(* it took is at the place the key goes to (Copied), which is not the place *)
(* it is from (MovedAway); every other step leaves a wanted content where it *)
(* is (Stay).  Only another move could take the copy away before: one that  *)
(* moves out of where this one puts (MovesApart).                           *)
(*                                                                          *)
(* A success is whole.  A request that nothing else runs beside knows at    *)
(* every step what the tree is of the one it began with (Progress): this    *)
(* one, less the keys dropped so far (Dropped), with the keys moved so far  *)
(* under both names or the new one (Halfway), or less the markers of the    *)
(* folders found empty so far (Climbing).  Its last step closes the gap to  *)
(* the tree it promises (AllDropped, MoveEnds, ClimbEnds).                  *)
(*                                                                          *)
(* A success is whole.  A request that nothing else runs beside knows at    *)
(* every step what the tree is of the one it began with (Progress): this    *)
(* one, less the keys dropped so far (Dropped), with the keys moved so far  *)
(* under both names or the new one (Halfway), or less the markers of the    *)
(* folders found empty so far (Climbing).  Its last step closes the gap to  *)
(* the tree it promises (AllDropped, MoveEnds, ClimbEnds).                  *)
(***************************************************************************)
EXTENDS Listing, DavTree, FiniteSetTheorems, FunctionTheorems, WellFoundedInduction, TLAPS

\* What keys are: texts, whose characters are numbers.
Text == Seq(Nat)

LEMMA Least ==
  ASSUME NEW T, T \subseteq Nat, T # {} PROVE \E x \in T : \A y \in T : x <= y
  <1> DEFINE R == OpToRel(<, Nat)
  <1>1. \E x \in T : \A y \in T : ~(<<y, x>> \in R)
    BY NatLessThanWellFounded, WFMin
  <1>2. ASSUME NEW x \in Nat, NEW y \in Nat, <<y, x>> \notin R PROVE x <= y
    <2>1. ~(y < x)
      BY <1>2, Zenon DEF OpToRel
    <2> HIDE DEF R
    <2> QED
      BY <2>1
  <1> HIDE DEF R
  <1> QED
    BY <1>1, <1>2

LEMMA Greatest ==
  ASSUME NEW T, T \subseteq Nat, T # {}, NEW n \in Nat, \A x \in T : x <= n
  PROVE  \E x \in T : \A y \in T : y <= x
  <1> DEFINE U == {n - x : x \in T}
  <1>1. U \subseteq Nat /\ U # {}
    <2>1. ASSUME NEW x \in T PROVE n - x \in Nat
      <3>1. x \in Nat /\ x <= n
        OBVIOUS
      <3> QED
        BY <3>1
    <2> QED
      BY <2>1
  <1>2. PICK u \in U : \A v \in U : u <= v
    <2> HIDE DEF U
    <2> QED
      BY <1>1, Least
  <1>3. PICK x \in T : u = n - x
    BY <1>2
  <1>4. ASSUME NEW y \in T PROVE y <= x
    <2>1. n - y \in U /\ x \in Nat /\ y \in Nat
      BY <1>4
    <2>2. n - x <= n - y
      BY <1>2, <1>3, <2>1
    <2> QED
      BY <2>1, <2>2
  <1> QED
    BY <1>4

LEMMA MinIs ==
  ASSUME NEW T, T \subseteq Nat, T # {} PROVE Min(T) \in T /\ \A y \in T : Min(T) <= y
  <1>1. \E x \in T : \A y \in T : x <= y
    BY Least
  <1> QED
    BY <1>1 DEF Min

LEMMA MaxIs ==
  ASSUME NEW T, T \subseteq Nat, T # {}, NEW n \in Nat, \A x \in T : x <= n
  PROVE  Max(T) \in T /\ \A y \in T : y <= Max(T)
  <1>1. \E x \in T : \A y \in T : y <= x
    BY Greatest
  <1> QED
    BY <1>1 DEF Max

\* A finite set of numbers has a bound.
LEMMA Bounded ==
  ASSUME NEW S, IsFiniteSet(S), S \subseteq Nat PROVE \E n \in Nat : \A x \in S : x <= n
  <1> DEFINE Free(A) == \A n \in Nat : \E x \in A : x > n
             T == {n \in Nat : \E A \in SUBSET Nat : IsFiniteSet(A) /\ Cardinality(A) = n /\ Free(A)}
  <1>1. SUFFICES ASSUME Free(S) PROVE FALSE
    OBVIOUS
  <1>2. T # {} /\ T \subseteq Nat
    BY <1>1, FS_CardinalityType
  <1>3. PICK n \in T : \A m \in T : n <= m
    <2> HIDE DEF T
    <2> QED
      BY <1>2, Least
  <1>4. PICK A \in SUBSET Nat : IsFiniteSet(A) /\ Cardinality(A) = n /\ Free(A)
    BY <1>3
  <1>5. PICK a \in A : TRUE
    BY <1>4
  <1> DEFINE B == A \ {a}
  <1>6. IsFiniteSet(B) /\ Cardinality(B) = n - 1 /\ n - 1 \in Nat
    <2>1. IsFiniteSet(B) /\ Cardinality(B) = n - 1
      BY <1>4, <1>5, FS_RemoveElement
    <2>2. Cardinality(B) \in Nat
      BY <2>1, FS_CardinalityType
    <2> QED
      BY <2>1, <2>2
  <1>7. ~Free(B)
    <2>1. n - 1 \notin T
      BY <1>2, <1>3, <1>6
    <2> QED
      BY <1>6, <2>1
  <1>8. PICK b \in Nat : \A x \in B : x <= b
    BY <1>4, <1>7
  <1>9. \A x \in A : x <= (IF a <= b THEN b ELSE a)
    BY <1>4, <1>5, <1>8
  <1>10. (IF a <= b THEN b ELSE a) \in Nat
    BY <1>5, <1>8
  <1> QED
    BY <1>4, <1>9, <1>10

LEMMA SeqType ==
  ASSUME NEW A, NEW s \in Seq(A)
  PROVE  Len(s) \in Nat /\ DOMAIN s = 1 .. Len(s) /\ \A i \in 1 .. Len(s) : s[i] \in A
  OBVIOUS

LEMMA TextType ==
  ASSUME NEW s \in Text
  PROVE  Len(s) \in Nat /\ DOMAIN s = 1 .. Len(s) /\ \A i \in 1 .. Len(s) : s[i] \in Nat /\ s[i] \in Int
  <1>1. Len(s) \in Nat /\ DOMAIN s = 1 .. Len(s) /\ \A i \in 1 .. Len(s) : s[i] \in Nat
    BY SeqType DEF Text
  <1> QED
    BY <1>1

\* SubSeq and equality of beginnings.
LEMMA SameStart ==
  ASSUME NEW s \in Text, NEW t \in Text, NEW i \in Nat, i <= Len(s), i <= Len(t)
  PROVE  SubSeq(s, 1, i) = SubSeq(t, 1, i) <=> \A j \in 1 .. i : s[j] = t[j]
  <1>1. /\ SubSeq(s, 1, i) = [j \in 1 .. i |-> s[j]]
        /\ SubSeq(t, 1, i) = [j \in 1 .. i |-> t[j]]
    BY DEF Text
  <1> QED
    BY <1>1

LEMMA BeforeMeans ==
  ASSUME NEW s \in Text, NEW t \in Text
  PROVE  Before(s, t) <=>
           \E i \in 1 .. Len(t) : /\ i <= Len(s) + 1
                                  /\ \A j \in 1 .. (i - 1) : s[j] = t[j]
                                  /\ i <= Len(s) => s[i] < t[i]
  <1>1. Len(s) \in Nat /\ Len(t) \in Nat
    BY DEF Text
  <1>2. ASSUME NEW i \in 1 .. Len(t), i <= Len(s) + 1
        PROVE  SubSeq(s, 1, i - 1) = SubSeq(t, 1, i - 1) <=> \A j \in 1 .. (i - 1) : s[j] = t[j]
    <2>1. i - 1 \in Nat /\ i - 1 <= Len(s) /\ i - 1 <= Len(t)
      BY <1>1, <1>2
    <2> QED
      BY <2>1, SameStart
  <1> QED
    BY <1>2 DEF Before

LEMMA Irreflexive == ASSUME NEW s \in Text PROVE ~Before(s, s)
  <1>1. Len(s) \in Nat /\ \A i \in 1 .. Len(s) : s[i] \in Int
    BY TextType
  <1> QED
    BY <1>1, BeforeMeans

LEMMA Transitive ==
  ASSUME NEW s \in Text, NEW t \in Text, NEW u \in Text, Before(s, t), Before(t, u)
  PROVE  Before(s, u)
  <1>1. /\ Len(s) \in Nat /\ \A i \in 1 .. Len(s) : s[i] \in Int
        /\ Len(t) \in Nat /\ \A i \in 1 .. Len(t) : t[i] \in Int
        /\ Len(u) \in Nat /\ \A i \in 1 .. Len(u) : u[i] \in Int
    BY TextType
  <1>2. PICK i \in 1 .. Len(t) : /\ i <= Len(s) + 1
                                 /\ \A j \in 1 .. (i - 1) : s[j] = t[j]
                                 /\ i <= Len(s) => s[i] < t[i]
    BY BeforeMeans
  <1>3. PICK k \in 1 .. Len(u) : /\ k <= Len(t) + 1
                                 /\ \A j \in 1 .. (k - 1) : t[j] = u[j]
                                 /\ k <= Len(t) => t[k] < u[k]
    BY BeforeMeans
  <1>4. CASE i < k
    <2>1. i \in 1 .. Len(u) /\ i <= Len(s) + 1
      BY <1>1, <1>2, <1>3, <1>4
    <2>2. \A j \in 1 .. (i - 1) : s[j] = u[j]
      BY <1>1, <1>2, <1>3, <1>4
    <2>3. i <= Len(s) => s[i] < u[i]
      BY <1>1, <1>2, <1>3, <1>4
    <2> QED
      BY <2>1, <2>2, <2>3, BeforeMeans
  <1>5. CASE k <= i
    <2>1. k \in 1 .. Len(u) /\ k <= Len(s) + 1
      BY <1>1, <1>2, <1>3, <1>5
    <2>2. \A j \in 1 .. (k - 1) : s[j] = u[j]
      BY <1>1, <1>2, <1>3, <1>5
    <2>3. k <= Len(s) => s[k] < u[k]
      <3>1. SUFFICES ASSUME k <= Len(s) PROVE s[k] < u[k]
        OBVIOUS
      <3>2. k \in 1 .. Len(s) /\ k \in 1 .. Len(t) /\ t[k] < u[k]
        BY <1>1, <1>2, <1>3, <1>5, <3>1
      <3>3. s[k] = t[k] \/ s[k] < t[k]
        BY <1>1, <1>2, <1>3, <1>5, <3>1
      <3> QED
        BY <1>1, <3>2, <3>3
    <2> QED
      BY <2>1, <2>2, <2>3, BeforeMeans
  <1> QED
    BY <1>1, <1>2, <1>3, <1>4, <1>5

LEMMA Total ==
  ASSUME NEW s \in Text, NEW t \in Text PROVE Before(s, t) \/ Before(t, s) \/ s = t
  <1>1. /\ Len(s) \in Nat /\ \A i \in 1 .. Len(s) : s[i] \in Int
        /\ Len(t) \in Nat /\ \A i \in 1 .. Len(t) : t[i] \in Int
    BY TextType
  <1> DEFINE Differ == {i \in Nat \ {0} : i > Len(s) \/ i > Len(t) \/ s[i] # t[i]}
  <1>2. Differ # {} /\ Differ \subseteq Nat
    <2>1. Len(s) + 1 \in Differ
      BY <1>1
    <2> QED
      BY <2>1
  <1>3. PICK i \in Differ : \A j \in Differ : i <= j
    <2> HIDE DEF Differ
    <2> QED
      BY <1>2, Least
  <1>4. \A j \in 1 .. (i - 1) : j <= Len(s) /\ j <= Len(t) /\ s[j] = t[j]
    BY <1>1, <1>3
  <1>5. i \in Nat \ {0} /\ i <= Len(s) + 1 /\ i <= Len(t) + 1
    <2>1. Len(s) + 1 \in Differ /\ Len(t) + 1 \in Differ
      BY <1>1
    <2> QED
      BY <1>1, <1>3, <2>1
  <1>6. CASE i > Len(s) /\ i > Len(t)
    <2>1. Len(s) = i - 1 /\ Len(t) = i - 1
      BY <1>1, <1>5, <1>6
    <2>2. s = [j \in 1 .. (i - 1) |-> s[j]] /\ t = [j \in 1 .. (i - 1) |-> t[j]]
      BY <2>1 DEF Text
    <2> QED
      BY <1>4, <2>2
  <1>7. CASE i <= Len(t) /\ (i <= Len(s) => s[i] < t[i])
    BY <1>1, <1>4, <1>5, <1>7, BeforeMeans
  <1>8. CASE i <= Len(s) /\ (i <= Len(t) => t[i] < s[i])
    BY <1>1, <1>4, <1>5, <1>8, BeforeMeans
  <1>9. i <= Len(s) /\ i <= Len(t) => s[i] # t[i]
    BY <1>1, <1>3
  <1> QED
    BY <1>1, <1>5, <1>6, <1>7, <1>8, <1>9

-----------------------------------------------------------------------------
(* Ranks: FirstOf takes the first n of a set. *)

\* R orders S strictly and totally.
Orders(R, S) ==
  /\ \A x \in S : <<x, x>> \notin R
  /\ \A x, y \in S : <<x, y>> \in R \/ <<y, x>> \in R \/ x = y
  /\ \A x, y, z \in S : <<x, y>> \in R /\ <<y, z>> \in R => <<x, z>> \in R

Under(R, S, x) == {y \in S : <<y, x>> \in R}

LEMMA Ranks ==
  ASSUME NEW S, IsFiniteSet(S), NEW R, Orders(R, S)
  PROVE  /\ \A x \in S : Cardinality(Under(R, S, x)) \in Nat
         /\ \A x, y \in S : <<x, y>> \in R =>
              Cardinality(Under(R, S, x)) < Cardinality(Under(R, S, y))
         /\ \A i \in 1 .. Cardinality(S) : \E x \in S : Cardinality(Under(R, S, x)) = i - 1
  <1> DEFINE n == Cardinality(S)
             f == [x \in S |-> Cardinality(Under(R, S, x))]
  <1>1. n \in Nat
    BY FS_CardinalityType
  <1>2. ASSUME NEW x \in S
        PROVE  /\ IsFiniteSet(Under(R, S, x)) /\ Cardinality(Under(R, S, x)) \in Nat
               /\ Cardinality(Under(R, S, x)) <= n
               /\ Cardinality(Under(R, S, x)) # n
    <2>1. Under(R, S, x) \in SUBSET S /\ x \notin Under(R, S, x)
      BY DEF Under, Orders
    <2>2. Under(R, S, x) # S
      BY <2>1
    <2> QED
      BY <2>1, <2>2, FS_Subset, FS_CardinalityType
  <1>3. ASSUME NEW x \in S, NEW y \in S, <<x, y>> \in R
        PROVE  Cardinality(Under(R, S, x)) < Cardinality(Under(R, S, y))
    <2>1. Under(R, S, x) \in SUBSET Under(R, S, y)
      BY <1>3 DEF Under, Orders
    <2>2. x \in Under(R, S, y) /\ x \notin Under(R, S, x)
      BY <1>3 DEF Under, Orders
    <2>3. /\ Cardinality(Under(R, S, x)) <= Cardinality(Under(R, S, y))
          /\ Cardinality(Under(R, S, x)) # Cardinality(Under(R, S, y))
      BY <1>2, <2>1, <2>2, FS_Subset
    <2> QED
      BY <1>2, <2>3
  <1>4. f \in Injection(S, 0 .. (n - 1))
    <2>1. ASSUME NEW x \in S PROVE f[x] \in 0 .. (n - 1)
      <3>1. f[x] \in Nat /\ f[x] <= n /\ f[x] # n
        BY <1>2
      <3> HIDE DEF n, f
      <3> QED
        BY <1>1, <3>1
    <2>2. ASSUME NEW x \in S, NEW y \in S, x # y PROVE f[x] # f[y]
      <3>1. f[x] < f[y] \/ f[y] < f[x]
        BY <1>3, <2>2 DEF Orders
      <3>2. f[x] \in Nat /\ f[y] \in Nat
        BY <1>2
      <3> QED
        BY <3>1, <3>2
    <2> QED
      BY <2>1, <2>2, Fun_IsInj
  <1>5. f \in Surjection(S, 0 .. (n - 1))
    <2>1. IsFiniteSet(0 .. (n - 1)) /\ Cardinality(0 .. (n - 1)) = n
      <3>1. IsFiniteSet(0 .. (n - 1)) /\ Cardinality(0 .. (n - 1)) = IF 0 > n - 1 THEN 0 ELSE (n - 1) - 0 + 1
        BY <1>1, FS_Interval
      <3>2. (IF 0 > n - 1 THEN 0 ELSE (n - 1) - 0 + 1) = n
        BY <1>1
      <3> QED
        BY <3>1, <3>2
    <2> HIDE DEF f
    <2> QED
      BY <1>4, <2>1, FS_Injection
  <1>6. ASSUME NEW i \in 1 .. n PROVE \E x \in S : Cardinality(Under(R, S, x)) = i - 1
    <2>1. i - 1 \in 0 .. (n - 1)
      BY <1>1
    <2>2. PICK x \in S : f[x] = i - 1
      BY <1>5, <2>1 DEF Surjection
    <2> QED
      BY <2>2
  <1> QED
    BY <1>2, <1>3, <1>6

\* q lists the first n of S.
Leads(q, n, R, S) ==
  /\ q \in Seq(S)
  /\ Len(q) = (IF n <= Cardinality(S) THEN n ELSE Cardinality(S))
  /\ \A i, j \in 1 .. Len(q) : i < j => <<q[i], q[j]>> \in R
  /\ \A x \in S : (\E i \in 1 .. Len(q) : q[i] = x) \/ (\A i \in 1 .. Len(q) : <<q[i], x>> \in R)
  /\ Len(q) = Cardinality(S) => \A x \in S : \E i \in 1 .. Len(q) : q[i] = x

LEMMA MinOfTwo ==
  ASSUME NEW m \in Nat, NEW n \in Nat PROVE Min({n, m}) = IF n <= m THEN n ELSE m
  <1>1. {n, m} \subseteq Nat /\ {n, m} # {}
    OBVIOUS
  <1>2. Min({n, m}) \in {n, m} /\ \A y \in {n, m} : Min({n, m}) <= y
    BY <1>1, MinIs
  <1> QED
    BY <1>2

LEMMA FunIsSeq ==
  ASSUME NEW S, NEW m \in Nat, NEW q \in [1 .. m -> S]
  PROVE  q \in Seq(S) /\ Len(q) = m
  <1>1. q \in [1 .. m -> S] /\ DOMAIN q = 1 .. m
    OBVIOUS
  <1>2. q \in Seq(S)
    BY <1>1
  <1> QED
    BY <1>1, <1>2

LEMMA Leading ==
  ASSUME NEW S, IsFiniteSet(S), NEW R, Orders(R, S), NEW n \in Nat, NEW q,
         q = [i \in 1 .. Min({n, Cardinality(S)}) |-> q[i]],
         \A i \in 1 .. Min({n, Cardinality(S)}) :
            (\E x \in S : Cardinality(Under(R, S, x)) = i - 1) =>
              q[i] \in S /\ Cardinality(Under(R, S, q[i])) = i - 1
  PROVE  Leads(q, n, R, S)
  <1> DEFINE c == Cardinality(S)
             m == IF n <= c THEN n ELSE c
  <1>1. c \in Nat /\ m \in Nat /\ m <= c /\ m <= n /\ Min({n, c}) = m
    BY FS_CardinalityType, MinOfTwo
  <1>9. m = IF n <= Cardinality(S) THEN n ELSE Cardinality(S)
    OBVIOUS
  <1>10. \A i \in 1 .. m : i \in Int
    BY <1>1
  <1> HIDE DEF m
  <1>2. \A i \in 1 .. m : q[i] \in S /\ Cardinality(Under(R, S, q[i])) = i - 1
    <2> SUFFICES ASSUME NEW i \in 1 .. m
                 PROVE  q[i] \in S /\ Cardinality(Under(R, S, q[i])) = i - 1
      OBVIOUS
    <2>1. i \in 1 .. Cardinality(S) /\ i \in 1 .. Min({n, Cardinality(S)})
      BY <1>1
    <2>2. \E x \in S : Cardinality(Under(R, S, x)) = i - 1
      BY <2>1, Ranks
    <2> QED
      BY <2>1, <2>2
  <1>3. q \in Seq(S) /\ Len(q) = m
    <2>1. q = [i \in 1 .. m |-> q[i]] /\ m \in Nat
      BY <1>1
    <2>2. \A i \in 1 .. m : q[i] \in S
      BY <1>2
    <2>3. q \in [1 .. m -> S]
      BY <2>1, <2>2
    <2> QED
      BY <2>1, <2>3, FunIsSeq
  <1>4. ASSUME NEW i \in 1 .. m, NEW x \in S, Cardinality(Under(R, S, x)) > i - 1
        PROVE  <<q[i], x>> \in R
    <2>1. /\ q[i] \in S /\ Cardinality(Under(R, S, q[i])) = i - 1
          /\ Cardinality(Under(R, S, x)) \in Nat
      BY <1>2, Ranks
    <2>2. i \in Int
      BY <1>10
    <2>4. ~(Cardinality(Under(R, S, x)) < i - 1) /\ Cardinality(Under(R, S, x)) # i - 1
      BY <1>4, <2>1, <2>2
    <2>5. ~(<<x, q[i]>> \in R)
      <3>1. <<x, q[i]>> \in R => Cardinality(Under(R, S, x)) < Cardinality(Under(R, S, q[i]))
        BY <2>1, Ranks
      <3> QED
        BY <2>1, <2>4, <3>1
    <2>3. q[i] # x /\ ~(<<x, q[i]>> \in R)
      BY <2>1, <2>4, <2>5
    <2> QED
      BY <2>1, <2>3 DEF Orders
  <1>5. ASSUME NEW i \in 1 .. m, NEW j \in 1 .. m, i < j PROVE <<q[i], q[j]>> \in R
    <2>1. q[j] \in S /\ Cardinality(Under(R, S, q[j])) = j - 1 /\ i \in Int /\ j \in Int
      BY <1>10, <1>2
    <2>2. j - 1 > i - 1
      BY <1>5, <2>1
    <2> QED
      BY <1>4, <2>1, <2>2
  <1>6. ASSUME NEW x \in S, NEW i \in 1 .. m, Cardinality(Under(R, S, x)) = i - 1
        PROVE  q[i] = x
    <2>1. q[i] \in S /\ Cardinality(Under(R, S, q[i])) = i - 1 /\ i \in Int
      BY <1>10, <1>2
    <2>2. ~(<<x, q[i]>> \in R) /\ ~(<<q[i], x>> \in R)
      <3>1. /\ <<x, q[i]>> \in R => Cardinality(Under(R, S, x)) < Cardinality(Under(R, S, q[i]))
            /\ <<q[i], x>> \in R => Cardinality(Under(R, S, q[i])) < Cardinality(Under(R, S, x))
        BY <2>1, Ranks
      <3> QED
        BY <1>6, <2>1, <3>1
    <2> QED
      BY <2>1, <2>2 DEF Orders
  <1>7. ASSUME NEW x \in S
        PROVE  \/ \E i \in 1 .. m : q[i] = x
               \/ \A i \in 1 .. m : <<q[i], x>> \in R
    <2> DEFINE r == Cardinality(Under(R, S, x))
    <2>1. r \in Nat
      BY Ranks
    <2>2. CASE r < m
      <3>1. r + 1 \in 1 .. m /\ r = (r + 1) - 1
        BY <1>1, <2>1, <2>2
      <3> QED
        BY <1>6, <3>1
    <2>3. CASE m <= r
      <3>1. \A i \in 1 .. m : r > i - 1
        BY <1>1, <2>1, <2>3
      <3> QED
        BY <1>4, <3>1
    <2>4. r < m \/ m <= r
      BY <1>1, <2>1
    <2> QED
      BY <2>2, <2>3, <2>4
  <1>8. ASSUME m = c, NEW x \in S PROVE \E i \in 1 .. m : q[i] = x
    <2> DEFINE r == Cardinality(Under(R, S, x))
    <2>1. r \in Nat /\ r <= c /\ r # c
      <3>1. Under(R, S, x) \in SUBSET S /\ x \notin Under(R, S, x)
        BY DEF Under, Orders
      <3>2. Under(R, S, x) # S
        BY <3>1
      <3> QED
        BY <3>1, <3>2, FS_Subset, FS_CardinalityType
    <2>3. m = c
      BY <1>8
    <2>2. r + 1 \in 1 .. m /\ r = (r + 1) - 1
      <3> HIDE DEF r, c
      <3> QED
        BY <1>1, <2>1, <2>3
    <2> QED
      BY <1>6, <2>2
  <1> QED
    BY <1>3, <1>5, <1>7, <1>8, <1>9 DEF Leads
LEMMA Asymmetric ==
  ASSUME NEW s \in Text, NEW t \in Text, Before(s, t) PROVE ~Before(t, s) /\ s # t
  BY Irreflexive, Transitive
LEMMA LeadsAll ==
  ASSUME NEW q, NEW n, NEW S, \E R : Leads(q, n, R, S), Len(q) = Cardinality(S)
  PROVE  \A x \in S : \E i \in 1 .. Len(q) : q[i] = x
  BY DEF Leads

\* The keys a query of ListObjectsMeta returns.
LEMMA FirstKeys ==
  ASSUME NEW S, IsFiniteSet(S), S \subseteq Text, NEW n \in Nat,
         NEW q, q = FirstOf(S, n, Before)
  PROVE  /\ q \in Seq(S) /\ Len(q) = (IF n <= Cardinality(S) THEN n ELSE Cardinality(S))
         /\ \E R : Leads(q, n, R, S)
         /\ \A i, j \in 1 .. Len(q) : i < j => Before(q[i], q[j])
         /\ \A x \in S : \/ \E i \in 1 .. Len(q) : q[i] = x
                         \/ \A i \in 1 .. Len(q) : Before(q[i], x)
  <1> DEFINE R == {p \in S \X S : Before(p[1], p[2])}
             m == Min({n, Cardinality(S)})
  <1>1. ASSUME NEW x \in S, NEW y \in S PROVE <<x, y>> \in R <=> Before(x, y)
    OBVIOUS
  <1>2. ASSUME NEW x \in S PROVE Under(R, S, x) = {y \in S : Before(y, x)}
    BY <1>1 DEF Under
  <1>0. q = [i \in 1 .. m |-> CHOOSE x \in S : Cardinality({y \in S : Before(y, x)}) = i - 1]
    BY DEF FirstOf
  <1> HIDE DEF R, m
  <1>3. Orders(R, S)
    <2>1. \A x \in S : <<x, x>> \notin R
      BY <1>1, Irreflexive
    <2>2. \A x, y \in S : <<x, y>> \in R \/ <<y, x>> \in R \/ x = y
      BY <1>1, Total
    <2>3. \A x, y, z \in S : <<x, y>> \in R /\ <<y, z>> \in R => <<x, z>> \in R
      BY <1>1, Transitive
    <2> QED
      BY <2>1, <2>2, <2>3 DEF Orders
  <1>4. ASSUME NEW i \in 1 .. m, \E x \in S : Cardinality(Under(R, S, x)) = i - 1
        PROVE  q[i] \in S /\ Cardinality(Under(R, S, q[i])) = i - 1
    <2>1. \E x \in S : Cardinality({y \in S : Before(y, x)}) = i - 1
      BY <1>2, <1>4
    <2>2. q[i] = CHOOSE x \in S : Cardinality({y \in S : Before(y, x)}) = i - 1
      BY <1>0
    <2>3. q[i] \in S /\ Cardinality({y \in S : Before(y, q[i])}) = i - 1
      BY <2>1, <2>2
    <2> QED
      BY <1>2, <2>3
  <1>5. q = [i \in 1 .. m |-> q[i]]
    BY <1>0
  <1>6. Leads(q, n, R, S)
    BY <1>3, <1>4, <1>5, Leading DEF m
  <1>7. q \in Seq(S) /\ \A i \in 1 .. Len(q) : q[i] \in S
    BY <1>6, SeqType DEF Leads
  <1>8. /\ Len(q) = (IF n <= Cardinality(S) THEN n ELSE Cardinality(S))
        /\ \A i, j \in 1 .. Len(q) : i < j => <<q[i], q[j]>> \in R
        /\ \A x \in S : (\E i \in 1 .. Len(q) : q[i] = x) \/ (\A i \in 1 .. Len(q) : <<q[i], x>> \in R)
    BY <1>6 DEF Leads
  <1> QED
    BY <1>1, <1>6, <1>7, <1>8
LEMMA PrefixMeans ==
  ASSUME NEW p \in Text, NEW k \in Text
  PROVE  IsPrefix(p, k) <=> Len(p) <= Len(k) /\ \A j \in 1 .. Len(p) : p[j] = k[j]
  <1>1. Len(p) \in Nat /\ Len(k) \in Nat
    BY TextType
  <1>2. Len(p) <= Len(k) => (SubSeq(p, 1, Len(p)) = SubSeq(k, 1, Len(p)) <=> \A j \in 1 .. Len(p) : p[j] = k[j])
    BY <1>1, SameStart
  <1> QED
    BY <1>2 DEF IsPrefix
LEMMA ConcatIs ==
  ASSUME NEW A, NEW s \in Seq(A), NEW t \in Seq(A)
  PROVE  /\ s \o t \in Seq(A) /\ Len(s \o t) = Len(s) + Len(t)
         /\ \A i \in 1 .. Len(s) : (s \o t)[i] = s[i]
         /\ \A i \in (Len(s) + 1) .. (Len(s) + Len(t)) : (s \o t)[i] = t[i - Len(s)]
         /\ \A i \in 1 .. Len(t) : (s \o t)[Len(s) + i] = t[i]
  <1>1. /\ s \o t \in Seq(A) /\ Len(s \o t) = Len(s) + Len(t)
        /\ \A i \in 1 .. Len(s) : (s \o t)[i] = s[i]
        /\ \A i \in (Len(s) + 1) .. (Len(s) + Len(t)) : (s \o t)[i] = t[i - Len(s)]
    OBVIOUS
  <1>2. Len(s) \in Nat /\ Len(t) \in Nat
    OBVIOUS
  <1>3. ASSUME NEW i \in 1 .. Len(t) PROVE (s \o t)[Len(s) + i] = t[i]
    <2>1. Len(s) + i \in (Len(s) + 1) .. (Len(s) + Len(t)) /\ Len(s) + i - Len(s) = i
      BY <1>2
    <2> QED
      BY <1>1, <2>1
  <1> QED
    BY <1>1, <1>3

LEMMA ConcatAssoc ==
  ASSUME NEW A, NEW s \in Seq(A), NEW t \in Seq(A), NEW u \in Seq(A)
  PROVE  s \o (t \o u) = (s \o t) \o u
  <1>1. /\ s \o t \in Seq(A) /\ t \o u \in Seq(A) /\ s \o (t \o u) \in Seq(A) /\ (s \o t) \o u \in Seq(A)
        /\ Len(s \o t) = Len(s) + Len(t) /\ Len(t \o u) = Len(t) + Len(u)
        /\ Len(s \o (t \o u)) = Len(s) + Len(t \o u) /\ Len((s \o t) \o u) = Len(s \o t) + Len(u)
        /\ Len(s) \in Nat /\ Len(t) \in Nat /\ Len(u) \in Nat
    BY ConcatIs
  <1> DEFINE x == s \o (t \o u)
             y == (s \o t) \o u
             n == Len(s) + Len(t) + Len(u)
  <1>2. x \in Seq(A) /\ y \in Seq(A) /\ Len(x) = n /\ Len(y) = n /\ n \in Nat
    BY <1>1
  <1>3. ASSUME NEW i \in 1 .. n PROVE x[i] = y[i]
    <2>1. CASE i <= Len(s)
      <3>1. i \in 1 .. Len(s) /\ i \in 1 .. Len(s \o t)
        BY <1>1, <2>1
      <3>2. x[i] = s[i] /\ y[i] = (s \o t)[i] /\ (s \o t)[i] = s[i]
        BY <1>1, <3>1, ConcatIs
      <3> QED
        BY <3>2
    <2>2. CASE Len(s) < i /\ i <= Len(s) + Len(t)
      <3> DEFINE j == i - Len(s)
      <3>1. j \in 1 .. Len(t) /\ j \in 1 .. Len(t \o u) /\ i \in 1 .. Len(s \o t) /\ i = Len(s) + j
        BY <1>1, <2>2
      <3> HIDE DEF j
      <3>2. x[i] = (t \o u)[j] /\ (t \o u)[j] = t[j] /\ y[i] = (s \o t)[i] /\ (s \o t)[i] = t[j]
        BY <1>1, <3>1, ConcatIs
      <3> QED
        BY <3>2
    <2>3. CASE Len(s) + Len(t) < i
      <3> DEFINE j == i - Len(s) - Len(t)
      <3>1. j \in 1 .. Len(u) /\ Len(t) + j \in 1 .. Len(t \o u) /\ i = Len(s) + (Len(t) + j) /\ i = Len(s \o t) + j
        BY <1>1, <2>3
      <3> HIDE DEF j
      <3>2. x[i] = (t \o u)[Len(t) + j] /\ (t \o u)[Len(t) + j] = u[j] /\ y[i] = u[j]
        BY <1>1, <3>1, ConcatIs
      <3> QED
        BY <3>2
    <2> QED
      BY <1>1, <2>1, <2>2, <2>3
  <1>4. x = [i \in 1 .. n |-> x[i]] /\ y = [i \in 1 .. n |-> y[i]]
    <2> HIDE DEF x, y, n
    <2> QED
      BY <1>2
  <1> QED
    BY <1>3, <1>4

\* The last of a concatenation.
LEMMA LastIs ==
  ASSUME NEW A, NEW s \in Seq(A), NEW t \in Seq(A)
  PROVE  /\ t # <<>> => s \o t # <<>> /\ Last(s \o t) = Last(t) /\ Last(t) = t[Len(t)] /\ Len(t) \in 1 .. Len(t)
         /\ s # <<>> => Last(s) = s[Len(s)] /\ Len(s) \in 1 .. Len(s) /\ s \o t # <<>>
         /\ t = <<>> => s \o t = s
         /\ s = <<>> => s \o t = t
  <1>1. Len(s) \in Nat /\ Len(t) \in Nat /\ Len(s \o t) = Len(s) + Len(t)
    OBVIOUS
  <1>2. ASSUME t # <<>>
        PROVE  s \o t # <<>> /\ Last(s \o t) = Last(t) /\ Last(t) = t[Len(t)] /\ Len(t) \in 1 .. Len(t)
    <2>1. Len(t) # 0
      BY <1>2
    <2>2. Len(t) \in 1 .. Len(t) /\ Len(s \o t) # 0
      BY <1>1, <2>1
    <2>3. (s \o t)[Len(s) + Len(t)] = t[Len(t)]
      BY <2>2, ConcatIs
    <2>4. s \o t # <<>>
      BY <2>2
    <2> QED
      BY <1>1, <2>2, <2>3, <2>4 DEF Last
  <1>3. ASSUME s # <<>> PROVE Last(s) = s[Len(s)] /\ Len(s) \in 1 .. Len(s) /\ s \o t # <<>>
    <2>1. Len(s) # 0
      BY <1>3
    <2>2. Len(s) \in 1 .. Len(s) /\ Len(s \o t) # 0
      BY <1>1, <2>1
    <2>3. s \o t # <<>>
      BY <2>2
    <2> QED
      BY <2>2, <2>3 DEF Last
  <1>4. (t = <<>> => s \o t = s) /\ (s = <<>> => s \o t = t)
    OBVIOUS
  <1> QED
    BY <1>2, <1>3, <1>4
LEMMA ImageIsFinite ==
  ASSUME NEW n \in Nat, NEW f, f = [i \in 1 .. n |-> f[i]] PROVE IsFiniteSet({f[i] : i \in 1 .. n})
  <1> DEFINE T == {f[i] : i \in 1 .. n}
  <1>1. IsFiniteSet(1 .. n)
    BY FS_Interval
  <1>2. f \in Surjection(1 .. n, T)
    BY DEF Surjection
  <1> HIDE DEF T
  <1>3. IsFiniteSet(T)
    BY <1>1, <1>2, FS_Surjection
  <1> QED
    BY <1>3 DEF T

LEMMA WiderSeq ==
  ASSUME NEW A, NEW B, A \subseteq B, NEW s \in Seq(A)
  PROVE  s \in Seq(B)
  <1>1. Len(s) \in Nat /\ s \in [1 .. Len(s) -> A]
    OBVIOUS
  <1>2. s \in [1 .. Len(s) -> B]
    BY <1>1
  <1> QED
    BY <1>1, <1>2, FunIsSeq

-----------------------------------------------------------------------------
(* Listings. *)

\* Keys and prefixes are words over the characters.
Word == Seq(1 .. Top)

LEMMA WordIsText == Word \subseteq Text
  <1>1. 1 .. Top \subseteq Nat
    BY CharAssumption
  <1>2. ASSUME NEW s \in Word PROVE s \in Text
    BY <1>1, WiderSeq DEF Word, Text
  <1> QED
    BY <1>2

LEMMA WordType ==
  ASSUME NEW s \in Word
  PROVE  Len(s) \in Nat /\ DOMAIN s = 1 .. Len(s) /\ \A i \in 1 .. Len(s) : s[i] \in Int /\ s[i] \in 1 .. Top
  <1>1. s \in Seq(1 .. Top)
    BY DEF Word
  <1>2. Len(s) \in Nat /\ DOMAIN s = 1 .. Len(s) /\ \A i \in 1 .. Len(s) : s[i] \in 1 .. Top
    BY <1>1, SeqType
  <1>3. 1 .. Top \subseteq Int
    BY CharAssumption
  <1> QED
    BY <1>2, <1>3

-----------------------------------------------------------------------------
(* Prefixes and their upper bounds. *)

\* The first i characters of a word.
LEMMA Beginning ==
  ASSUME NEW s \in Word, NEW i \in Nat, i <= Len(s)
  PROVE  /\ SubSeq(s, 1, i) \in Word /\ Len(SubSeq(s, 1, i)) = i
         /\ \A j \in 1 .. i : SubSeq(s, 1, i)[j] = s[j]
  <1>1. SubSeq(s, 1, i) = [j \in 1 .. i |-> s[j]]
    BY WordType
  <1>2. \A j \in 1 .. i : s[j] \in 1 .. Top
    BY WordType
  <1>3. [j \in 1 .. i |-> s[j]] \in [1 .. i -> 1 .. Top]
    BY <1>2
  <1>4. [j \in 1 .. i |-> s[j]] \in Seq(1 .. Top) /\ Len([j \in 1 .. i |-> s[j]]) = i
    BY <1>3, FunIsSeq
  <1> QED
    BY <1>1, <1>4 DEF Word

\* The bound of a prefix: its last character that has a successor is replaced by it.
LEMMA BoundIs ==
  ASSUME NEW p \in Word
  PROVE  \/ PrefixUpperBound(p) = Nothing /\ \A i \in 1 .. Len(p) : p[i] = Top
         \/ \E m \in 1 .. Len(p) :
              /\ p[m] < Top /\ \A i \in (m + 1) .. Len(p) : p[i] = Top
              /\ PrefixUpperBound(p) \in Word /\ Len(PrefixUpperBound(p)) = m
              /\ PrefixUpperBound(p)[m] = p[m] + 1
              /\ \A i \in 1 .. (m - 1) : PrefixUpperBound(p)[i] = p[i]
  <1> DEFINE low == {i \in DOMAIN p : p[i] < Top}
  <1>1. Len(p) \in Nat /\ DOMAIN p = 1 .. Len(p) /\ \A i \in 1 .. Len(p) : p[i] \in Int /\ p[i] \in 1 .. Top
    BY WordType
  <1>0. Top \in Nat
    BY CharAssumption
  <1>2. \A i \in 1 .. Len(p) : p[i] <= Top
    BY <1>0, <1>1
  <1>3. CASE low = {}
    <2>1. PrefixUpperBound(p) = Nothing
      BY <1>3 DEF PrefixUpperBound
    <2>2. ASSUME NEW i \in 1 .. Len(p) PROVE p[i] = Top
      <3>1. ~(p[i] < Top) /\ p[i] \in Int /\ p[i] <= Top
        BY <1>1, <1>2, <1>3
      <3> QED
        BY <1>0, <3>1
    <2> QED
      BY <2>1, <2>2
  <1>4. CASE low # {}
    <2> DEFINE m == Max(low)
               b == SubSeq(p, 1, m - 1) \o <<p[m] + 1>>
    <2>1. low \subseteq Nat /\ \A i \in low : i <= Len(p)
      BY <1>1
    <2>2. m \in low /\ \A i \in low : i <= m
      <3> HIDE DEF low
      <3> QED
        BY <1>1, <1>4, <2>1, MaxIs
    <2>3. m \in 1 .. Len(p) /\ p[m] < Top /\ m \in Nat /\ m - 1 \in Nat /\ m - 1 <= Len(p)
      <3>1. m \in 1 .. Len(p) /\ p[m] < Top
        BY <1>1, <2>2
      <3> HIDE DEF m
      <3> QED
        BY <1>1, <3>1
    <2>4. PrefixUpperBound(p) = b
      BY <1>4 DEF PrefixUpperBound
    <2> HIDE DEF m
    <2>5. ASSUME NEW i \in (m + 1) .. Len(p) PROVE p[i] = Top
      <3>1. i \in 1 .. Len(p) /\ ~(i <= m)
        BY <1>1, <2>3
      <3>2. i \notin low
        BY <2>2, <3>1
      <3>3. ~(p[i] < Top) /\ p[i] \in Int /\ p[i] <= Top
        BY <1>1, <1>2, <3>1, <3>2
      <3> QED
        BY <1>0, <3>3
    <2> DEFINE a == SubSeq(p, 1, m - 1)
    <2>6. a \in Word /\ Len(a) = m - 1 /\ \A j \in 1 .. (m - 1) : a[j] = p[j]
      BY <2>3, Beginning
    <2>7. p[m] + 1 \in 1 .. Top
      <3>1. p[m] \in Int /\ p[m] \in 1 .. Top /\ p[m] < Top
        BY <1>1, <2>3
      <3> QED
        BY <1>0, <3>1
    <2>8. b \in Word /\ Len(b) = m /\ b[m] = p[m] + 1 /\ \A i \in 1 .. (m - 1) : b[i] = p[i]
      <3> DEFINE c == p[m] + 1
      <3>1. c \in 1 .. Top /\ a \in Seq(1 .. Top) /\ Len(a) = m - 1 /\ m \in Nat
        BY <2>3, <2>6, <2>7 DEF Word
      <3> HIDE DEF a, c
      <3>2. a \o <<c>> \in Seq(1 .. Top) /\ Len(a \o <<c>>) = Len(a) + 1
        BY <3>1
      <3>3. (a \o <<c>>)[Len(a) + 1] = c /\ \A i \in 1 .. Len(a) : (a \o <<c>>)[i] = a[i]
        BY <3>1
      <3>4. Len(a) + 1 = m
        BY <3>1
      <3>5. /\ a \o <<c>> \in Word /\ Len(a \o <<c>>) = m /\ (a \o <<c>>)[m] = c
            /\ \A i \in 1 .. (m - 1) : (a \o <<c>>)[i] = p[i]
        BY <2>6, <3>1, <3>2, <3>3, <3>4 DEF Word
      <3> QED
        BY <3>5 DEF a, c
    <2> QED
      BY <2>3, <2>4, <2>5, <2>8
  <1> QED
    BY <1>3, <1>4

\* The key range a listing queries for a prefix (db/metadata.go listBatch, with the bound of
\* prefixUpperBound, which gives up on a prefix of nothing but 0xFF) holds the keys that
\* start with the prefix, and no others.
THEOREM PrefixRangeIsExact ==
  ASSUME NEW p \in Word, NEW k \in Word
  PROVE  InPrefix(p, k) <=> IsPrefix(p, k)
  <1> DEFINE b == PrefixUpperBound(p)
  <1>0. Top \in Nat
    BY CharAssumption
  <1>1. /\ Len(p) \in Nat /\ \A i \in 1 .. Len(p) : p[i] \in Int /\ p[i] <= Top
        /\ Len(k) \in Nat /\ \A i \in 1 .. Len(k) : k[i] \in Int /\ k[i] <= Top
    <2>1. /\ Len(p) \in Nat /\ \A i \in 1 .. Len(p) : p[i] \in Int /\ p[i] \in 1 .. Top
          /\ Len(k) \in Nat /\ \A i \in 1 .. Len(k) : k[i] \in Int /\ k[i] \in 1 .. Top
      BY WordType
    <2> QED
      BY <1>0, <2>1
  <1>2. ASSUME IsPrefix(p, k) PROVE InPrefix(p, k)
    <2>1. Len(p) <= Len(k) /\ \A j \in 1 .. Len(p) : p[j] = k[j]
      BY <1>2, PrefixMeans, WordIsText
    <2>2. k = p \/ Before(p, k)
      <3>1. CASE Len(p) = Len(k)
        <4>1. SubSeq(p, 1, Len(p)) = p /\ SubSeq(k, 1, Len(k)) = k
          BY DEF Word
        <4>2. SubSeq(p, 1, Len(p)) = SubSeq(k, 1, Len(p))
          BY <1>2 DEF IsPrefix
        <4> QED
          BY <3>1, <4>1, <4>2
      <3>2. CASE Len(p) < Len(k)
        <4>1. /\ Len(p) + 1 \in 1 .. Len(k) /\ Len(p) + 1 <= Len(p) + 1
              /\ \A j \in 1 .. (Len(p) + 1 - 1) : p[j] = k[j]
              /\ ~(Len(p) + 1 <= Len(p))
          BY <1>1, <2>1, <3>2
        <4> QED
          BY <4>1, BeforeMeans, WordIsText
      <3> QED
        BY <1>1, <2>1, <3>1, <3>2
    <2>3. ASSUME b # Nothing PROVE Before(k, b)
      <3>1. PICK m \in 1 .. Len(p) :
              /\ p[m] < Top /\ b \in Word /\ Len(b) = m /\ b[m] = p[m] + 1
              /\ \A i \in 1 .. (m - 1) : b[i] = p[i]
        BY <2>3, BoundIs
      <3> HIDE DEF b
      <3>2. m \in 1 .. Len(b) /\ m <= Len(k) + 1 /\ m \in 1 .. Len(p)
        BY <1>1, <2>1, <3>1
      <3>3. \A j \in 1 .. (m - 1) : k[j] = b[j]
        BY <1>1, <2>1, <3>1
      <3>4. k[m] < b[m]
        <4>1. k[m] = p[m] /\ p[m] \in Int
          BY <1>1, <2>1, <3>2
        <4> QED
          BY <3>1, <4>1
      <3> QED
        BY <3>1, <3>2, <3>3, <3>4, BeforeMeans, WordIsText
    <2> QED
      BY <2>2, <2>3 DEF InPrefix
  <1>3. ASSUME InPrefix(p, k) PROVE IsPrefix(p, k)
    <2>1. CASE k = p
      BY <1>1, <2>1, PrefixMeans, WordIsText
    <2>2. CASE Before(p, k)
      <3>1. PICK i \in 1 .. Len(k) : /\ i <= Len(p) + 1
                                     /\ \A j \in 1 .. (i - 1) : p[j] = k[j]
                                     /\ i <= Len(p) => p[i] < k[i]
        BY <2>2, BeforeMeans, WordIsText
      <3>2. CASE i = Len(p) + 1
        <4>1. Len(p) <= Len(k) /\ \A j \in 1 .. Len(p) : p[j] = k[j]
          BY <1>1, <3>1, <3>2
        <4> QED
          BY <4>1, PrefixMeans, WordIsText
      <3>3. CASE i <= Len(p)
        <4>1. p[i] < k[i] /\ k[i] <= Top /\ p[i] \in Int /\ k[i] \in Int /\ i \in 1 .. Len(p)
          BY <1>1, <3>1, <3>3
        <4>2. p[i] < Top
          BY <1>0, <4>1
        <4>3. p[i] # Top
          BY <1>0, <4>1, <4>2
        <4>4. PICK m \in 1 .. Len(p) :
                /\ \A l \in (m + 1) .. Len(p) : p[l] = Top
                /\ b \in Word /\ Len(b) = m /\ b[m] = p[m] + 1
                /\ \A l \in 1 .. (m - 1) : b[l] = p[l]
          BY <4>1, <4>3, BoundIs
        <4>5. i <= m
          BY <1>1, <4>1, <4>3, <4>4
        <4>6. b # Nothing
          <5>1. Len(b) # 0
            BY <1>1, <4>4
          <5> QED
            BY <5>1 DEF Nothing
        <4>7. Before(k, b)
          BY <1>3, <4>6 DEF InPrefix
        <4> HIDE DEF b
        <4>8. PICK j \in 1 .. Len(b) : /\ j <= Len(k) + 1
                                       /\ \A l \in 1 .. (j - 1) : k[l] = b[l]
                                       /\ j <= Len(k) => k[j] < b[j]
          BY <4>4, <4>7, BeforeMeans, WordIsText
        <4>9. i \in Nat /\ j \in Nat /\ m \in Nat /\ i <= Len(k) /\ m <= Len(p) /\ j <= m /\ 1 <= j /\ 1 <= i
          BY <1>1, <3>1, <4>4, <4>8
        <4>10. CASE j < i
          <5>1. j <= Len(k) /\ j \in 1 .. (i - 1) /\ j \in 1 .. (m - 1) /\ j \in 1 .. Len(k)
            BY <1>1, <4>5, <4>9, <4>10
          <5>2. k[j] < b[j] /\ p[j] = k[j] /\ b[j] = p[j] /\ k[j] \in Int
            BY <1>1, <3>1, <4>4, <4>8, <5>1
          <5> QED
            BY <5>2
        <4>11. CASE j = i
          <5>1. k[i] < b[i]
            BY <4>8, <4>9, <4>11
          <5>2. b[i] = p[i] \/ b[i] = p[i] + 1
            BY <4>4, <4>5, <4>9
          <5> QED
            BY <4>1, <5>1, <5>2
        <4>12. CASE i < j
          <5>1. i \in 1 .. (j - 1) /\ i \in 1 .. (m - 1)
            BY <4>9, <4>12
          <5>2. k[i] = b[i] /\ b[i] = p[i]
            BY <4>4, <4>8, <5>1
          <5> QED
            BY <4>1, <5>2
        <4> QED
          BY <4>9, <4>10, <4>11, <4>12
      <3> QED
        BY <1>1, <3>1, <3>2, <3>3
    <2> QED
      BY <1>3, <2>1, <2>2 DEF InPrefix
  <1> QED
    BY <1>2, <1>3

-----------------------------------------------------------------------------
(* What a key is shown as. *)

LEMMA SameWord ==
  ASSUME NEW s \in Word, NEW t \in Word, Len(s) = Len(t), \A i \in 1 .. Len(s) : s[i] = t[i]
  PROVE  s = t
  <1>1. Len(s) \in Nat
    BY WordType
  <1>2. s = [i \in 1 .. Len(s) |-> s[i]] /\ t = [i \in 1 .. Len(s) |-> t[i]]
    BY <1>1 DEF Word
  <1> QED
    BY <1>2

LEMMA CommonPrefixIs ==
  ASSUME NEW p \in Word, NEW k \in Word
  PROVE  \/ CommonPrefix(p, k) = Nothing /\ \A i \in (Len(p) + 1) .. Len(k) : k[i] # Delim
         \/ \E c \in (Len(p) + 1) .. Len(k) :
              /\ k[c] = Delim /\ \A i \in (Len(p) + 1) .. (c - 1) : k[i] # Delim
              /\ CommonPrefix(p, k) \in Word /\ CommonPrefix(p, k) # Nothing
              /\ Len(CommonPrefix(p, k)) = c
              /\ \A i \in 1 .. c : CommonPrefix(p, k)[i] = k[i]
  <1> DEFINE ends == {i \in (Len(p) + 1) .. Len(k) : k[i] = Delim}
  <1>1. Len(p) \in Nat /\ Len(k) \in Nat
    BY WordType
  <1>2. CASE ends = {}
    BY <1>2 DEF CommonPrefix
  <1>3. CASE ends # {}
    <2> DEFINE c == Min(ends)
    <2>1. ends \subseteq Nat
      BY <1>1
    <2>2. c \in ends /\ \A i \in ends : c <= i
      <3> HIDE DEF ends
      <3> QED
        BY <1>3, <2>1, MinIs
    <2>3. CommonPrefix(p, k) = SubSeq(k, 1, c)
      BY <1>3 DEF CommonPrefix
    <2>4. c \in (Len(p) + 1) .. Len(k) /\ k[c] = Delim
      BY <2>2
    <2> HIDE DEF c
    <2>5. ASSUME NEW i \in (Len(p) + 1) .. (c - 1) PROVE k[i] # Delim
      <3>1. i \in (Len(p) + 1) .. Len(k) /\ ~(c <= i)
        BY <1>1, <2>4
      <3> QED
        BY <2>2, <3>1
    <2>6. c \in Nat /\ c <= Len(k) /\ c # 0
      BY <1>1, <2>4
    <2>7. /\ SubSeq(k, 1, c) \in Word /\ Len(SubSeq(k, 1, c)) = c
          /\ \A j \in 1 .. c : SubSeq(k, 1, c)[j] = k[j]
      BY <2>6, Beginning
    <2>8. SubSeq(k, 1, c) # Nothing
      BY <2>6, <2>7 DEF Nothing
    <2> QED
      BY <2>3, <2>4, <2>5, <2>7, <2>8
  <1> QED
    BY <1>2, <1>3

\* What listing a may ask for, as far as the keys of a page depend on it.
Question(a) == a.prefix \in Word /\ a.delimited \in BOOLEAN

\* The entry k is shown as is the first c characters of k.
CutAt(a, k, c) ==
  LET e == Shown(a, k)
  IN /\ c \in Nat /\ c <= Len(k)
     /\ e = Entry(e.key, e.rolled, 0) /\ e.rolled \in BOOLEAN
     /\ e.key \in Word /\ Len(e.key) = c /\ \A i \in 1 .. c : e.key[i] = k[i]
     /\ e.rolled => /\ a.delimited /\ Len(a.prefix) < c /\ k[c] = Delim
                    /\ \A i \in (Len(a.prefix) + 1) .. (c - 1) : k[i] # Delim
     /\ ~e.rolled => /\ e.key = k /\ c = Len(k)
                     /\ a.delimited => \A i \in (Len(a.prefix) + 1) .. Len(k) : k[i] # Delim

LEMMA ShownIs ==
  ASSUME NEW a, Question(a), NEW k \in Word PROVE \E c \in Nat : CutAt(a, k, c)
  <1>1. Len(a.prefix) \in Nat /\ Len(k) \in Nat
    BY WordType DEF Question
  <1>2. CASE a.delimited /\ CommonPrefix(a.prefix, k) # Nothing
    <2> DEFINE cp == CommonPrefix(a.prefix, k)
    <2>1. Shown(a, k) = Entry(cp, TRUE, 0)
      BY <1>2 DEF Shown
    <2>2. PICK c \in (Len(a.prefix) + 1) .. Len(k) :
              /\ k[c] = Delim /\ \A i \in (Len(a.prefix) + 1) .. (c - 1) : k[i] # Delim
              /\ cp \in Word /\ Len(cp) = c /\ \A i \in 1 .. c : cp[i] = k[i]
      BY <1>2, CommonPrefixIs DEF Question
    <2> HIDE DEF cp
    <2>3. c \in Nat /\ c <= Len(k) /\ Len(a.prefix) < c
      BY <1>1, <2>2
    <2>4. Shown(a, k).key = cp /\ Shown(a, k).rolled = TRUE
      BY <2>1 DEF Entry
    <2> QED
      BY <1>2, <2>1, <2>2, <2>3, <2>4 DEF CutAt
  <1>3. CASE ~(a.delimited /\ CommonPrefix(a.prefix, k) # Nothing)
    <2>1. Shown(a, k) = Entry(k, FALSE, 0)
      BY <1>3 DEF Shown, Question
    <2>2. Shown(a, k).key = k /\ Shown(a, k).rolled = FALSE
      BY <2>1 DEF Entry
    <2>3. a.delimited => \A i \in (Len(a.prefix) + 1) .. Len(k) : k[i] # Delim
      BY <1>3, CommonPrefixIs DEF Question
    <2>4. CutAt(a, k, Len(k))
      <3> DEFINE e == Shown(a, k)
      <3>1. e = Entry(e.key, e.rolled, 0) /\ e.rolled = FALSE /\ e.key = k
        BY <2>1, <2>2
      <3>3. Len(k) \in Nat /\ Len(k) <= Len(k)
        BY <1>1
      <3> HIDE DEF e
      <3>2. \A i \in 1 .. Len(k) : e.key[i] = k[i]
        BY <3>1
      <3> QED
        BY <2>3, <3>1, <3>2, <3>3 DEF CutAt, e
    <2> QED
      BY <1>1, <2>4
  <1> QED
    BY <1>2, <1>3

LEMMA ShownType ==
  ASSUME NEW a, Question(a), NEW k \in Word
  PROVE  /\ Shown(a, k).key \in Word /\ Shown(a, k).rolled \in BOOLEAN /\ Shown(a, k).id = 0
         /\ Shown(a, k) = Entry(Shown(a, k).key, Shown(a, k).rolled, 0)
         /\ ~Shown(a, k).rolled => Shown(a, k).key = k
  <1>1. PICK c \in Nat : CutAt(a, k, c)
    BY ShownIs
  <1>2. /\ Shown(a, k).key \in Word /\ Shown(a, k).rolled \in BOOLEAN
        /\ Shown(a, k) = Entry(Shown(a, k).key, Shown(a, k).rolled, 0)
        /\ ~Shown(a, k).rolled => Shown(a, k).key = k
    BY <1>1 DEF CutAt
  <1>3. Shown(a, k).id = 0
    BY <1>2 DEF Entry
  <1> QED
    BY <1>2, <1>3

\* Keys are shown in their order.
LEMMA ShownInOrder ==
  ASSUME NEW a, Question(a), NEW k \in Word, NEW l \in Word, Before(k, l)
  PROVE  Shown(a, k) = Shown(a, l) \/ Before(Shown(a, k).key, Shown(a, l).key)
  <1>1. PICK c \in Nat : CutAt(a, k, c)
    BY ShownIs
  <1>2. PICK d \in Nat : CutAt(a, l, d)
    BY ShownIs
  <1> DEFINE x == Shown(a, k)
             y == Shown(a, l)
             n == Len(a.prefix)
  <1>3. n \in Nat /\ Len(k) \in Nat /\ Len(l) \in Nat
    BY WordType DEF Question
  <1>4. PICK i \in 1 .. Len(l) : /\ i <= Len(k) + 1
                                 /\ \A j \in 1 .. (i - 1) : k[j] = l[j]
                                 /\ i <= Len(k) => k[i] < l[i]
    BY BeforeMeans, WordIsText
  <1>5. /\ c <= Len(k) /\ x = Entry(x.key, x.rolled, 0) /\ x.rolled \in BOOLEAN
        /\ x.key \in Word /\ Len(x.key) = c /\ \A j \in 1 .. c : x.key[j] = k[j]
        /\ x.rolled => /\ a.delimited /\ n < c /\ k[c] = Delim
                       /\ \A j \in (n + 1) .. (c - 1) : k[j] # Delim
        /\ ~x.rolled => /\ c = Len(k)
                        /\ a.delimited => \A j \in (n + 1) .. Len(k) : k[j] # Delim
    BY <1>1 DEF CutAt
  <1>6. /\ d <= Len(l) /\ y = Entry(y.key, y.rolled, 0) /\ y.rolled \in BOOLEAN
        /\ y.key \in Word /\ Len(y.key) = d /\ \A j \in 1 .. d : y.key[j] = l[j]
        /\ y.rolled => /\ a.delimited /\ n < d /\ l[d] = Delim
                       /\ \A j \in (n + 1) .. (d - 1) : l[j] # Delim
        /\ ~y.rolled => /\ d = Len(l)
                        /\ a.delimited => \A j \in (n + 1) .. Len(l) : l[j] # Delim
    BY <1>2 DEF CutAt
  <1> HIDE DEF x, y, n
  <1>7. CASE x.rolled /\ c < i
    <2>1. c \in 1 .. (i - 1) /\ c \in (n + 1) .. Len(l) /\ l[c] = Delim
      BY <1>3, <1>4, <1>5, <1>7
    <2>2. y.rolled
      BY <1>5, <1>6, <1>7, <2>1
    <2>3. d = c
      <3>1. CASE d < c
        <4>1. d \in (n + 1) .. (c - 1) /\ d \in 1 .. (i - 1)
          BY <1>3, <1>4, <1>6, <1>7, <2>2, <3>1
        <4> QED
          BY <1>4, <1>5, <1>6, <1>7, <2>2, <4>1
      <3>2. CASE c < d
        <4>1. c \in (n + 1) .. (d - 1)
          BY <1>3, <2>1, <3>2
        <4> QED
          BY <1>6, <2>1, <2>2, <4>1
      <3> QED
        BY <3>1, <3>2
    <2>4. \A j \in 1 .. c : x.key[j] = y.key[j]
      <3>1. \A j \in 1 .. c : j \in 1 .. (i - 1)
        BY <1>4, <1>7
      <3> QED
        BY <1>4, <1>5, <1>6, <2>3, <3>1
    <2>5. x.key = y.key
      BY <1>5, <1>6, <2>3, <2>4, SameWord
    <2>6. x = y
      BY <1>5, <1>6, <1>7, <2>2, <2>5
    <2> QED
      BY <2>6 DEF x, y
  <1>8. CASE ~(x.rolled /\ c < i)
    <2>1. ~(y.rolled /\ d < i)
      <3>1. SUFFICES ASSUME y.rolled, d < i PROVE FALSE
        OBVIOUS
      <3>2. d \in 1 .. (i - 1) /\ k[d] = Delim /\ a.delimited
        BY <1>3, <1>4, <1>6, <3>1
      <3>3. CASE x.rolled
        <4>1. d \in (n + 1) .. (c - 1)
          BY <1>3, <1>4, <1>5, <1>6, <1>8, <3>1, <3>3
        <4> QED
          BY <1>5, <3>2, <3>3, <4>1
      <3>4. CASE ~x.rolled
        <4>1. d \in (n + 1) .. Len(k)
          BY <1>3, <1>4, <1>6, <3>1
        <4> QED
          BY <1>5, <3>2, <3>4, <4>1
      <3> QED
        BY <3>3, <3>4
    <2>2. i <= d /\ i \in 1 .. d
      BY <1>3, <1>4, <1>6, <2>1
    <2>3. i <= c + 1 /\ (i <= c => i <= Len(k))
      BY <1>3, <1>4, <1>5, <1>8
    <2>4. \A j \in 1 .. (i - 1) : x.key[j] = y.key[j]
      <3>1. \A j \in 1 .. (i - 1) : j \in 1 .. c /\ j \in 1 .. d
        BY <1>4, <2>2, <2>3
      <3> QED
        BY <1>4, <1>5, <1>6, <3>1
    <2>5. i <= Len(x.key) => x.key[i] < y.key[i]
      <3>1. SUFFICES ASSUME i <= c PROVE x.key[i] < y.key[i]
        BY <1>5
      <3>2. i \in 1 .. c
        BY <1>4, <3>1
      <3> QED
        BY <1>4, <1>5, <1>6, <2>2, <2>3, <3>1, <3>2
    <2>6. i \in 1 .. Len(y.key) /\ i <= Len(x.key) + 1
      BY <1>5, <1>6, <2>2, <2>3
    <2>7. Before(x.key, y.key)
      BY <1>5, <1>6, <2>4, <2>5, <2>6, BeforeMeans, WordIsText
    <2> QED
      BY <2>7 DEF x, y
  <1> QED
    BY <1>7, <1>8

-----------------------------------------------------------------------------
(* Where the next query of a page starts. *)

\* A key is under the common prefix it is shown as, and shown as any it is under.
LEMMA ShownIsPrefix ==
  ASSUME NEW a, Question(a), NEW k \in Word PROVE IsPrefix(Shown(a, k).key, k)
  <1>1. PICK c \in Nat : CutAt(a, k, c)
    BY ShownIs
  <1>2. /\ c <= Len(k) /\ Shown(a, k).key \in Word /\ Len(Shown(a, k).key) = c
        /\ \A i \in 1 .. c : Shown(a, k).key[i] = k[i]
    BY <1>1 DEF CutAt
  <1> QED
    BY <1>2, PrefixMeans, WordIsText

LEMMA ShownUnder ==
  ASSUME NEW a, Question(a), NEW k \in Word, NEW l \in Word,
         Shown(a, k).rolled, IsPrefix(Shown(a, k).key, l)
  PROVE  Shown(a, l) = Shown(a, k)
  <1>1. PICK c \in Nat : CutAt(a, k, c)
    BY ShownIs
  <1>2. PICK d \in Nat : CutAt(a, l, d)
    BY ShownIs
  <1> DEFINE x == Shown(a, k)
             y == Shown(a, l)
             n == Len(a.prefix)
  <1>3. n \in Nat /\ Len(k) \in Nat /\ Len(l) \in Nat
    BY WordType DEF Question
  <1>4. /\ c <= Len(k) /\ x = Entry(x.key, x.rolled, 0) /\ x.rolled = TRUE
        /\ x.key \in Word /\ Len(x.key) = c /\ \A j \in 1 .. c : x.key[j] = k[j]
        /\ a.delimited /\ n < c /\ k[c] = Delim
        /\ \A j \in (n + 1) .. (c - 1) : k[j] # Delim
    BY <1>1 DEF CutAt
  <1>5. /\ d <= Len(l) /\ y = Entry(y.key, y.rolled, 0) /\ y.rolled \in BOOLEAN
        /\ y.key \in Word /\ Len(y.key) = d /\ \A j \in 1 .. d : y.key[j] = l[j]
        /\ y.rolled => /\ n < d /\ l[d] = Delim
                       /\ \A j \in (n + 1) .. (d - 1) : l[j] # Delim
        /\ ~y.rolled => \A j \in (n + 1) .. Len(l) : l[j] # Delim
    BY <1>2, <1>4 DEF CutAt
  <1>6. c <= Len(l) /\ \A j \in 1 .. c : x.key[j] = l[j]
    BY <1>4, PrefixMeans, WordIsText
  <1> HIDE DEF x, y, n
  <1>7. /\ \A j \in 1 .. c : l[j] = k[j]
        /\ l[c] = Delim /\ c \in (n + 1) .. Len(l)
        /\ \A j \in (n + 1) .. (c - 1) : l[j] # Delim
    <2>1. c \in 1 .. c /\ c \in (n + 1) .. Len(l) /\ \A j \in (n + 1) .. (c - 1) : j \in 1 .. c
      BY <1>3, <1>4, <1>6
    <2> QED
      BY <1>4, <1>6, <2>1
  <1>8. y.rolled = TRUE
    BY <1>5, <1>7
  <1>9. d = c
    <2>1. CASE d < c
      <3>1. d \in (n + 1) .. (c - 1)
        BY <1>3, <1>5, <1>8, <2>1
      <3> QED
        BY <1>5, <1>7, <1>8, <3>1
    <2>2. CASE c < d
      <3>1. c \in (n + 1) .. (d - 1)
        BY <1>3, <1>4, <2>2
      <3> QED
        BY <1>5, <1>7, <1>8, <3>1
    <2> QED
      BY <2>1, <2>2
  <1>10. x.key = y.key
    BY <1>4, <1>5, <1>6, <1>9, SameWord
  <1>11. x = y
    BY <1>4, <1>5, <1>8, <1>10
  <1> QED
    BY <1>11 DEF x, y

\* The bound of a listing's query.
Past(lower, inclusive, k) == lower = Nothing \/ Before(lower, k) \/ (inclusive /\ k = lower)

BoundAfter(e) == IF e.rolled THEN PrefixUpperBound(e.key) ELSE e.key

\* Behind the last entry is what is shown as a greater one.
LEMMA NextBound ==
  ASSUME NEW a, Question(a), NEW k \in Word, k # Nothing, NEW l \in Word
  PROVE  Past(BoundAfter(Shown(a, k)), Shown(a, k).rolled, l)
           <=> Before(Shown(a, k).key, Shown(a, l).key)
  <1> DEFINE x == Shown(a, k)
             y == Shown(a, l)
             b == BoundAfter(x)
  <1>1. /\ x.key \in Word /\ x.rolled \in BOOLEAN /\ (~x.rolled => x.key = k)
        /\ y.key \in Word /\ y.rolled \in BOOLEAN /\ (~y.rolled => y.key = l)
    BY ShownType
  <1>2. Before(k, l) => x = y \/ Before(x.key, y.key)
    BY ShownInOrder
  <1>3. Before(l, k) => x = y \/ Before(y.key, x.key)
    BY ShownInOrder
  <1>4. IsPrefix(x.key, k) /\ IsPrefix(y.key, l)
    BY ShownIsPrefix
  <1>5. x.rolled /\ IsPrefix(x.key, l) => x = y
    BY ShownUnder
  <1>6. ASSUME Before(x.key, y.key) PROVE Before(k, l) /\ x # y
    <2>1. x.key # y.key /\ ~Before(y.key, x.key)
      BY <1>1, <1>6, Asymmetric, WordIsText
    <2>2. ~Before(l, k) /\ k # l
      BY <1>3, <2>1
    <2> QED
      BY <2>1, <2>2, Total, WordIsText
  <1>7. CASE ~x.rolled
    <2>1. b = k
      BY <1>1, <1>7 DEF BoundAfter
    <2>2. Past(b, x.rolled, l) <=> Before(k, l)
      BY <1>7, <2>1 DEF Past
    <2>3. Before(k, l) => x # y
      <3>1. x = y => k = l
        BY <1>1, <1>7
      <3> QED
        BY <3>1, Irreflexive, WordIsText
    <2> QED
      BY <1>2, <1>6, <2>2, <2>3
  <1>8. CASE x.rolled
    <2>1. b = PrefixUpperBound(x.key)
      BY <1>8 DEF BoundAfter
    <2>2. b \in Word /\ b # Nothing
      <3>1. PICK c \in Nat : CutAt(a, k, c)
        BY ShownIs
      <3>2. c \in 1 .. Len(x.key) /\ x.key[c] = Delim
        <4>1. /\ c <= Len(k) /\ Len(x.key) = c /\ \A i \in 1 .. c : x.key[i] = k[i]
              /\ Len(a.prefix) < c /\ k[c] = Delim
          BY <1>8, <3>1 DEF CutAt
        <4>2. Len(a.prefix) \in Nat
          BY WordType DEF Question
        <4> QED
          BY <4>1, <4>2
      <3>3. Delim # Top
        BY CharAssumption
      <3>4. \E m \in 1 .. Len(x.key) : b \in Word /\ Len(b) = m
        BY <1>1, <2>1, <3>2, <3>3, BoundIs
      <3>5. Len(x.key) \in Nat
        BY <1>1, WordType
      <3>6. Len(b) # 0 /\ b \in Word
        BY <3>4, <3>5
      <3> QED
        BY <3>6 DEF Nothing
    <2> HIDE DEF b
    <2>3. Past(b, x.rolled, l) <=> ~Before(l, b)
      BY <1>8, <2>2, Total, Asymmetric, WordIsText DEF Past
    <2>4. Before(k, b)
      BY <1>1, <1>4, <2>1, <2>2, PrefixRangeIsExact DEF InPrefix
    <2>5. IsPrefix(x.key, l) <=> (x.key = l \/ Before(x.key, l)) /\ Before(l, b)
      BY <1>1, <2>1, <2>2, PrefixRangeIsExact DEF InPrefix
    <2>6. x.key = k \/ Before(x.key, k)
      BY <1>1, <1>4, PrefixRangeIsExact DEF InPrefix
    <2>7. ASSUME ~Before(l, b) PROVE Before(x.key, y.key)
      <3>1. Before(k, l)
        BY <2>2, <2>4, <2>7, Total, Transitive, WordIsText
      <3>2. x # y
        BY <1>4, <2>5, <2>7
      <3> QED
        BY <1>2, <3>1, <3>2
    <2>8. ASSUME Before(x.key, y.key) PROVE ~Before(l, b)
      <3>1. Before(k, l) /\ x # y
        BY <1>6, <2>8
      <3>2. Before(x.key, l)
        BY <1>1, <2>6, <3>1, Transitive, WordIsText
      <3>3. ~IsPrefix(x.key, l)
        BY <1>5, <1>8, <3>1
      <3> QED
        BY <2>5, <3>2, <3>3
    <2> QED
      BY <2>3, <2>7, <2>8 DEF b
  <1> QED
    BY <1>1, <1>7, <1>8

EntryType == [key : Word, rolled : BOOLEAN, id : Nat]

LEMMA EntryOrder ==
  /\ \A d \in EntryType : ~EntryBefore(d, d)
  /\ \A d, e, f \in EntryType : EntryBefore(d, e) /\ EntryBefore(e, f) => EntryBefore(d, f)
  <1>1. ASSUME NEW d \in EntryType PROVE ~EntryBefore(d, d)
    <2>1. d.key \in Word /\ d.id \in Nat
      BY DEF EntryType
    <2> QED
      BY <2>1, Irreflexive, WordIsText DEF EntryBefore
  <1>2. ASSUME NEW d \in EntryType, NEW e \in EntryType, NEW f \in EntryType,
               EntryBefore(d, e), EntryBefore(e, f)
        PROVE  EntryBefore(d, f)
    <2>1. d.key \in Word /\ d.id \in Nat /\ e.key \in Word /\ e.id \in Nat /\ f.key \in Word /\ f.id \in Nat
      BY DEF EntryType
    <2>2. Before(d.key, e.key) \/ (d.key = e.key /\ d.id > e.id)
      BY <1>2 DEF EntryBefore
    <2>3. Before(e.key, f.key) \/ (e.key = f.key /\ e.id > f.id)
      BY <1>2 DEF EntryBefore
    <2>4. Before(d.key, e.key) /\ Before(e.key, f.key) => Before(d.key, f.key)
      BY <2>1, Transitive, WordIsText
    <2>5. Before(d.key, f.key) \/ (d.key = f.key /\ d.id > f.id)
      BY <2>1, <2>2, <2>3, <2>4
    <2> QED
      BY <2>5 DEF EntryBefore
  <1> QED
    BY <1>1, <1>2

\* The new entries a page takes.
LEMMA FirstEntries ==
  ASSUME NEW S, IsFiniteSet(S), S \subseteq EntryType, NEW n \in Nat,
         \A d, e \in S : EntryBefore(d, e) \/ EntryBefore(e, d) \/ d = e,
         NEW q, q = FirstOf(S, n, EntryBefore)
  PROVE  /\ q \in Seq(S) /\ Len(q) = (IF n <= Cardinality(S) THEN n ELSE Cardinality(S))
         /\ \A i, j \in 1 .. Len(q) : i < j => EntryBefore(q[i], q[j])
         /\ \A x \in S : \/ \E i \in 1 .. Len(q) : q[i] = x
                         \/ \A i \in 1 .. Len(q) : EntryBefore(q[i], x)
         /\ \E R : Leads(q, n, R, S)
  <1> DEFINE R == {p \in S \X S : EntryBefore(p[1], p[2])}
             m == Min({n, Cardinality(S)})
  <1>1. ASSUME NEW x \in S, NEW y \in S PROVE <<x, y>> \in R <=> EntryBefore(x, y)
    OBVIOUS
  <1>2. ASSUME NEW x \in S PROVE Under(R, S, x) = {y \in S : EntryBefore(y, x)}
    BY <1>1 DEF Under
  <1>0. q = [i \in 1 .. m |-> CHOOSE x \in S : Cardinality({y \in S : EntryBefore(y, x)}) = i - 1]
    BY DEF FirstOf
  <1> HIDE DEF R, m
  <1>3. Orders(R, S)
    <2>1. \A x \in S : <<x, x>> \notin R
      BY <1>1, EntryOrder
    <2>2. \A x, y \in S : <<x, y>> \in R \/ <<y, x>> \in R \/ x = y
      BY <1>1
    <2>3. \A x, y, z \in S : <<x, y>> \in R /\ <<y, z>> \in R => <<x, z>> \in R
      BY <1>1, EntryOrder
    <2> QED
      BY <2>1, <2>2, <2>3 DEF Orders
  <1>4. ASSUME NEW i \in 1 .. m, \E x \in S : Cardinality(Under(R, S, x)) = i - 1
        PROVE  q[i] \in S /\ Cardinality(Under(R, S, q[i])) = i - 1
    <2>1. \E x \in S : Cardinality({y \in S : EntryBefore(y, x)}) = i - 1
      BY <1>2, <1>4
    <2>2. q[i] = CHOOSE x \in S : Cardinality({y \in S : EntryBefore(y, x)}) = i - 1
      BY <1>0
    <2>3. q[i] \in S /\ Cardinality({y \in S : EntryBefore(y, q[i])}) = i - 1
      BY <2>1, <2>2
    <2> QED
      BY <1>2, <2>3
  <1>5. q = [i \in 1 .. m |-> q[i]]
    BY <1>0
  <1>6. Leads(q, n, R, S)
    BY <1>3, <1>4, <1>5, Leading DEF m
  <1>7. q \in Seq(S) /\ \A i \in 1 .. Len(q) : q[i] \in S
    BY <1>6, SeqType DEF Leads
  <1>8. /\ Len(q) = (IF n <= Cardinality(S) THEN n ELSE Cardinality(S))
        /\ \A i, j \in 1 .. Len(q) : i < j => <<q[i], q[j]>> \in R
        /\ \A x \in S : (\E i \in 1 .. Len(q) : q[i] = x) \/ (\A i \in 1 .. Len(q) : <<q[i], x>> \in R)
    BY <1>6 DEF Leads
  <1> QED
    BY <1>1, <1>6, <1>7, <1>8

RowOrdered(S) == S \subseteq ObjectRow /\ \A r, s \in S : r.id = s.id => r = s

LEMMA KeysAreWords == Key \subseteq Word /\ Nothing \notin Key
  BY KeyAssumption DEF Word, Nothing

LEMMA RowOrder ==
  ASSUME NEW S, RowOrdered(S)
  PROVE  /\ \A r \in S : ~Newer(r, r)
         /\ \A r, s \in S : Newer(r, s) \/ Newer(s, r) \/ r = s
         /\ \A r, s, t \in S : Newer(r, s) /\ Newer(s, t) => Newer(r, t)
  <1>0. \A r \in S : r.key \in Word /\ r.id \in Nat
    BY KeysAreWords DEF RowOrdered, ObjectRow
  <1>1. ASSUME NEW d \in S PROVE ~Newer(d, d)
    BY <1>0, Irreflexive, WordIsText DEF Newer
  <1>2. ASSUME NEW d \in S, NEW e \in S, NEW f \in S, Newer(d, e), Newer(e, f)
        PROVE  Newer(d, f)
    <2>1. d.key \in Word /\ d.id \in Nat /\ e.key \in Word /\ e.id \in Nat /\ f.key \in Word /\ f.id \in Nat
      BY <1>0
    <2>2. Before(d.key, e.key) \/ (d.key = e.key /\ d.id > e.id)
      BY <1>2 DEF Newer
    <2>3. Before(e.key, f.key) \/ (e.key = f.key /\ e.id > f.id)
      BY <1>2 DEF Newer
    <2>4. Before(d.key, e.key) /\ Before(e.key, f.key) => Before(d.key, f.key)
      BY <2>1, Transitive, WordIsText
    <2>5. Before(d.key, f.key) \/ (d.key = f.key /\ d.id > f.id)
      BY <2>1, <2>2, <2>3, <2>4
    <2> QED
      BY <2>5 DEF Newer
  <1>3. ASSUME NEW d \in S, NEW e \in S PROVE Newer(d, e) \/ Newer(e, d) \/ d = e
    <2>1. d.key \in Word /\ d.id \in Nat /\ e.key \in Word /\ e.id \in Nat
      BY <1>0
    <2>2. Before(d.key, e.key) \/ Before(e.key, d.key) \/ d.key = e.key
      BY <2>1, Total, WordIsText
    <2>3. d.id = e.id => d = e
      BY DEF RowOrdered
    <2>4. d.id > e.id \/ e.id > d.id \/ d.id = e.id
      BY <2>1
    <2> QED
      BY <2>2, <2>3, <2>4 DEF Newer
  <1> QED
    BY <1>1, <1>2, <1>3

\* The rows a query of ListObjectVersions returns.
LEMMA FirstRows ==
  ASSUME NEW S, IsFiniteSet(S), RowOrdered(S), NEW n \in Nat,
         NEW q, q = FirstOf(S, n, Newer)
  PROVE  /\ q \in Seq(S) /\ Len(q) = (IF n <= Cardinality(S) THEN n ELSE Cardinality(S))
         /\ \E R : Leads(q, n, R, S)
         /\ \A i, j \in 1 .. Len(q) : i < j => Newer(q[i], q[j])
         /\ \A x \in S : \/ \E i \in 1 .. Len(q) : q[i] = x
                         \/ \A i \in 1 .. Len(q) : Newer(q[i], x)
  <1> DEFINE R == {p \in S \X S : Newer(p[1], p[2])}
             m == Min({n, Cardinality(S)})
  <1>1. ASSUME NEW x \in S, NEW y \in S PROVE <<x, y>> \in R <=> Newer(x, y)
    OBVIOUS
  <1>2. ASSUME NEW x \in S PROVE Under(R, S, x) = {y \in S : Newer(y, x)}
    BY <1>1 DEF Under
  <1>0. q = [i \in 1 .. m |-> CHOOSE x \in S : Cardinality({y \in S : Newer(y, x)}) = i - 1]
    BY DEF FirstOf
  <1> HIDE DEF R, m
  <1>3. Orders(R, S)
    BY <1>1, RowOrder DEF Orders
  <1>4. ASSUME NEW i \in 1 .. m, \E x \in S : Cardinality(Under(R, S, x)) = i - 1
        PROVE  q[i] \in S /\ Cardinality(Under(R, S, q[i])) = i - 1
    <2>1. \E x \in S : Cardinality({y \in S : Newer(y, x)}) = i - 1
      BY <1>2, <1>4
    <2>2. q[i] = CHOOSE x \in S : Cardinality({y \in S : Newer(y, x)}) = i - 1
      BY <1>0
    <2>3. q[i] \in S /\ Cardinality({y \in S : Newer(y, q[i])}) = i - 1
      BY <2>1, <2>2
    <2> QED
      BY <1>2, <2>3
  <1>5. q = [i \in 1 .. m |-> q[i]]
    BY <1>0
  <1>6. Leads(q, n, R, S)
    BY <1>3, <1>4, <1>5, Leading DEF m
  <1>7. q \in Seq(S) /\ \A i \in 1 .. Len(q) : q[i] \in S
    BY <1>6, SeqType DEF Leads
  <1>8. /\ Len(q) = (IF n <= Cardinality(S) THEN n ELSE Cardinality(S))
        /\ \A i, j \in 1 .. Len(q) : i < j => <<q[i], q[j]>> \in R
        /\ \A x \in S : (\E i \in 1 .. Len(q) : q[i] = x) \/ (\A i \in 1 .. Len(q) : <<q[i], x>> \in R)
    BY <1>6 DEF Leads
  <1> QED
    BY <1>1, <1>6, <1>7, <1>8

-----------------------------------------------------------------------------
(* Entries in order, what is ahead of them, and what they cover. *)

Sorted(s) == \A i, j \in 1 .. Len(s) : i < j => EntryBefore(s[i], s[j])

\* e comes after the entries of s.
Ahead(s, e) == s = <<>> \/ EntryBefore(Last(s), e)

\* s shows e, or a common prefix e is under.
Covered(s, e) == \E i \in 1 .. Len(s) : s[i] = e \/ (s[i].rolled /\ IsPrefix(s[i].key, e.key))

\* Entries that come after those of s, in order, follow them.
LEMMA SortedOn ==
  ASSUME NEW s \in Seq(EntryType), NEW t \in Seq(EntryType), Sorted(s), Sorted(t),
         \A j \in 1 .. Len(t) : Ahead(s, t[j])
  PROVE  Sorted(s \o t)
  <1>1. Len(s) \in Nat /\ Len(t) \in Nat /\ Len(s \o t) = Len(s) + Len(t)
    BY ConcatIs
  <1>2. ASSUME NEW i \in 1 .. Len(s), NEW j \in 1 .. Len(t) PROVE EntryBefore(s[i], t[j])
    <2>1. s # <<>> /\ Last(s) = s[Len(s)] /\ Len(s) \in 1 .. Len(s)
      BY <1>1, LastIs
    <2>2. EntryBefore(Last(s), t[j])
      BY <2>1 DEF Ahead
    <2>3. s[i] \in EntryType /\ s[Len(s)] \in EntryType /\ t[j] \in EntryType
      BY <2>1
    <2>4. CASE i = Len(s)
      BY <2>1, <2>2, <2>4
    <2>5. CASE i < Len(s)
      <3>1. EntryBefore(s[i], s[Len(s)])
        BY <2>1, <2>5 DEF Sorted
      <3> QED
        BY <2>1, <2>2, <2>3, <3>1, EntryOrder
    <2> QED
      BY <1>1, <2>4, <2>5
  <1>3. ASSUME NEW i \in 1 .. Len(s \o t), NEW j \in 1 .. Len(s \o t), i < j
        PROVE  EntryBefore((s \o t)[i], (s \o t)[j])
    <2>1. CASE j <= Len(s)
      <3>1. i \in 1 .. Len(s) /\ j \in 1 .. Len(s)
        BY <1>1, <1>3, <2>1
      <3>2. (s \o t)[i] = s[i] /\ (s \o t)[j] = s[j]
        BY <3>1, ConcatIs
      <3> QED
        BY <1>3, <3>1, <3>2 DEF Sorted
    <2>2. CASE i <= Len(s) /\ Len(s) < j
      <3>1. i \in 1 .. Len(s) /\ j - Len(s) \in 1 .. Len(t) /\ j \in (Len(s) + 1) .. (Len(s) + Len(t))
        BY <1>1, <1>3, <2>2
      <3>2. (s \o t)[i] = s[i] /\ (s \o t)[j] = t[j - Len(s)]
        BY <3>1, ConcatIs
      <3> QED
        BY <1>2, <3>1, <3>2
    <2>3. CASE Len(s) < i
      <3>1. /\ i - Len(s) \in 1 .. Len(t) /\ i \in (Len(s) + 1) .. (Len(s) + Len(t))
            /\ j - Len(s) \in 1 .. Len(t) /\ j \in (Len(s) + 1) .. (Len(s) + Len(t))
            /\ i - Len(s) < j - Len(s)
        BY <1>1, <1>3, <2>3
      <3>2. (s \o t)[i] = t[i - Len(s)] /\ (s \o t)[j] = t[j - Len(s)]
        BY <3>1, ConcatIs
      <3> QED
        BY <3>1, <3>2 DEF Sorted
    <2> QED
      BY <1>1, <2>1, <2>2, <2>3
  <1> QED
    BY <1>3 DEF Sorted

LEMMA CoveredStays ==
  ASSUME NEW s \in Seq(EntryType), NEW t \in Seq(EntryType), NEW e
  PROVE  Covered(s \o t, e) <=> Covered(s, e) \/ Covered(t, e)
  <1>1. Len(s) \in Nat /\ Len(t) \in Nat /\ Len(s \o t) = Len(s) + Len(t)
    BY ConcatIs
  <1>2. ASSUME NEW i \in 1 .. Len(s) PROVE i \in 1 .. Len(s \o t) /\ (s \o t)[i] = s[i]
    BY <1>1, ConcatIs
  <1>3. ASSUME NEW i \in 1 .. Len(t) PROVE Len(s) + i \in 1 .. Len(s \o t) /\ (s \o t)[Len(s) + i] = t[i]
    BY <1>1, ConcatIs
  <1>4. ASSUME NEW i \in 1 .. Len(s \o t)
        PROVE  \/ i \in 1 .. Len(s) /\ (s \o t)[i] = s[i]
               \/ i - Len(s) \in 1 .. Len(t) /\ (s \o t)[i] = t[i - Len(s)]
    <2>1. i \in 1 .. Len(s) \/ (i - Len(s) \in 1 .. Len(t) /\ i \in (Len(s) + 1) .. (Len(s) + Len(t)))
      BY <1>1
    <2> QED
      BY <2>1, ConcatIs
  <1>5. ASSUME Covered(s \o t, e) PROVE Covered(s, e) \/ Covered(t, e)
    <2>1. PICK i \in 1 .. Len(s \o t) : (s \o t)[i] = e \/ ((s \o t)[i].rolled /\ IsPrefix((s \o t)[i].key, e.key))
      BY <1>5 DEF Covered
    <2> QED
      BY <1>4, <2>1 DEF Covered
  <1>6. ASSUME Covered(s, e) PROVE Covered(s \o t, e)
    <2>1. PICK i \in 1 .. Len(s) : s[i] = e \/ (s[i].rolled /\ IsPrefix(s[i].key, e.key))
      BY <1>6 DEF Covered
    <2> QED
      BY <1>2, <2>1 DEF Covered
  <1>7. ASSUME Covered(t, e) PROVE Covered(s \o t, e)
    <2>1. PICK i \in 1 .. Len(t) : t[i] = e \/ (t[i].rolled /\ IsPrefix(t[i].key, e.key))
      BY <1>7 DEF Covered
    <2> QED
      BY <1>3, <2>1 DEF Covered
  <1> QED
    BY <1>5, <1>6, <1>7

LEMMA CoveredByShown ==
  ASSUME NEW a, Question(a), NEW k \in Word, NEW s, NEW i \in 1 .. Len(s), s[i] = Shown(a, k)
  PROVE  Covered(s, Entry(k, FALSE, 0))
  <1>1. Shown(a, k).rolled => IsPrefix(Shown(a, k).key, k)
    BY ShownIsPrefix
  <1>2. ~Shown(a, k).rolled => Shown(a, k) = Entry(k, FALSE, 0)
    BY ShownType
  <1>3. Entry(k, FALSE, 0).key = k
    BY DEF Entry
  <1> QED
    BY <1>1, <1>2, <1>3 DEF Covered

BatchOutcome(a, s, T, n, keys, q) ==
  /\ q \in Seq(EntryType) /\ Len(q) <= n /\ Sorted(s \o q)
  /\ keys \in Seq(T) /\ DOMAIN keys = 1 .. Len(keys) /\ Len(keys) \in Nat
  /\ \A i \in 1 .. Len(q) : \E k \in T : q[i] = Shown(a, k)
  /\ \A k \in T : Covered(s \o q, Entry(k, FALSE, 0)) \/ (q # <<>> /\ Ahead(s \o q, Shown(a, k)))
  /\ keys # <<>> /\ Len(q) < n => q # <<>> /\ Last(s \o q) = Shown(a, Last(keys)) /\ Last(keys) \in T
  /\ keys = <<>> \/ (Len(q) < n /\ Len(keys) < BatchSize) =>
       \A k \in T : Covered(s \o q, Entry(k, FALSE, 0))
  /\ keys # <<>> => q # <<>>

\* What a query of ListObjectsMeta adds to the entries s: q, of the n there is room for.
LEMMA BatchCore ==
  ASSUME NEW a, Question(a), NEW s \in Seq(EntryType), Sorted(s),
         NEW T, IsFiniteSet(T), T \subseteq Word, \A k \in T : Ahead(s, Shown(a, k)),
         NEW n \in Nat \ {0},
         NEW keys, keys = FirstOf(T, BatchSize, Before),
         NEW q, q = FirstOf({Shown(a, keys[i]) : i \in DOMAIN keys}, n, EntryBefore)
  PROVE  BatchOutcome(a, s, T, n, keys, q)
  <1> DEFINE new == {Shown(a, keys[i]) : i \in DOMAIN keys}
  <1>1. /\ keys \in Seq(T) /\ Len(keys) = (IF BatchSize <= Cardinality(T) THEN BatchSize ELSE Cardinality(T))
        /\ \A i, j \in 1 .. Len(keys) : i < j => Before(keys[i], keys[j])
        /\ \A x \in T : \/ \E i \in 1 .. Len(keys) : keys[i] = x
                        \/ \A i \in 1 .. Len(keys) : Before(keys[i], x)
        /\ Len(keys) = Cardinality(T) => \A x \in T : \E i \in 1 .. Len(keys) : keys[i] = x
    <2> HIDE DEF new
    <2>1. BatchSize \in Nat
      BY BatchAssumption
    <2>2. /\ keys \in Seq(T)
          /\ Len(keys) = (IF BatchSize <= Cardinality(T) THEN BatchSize ELSE Cardinality(T))
      BY <2>1, FirstKeys, WordIsText
    <2>3. \A i, j \in 1 .. Len(keys) : i < j => Before(keys[i], keys[j])
      BY <2>1, FirstKeys, WordIsText
    <2>4. \A x \in T : \/ \E i \in 1 .. Len(keys) : keys[i] = x
                       \/ \A i \in 1 .. Len(keys) : Before(keys[i], x)
      BY <2>1, FirstKeys, WordIsText
    <2>5. ASSUME Len(keys) = Cardinality(T) PROVE \A x \in T : \E i \in 1 .. Len(keys) : keys[i] = x
      <3>1. \E R : Leads(keys, BatchSize, R, T)
        BY <2>1, FirstKeys, WordIsText
      <3> QED
        BY <2>5, <3>1, LeadsAll
    <2> QED
      BY <2>2, <2>3, <2>4, <2>5
  <1>2. Len(keys) \in Nat /\ DOMAIN keys = 1 .. Len(keys) /\ \A i \in 1 .. Len(keys) : keys[i] \in T
    BY <1>1, SeqType
  <1>3. ASSUME NEW i \in 1 .. Len(keys)
        PROVE  Shown(a, keys[i]) \in EntryType /\ Shown(a, keys[i]).id = 0 /\ keys[i] \in Word
    <2>1. keys[i] \in Word
      BY <1>2
    <2>2. /\ Shown(a, keys[i]).key \in Word /\ Shown(a, keys[i]).rolled \in BOOLEAN /\ Shown(a, keys[i]).id = 0
          /\ Shown(a, keys[i]) = Entry(Shown(a, keys[i]).key, Shown(a, keys[i]).rolled, 0)
      BY <2>1, ShownType
    <2> QED
      BY <2>1, <2>2 DEF EntryType, Entry
  <1>4. ASSUME NEW k \in Word, NEW l \in Word, Before(k, l)
        PROVE  Shown(a, k) = Shown(a, l) \/ EntryBefore(Shown(a, k), Shown(a, l))
    BY <1>4, ShownInOrder DEF EntryBefore
  <1>5. IsFiniteSet(new)
    <2> DEFINE f == [i \in 1 .. Len(keys) |-> Shown(a, keys[i])]
    <2>1. IsFiniteSet({f[i] : i \in 1 .. Len(keys)})
      <3>1. f = [i \in 1 .. Len(keys) |-> f[i]]
        OBVIOUS
      <3> HIDE DEF f
      <3> QED
        BY <1>2, <3>1, ImageIsFinite
    <2>2. new = {f[i] : i \in 1 .. Len(keys)}
      BY <1>2
    <2> QED
      BY <2>1, <2>2
  <1>6. new \subseteq EntryType
    BY <1>2, <1>3
  <1>7. ASSUME NEW d \in new, NEW e \in new PROVE EntryBefore(d, e) \/ EntryBefore(e, d) \/ d = e
    <2>1. PICK i \in 1 .. Len(keys) : d = Shown(a, keys[i])
      BY <1>2
    <2>2. PICK j \in 1 .. Len(keys) : e = Shown(a, keys[j])
      BY <1>2
    <2>3. keys[i] \in Word /\ keys[j] \in Word
      BY <1>3
    <2>4. Before(keys[i], keys[j]) \/ Before(keys[j], keys[i]) \/ keys[i] = keys[j]
      BY <2>3, Total, WordIsText
    <2> QED
      BY <1>4, <2>1, <2>2, <2>3, <2>4
  <1>8. \A i \in 1 .. Len(keys) : Shown(a, keys[i]) \in new
    BY <1>2
  <1>9. \A e \in new : \E i \in 1 .. Len(keys) : e = Shown(a, keys[i])
    BY <1>2
  <1>0. q = FirstOf(new, n, EntryBefore)
    OBVIOUS
  <1> HIDE DEF new
  <1>10. /\ q \in Seq(new) /\ Len(q) = (IF n <= Cardinality(new) THEN n ELSE Cardinality(new))
         /\ \A i, j \in 1 .. Len(q) : i < j => EntryBefore(q[i], q[j])
         /\ \A x \in new : \/ \E i \in 1 .. Len(q) : q[i] = x
                           \/ \A i \in 1 .. Len(q) : EntryBefore(q[i], x)
         /\ \E R : Leads(q, n, R, new)
    BY <1>0, <1>5, <1>6, <1>7, FirstEntries
  <1>11. /\ Cardinality(new) \in Nat /\ Cardinality(T) \in Nat /\ BatchSize \in Nat \ {0}
         /\ Len(q) \in Nat /\ Len(q) <= n
    BY <1>5, <1>10, FS_CardinalityType, BatchAssumption
  <1>12. q \in Seq(EntryType) /\ \A i \in 1 .. Len(q) : q[i] \in new
    <2>1. \A i \in 1 .. Len(q) : q[i] \in new
      BY <1>10, SeqType
    <2> QED
      BY <1>6, <1>10, <2>1
  <1>13. ASSUME NEW i \in 1 .. Len(q) PROVE \E k \in T : q[i] = Shown(a, k)
    <2>1. PICK j \in 1 .. Len(keys) : q[i] = Shown(a, keys[j])
      BY <1>9, <1>12
    <2> QED
      BY <1>2, <2>1
  <1>14. Sorted(s \o q)
    <2>1. Sorted(q)
      BY <1>10 DEF Sorted
    <2>2. \A j \in 1 .. Len(q) : Ahead(s, q[j])
      BY <1>13
    <2> QED
      BY <1>12, <2>1, <2>2, SortedOn
  <1>15. ASSUME keys # <<>> PROVE q # <<>> /\ Len(keys) \in 1 .. Len(keys)
    <2>1. Len(keys) # 0
      BY <1>1, <1>15
    <2>2. Len(keys) \in 1 .. Len(keys)
      BY <1>2, <2>1
    <2>3. new # {}
      BY <1>8, <2>2
    <2>4. Cardinality(new) # 0
      BY <1>5, <2>3, FS_EmptySet
    <2>5. Len(q) # 0
      BY <1>10, <1>11, <2>4
    <2>6. q # <<>>
      BY <2>5
    <2> QED
      BY <2>2, <2>6
  <1>16. ASSUME NEW i \in 1 .. Len(keys), NEW j \in 1 .. Len(q), q[j] = Shown(a, keys[i])
         PROVE  Covered(s \o q, Entry(keys[i], FALSE, 0))
    <2> DEFINE e == Entry(keys[i], FALSE, 0)
    <2>1. Covered(q, e)
      BY <1>3, <1>16, CoveredByShown
    <2>2. q \in Seq(EntryType)
      BY <1>12
    <2> HIDE DEF e
    <2>3. Covered(s \o q, e)
      BY <2>1, <2>2, CoveredStays
    <2> QED
      BY <2>3 DEF e
  <1>17. q # <<>> => s \o q # <<>> /\ Last(s \o q) = q[Len(q)] /\ Len(q) \in 1 .. Len(q)
    BY <1>12, LastIs
  <1>18. ASSUME NEW k \in T, keys # <<>>
         PROVE  Covered(s \o q, Entry(k, FALSE, 0)) \/ (q # <<>> /\ Ahead(s \o q, Shown(a, k)))
    <2>1. q # <<>> /\ s \o q # <<>> /\ Last(s \o q) = q[Len(q)] /\ Len(q) \in 1 .. Len(q)
      BY <1>15, <1>17, <1>18
    <2>2. CASE \E i \in 1 .. Len(keys) : keys[i] = k
      <3>1. PICK i \in 1 .. Len(keys) : keys[i] = k
        BY <2>2
      <3>2. CASE \E j \in 1 .. Len(q) : q[j] = Shown(a, k)
        BY <1>16, <3>1, <3>2
      <3>3. CASE \A j \in 1 .. Len(q) : EntryBefore(q[j], Shown(a, k))
        BY <2>1, <3>3 DEF Ahead
      <3> QED
        BY <1>8, <1>10, <3>1, <3>2, <3>3
    <2>3. CASE \A i \in 1 .. Len(keys) : Before(keys[i], k)
      <3>1. PICK i \in 1 .. Len(keys) : q[Len(q)] = Shown(a, keys[i])
        BY <1>9, <1>12, <2>1
      <3>2. Shown(a, keys[i]) = Shown(a, k) \/ EntryBefore(Shown(a, keys[i]), Shown(a, k))
        BY <1>3, <1>4, <2>3
      <3>3. CASE Shown(a, keys[i]) = Shown(a, k)
        <4>1. Covered(q, Entry(k, FALSE, 0))
          BY <2>1, <3>1, <3>3, CoveredByShown
        <4>2. Covered(s \o q, Entry(k, FALSE, 0))
          <5> DEFINE e == Entry(k, FALSE, 0)
          <5>1. Covered(q, e)
            BY <4>1
          <5> HIDE DEF e
          <5>2. Covered(s \o q, e)
            BY <1>12, <5>1, CoveredStays
          <5> QED
            BY <5>2 DEF e
        <4> QED
          BY <4>2
      <3>4. CASE EntryBefore(Shown(a, keys[i]), Shown(a, k))
        BY <2>1, <3>1, <3>4 DEF Ahead
      <3> QED
        BY <3>2, <3>3, <3>4
    <2> QED
      BY <1>1, <2>2, <2>3
  <1>19. ASSUME keys = <<>> PROVE T = {}
    <2>1. Len(keys) = 0
      BY <1>19
    <2>2. Cardinality(T) = 0
      BY <1>1, <1>11, <2>1
    <2> QED
      BY <2>2, FS_EmptySet
  <1>20. ASSUME Len(q) < n PROVE \A x \in new : \E i \in 1 .. Len(q) : q[i] = x
    <2>1. Len(q) = Cardinality(new)
      BY <1>10, <1>11, <1>20
    <2> QED
      BY <1>10, <2>1, LeadsAll
  <1>21. ASSUME keys # <<>>, Len(q) < n
         PROVE  q # <<>> /\ Last(s \o q) = Shown(a, Last(keys)) /\ Last(keys) \in T
    <2>1. q # <<>> /\ Last(s \o q) = q[Len(q)] /\ Len(q) \in 1 .. Len(q)
      BY <1>15, <1>17, <1>21
    <2> DEFINE m == Len(keys)
    <2>2. m \in 1 .. m /\ Last(keys) = keys[m] /\ keys[m] \in T
      BY <1>2, <1>15, <1>21 DEF Last
    <2>3. PICK i \in 1 .. Len(q) : q[i] = Shown(a, keys[m])
      BY <1>8, <1>20, <1>21, <2>2
    <2>4. CASE i = Len(q)
      BY <2>1, <2>2, <2>3, <2>4
    <2>5. CASE i < Len(q)
      <3>1. EntryBefore(q[i], q[Len(q)])
        BY <1>10, <2>1, <2>5
      <3>2. PICK j \in 1 .. Len(keys) : q[Len(q)] = Shown(a, keys[j])
        BY <1>9, <1>12, <2>1
      <3>3. keys[j] = keys[m] \/ Before(keys[j], keys[m])
        <4>1. j = m \/ j < m
          <5>1. j \in Int /\ m \in Int /\ j <= m
            BY <1>2
          <5> HIDE DEF m
          <5> QED
            BY <5>1
        <4> QED
          BY <1>1, <2>2, <4>1
      <3>4. q[Len(q)] = q[i] \/ EntryBefore(q[Len(q)], q[i])
        BY <1>3, <1>4, <2>2, <2>3, <3>2, <3>3
      <3>5. q[i] \in EntryType /\ q[Len(q)] \in EntryType
        BY <1>6, <1>12, <2>1
      <3> QED
        BY <3>1, <3>4, <3>5, EntryOrder
    <2> QED
      BY <1>11, <2>4, <2>5
  <1>22. ASSUME keys = <<>> \/ (Len(q) < n /\ Len(keys) < BatchSize), NEW k \in T
         PROVE  Covered(s \o q, Entry(k, FALSE, 0))
    <2>1. Len(q) < n /\ Len(keys) < BatchSize
      BY <1>19, <1>22
    <2>2. Len(keys) = Cardinality(T)
      BY <1>1, <1>11, <2>1
    <2>3. PICK i \in 1 .. Len(keys) : keys[i] = k
      BY <1>1, <2>2
    <2>4. PICK j \in 1 .. Len(q) : q[j] = Shown(a, keys[i])
      BY <1>8, <1>20, <2>1
    <2> QED
      BY <1>16, <2>3, <2>4
  <1> QED
    BY <1>1, <1>2, <1>11, <1>12, <1>13, <1>14, <1>15, <1>18, <1>19, <1>21, <1>22 DEF BatchOutcome

-----------------------------------------------------------------------------
(* Batch keeps the invariant of a key listing. *)

\* The walk has all its fields.
Whole(w) ==
  w = [at |-> w.at, asked |-> w.asked, lower |-> w.lower, inclusive |-> w.inclusive,
       after |-> w.after, page |-> w.page, seen |-> w.seen, steady |-> w.steady,
       anchored |-> w.anchored]

TableOk == /\ IsFiniteSet(table) /\ RowOrdered(table)
           /\ nextId \in Nat \ {0} /\ \A r \in table : r.id < nextId

\* The next query gets what comes after the entries s.
Follows(s, a, lower, inclusive) ==
  \A k \in Word : InPrefix(a.prefix, k) =>
    (Past(lower, inclusive, k) <=> Ahead(s, Shown(a, k)))

\* The entries so far.
Entries(w) == w.seen \o w.page

ObjectsWalk(t, w) ==
  /\ w.seen \in Seq(EntryType) /\ w.page \in Seq(EntryType) /\ Sorted(Entries(w))
  /\ \A i \in 1 .. Len(Entries(w)) :
       \E k \in Key : InPrefix(w.asked.prefix, k) /\ Entries(w)[i] = Shown(w.asked, k)
  /\ w.at \in {"batch", "probe", "done"}
  /\ w.at = "batch" => /\ Len(w.page) < w.asked.max
                       /\ Follows(Entries(w), w.asked, w.lower, w.inclusive)
  /\ w.at = "done" => w.page = <<>>
  /\ w.steady \subseteq Shows(t, w.asked)
  /\ \A e \in w.steady :
       \/ Covered(Entries(w), e)
       \/ /\ Ahead(Entries(w), Shown(w.asked, e.key))
          /\ w.at = "batch" \/ (w.at = "probe" /\ Len(w.page) >= w.asked.max)

\* The outcome of Batch.
BatchTo(w) ==
  LET keys == FirstOf(KeyRange(w.asked.prefix, w.lower, w.inclusive), BatchSize, Before)
      page == PageUpTo(w.page, {Shown(w.asked, keys[i]) : i \in DOMAIN keys}, w.asked.max)
      last == Shown(w.asked, Last(keys))
      more == /\ keys # <<>> /\ Len(page) < w.asked.max
              /\ Len(keys) = BatchSize \/ last.rolled
  IN IF more
       THEN [w EXCEPT !.page = page, !.inclusive = last.rolled,
                      !.lower = IF last.rolled THEN PrefixUpperBound(last.key) ELSE last.key]
       ELSE [w EXCEPT !.page = page, !.at = "probe"]

LEMMA BatchIs ==
  ASSUME NEW r \in Reader, Batch(r)
  PROVE  /\ walk[r].at = "batch" /\ walk' = [walk EXCEPT ![r] = BatchTo(walk[r])]
         /\ UNCHANGED <<table, nextId>>
  BY DEF Batch, BatchTo

LEMMA AskedIs ==
  ASSUME NEW a \in Walks
  PROVE  /\ Question(a) /\ a.max \in 1 .. BatchSize /\ a.max \in Nat /\ a.max # 0
         /\ a.kind \in {"objects", "versions"}
  <1>1. a \in Asked
    BY WalkAssumption
  <1>2. /\ a.prefix \in Seq(1 .. Top) /\ a.delimited \in BOOLEAN /\ a.max \in 1 .. BatchSize
        /\ a.kind \in {"objects", "versions"}
    BY <1>1 DEF Asked
  <1>3. a.max \in Nat /\ a.max # 0
    BY <1>2, BatchAssumption
  <1> QED
    BY <1>2, <1>3 DEF Question, Word

LEMMA LiveKeys == ASSUME TableOk PROVE IsFiniteSet(Live(table)) /\ Live(table) \subseteq Key
  <1> DEFINE T == {r \in table : r.latest /\ ~r.marker}
             f == [r \in T |-> r.key]
  <1>1. T \in SUBSET table /\ IsFiniteSet(table) /\ RowOrdered(table)
    BY DEF TableOk
  <1>2. IsFiniteSet(T)
    BY <1>1, FS_Subset
  <1>3. Live(table) = {r.key : r \in T}
    BY DEF Live
  <1>4. f \in Surjection(T, {r.key : r \in T})
    BY DEF Surjection
  <1>5. IsFiniteSet({r.key : r \in T})
    <2> HIDE DEF f
    <2> QED
      BY <1>2, <1>4, FS_Surjection
  <1>6. Live(table) \subseteq Key
    BY <1>1, <1>3 DEF RowOrdered, ObjectRow
  <1> QED
    BY <1>3, <1>5, <1>6

LEMMA BatchKeeps ==
  ASSUME TableOk, NEW w, Whole(w), w.asked \in Walks, w.asked.kind = "objects",
         ObjectsWalk(table, w), w.at = "batch"
  PROVE  ObjectsWalk(table, BatchTo(w))
  <1> DEFINE a == w.asked
             s == Entries(w)
             T == KeyRange(a.prefix, w.lower, w.inclusive)
             keys == FirstOf(T, BatchSize, Before)
             n == a.max - Len(w.page)
             q == FirstOf({Shown(a, keys[i]) : i \in DOMAIN keys}, n, EntryBefore)
             page == w.page \o q
             last == Shown(a, Last(keys))
             more == /\ keys # <<>> /\ Len(page) < a.max
                     /\ Len(keys) = BatchSize \/ last.rolled
             u == BatchTo(w)
  <1>1. /\ Question(a) /\ a.max \in Nat /\ a.max # 0
    BY AskedIs
  <1>2. /\ w.seen \in Seq(EntryType) /\ w.page \in Seq(EntryType) /\ Sorted(s)
        /\ \A i \in 1 .. Len(s) : \E k \in Key : InPrefix(a.prefix, k) /\ s[i] = Shown(a, k)
        /\ Len(w.page) < a.max /\ Follows(s, a, w.lower, w.inclusive)
        /\ w.steady \subseteq Shows(table, a)
        /\ \A e \in w.steady : Covered(s, e) \/ Ahead(s, Shown(a, e.key))
    BY DEF ObjectsWalk
  <1>3. u = IF more THEN [w EXCEPT !.page = page, !.inclusive = last.rolled,
                                   !.lower = IF last.rolled THEN PrefixUpperBound(last.key) ELSE last.key]
            ELSE [w EXCEPT !.page = page, !.at = "probe"]
    BY DEF BatchTo, PageUpTo
  <1>4. /\ IsFiniteSet(T) /\ T \subseteq Key /\ T \subseteq Word
        /\ \A k \in T : InPrefix(a.prefix, k) /\ Ahead(s, Shown(a, k))
    <2>1. IsFiniteSet(Live(table)) /\ Live(table) \subseteq Key /\ Key \subseteq Word
      BY LiveKeys, KeysAreWords
    <2>2. T = {k \in Live(table) : InPrefix(a.prefix, k) /\ Past(w.lower, w.inclusive, k)}
      BY DEF KeyRange, Past
    <2>3. T \in SUBSET Live(table)
      BY <2>2
    <2>4. IsFiniteSet(T)
      <3> HIDE DEF T
      <3> QED
        BY <2>1, <2>3, FS_Subset
    <2> QED
      BY <1>2, <2>1, <2>2, <2>4 DEF Follows
  <1>5. s \in Seq(EntryType) /\ Len(w.page) \in Nat /\ n \in Nat \ {0}
    <2>1. s \in Seq(EntryType)
      BY <1>2, ConcatIs DEF Entries
    <2>2. Len(w.page) \in Nat
      BY <1>2
    <2> QED
      BY <1>1, <1>2, <2>1, <2>2
  <1>6. \A e \in w.steady : e = Entry(e.key, FALSE, 0) /\ InPrefix(a.prefix, e.key) /\ e.key \in Live(table)
    BY <1>2 DEF Shows, Entry
  <1>7. \A e \in w.steady : Covered(s, e) \/ (e.key \in T /\ e = Entry(e.key, FALSE, 0))
    <2>1. \A k \in Live(table) : k \in Word
      BY LiveKeys, KeysAreWords
    <2> QED
      BY <1>2, <1>6, <2>1 DEF KeyRange, Past, Follows
  <1>8. keys = FirstOf(T, BatchSize, Before) /\ q = FirstOf({Shown(a, keys[i]) : i \in DOMAIN keys}, n, EntryBefore)
    OBVIOUS
  <1> HIDE DEF s, T, keys, n, q
  <1>9. /\ q \in Seq(EntryType) /\ Len(q) <= n /\ Sorted(s \o q)
        /\ keys \in Seq(T) /\ DOMAIN keys = 1 .. Len(keys) /\ Len(keys) \in Nat
        /\ \A i \in 1 .. Len(q) : \E k \in T : q[i] = Shown(a, k)
        /\ \A k \in T : Covered(s \o q, Entry(k, FALSE, 0)) \/ (q # <<>> /\ Ahead(s \o q, Shown(a, k)))
        /\ keys # <<>> /\ Len(q) < n => q # <<>> /\ Last(s \o q) = Shown(a, Last(keys)) /\ Last(keys) \in T
        /\ keys = <<>> \/ (Len(q) < n /\ Len(keys) < BatchSize) =>
             \A k \in T : Covered(s \o q, Entry(k, FALSE, 0))
    <2>1. BatchOutcome(a, s, T, n, keys, q)
      BY <1>1, <1>2, <1>4, <1>5, <1>8, BatchCore
    <2> QED
      BY <2>1 DEF BatchOutcome
  <1>10. w.seen \o page = s \o q /\ page \in Seq(EntryType) /\ Len(page) = Len(w.page) + Len(q)
    <2>1. w.seen \o (w.page \o q) = (w.seen \o w.page) \o q
      <3> DEFINE x == w.seen
                 y == w.page
      <3>1. x \in Seq(EntryType) /\ y \in Seq(EntryType) /\ q \in Seq(EntryType)
        BY <1>2, <1>9
      <3> HIDE DEF x, y
      <3>2. x \o (y \o q) = (x \o y) \o q
        BY <3>1, ConcatAssoc
      <3> QED
        BY <3>2 DEF x, y
    <2>2. w.page \o q \in Seq(EntryType) /\ Len(w.page \o q) = Len(w.page) + Len(q)
      BY <1>2, <1>9, ConcatIs
    <2> QED
      BY <2>1, <2>2 DEF s, Entries
  <1>11. Len(page) \in Nat /\ Len(page) <= a.max /\ (Len(page) < a.max <=> Len(q) < n)
    <2>1. Len(q) \in Nat
      BY <1>9
    <2> QED
      BY <1>1, <1>5, <1>9, <1>10, <2>1 DEF n
  <1>12. /\ u.asked = a /\ u.seen = w.seen /\ u.page = page /\ u.steady = w.steady
         /\ more => /\ u.at = "batch" /\ u.inclusive = last.rolled /\ u.lower = BoundAfter(last)
         /\ ~more => u.at = "probe"
    <2> HIDE DEF page, last, more
    <2> QED
      BY <1>3 DEF Whole, BoundAfter
  <1> HIDE DEF page, u
  <1>13. Entries(u) = s \o q
    BY <1>10, <1>12 DEF Entries
  <1>14. \A i \in 1 .. Len(s \o q) : \E k \in Key : InPrefix(a.prefix, k) /\ (s \o q)[i] = Shown(a, k)
    <2>1. Len(s) \in Nat /\ Len(q) \in Nat /\ Len(s \o q) = Len(s) + Len(q)
      BY <1>5, <1>9
    <2>2. \A i \in 1 .. Len(s) : (s \o q)[i] = s[i]
      BY <1>5, <1>9, ConcatIs
    <2>3. \A i \in (Len(s) + 1) .. (Len(s) + Len(q)) : (s \o q)[i] = q[i - Len(s)]
      BY <1>5, <1>9, ConcatIs
    <2>4. SUFFICES ASSUME NEW i \in 1 .. Len(s \o q)
                   PROVE  \E k \in Key : InPrefix(a.prefix, k) /\ (s \o q)[i] = Shown(a, k)
      OBVIOUS
    <2>5. CASE i <= Len(s)
      <3>1. i \in 1 .. Len(s)
        BY <2>1, <2>5
      <3> QED
        BY <1>2, <2>2, <3>1
    <2>6. CASE Len(s) < i
      <3>1. i \in (Len(s) + 1) .. (Len(s) + Len(q)) /\ i - Len(s) \in 1 .. Len(q)
        BY <2>1, <2>6
      <3> QED
        BY <1>4, <1>9, <2>3, <3>1
    <2> QED
      BY <2>1, <2>5, <2>6
  <1>15. \A e \in w.steady : \/ Covered(s \o q, e)
                             \/ e.key \in T /\ e = Entry(e.key, FALSE, 0)
    BY <1>5, <1>7, <1>9, CoveredStays
  <1>16. ASSUME more PROVE ObjectsWalk(table, u)
    <2>1. keys # <<>> /\ Len(q) < n
      BY <1>11, <1>16
    <2>2. q # <<>> /\ Last(s \o q) = last /\ Last(keys) \in T
      BY <1>9, <2>1
    <2>3. Last(keys) \in Word /\ Last(keys) # Nothing
      BY <1>4, <2>2, KeysAreWords
    <2>4. s \o q # <<>>
      BY <1>5, <1>9, <2>2, LastIs
    <2>5. ASSUME NEW k \in Word
          PROVE  Past(BoundAfter(last), last.rolled, k) <=> Ahead(s \o q, Shown(a, k))
      <3>1. Past(BoundAfter(last), last.rolled, k) <=> Before(last.key, Shown(a, k).key)
        BY <1>1, <2>3, NextBound
      <3>2. last.id = 0 /\ Shown(a, k).id = 0
        BY <1>1, <2>3, ShownType
      <3>3. Ahead(s \o q, Shown(a, k)) <=> EntryBefore(last, Shown(a, k))
        BY <2>2, <2>4 DEF Ahead
      <3>4. EntryBefore(last, Shown(a, k)) <=> Before(last.key, Shown(a, k).key)
        BY <3>2 DEF EntryBefore
      <3> QED
        BY <3>1, <3>3, <3>4
    <2>6. Follows(Entries(u), a, u.lower, u.inclusive)
      BY <1>12, <1>13, <1>16, <2>5 DEF Follows
    <2>7. \A e \in w.steady : Covered(s \o q, e) \/ Ahead(s \o q, Shown(a, e.key))
      BY <1>9, <1>15
    <2>8. u.at = "batch" /\ Len(u.page) < a.max
      BY <1>12, <1>16
    <2>9. /\ u.seen \in Seq(EntryType) /\ u.page \in Seq(EntryType) /\ Sorted(Entries(u))
          /\ \A i \in 1 .. Len(Entries(u)) :
               \E k \in Key : InPrefix(u.asked.prefix, k) /\ Entries(u)[i] = Shown(u.asked, k)
          /\ u.steady \subseteq Shows(table, u.asked)
      BY <1>2, <1>9, <1>10, <1>12, <1>13, <1>14
    <2>10. \A e \in u.steady : Covered(Entries(u), e) \/ Ahead(Entries(u), Shown(u.asked, e.key))
      BY <1>12, <1>13, <2>7
    <2>11. u.at = "batch" /\ Len(u.page) < u.asked.max /\ Follows(Entries(u), u.asked, u.lower, u.inclusive)
      BY <1>12, <2>6, <2>8
    <2>12. u.at \in {"batch", "probe", "done"} /\ u.at # "done"
      BY <2>11
    <2> QED
      BY <2>9, <2>10, <2>11, <2>12 DEF ObjectsWalk
  <1>17. ASSUME ~more PROVE ObjectsWalk(table, u)
    <2>1. u.at = "probe" /\ u.page = page
      BY <1>12, <1>17
    <2>2. ASSUME NEW e \in w.steady
          PROVE  Covered(s \o q, e) \/ (Ahead(s \o q, Shown(a, e.key)) /\ Len(u.page) >= a.max)
      <3>1. CASE Len(q) < n
        <4>1. keys = <<>> \/ Len(keys) # BatchSize
          BY <1>11, <1>17, <3>1
        <4>2. Len(keys) <= BatchSize
          <5>1. IsFiniteSet(T) /\ T \subseteq Word /\ BatchSize \in Nat
            BY <1>4, BatchAssumption
          <5>2. Len(keys) = (IF BatchSize <= Cardinality(T) THEN BatchSize ELSE Cardinality(T))
            BY <1>8, <5>1, FirstKeys, WordIsText
          <5>3. Cardinality(T) \in Nat
            BY <5>1, FS_CardinalityType
          <5> QED
            BY <5>1, <5>2, <5>3
        <4>3. keys = <<>> \/ Len(keys) < BatchSize
          <5>1. BatchSize \in Nat
            BY BatchAssumption
          <5>2. Len(keys) \in Nat
            BY <1>9
          <5> QED
            BY <4>1, <4>2, <5>1, <5>2
        <4>4. \A k \in T : Covered(s \o q, Entry(k, FALSE, 0))
          BY <1>9, <3>1, <4>3
        <4> QED
          BY <1>15, <4>4
      <3>2. CASE ~(Len(q) < n)
        <4>1. Len(u.page) >= a.max
          BY <1>1, <1>11, <2>1, <3>2
        <4> QED
          BY <1>9, <1>15, <4>1
      <3> QED
        BY <3>1, <3>2
    <2>9. /\ u.seen \in Seq(EntryType) /\ u.page \in Seq(EntryType) /\ Sorted(Entries(u))
          /\ \A i \in 1 .. Len(Entries(u)) :
               \E k \in Key : InPrefix(u.asked.prefix, k) /\ Entries(u)[i] = Shown(u.asked, k)
          /\ u.steady \subseteq Shows(table, u.asked)
      BY <1>2, <1>9, <1>10, <1>12, <1>13, <1>14
    <2>10. \A e \in u.steady : \/ Covered(Entries(u), e)
                               \/ /\ Ahead(Entries(u), Shown(u.asked, e.key))
                                  /\ Len(u.page) >= u.asked.max
      BY <1>12, <1>13, <2>2
    <2>12. u.at \in {"batch", "probe", "done"} /\ u.at # "done" /\ u.at # "batch" /\ u.at = "probe"
      BY <2>1
    <2> QED
      BY <2>9, <2>10, <2>12 DEF ObjectsWalk
  <1> QED
    BY <1>16, <1>17 DEF u

-----------------------------------------------------------------------------
(* Probe keeps the invariant of a key listing: the marker of the next page. *)

\* A marker is taken for a common prefix when the entry it was made from is one, or is the
\* folder listed.
LEMMA MarkerIdIs ==
  ASSUME NEW a, Question(a), NEW k \in Word, InPrefix(a.prefix, k)
  PROVE  LET x == Shown(a, k)
             rolled == /\ a.delimited /\ x.key # Nothing
                       /\ Last(x.key) = Delim /\ IsPrefix(a.prefix, x.key)
         IN /\ x.rolled => rolled
            /\ rolled => \/ x.rolled
                         \/ a.delimited /\ k = a.prefix /\ IsSuffix(<<Delim>>, a.prefix)
  <1> DEFINE x == Shown(a, k)
             p == a.prefix
             n == Len(p)
  <1>1. PICK c \in Nat : CutAt(a, k, c)
    BY ShownIs
  <1>2. /\ c <= Len(k) /\ x.rolled \in BOOLEAN
        /\ x.key \in Word /\ Len(x.key) = c /\ \A j \in 1 .. c : x.key[j] = k[j]
        /\ x.rolled => /\ a.delimited /\ n < c /\ k[c] = Delim
        /\ ~x.rolled => /\ x.key = k /\ c = Len(k)
                        /\ a.delimited => \A j \in (n + 1) .. Len(k) : k[j] # Delim
    BY <1>1 DEF CutAt
  <1>3. n \in Nat /\ Len(k) \in Nat /\ p \in Word
    BY WordType DEF Question
  <1>4. n <= Len(k) /\ \A j \in 1 .. n : p[j] = k[j]
    BY <1>3, PrefixRangeIsExact, PrefixMeans, WordIsText
  <1> HIDE DEF x
  <1>5. ASSUME x.rolled
        PROVE  a.delimited /\ x.key # Nothing /\ Last(x.key) = Delim /\ IsPrefix(p, x.key)
    <2>1. c \in 1 .. c /\ n <= c /\ \A j \in 1 .. n : j \in 1 .. c
      BY <1>2, <1>3, <1>5
    <2>2. Last(x.key) = Delim
      BY <1>2, <1>5, <2>1 DEF Last
    <2>3. x.key # Nothing
      <3>1. Len(x.key) # 0
        BY <1>2, <2>1
      <3> QED
        BY <3>1 DEF Nothing
    <2>4. IsPrefix(p, x.key)
      BY <1>2, <1>3, <1>4, <2>1, PrefixMeans, WordIsText
    <2> QED
      BY <1>2, <1>5, <2>2, <2>3, <2>4
  <1>6. ASSUME a.delimited, x.key # Nothing, Last(x.key) = Delim, ~x.rolled
        PROVE  k = p /\ IsSuffix(<<Delim>>, p)
    <2>1. x.key = k /\ k[Len(k)] = Delim /\ \A j \in (n + 1) .. Len(k) : k[j] # Delim
      BY <1>2, <1>6 DEF Last
    <2>2. Len(k) # 0
      <3>1. k # <<>> /\ k \in Seq(1 .. Top)
        BY <1>6, <2>1 DEF Nothing, Word
      <3> QED
        BY <3>1
    <2>3. ~(n < Len(k))
      <3>1. n < Len(k) => Len(k) \in (n + 1) .. Len(k)
        BY <1>3
      <3> QED
        BY <2>1, <3>1
    <2>4. Len(k) = n
      BY <1>3, <1>4, <2>3
    <2>5. k = p
      BY <1>3, <1>4, <2>4, SameWord
    <2>6. IsSuffix(<<Delim>>, p)
      <3> DEFINE u == Reverse(p)
                 v == Reverse(<<Delim>>)
      <3>1. u = [i \in 1 .. n |-> p[(n - i) + 1]] /\ v = [i \in 1 .. 1 |-> <<Delim>>[(1 - i) + 1]]
        BY DEF Reverse
      <3>2. u \in Word /\ Len(u) = n /\ u[1] = Delim
        <4>1. \A i \in 1 .. n : (n - i) + 1 \in 1 .. n
          BY <1>3
        <4>2. \A i \in 1 .. n : p[(n - i) + 1] \in 1 .. Top
          BY <1>3, <4>1, WordType
        <4>3. u \in [1 .. n -> 1 .. Top]
          BY <3>1, <4>2
        <4>4. u \in Seq(1 .. Top) /\ Len(u) = n
          BY <1>3, <4>3, FunIsSeq
        <4>5. 1 \in 1 .. n /\ (n - 1) + 1 = n
          BY <1>3, <2>2, <2>4
        <4>6. u[1] = p[n]
          BY <3>1, <4>5
        <4> QED
          BY <2>1, <2>4, <2>5, <4>4, <4>6 DEF Word
      <3>3. v \in Word /\ Len(v) = 1 /\ v[1] = Delim
        <4>1. Delim \in 1 .. Top
          BY CharAssumption
        <4>2. v[1] = Delim /\ v \in [1 .. 1 -> 1 .. Top]
          BY <3>1, <4>1
        <4>3. v \in Seq(1 .. Top) /\ Len(v) = 1
          BY <4>2, FunIsSeq
        <4> QED
          BY <4>2, <4>3 DEF Word
      <3> HIDE DEF u, v
      <3>4. Len(v) <= Len(u) /\ \A j \in 1 .. Len(v) : v[j] = u[j]
        BY <1>3, <2>2, <2>4, <3>2, <3>3
      <3>5. IsPrefix(v, u)
        BY <3>2, <3>3, <3>4, PrefixMeans, WordIsText
      <3> QED
        BY <3>5 DEF IsSuffix, u, v
    <2> QED
      BY <2>5, <2>6
  <1> QED
    BY <1>2, <1>5, <1>6 DEF x

\* The outcome of Probe.
ProbeTo(w) ==
  IF Len(w.page) >= w.asked.max /\ Remaining(w) # {}
    THEN StartPage(w, Last(w.page).key) ELSE EndWalk(w)

LEMMA ProbeIs ==
  ASSUME NEW r \in Reader, Probe(r)
  PROVE  /\ walk[r].at = "probe" /\ walk' = [walk EXCEPT ![r] = ProbeTo(walk[r])]
         /\ UNCHANGED <<table, nextId>>
  BY DEF Probe, ProbeTo

\* A page has been handed out.
LEMMA HandedOut ==
  ASSUME NEW w, NEW u, w.seen \in Seq(EntryType), w.page \in Seq(EntryType),
         u.seen = w.seen \o w.page, u.page = <<>>
  PROVE  /\ u.seen \in Seq(EntryType) /\ u.page \in Seq(EntryType) /\ Len(u.page) = 0
         /\ Entries(u) = Entries(w)
  <1> DEFINE s == w.seen \o w.page
  <1>1. s \in Seq(EntryType)
    BY ConcatIs
  <1>2. s \o <<>> = s
    <2> HIDE DEF s
    <2> QED
      BY <1>1
  <1> QED
    BY <1>1, <1>2 DEF Entries

LEMMA ProbeKeeps ==
  ASSUME TableOk, NEW w, Whole(w), w.asked \in Walks, w.asked.kind = "objects", Sound(w),
         ObjectsWalk(table, w), w.at = "probe"
  PROVE  ObjectsWalk(table, ProbeTo(w))
  <1> DEFINE a == w.asked
             s == Entries(w)
             u == ProbeTo(w)
  <1>1. /\ Question(a) /\ a.max \in Nat /\ a.max # 0
    BY AskedIs
  <1>2. /\ w.seen \in Seq(EntryType) /\ w.page \in Seq(EntryType) /\ Sorted(s)
        /\ \A i \in 1 .. Len(s) : \E k \in Key : InPrefix(a.prefix, k) /\ s[i] = Shown(a, k)
        /\ w.steady \subseteq Shows(table, a)
        /\ \A e \in w.steady : Covered(s, e) \/ (Ahead(s, Shown(a, e.key)) /\ Len(w.page) >= a.max)
    BY DEF ObjectsWalk
  <1>3. u.asked = a /\ u.seen = w.seen \o w.page /\ u.page = <<>> /\ u.steady = w.steady
    BY DEF ProbeTo, StartPage, EndWalk, Whole
  <1> HIDE DEF u
  <1>4. /\ u.seen \in Seq(EntryType) /\ u.page \in Seq(EntryType) /\ Len(u.page) = 0
        /\ Entries(u) = s
    BY <1>2, <1>3, HandedOut
  <1> HIDE DEF s
  <1>5. ASSUME Len(w.page) >= a.max
        PROVE  \E k \in Key :
                 /\ InPrefix(a.prefix, k) /\ Last(w.page) = Shown(a, k) /\ s # <<>> /\ Last(s) = Shown(a, k)
                 /\ a.delimited /\ k = a.prefix => ~IsSuffix(<<Delim>>, a.prefix)
    <2>0. Len(w.page) \in Nat /\ Len(w.seen) \in Nat
      BY <1>2
    <2>1. w.page # <<>>
      <3>1. Len(w.page) # 0
        BY <1>1, <1>5, <2>0
      <3> QED
        BY <3>1
    <2>2. /\ s # <<>> /\ Last(s) = Last(w.page) /\ s \in Seq(EntryType)
          /\ Len(s) = Len(w.seen) + Len(w.page)
      BY <1>2, <2>1, LastIs, ConcatIs DEF s, Entries
    <2>3. Last(s) = s[Len(s)] /\ Len(s) \in 1 .. Len(s)
      BY <2>2, LastIs
    <2>4. PICK k \in Key : InPrefix(a.prefix, k) /\ s[Len(s)] = Shown(a, k)
      BY <1>2, <2>3
    <2>5. ASSUME a.delimited, k = a.prefix PROVE ~IsSuffix(<<Delim>>, a.prefix)
      <3>1. SUFFICES ASSUME a.max > 1 PROVE FALSE
        BY <2>5 DEF Sound
      <3>2. Len(s) - 1 \in 1 .. Len(s) /\ Len(s) - 1 < Len(s)
        <4>1. ASSUME NEW x \in Nat, NEW y \in Nat, NEW m \in Nat, m > 1, y >= m
              PROVE  (x + y) - 1 \in 1 .. (x + y) /\ (x + y) - 1 < x + y
          BY <4>1
        <4>2. Len(w.seen) \in Nat /\ Len(w.page) \in Nat /\ a.max \in Nat /\ a.max > 1 /\ Len(w.page) >= a.max
          BY <1>1, <1>5, <2>0, <3>1
        <4>3. (Len(w.seen) + Len(w.page)) - 1 \in 1 .. (Len(w.seen) + Len(w.page))
              /\ (Len(w.seen) + Len(w.page)) - 1 < Len(w.seen) + Len(w.page)
          BY <4>1, <4>2
        <4> QED
          BY <2>2, <4>3
      <3>3. PICK l \in Key : InPrefix(a.prefix, l) /\ s[Len(s) - 1] = Shown(a, l)
        BY <1>2, <3>2
      <3>4. EntryBefore(Shown(a, l), Shown(a, k))
        BY <1>2, <2>3, <2>4, <3>2, <3>3 DEF Sorted
      <3>5. k \in Word /\ l \in Word
        BY KeysAreWords
      <3>6. Shown(a, l).id = 0 /\ Shown(a, k).id = 0 /\ Shown(a, l).key \in Word /\ Shown(a, k).key \in Word
        BY <1>1, <3>5, ShownType
      <3>7. Before(Shown(a, l).key, Shown(a, k).key)
        BY <3>4, <3>6 DEF EntryBefore
      <3>8. k = l \/ Before(k, l)
        BY <2>5, <3>3 DEF InPrefix
      <3>9. Shown(a, k) = Shown(a, l) \/ Before(Shown(a, k).key, Shown(a, l).key)
        BY <1>1, <3>5, <3>8, ShownInOrder
      <3> QED
        BY <3>6, <3>7, <3>9, Asymmetric, WordIsText
    <2> QED
      BY <2>2, <2>3, <2>4, <2>5
  <1>6. ASSUME NEW k \in Key, s # <<>>, Last(s) = Shown(a, k), NEW l \in Word
        PROVE  Past(BoundAfter(Shown(a, k)), Shown(a, k).rolled, l) <=> Ahead(s, Shown(a, l))
    <2>1. k \in Word /\ k # Nothing
      BY KeysAreWords
    <2>2. Past(BoundAfter(Shown(a, k)), Shown(a, k).rolled, l) <=> Before(Shown(a, k).key, Shown(a, l).key)
      BY <1>1, <2>1, NextBound
    <2>3. Shown(a, k).id = 0 /\ Shown(a, l).id = 0
      BY <1>1, <2>1, ShownType
    <2>4. EntryBefore(Shown(a, k), Shown(a, l)) <=> Before(Shown(a, k).key, Shown(a, l).key)
      BY <2>3 DEF EntryBefore
    <2> QED
      BY <1>6, <2>2, <2>4 DEF Ahead
  <1>7. /\ u.seen \in Seq(EntryType) /\ u.page \in Seq(EntryType) /\ Sorted(Entries(u))
        /\ \A i \in 1 .. Len(Entries(u)) :
             \E k \in Key : InPrefix(u.asked.prefix, k) /\ Entries(u)[i] = Shown(u.asked, k)
        /\ u.steady \subseteq Shows(table, u.asked)
    BY <1>2, <1>3, <1>4
  <1>8. ASSUME Len(w.page) >= a.max, Remaining(w) # {} PROVE ObjectsWalk(table, u)
    <2>1. PICK k \in Key :
             /\ InPrefix(a.prefix, k) /\ Last(w.page) = Shown(a, k) /\ s # <<>> /\ Last(s) = Shown(a, k)
             /\ a.delimited /\ k = a.prefix => ~IsSuffix(<<Delim>>, a.prefix)
      BY <1>5, <1>8
    <2>2. k \in Word
      BY KeysAreWords
    <2> DEFINE x == Shown(a, k)
               rolled == a.delimited /\ x.key # Nothing
                         /\ Last(x.key) = Delim /\ IsPrefix(a.prefix, x.key)
    <2>3. rolled = x.rolled
      <3>1. x.rolled \in BOOLEAN
        BY <1>1, <2>2, ShownType
      <3>2. x.rolled <=> rolled
        BY <1>1, <2>1, <2>2, MarkerIdIs
      <3> QED
        BY <3>1, <3>2
    <2>4. u = StartPage(w, x.key)
      BY <1>8, <2>1 DEF ProbeTo, u
    <2>5. /\ u.at = "batch" /\ u.inclusive = rolled
          /\ u.lower = IF rolled THEN PrefixUpperBound(x.key) ELSE x.key
      <3> HIDE DEF x
      <3> QED
        BY <2>4 DEF StartPage, Whole
    <2>6. u.at = "batch" /\ u.inclusive = x.rolled /\ u.lower = BoundAfter(x)
      <3> HIDE DEF x, rolled
      <3> QED
        BY <2>3, <2>5 DEF BoundAfter
    <2>7. Follows(Entries(u), u.asked, u.lower, u.inclusive)
      BY <1>3, <1>4, <1>6, <2>1, <2>6 DEF Follows
    <2>8. Len(u.page) < u.asked.max
      BY <1>1, <1>3, <1>4
    <2>9. \A e \in u.steady : Covered(Entries(u), e) \/ Ahead(Entries(u), Shown(u.asked, e.key))
      BY <1>2, <1>3, <1>4
    <2> QED
      BY <1>7, <2>6, <2>7, <2>8, <2>9 DEF ObjectsWalk
  <1>9. ASSUME ~(Len(w.page) >= a.max /\ Remaining(w) # {}) PROVE ObjectsWalk(table, u)
    <2>1. u.at = "done"
      BY <1>9 DEF u, ProbeTo, EndWalk, Whole
    <2>2. ASSUME NEW e \in w.steady PROVE Covered(s, e)
      <3>1. SUFFICES ASSUME Ahead(s, Shown(a, e.key)), Len(w.page) >= a.max PROVE FALSE
        BY <1>2
      <3>2. PICK k \in Key : Last(w.page) = Shown(a, k) /\ s # <<>> /\ Last(s) = Shown(a, k)
        BY <1>5, <3>1
      <3>3. e.key \in Live(table) /\ InPrefix(a.prefix, e.key)
        BY <1>2 DEF Shows, Entry
      <3>4. e.key \in Word
        BY <3>3, LiveKeys, KeysAreWords
      <3>5. Past(BoundAfter(Shown(a, k)), Shown(a, k).rolled, e.key)
        BY <1>6, <3>1, <3>2, <3>4
      <3>6. e.key \in Remaining(w)
        <4>1. Shown(a, k).rolled \in BOOLEAN
          BY <1>1, KeysAreWords, ShownType
        <4>2. CASE Shown(a, k).rolled
          <5>1. Remaining(w) = KeyRange(a.prefix, BoundAfter(Shown(a, k)), TRUE)
            BY <3>2, <4>2 DEF Remaining, BoundAfter
          <5> QED
            BY <3>3, <3>5, <5>1 DEF KeyRange, Past
        <4>3. CASE ~Shown(a, k).rolled
          <5>1. Remaining(w) = KeyRange(a.prefix, BoundAfter(Shown(a, k)), FALSE)
            BY <3>2, <4>3 DEF Remaining, BoundAfter
          <5> QED
            BY <3>3, <3>5, <4>3, <5>1 DEF KeyRange, Past
        <4> QED
          BY <4>1, <4>2, <4>3
      <3> QED
        BY <1>9, <3>1, <3>6
    <2>3. \A e \in u.steady : Covered(Entries(u), e)
      BY <1>3, <1>4, <2>2
    <2> QED
      BY <1>3, <1>7, <2>1, <2>3 DEF ObjectsWalk
  <1> QED
    BY <1>8, <1>9 DEF u

-----------------------------------------------------------------------------
(* What a batch of rows adds to a page. *)

RowEntry(row) == Entry(row.key, FALSE, row.id)

\* What the first n rows add to a page.
NewEntries(rows, page, n) == {RowEntry(rows[i]) : i \in 1 .. n} \ ToSet(page)

Open(rows, page, max) ==
  {n \in DOMAIN rows : Len(page) + Cardinality(NewEntries(rows, page, n - 1)) < max}

Brought(rows, page, max) ==
  {n \in Open(rows, page, max) :
     RowEntry(rows[n]) \in NewEntries(rows, page, n) \ NewEntries(rows, page, n - 1)}

VersionsOutcome(s, page, T, rows, max, taken, q) ==
  /\ rows \in Seq(T) /\ DOMAIN rows = 1 .. Len(rows) /\ Len(rows) \in Nat
  /\ Len(rows) = (IF BatchSize <= Cardinality(T) THEN BatchSize ELSE Cardinality(T))
  /\ taken \in Nat /\ taken <= Len(rows)
  /\ taken = (IF Len(rows) <= max - Len(page) THEN Len(rows) ELSE max - Len(page))
  /\ q \in Seq(EntryType) /\ Len(q) = taken /\ Sorted(s \o q)
  /\ \A i \in 1 .. taken : \E j \in 1 .. Len(q) : q[j] = RowEntry(rows[i])
  /\ taken > 0 => /\ q # <<>> /\ taken \in 1 .. Len(rows)
                  /\ Last(q) = RowEntry(rows[taken]) /\ Max(Brought(rows, page, max)) = taken
  /\ \A i, j \in 1 .. Len(rows) : i < j => Newer(rows[i], rows[j])
  /\ \A x \in T : (\E i \in 1 .. Len(rows) : rows[i] = x) \/ (\A i \in 1 .. Len(rows) : Newer(rows[i], x))
  /\ Len(rows) = Cardinality(T) => \A x \in T : \E i \in 1 .. Len(rows) : rows[i] = x

\* What a query of ListObjectVersions adds to the entries s, which end with the page.
LEMMA VersionsCore ==
  ASSUME NEW s \in Seq(EntryType), Sorted(s), NEW page \in Seq(EntryType),
         \A i \in 1 .. Len(page) : \E j \in 1 .. Len(s) : page[i] = s[j],
         NEW T, IsFiniteSet(T), RowOrdered(T), \A r \in T : Ahead(s, RowEntry(r)),
         NEW max \in Nat, Len(page) < max,
         NEW rows, rows = FirstOf(T, BatchSize, Newer),
         NEW taken, taken = Cardinality(Open(rows, page, max)),
         NEW q, q = FirstOf(NewEntries(rows, page, taken), max - Len(page), EntryBefore)
  PROVE  VersionsOutcome(s, page, T, rows, max, taken, q)
  <1> DEFINE New(n) == NewEntries(rows, page, n)
             room == max - Len(page)
             c == Len(rows)
             t == IF c <= room THEN c ELSE room
  <1>1. /\ rows \in Seq(T)
        /\ c = (IF BatchSize <= Cardinality(T) THEN BatchSize ELSE Cardinality(T))
        /\ \A i, j \in 1 .. c : i < j => Newer(rows[i], rows[j])
        /\ \A x \in T : (\E i \in 1 .. c : rows[i] = x) \/ (\A i \in 1 .. c : Newer(rows[i], x))
        /\ c = Cardinality(T) => \A x \in T : \E i \in 1 .. c : rows[i] = x
    <2>1. BatchSize \in Nat
      BY BatchAssumption
    <2>2. /\ rows \in Seq(T)
          /\ c = (IF BatchSize <= Cardinality(T) THEN BatchSize ELSE Cardinality(T))
      BY <2>1, FirstRows
    <2>3. \A i, j \in 1 .. c : i < j => Newer(rows[i], rows[j])
      BY <2>1, FirstRows
    <2>4. \A x \in T : (\E i \in 1 .. c : rows[i] = x) \/ (\A i \in 1 .. c : Newer(rows[i], x))
      BY <2>1, FirstRows
    <2>5. \E R : Leads(rows, BatchSize, R, T)
      BY <2>1, FirstRows
    <2>6. c = Cardinality(T) => \A x \in T : \E i \in 1 .. c : rows[i] = x
      BY <2>5, LeadsAll
    <2> QED
      BY <2>2, <2>3, <2>4, <2>6
  <1>2. c \in Nat /\ DOMAIN rows = 1 .. c /\ \A i \in 1 .. c : rows[i] \in T
    BY <1>1, SeqType
  <1>3. ASSUME NEW i \in 1 .. c
        PROVE  /\ RowEntry(rows[i]) \in EntryType /\ RowEntry(rows[i]).key = rows[i].key
               /\ RowEntry(rows[i]).id = rows[i].id /\ Ahead(s, RowEntry(rows[i]))
    <2>1. rows[i] \in T
      BY <1>2
    <2>2. rows[i].key \in Word /\ rows[i].id \in Nat
      BY <2>1, KeysAreWords DEF RowOrdered, ObjectRow
    <2> QED
      BY <2>1, <2>2 DEF RowEntry, Entry, EntryType
  <1>4. ASSUME NEW i \in 1 .. c, NEW j \in 1 .. c, i < j
        PROVE  EntryBefore(RowEntry(rows[i]), RowEntry(rows[j]))
    <2>1. Newer(rows[i], rows[j])
      BY <1>1, <1>4
    <2> QED
      BY <1>3, <2>1 DEF Newer, EntryBefore
  <1>5. ASSUME NEW i \in 1 .. c, NEW j \in 1 .. c, i # j
        PROVE  RowEntry(rows[i]) # RowEntry(rows[j])
    <2>1. i < j \/ j < i
      BY <1>2, <1>5
    <2>2. EntryBefore(RowEntry(rows[i]), RowEntry(rows[j])) \/ EntryBefore(RowEntry(rows[j]), RowEntry(rows[i]))
      BY <1>4, <2>1
    <2> QED
      BY <1>3, <2>2, EntryOrder
  <1>6. ASSUME NEW i \in 1 .. c PROVE RowEntry(rows[i]) \notin ToSet(page)
    <2>1. SUFFICES ASSUME NEW k \in 1 .. Len(page), RowEntry(rows[i]) = page[k] PROVE FALSE
      <3>1. DOMAIN page = 1 .. Len(page)
        OBVIOUS
      <3> QED
        BY <3>1 DEF ToSet
    <2>2. PICK j \in 1 .. Len(s) : page[k] = s[j]
      OBVIOUS
    <2>3. s # <<>> /\ Last(s) = s[Len(s)] /\ Len(s) \in 1 .. Len(s) /\ Len(s) \in Nat
      <3>1. Len(s) \in Nat /\ s # <<>>
        OBVIOUS
      <3> QED
        BY <3>1, LastIs
    <2>4. EntryBefore(s[Len(s)], RowEntry(rows[i]))
      BY <1>3, <2>3 DEF Ahead
    <2>5. s[j] \in EntryType /\ s[Len(s)] \in EntryType /\ RowEntry(rows[i]) \in EntryType
      BY <1>3, <2>3
    <2>6. CASE j = Len(s)
      BY <2>1, <2>2, <2>4, <2>5, <2>6, EntryOrder
    <2>7. CASE j < Len(s)
      <3>1. EntryBefore(s[j], s[Len(s)])
        BY <2>3, <2>7 DEF Sorted
      <3>2. EntryBefore(s[j], RowEntry(rows[i]))
        BY <2>4, <2>5, <3>1, EntryOrder
      <3> QED
        BY <2>1, <2>2, <2>5, <3>2, EntryOrder
    <2> QED
      BY <2>3, <2>6, <2>7
  <1>7. ASSUME NEW n \in 0 .. c
        PROVE  /\ New(n) = {RowEntry(rows[i]) : i \in 1 .. n}
               /\ IsFiniteSet(New(n)) /\ Cardinality(New(n)) = n
    <2>1. n \in Nat /\ \A i \in 1 .. n : i \in 1 .. c
      BY <1>2
    <2>2. New(n) = {RowEntry(rows[i]) : i \in 1 .. n}
      BY <1>6, <2>1 DEF NewEntries
    <2> DEFINE f == [i \in 1 .. n |-> RowEntry(rows[i])]
    <2>3. f \in Injection(1 .. n, New(n)) /\ f \in Surjection(1 .. n, New(n))
      <3>1. f \in [1 .. n -> New(n)]
        BY <2>2
      <3>2. \A i, j \in 1 .. n : i # j => f[i] # f[j]
        BY <1>5, <2>1
      <3>3. \A x \in New(n) : \E i \in 1 .. n : f[i] = x
        BY <2>2
      <3> HIDE DEF f
      <3> QED
        BY <3>1, <3>2, <3>3 DEF Injection, IsInjective, Surjection
    <2>4. IsFiniteSet(1 .. n) /\ Cardinality(1 .. n) = n
      <3>1. IsFiniteSet(1 .. n) /\ Cardinality(1 .. n) = IF 1 > n THEN 0 ELSE n - 1 + 1
        BY <2>1, FS_Interval
      <3>2. (IF 1 > n THEN 0 ELSE n - 1 + 1) = n
        BY <2>1
      <3> QED
        BY <3>1, <3>2
    <2> HIDE DEF f
    <2>5. IsFiniteSet(New(n)) /\ Cardinality(New(n)) = Cardinality(1 .. n)
      BY <2>3, <2>4, FS_Surjection
    <2> QED
      BY <2>2, <2>4, <2>5
  <1>8. room \in Nat \ {0} /\ t \in Nat /\ t <= c /\ t <= room /\ Len(page) \in Nat
    <2>1. Len(page) \in Nat
      OBVIOUS
    <2> QED
      BY <1>2, <2>1
  <1>9. Open(rows, page, max) = 1 .. t
    <2>1. ASSUME NEW n \in 1 .. c
          PROVE  Len(page) + Cardinality(NewEntries(rows, page, n - 1)) < max <=> n <= t
      <3>1. n - 1 \in 0 .. c /\ n \in Int
        BY <1>2
      <3>2. Cardinality(NewEntries(rows, page, n - 1)) = n - 1
        BY <1>7, <3>1
      <3>3. Len(page) + (n - 1) < max <=> n <= t
        BY <1>2, <1>8, <3>1
      <3> QED
        BY <3>2, <3>3
    <2>2. \A n : n \in 1 .. t <=> n \in 1 .. c /\ n <= t
      BY <1>2, <1>8
    <2> HIDE DEF t
    <2> QED
      BY <1>2, <2>1, <2>2 DEF Open
  <1>10. taken = t
    <2> HIDE DEF t
    <2>0. t \in Int /\ 1 \in Int
      BY <1>8
    <2>1. Cardinality(1 .. t) = IF 1 > t THEN 0 ELSE t - 1 + 1
      BY <2>0, FS_Interval
    <2>2. (IF 1 > t THEN 0 ELSE t - 1 + 1) = t
      BY <1>8
    <2> QED
      BY <1>9, <2>1, <2>2
  <1>11. taken = (IF c <= room THEN c ELSE room)
    BY <1>10
  <1>12. taken \in Nat /\ taken <= c /\ taken <= room /\ taken \in 0 .. c /\ Open(rows, page, max) = 1 .. taken
    BY <1>2, <1>8, <1>9, <1>10
  <1> HIDE DEF t
  <1> DEFINE N == New(taken)
  <1>13. /\ N = {RowEntry(rows[i]) : i \in 1 .. taken} /\ IsFiniteSet(N) /\ Cardinality(N) = taken
    BY <1>7, <1>12
  <1>14. \A i \in 1 .. taken : i \in 1 .. c
    BY <1>2, <1>12
  <1>15. N \subseteq EntryType
    BY <1>3, <1>13, <1>14
  <1>16. ASSUME NEW d \in N, NEW e \in N PROVE EntryBefore(d, e) \/ EntryBefore(e, d) \/ d = e
    <2>1. PICK i \in 1 .. taken : d = RowEntry(rows[i])
      BY <1>13
    <2>2. PICK j \in 1 .. taken : e = RowEntry(rows[j])
      BY <1>13
    <2>3. i \in 1 .. c /\ j \in 1 .. c /\ (i < j \/ j < i \/ i = j)
      BY <1>12, <1>14
    <2> QED
      BY <1>4, <2>1, <2>2, <2>3
  <1>17. q = FirstOf(N, room, EntryBefore)
    OBVIOUS
  <1>18. room \in Nat
    BY <1>8
  <1> HIDE DEF N, room
  <1>19. /\ q \in Seq(N) /\ Len(q) = (IF room <= Cardinality(N) THEN room ELSE Cardinality(N))
         /\ \A i, j \in 1 .. Len(q) : i < j => EntryBefore(q[i], q[j])
         /\ \E R : Leads(q, room, R, N)
    BY <1>13, <1>15, <1>16, <1>17, <1>18, FirstEntries
  <1>20. Len(q) = taken
    BY <1>12, <1>13, <1>18, <1>19
  <1>21. \A x \in N : \E i \in 1 .. taken : q[i] = x
    <2>1. Len(q) = Cardinality(N)
      BY <1>13, <1>20
    <2> QED
      BY <1>19, <1>20, <2>1, LeadsAll
  <1>22. q \in Seq(EntryType) /\ \A i \in 1 .. taken : q[i] \in N
    <2>1. \A i \in 1 .. Len(q) : q[i] \in N
      BY <1>19, SeqType
    <2> QED
      BY <1>15, <1>19, <1>20, <2>1
  <1>23. Sorted(s \o q)
    <2>1. Sorted(q)
      BY <1>19 DEF Sorted
    <2>2. \A j \in 1 .. Len(q) : Ahead(s, q[j])
      BY <1>3, <1>13, <1>14, <1>20, <1>22
    <2> QED
      BY <1>22, <2>1, <2>2, SortedOn
  <1>24. \A i \in 1 .. taken : \E j \in 1 .. Len(q) : q[j] = RowEntry(rows[i])
    BY <1>13, <1>20, <1>21
  <1>25. ASSUME taken > 0
         PROVE  /\ q # <<>> /\ taken \in 1 .. c
                /\ Last(q) = RowEntry(rows[taken]) /\ Max(Brought(rows, page, max)) = taken
    <2>1. taken \in 1 .. taken /\ taken \in 1 .. c
      BY <1>2, <1>12, <1>25
    <2>2. q # <<>>
      <3>1. Len(q) # 0
        BY <1>12, <1>20, <1>25
      <3> QED
        BY <3>1
    <2>3. Last(q) = q[taken]
      BY <1>20 DEF Last
    <2>4. PICK i \in 1 .. taken : q[i] = RowEntry(rows[taken])
      BY <1>20, <1>24, <2>1
    <2>5. PICK j \in 1 .. taken : q[taken] = RowEntry(rows[j])
      BY <1>13, <1>22, <2>1
    <2>6. i = taken
      <3>1. SUFFICES ASSUME i < taken PROVE FALSE
        BY <1>12
      <3>2. EntryBefore(q[i], q[taken])
        BY <1>19, <1>20, <2>1, <3>1
      <3>3. j = taken \/ j < taken
        BY <1>12
      <3>4. j \in 1 .. c
        BY <1>14
      <3>5. q[taken] = q[i] \/ EntryBefore(q[taken], q[i])
        BY <1>4, <2>1, <2>4, <2>5, <3>3, <3>4
      <3>6. q[i] \in EntryType /\ q[taken] \in EntryType
        BY <1>15, <1>22, <2>1
      <3> QED
        BY <3>2, <3>5, <3>6, EntryOrder
    <2>7. Brought(rows, page, max) = 1 .. taken
      <3>1. ASSUME NEW n \in 1 .. taken
            PROVE  RowEntry(rows[n]) \in NewEntries(rows, page, n) \ NewEntries(rows, page, n - 1)
        <4>1. n \in 1 .. c /\ n \in 0 .. c /\ n - 1 \in 0 .. c /\ n \in 1 .. n
          BY <1>2, <1>12
        <4>2. New(n) = {RowEntry(rows[l]) : l \in 1 .. n} /\ New(n - 1) = {RowEntry(rows[l]) : l \in 1 .. (n - 1)}
          BY <1>7, <4>1
        <4>3. RowEntry(rows[n]) \in New(n)
          BY <4>1, <4>2
        <4>4. ASSUME NEW l \in 1 .. (n - 1) PROVE RowEntry(rows[n]) # RowEntry(rows[l])
          <5>1. l \in 1 .. c /\ l # n
            BY <1>2, <1>12, <4>1
          <5> QED
            BY <1>5, <4>1, <5>1
        <4> QED
          BY <4>2, <4>3, <4>4
      <3> QED
        BY <1>12, <3>1 DEF Brought
    <2>8. Max(1 .. taken) = taken
      <3>1. 1 .. taken \subseteq Nat /\ 1 .. taken # {} /\ \A x \in 1 .. taken : x <= taken
        BY <1>12, <2>1
      <3>2. Max(1 .. taken) \in 1 .. taken /\ \A y \in 1 .. taken : y <= Max(1 .. taken)
        BY <1>12, <3>1, MaxIs
      <3>3. taken <= Max(1 .. taken) /\ Max(1 .. taken) <= taken /\ Max(1 .. taken) \in Int
        BY <1>12, <2>1, <3>2
      <3> QED
        BY <1>12, <3>3
    <2> QED
      BY <2>1, <2>2, <2>3, <2>4, <2>6, <2>7, <2>8
  <1>26. taken = (IF Len(rows) <= max - Len(page) THEN Len(rows) ELSE max - Len(page))
    BY <1>11 DEF room
  <1> QED
    BY <1>1, <1>2, <1>12, <1>20, <1>22, <1>23, <1>24, <1>25, <1>26 DEF VersionsOutcome

-----------------------------------------------------------------------------
(* VersionsBatch keeps the invariant of a version listing. *)

\* The version marker was made from the last of the entries s.
Resumes(s, after) ==
  IF s = <<>> THEN after = Nothing
  ELSE after # Nothing /\ after[1] = Last(s).key /\ after[3] = Last(s).id

VersionsWalk(t, w) ==
  /\ w.seen \in Seq(EntryType) /\ w.page \in Seq(EntryType) /\ Sorted(Entries(w))
  /\ w.at \in {"versions", "done"}
  /\ w.at = "versions" => Len(w.page) < w.asked.max /\ Resumes(Entries(w), w.after)
  /\ w.at = "done" => w.page = <<>>
  /\ w.steady \subseteq Shows(t, w.asked)
  /\ \A e \in w.steady : Covered(Entries(w), e) \/ (w.at = "versions" /\ Ahead(Entries(w), e))

\* The outcome of VersionsBatch.
VersionsTo(w) ==
  LET left == VersionRange(w.asked.prefix, w.after)
      rows == FirstOf(left, BatchSize, Newer)
      entry(row) == LET e == Shown(w.asked, row.key)
                    IN IF e.rolled THEN e ELSE Entry(row.key, FALSE, row.id)
      new(n) == {entry(rows[i]) : i \in 1 .. n} \ ToSet(w.page)
      open == {n \in DOMAIN rows : Len(w.page) + Cardinality(new(n - 1)) < w.asked.max}
      taken == Cardinality(open)
      page == PageUpTo(w.page, new(taken), w.asked.max)
      brought == {n \in open : entry(rows[n]) \in new(n) \ new(n - 1)}
      marker(row) == <<row.key, ApiVersion(row), row.id>>
      read == [w EXCEPT !.page = page, !.anchored = @ /\ Anchored(w.after)]
  IN IF taken < Len(rows)
       THEN StartVersionsPage(read, marker(rows[Max(brought)]))
     ELSE IF Cardinality(left) > BatchSize /\ Len(page) < w.asked.max
       THEN [read EXCEPT !.after = marker(Last(rows))]
     ELSE EndWalk(read)

LEMMA VersionsBatchIs ==
  ASSUME NEW r \in Reader, VersionsBatch(r)
  PROVE  /\ walk[r].at = "versions" /\ walk' = [walk EXCEPT ![r] = VersionsTo(walk[r])]
         /\ UNCHANGED <<table, nextId>>
  BY DEF VersionsBatch, VersionsTo

\* The same for a listing without a delimiter.
PlainVersionsTo(w) ==
  LET left == VersionRange(w.asked.prefix, w.after)
      rows == FirstOf(left, BatchSize, Newer)
      taken == Cardinality(Open(rows, w.page, w.asked.max))
      page == w.page \o FirstOf(NewEntries(rows, w.page, taken), w.asked.max - Len(w.page), EntryBefore)
      brought == Brought(rows, w.page, w.asked.max)
      marker(row) == <<row.key, ApiVersion(row), row.id>>
      read == [w EXCEPT !.page = page, !.anchored = @ /\ Anchored(w.after)]
  IN IF taken < Len(rows)
       THEN StartVersionsPage(read, marker(rows[Max(brought)]))
     ELSE IF Cardinality(left) > BatchSize /\ Len(page) < w.asked.max
       THEN [read EXCEPT !.after = marker(Last(rows))]
     ELSE EndWalk(read)

LEMMA PlainVersions ==
  ASSUME NEW w, w.asked.delimited = FALSE PROVE VersionsTo(w) = PlainVersionsTo(w)
  <1> DEFINE rows == FirstOf(VersionRange(w.asked.prefix, w.after), BatchSize, Newer)
             entry(row) == LET e == Shown(w.asked, row.key)
                           IN IF e.rolled THEN e ELSE Entry(row.key, FALSE, row.id)
             new(n) == {entry(rows[i]) : i \in 1 .. n} \ ToSet(w.page)
             open == {n \in DOMAIN rows : Len(w.page) + Cardinality(new(n - 1)) < w.asked.max}
             brought == {n \in open : entry(rows[n]) \in new(n) \ new(n - 1)}
  <1>1. ASSUME NEW row PROVE entry(row) = RowEntry(row)
    <2>1. Shown(w.asked, row.key) = Entry(row.key, FALSE, 0)
      BY DEF Shown
    <2>2. Shown(w.asked, row.key).rolled = FALSE
      BY <2>1 DEF Entry
    <2> QED
      BY <2>2 DEF RowEntry
  <1>2. ASSUME NEW n PROVE new(n) = NewEntries(rows, w.page, n)
    <2> HIDE DEF rows, entry
    <2> QED
      BY <1>1 DEF NewEntries
  <1>3. open = Open(rows, w.page, w.asked.max)
    <2> HIDE DEF rows, new
    <2> QED
      BY <1>2 DEF Open
  <1>4. brought = Brought(rows, w.page, w.asked.max)
    <2> HIDE DEF rows, new, entry, open
    <2> QED
      BY <1>1, <1>2, <1>3 DEF Brought
  <1> HIDE DEF entry, new, open, brought
  <1>5. VersionsTo(w) =
          LET taken == Cardinality(open)
              page == PageUpTo(w.page, new(taken), w.asked.max)
              marker(row) == <<row.key, ApiVersion(row), row.id>>
              read == [w EXCEPT !.page = page, !.anchored = @ /\ Anchored(w.after)]
          IN IF taken < Len(rows)
               THEN StartVersionsPage(read, marker(rows[Max(brought)]))
             ELSE IF Cardinality(VersionRange(w.asked.prefix, w.after)) > BatchSize /\ Len(page) < w.asked.max
               THEN [read EXCEPT !.after = marker(Last(rows))]
             ELSE EndWalk(read)
    BY DEF VersionsTo, open, brought, new, entry
  <1>6. new(Cardinality(open)) = NewEntries(rows, w.page, Cardinality(Open(rows, w.page, w.asked.max)))
    BY <1>2, <1>3
  <1> HIDE DEF rows
  <1> QED
    BY <1>3, <1>4, <1>5, <1>6 DEF PlainVersionsTo, PageUpTo, rows

LEMMA VersionsKeep ==
  ASSUME TableOk, NEW w, Whole(w), w.asked \in Walks, w.asked.kind = "versions",
         w.asked.max < BatchSize, w.asked.delimited = FALSE, Anchored(w.after),
         VersionsWalk(table, w), w.at = "versions"
  PROVE  VersionsWalk(table, VersionsTo(w))
  <1> DEFINE a == w.asked
             s == Entries(w)
             T == VersionRange(a.prefix, w.after)
             rows == FirstOf(T, BatchSize, Newer)
             taken == Cardinality(Open(rows, w.page, a.max))
             q == FirstOf(NewEntries(rows, w.page, taken), a.max - Len(w.page), EntryBefore)
             page == w.page \o q
             read == [w EXCEPT !.page = page, !.anchored = @ /\ Anchored(w.after)]
             m == Max(Brought(rows, w.page, a.max))
             marker(row) == <<row.key, ApiVersion(row), row.id>>
             u == VersionsTo(w)
  <1>1. Question(a) /\ a.max \in Nat /\ a.max # 0 /\ BatchSize \in Nat
    BY AskedIs, BatchAssumption
  <1>2. /\ w.seen \in Seq(EntryType) /\ w.page \in Seq(EntryType) /\ Sorted(s)
        /\ Len(w.page) < a.max /\ Resumes(s, w.after)
        /\ w.steady \subseteq Shows(table, a)
        /\ \A e \in w.steady : Covered(s, e) \/ Ahead(s, e)
    BY DEF VersionsWalk
  <1>3. u = IF taken < Len(rows) THEN StartVersionsPage(read, marker(rows[m]))
            ELSE IF Cardinality(T) > BatchSize /\ Len(page) < a.max
              THEN [read EXCEPT !.after = marker(Last(rows))]
            ELSE EndWalk(read)
    BY PlainVersions DEF PlainVersionsTo
  <1>4. s \in Seq(EntryType) /\ Len(w.page) \in Nat
    <2>1. s \in Seq(EntryType)
      BY <1>2, ConcatIs DEF Entries
    <2> QED
      BY <1>2, <2>1
  <1>5. ASSUME NEW r \in table, InPrefix(a.prefix, r.key)
        PROVE  r \in T <=> Ahead(s, RowEntry(r))
    <2>1. RowEntry(r).key = r.key /\ RowEntry(r).id = r.id
      BY DEF RowEntry, Entry
    <2>2. CASE s = <<>>
      <3>1. w.after = Nothing
        BY <1>2, <2>2 DEF Resumes
      <3> QED
        BY <1>5, <2>2, <3>1 DEF VersionRange, Ahead
    <2>3. CASE s # <<>>
      <3>1. w.after # Nothing /\ w.after[1] = Last(s).key /\ w.after[3] = Last(s).id
        BY <1>2, <2>3 DEF Resumes
      <3>2. MarkerId(w.after[1], w.after[2]) = Last(s).id
        BY <3>1 DEF Anchored
      <3>3. r \in T <=> Before(Last(s).key, r.key) \/ (r.key = Last(s).key /\ r.id < Last(s).id)
        BY <1>5, <3>1, <3>2 DEF VersionRange
      <3>4. r.id \in Nat /\ Last(s).id \in Nat
        <4>1. r.id \in Nat
          BY DEF TableOk, RowOrdered, ObjectRow
        <4>2. Last(s) \in EntryType
          <5>1. Last(s) = s[Len(s)] /\ Len(s) \in 1 .. Len(s)
            BY <1>4, <2>3, LastIs
          <5>2. \A i \in 1 .. Len(s) : s[i] \in EntryType
            BY <1>4, SeqType
          <5> QED
            BY <5>1, <5>2
        <4> QED
          BY <4>1, <4>2 DEF EntryType
      <3>5. r.id < Last(s).id <=> Last(s).id > r.id
        BY <3>4
      <3> QED
        BY <2>1, <2>3, <3>3, <3>5 DEF Ahead, EntryBefore
    <2> QED
      BY <2>2, <2>3
  <1>6. /\ IsFiniteSet(T) /\ RowOrdered(T) /\ \A r \in T : Ahead(s, RowEntry(r))
    <2>1. T \in SUBSET table /\ \A r \in T : InPrefix(a.prefix, r.key)
      BY DEF VersionRange
    <2>2. IsFiniteSet(T)
      <3> HIDE DEF T
      <3> QED
        BY <2>1, FS_Subset DEF TableOk
    <2>3. RowOrdered(T)
      BY <2>1 DEF RowOrdered, TableOk
    <2> QED
      BY <1>5, <2>1, <2>2, <2>3
  <1>7. \A i \in 1 .. Len(w.page) : \E j \in 1 .. Len(s) : w.page[i] = s[j]
    <2> DEFINE x == w.seen
               y == w.page
    <2>1. x \in Seq(EntryType) /\ y \in Seq(EntryType) /\ s = x \o y
      BY <1>2 DEF Entries
    <2> HIDE DEF x, y, s
    <2>2. /\ Len(x) \in Nat /\ Len(y) \in Nat /\ Len(s) = Len(x) + Len(y)
          /\ \A i \in 1 .. Len(y) : s[Len(x) + i] = y[i]
      BY <2>1, ConcatIs
    <2>3. ASSUME NEW i \in 1 .. Len(y) PROVE Len(x) + i \in 1 .. Len(s) /\ s[Len(x) + i] = y[i]
      BY <2>2
    <2> QED
      BY <2>3 DEF y
  <1>8. \A e \in w.steady : \E r \in table : e = RowEntry(r) /\ InPrefix(a.prefix, r.key)
    BY <1>2 DEF Shows, RowEntry
  <1>9. \A e \in w.steady : Covered(s, e) \/ \E r \in T : e = RowEntry(r)
    BY <1>2, <1>5, <1>8
  <1> HIDE DEF s, T
  <1>10. VersionsOutcome(s, w.page, T, rows, a.max, taken, q)
    <2>1. rows = FirstOf(T, BatchSize, Newer)
      OBVIOUS
    <2> HIDE DEF rows
    <2>2. taken = Cardinality(Open(rows, w.page, a.max))
      OBVIOUS
    <2> HIDE DEF taken
    <2>3. q = FirstOf(NewEntries(rows, w.page, taken), a.max - Len(w.page), EntryBefore)
      OBVIOUS
    <2> HIDE DEF q
    <2> QED
      BY <1>1, <1>2, <1>4, <1>6, <1>7, <2>1, <2>2, <2>3, VersionsCore
  <1> HIDE DEF rows, taken, q
  <1>11. /\ rows \in Seq(T) /\ DOMAIN rows = 1 .. Len(rows) /\ Len(rows) \in Nat
         /\ Len(rows) = (IF BatchSize <= Cardinality(T) THEN BatchSize ELSE Cardinality(T))
         /\ taken \in Nat /\ taken <= Len(rows)
         /\ taken = (IF Len(rows) <= a.max - Len(w.page) THEN Len(rows) ELSE a.max - Len(w.page))
         /\ q \in Seq(EntryType) /\ Len(q) = taken /\ Sorted(s \o q)
         /\ taken > 0 => /\ q # <<>> /\ taken \in 1 .. Len(rows)
                         /\ Last(q) = RowEntry(rows[taken]) /\ m = taken
    BY <1>10 DEF VersionsOutcome
  <1>12. /\ \A i \in 1 .. taken : \E j \in 1 .. Len(q) : q[j] = RowEntry(rows[i])
         /\ \A i, j \in 1 .. Len(rows) : i < j => Newer(rows[i], rows[j])
    BY <1>10 DEF VersionsOutcome
  <1>13. /\ \A x \in T : (\E i \in 1 .. Len(rows) : rows[i] = x) \/ (\A i \in 1 .. Len(rows) : Newer(rows[i], x))
         /\ Len(rows) = Cardinality(T) => \A x \in T : \E i \in 1 .. Len(rows) : rows[i] = x
    BY <1>10 DEF VersionsOutcome
  <1>14. w.seen \o page = s \o q /\ page \in Seq(EntryType) /\ Len(page) = Len(w.page) + taken
    <2> DEFINE x == w.seen
               y == w.page
    <2>1. x \in Seq(EntryType) /\ y \in Seq(EntryType) /\ q \in Seq(EntryType) /\ s = x \o y /\ page = y \o q
      BY <1>2, <1>11 DEF s, Entries
    <2> HIDE DEF x, y, page
    <2>2. x \o (y \o q) = (x \o y) \o q
      BY <2>1, ConcatAssoc
    <2>3. y \o q \in Seq(EntryType) /\ Len(y \o q) = Len(y) + Len(q)
      BY <2>1, ConcatIs
    <2> QED
      BY <1>11, <2>1, <2>2, <2>3 DEF x, y
  <1>15. /\ read.asked = a /\ read.seen = w.seen /\ read.page = page /\ read.steady = w.steady
         /\ read.at = "versions" /\ Whole(read)
    <2> DEFINE x == w.anchored /\ Anchored(w.after)
    <2>1. read = [w EXCEPT !.page = page, !.anchored = x]
      OBVIOUS
    <2>2. w.at = "versions"
      OBVIOUS
    <2> HIDE DEF page, read, x
    <2>3. /\ read.asked = w.asked /\ read.seen = w.seen /\ read.page = page /\ read.steady = w.steady
          /\ read.at = w.at
      BY <2>1 DEF Whole
    <2>4. Whole(read)
      BY <2>1 DEF Whole
    <2> QED
      BY <2>2, <2>3, <2>4
  <1> HIDE DEF page, read, m, u
  <1>16. ASSUME NEW i \in 1 .. taken PROVE Covered(s \o q, RowEntry(rows[i]))
    <2>1. PICK j \in 1 .. Len(q) : q[j] = RowEntry(rows[i])
      BY <1>12
    <2>2. Covered(q, RowEntry(rows[i]))
      BY <2>1 DEF Covered
    <2> QED
      BY <1>4, <1>11, <2>2, CoveredStays
  <1>17. \A e \in w.steady : Covered(s \o q, e) \/ \E r \in T : e = RowEntry(r)
    BY <1>4, <1>9, <1>11, CoveredStays
  <1>18. ASSUME NEW r \in T, NEW n \in 1 .. Len(rows), Newer(rows[n], r)
         PROVE  EntryBefore(RowEntry(rows[n]), RowEntry(r))
    BY <1>18 DEF Newer, EntryBefore, RowEntry, Entry
  <1>19. ASSUME NEW i \in 1 .. Len(rows), i > taken, taken > 0
         PROVE  Newer(rows[taken], rows[i]) /\ rows[i] \in T
    <2>1. taken \in 1 .. Len(rows) /\ taken < i
      BY <1>11, <1>19
    <2>2. rows[i] \in T
      BY <1>11, SeqType
    <2> QED
      BY <1>12, <2>1, <2>2
  <1>20. ASSUME NEW r \in T
         PROVE  \/ Covered(s \o q, RowEntry(r))
                \/ taken > 0 /\ EntryBefore(RowEntry(rows[taken]), RowEntry(r))
                \/ taken = 0 /\ Len(rows) # 0
                \/ Len(rows) = 0
    <2>1. CASE taken = 0 \/ Len(rows) = 0
      BY <2>1
    <2>2. CASE taken > 0
      <3>1. CASE \E i \in 1 .. Len(rows) : rows[i] = r
        <4>1. PICK i \in 1 .. Len(rows) : rows[i] = r
          BY <3>1
        <4>2. CASE i <= taken
          <5>1. i \in 1 .. taken
            BY <1>11, <4>2
          <5> QED
            BY <1>16, <4>1, <5>1
        <4>3. CASE i > taken
          <5>1. Newer(rows[taken], r) /\ taken \in 1 .. Len(rows)
            BY <1>11, <1>19, <2>2, <4>1, <4>3
          <5> QED
            BY <1>18, <2>2, <5>1
        <4> QED
          BY <1>11, <4>2, <4>3
      <3>2. CASE \A i \in 1 .. Len(rows) : Newer(rows[i], r)
        <4>1. taken \in 1 .. Len(rows)
          BY <1>11, <2>2
        <4> QED
          BY <1>18, <2>2, <3>2, <4>1
      <3> QED
        BY <1>13, <3>1, <3>2
    <2> QED
      BY <1>11, <2>1, <2>2
  <1>21. taken > 0 => /\ s \o q # <<>> /\ Last(s \o q) = RowEntry(rows[taken])
                      /\ Last(s \o q).key = rows[taken].key /\ Last(s \o q).id = rows[taken].id
    <2>1. SUFFICES ASSUME taken > 0
                   PROVE  s \o q # <<>> /\ Last(s \o q) = RowEntry(rows[taken])
      BY DEF RowEntry, Entry
    <2>2. q # <<>> /\ Last(q) = RowEntry(rows[taken])
      BY <1>11, <2>1
    <2> QED
      BY <1>4, <1>11, <2>2, LastIs
  <1>22. taken = 0 => Len(rows) = 0
    <2>1. a.max - Len(w.page) > 0
      BY <1>1, <1>2, <1>4
    <2> QED
      BY <1>1, <1>4, <1>11, <2>1
  <1>23. Len(rows) = 0 => T = {}
    <2>1. Cardinality(T) \in Nat
      BY <1>6, FS_CardinalityType
    <2>2. BatchSize # 0
      BY BatchAssumption
    <2>3. Len(rows) = 0 => Cardinality(T) = 0
      BY <1>1, <1>11, <2>1, <2>2
    <2> QED
      BY <1>6, <2>3, FS_EmptySet
  <1>24. ASSUME NEW e \in w.steady
         PROVE  Covered(s \o q, e) \/ Ahead(s \o q, e)
    BY <1>11, <1>17, <1>20, <1>21, <1>22, <1>23 DEF Ahead
  <1>25. ASSUME taken < Len(rows) PROVE VersionsWalk(table, u)
    <2>1. taken > 0 /\ m = taken
      BY <1>11, <1>22, <1>25
    <2>2. u = StartVersionsPage(read, marker(rows[taken]))
      BY <1>3, <1>25, <2>1
    <2> DEFINE mk == marker(rows[taken])
    <2>3. mk # Nothing /\ mk[1] = rows[taken].key /\ mk[3] = rows[taken].id
      BY DEF Nothing
    <2> HIDE DEF mk
    <2>4. /\ u.asked = a /\ u.seen = w.seen \o page /\ u.page = <<>> /\ u.steady = w.steady
          /\ u.at = "versions" /\ u.after = mk
      BY <1>15, <2>2 DEF StartVersionsPage, Whole, mk
    <2>5. u.seen \in Seq(EntryType) /\ u.page \in Seq(EntryType) /\ Len(u.page) = 0 /\ Entries(u) = s \o q
      <3>1. Entries(read) = s \o q
        BY <1>14, <1>15 DEF Entries
      <3>2. u.seen = read.seen \o read.page
        BY <1>15, <2>4
      <3> QED
        BY <1>2, <1>14, <1>15, <2>4, <3>1, <3>2, HandedOut
    <2>6. Resumes(Entries(u), u.after)
      BY <1>21, <2>1, <2>3, <2>4, <2>5 DEF Resumes
    <2>7. Len(u.page) < u.asked.max
      BY <1>1, <2>4, <2>5
    <2>8. \A e \in u.steady : Covered(Entries(u), e) \/ Ahead(Entries(u), e)
      BY <1>24, <2>4, <2>5
    <2>9. Sorted(Entries(u)) /\ u.steady \subseteq Shows(table, u.asked)
      BY <1>2, <1>11, <2>4, <2>5
    <2> QED
      BY <2>4, <2>5, <2>6, <2>7, <2>8, <2>9 DEF VersionsWalk
  <1>26. ASSUME ~(taken < Len(rows)), Cardinality(T) > BatchSize, Len(page) < a.max
         PROVE  VersionsWalk(table, u)
    <2>1. taken = Len(rows) /\ taken > 0
      <3>1. Cardinality(T) \in Nat /\ BatchSize # 0
        BY <1>6, FS_CardinalityType, BatchAssumption
      <3>2. Len(rows) # 0
        BY <1>1, <1>11, <1>26, <3>1
      <3> QED
        BY <1>11, <1>26, <3>2
    <2>2. u = [read EXCEPT !.after = marker(rows[taken])]
      BY <1>3, <1>26, <2>1 DEF Last
    <2> DEFINE mk == marker(rows[taken])
    <2>3. mk # Nothing /\ mk[1] = rows[taken].key /\ mk[3] = rows[taken].id
      BY DEF Nothing
    <2> HIDE DEF mk
    <2>4. /\ u.asked = a /\ u.seen = w.seen /\ u.page = page /\ u.steady = w.steady
          /\ u.at = "versions" /\ u.after = mk
      BY <1>15, <2>2 DEF Whole, mk
    <2>5. u.seen \in Seq(EntryType) /\ u.page \in Seq(EntryType) /\ Entries(u) = s \o q
      BY <1>2, <1>14, <2>4 DEF Entries
    <2>6. Resumes(Entries(u), u.after)
      BY <1>21, <2>1, <2>3, <2>4, <2>5 DEF Resumes
    <2>7. Len(u.page) < u.asked.max
      BY <1>26, <2>4
    <2>8. \A e \in u.steady : Covered(Entries(u), e) \/ Ahead(Entries(u), e)
      BY <1>24, <2>4, <2>5
    <2>9. Sorted(Entries(u)) /\ u.steady \subseteq Shows(table, u.asked)
      BY <1>2, <1>11, <2>4, <2>5
    <2> QED
      BY <2>4, <2>5, <2>6, <2>7, <2>8, <2>9 DEF VersionsWalk
  <1>27. ASSUME ~(taken < Len(rows)), ~(Cardinality(T) > BatchSize /\ Len(page) < a.max)
         PROVE  VersionsWalk(table, u)
    <2>1. u = EndWalk(read)
      BY <1>3, <1>27
    <2>2. /\ u.asked = a /\ u.seen = w.seen \o page /\ u.page = <<>> /\ u.steady = w.steady
          /\ u.at = "done"
      BY <1>15, <2>1 DEF EndWalk, Whole
    <2>3. u.seen \in Seq(EntryType) /\ u.page \in Seq(EntryType) /\ Entries(u) = s \o q
      <3>1. Entries(read) = s \o q
        BY <1>14, <1>15 DEF Entries
      <3>2. u.seen = read.seen \o read.page
        BY <1>15, <2>2
      <3> QED
        BY <1>2, <1>14, <1>15, <2>2, <3>1, <3>2, HandedOut
    <2>4. Len(rows) = Cardinality(T) /\ taken = Len(rows)
      <3>1. Cardinality(T) \in Nat
        BY <1>6, FS_CardinalityType
      <3>2. taken = Len(rows) /\ taken <= a.max - Len(w.page)
        <4>1. taken <= a.max - Len(w.page)
          BY <1>1, <1>4, <1>11
        <4> QED
          BY <1>11, <1>27, <4>1
      <3>3. ~(BatchSize < Cardinality(T))
        <4>1. SUFFICES ASSUME BatchSize < Cardinality(T) PROVE FALSE
          OBVIOUS
        <4>2. Len(rows) = BatchSize
          BY <1>1, <1>11, <3>1, <4>1
        <4>3. Len(page) < a.max => FALSE
          BY <1>1, <1>27, <3>1, <4>1
        <4>4. Len(page) = Len(w.page) + BatchSize /\ BatchSize <= a.max - Len(w.page)
          BY <1>14, <3>2, <4>2
        <4> QED
          BY <1>1, <1>4, <4>4
      <3>4. Len(rows) = Cardinality(T)
        BY <1>1, <1>11, <3>1, <3>3
      <3> QED
        BY <3>2, <3>4
    <2>5. ASSUME NEW e \in w.steady PROVE Covered(s \o q, e)
      <3>1. SUFFICES ASSUME NEW r \in T, e = RowEntry(r) PROVE Covered(s \o q, e)
        BY <1>17
      <3>2. PICK i \in 1 .. Len(rows) : rows[i] = r
        BY <1>13, <2>4
      <3> QED
        BY <1>16, <2>4, <3>1, <3>2
    <2>6. Sorted(Entries(u)) /\ u.steady \subseteq Shows(table, u.asked)
          /\ \A e \in u.steady : Covered(Entries(u), e)
      BY <1>2, <1>11, <2>2, <2>3, <2>5
    <2> QED
      BY <2>2, <2>3, <2>6 DEF VersionsWalk
  <1> QED
    BY <1>25, <1>26, <1>27 DEF u

-----------------------------------------------------------------------------
(* The invariant of the walks, and the theorems. *)

WalkOk(t, w) ==
  /\ Whole(w)
  /\ w.at # "off" =>
       /\ w.asked \in Walks
       /\ Sound(w) => \/ w.asked.kind = "objects" /\ ObjectsWalk(t, w)
                      \/ w.asked.kind = "versions" /\ VersionsWalk(t, w)

ListInv ==
  /\ TableOk
  /\ walk = [r \in Reader |-> walk[r]]
  /\ \A r \in Reader : WalkOk(table, walk[r])

-----------------------------------------------------------------------------
(* Listings go on. *)

LEMMA BatchShape ==
  ASSUME NEW w, Whole(w), w.at = "batch"
  PROVE  /\ Whole(BatchTo(w)) /\ BatchTo(w).asked = w.asked /\ BatchTo(w).anchored = w.anchored
         /\ BatchTo(w).at \in {"batch", "probe"}
  <1>1. PICK x, y, z : BatchTo(w) = [w EXCEPT !.page = x, !.inclusive = y, !.lower = z]
                         \/ BatchTo(w) = [w EXCEPT !.page = x, !.at = "probe"]
    BY DEF BatchTo
  <1> QED
    BY <1>1 DEF Whole

LEMMA ProbeShape ==
  ASSUME NEW w, Whole(w), w.at = "probe"
  PROVE  /\ Whole(ProbeTo(w)) /\ ProbeTo(w).asked = w.asked /\ ProbeTo(w).anchored = w.anchored
         /\ ProbeTo(w).at \in {"batch", "done"}
  <1>1. PICK y, z, s :
          \/ ProbeTo(w) = [w EXCEPT !.at = "batch", !.lower = z, !.inclusive = y, !.page = <<>>, !.seen = s]
          \/ ProbeTo(w) = [w EXCEPT !.at = "done", !.seen = s, !.page = <<>>]
    BY DEF ProbeTo, StartPage, EndWalk
  <1> QED
    BY <1>1 DEF Whole

LEMMA VersionsShape ==
  ASSUME NEW w, Whole(w), w.at = "versions"
  PROVE  /\ Whole(VersionsTo(w)) /\ VersionsTo(w).asked = w.asked
         /\ VersionsTo(w).anchored => w.anchored /\ Anchored(w.after)
         /\ VersionsTo(w).at \in {"versions", "done"}
  <1> DEFINE c == w.anchored /\ Anchored(w.after)
  <1>1. PICK x, read, z :
          /\ read = [w EXCEPT !.page = x, !.anchored = c]
          /\ \/ VersionsTo(w) = StartVersionsPage(read, z)
             \/ VersionsTo(w) = [read EXCEPT !.after = z]
             \/ VersionsTo(w) = EndWalk(read)
    BY DEF VersionsTo
  <1> HIDE DEF c
  <1>2. Whole(read) /\ read.asked = w.asked /\ read.anchored = c /\ read.at = "versions"
    BY <1>1 DEF Whole
  <1>3. PICK s : \/ VersionsTo(w) = [read EXCEPT !.at = "versions", !.after = z, !.page = <<>>, !.seen = s]
                 \/ VersionsTo(w) = [read EXCEPT !.after = z]
                 \/ VersionsTo(w) = [read EXCEPT !.at = "done", !.seen = s, !.page = <<>>]
    BY <1>1 DEF StartVersionsPage, EndWalk
  <1>4. /\ Whole(VersionsTo(w)) /\ VersionsTo(w).asked = read.asked
        /\ VersionsTo(w).anchored = c
        /\ VersionsTo(w).at \in {"versions", "done"}
    BY <1>2, <1>3 DEF Whole
  <1> QED
    BY <1>2, <1>4 DEF c

LEMMA Continue ==
  ASSUME TableOk, NEW w, WalkOk(table, w), NEW u,
         \/ w.at = "batch" /\ u = BatchTo(w)
         \/ w.at = "probe" /\ u = ProbeTo(w)
         \/ w.at = "versions" /\ u = VersionsTo(w)
  PROVE  WalkOk(table, u)
  <1>1. Whole(w) /\ w.at # "off" /\ w.asked \in Walks
    BY DEF WalkOk
  <1>2. CASE w.at = "batch" /\ u = BatchTo(w)
    <2>1. /\ Whole(u) /\ u.asked = w.asked /\ u.anchored = w.anchored
      BY <1>1, <1>2, BatchShape
    <2>2. ASSUME Sound(u) PROVE u.asked.kind = "objects" /\ ObjectsWalk(table, u)
      <3>1. Sound(w)
        BY <2>1, <2>2 DEF Sound
      <3>2. w.asked.kind = "objects" /\ ObjectsWalk(table, w)
        BY <1>1, <1>2, <3>1 DEF WalkOk, VersionsWalk
      <3> QED
        BY <1>1, <1>2, <2>1, <3>2, BatchKeeps
    <2> QED
      BY <1>1, <2>1, <2>2 DEF WalkOk
  <1>3. CASE w.at = "probe" /\ u = ProbeTo(w)
    <2>1. /\ Whole(u) /\ u.asked = w.asked /\ u.anchored = w.anchored
      BY <1>1, <1>3, ProbeShape
    <2>2. ASSUME Sound(u) PROVE u.asked.kind = "objects" /\ ObjectsWalk(table, u)
      <3>1. Sound(w)
        BY <2>1, <2>2 DEF Sound
      <3>2. w.asked.kind = "objects" /\ ObjectsWalk(table, w)
        BY <1>1, <1>3, <3>1 DEF WalkOk, VersionsWalk
      <3> QED
        BY <1>1, <1>3, <2>1, <3>1, <3>2, ProbeKeeps
    <2> QED
      BY <1>1, <2>1, <2>2 DEF WalkOk
  <1>4. CASE w.at = "versions" /\ u = VersionsTo(w)
    <2>1. /\ Whole(u) /\ u.asked = w.asked /\ (u.anchored => w.anchored /\ Anchored(w.after))
      BY <1>1, <1>4, VersionsShape
    <2>2. w.asked.kind \in {"objects", "versions"} /\ w.asked.delimited \in BOOLEAN
      BY <1>1, AskedIs DEF Question
    <2>3. ASSUME Sound(u) PROVE u.asked.kind = "versions" /\ VersionsWalk(table, u)
      <3>1. Sound(w)
        BY <2>1, <2>3 DEF Sound
      <3>2. w.asked.kind = "versions" /\ VersionsWalk(table, w)
        BY <1>1, <1>4, <3>1 DEF WalkOk, ObjectsWalk
      <3>3. w.asked.max < BatchSize /\ w.asked.delimited = FALSE /\ Anchored(w.after)
        BY <2>1, <2>2, <2>3, <3>2 DEF Sound
      <3> QED
        BY <1>1, <1>4, <2>1, <3>2, <3>3, VersionsKeep
    <2> QED
      BY <1>1, <2>1, <2>3 DEF WalkOk
  <1> QED
    BY <1>2, <1>3, <1>4

Begun(v, a, shows) == [v EXCEPT !.asked = a, !.steady = shows]

LEMMA BegunShape ==
  ASSUME NEW v, Whole(v), NEW a, NEW z
  PROVE  /\ Whole(Begun(v, a, z)) /\ Begun(v, a, z).asked = a /\ Begun(v, a, z).steady = z
         /\ Begun(v, a, z).page = v.page /\ Begun(v, a, z).seen = v.seen
         /\ Begun(v, a, z).anchored = v.anchored
  <1> DEFINE w == Begun(v, a, z)
  <1>1. w = [v EXCEPT !.asked = a, !.steady = z]
    BY DEF Begun
  <1> HIDE DEF w
  <1>2. Whole(w) /\ w.asked = a /\ w.steady = z /\ w.page = v.page /\ w.seen = v.seen
        /\ w.anchored = v.anchored
    BY <1>1 DEF Whole
  <1> QED
    BY <1>2 DEF w

LEMMA BeginKeeps ==
  ASSUME NEW a \in Walks, NEW w, w = Begun(NoWalk, a, Shows(table, a)),
         NEW u, u = IF a.kind = "objects" THEN StartPage(w, Nothing) ELSE StartVersionsPage(w, Nothing)
  PROVE  WalkOk(table, u)
  <1>1. /\ Whole(w) /\ w.asked = a /\ w.page = <<>> /\ w.seen = <<>> /\ w.steady = Shows(table, a)
        /\ w.anchored
    <2>1. Whole(NoWalk) /\ NoWalk.page = <<>> /\ NoWalk.seen = <<>> /\ NoWalk.anchored = TRUE
      BY DEF NoWalk, Whole
    <2> QED
      BY <2>1, BegunShape
  <1>2. a.max \in Nat /\ a.max # 0 /\ a.kind \in {"objects", "versions"} /\ Question(a)
    BY AskedIs
  <1>3. <<>> \in Seq(EntryType) /\ <<>> \o <<>> = <<>> /\ Len(<<>>) = 0
    OBVIOUS
  <1>4. Sorted(<<>>)
    BY <1>3 DEF Sorted
  <1>0. Len(<<>>) < a.max
    BY <1>2, <1>3
  <1>5. CASE a.kind = "objects"
    <2>1. u = StartPage(w, Nothing)
      BY <1>5
    <2>2. /\ u.at = "batch" /\ u.asked = a /\ u.lower = Nothing /\ u.page = <<>> /\ u.seen = <<>>
          /\ u.steady = Shows(table, a) /\ Whole(u)
      <3>1. PICK i, s : /\ u = [w EXCEPT !.at = "batch", !.lower = Nothing, !.inclusive = i, !.page = <<>>,
                                         !.seen = s]
                        /\ s = w.seen \o w.page
        BY <2>1 DEF StartPage
      <3>2. s = <<>>
        BY <1>1, <1>3, <3>1
      <3> QED
        BY <1>1, <3>1, <3>2 DEF Whole
    <2>3. Entries(u) = <<>>
      BY <1>3, <2>2 DEF Entries
    <2>4. Follows(Entries(u), u.asked, u.lower, u.inclusive)
      BY <2>2, <2>3 DEF Follows, Past, Ahead
    <2>5. \A e \in u.steady : Ahead(Entries(u), Shown(u.asked, e.key))
      BY <2>3 DEF Ahead
    <2>6. u.seen \in Seq(EntryType) /\ u.page \in Seq(EntryType) /\ Sorted(Entries(u))
      BY <1>3, <1>4, <2>2, <2>3
    <2>7. \A i \in 1 .. Len(Entries(u)) :
            \E k \in Key : InPrefix(u.asked.prefix, k) /\ Entries(u)[i] = Shown(u.asked, k)
      <3>1. 1 .. Len(Entries(u)) = {}
        BY <1>3, <2>3
      <3> QED
        BY <3>1
    <2>8. /\ u.at \in {"batch", "probe", "done"}
          /\ u.at = "batch" => /\ Len(u.page) < u.asked.max
                               /\ Follows(Entries(u), u.asked, u.lower, u.inclusive)
          /\ u.at = "done" => u.page = <<>>
      BY <1>0, <2>2, <2>4
    <2>9. /\ u.steady \subseteq Shows(table, u.asked)
          /\ \A e \in u.steady :
               \/ Covered(Entries(u), e)
               \/ /\ Ahead(Entries(u), Shown(u.asked, e.key))
                  /\ u.at = "batch" \/ (u.at = "probe" /\ Len(u.page) >= u.asked.max)
      BY <2>2, <2>5
    <2>10. ObjectsWalk(table, u)
      BY <2>6, <2>7, <2>8, <2>9 DEF ObjectsWalk
    <2> QED
      BY <1>5, <2>2, <2>10 DEF WalkOk
  <1>6. CASE a.kind # "objects"
    <2>1. u = StartVersionsPage(w, Nothing)
      BY <1>6
    <2>2. /\ u.at = "versions" /\ u.asked = a /\ u.after = Nothing /\ u.page = <<>> /\ u.seen = <<>>
          /\ u.steady = Shows(table, a) /\ Whole(u)
      BY <1>1, <1>3, <2>1 DEF StartVersionsPage, Whole
    <2>3. Entries(u) = <<>>
      BY <1>3, <2>2 DEF Entries
    <2>4. Resumes(Entries(u), u.after) /\ \A e \in u.steady : Ahead(Entries(u), e)
      BY <2>2, <2>3 DEF Resumes, Ahead
    <2>5. VersionsWalk(table, u)
      BY <1>0, <1>3, <1>4, <2>2, <2>3, <2>4 DEF VersionsWalk
    <2> QED
      BY <1>2, <1>6, <2>2, <2>5 DEF WalkOk
  <1> QED
    BY <1>5, <1>6

-----------------------------------------------------------------------------
(* The table changes. *)

LEMMA LoseSight ==
  ASSUME NEW t, NEW t2, NEW w, WalkOk(t, w), NEW u,
         u = IF w.at = "off" THEN w ELSE [w EXCEPT !.steady = @ \cap Shows(t2, w.asked)]
  PROVE  WalkOk(t2, u)
  <1>1. CASE w.at = "off"
    BY <1>1 DEF WalkOk
  <1>2. CASE w.at # "off"
    <2>1. Whole(w) /\ w.asked \in Walks
      BY <1>2 DEF WalkOk
    <2> DEFINE x == w.steady \cap Shows(t2, w.asked)
    <2>2. u = [w EXCEPT !.steady = x]
      BY <1>2
    <2>3. x \subseteq w.steady /\ x \subseteq Shows(t2, w.asked)
      OBVIOUS
    <2> HIDE DEF x
    <2>4. /\ Whole(u) /\ u.at = w.at /\ u.asked = w.asked /\ u.lower = w.lower /\ u.inclusive = w.inclusive
          /\ u.after = w.after /\ u.page = w.page /\ u.seen = w.seen /\ u.steady = x /\ u.anchored = w.anchored
      BY <2>1, <2>2 DEF Whole
    <2>5. Entries(u) = Entries(w)
      BY <2>4 DEF Entries
    <2>6. Sound(u) => Sound(w)
      BY <2>4 DEF Sound
    <2>7. ObjectsWalk(t, w) => ObjectsWalk(t2, u)
      BY <2>3, <2>4, <2>5 DEF ObjectsWalk
    <2>8. VersionsWalk(t, w) => VersionsWalk(t2, u)
      BY <2>3, <2>4, <2>5 DEF VersionsWalk
    <2> QED
      BY <1>2, <2>1, <2>4, <2>6, <2>7, <2>8 DEF WalkOk
  <1> QED
    BY <1>1, <1>2

LEMMA BecomeKeeps ==
  ASSUME ListInv, NEW t, Become(t), NEW r \in Reader
  PROVE  WalkOk(t, walk'[r])
  <1>1. PICK u : u = walk'[r]
    OBVIOUS
  <1>2. u = IF walk[r].at = "off" THEN walk[r]
            ELSE [walk[r] EXCEPT !.steady = @ \cap Shows(t, walk[r].asked)]
    BY <1>1 DEF Become
  <1>3. WalkOk(table, walk[r])
    BY DEF ListInv
  <1>4. WalkOk(t, u)
    BY <1>2, <1>3, LoseSight
  <1> QED
    BY <1>1, <1>4

\* A set of rows, some of which are marked as the latest or no longer so.
LEMMA Remarked ==
  ASSUME NEW S, IsFiniteSet(S), RowOrdered(S), NEW b \in BOOLEAN
  PROVE  LET T == {[r EXCEPT !.latest = b] : r \in S}
         IN IsFiniteSet(T) /\ T \subseteq ObjectRow /\ \A x \in T : \E r \in S : x = [r EXCEPT !.latest = b] /\ x.id = r.id
  <1> DEFINE T == {[r EXCEPT !.latest = b] : r \in S}
             f == [r \in S |-> [r EXCEPT !.latest = b]]
  <1>1. f \in Surjection(S, T)
    BY DEF Surjection
  <1>2. IsFiniteSet(T)
    <2> HIDE DEF f, T
    <2> QED
      BY <1>1, FS_Surjection
  <1>3. ASSUME NEW r \in S PROVE [r EXCEPT !.latest = b] \in ObjectRow /\ [r EXCEPT !.latest = b].id = r.id
    BY DEF RowOrdered, ObjectRow
  <1> QED
    BY <1>2, <1>3

LEMMA IdsOf ==
  ASSUME TableOk, NEW S \in SUBSET table, S # {}
  PROVE  \E r \in S : Max({s.id : s \in S}) = r.id
  <1> DEFINE I == {s.id : s \in S}
  <1>1. \A s \in S : s.id \in Nat /\ nextId \in Nat /\ s.id <= nextId
    BY DEF TableOk, RowOrdered, ObjectRow
  <1>2. I \subseteq Nat /\ I # {} /\ \A x \in I : x <= nextId
    BY <1>1
  <1>3. nextId \in Nat
    BY DEF TableOk
  <1>4. Max(I) \in I
    <2> HIDE DEF I
    <2> QED
      BY <1>2, <1>3, MaxIs
  <1> QED
    BY <1>4

LEMMA SaveKeeps ==
  ASSUME ListInv, NEW k \in Key, NEW version \in Version, NEW marker \in BOOLEAN,
         Save(k, version, marker)
  PROVE  ListInv'
  <1> DEFINE same == {r \in table : r.key = k /\ r.version = version /\ version # "own"}
             id == IF same = {} THEN nextId ELSE Max({r.id : r \in same})
             row == [key |-> k, id |-> id, version |-> version, latest |-> TRUE, marker |-> marker]
             old == {r \in table \ same : r.key = k}
             rest == {r \in table : r.key # k}
             others == {[r EXCEPT !.latest = FALSE] : r \in old}
             t == rest \cup others \cup {row}
             next == IF same = {} THEN nextId + 1 ELSE nextId
  <1>1. Become(t) /\ nextId' = next
    BY DEF Save
  <1>2. /\ IsFiniteSet(table) /\ RowOrdered(table) /\ nextId \in Nat \ {0}
        /\ \A r \in table : r.id < nextId /\ r.id \in Nat \ {0} /\ r \in ObjectRow
    BY DEF ListInv, TableOk, RowOrdered, ObjectRow
  <1>3. /\ same \in SUBSET table /\ old \in SUBSET table /\ rest \in SUBSET table
        /\ \A r \in old : r \notin same /\ r.key = k
        /\ \A r \in rest : r \notin same /\ r.key # k
        /\ same # {} => \A r \in same : r.key = k
    OBVIOUS
  <1>4. /\ same = {} => id = nextId
        /\ same # {} => \E r \in same : id = r.id
    <2>1. TableOk
      BY DEF ListInv
    <2> HIDE DEF same
    <2> QED
      BY <1>3, <2>1, IdsOf
  <1> HIDE DEF same, id
  <1>5. /\ id \in Nat \ {0} /\ id < next /\ next \in Nat \ {0} /\ nextId <= next
        /\ \A r \in old \cup rest : r.id # id /\ r.id < next
    <2>1. CASE same = {}
      <3>1. id = nextId /\ next = nextId + 1
        BY <1>4, <2>1
      <3> QED
        BY <1>2, <1>3, <3>1
    <2>2. CASE same # {}
      <3>1. next = nextId
        BY <2>2
      <3>2. PICK r \in same : id = r.id
        BY <1>4, <2>2
      <3>3. r \in table /\ r.id \in Nat \ {0} /\ r.id < nextId
        BY <1>2, <1>3
      <3>4. \A s \in old \cup rest : s.id # id /\ s.id < nextId
        <4>1. ASSUME NEW s \in old \cup rest PROVE s.id # id /\ s.id < nextId
          <5>1. s \in table /\ s # r
            BY <1>3
          <5> QED
            BY <1>2, <3>2, <3>3, <5>1 DEF RowOrdered
        <4> QED
          BY <4>1
      <3> QED
        BY <1>2, <3>1, <3>2, <3>3, <3>4
    <2> QED
      BY <2>1, <2>2
  <1>6. IsFiniteSet(old) /\ IsFiniteSet(rest) /\ RowOrdered(old) /\ RowOrdered(rest)
    <2>1. IsFiniteSet(old) /\ IsFiniteSet(rest)
      <3> HIDE DEF old, rest
      <3> QED
        BY <1>2, <1>3, FS_Subset
    <2>2. RowOrdered(old) /\ RowOrdered(rest)
      <3> HIDE DEF old, rest
      <3> QED
        BY <1>2, <1>3 DEF RowOrdered
    <2> QED
      BY <2>1, <2>2
  <1>7. /\ IsFiniteSet(others) /\ others \subseteq ObjectRow
        /\ \A x \in others : \E r \in old : x = [r EXCEPT !.latest = FALSE] /\ x.id = r.id
    <2> HIDE DEF old
    <2>1. FALSE \in BOOLEAN
      OBVIOUS
    <2> QED
      BY <1>6, <2>1, Remarked
  <1>8. row \in ObjectRow /\ row.id = id
    BY <1>5 DEF ObjectRow
  <1> HIDE DEF old, rest, others, row, next
  <1>9. IsFiniteSet(t)
    <2>1. IsFiniteSet(rest \cup others)
      BY <1>6, <1>7, FS_Union
    <2> QED
      BY <2>1, FS_AddElement
  <1>10. ASSUME NEW x \in t, NEW y \in t, x.id = y.id PROVE x = y
    <2>1. CASE x = row \/ y = row
      <3>1. ASSUME NEW z \in rest \cup others PROVE z.id # id
        BY <1>5, <1>7
      <3> QED
        BY <1>8, <1>10, <2>1, <3>1
    <2>2. CASE x \in rest /\ y \in rest
      BY <1>6, <1>10, <2>2 DEF RowOrdered
    <2>3. CASE x \in others /\ y \in others
      <3>1. PICK r \in old : x = [r EXCEPT !.latest = FALSE] /\ x.id = r.id
        BY <1>7, <2>3
      <3>2. PICK s \in old : y = [s EXCEPT !.latest = FALSE] /\ y.id = s.id
        BY <1>7, <2>3
      <3>3. r = s
        BY <1>6, <1>10, <3>1, <3>2 DEF RowOrdered
      <3> QED
        BY <3>1, <3>2, <3>3
    <2>4. ASSUME NEW p \in rest, NEW q \in others PROVE p.id # q.id
      <3>1. PICK r \in old : q.id = r.id
        BY <1>7
      <3>2. p \in table /\ r \in table /\ p # r
        BY <1>3
      <3> QED
        BY <1>2, <3>1, <3>2 DEF RowOrdered
    <2> QED
      BY <1>10, <2>1, <2>2, <2>3, <2>4
  <1>11. t \subseteq ObjectRow
    BY <1>6, <1>7, <1>8 DEF RowOrdered
  <1>12. \A r \in t : r.id < next
    <2>1. \A x \in others : x.id < next
      BY <1>5, <1>7
    <2> QED
      BY <1>5, <1>8, <2>1
  <1>13. table' = t /\ nextId' = next
    BY <1>1 DEF Become
  <1>14. TableOk'
    BY <1>5, <1>9, <1>10, <1>11, <1>12, <1>13 DEF TableOk, RowOrdered
  <1>15. \A r \in Reader : WalkOk(t, walk'[r])
    BY <1>1, BecomeKeeps
  <1>16. walk' = [r \in Reader |-> walk'[r]]
    BY <1>1 DEF Become
  <1> QED
    BY <1>13, <1>14, <1>15, <1>16 DEF ListInv

LEMMA UnsaveKeeps ==
  ASSUME ListInv, NEW row \in table, Unsave(row)
  PROVE  ListInv'
  <1> DEFINE others == {r \in table \ {row} : r.key = row.key}
             heir == IF row.latest /\ others # {}
                       THEN {r \in others : \A s \in others : s.id <= r.id} ELSE {}
             staying == (table \ {row}) \ heir
             new == {[r EXCEPT !.latest = TRUE] : r \in heir}
             t == staying \cup new
  <1>1. Become(t) /\ nextId' = nextId
    BY DEF Unsave
  <1>2. /\ IsFiniteSet(table) /\ RowOrdered(table) /\ nextId \in Nat \ {0}
        /\ \A r \in table : r.id < nextId /\ r \in ObjectRow
    BY DEF ListInv, TableOk, RowOrdered
  <1>3. heir \in SUBSET table /\ staying \in SUBSET table /\ \A r \in heir : r \notin staying
    OBVIOUS
  <1> HIDE DEF heir
  <1>4. IsFiniteSet(heir) /\ IsFiniteSet(staying) /\ RowOrdered(heir) /\ RowOrdered(staying)
    <2> HIDE DEF staying
    <2>1. IsFiniteSet(heir) /\ IsFiniteSet(staying)
      BY <1>2, <1>3, FS_Subset
    <2>2. RowOrdered(heir) /\ RowOrdered(staying)
      BY <1>2, <1>3 DEF RowOrdered
    <2> QED
      BY <2>1, <2>2
  <1>5. /\ IsFiniteSet(new) /\ new \subseteq ObjectRow
        /\ \A x \in new : \E r \in heir : x = [r EXCEPT !.latest = TRUE] /\ x.id = r.id
    <2>1. TRUE \in BOOLEAN
      OBVIOUS
    <2> QED
      BY <1>4, <2>1, Remarked
  <1> HIDE DEF staying, new
  <1>6. IsFiniteSet(t)
    BY <1>4, <1>5, FS_Union
  <1>7. ASSUME NEW x \in t, NEW y \in t, x.id = y.id PROVE x = y
    <2>1. CASE x \in staying /\ y \in staying
      BY <1>4, <1>7, <2>1 DEF RowOrdered
    <2>2. CASE x \in new /\ y \in new
      <3>1. PICK r \in heir : x = [r EXCEPT !.latest = TRUE] /\ x.id = r.id
        BY <1>5, <2>2
      <3>2. PICK s \in heir : y = [s EXCEPT !.latest = TRUE] /\ y.id = s.id
        BY <1>5, <2>2
      <3>3. r = s
        BY <1>4, <1>7, <3>1, <3>2 DEF RowOrdered
      <3> QED
        BY <3>1, <3>2, <3>3
    <2>3. ASSUME NEW p \in staying, NEW q \in new PROVE p.id # q.id
      <3>1. PICK r \in heir : q.id = r.id
        BY <1>5
      <3>2. p \in table /\ r \in table /\ p # r
        BY <1>3
      <3> QED
        BY <1>2, <3>1, <3>2 DEF RowOrdered
    <2> QED
      BY <1>7, <2>1, <2>2, <2>3
  <1>8. t \subseteq ObjectRow /\ \A r \in t : r.id < nextId
    <2>1. \A x \in new : x.id < nextId
      BY <1>2, <1>3, <1>5
    <2> QED
      BY <1>2, <1>3, <1>5, <2>1
  <1>9. table' = t /\ nextId' = nextId
    BY <1>1 DEF Become
  <1>10. TableOk'
    BY <1>2, <1>6, <1>7, <1>8, <1>9 DEF TableOk, RowOrdered
  <1>11. \A r \in Reader : WalkOk(t, walk'[r])
    BY <1>1, BecomeKeeps
  <1>12. walk' = [r \in Reader |-> walk'[r]]
    BY <1>1 DEF Become
  <1> QED
    BY <1>9, <1>10, <1>11, <1>12 DEF ListInv

-----------------------------------------------------------------------------
(* The invariant. *)

LEMMA ListInitInv == ListInit => ListInv
  <1> SUFFICES ASSUME ListInit PROVE ListInv
    OBVIOUS
  <1>1. IsFiniteSet(table) /\ RowOrdered(table)
    BY TableAssumption DEF ListInit, RowOrdered
  <1> DEFINE I == {r.id : r \in table}
             J == {0} \cup I
  <1>2. IsFiniteSet(J) /\ J \subseteq Nat /\ J # {}
    <2> DEFINE f == [r \in table |-> r.id]
    <2>1. f \in Surjection(table, I)
      BY DEF Surjection
    <2>2. IsFiniteSet(I)
      <3> HIDE DEF f, I
      <3> QED
        BY <1>1, <2>1, FS_Surjection
    <2>3. I \subseteq Nat
      BY <1>1 DEF RowOrdered, ObjectRow
    <2>4. IsFiniteSet({0} \cup I)
      <3> HIDE DEF I
      <3>1. IsFiniteSet(I \cup {0})
        BY <2>2, FS_AddElement
      <3>2. I \cup {0} = {0} \cup I
        OBVIOUS
      <3> QED
        BY <3>1, <3>2
    <2> QED
      BY <2>3, <2>4
  <1>3. Max(J) \in J /\ \A x \in J : x <= Max(J)
    <2> HIDE DEF J
    <2>1. PICK n \in Nat : \A x \in J : x <= n
      BY <1>2, Bounded
    <2> QED
      BY <1>2, <2>1, MaxIs
  <1>4. nextId = 1 + Max(J) /\ Max(J) \in Nat
    BY <1>2, <1>3 DEF ListInit
  <1>5. nextId \in Nat \ {0} /\ \A r \in table : r.id < nextId
    <2>1. \A r \in table : r.id \in J
      OBVIOUS
    <2> HIDE DEF J
    <2>2. nextId \in Nat \ {0} /\ \A x \in J : x < nextId
      BY <1>2, <1>3, <1>4
    <2> QED
      BY <2>1, <2>2
  <1>6. \A r \in Reader : walk[r] = NoWalk
    BY DEF ListInit
  <1>7. WalkOk(table, NoWalk)
    BY DEF WalkOk, Whole, NoWalk
  <1>8. walk = [r \in Reader |-> walk[r]]
    BY DEF ListInit
  <1> QED
    BY <1>1, <1>5, <1>6, <1>7, <1>8 DEF ListInv, TableOk

LEMMA ListNextInv == ListInv /\ [ListNext]_listVars => ListInv'
  <1> SUFFICES ASSUME ListInv, [ListNext]_listVars PROVE ListInv'
    OBVIOUS
  <1>1. CASE Change
    BY <1>1, SaveKeeps, UnsaveKeeps DEF Change
  <1>2. ASSUME NEW r \in Reader, NEW w, walk' = [walk EXCEPT ![r] = w],
               UNCHANGED <<table, nextId>>, WalkOk(table, w)
        PROVE  ListInv'
    <2>1. TableOk'
      BY <1>2 DEF ListInv, TableOk
    <2>2. walk' = [q \in Reader |-> walk'[q]]
      BY <1>2 DEF ListInv
    <2>3. \A q \in Reader : walk'[q] = IF q = r THEN w ELSE walk[q]
      BY <1>2 DEF ListInv
    <2>4. \A q \in Reader : WalkOk(table, walk'[q])
      BY <1>2, <2>3 DEF ListInv
    <2> QED
      BY <1>2, <2>1, <2>2, <2>4 DEF ListInv
  <1>3. ASSUME NEW r \in Reader, BeginWalk(r) PROVE ListInv'
    <2>1. PICK a \in Walks :
            LET w == Begun(NoWalk, a, Shows(table, a))
            IN walk' = [walk EXCEPT ![r] = IF a.kind = "objects" THEN StartPage(w, Nothing)
                                           ELSE StartVersionsPage(w, Nothing)]
      BY <1>3 DEF BeginWalk, Begun
    <2> DEFINE w == Begun(NoWalk, a, Shows(table, a))
               u == IF a.kind = "objects" THEN StartPage(w, Nothing) ELSE StartVersionsPage(w, Nothing)
    <2>2. WalkOk(table, u)
      BY BeginKeeps
    <2>3. walk' = [walk EXCEPT ![r] = u] /\ UNCHANGED <<table, nextId>>
      BY <1>3, <2>1 DEF BeginWalk
    <2> HIDE DEF u
    <2> QED
      BY <1>2, <2>2, <2>3
  <1>4. ASSUME NEW r \in Reader, WalkStep(r) PROVE ListInv'
    <2>1. PICK u : /\ walk' = [walk EXCEPT ![r] = u] /\ UNCHANGED <<table, nextId>>
                   /\ \/ walk[r].at = "batch" /\ u = BatchTo(walk[r])
                      \/ walk[r].at = "probe" /\ u = ProbeTo(walk[r])
                      \/ walk[r].at = "versions" /\ u = VersionsTo(walk[r])
      BY <1>4, BatchIs, ProbeIs, VersionsBatchIs DEF WalkStep
    <2>2. TableOk /\ WalkOk(table, walk[r])
      BY DEF ListInv
    <2>3. WalkOk(table, u)
      BY <2>1, <2>2, Continue
    <2> QED
      BY <1>2, <2>1, <2>3
  <1>5. CASE UNCHANGED listVars
    BY <1>5 DEF listVars, ListInv, TableOk
  <1> QED
    BY <1>1, <1>3, <1>4, <1>5 DEF ListNext

LEMMA InvListedInOrder == ListInv => ListedInOrder
  <1> SUFFICES ASSUME ListInv, NEW r \in Reader, walk[r].at # "off", Sound(walk[r])
               PROVE  InOrder(walk[r])
    BY DEF ListedInOrder
  <1> DEFINE w == walk[r]
             s == Entries(w)
  <1>1. w.asked \in Walks /\ (\/ w.asked.kind = "objects" /\ ObjectsWalk(table, w)
                              \/ w.asked.kind = "versions" /\ VersionsWalk(table, w))
    BY DEF ListInv, WalkOk
  <1>2. s \in Seq(EntryType) /\ Sorted(s) /\ Len(s) \in Nat
    <2>1. w.seen \in Seq(EntryType) /\ w.page \in Seq(EntryType) /\ Sorted(s)
      BY <1>1 DEF ObjectsWalk, VersionsWalk
    <2>2. s \in Seq(EntryType)
      <3> DEFINE x == w.seen
                 y == w.page
      <3>1. x \in Seq(EntryType) /\ y \in Seq(EntryType)
        BY <2>1
      <3> HIDE DEF x, y
      <3>2. x \o y \in Seq(EntryType)
        BY <3>1, ConcatIs
      <3> QED
        BY <3>2 DEF x, y, Entries
    <2> HIDE DEF s
    <2>3. Len(s) \in Nat
      BY <2>2
    <2> QED
      BY <2>1, <2>2, <2>3
  <1>3. ASSUME NEW i \in 1 .. Len(s) - 1
        PROVE  \/ Before(s[i].key, s[i + 1].key)
               \/ /\ w.asked.kind = "versions"
                  /\ s[i].key = s[i + 1].key /\ s[i].id > s[i + 1].id
    <2>1. i \in 1 .. Len(s) /\ i + 1 \in 1 .. Len(s) /\ i < i + 1
      <3> HIDE DEF s
      <3> QED
        BY <1>2
    <2>2. EntryBefore(s[i], s[i + 1])
      BY <1>2, <2>1 DEF Sorted
    <2>3. CASE w.asked.kind = "versions"
      BY <2>2, <2>3 DEF EntryBefore
    <2>4. CASE w.asked.kind = "objects" /\ ObjectsWalk(table, w)
      <3>1. PICK k \in Key : s[i] = Shown(w.asked, k)
        BY <2>1, <2>4 DEF ObjectsWalk
      <3>2. PICK l \in Key : s[i + 1] = Shown(w.asked, l)
        BY <2>1, <2>4 DEF ObjectsWalk
      <3>3. s[i].id = 0 /\ s[i + 1].id = 0
        BY <1>1, <3>1, <3>2, AskedIs, KeysAreWords, ShownType
      <3> QED
        BY <2>2, <3>3 DEF EntryBefore
    <2> QED
      BY <1>1, <2>3, <2>4
  <1> QED
    BY <1>3 DEF InOrder, Entries

LEMMA InvWalksAreComplete == ListInv => WalksAreComplete
  <1> SUFFICES ASSUME ListInv, NEW r \in Reader, walk[r].at = "done", Sound(walk[r]),
                      NEW e \in walk[r].steady
               PROVE  Listed(walk[r], e)
    BY DEF WalksAreComplete
  <1> DEFINE w == walk[r]
  <1>1. \/ w.asked.kind = "objects" /\ ObjectsWalk(table, w)
        \/ w.asked.kind = "versions" /\ VersionsWalk(table, w)
    BY DEF ListInv, WalkOk
  <1>2. w.seen \in Seq(EntryType) /\ w.page = <<>> /\ Covered(Entries(w), e)
    BY <1>1 DEF ObjectsWalk, VersionsWalk
  <1>3. Entries(w) = w.seen /\ DOMAIN w.seen = 1 .. Len(w.seen)
    <2> DEFINE x == w.seen
    <2>1. x \in Seq(EntryType)
      BY <1>2
    <2> HIDE DEF x
    <2>2. x \o <<>> = x /\ DOMAIN x = 1 .. Len(x)
      BY <2>1
    <2> QED
      BY <1>2, <2>2 DEF Entries, x
  <1> QED
    BY <1>2, <1>3 DEF Listed, Covered

LEMMA ListInvariant == ListSpec => []ListInv
  BY ListInitInv, ListNextInv, PTL DEF ListSpec

\* Whatever is written and deleted between the queries of a listing, and whatever its marker
\* was made from, no entry comes twice or out of order (db/metadata.go ListObjectsMeta and
\* ListObjectVersions, handler/list.go, handler/list_versions.go).
THEOREM PagesFollowOneAnother == ListSpec => []ListedInOrder
  BY ListInvariant, InvListedInOrder, PTL

\* A client that follows the markers of a listing to its end has been shown all that was
\* there from the first query to the last, under its own key or its common prefix (the same code).
THEOREM NothingIsSkipped == ListSpec => []WalksAreComplete
  BY ListInvariant, InvWalksAreComplete, PTL

-----------------------------------------------------------------------------
(* The WebDAV tree: keys under other names. *)

LEMMA MovedIs ==
  ASSUME NEW k \in Text, NEW src \in Text, NEW dst \in Text, IsPrefix(src, k)
  PROVE  /\ Moved(k, src, dst) \in Text
         /\ Len(Moved(k, src, dst)) = Len(dst) + (Len(k) - Len(src)) /\ Len(src) <= Len(k)
         /\ \A i \in 1 .. Len(dst) : Moved(k, src, dst)[i] = dst[i]
         /\ \A i \in 1 .. (Len(k) - Len(src)) : Moved(k, src, dst)[Len(dst) + i] = k[Len(src) + i]
         /\ IsPrefix(dst, Moved(k, src, dst))
  <1> DEFINE t == SubSeq(k, Len(src) + 1, Len(k))
  <1>1. Len(src) \in Nat /\ Len(k) \in Nat /\ Len(dst) \in Nat /\ Len(src) <= Len(k)
    BY TextType, PrefixMeans
  <1>2. /\ t \in Seq(Nat) /\ Len(t) = Len(k) - Len(src)
        /\ \A i \in 1 .. (Len(k) - Len(src)) : t[i] = k[Len(src) + i]
    <2>1. t \in Seq(Nat) /\ Len(t) = Len(k) - Len(src)
      BY <1>1 DEF Text
    <2>2. t = [i \in 1 .. (Len(k) - Len(src)) |-> k[Len(src) + 1 + i - 1]]
      BY <1>1 DEF Text
    <2>3. ASSUME NEW i \in 1 .. (Len(k) - Len(src)) PROVE t[i] = k[Len(src) + i]
      <3>1. Len(src) + 1 + i - 1 = Len(src) + i
        BY <1>1
      <3> QED
        BY <2>2, <3>1
    <2> QED
      BY <2>1, <2>3
  <1>3. Moved(k, src, dst) = dst \o t
    BY DEF Moved
  <1> HIDE DEF t
  <1>4. /\ dst \o t \in Text /\ Len(dst \o t) = Len(dst) + Len(t)
        /\ \A i \in 1 .. Len(dst) : (dst \o t)[i] = dst[i]
        /\ \A i \in 1 .. Len(t) : (dst \o t)[Len(dst) + i] = t[i]
    BY <1>2, ConcatIs DEF Text
  <1>5. Len(dst) <= Len(dst \o t)
    BY <1>1, <1>2, <1>4
  <1>6. IsPrefix(dst, dst \o t)
    BY <1>4, <1>5, PrefixMeans
  <1> QED
    BY <1>1, <1>2, <1>3, <1>4, <1>6

\* A key keeps its place only if the move is to where it is from.
LEMMA MovedAway ==
  ASSUME NEW k \in Text, NEW src \in Text, NEW dst \in Text, IsPrefix(src, k), src # dst
  PROVE  Moved(k, src, dst) # k
  <1> SUFFICES ASSUME Moved(k, src, dst) = k PROVE FALSE
    OBVIOUS
  <1>1. Len(src) \in Nat /\ Len(k) \in Nat /\ Len(dst) \in Nat
    BY TextType
  <1>0. /\ Len(Moved(k, src, dst)) = Len(dst) + (Len(k) - Len(src))
        /\ \A i \in 1 .. Len(dst) : Moved(k, src, dst)[i] = dst[i]
    BY MovedIs
  <1>2. Len(k) = Len(dst) + (Len(k) - Len(src)) /\ \A i \in 1 .. Len(dst) : k[i] = dst[i]
    BY <1>0
  <1>3. Len(src) = Len(dst)
    BY <1>1, <1>2
  <1>4. \A i \in 1 .. Len(src) : k[i] = src[i]
    BY PrefixMeans
  <1>5. src = [i \in 1 .. Len(src) |-> src[i]] /\ dst = [i \in 1 .. Len(dst) |-> dst[i]]
    BY DEF Text
  <1> QED
    BY <1>2, <1>3, <1>4, <1>5

\* Two prefixes of a key are related.
LEMMA BothPrefixes ==
  ASSUME NEW k \in Text, NEW m \in Text, NEW n \in Text, IsPrefix(m, k), IsPrefix(n, k)
  PROVE  Related(m, n)
  <1>1. Len(m) \in Nat /\ Len(n) \in Nat
    BY TextType
  <1>2. (\A i \in 1 .. Len(m) : m[i] = k[i]) /\ (\A i \in 1 .. Len(n) : n[i] = k[i])
    BY PrefixMeans
  <1>3. CASE Len(m) <= Len(n)
    BY <1>1, <1>2, <1>3, PrefixMeans DEF Related
  <1>4. CASE Len(n) <= Len(m)
    BY <1>1, <1>2, <1>4, PrefixMeans DEF Related
  <1> QED
    BY <1>1, <1>3, <1>4

LEMMA MarkerIs ==
  ASSUME NEW n \in Text
  PROVE  Marker(n) \in Text /\ Marker(n) # <<>> /\ IsMarker(Marker(n)) /\ Len(Marker(n)) = Len(n) + 1
  <1>1. Append(n, 0) \in Seq(Nat) /\ Len(Append(n, 0)) = Len(n) + 1 /\ Append(n, 0)[Len(n) + 1] = 0
    BY DEF Text
  <1>2. Len(n) \in Nat
    BY TextType
  <1> QED
    BY <1>1, <1>2 DEF Marker, IsMarker, Last, Text

\* Names are texts, and no markers.
LEMMA NameIs ==
  ASSUME NEW n \in Names
  PROVE  n \in Text /\ n # <<>> /\ ~IsMarker(n)
  <1>1. n \in Seq(Nat \ {0}) /\ n # <<>>
    BY NameAssumption
  <1>2. Len(n) \in Nat /\ Len(n) # 0 /\ \A i \in 1 .. Len(n) : n[i] \in Nat \ {0}
    BY <1>1
  <1>3. n \in Seq(Nat)
    BY <1>1
  <1> QED
    BY <1>1, <1>2, <1>3 DEF Text, IsMarker, Last

LEMMA FileIs ==
  ASSUME NEW n \in Names \cup Files
  PROVE  n \in Text /\ n # <<>>
  BY NameIs, FileAssumption DEF Text

\* A key of a moved tree is a marker only if it was one.
LEMMA MovedMarker ==
  ASSUME NEW k \in Text, NEW src \in Text, NEW dst \in Names, IsPrefix(src, k),
         IsMarker(Moved(k, src, dst))
  PROVE  IsMarker(k)
  <1> DEFINE d == Moved(k, src, dst)
  <1>1. /\ dst \in Text /\ ~IsMarker(dst) /\ dst # <<>>
        /\ Len(src) \in Nat /\ Len(k) \in Nat /\ Len(dst) \in Nat /\ Len(src) <= Len(k)
    BY NameIs, TextType, MovedIs
  <1>2. /\ d \in Text /\ Len(d) = Len(dst) + (Len(k) - Len(src))
        /\ \A i \in 1 .. Len(dst) : d[i] = dst[i]
        /\ \A i \in 1 .. (Len(k) - Len(src)) : d[Len(dst) + i] = k[Len(src) + i]
    BY <1>1, MovedIs
  <1> HIDE DEF d
  <1>3. d[Len(d)] = 0
    BY DEF IsMarker, Last, d
  <1>4. dst[Len(dst)] # 0 /\ Len(dst) # 0
    BY <1>1 DEF IsMarker, Last, Text
  <1>5. Len(k) # Len(src)
    <2> SUFFICES ASSUME Len(k) = Len(src) PROVE FALSE
      OBVIOUS
    <2>1. Len(d) = Len(dst) /\ Len(dst) \in 1 .. Len(dst)
      BY <1>1, <1>2, <1>4
    <2> QED
      BY <1>2, <1>3, <1>4, <2>1
  <1>6. Len(k) - Len(src) \in 1 .. (Len(k) - Len(src)) /\ Len(src) + (Len(k) - Len(src)) = Len(k)
    BY <1>1, <1>5
  <1>7. k[Len(k)] = 0
    BY <1>2, <1>3, <1>6
  <1> QED
    BY <1>7 DEF IsMarker, Last

-----------------------------------------------------------------------------
(* Types. *)

Ats == {"idle", "mkcol", "mark", "open", "write", "removeAll", "dropFile", "list", "drop",
        "prune", "unmark", "stat", "rename", "markDst", "take", "place", "remove", "reply"}

Request == [kind : Kinds \cup {"none"}, at : Ats, name : Text, dst : Text, over : BOOLEAN,
            batch : Seq(Text), target : Text, todo : Seq(Text), marker : Text, taken : Nat,
            failed : BOOLEAN, ok : BOOLEAN, then : {"reply", "drop", "markDst"}]

\* The tree is finite, its keys are no empty texts, and what a marker holds is not followed.
TreeOk ==
  /\ IsFiniteSet(DOMAIN tree) /\ made \in Nat /\ tree = [k \in DOMAIN tree |-> tree[k]]
  /\ kept \subseteq 1 .. made
  /\ \A k \in DOMAIN tree : /\ k \in Text /\ k # <<>>
                            /\ tree[k] \in Nat /\ tree[k] <= made
                            /\ IsMarker(k) => tree[k] \notin kept

\* The request moves a tree: it lists the keys, or works on those it has listed.
Moving(r) ==
  \/ r.at \in {"markDst", "take", "place", "remove"}
  \/ r.at = "list" /\ r.then # "drop"

\* What a request at its step knows.
Proper(r) ==
  /\ r.kind = "move" => r.name \in Names /\ r.dst \in Names /\ r.name # r.dst
  /\ r.at = "open" => r.name \in Names
  /\ r.at = "write" => r.name \in Names \cup Files
  /\ r.at = "list" => r.then \in {"drop", "markDst"}
  /\ r.at \in {"stat", "removeAll", "dropFile", "prune", "unmark", "rename"} => r.todo = <<>>
  /\ r.at \in {"stat", "rename"} \/ Moving(r) => r.kind = "move"
  /\ r.at = "rename" \/ Moving(r) => r.target = r.name
  /\ Moving(r) => \A i \in 1 .. Len(r.todo) : IsPrefix(r.name, r.todo[i])
  /\ r.at \in {"place", "remove"} =>
       r.todo # <<>> /\ (IsMarker(Head(r.todo)) => r.taken = Dir)

\* What a move has taken is at its new place by the time the original goes.
Copied(r) ==
  r.at = "remove" /\ r.taken # Dir /\ r.taken \in kept =>
    LET d == Moved(Head(r.todo), r.name, r.dst)
    IN d \in DOMAIN tree /\ tree[d] = r.taken

RequestsOk ==
  /\ req \in [Proc -> Request]
  /\ \A p \in Proc : Proper(req[p]) /\ req[p].taken <= made

\* What holds in any state, and what holds as long as moves are apart.
Shape == TreeOk /\ RequestsOk
Safe  == NothingIsLost /\ \A p \in Proc : Copied(req[p])

DavInv == Shape /\ Safe

\* No MOVE takes from where another one puts.  Without this, moves in a ring (a to d/a, d to e,
\* e/a/x to a/x), each of which has copied and not yet removed, lose what they move.
MovesApart ==
  \A p, q \in Proc :
    p # q /\ req[p].kind = "move" /\ req[q].kind = "move" => ~Related(req[p].name, req[q].dst)

\* What every step keeps.
Keeps == Shape' /\ (Safe /\ MovesApart => Safe')

-----------------------------------------------------------------------------
(* What steps do to the tree. *)

\* A content that is still wanted keeps its place, except at the keys of S.
Stay(S) ==
  /\ \A c \in kept' : c <= made => c \in kept
  /\ \A d \in DOMAIN tree \ S, c \in kept' :
       tree[d] = c /\ c <= made => d \in DOMAIN tree' /\ tree'[d] = c

Kept(S) == Safe => NothingIsLost' /\ Stay(S)

LEMMA WithoutIs ==
  ASSUME NEW t, NEW ks
  PROVE  /\ DOMAIN Without(t, ks) = DOMAIN t \ ks
         /\ \A j \in DOMAIN t \ ks : Without(t, ks)[j] = t[j]
         /\ Without(t, ks) = [j \in DOMAIN Without(t, ks) |-> Without(t, ks)[j]]
  BY DEF Without

LEMMA WithIs ==
  ASSUME NEW t, NEW k, NEW c
  PROVE  /\ DOMAIN With(t, k, c) = DOMAIN t \cup {k} /\ With(t, k, c)[k] = c
         /\ \A j \in DOMAIN t \ {k} : With(t, k, c)[j] = t[j]
         /\ With(t, k, c) = [j \in DOMAIN With(t, k, c) |-> With(t, k, c)[j]]
  BY DEF With

\* A key is written with a new content.
LEMMA Written ==
  ASSUME Shape, NEW k \in Text, k # <<>>, made' = made + 1,
         tree' = With(tree, k, made'), kept' = (kept \ ContentOf(tree, k)) \cup Followed(k, made')
  PROVE  TreeOk' /\ Kept({})
  <1>1. TreeOk
    BY DEF Shape
  <1>2. /\ DOMAIN tree' = DOMAIN tree \cup {k} /\ tree'[k] = made'
        /\ \A j \in DOMAIN tree \ {k} : tree'[j] = tree[j]
    BY DEF With
  <1>8. tree' = [j \in DOMAIN tree' |-> tree'[j]]
    BY DEF With
  <1>3. made \in Nat /\ made' \in Nat /\ made < made' /\ made' # Dir
    BY <1>1 DEF TreeOk, Dir
  <1>4. TreeOk'
    <2>1. IsFiniteSet(DOMAIN tree')
      BY <1>1, <1>2, FS_AddElement DEF TreeOk
    <2>3. kept \subseteq 1 .. made /\ kept' \subseteq kept \cup {made'} /\ made' \notin kept
      BY <1>1, <1>3 DEF TreeOk, Followed
    <2>2. ASSUME NEW j \in DOMAIN tree'
          PROVE  /\ j \in Text /\ j # <<>> /\ tree'[j] \in Nat /\ tree'[j] <= made'
                 /\ IsMarker(j) => tree'[j] \notin kept'
      <3>1. CASE j = k
        <4>1. IsMarker(k) => kept' \subseteq kept
          BY DEF Followed
        <4> QED
          BY <1>2, <1>3, <2>3, <3>1, <4>1
      <3>2. CASE j # k
        <4>1. /\ j \in DOMAIN tree /\ tree'[j] = tree[j] /\ j \in Text /\ j # <<>> /\ tree[j] \in Nat
              /\ tree[j] <= made /\ (IsMarker(j) => tree[j] \notin kept)
          BY <1>1, <1>2, <3>2 DEF TreeOk
        <4>2. tree[j] # made' /\ tree[j] <= made'
          BY <1>3, <4>1
        <4> QED
          BY <2>3, <4>1, <4>2
      <3> QED
        BY <3>1, <3>2
    <2>5. \A c \in 1 .. made : c \in 1 .. made'
      BY <1>3
    <2>6. made' \in 1 .. made'
      BY <1>1, <1>3 DEF TreeOk
    <2>4. kept' \subseteq 1 .. made'
      <3> SUFFICES ASSUME NEW c \in kept' PROVE c \in 1 .. made'
        OBVIOUS
      <3>1. c \in 1 .. made \/ c = made'
        BY <2>3
      <3> QED
        BY <2>5, <2>6, <3>1
    <2> QED
      BY <1>3, <1>8, <2>1, <2>2, <2>4 DEF TreeOk
  <1> SUFFICES ASSUME Safe PROVE NothingIsLost' /\ Stay({})
    BY <1>4 DEF Kept
  <1>0. NothingIsLost
    BY DEF Safe
  <1>9. kept' \subseteq (kept \ ContentOf(tree, k)) \cup {made'}
    BY DEF Followed
  <1>5. ASSUME NEW d \in DOMAIN tree, NEW c \in kept', tree[d] = c, c <= made
        PROVE  d \in DOMAIN tree' /\ tree'[d] = c
    <2>1. c \in kept /\ c \notin ContentOf(tree, k)
      BY <1>3, <1>5, <1>9
    <2>2. c # Dir
      BY <1>0, <2>1 DEF NothingIsLost, Contents
    <2>3. d # k
      BY <1>5, <2>1, <2>2 DEF ContentOf
    <2> QED
      BY <1>2, <1>5, <2>3
  <1>6. NothingIsLost'
    <2> SUFFICES ASSUME NEW c \in kept' PROVE c # Dir /\ \E d \in DOMAIN tree' : tree'[d] = c
      BY DEF NothingIsLost, Contents
    <2>1. CASE c = made'
      BY <1>2, <1>3, <2>1
    <2>2. CASE c # made'
      <3>1. c # Dir /\ \E d \in DOMAIN tree : tree[d] = c
        BY <1>0, <1>9, <2>2 DEF NothingIsLost, Contents
      <3>2. PICK d \in DOMAIN tree : tree[d] = c /\ c <= made
        BY <1>1, <3>1 DEF TreeOk
      <3> QED
        BY <1>5, <3>1, <3>2
    <2> QED
      BY <2>1, <2>2
  <1> QED
    BY <1>3, <1>5, <1>6, <1>9 DEF Stay

\* A key gets a content that was made before, or becomes a marker.
LEMMA Placed ==
  ASSUME Shape, NEW k \in Text, k # <<>>, NEW c \in Nat, c <= made, IsMarker(k) => c = Dir,
         tree' = With(tree, k, c), kept' = kept \ (ContentOf(tree, k) \ {c}), made' = made
  PROVE  TreeOk' /\ Kept({})
  <1>1. TreeOk
    BY DEF Shape
  <1>2. /\ DOMAIN tree' = DOMAIN tree \cup {k} /\ tree'[k] = c
        /\ \A j \in DOMAIN tree \ {k} : tree'[j] = tree[j]
    BY DEF With
  <1>8. tree' = [j \in DOMAIN tree' |-> tree'[j]]
    BY DEF With
  <1>4. TreeOk'
    <2>1. IsFiniteSet(DOMAIN tree')
      BY <1>1, <1>2, FS_AddElement DEF TreeOk
    <2>2. ASSUME NEW j \in DOMAIN tree'
          PROVE  /\ j \in Text /\ j # <<>> /\ tree'[j] \in Nat /\ tree'[j] <= made'
                 /\ IsMarker(j) => tree'[j] \notin kept'
      BY <1>1, <1>2 DEF TreeOk, Dir
    <2> QED
      BY <1>1, <1>8, <2>1, <2>2 DEF TreeOk
  <1> SUFFICES ASSUME Safe PROVE NothingIsLost' /\ Stay({})
    BY <1>4 DEF Kept
  <1>0. NothingIsLost
    BY DEF Safe
  <1>5. ASSUME NEW d \in DOMAIN tree, NEW x \in kept', tree[d] = x
        PROVE  d \in DOMAIN tree' /\ tree'[d] = x
    <2>1. x \in kept /\ (x \notin ContentOf(tree, k) \/ x = c)
      OBVIOUS
    <2>2. x # Dir
      BY <1>0, <2>1 DEF NothingIsLost, Contents
    <2>3. d # k \/ x = c
      BY <1>5, <2>1, <2>2 DEF ContentOf
    <2> QED
      BY <1>2, <1>5, <2>3
  <1>6. NothingIsLost'
    <2> SUFFICES ASSUME NEW x \in kept' PROVE x # Dir /\ \E d \in DOMAIN tree' : tree'[d] = x
      BY DEF NothingIsLost, Contents
    <2>1. x # Dir /\ \E d \in DOMAIN tree : tree[d] = x
      BY <1>0 DEF NothingIsLost, Contents
    <2> QED
      BY <1>5, <2>1
  <1> QED
    BY <1>5, <1>6 DEF Stay

\* A key goes, and its content is not wanted any more, unless it is c, which is elsewhere.
LEMMA Removed ==
  ASSUME Shape, NEW k, NEW c, tree' = Without(tree, {k}),
         kept' = kept \ (ContentOf(tree, k) \ {c}), made' = made,
         Safe /\ c \in kept => \E d \in DOMAIN tree \ {k} : tree[d] = c
  PROVE  TreeOk' /\ Kept({k}) /\ (c = Dir => Kept({}))
  <1>1. TreeOk
    BY DEF Shape
  <1>2. /\ DOMAIN tree' = DOMAIN tree \ {k}
        /\ \A j \in DOMAIN tree \ {k} : tree'[j] = tree[j]
    BY WithoutIs
  <1>8. tree' = [j \in DOMAIN tree' |-> tree'[j]]
    BY DEF Without
  <1>3. TreeOk'
    <2>1. IsFiniteSet(DOMAIN tree')
      BY <1>1, <1>2, FS_Subset DEF TreeOk
    <2> QED
      BY <1>1, <1>2, <1>8, <2>1 DEF TreeOk
  <1> SUFFICES ASSUME Safe PROVE NothingIsLost' /\ Stay({k}) /\ (c = Dir => Stay({}))
    BY <1>3 DEF Kept
  <1>0. NothingIsLost
    BY DEF Safe
  <1>4. Stay({k})
    BY <1>2 DEF Stay
  <1>5. ASSUME NEW x \in kept'
        PROVE  /\ x # Dir /\ \E d \in DOMAIN tree \ {k} : tree[d] = x
               /\ x # c => ~(k \in DOMAIN tree /\ tree[k] = x)
    <2>1. x \in kept /\ (x \notin ContentOf(tree, k) \/ x = c)
      OBVIOUS
    <2>2. x # Dir /\ \E d \in DOMAIN tree : tree[d] = x
      BY <1>0, <2>1 DEF NothingIsLost, Contents
    <2> QED
      BY <2>1, <2>2 DEF ContentOf
  <1>6. NothingIsLost'
    BY <1>2, <1>5 DEF NothingIsLost, Contents
  <1>7. c = Dir => Stay({})
    BY <1>2, <1>5 DEF Stay
  <1> QED
    BY <1>4, <1>6, <1>7

-----------------------------------------------------------------------------
(* What steps do to requests. *)

\* A step of one request keeps what holds, if its new state is proper, what it takes
\* away is in nobody's way, and what it has taken is where it belongs.
LEMMA OneMoves ==
  ASSUME Shape, NEW p \in Proc, NEW r \in Request, Proper(r), r.taken <= made', Goto(p, r),
         TreeOk', NEW S, Kept(S), made <= made',
         r.at = "remove" /\ r.taken # Dir /\ r.taken \in kept' =>
           LET d == Moved(Head(r.todo), r.name, r.dst)
           IN d \in DOMAIN tree' /\ tree'[d] = r.taken,
         MovesApart => \A q \in Proc \ {p} : req[q].at = "remove" /\ req[q].taken # Dir =>
           Moved(Head(req[q].todo), req[q].name, req[q].dst) \notin S
  PROVE  Keeps
  <1>1. RequestsOk /\ TreeOk
    BY DEF Shape
  <1>2. /\ req' \in [Proc -> Request] /\ req'[p] = r
        /\ \A q \in Proc \ {p} : req'[q] = req[q]
    BY <1>1 DEF Goto, RequestsOk
  <1>3. \A q \in Proc : req[q].taken \in Nat /\ req[q].taken <= made
    BY <1>1 DEF RequestsOk, Request
  <1>4. made \in Nat /\ made' \in Nat
    BY <1>1 DEF TreeOk
  <1>5. RequestsOk'
    <2>1. ASSUME NEW q \in Proc PROVE Proper(req'[q]) /\ req'[q].taken <= made'
      <3>1. CASE q = p
        BY <1>2, <3>1
      <3>2. CASE q # p
        <4>1. req'[q] = req[q] /\ req[q].taken <= made'
          BY <1>2, <1>3, <1>4, <3>2
        <4> QED
          BY <1>1, <4>1 DEF RequestsOk
      <3> QED
        BY <3>1, <3>2
    <2> QED
      BY <1>2, <2>1 DEF RequestsOk
  <1> SUFFICES ASSUME Safe, MovesApart PROVE Safe'
    BY <1>5 DEF Keeps, Shape
  <1>0. NothingIsLost' /\ Stay(S)
    BY DEF Kept
  <1>6. ASSUME NEW q \in Proc PROVE Copied(req[q])'
    <2>1. CASE q = p
      BY <1>2, <2>1 DEF Copied
    <2>2. CASE q # p
      <3> DEFINE d == Moved(Head(req[q].todo), req[q].name, req[q].dst)
      <3>1. req'[q] = req[q]
        BY <1>2, <2>2
      <3>2. SUFFICES ASSUME req[q].at = "remove", req[q].taken # Dir, req[q].taken \in kept'
                     PROVE  d \in DOMAIN tree' /\ tree'[d] = req[q].taken
        BY <3>1 DEF Copied
      <3>3. req[q].taken \in kept
        BY <1>0, <1>3, <3>2 DEF Stay
      <3>4. d \in DOMAIN tree /\ tree[d] = req[q].taken
        BY <3>2, <3>3 DEF Safe, Copied
      <3>5. d \notin S
        BY <2>2, <3>2
      <3> HIDE DEF d
      <3> QED
        BY <1>0, <1>3, <3>2, <3>4, <3>5 DEF Stay
    <2> QED
      BY <2>1, <2>2
  <1> QED
    BY <1>0, <1>6 DEF Safe

LEMMA NothingMoves ==
  ASSUME Shape, UNCHANGED <<tree, kept, made>>
  PROVE  TreeOk' /\ Kept({}) /\ made <= made'
  <1>1. TreeOk
    BY DEF Shape
  <1> QED
    BY <1>1 DEF TreeOk, NothingIsLost, Stay, Kept, Safe

\* A step that leaves the tree alone.
LEMMA QuietStep ==
  ASSUME Shape, NEW p \in Proc, NEW r \in Request, Proper(r), r.taken <= made, Goto(p, r),
         r.at = "remove" => r.taken = Dir, UNCHANGED <<tree, kept, made>>
  PROVE  Keeps
  <1>1. TreeOk' /\ Kept({}) /\ made <= made'
    BY NothingMoves
  <1> QED
    BY <1>1, OneMoves

\* A step that does not come to the removal of an original, and leaves the wanted contents
\* in their places.
LEMMA OpenStep ==
  ASSUME Shape, NEW p \in Proc, NEW r \in Request, Proper(r), r.taken <= made', Goto(p, r),
         r.at # "remove", TreeOk', Kept({}), made <= made'
  PROVE  Keeps
  <1>1. \A q \in Proc \ {p} : req[q].at = "remove" /\ req[q].taken # Dir =>
          Moved(Head(req[q].todo), req[q].name, req[q].dst) \notin {}
    OBVIOUS
  <1> QED
    BY <1>1, OneMoves

LEMMA OfRequest ==
  ASSUME Shape, NEW p \in Proc
  PROVE  req[p] \in Request /\ Proper(req[p]) /\ req[p].taken <= made /\ TreeOk
  BY DEF Shape, RequestsOk

LEMMA Replied ==
  ASSUME NEW r \in Request, Proper(r), NEW ok \in BOOLEAN
  PROVE  /\ [r EXCEPT !.at = "reply", !.ok = ok] \in Request
         /\ Proper([r EXCEPT !.at = "reply", !.ok = ok])
         /\ [r EXCEPT !.at = "reply", !.ok = ok].at = "reply"
         /\ [r EXCEPT !.at = "reply", !.ok = ok].taken = r.taken
  <1> DEFINE s == [r EXCEPT !.at = "reply", !.ok = ok]
  <1>1. s \in Request
    BY DEF Request, Ats
  <1>2. /\ s.at = "reply" /\ s.kind = r.kind /\ s.name = r.name /\ s.dst = r.dst /\ s.taken = r.taken
    BY DEF Request
  <1>3. Proper(s)
    <2> HIDE DEF s
    <2> QED
      BY <1>2 DEF Proper, Moving
  <1> QED
    BY <1>1, <1>2, <1>3

\* A reply that leaves the tree alone.
LEMMA ReplyStep ==
  ASSUME Shape, NEW p \in Proc, NEW r \in Request, Proper(r), r.taken <= made,
         NEW ok \in BOOLEAN, Reply(p, r, ok), UNCHANGED <<tree, kept, made>>
  PROVE  Keeps
  <1> DEFINE s == [r EXCEPT !.at = "reply", !.ok = ok]
  <1>1. s \in Request /\ Proper(s) /\ s.at = "reply" /\ s.taken = r.taken
    BY Replied
  <1>2. Goto(p, s)
    BY DEF Reply
  <1> HIDE DEF s
  <1> QED
    BY <1>1, <1>2, QuietStep

LEMMA MkdirStep ==
  ASSUME Shape, NEW p \in Proc, Mkdir(p)
  PROVE  Keeps
  <1>0. req[p] \in Request /\ Proper(req[p]) /\ req[p].taken <= made /\ UNCHANGED <<tree, kept, made>>
    BY OfRequest DEF Mkdir, counts
  <1>1. CASE Reply(p, req[p], FALSE)
    BY <1>0, <1>1, ReplyStep
  <1>2. CASE Goto(p, [req[p] EXCEPT !.at = "mark"])
    <2> DEFINE s == [req[p] EXCEPT !.at = "mark"]
    <2>1. s \in Request /\ Proper(s) /\ s.at = "mark" /\ s.taken = req[p].taken
      BY <1>0 DEF Request, Ats, Proper, Moving
    <2> HIDE DEF s
    <2> QED
      BY <1>0, <1>2, <2>1, QuietStep DEF s
  <1> QED
    BY <1>1, <1>2 DEF Mkdir

LEMMA OpenFileStep ==
  ASSUME Shape, NEW p \in Proc, OpenFile(p)
  PROVE  Keeps
  <1>0. /\ req[p] \in Request /\ Proper(req[p]) /\ req[p].taken <= made /\ UNCHANGED <<tree, kept, made>>
        /\ req[p].at = "open"
    BY OfRequest DEF OpenFile, counts
  <1>1. CASE Reply(p, req[p], FALSE)
    BY <1>0, <1>1, ReplyStep
  <1>2. CASE Goto(p, [req[p] EXCEPT !.at = "write"])
    <2> DEFINE s == [req[p] EXCEPT !.at = "write"]
    <2>1. s \in Request /\ s.at = "write" /\ s.taken = req[p].taken /\ Proper(s)
      BY <1>0 DEF Request, Ats, Proper, Moving
    <2> HIDE DEF s
    <2> QED
      BY <1>0, <1>2, <2>1, QuietStep DEF s
  <1> QED
    BY <1>1, <1>2 DEF OpenFile

LEMMA RemoveAllStep ==
  ASSUME Shape, NEW p \in Proc, RemoveAll(p)
  PROVE  Keeps
  <1>0. /\ req[p] \in Request /\ Proper(req[p]) /\ req[p].taken <= made /\ UNCHANGED <<tree, kept, made>>
        /\ req[p].at = "removeAll"
    BY OfRequest DEF RemoveAll, counts
  <1>1. CASE Reply(p, req[p], FALSE)
    BY <1>0, <1>1, ReplyStep
  <1>2. CASE Goto(p, [req[p] EXCEPT !.at = "dropFile"])
    <2> DEFINE s == [req[p] EXCEPT !.at = "dropFile"]
    <2>1. s \in Request /\ s.at = "dropFile" /\ s.taken = req[p].taken /\ Proper(s)
      BY <1>0 DEF Request, Ats, Proper, Moving
    <2> HIDE DEF s
    <2> QED
      BY <1>0, <1>2, <2>1, QuietStep DEF s
  <1>3. CASE Goto(p, [req[p] EXCEPT !.at = "list", !.then = "drop"])
    <2> DEFINE s == [req[p] EXCEPT !.at = "list", !.then = "drop"]
    <2>1. s \in Request /\ s.at = "list" /\ s.taken = req[p].taken /\ Proper(s)
      BY <1>0 DEF Request, Ats, Proper, Moving
    <2> HIDE DEF s
    <2> QED
      BY <1>0, <1>3, <2>1, QuietStep DEF s
  <1> QED
    BY <1>1, <1>2, <1>3 DEF RemoveAll

\* A page of a listing.
LEMMA PageIs ==
  ASSUME TreeOk, NEW d, NEW m,
         NEW left, left = {k \in Below(tree, d) : m = Nothing \/ Before(m, k)},
         NEW page, page = FirstOf(left, PageSize, Before)
  PROVE  /\ page \in Seq(Text) /\ Len(page) \in Nat
         /\ \A i \in 1 .. Len(page) : page[i] \in left /\ IsPrefix(d, page[i])
         /\ Cardinality(left) > PageSize => Len(page) > 0 /\ Last(page) \in left
  <1>1. IsFiniteSet(left) /\ left \subseteq Text
    <2>1. left \subseteq DOMAIN tree
      BY DEF Below
    <2> QED
      BY <2>1, FS_Subset DEF TreeOk
  <1>2. PageSize \in Nat /\ PageSize > 0 /\ Cardinality(left) \in Nat
    BY <1>1, PageAssumption, FS_CardinalityType
  <1>3. page \in Seq(left) /\ Len(page) = (IF PageSize <= Cardinality(left) THEN PageSize ELSE Cardinality(left))
    BY <1>1, <1>2, FirstKeys
  <1>4. Len(page) \in Nat /\ \A i \in 1 .. Len(page) : page[i] \in left
    BY <1>3, SeqType
  <1>5. page \in Seq(Text)
    BY <1>1, <1>3, WiderSeq
  <1>6. \A k \in left : IsPrefix(d, k)
    BY DEF Below
  <1>7. ASSUME Cardinality(left) > PageSize PROVE Len(page) > 0 /\ Last(page) \in left
    <2>1. Len(page) > 0 /\ Len(page) \in 1 .. Len(page)
      BY <1>2, <1>3, <1>7
    <2> QED
      BY <1>4, <2>1 DEF Last
  <1> QED
    BY <1>4, <1>5, <1>6, <1>7

LEMMA ListStep ==
  ASSUME Shape, NEW p \in Proc, List(p)
  PROVE  Keeps
  <1> DEFINE r == req[p]
             left == {k \in Below(tree, r.target) : r.marker = Nothing \/ Before(r.marker, k)}
             page == FirstOf(left, PageSize, Before)
             keys == r.todo \o page
  <1>0. /\ r \in Request /\ Proper(r) /\ r.taken <= made /\ TreeOk /\ UNCHANGED <<tree, kept, made>>
        /\ r.at = "list" /\ r.then \in {"drop", "markDst"}
    BY OfRequest DEF List, counts, Proper
  <1>1. /\ page \in Seq(Text) /\ Len(page) \in Nat
        /\ \A i \in 1 .. Len(page) : IsPrefix(r.target, page[i])
        /\ Cardinality(left) > PageSize => Len(page) > 0 /\ Last(page) \in left
    BY <1>0, PageIs
  <1>2. left \subseteq Text /\ IsFiniteSet(left)
    BY <1>0, FS_Subset DEF Below, TreeOk
  <1>3. \/ Cardinality(left) <= PageSize /\ Goto(p, [r EXCEPT !.at = r.then, !.todo = keys, !.marker = Nothing])
        \/ Reply(p, r, FALSE)
        \/ ~(Cardinality(left) <= PageSize) /\ Goto(p, [r EXCEPT !.todo = keys, !.marker = Last(page)])
    BY DEF List
  <1>4. Cardinality(left) \in Nat /\ PageSize \in Nat
    BY <1>2, FS_CardinalityType, PageAssumption
  <1> HIDE DEF left, page
  <1>5. r.todo \in Seq(Text) /\ Len(r.todo) \in Nat /\ Nothing \in Text
    BY <1>0 DEF Request, Nothing, Text
  <1>6. /\ keys \in Seq(Text) /\ Len(keys) = Len(r.todo) + Len(page)
        /\ \A i \in 1 .. Len(r.todo) : keys[i] = r.todo[i]
        /\ \A i \in (Len(r.todo) + 1) .. (Len(r.todo) + Len(page)) : keys[i] = page[i - Len(r.todo)]
    BY <1>1, <1>5, ConcatIs
  <1> HIDE DEF keys
  <1>7. r.then # "drop" => r.target = r.name /\ \A i \in 1 .. Len(keys) : IsPrefix(r.name, keys[i])
    <2> SUFFICES ASSUME r.then # "drop", NEW i \in 1 .. Len(keys)
                 PROVE  r.target = r.name /\ IsPrefix(r.name, keys[i])
      BY <1>0 DEF Proper, Moving
    <2>1. Moving(r)
      BY <1>0 DEF Moving
    <2>2. r.target = r.name /\ \A j \in 1 .. Len(r.todo) : IsPrefix(r.name, r.todo[j])
      BY <1>0, <2>1 DEF Proper
    <2>3. CASE i <= Len(r.todo)
      <3>1. i \in 1 .. Len(r.todo)
        BY <1>1, <1>5, <1>6, <2>3
      <3>2. keys[i] = r.todo[i]
        BY <1>6, <3>1
      <3> QED
        BY <2>2, <3>1, <3>2
    <2>4. CASE i > Len(r.todo)
      <3>1. i - Len(r.todo) \in 1 .. Len(page) /\ i \in (Len(r.todo) + 1) .. (Len(r.todo) + Len(page))
        BY <1>1, <1>5, <1>6, <2>4
      <3> QED
        BY <1>1, <1>6, <2>2, <3>1
    <2> QED
      BY <1>5, <2>2, <2>3, <2>4
  <1>8. CASE Goto(p, [r EXCEPT !.at = r.then, !.todo = keys, !.marker = Nothing])
    <2> DEFINE s == [r EXCEPT !.at = r.then, !.todo = keys, !.marker = Nothing]
    <2>1. s \in Request
      BY <1>0, <1>5, <1>6 DEF Request, Ats
    <2>2. /\ s.at = r.then /\ s.kind = r.kind /\ s.name = r.name /\ s.dst = r.dst /\ s.target = r.target
          /\ s.taken = r.taken /\ s.todo = keys
      BY <1>0 DEF Request
    <2> HIDE DEF s
    <2>3. Proper(s)
      BY <1>0, <1>7, <2>2 DEF Proper, Moving
    <2> QED
      BY <1>0, <1>8, <2>1, <2>2, <2>3, QuietStep DEF s
  <1>9. CASE ~(Cardinality(left) <= PageSize) /\ Goto(p, [r EXCEPT !.todo = keys, !.marker = Last(page)])
    <2> DEFINE s == [r EXCEPT !.todo = keys, !.marker = Last(page)]
    <2>0. Last(page) \in Text
      BY <1>1, <1>2, <1>4, <1>9
    <2>1. s \in Request
      BY <1>0, <1>6, <2>0 DEF Request, Ats
    <2>2. /\ s.at = r.at /\ s.kind = r.kind /\ s.name = r.name /\ s.dst = r.dst /\ s.target = r.target
          /\ s.taken = r.taken /\ s.todo = keys /\ s.then = r.then
      BY <1>0 DEF Request
    <2> HIDE DEF s
    <2>3. Proper(s)
      BY <1>0, <1>7, <2>2 DEF Proper, Moving
    <2> QED
      BY <1>0, <1>9, <2>1, <2>2, <2>3, QuietStep DEF s
  <1> QED
    BY <1>0, <1>3, <1>8, <1>9, ReplyStep

LEMMA EndDropsStep ==
  ASSUME Shape, NEW p \in Proc, EndDrops(p)
  PROVE  Keeps
  <1>0. /\ req[p] \in Request /\ Proper(req[p]) /\ req[p].taken <= made /\ UNCHANGED <<tree, kept, made>>
        /\ req[p].at = "drop" /\ req[p].todo = <<>>
    BY OfRequest DEF EndDrops, counts
  <1>1. ASSUME Reply(p, req[p], ~req[p].failed) PROVE Keeps
    <2>1. PICK ok \in BOOLEAN : Reply(p, req[p], ok)
      BY <1>1
    <2> QED
      BY <1>0, <2>1, ReplyStep
  <1>2. CASE Goto(p, [req[p] EXCEPT !.at = "prune"])
    <2> DEFINE s == [req[p] EXCEPT !.at = "prune"]
    <2>1. /\ s \in Request /\ s.at = "prune" /\ s.taken = req[p].taken /\ Proper(s)
      BY <1>0 DEF Request, Ats, Proper, Moving
    <2> HIDE DEF s
    <2> QED
      BY <1>0, <1>2, <2>1, QuietStep DEF s
  <1> QED
    BY <1>1, <1>2 DEF EndDrops

\* After the clean-up of parents a move goes on, or there is an answer.
LEMMA AfterPruneStep ==
  ASSUME Shape, NEW p \in Proc, NEW r \in Request, Proper(r), r.todo = <<>>, r.taken <= made,
         AfterPrune(p, r), UNCHANGED <<tree, kept, made>>
  PROVE  Keeps
  <1>1. ASSUME Reply(p, r, ~r.failed) PROVE Keeps
    <2>1. PICK ok \in BOOLEAN : Reply(p, r, ok)
      BY <1>1
    <2> QED
      BY <2>1, ReplyStep
  <1>2. CASE r.kind = "move" /\ Goto(p, [r EXCEPT !.at = "rename", !.target = r.name, !.then = "reply"])
    <2> DEFINE s == [r EXCEPT !.at = "rename", !.target = r.name, !.then = "reply"]
    <2>1. /\ s \in Request /\ s.at = "rename" /\ s.taken = r.taken /\ s.kind = r.kind /\ s.name = r.name
          /\ s.dst = r.dst /\ s.target = r.name /\ s.todo = r.todo
      BY DEF Request, Ats
    <2>2. Proper(s)
      <3> HIDE DEF s
      <3> QED
        BY <1>2, <2>1 DEF Proper, Moving
    <2> HIDE DEF s
    <2> QED
      BY <1>2, <2>1, <2>2, QuietStep DEF s
  <1> QED
    BY <1>1, <1>2 DEF AfterPrune

\* Only marker differs.
LEMMA Climbed ==
  ASSUME NEW r \in Request, Proper(r), r.at \in {"prune", "unmark"}, NEW m \in Text,
         NEW at \in {"prune", "unmark"}
  PROVE  /\ [r EXCEPT !.marker = m] \in Request /\ Proper([r EXCEPT !.marker = m])
         /\ [r EXCEPT !.marker = m].taken = r.taken /\ [r EXCEPT !.marker = m].todo = <<>>
         /\ [r EXCEPT !.at = at, !.marker = m] \in Request /\ Proper([r EXCEPT !.at = at, !.marker = m])
         /\ [r EXCEPT !.at = at, !.marker = m].taken = r.taken
         /\ [r EXCEPT !.at = at, !.marker = m].at = at
         /\ [r EXCEPT !.at = at] \in Request /\ Proper([r EXCEPT !.at = at])
         /\ [r EXCEPT !.at = at].taken = r.taken /\ [r EXCEPT !.at = at].at = at
  <1> DEFINE s == [r EXCEPT !.marker = m]
             t == [r EXCEPT !.at = at, !.marker = m]
             u == [r EXCEPT !.at = at]
  <1>1. /\ s \in Request /\ s.at = r.at /\ s.taken = r.taken /\ s.kind = r.kind /\ s.name = r.name
        /\ s.dst = r.dst /\ s.target = r.target /\ s.todo = r.todo
    BY DEF Request, Ats
  <1>2. /\ t \in Request /\ t.at = at /\ t.taken = r.taken /\ t.kind = r.kind /\ t.name = r.name
        /\ t.dst = r.dst /\ t.target = r.target /\ t.todo = r.todo
    BY DEF Request, Ats
  <1>3. /\ u \in Request /\ u.at = at /\ u.taken = r.taken /\ u.kind = r.kind /\ u.name = r.name
        /\ u.dst = r.dst /\ u.target = r.target /\ u.todo = r.todo
    BY DEF Request, Ats
  <1> HIDE DEF s, t, u
  <1>4. r.todo = <<>> /\ Proper(s)
    BY <1>1 DEF Proper, Moving
  <1>5. Proper(t)
    BY <1>2, <1>4 DEF Proper, Moving
  <1>6. Proper(u)
    BY <1>3, <1>4 DEF Proper, Moving
  <1> QED
    BY <1>1, <1>2, <1>3, <1>4, <1>5, <1>6 DEF s, t, u

LEMMA PruneStep ==
  ASSUME Shape, NEW p \in Proc, Prune(p)
  PROVE  Keeps
  <1> DEFINE r == req[p]
             d == Parent(IF r.marker = Nothing THEN r.target ELSE r.marker)
  <1>0. /\ r \in Request /\ Proper(r) /\ r.taken <= made /\ UNCHANGED <<tree, kept, made>>
        /\ r.at = "prune"
    BY OfRequest DEF Prune, counts
  <1>1. Nothing \in Text /\ d \in Text
    <2>1. Nothing \in Text /\ r.target \in Text /\ r.marker \in Text
      BY <1>0 DEF Request, Nothing, Text
    <2>2. \A k \in Text : SubSeq(k, 1, Len(k) - 1) \in Text
      BY DEF Text
    <2> QED
      BY <2>1, <2>2 DEF Parent
  <1>2. \/ AfterPrune(p, [r EXCEPT !.marker = Nothing])
        \/ Goto(p, [r EXCEPT !.at = "unmark", !.marker = d])
    BY DEF Prune
  <1> HIDE DEF d
  <1>3. CASE AfterPrune(p, [r EXCEPT !.marker = Nothing])
    <2> DEFINE s == [r EXCEPT !.marker = Nothing]
    <2>1. s \in Request /\ Proper(s) /\ s.taken = r.taken /\ s.todo = <<>>
      BY <1>0, <1>1, Climbed
    <2> HIDE DEF s
    <2> QED
      BY <1>0, <1>3, <2>1, AfterPruneStep DEF s
  <1>4. CASE Goto(p, [r EXCEPT !.at = "unmark", !.marker = d])
    <2> DEFINE s == [r EXCEPT !.at = "unmark", !.marker = d]
    <2>1. s \in Request /\ Proper(s) /\ s.taken = r.taken /\ s.at = "unmark"
      BY <1>0, <1>1, Climbed
    <2> HIDE DEF s
    <2> QED
      BY <1>0, <1>4, <2>1, QuietStep DEF s
  <1> QED
    BY <1>2, <1>3, <1>4

LEMMA UnmarkStep ==
  ASSUME Shape, NEW p \in Proc, Unmark(p)
  PROVE  Keeps
  <1> DEFINE r == req[p]
  <1>0. /\ r \in Request /\ Proper(r) /\ r.taken <= made /\ TreeOk /\ kept' = kept
        /\ r.at = "unmark" /\ Nothing \in Text /\ r.marker \in Text
    BY OfRequest DEF Unmark, Request, Nothing, Text
  <1>1. CASE tree' = Without(tree, {Marker(r.marker)}) /\ Goto(p, [r EXCEPT !.at = "prune"]) /\ UNCHANGED counts
    <2> DEFINE s == [r EXCEPT !.at = "prune"]
    <2>1. s \in Request /\ Proper(s) /\ s.taken = r.taken /\ s.at = "prune"
      BY <1>0, Climbed
    <2>2. ContentOf(tree, Marker(r.marker)) \cap kept = {}
      BY <1>0, MarkerIs DEF ContentOf, TreeOk
    <2>3. kept' = kept \ (ContentOf(tree, Marker(r.marker)) \ {Dir}) /\ made' = made
      BY <1>0, <1>1, <2>2 DEF counts
    <2>4. (Safe => Dir \notin kept) /\ made \in Nat /\ made <= made' /\ s.taken <= made'
      BY <1>0, <2>1, <2>3 DEF Safe, NothingIsLost, Contents, TreeOk
    <2>5. TreeOk' /\ Kept({})
      BY <1>1, <2>3, <2>4, Removed
    <2> HIDE DEF s
    <2> QED
      BY <1>0, <1>1, <2>1, <2>4, <2>5, OpenStep DEF s
  <1>2. CASE AfterPrune(p, [r EXCEPT !.marker = Nothing]) /\ UNCHANGED <<tree, made>>
    <2> DEFINE s == [r EXCEPT !.marker = Nothing]
    <2>1. s \in Request /\ Proper(s) /\ s.taken = r.taken /\ s.todo = <<>>
      BY <1>0, Climbed
    <2> HIDE DEF s
    <2> QED
      BY <1>0, <1>2, <2>1, AfterPruneStep DEF s
  <1> QED
    BY <1>1, <1>2 DEF Unmark, Fault

LEMMA TailIs ==
  ASSUME NEW s \in Seq(Text), s # <<>>
  PROVE  /\ Tail(s) \in Seq(Text) /\ Head(s) = s[1] /\ Head(s) \in Text /\ 1 \in 1 .. Len(s)
         /\ \A i \in 1 .. Len(Tail(s)) : i + 1 \in 1 .. Len(s) /\ Tail(s)[i] = s[i + 1]
  <1>1. Len(s) \in Nat /\ Len(s) # 0
    OBVIOUS
  <1>2. 1 \in 1 .. Len(s) /\ Head(s) = s[1] /\ s[1] \in Text
    BY <1>1
  <1>3. Tail(s) \in Seq(Text) /\ Len(Tail(s)) = Len(s) - 1
    BY <1>1
  <1>4. ASSUME NEW i \in 1 .. Len(Tail(s)) PROVE i + 1 \in 1 .. Len(s) /\ Tail(s)[i] = s[i + 1]
    BY <1>1, <1>3
  <1> QED
    BY <1>2, <1>3, <1>4

LEMMA StatDstStep ==
  ASSUME Shape, NEW p \in Proc, StatDst(p)
  PROVE  Keeps
  <1> DEFINE r == req[p]
  <1>0. /\ r \in Request /\ Proper(r) /\ r.taken <= made /\ UNCHANGED <<tree, kept, made>>
        /\ r.at = "stat" /\ r.kind = "move" /\ r.todo = <<>>
    BY OfRequest DEF StatDst, counts, Proper
  <1>1. CASE Goto(p, [r EXCEPT !.at = "rename", !.target = r.name])
    <2> DEFINE s == [r EXCEPT !.at = "rename", !.target = r.name]
    <2>1. /\ s \in Request /\ s.at = "rename" /\ s.taken = r.taken /\ s.kind = r.kind /\ s.name = r.name
          /\ s.dst = r.dst /\ s.target = r.name /\ s.todo = r.todo
      BY <1>0 DEF Request, Ats
    <2> HIDE DEF s
    <2>2. Proper(s)
      BY <1>0, <2>1 DEF Proper, Moving
    <2> QED
      BY <1>0, <1>1, <2>1, <2>2, QuietStep DEF s
  <1>2. CASE Goto(p, [r EXCEPT !.at = "removeAll", !.target = r.dst])
    <2> DEFINE s == [r EXCEPT !.at = "removeAll", !.target = r.dst]
    <2>1. /\ s \in Request /\ s.at = "removeAll" /\ s.taken = r.taken /\ s.kind = r.kind /\ s.name = r.name
          /\ s.dst = r.dst /\ s.todo = r.todo
      BY <1>0 DEF Request, Ats
    <2> HIDE DEF s
    <2>2. Proper(s)
      BY <1>0, <2>1 DEF Proper, Moving
    <2> QED
      BY <1>0, <1>2, <2>1, <2>2, QuietStep DEF s
  <1>3. CASE Reply(p, r, FALSE)
    BY <1>0, <1>3, ReplyStep
  <1> QED
    BY <1>1, <1>2, <1>3 DEF StatDst

LEMMA RenameStep ==
  ASSUME Shape, NEW p \in Proc, Rename(p)
  PROVE  Keeps
  <1> DEFINE r == req[p]
  <1>0. /\ r \in Request /\ Proper(r) /\ r.taken <= made /\ UNCHANGED <<tree, kept, made>>
        /\ r.at = "rename" /\ r.kind = "move" /\ r.todo = <<>> /\ r.target = r.name
    BY OfRequest DEF Rename, counts, Proper
  <1>1. r.name \in Text /\ IsPrefix(r.name, r.name)
    BY <1>0, PrefixMeans, TextType DEF Request
  <1>2. CASE Goto(p, [r EXCEPT !.at = "take", !.todo = <<r.name>>])
    <2> DEFINE s == [r EXCEPT !.at = "take", !.todo = <<r.name>>]
    <2>0. /\ <<r.name>> \in Seq(Text) /\ \A i \in 1 .. Len(<<r.name>>) : <<r.name>>[i] = r.name
      BY <1>1
    <2>1. /\ s \in Request /\ s.at = "take" /\ s.taken = r.taken /\ s.kind = r.kind /\ s.name = r.name
          /\ s.dst = r.dst /\ s.target = r.target /\ s.todo = <<r.name>>
      BY <1>0, <2>0 DEF Request, Ats
    <2> HIDE DEF s
    <2>2. \A i \in 1 .. Len(s.todo) : IsPrefix(s.name, s.todo[i])
      BY <1>1, <2>0, <2>1
    <2>3. Proper(s)
      BY <1>0, <2>1, <2>2 DEF Proper, Moving
    <2> QED
      BY <1>0, <1>2, <2>1, <2>3, QuietStep DEF s
  <1>3. CASE Goto(p, [r EXCEPT !.at = "list", !.then = "markDst"])
    <2> DEFINE s == [r EXCEPT !.at = "list", !.then = "markDst"]
    <2>1. /\ s \in Request /\ s.at = "list" /\ s.taken = r.taken /\ s.kind = r.kind /\ s.name = r.name
          /\ s.dst = r.dst /\ s.target = r.target /\ s.todo = <<>> /\ s.then = "markDst"
      BY <1>0 DEF Request, Ats
    <2> HIDE DEF s
    <2>2. Proper(s)
      BY <1>0, <2>1 DEF Proper, Moving
    <2> QED
      BY <1>0, <1>3, <2>1, <2>2, QuietStep DEF s
  <1>4. CASE Reply(p, r, FALSE)
    BY <1>0, <1>4, ReplyStep
  <1> QED
    BY <1>2, <1>3, <1>4 DEF Rename

\* A key is left where it is.
LEMMA SkipStep ==
  ASSUME Shape, NEW p \in Proc, req[p].at \in {"take", "place", "remove"}, req[p].todo # <<>>,
         Skip(p, req[p]), UNCHANGED <<tree, kept, made>>
  PROVE  Keeps
  <1> DEFINE r == req[p]
  <1>0. /\ r \in Request /\ Proper(r) /\ r.taken <= made /\ Moving(r) /\ r.kind = "move" /\ r.target = r.name
        /\ \A i \in 1 .. Len(r.todo) : IsPrefix(r.name, r.todo[i])
    BY OfRequest DEF Proper, Moving
  <1>1. CASE Reply(p, r, FALSE)
    BY <1>0, <1>1, ReplyStep
  <1>2. CASE Goto(p, [r EXCEPT !.at = "take", !.todo = Tail(@), !.failed = TRUE])
    <2> DEFINE s == [r EXCEPT !.at = "take", !.todo = Tail(@), !.failed = TRUE]
    <2>0. /\ Tail(r.todo) \in Seq(Text)
          /\ \A i \in 1 .. Len(Tail(r.todo)) : i + 1 \in 1 .. Len(r.todo) /\ Tail(r.todo)[i] = r.todo[i + 1]
      BY <1>0, TailIs DEF Request
    <2>1. /\ s \in Request /\ s.at = "take" /\ s.taken = r.taken /\ s.kind = r.kind /\ s.name = r.name
          /\ s.dst = r.dst /\ s.target = r.target /\ s.todo = Tail(r.todo)
      BY <1>0, <2>0 DEF Request, Ats
    <2> HIDE DEF s
    <2>2. \A i \in 1 .. Len(s.todo) : IsPrefix(s.name, s.todo[i])
      BY <1>0, <2>0, <2>1
    <2>3. Proper(s)
      BY <1>0, <2>1, <2>2 DEF Proper, Moving
    <2> QED
      BY <1>0, <1>2, <2>1, <2>3, QuietStep DEF s
  <1> QED
    BY <1>1, <1>2 DEF Skip

LEMMA TakeStep ==
  ASSUME Shape, NEW p \in Proc, Take(p)
  PROVE  Keeps
  <1> DEFINE r == req[p]
             k == Head(r.todo)
  <1>0. /\ r \in Request /\ Proper(r) /\ r.taken <= made /\ TreeOk /\ UNCHANGED <<tree, kept, made>>
        /\ r.at = "take" /\ r.todo # <<>> /\ r.kind = "move" /\ r.target = r.name
        /\ \A i \in 1 .. Len(r.todo) : IsPrefix(r.name, r.todo[i])
    BY OfRequest DEF Take, counts, Proper, Moving
  <1>1. CASE IsMarker(k) /\ Goto(p, [r EXCEPT !.at = IF k = Marker(r.name) THEN "remove" ELSE "place", !.taken = Dir])
    <2>1. PICK at \in {"remove", "place"} : Goto(p, [r EXCEPT !.at = at, !.taken = Dir])
      BY <1>1
    <2> DEFINE s == [r EXCEPT !.at = at, !.taken = Dir]
    <2>2. /\ s \in Request /\ s.at = at /\ s.taken = Dir /\ s.kind = r.kind /\ s.name = r.name
          /\ s.dst = r.dst /\ s.target = r.target /\ s.todo = r.todo
      BY <1>0 DEF Request, Ats, Dir
    <2> HIDE DEF s
    <2>3. Proper(s) /\ s.taken <= made
      BY <1>0, <2>2 DEF Proper, Moving, Dir, TreeOk
    <2> QED
      BY <1>0, <2>1, <2>2, <2>3, QuietStep DEF s
  <1>2. CASE ~IsMarker(k) /\ IsFile(tree, k) /\ Goto(p, [r EXCEPT !.at = "place", !.taken = tree[k]])
    <2> DEFINE s == [r EXCEPT !.at = "place", !.taken = tree[k]]
    <2>1. tree[k] \in Nat /\ tree[k] <= made
      BY <1>0, <1>2 DEF TreeOk, IsFile
    <2>2. /\ s \in Request /\ s.at = "place" /\ s.taken = tree[k] /\ s.kind = r.kind /\ s.name = r.name
          /\ s.dst = r.dst /\ s.target = r.target /\ s.todo = r.todo
      BY <1>0, <2>1 DEF Request, Ats
    <2> HIDE DEF s
    <2>3. Proper(s)
      BY <1>0, <1>2, <2>2 DEF Proper, Moving
    <2> QED
      BY <1>0, <1>2, <2>1, <2>2, <2>3, QuietStep DEF s
  <1>3. CASE Skip(p, r)
    BY <1>0, <1>3, SkipStep
  <1> QED
    BY <1>1, <1>2, <1>3 DEF Take

LEMMA EndTakesStep ==
  ASSUME Shape, NEW p \in Proc, EndTakes(p)
  PROVE  Keeps
  <1> DEFINE r == req[p]
             s == [r EXCEPT !.at = "prune"]
  <1>0. /\ r \in Request /\ Proper(r) /\ r.taken <= made /\ UNCHANGED <<tree, kept, made>>
        /\ r.at = "take" /\ r.todo = <<>>
    BY OfRequest DEF EndTakes, counts
  <1>1. s \in Request /\ s.at = "prune" /\ s.taken = r.taken /\ Proper(s)
    BY <1>0 DEF Request, Ats, Proper, Moving
  <1>2. Goto(p, s)
    BY DEF EndTakes
  <1> HIDE DEF s
  <1> QED
    BY <1>0, <1>1, <1>2, QuietStep

LEMMA IdleIs == Idle \in Request /\ Proper(Idle) /\ Idle.at = "idle" /\ Idle.taken = 0 /\ Nothing \in Text
  <1>1. Nothing \in Text /\ <<>> \in Seq(Text)
    BY DEF Nothing, Text
  <1> QED
    BY <1>1 DEF Idle, Request, Ats, Proper, Moving, Dir

LEMMA EndStep ==
  ASSUME Shape, NEW p \in Proc, End(p)
  PROVE  Keeps
  <1>1. UNCHANGED <<tree, kept, made>> /\ Goto(p, Idle) /\ TreeOk
    BY DEF End, counts, Shape
  <1>2. 0 <= made
    BY <1>1 DEF TreeOk
  <1> QED
    BY <1>1, <1>2, IdleIs, QuietStep

-----------------------------------------------------------------------------
(* Requests that arrive, and the end of the process. *)

LEMMA ArriveStep ==
  ASSUME Shape, NEW p \in Proc, NEW r, NEW names, Arrive(p, r, names),
         r \in Request, Proper(r), r.at # "remove", r.taken = 0
  PROVE  Keeps
  <1>1. UNCHANGED <<tree, kept, made>> /\ Goto(p, r) /\ TreeOk
    BY DEF Arrive, Shape
  <1>2. r.taken <= made
    BY <1>1 DEF TreeOk
  <1> QED
    BY <1>1, <1>2, QuietStep

LEMMA BeginStep ==
  ASSUME Shape, NEW p \in Proc, Begin(p)
  PROVE  Keeps
  <1>0. Nothing \in Text /\ <<>> \in Seq(Text) /\ Dir = 0
    BY IdleIs DEF Dir, Text
  <1>1. ASSUME BeginMkcol(p) PROVE Keeps
    <2>1. PICK n \in Names : Arrive(p, [Idle EXCEPT !.kind = "mkcol", !.at = "mkcol", !.name = n], {n})
      BY <1>1 DEF BeginMkcol
    <2> DEFINE s == [Idle EXCEPT !.kind = "mkcol", !.at = "mkcol", !.name = n]
    <2>2. s.kind \in Kinds
      BY <2>1 DEF Arrive
    <2>3. n \in Text
      BY NameIs
    <2>4. s \in Request /\ s.at = "mkcol" /\ s.kind = "mkcol" /\ s.taken = 0 /\ s.todo = <<>>
      BY <1>0, <2>2, <2>3 DEF Idle, Request, Ats
    <2> HIDE DEF s
    <2>5. Proper(s)
      BY <2>4 DEF Proper, Moving
    <2> QED
      BY <2>1, <2>4, <2>5, ArriveStep DEF s
  <1>2. ASSUME BeginPut(p) PROVE Keeps
    <2>1. PICK n \in Names : Arrive(p, [Idle EXCEPT !.kind = "put", !.at = "open", !.name = n], {n})
      BY <1>2 DEF BeginPut
    <2> DEFINE s == [Idle EXCEPT !.kind = "put", !.at = "open", !.name = n]
    <2>2. s.kind \in Kinds
      BY <2>1 DEF Arrive
    <2>3. n \in Text
      BY NameIs
    <2>4. s \in Request /\ s.at = "open" /\ s.kind = "put" /\ s.taken = 0 /\ s.todo = <<>> /\ s.name = n
      BY <1>0, <2>2, <2>3 DEF Idle, Request, Ats
    <2> HIDE DEF s
    <2>5. Proper(s)
      BY <2>4 DEF Proper, Moving
    <2> QED
      BY <2>1, <2>4, <2>5, ArriveStep DEF s
  <1>3. ASSUME BeginDelete(p) PROVE Keeps
    <2>1. PICK n \in Names :
            Arrive(p, [Idle EXCEPT !.kind = "delete", !.at = "removeAll", !.name = n, !.target = n], {n})
      BY <1>3 DEF BeginDelete
    <2> DEFINE s == [Idle EXCEPT !.kind = "delete", !.at = "removeAll", !.name = n, !.target = n]
    <2>2. s.kind \in Kinds
      BY <2>1 DEF Arrive
    <2>3. n \in Text
      BY NameIs
    <2>4. s \in Request /\ s.at = "removeAll" /\ s.kind = "delete" /\ s.taken = 0 /\ s.todo = <<>>
      BY <1>0, <2>2, <2>3 DEF Idle, Request, Ats
    <2> HIDE DEF s
    <2>5. Proper(s)
      BY <2>4 DEF Proper, Moving
    <2> QED
      BY <2>1, <2>4, <2>5, ArriveStep DEF s
  <1>4. ASSUME BeginMove(p) PROVE Keeps
    <2>1. PICK n \in Names, d \in Names, over \in BOOLEAN :
            /\ n # d
            /\ Arrive(p, [Idle EXCEPT !.kind = "move", !.at = "stat", !.name = n, !.dst = d, !.over = over], {n, d})
      BY <1>4 DEF BeginMove
    <2> DEFINE s == [Idle EXCEPT !.kind = "move", !.at = "stat", !.name = n, !.dst = d, !.over = over]
    <2>2. s.kind \in Kinds
      BY <2>1 DEF Arrive
    <2>3. n \in Text /\ d \in Text
      BY NameIs
    <2>4. /\ s \in Request /\ s.at = "stat" /\ s.kind = "move" /\ s.taken = 0 /\ s.todo = <<>>
          /\ s.name = n /\ s.dst = d
      BY <1>0, <2>2, <2>3 DEF Idle, Request, Ats
    <2> HIDE DEF s
    <2>5. Proper(s)
      BY <2>1, <2>4 DEF Proper, Moving
    <2> QED
      BY <2>1, <2>4, <2>5, ArriveStep DEF s
  <1>5. ASSUME BeginS3Put(p) PROVE Keeps
    <2>1. PICK k \in Files : Arrive(p, [Idle EXCEPT !.kind = "s3put", !.at = "write", !.name = k], {})
      BY <1>5 DEF BeginS3Put
    <2> DEFINE s == [Idle EXCEPT !.kind = "s3put", !.at = "write", !.name = k]
    <2>2. s.kind \in Kinds
      BY <2>1 DEF Arrive
    <2>3. k \in Text
      BY FileIs
    <2>4. s \in Request /\ s.at = "write" /\ s.kind = "s3put" /\ s.taken = 0 /\ s.todo = <<>> /\ s.name = k
      BY <1>0, <2>2, <2>3 DEF Idle, Request, Ats
    <2> HIDE DEF s
    <2>5. Proper(s)
      BY <2>4 DEF Proper, Moving
    <2> QED
      BY <2>1, <2>4, <2>5, ArriveStep DEF s
  <1>6. ASSUME BeginBatch(p) PROVE Keeps
    <2>1. PICK b \in Batches :
            Arrive(p, [Idle EXCEPT !.kind = "batch", !.at = "drop", !.batch = b, !.todo = b], {})
      BY <1>6 DEF BeginBatch
    <2> DEFINE s == [Idle EXCEPT !.kind = "batch", !.at = "drop", !.batch = b, !.todo = b]
    <2>2. s.kind \in Kinds
      BY <2>1 DEF Arrive
    <2>3. b \in Seq(Text)
      <3>1. b \in Seq(Files) /\ Files \subseteq Text
        BY KeysAssumption, FileIs
      <3> QED
        BY <3>1, WiderSeq
    <2>4. s \in Request /\ s.at = "drop" /\ s.kind = "batch" /\ s.taken = 0
      BY <1>0, <2>2, <2>3 DEF Idle, Request, Ats
    <2> HIDE DEF s
    <2>5. Proper(s)
      BY <2>4 DEF Proper, Moving
    <2> QED
      BY <2>1, <2>4, <2>5, ArriveStep DEF s
  <1> QED
    BY <1>1, <1>2, <1>3, <1>4, <1>5, <1>6 DEF Begin

LEMMA CrashStep ==
  ASSUME Shape, Crash
  PROVE  Keeps
  <1>1. UNCHANGED <<tree, kept, made>> /\ TreeOk' /\ Kept({}) /\ req' = [p \in Proc |-> Idle] /\ made \in Nat
    BY NothingMoves DEF Crash, Shape, TreeOk
  <1>2. RequestsOk'
    BY <1>1, IdleIs DEF RequestsOk
  <1>3. \A p \in Proc : Copied(req[p])'
    BY <1>1, IdleIs DEF Copied
  <1> QED
    BY <1>1, <1>2, <1>3 DEF Keeps, Shape, Safe, Kept

-----------------------------------------------------------------------------
(* The steps that change the tree. *)

LEMMA PutMarkerStep ==
  ASSUME Shape, NEW p \in Proc, PutMarker(p)
  PROVE  Keeps
  <1> DEFINE r == req[p]
             k == Marker(r.name)
  <1>0. /\ r \in Request /\ Proper(r) /\ r.taken <= made /\ TreeOk /\ kept' = kept /\ r.at = "mark"
        /\ made \in Nat /\ r.taken \in Nat
    BY OfRequest DEF PutMarker, Request, TreeOk
  <1>1. k \in Text /\ k # <<>> /\ IsMarker(k)
    BY <1>0, MarkerIs DEF Request
  <1>2. CASE tree' = With(tree, k, Dir) /\ Reply(p, r, TRUE) /\ UNCHANGED counts
    <2> DEFINE s == [r EXCEPT !.at = "reply", !.ok = TRUE]
    <2>1. s \in Request /\ Proper(s) /\ s.at = "reply" /\ s.taken = r.taken
      BY <1>0, Replied
    <2>2. Goto(p, s)
      BY <1>2 DEF Reply
    <2>3. kept' = kept \ (ContentOf(tree, k) \ {Dir}) /\ made' = made
      <3>1. ContentOf(tree, k) \cap kept = {}
        BY <1>0, <1>1 DEF ContentOf, TreeOk
      <3> QED
        BY <1>0, <1>2, <3>1 DEF counts
    <2>4. Dir \in Nat /\ Dir <= made
      BY <1>0 DEF Dir
    <2> HIDE DEF s, k
    <2>5. TreeOk' /\ Kept({})
      BY <1>1, <1>2, <2>3, <2>4, Placed
    <2>6. s.taken <= made' /\ made <= made'
      BY <1>0, <2>1, <2>3
    <2> QED
      BY <2>1, <2>2, <2>5, <2>6, OpenStep
  <1>3. CASE Fault /\ Reply(p, r, FALSE) /\ UNCHANGED tree
    <2>1. UNCHANGED <<tree, kept, made>>
      BY <1>0, <1>3 DEF Fault
    <2> QED
      BY <1>0, <1>3, <2>1, ReplyStep
  <1> QED
    BY <1>2, <1>3 DEF PutMarker

LEMMA WriteStep ==
  ASSUME Shape, NEW p \in Proc, Write(p)
  PROVE  Keeps
  <1> DEFINE r == req[p]
             k == r.name
  <1>0. /\ r \in Request /\ Proper(r) /\ r.taken <= made /\ TreeOk /\ r.at = "write" /\ made \in Nat
    BY OfRequest DEF Write, TreeOk
  <1>1. k \in Text /\ k # <<>>
    <2>1. k \in Names \cup Files
      BY <1>0 DEF Proper
    <2> QED
      BY <2>1, FileIs
  <1>2. ASSUME NEW whole \in BOOLEAN, made' = made + 1, tree' = With(tree, k, made'),
               kept' = (kept \ ContentOf(tree, k)) \cup Followed(k, made'),
               Reply(p, [r EXCEPT !.taken = made'], whole)
        PROVE  Keeps
    <2> DEFINE u == [r EXCEPT !.taken = made']
               s == [u EXCEPT !.at = "reply", !.ok = whole]
    <2>0. made' \in Nat /\ made <= made'
      BY <1>0, <1>2
    <2>1. u \in Request /\ u.at = "write" /\ u.kind = r.kind /\ u.name = r.name /\ u.dst = r.dst
      BY <1>0, <2>0 DEF Request, Ats
    <2>7. u.taken = made'
      BY <1>0 DEF Request
    <2>2. Goto(p, s)
      BY <1>2 DEF Reply
    <2> HIDE DEF u
    <2>3. Proper(u)
      BY <1>0, <2>1 DEF Proper, Moving
    <2>4. s \in Request /\ Proper(s) /\ s.at = "reply" /\ s.taken = made'
      BY <2>1, <2>3, <2>7, Replied
    <2> HIDE DEF s, k
    <2>5. TreeOk' /\ Kept({})
      BY <1>1, <1>2, Written
    <2> QED
      BY <2>0, <2>2, <2>4, <2>5, OpenStep
  <1>3. CASE Reply(p, r, FALSE) /\ UNCHANGED <<tree, kept, counts>>
    BY <1>0, <1>3, ReplyStep DEF counts
  <1> QED
    BY <1>2, <1>3 DEF Write

\* A key that somebody wants gone goes, and with it what it holds.
LEMMA GoneIs ==
  ASSUME Shape, NEW k, tree' = Without(tree, {k}), kept' = kept \ ContentOf(tree, k), made' = made
  PROVE  TreeOk' /\ Kept({}) /\ made <= made'
  <1>1. kept' = kept \ (ContentOf(tree, k) \ {Dir})
    BY DEF ContentOf
  <1>2. (Safe => Dir \notin kept) /\ made \in Nat
    BY DEF Shape, Safe, NothingIsLost, Contents, TreeOk
  <1>3. Safe /\ Dir \in kept => \E d \in DOMAIN tree \ {k} : tree[d] = Dir
    BY <1>2
  <1>4. TreeOk' /\ Kept({})
    BY <1>1, <1>3, Removed
  <1> QED
    BY <1>2, <1>4

LEMMA DropFileStep ==
  ASSUME Shape, NEW p \in Proc, DropFile(p)
  PROVE  Keeps
  <1> DEFINE r == req[p]
  <1>0. /\ r \in Request /\ Proper(r) /\ r.taken <= made /\ TreeOk /\ r.at = "dropFile" /\ made \in Nat
        /\ r.todo = <<>>
    BY OfRequest DEF DropFile, TreeOk, Proper
  <1>1. CASE /\ tree' = Without(tree, {r.target}) /\ kept' = kept \ ContentOf(tree, r.target)
             /\ Goto(p, [r EXCEPT !.at = "prune"]) /\ made' = made
    <2> DEFINE s == [r EXCEPT !.at = "prune"]
    <2>1. s \in Request /\ s.at = "prune" /\ s.taken = r.taken /\ Proper(s)
      BY <1>0 DEF Request, Ats, Proper, Moving
    <2>2. TreeOk' /\ Kept({}) /\ made <= made'
      BY <1>1, GoneIs
    <2>3. s.taken <= made'
      BY <1>0, <1>1, <2>1
    <2> HIDE DEF s
    <2> QED
      BY <1>1, <2>1, <2>2, <2>3, OpenStep DEF s
  <1>2. CASE Fault /\ Reply(p, r, FALSE) /\ UNCHANGED <<tree, kept>>
    BY <1>0, <1>2, ReplyStep DEF Fault
  <1> QED
    BY <1>1, <1>2 DEF DropFile, counts

LEMMA DropStep ==
  ASSUME Shape, NEW p \in Proc, Drop(p)
  PROVE  Keeps
  <1> DEFINE r == req[p]
  <1>0. /\ r \in Request /\ Proper(r) /\ r.taken <= made /\ TreeOk /\ r.at = "drop" /\ made \in Nat
        /\ r.todo # <<>>
    BY OfRequest DEF Drop, TreeOk
  <1>1. Tail(r.todo) \in Seq(Text)
    BY <1>0, TailIs DEF Request
  <1>2. CASE /\ tree' = Without(tree, {Head(r.todo)}) /\ kept' = kept \ ContentOf(tree, Head(r.todo))
             /\ Goto(p, [r EXCEPT !.todo = Tail(@)]) /\ made' = made
    <2> DEFINE s == [r EXCEPT !.todo = Tail(@)]
    <2>1. s \in Request /\ s.at = "drop" /\ s.taken = r.taken /\ s.kind = r.kind /\ s.name = r.name /\ s.dst = r.dst
      BY <1>0, <1>1 DEF Request, Ats
    <2>2. TreeOk' /\ Kept({}) /\ made <= made'
      BY <1>2, GoneIs
    <2> HIDE DEF s
    <2>3. Proper(s) /\ s.taken <= made'
      BY <1>0, <1>2, <2>1 DEF Proper, Moving
    <2> QED
      BY <1>2, <2>1, <2>2, <2>3, OpenStep DEF s
  <1>3. CASE /\ Goto(p, [r EXCEPT !.todo = Tail(@), !.failed = TRUE]) /\ UNCHANGED <<tree, kept, made>>
    <2> DEFINE s == [r EXCEPT !.todo = Tail(@), !.failed = TRUE]
    <2>1. s \in Request /\ s.at = "drop" /\ s.taken = r.taken /\ s.kind = r.kind /\ s.name = r.name /\ s.dst = r.dst
      BY <1>0, <1>1 DEF Request, Ats
    <2> HIDE DEF s
    <2>2. Proper(s)
      BY <1>0, <2>1 DEF Proper, Moving
    <2> QED
      BY <1>0, <1>3, <2>1, <2>2, QuietStep DEF s
  <1> QED
    BY <1>2, <1>3 DEF Drop, Fault, counts

LEMMA MarkDstStep ==
  ASSUME Shape, NEW p \in Proc, MarkDst(p)
  PROVE  Keeps
  <1> DEFINE r == req[p]
             k == Marker(r.dst)
  <1>0. /\ r \in Request /\ Proper(r) /\ r.taken <= made /\ TreeOk /\ kept' = kept /\ r.at = "markDst"
        /\ made \in Nat /\ r.taken \in Nat
    BY OfRequest DEF MarkDst, Request, TreeOk
  <1>1. k \in Text /\ k # <<>> /\ IsMarker(k)
    BY <1>0, MarkerIs DEF Request
  <1>2. CASE tree' = With(tree, k, Dir) /\ Goto(p, [r EXCEPT !.at = "take"]) /\ UNCHANGED counts
    <2> DEFINE s == [r EXCEPT !.at = "take"]
    <2>1. s \in Request /\ Proper(s) /\ s.at = "take" /\ s.taken = r.taken
      BY <1>0 DEF Request, Ats, Proper, Moving
    <2>3. kept' = kept \ (ContentOf(tree, k) \ {Dir}) /\ made' = made
      <3>1. ContentOf(tree, k) \cap kept = {}
        BY <1>0, <1>1 DEF ContentOf, TreeOk
      <3> QED
        BY <1>0, <1>2, <3>1 DEF counts
    <2>4. Dir \in Nat /\ Dir <= made
      BY <1>0 DEF Dir
    <2>2. Goto(p, s)
      BY <1>2
    <2> HIDE DEF s, k
    <2>5. TreeOk' /\ Kept({})
      BY <1>1, <1>2, <2>3, <2>4, Placed
    <2>6. s.taken <= made' /\ made <= made'
      BY <1>0, <2>1, <2>3
    <2> QED
      BY <2>1, <2>2, <2>5, <2>6, OpenStep
  <1>3. CASE Fault /\ Reply(p, r, FALSE) /\ UNCHANGED tree
    <2>1. UNCHANGED <<tree, kept, made>>
      BY <1>0, <1>3 DEF Fault
    <2> QED
      BY <1>0, <1>3, <2>1, ReplyStep
  <1> QED
    BY <1>2, <1>3 DEF MarkDst

LEMMA PlaceStep ==
  ASSUME Shape, NEW p \in Proc, Place(p)
  PROVE  Keeps
  <1> DEFINE r == req[p]
             k == Head(r.todo)
             d == Moved(k, r.name, r.dst)
  <1>0. /\ r \in Request /\ Proper(r) /\ r.taken <= made /\ TreeOk /\ r.at = "place" /\ made \in Nat
        /\ r.todo # <<>> /\ r.todo \in Seq(Text) /\ r.kind = "move" /\ r.target = r.name
        /\ r.name \in Names /\ r.dst \in Names /\ r.taken \in Nat
        /\ \A i \in 1 .. Len(r.todo) : IsPrefix(r.name, r.todo[i])
        /\ IsMarker(k) => r.taken = Dir
    BY OfRequest DEF Place, TreeOk, Request, Proper, Moving
  <1>1. k \in Text /\ IsPrefix(r.name, k)
    BY <1>0, TailIs
  <1>2. d \in Text /\ d # <<>> /\ (IsMarker(d) => r.taken = Dir)
    <2>1. r.name \in Text /\ r.dst \in Text /\ r.dst # <<>>
      BY <1>0, NameIs
    <2>2. d \in Text /\ Len(d) = Len(r.dst) + (Len(k) - Len(r.name)) /\ Len(r.name) <= Len(k)
      BY <1>1, <2>1, MovedIs
    <2>3. d # <<>>
      <3>1. Len(r.dst) \in Nat /\ Len(r.dst) # 0
        BY <2>1 DEF Text
      <3>2. Len(k) \in Nat /\ Len(r.name) \in Nat
        BY <1>1, <2>1, TextType
      <3> HIDE DEF d, k
      <3>3. Len(d) # 0
        BY <2>2, <3>1, <3>2
      <3> QED
        BY <3>3
    <2>4. IsMarker(d) => IsMarker(k)
      BY <1>0, <1>1, <2>1, MovedMarker
    <2> QED
      BY <1>0, <2>2, <2>3, <2>4
  <1>3. CASE /\ tree' = With(tree, d, r.taken) /\ kept' = kept \ (ContentOf(tree, d) \ {r.taken})
             /\ Goto(p, [r EXCEPT !.at = "remove"]) /\ made' = made
    <2> DEFINE s == [r EXCEPT !.at = "remove"]
    <2>1. /\ s \in Request /\ s.at = "remove" /\ s.taken = r.taken /\ s.kind = r.kind /\ s.name = r.name
          /\ s.dst = r.dst /\ s.target = r.target /\ s.todo = r.todo
      BY <1>0 DEF Request, Ats
    <2>2. Goto(p, s)
      BY <1>3
    <2> HIDE DEF s
    <2>3. Proper(s) /\ s.taken <= made' /\ made <= made'
      BY <1>0, <1>3, <2>1 DEF Proper, Moving
    <2>4. Moved(Head(s.todo), s.name, s.dst) = d
      BY <2>1
    <2> HIDE DEF k, d
    <2>5. TreeOk' /\ Kept({})
      BY <1>0, <1>2, <1>3, Placed
    <2>6. d \in DOMAIN tree' /\ tree'[d] = s.taken
      BY <1>3, <2>1 DEF With
    <2>7. \A q \in Proc \ {p} : req[q].at = "remove" /\ req[q].taken # Dir =>
            Moved(Head(req[q].todo), req[q].name, req[q].dst) \notin {}
      OBVIOUS
    <2> QED
      BY <2>1, <2>2, <2>3, <2>4, <2>5, <2>6, <2>7, OneMoves
  <1>4. CASE Fault /\ Skip(p, r) /\ UNCHANGED <<tree, kept>>
    BY <1>0, <1>4, SkipStep DEF Fault
  <1> QED
    BY <1>3, <1>4 DEF Place, counts

\* The original goes once the copy is in its place; no other move has put anything there.
LEMMA RemoveSourceStep ==
  ASSUME Shape, NEW p \in Proc, RemoveSource(p)
  PROVE  Keeps
  <1> DEFINE r == req[p]
             k == Head(r.todo)
             d == Moved(k, r.name, r.dst)
  <1>0. /\ r \in Request /\ Proper(r) /\ r.taken <= made /\ TreeOk /\ r.at = "remove" /\ made \in Nat
        /\ r.todo # <<>> /\ r.todo \in Seq(Text) /\ r.kind = "move" /\ r.target = r.name
        /\ r.name \in Names /\ r.dst \in Names /\ r.taken \in Nat /\ r.name # r.dst
        /\ \A i \in 1 .. Len(r.todo) : IsPrefix(r.name, r.todo[i])
    BY OfRequest DEF RemoveSource, TreeOk, Request, Proper, Moving
  <1>1. k \in Text /\ IsPrefix(r.name, k) /\ r.name \in Text /\ r.dst \in Text
    BY <1>0, TailIs, NameIs
  <1>2. Safe /\ r.taken \in kept => \E j \in DOMAIN tree \ {k} : tree[j] = r.taken
    <2> SUFFICES ASSUME Safe, r.taken \in kept PROVE \E j \in DOMAIN tree \ {k} : tree[j] = r.taken
      OBVIOUS
    <2>1. r.taken # Dir
      BY DEF Safe, NothingIsLost, Contents
    <2>2. d \in DOMAIN tree /\ tree[d] = r.taken
      BY <1>0, <2>1 DEF Safe, Copied
    <2>3. d # k
      BY <1>0, <1>1, MovedAway
    <2> QED
      BY <2>2, <2>3
  <1>3. ASSUME MovesApart, NEW q \in Proc \ {p}, req[q].at = "remove"
        PROVE  Moved(Head(req[q].todo), req[q].name, req[q].dst) # k
    <2> DEFINE t == req[q]
    <2>1. /\ t.kind = "move" /\ t.todo # <<>> /\ t.todo \in Seq(Text) /\ t.name \in Names /\ t.dst \in Names
          /\ \A i \in 1 .. Len(t.todo) : IsPrefix(t.name, t.todo[i])
      BY <1>3, OfRequest DEF Request, Proper, Moving
    <2>2. Head(t.todo) \in Text /\ IsPrefix(t.name, Head(t.todo)) /\ t.name \in Text /\ t.dst \in Text
      BY <2>1, TailIs, NameIs
    <2>3. IsPrefix(t.dst, Moved(Head(t.todo), t.name, t.dst))
      BY <2>2, MovedIs
    <2>4. ~Related(r.name, t.dst)
      BY <1>0, <1>3, <2>1 DEF MovesApart
    <2> QED
      BY <1>1, <2>2, <2>3, <2>4, BothPrefixes
  <1>4. CASE /\ tree' = Without(tree, {k}) /\ kept' = kept \ (ContentOf(tree, k) \ {r.taken}) /\ made' = made
             /\ Goto(p, IF r.todo = <<r.name>>
                          THEN [r EXCEPT !.at = "prune", !.todo = <<>>]
                          ELSE [r EXCEPT !.at = "take", !.todo = Tail(@)])
    <2>1. TreeOk' /\ Kept({k})
      <3> HIDE DEF k, d
      <3> QED
        BY <1>2, <1>4, Removed
    <2>2. MovesApart => \A q \in Proc \ {p} : req[q].at = "remove" /\ req[q].taken # Dir =>
            Moved(Head(req[q].todo), req[q].name, req[q].dst) \notin {k}
      BY <1>3
    <2>3. ASSUME NEW s \in Request, Proper(s), s.taken = r.taken, s.at # "remove", Goto(p, s) PROVE Keeps
      <3>1. s.taken <= made' /\ made <= made'
        BY <1>0, <1>4, <2>3
      <3> HIDE DEF k
      <3> QED
        BY <2>1, <2>2, <2>3, <3>1, OneMoves
    <2>4. ASSUME Goto(p, [r EXCEPT !.at = "prune", !.todo = <<>>]) PROVE Keeps
      <3> DEFINE s == [r EXCEPT !.at = "prune", !.todo = <<>>]
      <3>1. <<>> \in Seq(Text)
        OBVIOUS
      <3>2. /\ s \in Request /\ s.at = "prune" /\ s.taken = r.taken /\ s.kind = r.kind /\ s.name = r.name
            /\ s.dst = r.dst /\ s.todo = <<>>
        BY <1>0, <3>1 DEF Request, Ats
      <3> HIDE DEF s
      <3>3. Proper(s)
        BY <1>0, <3>2 DEF Proper, Moving
      <3> QED
        BY <2>3, <2>4, <3>2, <3>3 DEF s
    <2>5. ASSUME Goto(p, [r EXCEPT !.at = "take", !.todo = Tail(@)]) PROVE Keeps
      <3> DEFINE s == [r EXCEPT !.at = "take", !.todo = Tail(@)]
      <3>1. /\ Tail(r.todo) \in Seq(Text)
            /\ \A i \in 1 .. Len(Tail(r.todo)) : i + 1 \in 1 .. Len(r.todo) /\ Tail(r.todo)[i] = r.todo[i + 1]
        BY <1>0, TailIs
      <3>2. /\ s \in Request /\ s.at = "take" /\ s.taken = r.taken /\ s.kind = r.kind /\ s.name = r.name
            /\ s.dst = r.dst /\ s.target = r.target /\ s.todo = Tail(r.todo)
        BY <1>0, <3>1 DEF Request, Ats
      <3> HIDE DEF s
      <3>3. \A i \in 1 .. Len(s.todo) : IsPrefix(s.name, s.todo[i])
        BY <1>0, <3>1, <3>2
      <3>4. Proper(s)
        BY <1>0, <3>2, <3>3 DEF Proper, Moving
      <3> QED
        BY <2>3, <2>5, <3>2, <3>4 DEF s
    <2> QED
      BY <1>4, <2>4, <2>5
  <1>5. CASE Fault /\ Skip(p, r) /\ UNCHANGED <<tree, kept>>
    BY <1>0, <1>5, SkipStep DEF Fault
  <1> QED
    BY <1>4, <1>5 DEF RemoveSource, counts

-----------------------------------------------------------------------------
(* The first tree, whose contents are numbered 1, 2, ... *)

LEMMA FirstContents ==
  ASSUME NEW F, IsFiniteSet(F), F \subseteq Text,
         NEW f, \A k \in F : f[k] = Cardinality({j \in F : ~Before(k, j)})
  PROVE  /\ \A k \in F : f[k] \in 1 .. Cardinality(F)
         /\ \A i \in 1 .. Cardinality(F) : \E k \in F : f[k] = i
  <1> DEFINE R == {p \in F \X F : Before(p[1], p[2])}
             n == Cardinality(F)
  <1>1. \A x, y \in F : <<x, y>> \in R <=> Before(x, y)
    OBVIOUS
  <1> HIDE DEF R
  <1>2. Orders(R, F)
    <2>1. \A x \in F : <<x, x>> \notin R
      BY <1>1, Irreflexive
    <2>2. \A x, y \in F : <<x, y>> \in R \/ <<y, x>> \in R \/ x = y
      BY <1>1, Total
    <2>3. \A x, y, z \in F : <<x, y>> \in R /\ <<y, z>> \in R => <<x, z>> \in R
      BY <1>1, Transitive
    <2> QED
      BY <2>1, <2>2, <2>3 DEF Orders
  <1>3. n \in Nat
    BY FS_CardinalityType
  <1>4. ASSUME NEW k \in F PROVE f[k] = Cardinality(Under(R, F, k)) + 1 /\ f[k] \in 1 .. n
    <2> DEFINE U == Under(R, F, k)
               V == {j \in F : ~Before(k, j)}
    <2>1. V = U \cup {k}
      BY <1>1, Irreflexive, Asymmetric, Total DEF Under
    <2>2. k \notin U /\ IsFiniteSet(U)
      BY <1>1, Irreflexive, FS_Subset DEF Under
    <2>3. V \subseteq F
      OBVIOUS
    <2> HIDE DEF U, V
    <2>4. Cardinality(V) = Cardinality(U) + 1 /\ Cardinality(U) \in Nat
      BY <2>1, <2>2, FS_AddElement, FS_CardinalityType
    <2>5. Cardinality(V) <= n
      BY <2>3, FS_Subset
    <2>6. f[k] = Cardinality(V)
      BY DEF V
    <2>7. f[k] \in 1 .. n
      BY <1>3, <2>4, <2>5, <2>6
    <2> QED
      BY <2>4, <2>6, <2>7 DEF U
  <1>5. ASSUME NEW i \in 1 .. n PROVE \E k \in F : f[k] = i
    <2>1. PICK k \in F : Cardinality(Under(R, F, k)) = i - 1
      BY <1>2, Ranks
    <2>2. f[k] = (i - 1) + 1
      BY <1>4, <2>1
    <2> QED
      BY <2>2
  <1> QED
    BY <1>4, <1>5

LEMMA InitDav ==
  ASSUME Init PROVE DavInv
  <1>1. PICK S \in InitTrees :
          tree = [k \in S |-> IF IsMarker(k) THEN Dir
                             ELSE Cardinality({j \in S : ~IsMarker(j) /\ ~Before(k, j)})]
    BY DEF Init
  <1> DEFINE F == {j \in S : ~IsMarker(j)}
             n == Cardinality(F)
  <1>2. IsFiniteSet(S) /\ \A k \in S : k \in Text /\ k # <<>>
    BY TreeAssumption DEF Text
  <1>3. IsFiniteSet(F) /\ F \subseteq Text /\ F \subseteq S
    BY <1>2, FS_Subset
  <1>4. ASSUME NEW k \in F PROVE tree[k] = Cardinality({j \in F : ~Before(k, j)})
    <2>1. {j \in S : ~IsMarker(j) /\ ~Before(k, j)} = {j \in F : ~Before(k, j)}
      OBVIOUS
    <2>2. tree[k] = Cardinality({j \in S : ~IsMarker(j) /\ ~Before(k, j)})
      BY <1>1
    <2> QED
      BY <2>1, <2>2
  <1>5. DOMAIN tree = S /\ \A k \in S : IsMarker(k) => tree[k] = Dir
    BY <1>1
  <1>6. \A k \in S : ~IsMarker(k) => k \in F
    OBVIOUS
  <1>7. \A k \in F : ~IsMarker(k)
    OBVIOUS
  <1> HIDE DEF F
  <1>8. /\ \A k \in F : tree[k] \in 1 .. n
        /\ \A i \in 1 .. n : \E k \in F : tree[k] = i
    BY <1>3, <1>4, FirstContents
  <1>9. n \in Nat
    BY <1>3, FS_CardinalityType
  <1>10. kept = 1 .. n
    <2>1. kept = Contents(tree)
      BY DEF Init
    <2>2. ASSUME NEW c \in Contents(tree) PROVE c \in 1 .. n
      BY <1>5, <1>6, <1>8, <2>2 DEF Contents
    <2>3. ASSUME NEW i \in 1 .. n PROVE i \in Contents(tree)
      <3>1. PICK k \in F : tree[k] = i
        BY <1>8
      <3>2. k \in DOMAIN tree /\ i # Dir
        BY <1>3, <1>5, <1>9 DEF Dir
      <3> QED
        BY <3>1, <3>2 DEF Contents
    <2> QED
      BY <2>1, <2>2, <2>3
  <1>11. made = n
    <2>1. Cardinality(1 .. n) = n
      <3>1. Cardinality(1 .. n) = IF 1 > n THEN 0 ELSE n - 1 + 1
        BY <1>9, FS_Interval
      <3> QED
        BY <1>9, <3>1
    <2> QED
      BY <1>10, <2>1 DEF Init
  <1> HIDE DEF n
  <1>12. TreeOk
    <2>1. ASSUME NEW k \in DOMAIN tree
          PROVE  k \in Text /\ k # <<>> /\ tree[k] \in Nat /\ tree[k] <= made /\ (IsMarker(k) => tree[k] \notin kept)
      <3>1. CASE IsMarker(k)
        BY <1>2, <1>5, <1>9, <1>10, <1>11, <3>1 DEF Dir
      <3>2. CASE ~IsMarker(k)
        <4>1. tree[k] \in 1 .. n
          BY <1>5, <1>6, <1>8, <3>2
        <4> QED
          BY <1>2, <1>5, <1>9, <1>11, <3>2, <4>1
      <3> QED
        BY <3>1, <3>2
    <2> QED
      BY <1>1, <1>2, <1>5, <1>9, <1>10, <1>11, <2>1 DEF TreeOk
  <1>13. req = [p \in Proc |-> Idle] /\ 0 <= made /\ NothingIsLost
    BY <1>9, <1>11 DEF Init, NothingIsLost
  <1>14. RequestsOk /\ \A p \in Proc : Copied(req[p])
    BY <1>13, IdleIs DEF RequestsOk, Copied
  <1> QED
    BY <1>12, <1>13, <1>14 DEF DavInv, Shape, Safe

-----------------------------------------------------------------------------
(* The invariant of the tree, and the theorem. *)

LEMMA DavStep ==
  ASSUME Shape, [Next]_davVars
  PROVE  Keeps
  <1>1. CASE Crash
    BY <1>1, CrashStep
  <1>2. ASSUME NEW p \in Proc, Begin(p) PROVE Keeps
    BY <1>2, BeginStep
  <1>3. ASSUME NEW p \in Proc, Step(p) PROVE Keeps
    <2>1. CASE Mkdir(p) \/ PutMarker(p) \/ OpenFile(p) \/ Write(p)
      BY <2>1, MkdirStep, PutMarkerStep, OpenFileStep, WriteStep
    <2>2. CASE \/ RemoveAll(p) \/ DropFile(p) \/ List(p) \/ Drop(p) \/ EndDrops(p) \/ Prune(p) \/ Unmark(p)
      BY <2>2, RemoveAllStep, DropFileStep, ListStep, DropStep, EndDropsStep, PruneStep, UnmarkStep
    <2>3. CASE \/ StatDst(p) \/ Rename(p) \/ MarkDst(p) \/ Take(p) \/ EndTakes(p) \/ Place(p) \/ RemoveSource(p)
      BY <2>3, StatDstStep, RenameStep, MarkDstStep, TakeStep, EndTakesStep, PlaceStep, RemoveSourceStep
    <2>4. CASE End(p)
      BY <2>4, EndStep
    <2> QED
      BY <1>3, <2>1, <2>2, <2>3, <2>4 DEF Step
  <1>4. CASE UNCHANGED davVars
    <2>1. UNCHANGED <<tree, kept, req, made>>
      BY <1>4 DEF davVars, counts
    <2> QED
      BY <2>1 DEF Keeps, Shape, Safe, TreeOk, RequestsOk, Copied, NothingIsLost, Proper, Moving
  <1> QED
    BY <1>1, <1>2, <1>3, <1>4 DEF Next

\* However many requests run at once, over whatever trees, and wherever a fault or a crash
\* cuts them off, what a file holds and nobody deleted or overwrote is in the tree, as long as
\* no MOVE takes from where another puts and none overwrites a directory it takes from: Rename
\* copies each key before it removes it, RemoveAll deletes key by key (webdav/filesystem.go).
\* What an S3 client wrote under a folder's own key is not followed.
THEOREM MovesKeepContents == DavSpec /\ []MovesApart => []NothingIsLost
  <1>1. Init => DavInv
    BY InitDav
  <1>2. DavInv /\ MovesApart /\ [Next]_davVars => DavInv'
    BY DavStep DEF DavInv, Keeps
  <1>3. DavInv => NothingIsLost
    BY DEF DavInv, Safe
  <1> QED
    BY <1>1, <1>2, <1>3, PTL DEF DavSpec

-----------------------------------------------------------------------------
(* What a request that runs alone has come to, and the tree it began with. *)

\* A tree whose keys are texts.
Plain(t) ==
  /\ t = [k \in DOMAIN t |-> t[k]]
  /\ \A k \in DOMAIN t : k \in Text /\ k # <<>>

\* What is removed or moved under name n.
Gone(t, n) == IF IsFile(t, n) THEN {n} ELSE Below(t, n)

There(t, n) == IsFile(t, n) \/ IsDir(t, n)

\* The tree a move starts from: what was at the destination is gone.
Cleared(t, r) == IF There(t, r.dst) THEN Deleted(t, r.dst) ELSE t

\* A move is between places apart.
Apart(r) == ~IsPrefix(r.name, r.dst) /\ ~IsPrefix(r.dst, r.name)

\* The request removes what is at its target.
Clears(r) == (r.kind = "delete" /\ r.target = r.name) \/ (r.kind = "move" /\ r.target = r.dst)

\* The keys below d that the pages so far do not hold come after them.
Paged(t, r) ==
  /\ ToSet(r.todo) \subseteq Below(t, r.target)
  /\ \A k \in Below(t, r.target) : k \in ToSet(r.todo) \/ r.marker = Nothing \/ Before(r.marker, k)

\* Of the keys in S, those still to do and some others are left.
Dropped(t, u, S, r) ==
  \E D \in SUBSET S : D \cup ToSet(r.todo) = S /\ u = Without(t, D)

\* The marker a directory gets that is moved.
Mark(b, r) == IF IsFile(b, r.name) THEN {} ELSE {Marker(r.dst)}

\* Of the tree b, the keys P are copied and the keys D are removed.
Halfway(b, u, P, D, r) ==
  LET to(k) == Moved(k, r.name, r.dst)
      new   == {to(k) : k \in P} \cup Mark(b, r)
  IN /\ u = [j \in (DOMAIN b \cup new) \ D |-> u[j]]
     /\ \A k \in P : u[to(k)] = Copy(b, k)
     /\ \A m \in Mark(b, r) : u[m] = Dir
     /\ \A j \in DOMAIN b \ (D \cup new) : u[j] = b[j]

\* The keys taken off the list are at their new names only; the one under way is at both.
Moves(b, u, r) ==
  \E D \in SUBSET Gone(b, r.name) :
    /\ D \cup ToSet(r.todo) = Gone(b, r.name)
    /\ Halfway(b, u, IF r.at = "remove" THEN D \cup {Head(r.todo)} ELSE D, D, r)

\* The tree a move leaves, before folders are cleaned up.
Shifted(b, src, dst) ==
  LET gone == IF IsFile(b, src) THEN {src} ELSE Below(b, src)
      new  == {Moved(k, src, dst) : k \in gone} \cup IF IsFile(b, src) THEN {} ELSE {Marker(dst)}
      old(j) == Moved(j, dst, src)
      full == [j \in DOMAIN b \cup new |->
                 IF j \in new /\ old(j) \in gone THEN Copy(b, old(j))
                 ELSE IF j \in new THEN Dir ELSE b[j]]
  IN Without(full, gone)

\* The tree whose empty folders are cleaned up.
Base(t, r) == IF Clears(r) THEN Without(t, Gone(t, r.target))
              ELSE Shifted(Cleared(t, r), r.name, r.dst)

\* Below the i-th folder above k there is nothing but markers of folders above k.
Above(k, i) == SubSeq(k, 1, i)
Empty(b, k, i) ==
  \A j \in Below(b, Above(k, i)) : \E l \in i .. Len(k) - 1 : j = Marker(Above(k, l))

\* The markers above k are gone down to the i-th, and there is nothing else from the j-th on.
Climbing(b, u, k, i, j) ==
  /\ u = Without(b, {Marker(Above(k, l)) : l \in i .. Len(k) - 1})
  /\ \A l \in j .. Len(k) - 1 : Empty(b, k, l)

\* The folder the clean-up has come to.
Level(r) == IF r.marker = Nothing THEN Len(r.target) ELSE Len(r.marker)

\* The request has removed or moved what is at its target, and cleans up the folders above.
Cleans(t, r) ==
  /\ \/ Clears(r) /\ There(t, r.target)
     \/ r.kind = "move" /\ r.target = r.name
  /\ DOMAIN Base(t, r) \subseteq Text
  /\ r.marker # Nothing => Len(r.marker) < Len(r.target) /\ r.marker = Above(r.target, Len(r.marker))

\* How far r, which began with the tree t, has come when the tree is u; once a key has failed it
\* promises nothing.
Progress(t, u, r) ==
  /\ r.at \in {"mkcol", "mark"} => u = t /\ r.kind = "mkcol"
  /\ r.at \in {"open", "write"} => u = t /\ r.kind \in {"put", "s3put"}
  /\ r.at = "reply" => (r.ok => u = Promised(t, r))
  /\ r.kind = "move" => ~IsPrefix(r.dst, r.name)
  /\ r.kind = "delete" => r.name # Nothing
  /\ ~r.failed =>
       /\ r.at \notin {"list", "prune", "unmark", "reply"} => r.marker = Nothing
       /\ r.at = "stat" => u = t
       /\ r.at = "removeAll" => u = t /\ Clears(r)
       /\ r.at = "dropFile" => u = t /\ Clears(r) /\ IsFile(t, r.target)
       /\ r.at = "list" /\ r.then = "drop" =>
            u = t /\ Clears(r) /\ ~IsFile(t, r.target) /\ IsDir(t, r.target) /\ Paged(t, r)
       /\ r.at = "drop" /\ r.kind # "batch" =>
            /\ Clears(r) /\ ~IsFile(t, r.target) /\ IsDir(t, r.target)
            /\ Dropped(t, u, Below(t, r.target), r)
       /\ r.at = "drop" /\ r.kind = "batch" => Dropped(t, u, ToSet(r.batch), r)
       /\ r.at = "rename" => u = Cleared(t, r)
       /\ r.at = "list" /\ r.then # "drop" =>
            u = Cleared(t, r) /\ Apart(r) /\ ~IsFile(u, r.name) /\ Paged(u, r)
       /\ r.at = "markDst" =>
            u = Cleared(t, r) /\ Apart(r) /\ ~IsFile(u, r.name) /\ ToSet(r.todo) = Below(u, r.name)
       /\ r.at \in {"take", "place", "remove"} =>
            /\ Apart(r) /\ Moves(Cleared(t, r), u, r)
            /\ r.at = "place" => r.taken = Copy(Cleared(t, r), Head(r.todo))
       /\ r.at = "prune" => Cleans(t, r) /\ Climbing(Base(t, r), u, r.target, Level(r), Level(r))
       /\ r.at = "unmark" =>
            /\ Cleans(t, r) /\ r.marker # Nothing
            /\ Climbing(Base(t, r), u, r.target, Level(r) + 1, Level(r))

\* Whoever has a tree to compare with is alone, and has come from it.
LoneInv ==
  /\ before = [p \in Proc |-> before[p]]
  /\ \A p \in Proc : before[p] # {} =>
       /\ Busy(p) /\ \A q \in Proc : q # p => ~Busy(q)
       /\ \A t \in before[p] : Plain(t) /\ Progress(t, tree, req[p])

-----------------------------------------------------------------------------
(* The clean-up of empty folders. *)

LEMMA PrunedIs ==
  ASSUME NEW t, NEW k
  PROVE  Pruned(t, k) = Without(t, {Marker(Above(k, i)) : i \in {i \in 1 .. Len(k) - 1 : Empty(t, k, i)}})
  BY DEF Pruned, Above, Empty

LEMMA AboveIs ==
  ASSUME NEW k \in Text, NEW i \in 0 .. Len(k)
  PROVE  /\ Above(k, i) \in Text /\ Len(Above(k, i)) = i /\ IsPrefix(Above(k, i), k)
         /\ \A j \in 1 .. i : Above(k, i)[j] = k[j]
         /\ \A j \in 0 .. i : Above(Above(k, i), j) = Above(k, j)
  <1>1. Len(k) \in Nat /\ k \in Seq(Nat)
    BY TextType DEF Text
  <1>2. Above(k, i) \in Text /\ Len(Above(k, i)) = i /\ \A j \in 1 .. i : Above(k, i)[j] = k[j]
    BY <1>1 DEF Above, Text
  <1>3. IsPrefix(Above(k, i), k)
    BY <1>1, <1>2, PrefixMeans
  <1>4. ASSUME NEW j \in 0 .. i PROVE Above(Above(k, i), j) = Above(k, j)
    <2>1. /\ Above(Above(k, i), j) \in Seq(Nat) /\ Len(Above(Above(k, i), j)) = j
          /\ \A l \in 1 .. j : Above(Above(k, i), j)[l] = k[l]
      <3> DEFINE a == Above(k, i)
      <3>1. a \in Seq(Nat) /\ Len(a) = i /\ \A l \in 1 .. i : a[l] = k[l]
        BY <1>2 DEF Text
      <3> HIDE DEF a
      <3>3. j \in Nat /\ j <= Len(a)
        BY <1>1, <3>1
      <3>2. SubSeq(a, 1, j) \in Seq(Nat) /\ Len(SubSeq(a, 1, j)) = j /\ \A l \in 1 .. j : SubSeq(a, 1, j)[l] = a[l]
        BY <3>1, <3>3
      <3> QED
        BY <1>1, <3>1, <3>2 DEF Above, a
    <2>2. /\ Above(k, j) \in Seq(Nat) /\ Len(Above(k, j)) = j
          /\ \A l \in 1 .. j : Above(k, j)[l] = k[l]
      BY <1>1 DEF Above
    <2> DEFINE x == Above(Above(k, i), j)
               y == Above(k, j)
    <2> HIDE DEF x, y
    <2>3. x \in Seq(Nat) /\ y \in Seq(Nat) /\ Len(x) = j /\ Len(y) = j /\ \A l \in 1 .. j : x[l] = y[l]
      BY <2>1, <2>2 DEF x, y
    <2>4. x = y
      BY <2>3
    <2> QED
      BY <2>4 DEF x, y
  <1> QED
    BY <1>2, <1>3, <1>4

LEMMA PrefixChain ==
  ASSUME NEW a \in Text, NEW b \in Text, NEW c \in Text, IsPrefix(a, b), IsPrefix(b, c)
  PROVE  IsPrefix(a, c) /\ Len(a) <= Len(b)
  <1>1. Len(a) \in Nat /\ Len(b) \in Nat /\ Len(c) \in Nat
    BY TextType
  <1>2. /\ Len(a) <= Len(b) /\ Len(b) <= Len(c)
        /\ \A j \in 1 .. Len(a) : a[j] = b[j]
        /\ \A j \in 1 .. Len(b) : b[j] = c[j]
    BY PrefixMeans
  <1>3. Len(a) <= Len(c) /\ \A j \in 1 .. Len(a) : a[j] = c[j]
    BY <1>1, <1>2
  <1> QED
    BY <1>2, <1>3, PrefixMeans

\* A folder above one that is not empty is not empty.
LEMMA EmptyUp ==
  ASSUME NEW b, DOMAIN b \subseteq Text, NEW k \in Text, NEW i \in 1 .. Len(k), NEW j \in 1 .. Len(k), i <= j,
         Empty(b, k, i)
  PROVE  Empty(b, k, j)
  <1> SUFFICES ASSUME NEW x \in Below(b, Above(k, j))
               PROVE  \E l \in j .. Len(k) - 1 : x = Marker(Above(k, l))
    BY DEF Empty
  <1>1. Len(k) \in Nat /\ i \in 0 .. Len(k) /\ j \in 0 .. Len(k)
    BY TextType
  <1>2. /\ Above(k, i) \in Text /\ Above(k, j) \in Text
        /\ Len(Above(k, i)) = i /\ Len(Above(k, j)) = j /\ IsPrefix(Above(k, i), Above(k, j))
    <2>1. /\ Above(k, i) \in Text /\ Above(k, j) \in Text /\ Len(Above(k, i)) = i /\ Len(Above(k, j)) = j
          /\ \A l \in 1 .. i : Above(k, i)[l] = k[l]
          /\ \A l \in 1 .. j : Above(k, j)[l] = k[l]
      BY <1>1, AboveIs
    <2>2. Len(Above(k, i)) <= Len(Above(k, j)) /\ \A l \in 1 .. Len(Above(k, i)) : Above(k, i)[l] = Above(k, j)[l]
      BY <1>1, <2>1
    <2> QED
      BY <2>1, <2>2, PrefixMeans
  <1>3. x \in DOMAIN b /\ x \in Text /\ Len(x) > j /\ IsPrefix(Above(k, j), x) /\ Len(x) \in Nat
    BY <1>2, TextType DEF Below
  <1>4. IsPrefix(Above(k, i), x)
    BY <1>2, <1>3, PrefixChain
  <1>5. x \in Below(b, Above(k, i))
    BY <1>1, <1>2, <1>3, <1>4 DEF Below
  <1>6. PICK l \in i .. Len(k) - 1 : x = Marker(Above(k, l))
    BY <1>5 DEF Empty
  <1>7. Len(x) = l + 1
    <2>1. l \in 0 .. Len(k)
      BY <1>1
    <2> QED
      BY <1>6, <2>1, AboveIs, MarkerIs
  <1>8. l \in j .. Len(k) - 1
    BY <1>1, <1>3, <1>6, <1>7
  <1> QED
    BY <1>6, <1>8

\* Only the folder's own marker is left below it exactly if it is empty.
LEMMA EmptyIs ==
  ASSUME NEW b, NEW u, NEW k \in Text, NEW i \in 1 .. Len(k), Climbing(b, u, k, i, i), i - 1 >= 1
  PROVE  Below(u, Above(k, i - 1)) \ {Marker(Above(k, i - 1))} = {} <=> Empty(b, k, i - 1)
  <1> DEFINE d == Above(k, i - 1)
             G == {Marker(Above(k, l)) : l \in i .. Len(k) - 1}
  <1>0. Len(k) \in Nat
    BY TextType
  <1>1. DOMAIN u = DOMAIN b \ G
    BY WithoutIs DEF Climbing
  <1>2. Below(u, d) = Below(b, d) \ G
    BY <1>1 DEF Below
  <1>3. ASSUME NEW x PROVE (\E l \in i - 1 .. Len(k) - 1 : x = Marker(Above(k, l))) <=> x \in G \/ x = Marker(d)
    <2>1. i - 1 \in i - 1 .. Len(k) - 1 /\ \A l \in i .. Len(k) - 1 : l \in i - 1 .. Len(k) - 1
      BY <1>0
    <2>2. \A l \in i - 1 .. Len(k) - 1 : l = i - 1 \/ l \in i .. Len(k) - 1
      BY <1>0
    <2> QED
      BY <2>1, <2>2
  <1>4. Empty(b, k, i - 1) <=> \A x \in Below(b, d) : x \in G \/ x = Marker(d)
    BY <1>3 DEF Empty
  <1> HIDE DEF d, G
  <1>5. Below(u, d) \ {Marker(d)} = {} <=> \A x \in Below(b, d) : x \in G \/ x = Marker(d)
    BY <1>2
  <1> QED
    BY <1>4, <1>5 DEF d

\* Where the clean-up ends, it has done all there was to do.
LEMMA ClimbEnds ==
  ASSUME NEW b, NEW u, NEW k \in Text, DOMAIN b \subseteq Text, NEW i \in 0 .. Len(k), i = 0 => Len(k) = 0,
         Climbing(b, u, k, i, i),
         i <= 1 \/ Below(u, Above(k, i - 1)) \ {Marker(Above(k, i - 1))} # {}
  PROVE  u = Pruned(b, k)
  <1>0. Len(k) \in Nat
    BY TextType
  <1>1. ASSUME NEW l \in 1 .. Len(k) - 1 PROVE Empty(b, k, l) <=> l \in i .. Len(k) - 1
    <2>1. CASE l \in i .. Len(k) - 1
      BY <2>1 DEF Climbing
    <2>2. CASE l \notin i .. Len(k) - 1
      <3>1. l < i /\ i - 1 >= 1 /\ i \in 1 .. Len(k) /\ i - 1 \in 1 .. Len(k) /\ l <= i - 1 /\ l \in 1 .. Len(k)
        BY <1>0, <2>2
      <3>2. ~Empty(b, k, i - 1)
        BY <3>1, EmptyIs
      <3>3. ~Empty(b, k, l)
        BY <3>1, <3>2, EmptyUp
      <3> QED
        BY <2>2, <3>3
    <2> QED
      BY <2>1, <2>2
  <1>2. {Marker(Above(k, l)) : l \in {l \in 1 .. Len(k) - 1 : Empty(b, k, l)}}
          = {Marker(Above(k, l)) : l \in i .. Len(k) - 1}
    <2>1. CASE i >= 1
      <3>1. {l \in 1 .. Len(k) - 1 : Empty(b, k, l)} = i .. Len(k) - 1
        BY <1>0, <1>1, <2>1
      <3> QED
        BY <3>1
    <2>2. CASE i = 0
      <3>1. 1 .. Len(k) - 1 = {} /\ i .. Len(k) - 1 = {}
        BY <1>0, <2>2
      <3> QED
        BY <3>1
    <2>3. i >= 1 \/ i = 0
      BY <1>0
    <2> QED
      BY <2>1, <2>2, <2>3
  <1> QED
    BY <1>2, PrunedIs DEF Climbing

-----------------------------------------------------------------------------
(* A tree on its way to another name. *)

\* Moved there and back.
LEMMA MovedBack ==
  ASSUME NEW k \in Text, NEW src \in Text, NEW dst \in Text, IsPrefix(src, k)
  PROVE  Moved(Moved(k, src, dst), dst, src) = k
  <1> DEFINE m == Moved(k, src, dst)
  <1>1. Len(k) \in Nat /\ Len(src) \in Nat /\ Len(dst) \in Nat
    BY TextType
  <1>2. /\ m \in Text /\ Len(m) = Len(dst) + (Len(k) - Len(src)) /\ Len(src) <= Len(k)
        /\ \A i \in 1 .. (Len(k) - Len(src)) : m[Len(dst) + i] = k[Len(src) + i]
        /\ IsPrefix(dst, m)
    BY MovedIs
  <1> HIDE DEF m
  <1> DEFINE n == Moved(m, dst, src)
  <1>3. /\ n \in Text /\ Len(n) = Len(src) + (Len(m) - Len(dst))
        /\ \A i \in 1 .. Len(src) : n[i] = src[i]
        /\ \A i \in 1 .. (Len(m) - Len(dst)) : n[Len(src) + i] = m[Len(dst) + i]
    BY <1>2, MovedIs
  <1> HIDE DEF n
  <1>4. Len(m) - Len(dst) = Len(k) - Len(src) /\ Len(n) = Len(k)
    BY <1>1, <1>2, <1>3
  <1>5. ASSUME NEW i \in 1 .. Len(k) PROVE n[i] = k[i]
    <2>1. CASE i <= Len(src)
      <3>1. i \in 1 .. Len(src) /\ src[i] = k[i]
        BY <1>1, <2>1, PrefixMeans
      <3> QED
        BY <1>3, <3>1
    <2>2. CASE ~(i <= Len(src))
      <3>1. PICK j \in 1 .. (Len(k) - Len(src)) : i = Len(src) + j
        <4>1. i - Len(src) \in 1 .. (Len(k) - Len(src)) /\ i = Len(src) + (i - Len(src))
          BY <1>1, <2>2
        <4> QED
          BY <4>1
      <3>2. j \in 1 .. (Len(m) - Len(dst))
        BY <1>4
      <3> QED
        BY <1>2, <1>3, <3>1, <3>2
    <2> QED
      BY <2>1, <2>2
  <1>6. n \in Seq(Nat) /\ k \in Seq(Nat)
    BY <1>3 DEF Text
  <1>7. n = k
    <2>1. n = [i \in 1 .. Len(n) |-> n[i]] /\ k = [i \in 1 .. Len(k) |-> k[i]]
      BY <1>6
    <2> QED
      BY <1>4, <1>5, <2>1
  <1> QED
    BY <1>7 DEF n, m

\* The topmost marker moves to the topmost marker.
LEMMA MarkerMoved ==
  ASSUME NEW src \in Text, NEW dst \in Text
  PROVE  IsPrefix(src, Marker(src)) /\ Moved(Marker(src), src, dst) = Marker(dst)
  <1> DEFINE m == Marker(src)
             e == Marker(dst)
  <1>1. Len(src) \in Nat /\ Len(dst) \in Nat
    BY TextType
  <1>2. /\ m \in Text /\ Len(m) = Len(src) + 1 /\ m[Len(src) + 1] = 0
        /\ \A i \in 1 .. Len(src) : m[i] = src[i]
    BY <1>1 DEF Marker, Text
  <1>3. /\ e \in Text /\ Len(e) = Len(dst) + 1 /\ e[Len(dst) + 1] = 0
        /\ \A i \in 1 .. Len(dst) : e[i] = dst[i]
    BY <1>1 DEF Marker, Text
  <1> HIDE DEF m, e
  <1>4. IsPrefix(src, m)
    BY <1>1, <1>2, PrefixMeans
  <1> DEFINE n == Moved(m, src, dst)
  <1>5. /\ n \in Text /\ Len(n) = Len(dst) + (Len(m) - Len(src))
        /\ \A i \in 1 .. Len(dst) : n[i] = dst[i]
        /\ \A i \in 1 .. (Len(m) - Len(src)) : n[Len(dst) + i] = m[Len(src) + i]
    BY <1>2, <1>4, MovedIs
  <1> HIDE DEF n
  <1>6. Len(m) - Len(src) = 1 /\ 1 \in 1 .. (Len(m) - Len(src)) /\ Len(n) = Len(dst) + 1
    BY <1>1, <1>2, <1>5
  <1>7. n[Len(dst) + 1] = 0
    BY <1>2, <1>5, <1>6
  <1>8. \A i \in 1 .. Len(dst) + 1 : n[i] = e[i]
    <2>1. \A i \in 1 .. Len(dst) + 1 : i \in 1 .. Len(dst) \/ i = Len(dst) + 1
      BY <1>1
    <2> QED
      BY <1>3, <1>5, <1>7, <2>1
  <1>9. n \in Seq(Nat) /\ e \in Seq(Nat)
    BY <1>3, <1>5 DEF Text
  <1>10. n = e
    BY <1>3, <1>6, <1>8, <1>9
  <1> QED
    BY <1>4, <1>10 DEF m, n, e

\* A request that moves tree b, and what it knows of a key that it moves.
Mover(b, r) == Plain(b) /\ r.name \in Names /\ r.dst \in Names /\ Apart(r)

PartIs(b, r, k) ==
  /\ k \in Text /\ k \in DOMAIN b /\ IsPrefix(r.name, k)
  /\ IsMarker(k) => Copy(b, k) = Dir
  /\ Moved(k, r.name, r.dst) \in Text /\ Moved(Moved(k, r.name, r.dst), r.dst, r.name) = k
  /\ IsPrefix(r.dst, Moved(k, r.name, r.dst))
  /\ k = Marker(r.name) => Moved(k, r.name, r.dst) = Marker(r.dst) /\ ~IsFile(b, r.name)

LEMMA Parts ==
  ASSUME NEW b, NEW r, Mover(b, r)
  PROVE  \A k \in Gone(b, r.name) : PartIs(b, r, k)
  <1>1. r.name \in Text /\ r.dst \in Text /\ ~IsMarker(r.name)
    BY NameIs DEF Mover
  <1> SUFFICES ASSUME NEW k \in Gone(b, r.name) PROVE PartIs(b, r, k)
    OBVIOUS
  <1>2. k \in DOMAIN b /\ IsPrefix(r.name, k) /\ (IsFile(b, r.name) => k = r.name)
    <2>1. IsPrefix(r.name, r.name)
      BY <1>1, PrefixMeans, TextType
    <2> QED
      BY <2>1 DEF Gone, Below, IsFile
  <1>3. k \in Text /\ (IsMarker(k) => Copy(b, k) = Dir)
    BY <1>2 DEF Mover, Plain, Copy
  <1>4. /\ Moved(k, r.name, r.dst) \in Text /\ IsPrefix(r.dst, Moved(k, r.name, r.dst))
        /\ Moved(Moved(k, r.name, r.dst), r.dst, r.name) = k
    BY <1>1, <1>2, <1>3, MovedIs, MovedBack
  <1>5. k = Marker(r.name) => Moved(k, r.name, r.dst) = Marker(r.dst)
    BY <1>1, MarkerMoved
  <1>6. k = Marker(r.name) => ~IsFile(b, r.name)
    BY <1>1, <1>2, MarkerIs
  <1> QED
    BY <1>2, <1>3, <1>4, <1>5, <1>6 DEF PartIs

\* No key that is moved is in the place of another, or of the new marker.
LEMMA NoneInPlace ==
  ASSUME NEW b, NEW r, Mover(b, r), NEW k \in Gone(b, r.name)
  PROVE  k \notin Mark(b, r) /\ \A j \in Gone(b, r.name) : Moved(j, r.name, r.dst) # k
  <1>1. r.name \in Text /\ r.dst \in Text /\ ~Related(r.name, r.dst)
    BY NameIs DEF Mover, Apart, Related
  <1>2. k \in Text /\ IsPrefix(r.name, k)
    BY Parts DEF PartIs
  <1>3. ~IsPrefix(r.dst, k)
    BY <1>1, <1>2, BothPrefixes
  <1>4. \A j \in Gone(b, r.name) : IsPrefix(r.dst, Moved(j, r.name, r.dst))
    BY Parts DEF PartIs
  <1>5. IsPrefix(r.dst, Marker(r.dst))
    BY <1>1, MarkerMoved
  <1> QED
    BY <1>3, <1>4, <1>5 DEF Mark

\* The keys that are new when P is copied.
Fresh(b, P, r) == {Moved(k, r.name, r.dst) : k \in P} \cup Mark(b, r)

LEMMA HalfwayIs ==
  ASSUME NEW b, NEW u, NEW P, NEW D, NEW r
  PROVE  Halfway(b, u, P, D, r) <=>
           /\ u = [j \in (DOMAIN b \cup Fresh(b, P, r)) \ D |-> u[j]]
           /\ \A k \in P : u[Moved(k, r.name, r.dst)] = Copy(b, k)
           /\ \A m \in Mark(b, r) : u[m] = Dir
           /\ \A j \in DOMAIN b \ (D \cup Fresh(b, P, r)) : u[j] = b[j]
  BY DEF Halfway, Fresh

\* A move begins: of a file with nothing done, of a directory with its marker made.
LEMMA FileBegins ==
  ASSUME NEW b, Plain(b), NEW r, IsFile(b, r.name)
  PROVE  Halfway(b, b, {}, {}, r)
  <1>1. Fresh(b, {}, r) = {} /\ Mark(b, r) = {}
    BY DEF Fresh, Mark
  <1>2. b = [j \in DOMAIN b |-> b[j]] /\ (DOMAIN b \cup {}) \ {} = DOMAIN b
    BY DEF Plain
  <1>3. b = [j \in (DOMAIN b \cup Fresh(b, {}, r)) \ {} |-> b[j]]
    BY <1>1, <1>2
  <1> QED
    BY <1>1, <1>3, HalfwayIs

LEMMA TreeBegins ==
  ASSUME NEW b, NEW r, ~IsFile(b, r.name), NEW u, u = With(b, Marker(r.dst), Dir)
  PROVE  Halfway(b, u, {}, {}, r)
  <1>1. Fresh(b, {}, r) = {Marker(r.dst)} /\ Mark(b, r) = {Marker(r.dst)}
    BY DEF Fresh, Mark
  <1>2. /\ DOMAIN u = DOMAIN b \cup {Marker(r.dst)} /\ u[Marker(r.dst)] = Dir
        /\ \A j \in DOMAIN b \ {Marker(r.dst)} : u[j] = b[j]
    BY DEF With
  <1>3. u = [j \in DOMAIN u |-> u[j]]
    BY DEF With
  <1>4. (DOMAIN b \cup Fresh(b, {}, r)) \ {} = DOMAIN u
    BY <1>1, <1>2
  <1>5. u = [j \in (DOMAIN b \cup Fresh(b, {}, r)) \ {} |-> u[j]]
    BY <1>3, <1>4
  <1> QED
    BY <1>1, <1>2, <1>5, HalfwayIs

\* A key that is there has not been touched yet.
LEMMA Untouched ==
  ASSUME NEW b, NEW u, NEW r, Mover(b, r), NEW D \in SUBSET Gone(b, r.name), Halfway(b, u, D, D, r),
         NEW k \in Gone(b, r.name), k \in DOMAIN u
  PROVE  u[k] = b[k]
  <1>1. k \in DOMAIN b
    BY Parts DEF PartIs
  <1>2. k \notin Fresh(b, D, r)
    BY NoneInPlace DEF Fresh
  <1>3. k \notin D
    BY DEF Halfway
  <1> QED
    BY <1>1, <1>2, <1>3, HalfwayIs

LEMMA OneCopied ==
  ASSUME NEW b, NEW u, NEW r, Mover(b, r), NEW D \in SUBSET Gone(b, r.name), Halfway(b, u, D, D, r),
         NEW k \in Gone(b, r.name), NEW v, v = With(u, Moved(k, r.name, r.dst), Copy(b, k))
  PROVE  Halfway(b, v, D \cup {k}, D, r)
  <1> DEFINE to(j) == Moved(j, r.name, r.dst)
             F == Fresh(b, D, r)
             G == Fresh(b, D \cup {k}, r)
  <1>1. /\ u = [j \in (DOMAIN b \cup F) \ D |-> u[j]]
        /\ \A j \in D : u[to(j)] = Copy(b, j)
        /\ \A m \in Mark(b, r) : u[m] = Dir
        /\ \A j \in DOMAIN b \ (D \cup F) : u[j] = b[j]
    BY HalfwayIs
  <1>2. /\ DOMAIN v = DOMAIN u \cup {to(k)} /\ v[to(k)] = Copy(b, k)
        /\ \A j \in DOMAIN u \ {to(k)} : v[j] = u[j]
    BY DEF With
  <1>3. v = [j \in DOMAIN v |-> v[j]]
    BY DEF With
  <1>4. DOMAIN u = (DOMAIN b \cup F) \ D
    BY <1>1
  <1>5. G = F \cup {to(k)}
    BY DEF Fresh
  <1>6. \A j \in Gone(b, r.name) : PartIs(b, r, j)
    BY Parts
  <1>7. \A d \in D : to(k) # d /\ d \notin Mark(b, r) /\ \A j \in D : to(j) # d
    BY NoneInPlace
  <1>8. F = {to(j) : j \in D} \cup Mark(b, r)
    BY DEF Fresh
  <1>9. \A j \in D : to(j) = to(k) => j = k
    BY <1>6 DEF PartIs
  <1>10. to(k) \in Mark(b, r) => Copy(b, k) = Dir
    <2> SUFFICES ASSUME to(k) \in Mark(b, r) PROVE Copy(b, k) = Dir
      OBVIOUS
    <2>1. to(k) = Marker(r.dst)
      BY DEF Mark
    <2>2. r.name \in Text /\ r.dst \in Text
      BY NameIs DEF Mover
    <2>3. Moved(Marker(r.dst), r.dst, r.name) = Marker(r.name)
      BY <2>2, MarkerMoved
    <2>4. k = Marker(r.name)
      BY <1>6, <2>1, <2>3 DEF PartIs
    <2>5. IsMarker(k)
      BY <2>2, <2>4, MarkerIs
    <2> QED
      BY <1>6, <2>5 DEF PartIs
  <1> HIDE DEF to, F, G
  <1>11. DOMAIN v = (DOMAIN b \cup G) \ D
    BY <1>2, <1>4, <1>5, <1>7
  <1>12. ASSUME NEW j \in D \cup {k} PROVE v[to(j)] = Copy(b, j)
    <2>1. CASE to(j) = to(k)
      <3>1. j = k
        BY <1>9, <2>1
      <3> QED
        BY <1>2, <3>1
    <2>2. CASE to(j) # to(k)
      <3>1. j \in D /\ to(j) \in DOMAIN u
        BY <1>4, <1>7, <1>8, <2>2
      <3> QED
        BY <1>1, <1>2, <2>2, <3>1
    <2> QED
      BY <2>1, <2>2
  <1>13. ASSUME NEW m \in Mark(b, r) PROVE v[m] = Dir
    <2>1. m \in DOMAIN u
      BY <1>4, <1>7, <1>8
    <2> QED
      BY <1>1, <1>2, <1>10, <2>1
  <1>14. ASSUME NEW j \in DOMAIN b \ (D \cup G) PROVE v[j] = b[j]
    <2>1. j \in DOMAIN u /\ j # to(k) /\ j \in DOMAIN b \ (D \cup F)
      BY <1>4, <1>5
    <2> QED
      BY <1>1, <1>2, <2>1
  <1>15. v = [j \in (DOMAIN b \cup G) \ D |-> v[j]]
    BY <1>3, <1>11
  <1> QED
    BY <1>12, <1>13, <1>14, <1>15, HalfwayIs DEF to, G

\* The topmost marker needs no copy.
LEMMA TopCopied ==
  ASSUME NEW b, NEW u, NEW r, Mover(b, r), NEW D \in SUBSET Gone(b, r.name), Halfway(b, u, D, D, r),
         NEW k \in Gone(b, r.name), k = Marker(r.name)
  PROVE  Halfway(b, u, D \cup {k}, D, r)
  <1>1. PartIs(b, r, k)
    BY Parts
  <1>2. IsMarker(k)
    BY NameIs, MarkerIs DEF Mover
  <1>3. Moved(k, r.name, r.dst) = Marker(r.dst) /\ Copy(b, k) = Dir /\ Mark(b, r) = {Marker(r.dst)}
    BY <1>1, <1>2 DEF PartIs, Mark
  <1>4. Fresh(b, D \cup {k}, r) = Fresh(b, D, r)
    BY <1>3 DEF Fresh
  <1>5. /\ u = [j \in (DOMAIN b \cup Fresh(b, D, r)) \ D |-> u[j]]
        /\ \A j \in D : u[Moved(j, r.name, r.dst)] = Copy(b, j)
        /\ \A m \in Mark(b, r) : u[m] = Dir
        /\ \A j \in DOMAIN b \ (D \cup Fresh(b, D, r)) : u[j] = b[j]
    BY HalfwayIs
  <1>6. \A j \in D \cup {k} : u[Moved(j, r.name, r.dst)] = Copy(b, j)
    BY <1>3, <1>5
  <1> QED
    BY <1>4, <1>5, <1>6, HalfwayIs

LEMMA OneRemoved ==
  ASSUME NEW b, NEW u, NEW r, Mover(b, r), NEW D \in SUBSET Gone(b, r.name), NEW k \in Gone(b, r.name),
         Halfway(b, u, D \cup {k}, D, r), NEW v, v = Without(u, {k})
  PROVE  Halfway(b, v, D \cup {k}, D \cup {k}, r)
  <1> DEFINE to(j) == Moved(j, r.name, r.dst)
             E == D \cup {k}
             F == Fresh(b, E, r)
  <1>1. /\ u = [j \in (DOMAIN b \cup F) \ D |-> u[j]]
        /\ \A j \in E : u[to(j)] = Copy(b, j)
        /\ \A m \in Mark(b, r) : u[m] = Dir
        /\ \A j \in DOMAIN b \ (D \cup F) : u[j] = b[j]
    BY HalfwayIs
  <1>2. DOMAIN v = DOMAIN u \ {k} /\ \A j \in DOMAIN u \ {k} : v[j] = u[j]
    BY WithoutIs
  <1>3. v = [j \in DOMAIN v |-> v[j]]
    BY DEF Without
  <1>4. DOMAIN u = (DOMAIN b \cup F) \ D
    BY <1>1
  <1>5. \A d \in E : d \notin Mark(b, r) /\ \A j \in E : to(j) # d
    BY NoneInPlace
  <1>6. F = {to(j) : j \in E} \cup Mark(b, r) /\ k \in E /\ D \subseteq E /\ E \subseteq D \cup {k}
    BY DEF Fresh
  <1> HIDE DEF to, F, E
  <1>7. DOMAIN v = (DOMAIN b \cup F) \ E
    BY <1>2, <1>4, <1>6
  <1>8. v = [j \in (DOMAIN b \cup F) \ E |-> v[j]]
    BY <1>3, <1>7
  <1>9. ASSUME NEW j \in E PROVE v[to(j)] = Copy(b, j)
    <2>1. to(j) \in DOMAIN u \ {k}
      BY <1>4, <1>5, <1>6
    <2> QED
      BY <1>1, <1>2, <2>1
  <1>10. ASSUME NEW m \in Mark(b, r) PROVE v[m] = Dir
    <2>1. m \in DOMAIN u \ {k}
      BY <1>4, <1>5, <1>6
    <2> QED
      BY <1>1, <1>2, <2>1
  <1>11. ASSUME NEW j \in DOMAIN b \ (E \cup F) PROVE v[j] = b[j]
    <2>1. j \in DOMAIN u \ {k} /\ j \in DOMAIN b \ (D \cup F)
      BY <1>4, <1>6
    <2> QED
      BY <1>1, <1>2, <2>1
  <1>12. Halfway(b, v, E, E, r)
    BY <1>8, <1>9, <1>10, <1>11, HalfwayIs DEF to, F
  <1> QED
    BY <1>12 DEF E

\* Once every key is copied and removed, the tree is the moved one.
LEMMA MoveEnds ==
  ASSUME NEW b, NEW u, NEW r, Mover(b, r), Halfway(b, u, Gone(b, r.name), Gone(b, r.name), r)
  PROVE  u = Shifted(b, r.name, r.dst)
  <1> DEFINE to(j)  == Moved(j, r.name, r.dst)
             old(j) == Moved(j, r.dst, r.name)
             G == Gone(b, r.name)
             F == Fresh(b, G, r)
             full == [j \in DOMAIN b \cup F |->
                        IF j \in F /\ old(j) \in G THEN Copy(b, old(j)) ELSE IF j \in F THEN Dir ELSE b[j]]
  <1>0. G = (IF IsFile(b, r.name) THEN {r.name} ELSE Below(b, r.name))
    BY DEF Gone
  <1>1. F = {to(j) : j \in G} \cup IF IsFile(b, r.name) THEN {} ELSE {Marker(r.dst)}
    BY DEF Fresh, Mark
  <1>2. Shifted(b, r.name, r.dst) = Without(full, G)
    BY DEF Shifted, Gone, Fresh, Mark
  <1>3. /\ u = [j \in (DOMAIN b \cup F) \ G |-> u[j]]
        /\ \A j \in G : u[to(j)] = Copy(b, j)
        /\ \A m \in Mark(b, r) : u[m] = Dir
        /\ \A j \in DOMAIN b \ (G \cup F) : u[j] = b[j]
    BY HalfwayIs
  <1>4. \A j \in G : PartIs(b, r, j)
    BY Parts
  <1>5. r.name \in Text /\ r.dst \in Text
    BY NameIs DEF Mover
  <1>6. old(Marker(r.dst)) = Marker(r.name) /\ IsMarker(Marker(r.name))
    BY <1>5, MarkerMoved, MarkerIs
  <1>7. \A j \in G : old(to(j)) = j
    BY <1>4 DEF PartIs
  <1>8. F = {to(j) : j \in G} \cup Mark(b, r) /\ (\A m \in Mark(b, r) : m = Marker(r.dst))
    BY DEF Fresh, Mark
  <1>9. \A j \in G : IsMarker(j) => Copy(b, j) = Dir
    BY <1>4 DEF PartIs
  <1> DEFINE val(j) == IF j \in F /\ old(j) \in G THEN Copy(b, old(j)) ELSE IF j \in F THEN Dir ELSE b[j]
  <1>10. DOMAIN full = DOMAIN b \cup F /\ \A j \in DOMAIN b \cup F : full[j] = val(j)
    OBVIOUS
  <1> HIDE DEF G, F, to, old, full
  <1>11. ASSUME NEW j \in (DOMAIN b \cup F) \ G PROVE u[j] = full[j]
    <2>1. CASE \E i \in G : j = to(i)
      <3>1. PICK i \in G : j = to(i)
        BY <2>1
      <3>2. j \in F /\ old(j) = i
        BY <1>7, <1>8, <3>1
      <3>3. full[j] = Copy(b, i)
        BY <1>10, <3>2
      <3> QED
        BY <1>3, <3>1, <3>3
    <2>2. CASE j \in Mark(b, r)
      <3>1. j \in F /\ old(j) = Marker(r.name)
        BY <1>6, <1>8, <2>2
      <3>2. full[j] = Dir
        BY <1>6, <1>9, <1>10, <3>1
      <3> QED
        BY <1>3, <2>2, <3>2
    <2>3. CASE j \notin F
      BY <1>3, <1>10, <2>3
    <2> QED
      BY <1>8, <2>1, <2>2, <2>3
  <1>12. Without(full, G) = [j \in (DOMAIN b \cup F) \ G |-> full[j]]
    BY <1>10 DEF Without
  <1>13. u = [j \in (DOMAIN b \cup F) \ G |-> full[j]]
    BY <1>3, <1>11
  <1> QED
    BY <1>2, <1>12, <1>13

-----------------------------------------------------------------------------
(* Requests that run alone. *)

\* Whatever the tree was that p began with, s is where it has come to.
Advances(p, s) == \A t : Plain(t) /\ Progress(t, tree, req[p]) => Progress(t, tree', s)

LEMMA LoneMoves ==
  ASSUME LoneInv, Shape, NEW p \in Proc, Busy(p), NEW s, Goto(p, s), s.at # "idle", before' = before,
         Advances(p, s)
  PROVE  LoneInv'
  <1>1. /\ before = [q \in Proc |-> before[q]]
        /\ \A q \in Proc : before[q] # {} =>
             /\ Busy(q) /\ \A o \in Proc : o # q => ~Busy(o)
             /\ \A t \in before[q] : Plain(t) /\ Progress(t, tree, req[q])
    BY DEF LoneInv
  <1>2. req'[p] = s /\ \A q \in Proc \ {p} : req'[q] = req[q]
    BY DEF Goto, Shape, RequestsOk
  <1>3. ASSUME NEW q \in Proc, before[q] # {}
        PROVE  /\ Busy(q)' /\ \A o \in Proc : o # q => ~Busy(o)'
               /\ \A t \in before[q] : Plain(t) /\ Progress(t, tree', req'[q])
    <2>1. q = p
      BY <1>1, <1>3
    <2>2. Busy(p)' /\ \A o \in Proc : o # p => ~Busy(o)'
      BY <1>1, <1>2, <1>3, <2>1 DEF Busy
    <2>3. \A t \in before[p] : Plain(t) /\ Progress(t, tree', s)
      BY <1>1, <1>3, <2>1 DEF Advances
    <2> QED
      BY <1>2, <2>1, <2>2, <2>3
  <1> QED
    BY <1>1, <1>3 DEF LoneInv

\* A request that is not followed any more.
LEMMA LoneLeaves ==
  ASSUME LoneInv, Shape, NEW p \in Proc, Busy(p), NEW s, Goto(p, s), before' = [before EXCEPT ![p] = {}]
  PROVE  LoneInv'
  <1>1. /\ before = [q \in Proc |-> before[q]]
        /\ \A q \in Proc : before[q] # {} => \A o \in Proc : o # q => ~Busy(o)
    BY DEF LoneInv
  <1>2. before' = [q \in Proc |-> before'[q]] /\ \A q \in Proc : before'[q] = IF q = p THEN {} ELSE before[q]
    BY <1>1
  <1>3. \A q \in Proc : before'[q] = {}
    BY <1>1, <1>2
  <1> QED
    BY <1>2, <1>3 DEF LoneInv

\* What does not change from a request to its next state.
Same(r, s) ==
  /\ s.kind = r.kind /\ s.name = r.name /\ s.dst = r.dst /\ s.batch = r.batch /\ s.target = r.target

LEMMA SamePromise ==
  ASSUME NEW t, NEW r, NEW s, s.kind = r.kind, s.name = r.name, s.dst = r.dst, s.batch = r.batch,
         s.taken = r.taken
  PROVE  Promised(t, s) = Promised(t, r)
  BY DEF Promised

\* A reply, whose success keeps the promise.
LEMMA ReplyAdvances ==
  ASSUME NEW p \in Proc, Shape, NEW r \in Request, r.kind = req[p].kind, r.name = req[p].name,
         r.dst = req[p].dst, NEW ok \in BOOLEAN,
         \A t : Plain(t) /\ Progress(t, tree, req[p]) /\ ok => tree' = Promised(t, r)
  PROVE  Advances(p, [r EXCEPT !.at = "reply", !.ok = ok])
  <1> DEFINE s == [r EXCEPT !.at = "reply", !.ok = ok]
  <1>1. /\ s.at = "reply" /\ s.ok = ok /\ s.kind = r.kind /\ s.name = r.name /\ s.dst = r.dst
        /\ s.batch = r.batch /\ s.taken = r.taken /\ s.failed = r.failed
    BY DEF Request
  <1> HIDE DEF s
  <1> SUFFICES ASSUME NEW t, Plain(t), Progress(t, tree, req[p]) PROVE Progress(t, tree', s)
    BY DEF Advances, s
  <1>2. Promised(t, s) = Promised(t, r)
    BY <1>1, SamePromise
  <1>3. s.ok => tree' = Promised(t, s)
    BY <1>1, <1>2
  <1>4. /\ s.kind = "move" => ~IsPrefix(s.dst, s.name)
        /\ s.kind = "delete" => s.name # Nothing
    BY <1>1 DEF Progress
  <1> QED
    BY <1>1, <1>3, <1>4 DEF Progress

\* What has failed promises nothing any more.
LEMMA FailedAdvances ==
  ASSUME NEW p \in Proc, NEW s, Same(req[p], s), s.failed = TRUE, s.at \in {"drop", "take"}
  PROVE  Advances(p, s)
  <1> SUFFICES ASSUME NEW t, Plain(t), Progress(t, tree, req[p]) PROVE Progress(t, tree', s)
    BY DEF Advances
  <1>1. /\ s.kind = "move" => ~IsPrefix(s.dst, s.name)
        /\ s.kind = "delete" => s.name # Nothing
    BY DEF Progress, Same
  <1> QED
    BY <1>1 DEF Progress

LEMMA ReplyLone ==
  ASSUME LoneInv, Shape, NEW p \in Proc, Busy(p), NEW r \in Request, r.kind = req[p].kind,
         r.name = req[p].name, r.dst = req[p].dst, NEW ok \in BOOLEAN, Reply(p, r, ok), before' = before,
         \A t : Plain(t) /\ Progress(t, tree, req[p]) /\ ok => tree' = Promised(t, r)
  PROVE  LoneInv'
  <1> DEFINE s == [r EXCEPT !.at = "reply", !.ok = ok]
  <1>1. Goto(p, s) /\ s.at # "idle"
    BY DEF Reply, Request
  <1>2. Advances(p, s)
    BY ReplyAdvances
  <1> HIDE DEF s
  <1> QED
    BY <1>1, <1>2, LoneMoves

\* A refusal or a failure.
LEMMA RefuseLone ==
  ASSUME LoneInv, Shape, NEW p \in Proc, Busy(p), Reply(p, req[p], FALSE), before' = before
  PROVE  LoneInv'
  <1>1. req[p] \in Request
    BY OfRequest
  <1> QED
    BY <1>1, ReplyLone

LEMMA MkdirLone ==
  ASSUME LoneInv, Shape, NEW p \in Proc, Mkdir(p)
  PROVE  LoneInv'
  <1>0. req[p] \in Request /\ Busy(p) /\ before' = before /\ tree' = tree /\ req[p].at = "mkcol"
    BY OfRequest DEF Mkdir, Busy
  <1>1. CASE Reply(p, req[p], FALSE)
    BY <1>0, <1>1, RefuseLone
  <1>2. CASE Goto(p, [req[p] EXCEPT !.at = "mark"])
    <2> DEFINE s == [req[p] EXCEPT !.at = "mark"]
    <2>1. Same(req[p], s) /\ s.at = "mark" /\ s.marker = req[p].marker /\ s.failed = req[p].failed
      BY <1>0 DEF Request, Same
    <2>2. Goto(p, s)
      BY <1>2
    <2> HIDE DEF s
    <2>3. ASSUME NEW t, Plain(t), Progress(t, tree, req[p]) PROVE Progress(t, tree', s)
      BY <1>0, <2>1, <2>3 DEF Progress, Same
    <2>4. Advances(p, s)
      BY <2>3 DEF Advances
    <2> QED
      BY <1>0, <2>1, <2>2, <2>4, LoneMoves
  <1> QED
    BY <1>1, <1>2 DEF Mkdir

LEMMA OpenFileLone ==
  ASSUME LoneInv, Shape, NEW p \in Proc, OpenFile(p)
  PROVE  LoneInv'
  <1>0. req[p] \in Request /\ Busy(p) /\ before' = before /\ tree' = tree /\ req[p].at = "open"
    BY OfRequest DEF OpenFile, Busy
  <1>1. CASE Reply(p, req[p], FALSE)
    BY <1>0, <1>1, RefuseLone
  <1>2. CASE Goto(p, [req[p] EXCEPT !.at = "write"])
    <2> DEFINE s == [req[p] EXCEPT !.at = "write"]
    <2>1. Same(req[p], s) /\ s.at = "write" /\ s.marker = req[p].marker /\ s.failed = req[p].failed
      BY <1>0 DEF Request, Same
    <2>2. Goto(p, s)
      BY <1>2
    <2> HIDE DEF s
    <2>3. ASSUME NEW t, Plain(t), Progress(t, tree, req[p]) PROVE Progress(t, tree', s)
      BY <1>0, <2>1, <2>3 DEF Progress, Same
    <2>4. Advances(p, s)
      BY <2>3 DEF Advances
    <2> QED
      BY <1>0, <2>1, <2>2, <2>4, LoneMoves
  <1> QED
    BY <1>1, <1>2 DEF OpenFile

LEMMA PutMarkerLone ==
  ASSUME LoneInv, Shape, NEW p \in Proc, PutMarker(p)
  PROVE  LoneInv'
  <1>0. req[p] \in Request /\ Busy(p) /\ before' = before /\ req[p].at = "mark"
    BY OfRequest DEF PutMarker, Busy
  <1>1. CASE Reply(p, req[p], FALSE)
    BY <1>0, <1>1, RefuseLone
  <1>2. CASE tree' = With(tree, Marker(req[p].name), Dir) /\ Reply(p, req[p], TRUE)
    <2>1. ASSUME NEW t, Progress(t, tree, req[p]) PROVE tree' = Promised(t, req[p])
      BY <1>0, <1>2, <2>1 DEF Progress, Promised
    <2> QED
      BY <1>0, <1>2, <2>1, ReplyLone
  <1> QED
    BY <1>1, <1>2 DEF PutMarker

LEMMA WriteLone ==
  ASSUME LoneInv, Shape, NEW p \in Proc, Write(p)
  PROVE  LoneInv'
  <1>0. /\ req[p] \in Request /\ Busy(p) /\ before' = before /\ req[p].at = "write" /\ made \in Nat
    BY OfRequest DEF Write, Busy, TreeOk
  <1>1. CASE Reply(p, req[p], FALSE)
    BY <1>0, <1>1, RefuseLone
  <1>2. ASSUME NEW whole \in BOOLEAN, made' = made + 1, tree' = With(tree, req[p].name, made'),
               Reply(p, [req[p] EXCEPT !.taken = made'], whole)
        PROVE  LoneInv'
    <2> DEFINE r == [req[p] EXCEPT !.taken = made']
    <2>1. r \in Request /\ Same(req[p], r) /\ r.taken = made'
      BY <1>0, <1>2 DEF Request, Same
    <2>2. Reply(p, r, whole)
      BY <1>2
    <2> HIDE DEF r
    <2>3. ASSUME NEW t, Progress(t, tree, req[p]) PROVE tree' = Promised(t, r)
      BY <1>0, <1>2, <2>1, <2>3 DEF Progress, Promised, Same
    <2> QED
      BY <1>0, <2>1, <2>2, <2>3, ReplyLone DEF Same
  <1> QED
    BY <1>1, <1>2 DEF Write

-----------------------------------------------------------------------------
(* Removals that run alone. *)

LEMMA RemoveAllLone ==
  ASSUME LoneInv, Shape, NEW p \in Proc, RemoveAll(p)
  PROVE  LoneInv'
  <1> DEFINE r == req[p]
  <1>0. /\ r \in Request /\ Busy(p) /\ before' = before /\ tree' = tree /\ r.at = "removeAll" /\ r.todo = <<>>
    BY OfRequest DEF RemoveAll, Busy, Proper
  <1>1. CASE Reply(p, r, FALSE)
    BY <1>0, <1>1, RefuseLone
  <1>2. CASE IsFile(tree, r.target) /\ Goto(p, [r EXCEPT !.at = "dropFile"])
    <2> DEFINE s == [r EXCEPT !.at = "dropFile"]
    <2>1. Same(r, s) /\ s.at = "dropFile" /\ s.marker = r.marker /\ s.failed = r.failed
      BY <1>0 DEF Request, Same
    <2>2. Goto(p, s)
      BY <1>2
    <2> HIDE DEF s
    <2>3. ASSUME NEW t, Plain(t), Progress(t, tree, r) PROVE Progress(t, tree', s)
      BY <1>0, <1>2, <2>1, <2>3 DEF Progress, Same, Clears
    <2>4. Advances(p, s)
      BY <2>3 DEF Advances
    <2> QED
      BY <1>0, <2>1, <2>2, <2>4, LoneMoves
  <1>3. CASE /\ ~IsFile(tree, r.target) /\ IsDir(tree, r.target)
             /\ Goto(p, [r EXCEPT !.at = "list", !.then = "drop"])
    <2> DEFINE s == [r EXCEPT !.at = "list", !.then = "drop"]
    <2>1. /\ Same(r, s) /\ s.at = "list" /\ s.then = "drop" /\ s.marker = r.marker /\ s.failed = r.failed
          /\ s.todo = <<>>
      BY <1>0 DEF Request, Same
    <2>2. Goto(p, s)
      BY <1>3
    <2> HIDE DEF s
    <2>3. ASSUME NEW t, Plain(t), Progress(t, tree, r) PROVE Progress(t, tree', s)
      <3>1. ToSet(s.todo) \subseteq Below(t, s.target)
        BY <2>1 DEF ToSet
      <3>2. s.marker = Nothing => Paged(t, s)
        BY <3>1 DEF Paged
      <3> QED
        BY <1>0, <1>3, <2>1, <2>3, <3>2 DEF Progress, Same, Clears
    <2>4. Advances(p, s)
      BY <2>3 DEF Advances
    <2> QED
      BY <1>0, <2>1, <2>2, <2>4, LoneMoves
  <1> QED
    BY <1>1, <1>2, <1>3 DEF RemoveAll

\* The clean-up begins at the name itself.
LEMMA ClimbBegins ==
  ASSUME NEW b, NEW u, u = b, b = [k \in DOMAIN b |-> b[k]], NEW r \in Request, r.marker = Nothing
  PROVE  Climbing(b, u, r.target, Level(r), Level(r))
  <1>1. Level(r) = Len(r.target) /\ Len(r.target) \in Nat
    BY TextType DEF Level, Request
  <1>2. Level(r) .. Len(r.target) - 1 = {}
    BY <1>1
  <1>3. {Marker(Above(r.target, l)) : l \in Level(r) .. Len(r.target) - 1} = {}
    BY <1>2
  <1>4. Without(b, {}) = [k \in DOMAIN b |-> b[k]]
    BY DEF Without
  <1>5. u = Without(b, {Marker(Above(r.target, l)) : l \in Level(r) .. Len(r.target) - 1})
    BY <1>3, <1>4
  <1>6. \A l \in Level(r) .. Len(r.target) - 1 : Empty(b, r.target, l)
    BY <1>2
  <1> QED
    BY <1>5, <1>6 DEF Climbing

\* Everything at the target is gone.
LEMMA RemovalDone ==
  ASSUME NEW p \in Proc, NEW s \in Request, Same(req[p], s), s.at = "prune", s.failed = req[p].failed,
         \A t : Plain(t) /\ Progress(t, tree, req[p]) /\ ~s.failed =>
           s.marker = Nothing /\ Clears(s) /\ There(t, s.target) /\ tree' = Without(t, Gone(t, s.target))
  PROVE  Advances(p, s)
  <1> SUFFICES ASSUME NEW t, Plain(t), Progress(t, tree, req[p]) PROVE Progress(t, tree', s)
    BY DEF Advances
  <1>1. /\ s.kind = "move" => ~IsPrefix(s.dst, s.name)
        /\ s.kind = "delete" => s.name # Nothing
    BY DEF Progress, Same
  <1>2. ASSUME ~s.failed PROVE Cleans(t, s) /\ Climbing(Base(t, s), tree', s.target, Level(s), Level(s))
    <2>1. s.marker = Nothing /\ Clears(s) /\ There(t, s.target) /\ tree' = Without(t, Gone(t, s.target))
      BY <1>2
    <2>2. Base(t, s) = tree'
      BY <2>1 DEF Base
    <2>3. tree' = [k \in DOMAIN tree' |-> tree'[k]] /\ DOMAIN tree' \subseteq DOMAIN t
      BY <2>1 DEF Without
    <2>4. DOMAIN Base(t, s) \subseteq Text
      BY <2>2, <2>3 DEF Plain
    <2>5. Base(t, s) = [k \in DOMAIN Base(t, s) |-> Base(t, s)[k]]
      BY <2>2, <2>3
    <2> QED
      BY <2>1, <2>2, <2>4, <2>5, ClimbBegins DEF Cleans
  <1> QED
    BY <1>1, <1>2 DEF Progress

LEMMA DropFileLone ==
  ASSUME LoneInv, Shape, NEW p \in Proc, DropFile(p)
  PROVE  LoneInv'
  <1> DEFINE r == req[p]
  <1>0. r \in Request /\ Busy(p) /\ before' = before /\ r.at = "dropFile"
    BY OfRequest DEF DropFile, Busy
  <1>1. CASE Reply(p, r, FALSE)
    BY <1>0, <1>1, RefuseLone
  <1>2. CASE tree' = Without(tree, {r.target}) /\ Goto(p, [r EXCEPT !.at = "prune"])
    <2> DEFINE s == [r EXCEPT !.at = "prune"]
    <2>1. s \in Request /\ Same(r, s) /\ s.at = "prune" /\ s.marker = r.marker /\ s.failed = r.failed
      BY <1>0 DEF Request, Ats, Same
    <2>2. Goto(p, s)
      BY <1>2
    <2> HIDE DEF s
    <2>3. ASSUME NEW t, Plain(t), Progress(t, tree, r), ~s.failed
          PROVE  s.marker = Nothing /\ Clears(s) /\ There(t, s.target) /\ tree' = Without(t, Gone(t, s.target))
      <3>1. /\ s.marker = Nothing /\ tree = t /\ Clears(s) /\ IsFile(t, s.target)
        BY <1>0, <2>1, <2>3 DEF Progress, Same, Clears
      <3> QED
        BY <1>2, <2>1, <3>1 DEF There, Gone, Same
    <2>4. Advances(p, s)
      BY <2>1, <2>3, RemovalDone
    <2> QED
      BY <1>0, <2>1, <2>2, <2>4, LoneMoves
  <1> QED
    BY <1>1, <1>2 DEF DropFile

LEMMA ToSetIs ==
  ASSUME NEW A, NEW s \in Seq(A)
  PROVE  ToSet(s) \subseteq A /\ \A x : x \in ToSet(s) <=> \E i \in 1 .. Len(s) : s[i] = x
  <1>1. DOMAIN s = 1 .. Len(s) /\ \A i \in 1 .. Len(s) : s[i] \in A
    BY SeqType
  <1>2. ToSet(s) = {s[i] : i \in 1 .. Len(s)}
    BY <1>1 DEF ToSet
  <1> QED
    BY <1>1, <1>2

LEMMA ToSetConcat ==
  ASSUME NEW q \in Seq(Text), NEW v \in Seq(Text)
  PROVE  ToSet(q \o v) = ToSet(q) \cup ToSet(v)
  <1>1. Len(q) \in Nat /\ Len(v) \in Nat
    BY SeqType
  <1>2. /\ q \o v \in Seq(Text) /\ Len(q \o v) = Len(q) + Len(v)
        /\ \A i \in 1 .. Len(q) : (q \o v)[i] = q[i]
        /\ \A i \in 1 .. Len(v) : (q \o v)[Len(q) + i] = v[i]
    BY ConcatIs
  <1> DEFINE w == q \o v
  <1> HIDE DEF w
  <1>3. /\ w \in Seq(Text) /\ Len(w) = Len(q) + Len(v)
        /\ \A i \in 1 .. Len(q) : w[i] = q[i]
        /\ \A i \in 1 .. Len(v) : w[Len(q) + i] = v[i]
    BY <1>2 DEF w
  <1>4. /\ \A x : x \in ToSet(w) <=> \E i \in 1 .. Len(w) : w[i] = x
        /\ \A x : x \in ToSet(q) <=> \E i \in 1 .. Len(q) : q[i] = x
        /\ \A x : x \in ToSet(v) <=> \E i \in 1 .. Len(v) : v[i] = x
    BY <1>3, ToSetIs
  <1>5. ASSUME NEW x \in ToSet(w) PROVE x \in ToSet(q) \/ x \in ToSet(v)
    <2>1. PICK i \in 1 .. Len(w) : w[i] = x
      BY <1>4
    <2>2. CASE i \in 1 .. Len(q)
      BY <1>3, <1>4, <2>1, <2>2
    <2>3. CASE i \notin 1 .. Len(q)
      <3>1. i - Len(q) \in 1 .. Len(v) /\ i = Len(q) + (i - Len(q))
        BY <1>1, <1>3, <2>3
      <3>2. v[i - Len(q)] = x
        BY <1>3, <2>1, <3>1
      <3> QED
        BY <1>4, <3>1, <3>2
    <2> QED
      BY <2>2, <2>3
  <1>6. ASSUME NEW x \in ToSet(q) PROVE x \in ToSet(w)
    <2>1. PICK i \in 1 .. Len(q) : q[i] = x
      BY <1>4
    <2>2. i \in 1 .. Len(w)
      BY <1>1, <1>3
    <2> QED
      BY <1>3, <1>4, <2>1, <2>2
  <1>7. ASSUME NEW x \in ToSet(v) PROVE x \in ToSet(w)
    <2>1. PICK i \in 1 .. Len(v) : v[i] = x
      BY <1>4
    <2>2. Len(q) + i \in 1 .. Len(w) /\ w[Len(q) + i] = x
      BY <1>1, <1>3, <2>1
    <2> QED
      BY <1>4, <2>2
  <1>8. ToSet(w) = ToSet(q) \cup ToSet(v)
    BY <1>5, <1>6, <1>7
  <1> QED
    BY <1>8 DEF w

LEMMA ToSetTail ==
  ASSUME NEW q \in Seq(Text), q # <<>>
  PROVE  ToSet(q) = {Head(q)} \cup ToSet(Tail(q))
  <1>1. /\ Tail(q) \in Seq(Text) /\ Head(q) = q[1] /\ 1 \in 1 .. Len(q) /\ Len(q) \in Nat
        /\ Len(Tail(q)) = Len(q) - 1
        /\ \A i \in 1 .. Len(Tail(q)) : i + 1 \in 1 .. Len(q) /\ Tail(q)[i] = q[i + 1]
    BY TailIs
  <1>2. /\ \A x : x \in ToSet(q) <=> \E i \in 1 .. Len(q) : q[i] = x
        /\ \A x : x \in ToSet(Tail(q)) <=> \E i \in 1 .. Len(Tail(q)) : Tail(q)[i] = x
    BY <1>1, ToSetIs
  <1> DEFINE v == Tail(q)
             h == Head(q)
  <1> HIDE DEF v, h
  <1>3. ASSUME NEW x \in ToSet(q) PROVE x = h \/ x \in ToSet(v)
    <2>1. PICK i \in 1 .. Len(q) : q[i] = x
      BY <1>2
    <2>2. CASE i = 1
      BY <1>1, <2>1, <2>2 DEF h
    <2>3. CASE i # 1
      <3>1. i - 1 \in 1 .. Len(v) /\ (i - 1) + 1 = i
        BY <1>1, <2>3 DEF v
      <3>2. v[i - 1] = x
        BY <1>1, <2>1, <3>1 DEF v
      <3> QED
        BY <1>2, <3>1, <3>2 DEF v
    <2> QED
      BY <2>2, <2>3
  <1>4. h \in ToSet(q) /\ \A x : x \in ToSet(v) => x \in ToSet(q)
    BY <1>1, <1>2 DEF v, h
  <1>5. ToSet(q) = {h} \cup ToSet(v)
    BY <1>3, <1>4
  <1> QED
    BY <1>5 DEF v, h

LEMMA ToSetEmpty == ToSet(<<>>) = {}
  BY DEF ToSet

\* A page of a listing takes up where the last one ended, and the last one ends it.
LEMMA PageListed ==
  ASSUME TreeOk, NEW r \in Request, Paged(tree, r),
         NEW left, left = {k \in Below(tree, r.target) : r.marker = Nothing \/ Before(r.marker, k)},
         NEW page, page = FirstOf(left, PageSize, Before), NEW s, s.todo = r.todo \o page, s.target = r.target
  PROVE  /\ Cardinality(left) <= PageSize => ToSet(s.todo) = Below(tree, s.target)
         /\ s.marker = Last(page) /\ ~(Cardinality(left) <= PageSize) => Paged(tree, s)
  <1>1. left \subseteq DOMAIN tree /\ left \subseteq Text /\ IsFiniteSet(left)
    <2>1. left \subseteq DOMAIN tree
      BY DEF Below
    <2> QED
      BY <2>1, FS_Subset DEF TreeOk
  <1>2. PageSize \in Nat /\ PageSize > 0 /\ Cardinality(left) \in Nat
    BY <1>1, PageAssumption, FS_CardinalityType
  <1>3. /\ page \in Seq(left) /\ Len(page) = (IF PageSize <= Cardinality(left) THEN PageSize ELSE Cardinality(left))
        /\ \E R : Leads(page, PageSize, R, left)
        /\ \A i, j \in 1 .. Len(page) : i < j => Before(page[i], page[j])
        /\ \A x \in left : \/ \E i \in 1 .. Len(page) : page[i] = x
                           \/ \A i \in 1 .. Len(page) : Before(page[i], x)
    BY <1>1, <1>2, FirstKeys
  <1>4. page \in Seq(Text) /\ r.todo \in Seq(Text)
    BY <1>1, <1>3, WiderSeq DEF Request
  <1>5. ToSet(page) \subseteq left /\ \A x : x \in ToSet(page) <=> \E i \in 1 .. Len(page) : page[i] = x
    <2>1. page \in Seq(left)
      BY <1>3
    <2> QED
      BY ONLY <2>1, ToSetIs
  <1>6. ToSet(s.todo) = ToSet(r.todo) \cup ToSet(page)
    BY <1>4, ToSetConcat
  <1>7. ToSet(r.todo) \subseteq Below(tree, r.target) /\ \A k \in Below(tree, r.target) : k \in ToSet(r.todo) \/ k \in left
    BY DEF Paged
  <1>8. left \subseteq Below(tree, r.target)
    OBVIOUS
  <1>9. ASSUME Cardinality(left) <= PageSize PROVE ToSet(s.todo) = Below(tree, s.target)
    <2>1. Len(page) = Cardinality(left)
      BY <1>2, <1>3, <1>9
    <2>2. \A x \in left : \E i \in 1 .. Len(page) : page[i] = x
      <3>1. \E R : Leads(page, PageSize, R, left)
        BY <1>3
      <3> QED
        BY ONLY <2>1, <3>1, LeadsAll
    <2>3. left \subseteq ToSet(page)
      BY <1>5, <2>2
    <2> QED
      BY <1>5, <1>6, <1>7, <1>8, <2>3
  <1>10. ASSUME s.marker = Last(page), ~(Cardinality(left) <= PageSize) PROVE Paged(tree, s)
    <2>1. Len(page) \in 1 .. Len(page) /\ DOMAIN page = 1 .. Len(page)
      BY <1>2, <1>3, <1>10
    <2>2. ASSUME NEW k \in Below(tree, s.target) PROVE k \in ToSet(s.todo) \/ Before(s.marker, k)
      <3>1. CASE k \in left /\ \A i \in 1 .. Len(page) : Before(page[i], k)
        BY <1>10, <2>1, <3>1 DEF Last
      <3>2. CASE \E i \in 1 .. Len(page) : page[i] = k
        <4>1. k \in ToSet(page)
          BY <1>5, <3>2
        <4> QED
          BY <1>6, <4>1
      <3>3. CASE k \in ToSet(r.todo)
        BY <1>6, <3>3
      <3> QED
        BY <1>3, <1>7, <3>1, <3>2, <3>3
    <2> QED
      BY <1>5, <1>6, <1>7, <1>8, <2>2 DEF Paged
  <1> QED
    BY <1>9, <1>10

LEMMA ListLone ==
  ASSUME LoneInv, Shape, NEW p \in Proc, List(p)
  PROVE  LoneInv'
  <1> DEFINE r == req[p]
             left == {k \in Below(tree, r.target) : r.marker = Nothing \/ Before(r.marker, k)}
             page == FirstOf(left, PageSize, Before)
             keys == r.todo \o page
  <1>0. /\ r \in Request /\ Busy(p) /\ before' = before /\ tree' = tree /\ r.at = "list" /\ TreeOk
        /\ r.then \in {"drop", "markDst"} /\ (r.then # "drop" => r.target = r.name)
    BY OfRequest DEF List, Busy, Proper, Moving
  <1>1. \/ Cardinality(left) <= PageSize /\ Goto(p, [r EXCEPT !.at = r.then, !.todo = keys, !.marker = Nothing])
        \/ Reply(p, r, FALSE)
        \/ ~(Cardinality(left) <= PageSize) /\ Goto(p, [r EXCEPT !.todo = keys, !.marker = Last(page)])
    BY DEF List
  <1>2. ASSUME NEW s, s.todo = keys, s.target = r.target
        PROVE  /\ Paged(tree, r) /\ Cardinality(left) <= PageSize => ToSet(s.todo) = Below(tree, s.target)
               /\ Paged(tree, r) /\ s.marker = Last(page) /\ ~(Cardinality(left) <= PageSize) => Paged(tree, s)
    <2>1. /\ left = {k \in Below(tree, r.target) : r.marker = Nothing \/ Before(r.marker, k)}
          /\ page = FirstOf(left, PageSize, Before)
      OBVIOUS
    <2>2. s.todo = r.todo \o page
      BY <1>2
    <2> HIDE DEF left, page, keys
    <2>3. r \in Request /\ TreeOk
      BY <1>0
    <2>4. s.target = r.target
      BY <1>2
    <2> HIDE DEF r
    <2> SUFFICES ASSUME Paged(tree, r)
                 PROVE  /\ Cardinality(left) <= PageSize => ToSet(s.todo) = Below(tree, s.target)
                        /\ s.marker = Last(page) /\ ~(Cardinality(left) <= PageSize) => Paged(tree, s)
      OBVIOUS
    <2> QED
      BY ONLY <2>1, <2>2, <2>3, <2>4, Paged(tree, r), PageListed
  <1> HIDE DEF left, page, keys
  <1>3. CASE Reply(p, r, FALSE)
    BY <1>0, <1>3, RefuseLone
  <1>4. CASE Cardinality(left) <= PageSize /\ Goto(p, [r EXCEPT !.at = r.then, !.todo = keys, !.marker = Nothing])
    <2> DEFINE s == [r EXCEPT !.at = r.then, !.todo = keys, !.marker = Nothing]
    <2>1. /\ Same(r, s) /\ s.at = r.then /\ s.marker = Nothing /\ s.failed = r.failed /\ s.todo = keys
      BY <1>0 DEF Request, Same
    <2>2. Goto(p, s)
      BY <1>4
    <2> HIDE DEF s
    <2>3. ASSUME NEW t, Plain(t), Progress(t, tree, r) PROVE Progress(t, tree', s)
      <3>0. Paged(tree, r) => ToSet(s.todo) = Below(tree, s.target)
        BY <1>2, <1>4, <2>1 DEF Same
      <3>1. /\ s.kind = "move" => ~IsPrefix(s.dst, s.name)
            /\ s.kind = "delete" => s.name # Nothing
        BY <2>1, <2>3 DEF Progress, Same
      <3>2. CASE r.then = "drop"
        <4>1. ASSUME ~s.failed
              PROVE  /\ Clears(s) /\ ~IsFile(t, s.target) /\ IsDir(t, s.target) /\ s.kind # "batch"
                     /\ Dropped(t, tree', Below(t, s.target), s)
          <5>1. /\ tree = t /\ Clears(r) /\ ~IsFile(t, r.target) /\ IsDir(t, r.target) /\ Paged(tree, r)
            BY <1>0, <2>1, <2>3, <3>2, <4>1 DEF Progress
          <5>2. tree' = Without(t, {}) /\ {} \in SUBSET Below(t, s.target) /\ {} \cup ToSet(s.todo) = Below(t, s.target)
            <6>1. t = [k \in DOMAIN t |-> t[k]]
              BY <2>3 DEF Plain
            <6>2. Without(t, {}) = [k \in DOMAIN t |-> t[k]]
              BY DEF Without
            <6>3. Without(t, {}) = tree'
              BY <1>0, <5>1, <6>1, <6>2
            <6> QED
              BY <3>0, <5>1, <6>3
          <5>3. Dropped(t, tree', Below(t, s.target), s)
            BY <5>2 DEF Dropped
          <5> QED
            BY <2>1, <5>1, <5>3 DEF Same, Clears
        <4> QED
          BY <2>1, <3>1, <3>2, <4>1 DEF Progress
      <3>3. CASE r.then = "markDst"
        <4>1. ASSUME ~s.failed
              PROVE  tree' = Cleared(t, s) /\ Apart(s) /\ ~IsFile(tree', s.name) /\ ToSet(s.todo) = Below(tree', s.name)
          <5>1. tree = Cleared(t, r) /\ Apart(r) /\ ~IsFile(tree, r.name) /\ Paged(tree, r)
            BY <1>0, <2>1, <2>3, <3>3, <4>1 DEF Progress
          <5> QED
            BY <1>0, <2>1, <3>0, <3>3, <5>1 DEF Same, Cleared, Apart
        <4> QED
          BY <2>1, <3>1, <3>3, <4>1 DEF Progress
      <3> QED
        BY <1>0, <3>2, <3>3
    <2>4. Advances(p, s)
      BY <2>3 DEF Advances
    <2> QED
      BY <1>0, <2>1, <2>2, <2>4, LoneMoves
  <1>5. CASE ~(Cardinality(left) <= PageSize) /\ Goto(p, [r EXCEPT !.todo = keys, !.marker = Last(page)])
    <2> DEFINE s == [r EXCEPT !.todo = keys, !.marker = Last(page)]
    <2>1. /\ Same(r, s) /\ s.at = "list" /\ s.then = r.then /\ s.marker = Last(page) /\ s.failed = r.failed
          /\ s.todo = keys
      BY <1>0 DEF Request, Same
    <2>2. Goto(p, s)
      BY <1>5
    <2> HIDE DEF s
    <2>3. ASSUME NEW t, Plain(t), Progress(t, tree, r) PROVE Progress(t, tree', s)
      <3>0. Paged(tree, r) => Paged(tree, s)
        BY <1>2, <1>5, <2>1 DEF Same
      <3> QED
        BY <1>0, <2>1, <2>3, <3>0 DEF Progress, Same, Clears, Cleared, Apart
    <2>4. Advances(p, s)
      BY <2>3 DEF Advances
    <2> QED
      BY <1>0, <2>1, <2>2, <2>4, LoneMoves
  <1> QED
    BY <1>1, <1>3, <1>4, <1>5

\* One key less to do.
LEMMA OneDropped ==
  ASSUME NEW t, NEW u, NEW S, NEW r \in Request, r.todo # <<>>, Dropped(t, u, S, r),
         NEW v, v = Without(u, {Head(r.todo)}), NEW s, s.todo = Tail(r.todo)
  PROVE  Dropped(t, v, S, s)
  <1>1. PICK D \in SUBSET S : D \cup ToSet(r.todo) = S /\ u = Without(t, D)
    BY DEF Dropped
  <1> DEFINE h == Head(r.todo)
  <1>2. ToSet(r.todo) = {h} \cup ToSet(s.todo)
    BY ToSetTail DEF Request
  <1>3. v = Without(t, D \cup {h})
    BY <1>1 DEF Without
  <1> HIDE DEF h
  <1>4. D \cup {h} \in SUBSET S /\ (D \cup {h}) \cup ToSet(s.todo) = S
    BY <1>1, <1>2
  <1> QED
    BY <1>3, <1>4 DEF Dropped

LEMMA DropLone ==
  ASSUME LoneInv, Shape, NEW p \in Proc, Drop(p)
  PROVE  LoneInv'
  <1> DEFINE r == req[p]
  <1>0. r \in Request /\ Busy(p) /\ before' = before /\ r.at = "drop" /\ r.todo # <<>>
    BY OfRequest DEF Drop, Busy
  <1>1. CASE tree' = Without(tree, {Head(r.todo)}) /\ Goto(p, [r EXCEPT !.todo = Tail(@)])
    <2> DEFINE s == [r EXCEPT !.todo = Tail(@)]
    <2>1. Same(r, s) /\ s.at = "drop" /\ s.marker = r.marker /\ s.failed = r.failed /\ s.todo = Tail(r.todo)
      BY <1>0 DEF Request, Same
    <2>2. Goto(p, s)
      BY <1>1
    <2> HIDE DEF s
    <2>3. ASSUME NEW t, Plain(t), Progress(t, tree, r) PROVE Progress(t, tree', s)
      <3>0. \A S : Dropped(t, tree, S, r) => Dropped(t, tree', S, s)
        BY <1>0, <1>1, <2>1, OneDropped
      <3> QED
        BY <1>0, <2>1, <2>3, <3>0 DEF Progress, Same, Clears
    <2>4. Advances(p, s)
      BY <2>3 DEF Advances
    <2> QED
      BY <1>0, <2>1, <2>2, <2>4, LoneMoves
  <1>2. CASE Goto(p, [r EXCEPT !.todo = Tail(@), !.failed = TRUE])
    <2> DEFINE s == [r EXCEPT !.todo = Tail(@), !.failed = TRUE]
    <2>1. Same(r, s) /\ s.at = "drop" /\ s.failed = TRUE
      BY <1>0 DEF Request, Same
    <2>2. Goto(p, s)
      BY <1>2
    <2> HIDE DEF s
    <2>4. Advances(p, s)
      BY <2>1, FailedAdvances
    <2> QED
      BY <1>0, <2>1, <2>2, <2>4, LoneMoves
  <1> QED
    BY <1>1, <1>2 DEF Drop

LEMMA AllDropped ==
  ASSUME NEW t, NEW u, NEW S, NEW r, r.todo = <<>>, Dropped(t, u, S, r)
  PROVE  u = Without(t, S)
  <1>1. PICK D \in SUBSET S : D \cup ToSet(r.todo) = S /\ u = Without(t, D)
    BY DEF Dropped
  <1>2. D = S
    BY <1>1, ToSetEmpty
  <1> QED
    BY <1>1, <1>2

LEMMA EndDropsLone ==
  ASSUME LoneInv, Shape, NEW p \in Proc, EndDrops(p)
  PROVE  LoneInv'
  <1> DEFINE r == req[p]
  <1>0. r \in Request /\ Busy(p) /\ before' = before /\ tree' = tree /\ r.at = "drop" /\ r.todo = <<>>
    BY OfRequest DEF EndDrops, Busy
  <1>1. ASSUME r.kind = "batch", Reply(p, r, ~r.failed) PROVE LoneInv'
    <2>1. PICK ok \in BOOLEAN : ok = ~r.failed /\ Reply(p, r, ok)
      BY <1>1
    <2>2. ASSUME NEW t, Progress(t, tree, r), ok PROVE tree' = Promised(t, r)
      <3>1. Dropped(t, tree, ToSet(r.batch), r)
        BY <1>0, <1>1, <2>1, <2>2 DEF Progress
      <3>2. tree = Without(t, ToSet(r.batch))
        BY <1>0, <3>1, AllDropped
      <3> QED
        BY <1>0, <1>1, <3>2 DEF Promised
    <2> QED
      BY <1>0, <2>1, <2>2, ReplyLone
  <1>2. CASE r.kind # "batch" /\ Goto(p, [r EXCEPT !.at = "prune"])
    <2> DEFINE s == [r EXCEPT !.at = "prune"]
    <2>1. s \in Request /\ Same(r, s) /\ s.at = "prune" /\ s.marker = r.marker /\ s.failed = r.failed
      BY <1>0 DEF Request, Ats, Same
    <2>2. Goto(p, s)
      BY <1>2
    <2> HIDE DEF s
    <2>3. ASSUME NEW t, Plain(t), Progress(t, tree, r), ~s.failed
          PROVE  s.marker = Nothing /\ Clears(s) /\ There(t, s.target) /\ tree' = Without(t, Gone(t, s.target))
      <3>1. /\ s.marker = Nothing /\ Clears(s) /\ ~IsFile(t, s.target) /\ IsDir(t, s.target)
            /\ Dropped(t, tree, Below(t, s.target), r)
        BY <1>0, <1>2, <2>1, <2>3 DEF Progress, Same, Clears
      <3>2. tree = Without(t, Below(t, s.target))
        BY <1>0, <3>1, AllDropped
      <3> QED
        BY <1>0, <3>1, <3>2 DEF There, Gone
    <2>4. Advances(p, s)
      BY <2>1, <2>3, RemovalDone
    <2> QED
      BY <1>0, <2>1, <2>2, <2>4, LoneMoves
  <1> QED
    BY <1>1, <1>2 DEF EndDrops

-----------------------------------------------------------------------------
(* The clean-up of a request that runs alone. *)

\* What is left once the folders are cleaned up: what the request, or its first half, promised.
LEMMA CleanedUp ==
  ASSUME NEW t, NEW r, Cleans(t, r)
  PROVE  Pruned(Base(t, r), r.target) =
           IF Clears(r) THEN Deleted(t, r.target) ELSE Relocated(Cleared(t, r), r.name, r.dst)
  <1>1. CASE Clears(r)
    BY <1>1 DEF Base, Deleted, Gone
  <1>2. CASE ~Clears(r)
    <2>1. r.target = r.name
      BY <1>2 DEF Cleans
    <2>2. Base(t, r) = Shifted(Cleared(t, r), r.name, r.dst)
      BY <1>2 DEF Base
    <2> DEFINE b == Cleared(t, r)
    <2> HIDE DEF b
    <2>3. Relocated(b, r.name, r.dst) = Pruned(Shifted(b, r.name, r.dst), r.name)
      BY DEF Relocated, Shifted
    <2> QED
      BY <1>2, <2>1, <2>2, <2>3 DEF b
  <1> QED
    BY <1>1, <1>2

LEMMA AfterPruneLone ==
  ASSUME LoneInv, Shape, NEW p \in Proc, Busy(p), req[p].at = "prune", before' = before, tree' = tree,
         AfterPrune(p, [req[p] EXCEPT !.marker = Nothing]),
         \A t : Plain(t) /\ Progress(t, tree, req[p]) /\ ~req[p].failed =>
           Cleans(t, req[p]) /\ tree = Pruned(Base(t, req[p]), req[p].target)
  PROVE  LoneInv'
  <1> DEFINE o == req[p]
             r == [o EXCEPT !.marker = Nothing]
  <1>0. o \in Request /\ Nothing \in Text /\ Proper(o)
    BY OfRequest, IdleIs
  <1>1. r \in Request /\ Same(o, r) /\ r.marker = Nothing /\ r.failed = o.failed /\ r.failed \in BOOLEAN
    BY <1>0 DEF Request, Same
  <1>2. AfterPrune(p, r)
    OBVIOUS
  <1> HIDE DEF r
  <1>3. ASSUME NEW t, Plain(t), Progress(t, tree, o), ~r.failed
        PROVE  /\ tree = IF Clears(o) THEN Deleted(t, o.target) ELSE Relocated(Cleared(t, o), o.name, o.dst)
               /\ Clears(o) => There(t, o.target)
               /\ ~Clears(o) => o.kind = "move" /\ o.target = o.name
               /\ o.kind = "move" => o.name # o.dst
    <2>1. Cleans(t, o) /\ tree = Pruned(Base(t, o), o.target)
      BY <1>1, <1>3
    <2>2. tree = IF Clears(o) THEN Deleted(t, o.target) ELSE Relocated(Cleared(t, o), o.name, o.dst)
      BY <2>1, CleanedUp
    <2>3. Clears(o) /\ o.kind = "move" /\ o.target = o.name => o.name = o.dst
      BY DEF Clears
    <2>4. o.kind = "move" => o.name # o.dst
      BY <1>0 DEF Proper
    <2> QED
      BY <2>1, <2>2, <2>3, <2>4 DEF Cleans
  <1>4. CASE /\ r.kind = "move" /\ r.target = r.dst /\ ~r.failed
             /\ Goto(p, [r EXCEPT !.at = "rename", !.target = r.name, !.then = "reply"])
    <2> DEFINE s == [r EXCEPT !.at = "rename", !.target = r.name, !.then = "reply"]
    <2>1. /\ s.kind = r.kind /\ s.name = r.name /\ s.dst = r.dst /\ s.at = "rename" /\ s.marker = Nothing
          /\ s.failed = r.failed
      BY <1>1 DEF Request
    <2>2. Goto(p, s)
      BY <1>4
    <2> HIDE DEF s
    <2>3. ASSUME NEW t, Plain(t), Progress(t, tree, o) PROVE Progress(t, tree', s)
      <3>1. /\ s.kind = "move" => ~IsPrefix(s.dst, s.name)
            /\ s.kind = "delete" => s.name # Nothing
        BY <1>1, <2>1, <2>3 DEF Progress, Same
      <3>2. Clears(o)
        BY <1>1, <1>4 DEF Clears, Same
      <3>3. tree = Deleted(t, o.target) /\ There(t, o.target)
        BY <1>3, <1>4, <2>3, <3>2
      <3>4. tree = Cleared(t, s)
        BY <1>1, <1>4, <2>1, <3>3 DEF Cleared, Same
      <3> QED
        BY <2>1, <3>1, <3>4 DEF Progress
    <2>4. Advances(p, s)
      BY <2>3 DEF Advances
    <2> QED
      BY <2>1, <2>2, <2>4, LoneMoves
  <1>5. ASSUME ~(r.kind = "move" /\ r.target = r.dst /\ ~r.failed), Reply(p, r, ~r.failed) PROVE LoneInv'
    <2>1. PICK ok \in BOOLEAN : ok = ~r.failed /\ Reply(p, r, ok)
      BY <1>1, <1>5
    <2>2. ASSUME NEW t, Plain(t), Progress(t, tree, o), ok PROVE tree' = Promised(t, r)
      <3>1. ~r.failed
        BY <2>1, <2>2
      <3>2. CASE Clears(o)
        <4>1. r.kind = "delete" /\ o.target = r.name
          BY <1>1, <1>5, <3>1, <3>2 DEF Clears, Same
        <4> QED
          BY <1>3, <2>2, <3>1, <3>2, <4>1 DEF Promised
      <3>3. CASE ~Clears(o)
        <4>1. r.kind = "move" /\ r.name = o.name /\ r.dst = o.dst
          BY <1>1, <1>3, <2>2, <3>1, <3>3 DEF Same
        <4>2. tree = Relocated(Cleared(t, o), o.name, o.dst)
          BY <1>3, <2>2, <3>1, <3>3
        <4> QED
          BY <4>1, <4>2 DEF Promised, Cleared, There
      <3> QED
        BY <3>2, <3>3
    <2> QED
      BY <1>1, <2>1, <2>2, ReplyLone DEF Same
  <1> QED
    BY <1>2, <1>4, <1>5 DEF AfterPrune

\* The folder above the one the clean-up has come to.
LEMMA ParentIs ==
  ASSUME NEW t, NEW r \in Request, Cleans(t, r)
  PROVE  /\ Level(r) \in 0 .. Len(r.target) /\ (Level(r) = 0 => Len(r.target) = 0)
         /\ Parent(IF r.marker = Nothing THEN r.target ELSE r.marker) = Above(r.target, Level(r) - 1)
         /\ r.marker # Nothing => r.marker = Above(r.target, Level(r)) /\ Level(r) \in 1 .. Len(r.target) - 1
         /\ Level(r) > 1 => /\ Above(r.target, Level(r) - 1) # Nothing
                            /\ Len(Above(r.target, Level(r) - 1)) = Level(r) - 1
         /\ Level(r) <= 1 => Above(r.target, Level(r) - 1) = Nothing
  <1> DEFINE k == r.target
             m == r.marker
             L == Level(r)
  <1>1. k \in Text /\ m \in Text /\ Len(k) \in Nat /\ Len(m) \in Nat
    BY TextType DEF Request
  <1>2. m # Nothing => Len(m) # 0
    BY <1>1 DEF Text, Nothing
  <1>3. m # Nothing => Len(m) < Len(k) /\ m = Above(k, Len(m)) /\ L = Len(m)
    BY DEF Cleans, Level
  <1>4. m = Nothing => L = Len(k)
    BY DEF Level
  <1>5. L \in 0 .. Len(k) /\ (L = 0 => Len(k) = 0) /\ (m # Nothing => L \in 1 .. Len(k) - 1)
    BY <1>1, <1>2, <1>3, <1>4
  <1>6. Parent(IF m = Nothing THEN k ELSE m) = Above(k, L - 1)
    <2>1. CASE m = Nothing
      BY <1>4, <2>1 DEF Parent, Above
    <2>2. CASE m # Nothing
      <3>1. Parent(m) = Above(m, L - 1)
        BY <1>3, <2>2 DEF Parent, Above
      <3>2. L \in 0 .. Len(k) /\ L - 1 \in 0 .. L
        BY <1>1, <1>5, <2>2
      <3>3. Above(Above(k, L), L - 1) = Above(k, L - 1)
        BY <1>1, <3>2, AboveIs
      <3> QED
        BY <1>3, <2>2, <3>1, <3>3
    <2> QED
      BY <2>1, <2>2
  <1>7. L > 1 => Above(k, L - 1) # Nothing /\ Len(Above(k, L - 1)) = L - 1
    <2> SUFFICES ASSUME L > 1 PROVE Above(k, L - 1) # Nothing /\ Len(Above(k, L - 1)) = L - 1
      OBVIOUS
    <2>1. L - 1 \in 0 .. Len(k) /\ L - 1 # 0
      BY <1>1, <1>5
    <2>2. Len(Above(k, L - 1)) = L - 1
      BY <1>1, <2>1, AboveIs
    <2>3. Len(Nothing) = 0
      BY DEF Nothing
    <2> QED
      BY <2>1, <2>2, <2>3
  <1>8. L <= 1 => Above(k, L - 1) = Nothing
    <2> SUFFICES ASSUME L <= 1 PROVE Above(k, L - 1) = Nothing
      OBVIOUS
    <2>1. L - 1 \in Int /\ L - 1 < 1
      BY <1>1, <1>5
    <2>2. SubSeq(k, 1, L - 1) = <<>>
      <3> HIDE DEF L, k
      <3>1. k \in Seq(Nat) /\ 1 .. (L - 1) = {}
        BY <1>1, <2>1 DEF Text
      <3> QED
        BY <2>1, <3>1
    <2> QED
      BY <2>2 DEF Above, Nothing
  <1> QED
    BY <1>3, <1>5, <1>6, <1>7, <1>8

LEMMA PruneLone ==
  ASSUME LoneInv, Shape, NEW p \in Proc, Prune(p)
  PROVE  LoneInv'
  <1> DEFINE r == req[p]
             d == Parent(IF r.marker = Nothing THEN r.target ELSE r.marker)
             k == r.target
             L == Level(r)
  <1>0. /\ r \in Request /\ Busy(p) /\ before' = before /\ tree' = tree /\ r.at = "prune" /\ k \in Text
        /\ Len(k) \in Nat
    BY OfRequest, TextType DEF Prune, Busy, Request
  <1>1. \/ /\ d = Nothing \/ Below(tree, d) \ {Marker(d)} # {}
           /\ AfterPrune(p, [r EXCEPT !.marker = Nothing])
        \/ ~(d = Nothing \/ Below(tree, d) \ {Marker(d)} # {}) /\ Goto(p, [r EXCEPT !.at = "unmark", !.marker = d])
    BY DEF Prune
  <1>2. ASSUME NEW t, Plain(t), Progress(t, tree, r), ~r.failed
        PROVE  /\ Cleans(t, r) /\ Climbing(Base(t, r), tree, k, L, L) /\ d = Above(k, L - 1)
               /\ L \in 0 .. Len(k) /\ (L = 0 => Len(k) = 0)
               /\ (L > 1 => d # Nothing /\ Len(d) = L - 1) /\ (L <= 1 => d = Nothing)
    <2>1. Cleans(t, r) /\ Climbing(Base(t, r), tree, k, L, L)
      BY <1>0, <1>2 DEF Progress
    <2> QED
      BY <1>0, <2>1, ParentIs
  <1>3. CASE (d = Nothing \/ Below(tree, d) \ {Marker(d)} # {}) /\ AfterPrune(p, [r EXCEPT !.marker = Nothing])
    <2>1. ASSUME NEW t, Plain(t), Progress(t, tree, r), ~r.failed
          PROVE  Cleans(t, r) /\ tree = Pruned(Base(t, r), k)
      <3> DEFINE b == Base(t, r)
      <3>1. /\ Cleans(t, r) /\ Climbing(b, tree, k, L, L) /\ d = Above(k, L - 1)
            /\ L \in 0 .. Len(k) /\ (L = 0 => Len(k) = 0) /\ (L > 1 => d # Nothing)
        BY <1>2, <2>1
      <3>2. DOMAIN b \subseteq Text
        BY <3>1 DEF Cleans
      <3> HIDE DEF b, L, d, k
      <3>3. L <= 1 \/ Below(tree, Above(k, L - 1)) \ {Marker(Above(k, L - 1))} # {}
        BY <1>0, <1>3, <3>1
      <3>4. tree = Pruned(b, k)
        BY <1>0, <3>1, <3>2, <3>3, ClimbEnds
      <3> QED
        BY <3>1, <3>4 DEF b
    <2> QED
      BY <1>0, <1>3, <2>1, AfterPruneLone
  <1>4. CASE ~(d = Nothing \/ Below(tree, d) \ {Marker(d)} # {}) /\ Goto(p, [r EXCEPT !.at = "unmark", !.marker = d])
    <2> DEFINE s == [r EXCEPT !.at = "unmark", !.marker = d]
    <2>1. Same(r, s) /\ s.at = "unmark" /\ s.marker = d /\ s.failed = r.failed
      BY <1>0 DEF Request, Same
    <2>2. Goto(p, s)
      BY <1>4
    <2> HIDE DEF s, d
    <2>3. ASSUME NEW t, Plain(t), Progress(t, tree, r) PROVE Progress(t, tree', s)
      <3>1. /\ s.kind = "move" => ~IsPrefix(s.dst, s.name)
            /\ s.kind = "delete" => s.name # Nothing
        BY <2>1, <2>3 DEF Progress, Same
      <3>2. ASSUME ~s.failed
            PROVE  /\ Cleans(t, s) /\ s.marker # Nothing
                   /\ Climbing(Base(t, s), tree', s.target, Level(s) + 1, Level(s))
        <4> DEFINE b == Base(t, r)
        <4>1. /\ Cleans(t, r) /\ Climbing(b, tree, k, L, L) /\ d = Above(k, L - 1)
              /\ L \in 0 .. Len(k) /\ (L > 1 => d # Nothing /\ Len(d) = L - 1) /\ (L <= 1 => d = Nothing)
          BY <1>2, <2>1, <2>3, <3>2
        <4>2. Base(t, s) = b
          BY <2>1 DEF Base, Same, Clears, Cleared
        <4>3. Level(s) = L - 1 /\ L > 1 /\ s.marker = Above(s.target, Len(s.marker)) /\ Len(s.marker) < Len(s.target)
          BY <1>0, <1>4, <2>1, <4>1 DEF Level, Same
        <4>4. Cleans(t, s)
          BY <2>1, <4>1, <4>2, <4>3 DEF Cleans, Same, Clears
        <4>5. Empty(b, k, L - 1)
          <5> HIDE DEF b, L, k
          <5>1. L \in 1 .. Len(k) /\ L - 1 >= 1 /\ Below(tree, Above(k, L - 1)) \ {Marker(Above(k, L - 1))} = {}
            BY <1>0, <1>4, <4>1, <4>3
          <5> QED
            BY <1>0, <4>1, <5>1, EmptyIs
        <4>6. Climbing(b, tree, k, L, L - 1)
          <5> HIDE DEF b, L, k
          <5>1. \A l \in L - 1 .. Len(k) - 1 : l = L - 1 \/ l \in L .. Len(k) - 1
            BY <1>0, <4>1
          <5> QED
            BY <4>1, <4>5, <5>1 DEF Climbing
        <4>7. Level(s) + 1 = L /\ s.target = k /\ s.marker # Nothing
          BY <1>4, <2>1, <4>1, <4>3 DEF Same
        <4> QED
          BY <1>0, <4>2, <4>3, <4>4, <4>6, <4>7
      <3> QED
        BY <2>1, <3>1, <3>2 DEF Progress
    <2>4. Advances(p, s)
      BY <2>3 DEF Advances
    <2> QED
      BY <1>0, <2>1, <2>2, <2>4, LoneMoves
  <1> QED
    BY <1>1, <1>3, <1>4

LEMMA UnmarkLone ==
  ASSUME LoneInv, Shape, NEW p \in Proc, Unmark(p)
  PROVE  LoneInv'
  <1> DEFINE r == req[p]
             k == r.target
             L == Level(r)
  <1>0. /\ r \in Request /\ Busy(p) /\ r.at = "unmark" /\ k \in Text /\ Len(k) \in Nat
    BY OfRequest, TextType DEF Unmark, Busy, Request
  <1>1. CASE tree' = Without(tree, {Marker(r.marker)}) /\ Goto(p, [r EXCEPT !.at = "prune"]) /\ before' = before
    <2> DEFINE s == [r EXCEPT !.at = "prune"]
    <2>1. Same(r, s) /\ s.at = "prune" /\ s.marker = r.marker /\ s.failed = r.failed
      BY <1>0 DEF Request, Same
    <2>2. Goto(p, s)
      BY <1>1
    <2> HIDE DEF s
    <2>3. ASSUME NEW t, Plain(t), Progress(t, tree, r) PROVE Progress(t, tree', s)
      <3>1. /\ s.kind = "move" => ~IsPrefix(s.dst, s.name)
            /\ s.kind = "delete" => s.name # Nothing
        BY <2>1, <2>3 DEF Progress, Same
      <3>2. ASSUME ~s.failed
            PROVE  Cleans(t, s) /\ Climbing(Base(t, s), tree', s.target, Level(s), Level(s))
        <4> DEFINE b == Base(t, r)
                   G(i) == {Marker(Above(k, l)) : l \in i .. Len(k) - 1}
        <4>1. Cleans(t, r) /\ r.marker # Nothing /\ Climbing(b, tree, k, L + 1, L)
          BY <1>0, <2>1, <2>3, <3>2 DEF Progress
        <4>2. r.marker = Above(k, L) /\ L \in 1 .. Len(k) - 1
          BY <1>0, <4>1, ParentIs
        <4>3. Base(t, s) = b /\ Level(s) = L /\ Cleans(t, s) /\ s.target = k
          BY <2>1, <4>1 DEF Base, Same, Clears, Cleared, Level, Cleans
        <4> HIDE DEF b, L, k
        <4>4. tree = Without(b, G(L + 1)) /\ \A l \in L .. Len(k) - 1 : Empty(b, k, l)
          BY <4>1 DEF Climbing
        <4>5. tree' = Without(b, G(L + 1) \cup {Marker(Above(k, L))})
          <5> DEFINE E == G(L + 1)
                     m == Marker(Above(k, L))
          <5>1. tree = Without(b, E) /\ tree' = Without(tree, {m})
            BY <1>1, <4>2, <4>4
          <5> HIDE DEF E, m
          <5>2. tree' = Without(b, E \cup {m})
            BY <5>1 DEF Without
          <5> QED
            BY <5>2 DEF E, m
        <4>6. G(L + 1) \cup {Marker(Above(k, L))} = G(L)
          <5>1. \A l : l \in L .. Len(k) - 1 <=> l = L \/ l \in L + 1 .. Len(k) - 1
            BY <1>0, <4>2
          <5> QED
            BY <5>1
        <4>7. Climbing(b, tree', k, L, L)
          BY <4>4, <4>5, <4>6 DEF Climbing
        <4> QED
          BY <4>3, <4>7
      <3> QED
        BY <2>1, <3>1, <3>2 DEF Progress
    <2>4. Advances(p, s)
      BY <2>3 DEF Advances
    <2> QED
      BY <1>0, <1>1, <2>1, <2>2, <2>4, LoneMoves
  <1>2. CASE AfterPrune(p, [r EXCEPT !.marker = Nothing]) /\ before' = [before EXCEPT ![p] = {}]
    <2>1. PICK s : Goto(p, s)
      BY <1>2 DEF AfterPrune, Reply
    <2> QED
      BY <1>0, <1>2, <2>1, LoneLeaves
  <1> QED
    BY <1>1, <1>2 DEF Unmark

-----------------------------------------------------------------------------
(* Moves that run alone. *)

LEMMA PlainWithout ==
  ASSUME NEW t, Plain(t), NEW ks
  PROVE  Plain(Without(t, ks))
  <1> DEFINE u == Without(t, ks)
  <1>1. DOMAIN u = DOMAIN t \ ks /\ \A j \in DOMAIN t \ ks : u[j] = t[j]
    BY WithoutIs
  <1>2. u = [j \in DOMAIN u |-> u[j]]
    BY DEF Without
  <1> HIDE DEF u
  <1>3. Plain(u)
    BY <1>1, <1>2 DEF Plain
  <1> QED
    BY <1>3 DEF u

LEMMA PlainCleared ==
  ASSUME NEW t, Plain(t), NEW r
  PROVE  Plain(Cleared(t, r))
  <1>1. \A n : Plain(Deleted(t, n))
    <2> TAKE n
    <2>1. PICK u : u = Without(t, Gone(t, n)) /\ Deleted(t, n) = Pruned(u, n)
      BY DEF Deleted, Gone
    <2>2. Plain(u)
      BY <2>1, PlainWithout
    <2>3. PICK ks : Pruned(u, n) = Without(u, ks)
      BY PrunedIs
    <2> QED
      BY <2>1, <2>2, <2>3, PlainWithout
  <1> QED
    BY <1>1 DEF Cleared

\* What a move under way knows.
LEMMA MoveKnows ==
  ASSUME Shape, NEW p \in Proc, req[p].at \in {"rename", "markDst", "take", "place", "remove"},
         NEW t, Plain(t), Progress(t, tree, req[p]), ~req[p].failed, Apart(req[p])
  PROVE  Mover(Cleared(t, req[p]), req[p]) /\ req[p].marker = Nothing
  <1>1. Proper(req[p])
    BY OfRequest
  <1>2. req[p].name \in Names /\ req[p].dst \in Names
    BY <1>1 DEF Proper, Moving
  <1>3. req[p].marker = Nothing
    BY DEF Progress
  <1> QED
    BY <1>2, <1>3, PlainCleared DEF Mover

LEMMA SameMove ==
  ASSUME NEW r, NEW s, Same(r, s)
  PROVE  /\ \A t : Cleared(t, s) = Cleared(t, r)
         /\ Apart(s) <=> Apart(r)
         /\ \A b, u, P, D : Halfway(b, u, P, D, s) <=> Halfway(b, u, P, D, r)
  BY DEF Same, Cleared, Apart, Halfway, Mark

\* The move of a key goes on.
LEMMA MoveAdvances ==
  ASSUME Shape, NEW p \in Proc, req[p].at \in {"rename", "markDst", "take", "place", "remove"},
         NEW s, Same(req[p], s), s.at \in {"take", "place", "remove"},
         s.marker = req[p].marker, s.failed = req[p].failed,
         \A t : Plain(t) /\ Progress(t, tree, req[p]) /\ ~s.failed =>
           /\ Apart(s) /\ Moves(Cleared(t, s), tree', s)
           /\ s.at = "place" => s.taken = Copy(Cleared(t, s), Head(s.todo))
  PROVE  Advances(p, s)
  <1> SUFFICES ASSUME NEW t, Plain(t), Progress(t, tree, req[p]) PROVE Progress(t, tree', s)
    BY DEF Advances
  <1>1. /\ s.kind = "move" => ~IsPrefix(s.dst, s.name)
        /\ s.kind = "delete" => s.name # Nothing
    BY DEF Progress, Same
  <1>2. ~s.failed => s.marker = Nothing
    BY DEF Progress
  <1> QED
    BY <1>1, <1>2 DEF Progress

\* Every key has been moved.
LEMMA MoveDone ==
  ASSUME Shape, TreeOk', NEW p \in Proc, req[p].at \in {"take", "remove"},
         NEW s \in Request, Same(req[p], s), s.at = "prune", s.marker = req[p].marker, s.failed = req[p].failed,
         \A t : Plain(t) /\ Progress(t, tree, req[p]) /\ ~s.failed =>
           LET b == Cleared(t, s) IN Apart(s) /\ Halfway(b, tree', Gone(b, s.name), Gone(b, s.name), s)
  PROVE  Advances(p, s)
  <1> SUFFICES ASSUME NEW t, Plain(t), Progress(t, tree, req[p]) PROVE Progress(t, tree', s)
    BY DEF Advances
  <1>1. /\ s.kind = "move" => ~IsPrefix(s.dst, s.name)
        /\ s.kind = "delete" => s.name # Nothing
    BY DEF Progress, Same
  <1>2. ASSUME ~s.failed PROVE Cleans(t, s) /\ Climbing(Base(t, s), tree', s.target, Level(s), Level(s))
    <2> DEFINE b == Cleared(t, s)
    <2>1. Apart(s) /\ Halfway(b, tree', Gone(b, s.name), Gone(b, s.name), s)
      BY <1>2
    <2>2. Mover(b, s) /\ s.marker = Nothing
      <3>1. ~req[p].failed /\ Apart(req[p])
        BY <1>2, <2>1, SameMove
      <3>2. Mover(Cleared(t, req[p]), req[p]) /\ req[p].marker = Nothing
        BY <3>1, MoveKnows
      <3> QED
        BY <3>2, SameMove DEF Mover, Same
    <2>3. s.kind = "move" /\ s.target = s.name /\ s.name # s.dst
      <3>1. Proper(req[p]) /\ Moving(req[p])
        BY OfRequest DEF Moving
      <3> QED
        BY <3>1 DEF Proper, Same
    <2>4. ~Clears(s)
      BY <2>3 DEF Clears
    <2>5. tree' = Shifted(b, s.name, s.dst)
      <3> HIDE DEF b
      <3> QED
        BY <2>1, <2>2, MoveEnds
    <2>6. Base(t, s) = tree'
      BY <2>4, <2>5 DEF Base
    <2>7. tree' = [k \in DOMAIN tree' |-> tree'[k]] /\ DOMAIN tree' \subseteq Text
      BY DEF TreeOk
    <2>8. Cleans(t, s)
      BY <2>2, <2>3, <2>6, <2>7 DEF Cleans
    <2> DEFINE c == Base(t, s)
    <2>9. tree' = c /\ c = [k \in DOMAIN c |-> c[k]]
      BY <2>6, <2>7
    <2> HIDE DEF c
    <2>10. Climbing(c, tree', s.target, Level(s), Level(s))
      BY <2>2, <2>9, ClimbBegins
    <2> QED
      BY <2>8, <2>10 DEF c
  <1> QED
    BY <1>1, <1>2 DEF Progress

LEMMA StatDstLone ==
  ASSUME LoneInv, Shape, NEW p \in Proc, StatDst(p)
  PROVE  LoneInv'
  <1> DEFINE r == req[p]
  <1>0. /\ r \in Request /\ Busy(p) /\ before' = before /\ tree' = tree /\ r.at = "stat" /\ r.kind = "move"
    BY OfRequest DEF StatDst, Busy, Proper
  <1>1. CASE ~There(tree, r.dst) /\ Goto(p, [r EXCEPT !.at = "rename", !.target = r.name])
    <2> DEFINE s == [r EXCEPT !.at = "rename", !.target = r.name]
    <2>1. /\ s.kind = "move" /\ s.name = r.name /\ s.dst = r.dst /\ s.at = "rename" /\ s.marker = r.marker
          /\ s.failed = r.failed
      BY <1>0 DEF Request
    <2>2. Goto(p, s)
      BY <1>1
    <2> HIDE DEF s
    <2>3. ASSUME NEW t, Plain(t), Progress(t, tree, r) PROVE Progress(t, tree', s)
      <3>1. tree = t => Cleared(t, s) = t
        BY <1>1, <2>1 DEF Cleared
      <3> QED
        BY <1>0, <2>1, <2>3, <3>1 DEF Progress
    <2>4. Advances(p, s)
      BY <2>3 DEF Advances
    <2> QED
      BY <1>0, <2>1, <2>2, <2>4, LoneMoves
  <1>2. CASE Goto(p, [r EXCEPT !.at = "removeAll", !.target = r.dst])
    <2> DEFINE s == [r EXCEPT !.at = "removeAll", !.target = r.dst]
    <2>1. /\ s.kind = "move" /\ s.name = r.name /\ s.dst = r.dst /\ s.at = "removeAll" /\ s.marker = r.marker
          /\ s.failed = r.failed /\ s.target = r.dst
      BY <1>0 DEF Request
    <2>2. Goto(p, s)
      BY <1>2
    <2> HIDE DEF s
    <2>3. ASSUME NEW t, Plain(t), Progress(t, tree, r) PROVE Progress(t, tree', s)
      BY <1>0, <2>1, <2>3 DEF Progress, Clears
    <2>4. Advances(p, s)
      BY <2>3 DEF Advances
    <2> QED
      BY <1>0, <2>1, <2>2, <2>4, LoneMoves
  <1>3. CASE Reply(p, r, FALSE)
    BY <1>0, <1>3, RefuseLone
  <1> QED
    BY <1>1, <1>2, <1>3 DEF StatDst, There

LEMMA OneToDo == \A k : ToSet(<<k>>) = {k}
  BY DEF ToSet

LEMMA RenameLone ==
  ASSUME LoneInv, Shape, NEW p \in Proc, Rename(p)
  PROVE  LoneInv'
  <1> DEFINE r == req[p]
  <1>0. /\ r \in Request /\ Busy(p) /\ before' = before /\ tree' = tree /\ r.at = "rename" /\ r.kind = "move"
        /\ r.target = r.name /\ r.todo = <<>>
    BY OfRequest DEF Rename, Busy, Proper
  <1>1. CASE Reply(p, r, FALSE)
    BY <1>0, <1>1, RefuseLone
  <1>2. CASE /\ ~IsPrefix(r.name, r.dst) /\ IsFile(tree, r.name)
             /\ Goto(p, [r EXCEPT !.at = "take", !.todo = <<r.name>>])
    <2> DEFINE s == [r EXCEPT !.at = "take", !.todo = <<r.name>>]
    <2>1. Same(r, s) /\ s.at = "take" /\ s.marker = r.marker /\ s.failed = r.failed /\ s.todo = <<r.name>>
      BY <1>0 DEF Request, Same
    <2>2. Goto(p, s)
      BY <1>2
    <2> HIDE DEF s
    <2>3. ASSUME NEW t, Plain(t), Progress(t, tree, r), ~s.failed
          PROVE  Apart(s) /\ Moves(Cleared(t, s), tree', s)
      <3> DEFINE b == Cleared(t, s)
      <3>1. Apart(s) /\ tree = b
        BY <1>0, <1>2, <2>1, <2>3 DEF Progress, Apart, Same, Cleared
      <3>2. Plain(b)
        BY <2>3, PlainCleared
      <3> HIDE DEF b
      <3>3. IsFile(b, s.name) /\ ToSet(s.todo) = Gone(b, s.name)
        BY <1>2, <2>1, <3>1, OneToDo DEF Gone, Same
      <3>4. Halfway(b, tree', {}, {}, s)
        BY <1>0, <3>1, <3>2, <3>3, FileBegins
      <3>5. {} \in SUBSET Gone(b, s.name) /\ {} \cup ToSet(s.todo) = Gone(b, s.name)
        BY <3>3
      <3> QED
        BY <2>1, <3>1, <3>4, <3>5 DEF Moves, b
    <2>4. Advances(p, s)
      BY <1>0, <2>1, <2>3, MoveAdvances
    <2> QED
      BY <1>0, <2>1, <2>2, <2>4, LoneMoves
  <1>3. CASE /\ ~IsPrefix(r.name, r.dst) /\ ~IsFile(tree, r.name)
             /\ Goto(p, [r EXCEPT !.at = "list", !.then = "markDst"])
    <2> DEFINE s == [r EXCEPT !.at = "list", !.then = "markDst"]
    <2>1. /\ Same(r, s) /\ s.at = "list" /\ s.then = "markDst" /\ s.marker = r.marker /\ s.failed = r.failed
          /\ s.todo = <<>>
      BY <1>0 DEF Request, Same
    <2>2. Goto(p, s)
      BY <1>3
    <2> HIDE DEF s
    <2>3. ASSUME NEW t, Plain(t), Progress(t, tree, r) PROVE Progress(t, tree', s)
      <3>1. s.kind = "move" /\ ~IsPrefix(s.dst, s.name)
        BY <1>0, <2>1, <2>3 DEF Progress, Same
      <3>2. ASSUME ~s.failed
            PROVE  tree' = Cleared(t, s) /\ Apart(s) /\ ~IsFile(tree', s.name) /\ Paged(tree', s)
        <4>1. s.marker = Nothing /\ tree' = Cleared(t, s) /\ Apart(s) /\ ~IsFile(tree', s.name)
          BY <1>0, <1>3, <2>1, <2>3, <3>1, <3>2, SameMove DEF Progress, Apart, Same
        <4>2. ToSet(s.todo) = {}
          BY <2>1, ToSetEmpty
        <4> QED
          BY <4>1, <4>2 DEF Paged
      <3> QED
        BY <2>1, <3>1, <3>2 DEF Progress
    <2>4. Advances(p, s)
      BY <2>3 DEF Advances
    <2> QED
      BY <1>0, <2>1, <2>2, <2>4, LoneMoves
  <1> QED
    BY <1>1, <1>2, <1>3 DEF Rename

\* What there is to take, place and remove.
LEMMA KeyKnows ==
  ASSUME Shape, NEW p \in Proc, req[p].at \in {"take", "place", "remove"}, req[p].todo # <<>>,
         NEW t, Plain(t), Progress(t, tree, req[p]), ~req[p].failed
  PROVE  /\ Apart(req[p]) /\ Mover(Cleared(t, req[p]), req[p])
         /\ Moves(Cleared(t, req[p]), tree, req[p])
         /\ Head(req[p].todo) \in Gone(Cleared(t, req[p]), req[p].name)
         /\ ToSet(req[p].todo) = {Head(req[p].todo)} \cup ToSet(Tail(req[p].todo))
         /\ req[p].at = "place" => req[p].taken = Copy(Cleared(t, req[p]), Head(req[p].todo))
  <1> DEFINE r == req[p]
  <1>1. r \in Request /\ r.todo \in Seq(Text)
    BY OfRequest DEF Request
  <1>2. /\ Apart(r) /\ Moves(Cleared(t, r), tree, r)
        /\ r.at = "place" => r.taken = Copy(Cleared(t, r), Head(r.todo))
    BY DEF Progress
  <1>3. Mover(Cleared(t, r), r)
    BY <1>2, MoveKnows
  <1>4. ToSet(r.todo) = {Head(r.todo)} \cup ToSet(Tail(r.todo))
    BY <1>1, ToSetTail
  <1>5. Head(r.todo) \in Gone(Cleared(t, r), r.name)
    BY <1>2, <1>4 DEF Moves
  <1> QED
    BY <1>2, <1>3, <1>4, <1>5

LEMMA MarkDstLone ==
  ASSUME LoneInv, Shape, NEW p \in Proc, MarkDst(p)
  PROVE  LoneInv'
  <1> DEFINE r == req[p]
  <1>0. r \in Request /\ Busy(p) /\ before' = before /\ r.at = "markDst"
    BY OfRequest DEF MarkDst, Busy
  <1>1. CASE Reply(p, r, FALSE)
    BY <1>0, <1>1, RefuseLone
  <1>2. CASE tree' = With(tree, Marker(r.dst), Dir) /\ Goto(p, [r EXCEPT !.at = "take"])
    <2> DEFINE s == [r EXCEPT !.at = "take"]
    <2>1. Same(r, s) /\ s.at = "take" /\ s.marker = r.marker /\ s.failed = r.failed /\ s.todo = r.todo
      BY <1>0 DEF Request, Same
    <2>2. Goto(p, s)
      BY <1>2
    <2> HIDE DEF s
    <2>3. ASSUME NEW t, Plain(t), Progress(t, tree, r), ~s.failed
          PROVE  Apart(s) /\ Moves(Cleared(t, s), tree', s)
      <3> DEFINE b == Cleared(t, s)
      <3>1. Apart(s) /\ tree = b /\ ~IsFile(b, s.name) /\ ToSet(s.todo) = Below(b, s.name)
        BY <1>0, <2>1, <2>3, SameMove DEF Progress, Same
      <3> HIDE DEF b
      <3>2. tree' = With(b, Marker(s.dst), Dir)
        BY <1>2, <2>1, <3>1 DEF Same
      <3>3. Halfway(b, tree', {}, {}, s)
        BY <3>1, <3>2, TreeBegins
      <3>4. {} \in SUBSET Gone(b, s.name) /\ {} \cup ToSet(s.todo) = Gone(b, s.name)
        BY <3>1 DEF Gone
      <3> QED
        BY <2>1, <3>1, <3>3, <3>4 DEF Moves, b
    <2>4. Advances(p, s)
      BY <1>0, <2>1, <2>3, MoveAdvances
    <2> QED
      BY <1>0, <2>1, <2>2, <2>4, LoneMoves
  <1> QED
    BY <1>1, <1>2 DEF MarkDst

\* A key that cannot be moved ends the promise.
LEMMA SkipLone ==
  ASSUME LoneInv, Shape, NEW p \in Proc, Busy(p), before' = before, Skip(p, req[p])
  PROVE  LoneInv'
  <1> DEFINE r == req[p]
             s == [r EXCEPT !.at = "take", !.todo = Tail(@), !.failed = TRUE]
  <1>0. r \in Request
    BY OfRequest
  <1>1. CASE Reply(p, r, FALSE)
    BY <1>1, RefuseLone
  <1>2. CASE Goto(p, s)
    <2>1. Same(r, s) /\ s.at = "take" /\ s.failed = TRUE
      BY <1>0 DEF Request, Same
    <2>2. Goto(p, s)
      BY <1>2
    <2> HIDE DEF s
    <2>3. Advances(p, s)
      BY <2>1, FailedAdvances
    <2> QED
      BY <2>1, <2>2, <2>3, LoneMoves
  <1> QED
    BY <1>1, <1>2 DEF Skip

LEMMA TakeLone ==
  ASSUME LoneInv, Shape, NEW p \in Proc, Take(p)
  PROVE  LoneInv'
  <1> DEFINE r == req[p]
             k == Head(r.todo)
  <1>0. r \in Request /\ Busy(p) /\ before' = before /\ tree' = tree /\ r.at = "take" /\ r.todo # <<>>
    BY OfRequest DEF Take, Busy
  <1>1. CASE IsMarker(k) /\ k = Marker(r.name) /\ Goto(p, [r EXCEPT !.at = "remove", !.taken = Dir])
    <2> DEFINE s == [r EXCEPT !.at = "remove", !.taken = Dir]
    <2>1. Same(r, s) /\ s.at = "remove" /\ s.marker = r.marker /\ s.failed = r.failed /\ s.todo = r.todo
      BY <1>0 DEF Request, Same
    <2>2. Goto(p, s)
      BY <1>1
    <2> HIDE DEF s
    <2>3. ASSUME NEW t, Plain(t), Progress(t, tree, r), ~s.failed
          PROVE  Apart(s) /\ Moves(Cleared(t, s), tree', s)
      <3> DEFINE b == Cleared(t, r)
      <3>1. Apart(r) /\ Mover(b, r) /\ Moves(b, tree, r) /\ k \in Gone(b, r.name)
        BY <1>0, <2>1, <2>3, KeyKnows
      <3> HIDE DEF b, k
      <3>2. PICK D \in SUBSET Gone(b, r.name) : D \cup ToSet(r.todo) = Gone(b, r.name) /\ Halfway(b, tree, D, D, r)
        BY <1>0, <3>1 DEF Moves
      <3>3. Halfway(b, tree, D \cup {k}, D, r)
        BY <1>1, <3>1, <3>2, TopCopied
      <3>4. Halfway(b, tree', D \cup {Head(s.todo)}, D, s)
        BY <1>0, <2>1, <3>3, SameMove DEF k
      <3>5. Moves(b, tree', s)
        BY <2>1, <3>2, <3>4 DEF Moves, Same
      <3> QED
        BY <2>1, <3>1, <3>5, SameMove DEF b
    <2>4. Advances(p, s)
      BY <1>0, <2>1, <2>3, MoveAdvances
    <2> QED
      BY <1>0, <2>1, <2>2, <2>4, LoneMoves
  <1>2. ASSUME NEW c, Goto(p, [r EXCEPT !.at = "place", !.taken = c]),
               IsMarker(k) => c = Dir, ~IsMarker(k) => IsFile(tree, k) /\ c = tree[k]
        PROVE  LoneInv'
    <2> DEFINE s == [r EXCEPT !.at = "place", !.taken = c]
    <2>1. /\ Same(r, s) /\ s.at = "place" /\ s.marker = r.marker /\ s.failed = r.failed /\ s.todo = r.todo
          /\ s.taken = c
      BY <1>0 DEF Request, Same
    <2>2. Goto(p, s)
      BY <1>2
    <2> HIDE DEF s
    <2>3. ASSUME NEW t, Plain(t), Progress(t, tree, r), ~s.failed
          PROVE  Apart(s) /\ Moves(Cleared(t, s), tree', s) /\ s.taken = Copy(Cleared(t, s), Head(s.todo))
      <3> DEFINE b == Cleared(t, r)
      <3>1. Apart(r) /\ Mover(b, r) /\ Moves(b, tree, r) /\ k \in Gone(b, r.name)
        BY <1>0, <2>1, <2>3, KeyKnows
      <3> HIDE DEF b, k
      <3>2. PICK D \in SUBSET Gone(b, r.name) : D \cup ToSet(r.todo) = Gone(b, r.name) /\ Halfway(b, tree, D, D, r)
        BY <1>0, <3>1 DEF Moves
      <3>3. c = Copy(b, k)
        <4>2. IsFile(tree, k) => tree[k] = b[k]
          BY <3>1, <3>2, Untouched DEF IsFile
        <4> QED
          BY <1>2, <4>2 DEF Copy
      <3>4. Halfway(b, tree', D, D, s)
        BY <1>0, <2>1, <3>2, SameMove
      <3>5. Moves(b, tree', s)
        BY <2>1, <3>2, <3>4 DEF Moves, Same
      <3> QED
        BY <2>1, <3>1, <3>3, <3>5, SameMove DEF b, k
    <2>4. Advances(p, s)
      BY <1>0, <2>1, <2>3, MoveAdvances
    <2> QED
      BY <1>0, <2>1, <2>2, <2>4, LoneMoves
  <1>3. CASE Skip(p, r)
    BY <1>0, <1>3, SkipLone
  <1>4. \/ IsMarker(k) /\ Goto(p, [r EXCEPT !.at = IF k = Marker(r.name) THEN "remove" ELSE "place", !.taken = Dir])
        \/ ~IsMarker(k) /\ IsFile(tree, k) /\ Goto(p, [r EXCEPT !.at = "place", !.taken = tree[k]])
        \/ Skip(p, r)
    BY DEF Take
  <1>5. ASSUME IsMarker(k), k # Marker(r.name), Goto(p, [r EXCEPT !.at = "place", !.taken = Dir]) PROVE LoneInv'
    BY <1>2, <1>5
  <1>6. ASSUME ~IsMarker(k), IsFile(tree, k), Goto(p, [r EXCEPT !.at = "place", !.taken = tree[k]]) PROVE LoneInv'
    BY <1>2, <1>6
  <1> QED
    BY <1>1, <1>3, <1>4, <1>5, <1>6

LEMMA EndTakesLone ==
  ASSUME LoneInv, Shape, NEW p \in Proc, EndTakes(p)
  PROVE  LoneInv'
  <1> DEFINE r == req[p]
             s == [r EXCEPT !.at = "prune"]
  <1>0. r \in Request /\ Busy(p) /\ before' = before /\ tree' = tree /\ r.at = "take" /\ r.todo = <<>> /\ TreeOk
    BY OfRequest DEF EndTakes, Busy
  <1>1. Goto(p, s)
    BY DEF EndTakes
  <1>2. s \in Request /\ Same(r, s) /\ s.at = "prune" /\ s.marker = r.marker /\ s.failed = r.failed
    BY <1>0 DEF Request, Ats, Same
  <1>3. TreeOk'
    BY EndTakesStep DEF Keeps, Shape
  <1> HIDE DEF s
  <1>4. ASSUME NEW t, Plain(t), Progress(t, tree, r), ~s.failed
        PROVE  LET b == Cleared(t, s) IN Apart(s) /\ Halfway(b, tree', Gone(b, s.name), Gone(b, s.name), s)
    <2> DEFINE b == Cleared(t, r)
    <2>1. Apart(r) /\ Moves(b, tree, r)
      BY <1>0, <1>2, <1>4 DEF Progress
    <2> HIDE DEF b
    <2>2. PICK D \in SUBSET Gone(b, r.name) : D \cup ToSet(r.todo) = Gone(b, r.name) /\ Halfway(b, tree, D, D, r)
      BY <1>0, <2>1 DEF Moves
    <2>3. D = Gone(b, s.name)
      BY <1>0, <1>2, <2>2, ToSetEmpty DEF Same
    <2>4. Halfway(b, tree', Gone(b, s.name), Gone(b, s.name), s) /\ Apart(s) /\ b = Cleared(t, s)
      BY <1>0, <1>2, <2>1, <2>2, <2>3, SameMove DEF b
    <2> QED
      BY <2>4
  <1>5. Advances(p, s)
    BY <1>0, <1>2, <1>3, <1>4, MoveDone
  <1> QED
    BY <1>0, <1>1, <1>2, <1>5, LoneMoves

LEMMA PlaceLone ==
  ASSUME LoneInv, Shape, NEW p \in Proc, Place(p)
  PROVE  LoneInv'
  <1> DEFINE r == req[p]
             k == Head(r.todo)
  <1>0. r \in Request /\ Busy(p) /\ before' = before /\ r.at = "place" /\ r.todo # <<>>
    BY OfRequest DEF Place, Busy, Proper
  <1>1. CASE Skip(p, r)
    BY <1>0, <1>1, SkipLone
  <1>2. CASE tree' = With(tree, Moved(k, r.name, r.dst), r.taken) /\ Goto(p, [r EXCEPT !.at = "remove"])
    <2> DEFINE s == [r EXCEPT !.at = "remove"]
    <2>1. Same(r, s) /\ s.at = "remove" /\ s.marker = r.marker /\ s.failed = r.failed /\ s.todo = r.todo
      BY <1>0 DEF Request, Same
    <2>2. Goto(p, s)
      BY <1>2
    <2> HIDE DEF s
    <2>3. ASSUME NEW t, Plain(t), Progress(t, tree, r), ~s.failed
          PROVE  Apart(s) /\ Moves(Cleared(t, s), tree', s)
      <3> DEFINE b == Cleared(t, r)
      <3>1. Apart(r) /\ Mover(b, r) /\ Moves(b, tree, r) /\ k \in Gone(b, r.name) /\ r.taken = Copy(b, k)
        BY <1>0, <2>1, <2>3, KeyKnows
      <3> HIDE DEF b, k
      <3>2. PICK D \in SUBSET Gone(b, r.name) : D \cup ToSet(r.todo) = Gone(b, r.name) /\ Halfway(b, tree, D, D, r)
        BY <1>0, <3>1 DEF Moves
      <3>3. tree' = With(tree, Moved(k, r.name, r.dst), Copy(b, k))
        BY <1>2, <3>1
      <3>4. Halfway(b, tree', D \cup {k}, D, r)
        BY <3>1, <3>2, <3>3, OneCopied
      <3>5. Halfway(b, tree', D \cup {Head(s.todo)}, D, s)
        BY <2>1, <3>4, SameMove DEF k
      <3>6. Moves(b, tree', s)
        BY <2>1, <3>2, <3>5 DEF Moves, Same
      <3> QED
        BY <2>1, <3>1, <3>6, SameMove DEF b
    <2>4. Advances(p, s)
      BY <1>0, <2>1, <2>3, MoveAdvances
    <2> QED
      BY <1>0, <2>1, <2>2, <2>4, LoneMoves
  <1> QED
    BY <1>1, <1>2 DEF Place

LEMMA RemoveSourceLone ==
  ASSUME LoneInv, Shape, NEW p \in Proc, RemoveSource(p)
  PROVE  LoneInv'
  <1> DEFINE r == req[p]
             k == Head(r.todo)
  <1>0. r \in Request /\ Busy(p) /\ before' = before /\ r.at = "remove" /\ r.todo # <<>>
    BY OfRequest DEF RemoveSource, Busy, Proper
  <1>1. CASE Skip(p, r)
    BY <1>0, <1>1, SkipLone
  <1>2. TreeOk'
    BY RemoveSourceStep DEF Keeps, Shape
  <1>3. ASSUME tree' = Without(tree, {k}), NEW t, Plain(t), Progress(t, tree, r), ~r.failed
        PROVE  LET b == Cleared(t, r)
               IN \E D \in SUBSET Gone(b, r.name) :
                    D \cup ToSet(Tail(r.todo)) = Gone(b, r.name) /\ Halfway(b, tree', D, D, r) /\ Apart(r)
    <2> DEFINE b == Cleared(t, r)
    <2>1. /\ Apart(r) /\ Mover(b, r) /\ Moves(b, tree, r) /\ k \in Gone(b, r.name)
          /\ ToSet(r.todo) = {k} \cup ToSet(Tail(r.todo))
      BY <1>0, <1>3, KeyKnows
    <2> HIDE DEF b, k
    <2>2. PICK D \in SUBSET Gone(b, r.name) :
            D \cup ToSet(r.todo) = Gone(b, r.name) /\ Halfway(b, tree, D \cup {k}, D, r)
      BY <1>0, <2>1 DEF Moves, k
    <2>3. Halfway(b, tree', D \cup {k}, D \cup {k}, r)
      BY <1>3, <2>1, <2>2, OneRemoved
    <2>4. D \cup {k} \in SUBSET Gone(b, r.name) /\ (D \cup {k}) \cup ToSet(Tail(r.todo)) = Gone(b, r.name)
      BY <2>1, <2>2
    <2> QED
      BY <2>1, <2>3, <2>4 DEF b
  <1>4. CASE /\ tree' = Without(tree, {k}) /\ r.todo = <<r.name>>
             /\ Goto(p, [r EXCEPT !.at = "prune", !.todo = <<>>])
    <2> DEFINE s == [r EXCEPT !.at = "prune", !.todo = <<>>]
    <2>0. <<>> \in Seq(Text) /\ Tail(r.todo) = <<>>
      BY <1>4
    <2>1. s \in Request /\ Same(r, s) /\ s.at = "prune" /\ s.marker = r.marker /\ s.failed = r.failed
      BY <1>0, <2>0 DEF Request, Ats, Same
    <2>2. Goto(p, s)
      BY <1>4
    <2> HIDE DEF s
    <2>3. ASSUME NEW t, Plain(t), Progress(t, tree, r), ~s.failed
          PROVE  LET b == Cleared(t, s) IN Apart(s) /\ Halfway(b, tree', Gone(b, s.name), Gone(b, s.name), s)
      <3> DEFINE b == Cleared(t, r)
      <3>1. PICK D \in SUBSET Gone(b, r.name) :
              D \cup ToSet(Tail(r.todo)) = Gone(b, r.name) /\ Halfway(b, tree', D, D, r) /\ Apart(r)
        BY <1>3, <1>4, <2>1, <2>3
      <3> HIDE DEF b
      <3>2. D = Gone(b, s.name)
        BY <2>0, <2>1, <3>1, ToSetEmpty DEF Same
      <3>3. Halfway(b, tree', Gone(b, s.name), Gone(b, s.name), s) /\ Apart(s) /\ b = Cleared(t, s)
        BY <2>1, <3>1, <3>2, SameMove DEF b
      <3> QED
        BY <3>3
    <2>4. Advances(p, s)
      BY <1>0, <1>2, <2>1, <2>3, MoveDone
    <2> QED
      BY <1>0, <2>1, <2>2, <2>4, LoneMoves
  <1>5. CASE tree' = Without(tree, {k}) /\ Goto(p, [r EXCEPT !.at = "take", !.todo = Tail(@)])
    <2> DEFINE s == [r EXCEPT !.at = "take", !.todo = Tail(@)]
    <2>1. Same(r, s) /\ s.at = "take" /\ s.marker = r.marker /\ s.failed = r.failed /\ s.todo = Tail(r.todo)
      BY <1>0 DEF Request, Same
    <2>2. Goto(p, s)
      BY <1>5
    <2> HIDE DEF s
    <2>3. ASSUME NEW t, Plain(t), Progress(t, tree, r), ~s.failed
          PROVE  Apart(s) /\ Moves(Cleared(t, s), tree', s)
      <3> DEFINE b == Cleared(t, r)
      <3>1. PICK D \in SUBSET Gone(b, r.name) :
              D \cup ToSet(Tail(r.todo)) = Gone(b, r.name) /\ Halfway(b, tree', D, D, r) /\ Apart(r)
        BY <1>3, <1>5, <2>1, <2>3
      <3> HIDE DEF b
      <3>2. Halfway(b, tree', D, D, s) /\ Apart(s) /\ b = Cleared(t, s)
        BY <2>1, <3>1, SameMove DEF b
      <3> QED
        BY <2>1, <3>1, <3>2 DEF Moves, Same
    <2>4. Advances(p, s)
      BY <1>0, <2>1, <2>3, MoveAdvances
    <2> QED
      BY <1>0, <2>1, <2>2, <2>4, LoneMoves
  <1> QED
    BY <1>1, <1>4, <1>5 DEF RemoveSource

-----------------------------------------------------------------------------
(* Requests that arrive alone, and the theorem. *)

LEMMA EndLone ==
  ASSUME LoneInv, Shape, NEW p \in Proc, End(p)
  PROVE  LoneInv'
  <1>1. Busy(p) /\ Goto(p, Idle) /\ before' = [before EXCEPT ![p] = {}]
    BY DEF End, Busy
  <1> QED
    BY <1>1, LoneLeaves

\* A request that nobody was busy before it takes note of the tree as it is.
LEMMA ArriveLone ==
  ASSUME LoneInv, Shape, NEW p \in Proc, NEW r, NEW names, Arrive(p, r, names), r.at # "idle",
         Plain(tree) => Progress(tree, tree, r)
  PROVE  LoneInv'
  <1>1. /\ Goto(p, r) /\ tree' = tree
        /\ before' = [q \in Proc |-> IF q = p /\ \A o \in Proc : ~Busy(o) THEN {tree} ELSE {}]
    BY DEF Arrive
  <1>2. req'[p] = r /\ \A q \in Proc \ {p} : req'[q] = req[q]
    BY <1>1 DEF Goto, Shape, RequestsOk
  <1>3. Plain(tree)
    BY DEF Shape, TreeOk, Plain
  <1>4. ASSUME NEW q \in Proc, before'[q] # {}
        PROVE  /\ Busy(q)' /\ \A o \in Proc : o # q => ~Busy(o)'
               /\ \A t \in before'[q] : Plain(t) /\ Progress(t, tree', req'[q])
    <2>1. q = p /\ (\A o \in Proc : ~Busy(o)) /\ before'[q] = {tree}
      BY <1>1, <1>4
    <2>2. Busy(q)' /\ \A o \in Proc : o # q => ~Busy(o)'
      BY <1>2, <2>1 DEF Busy
    <2> QED
      BY <1>1, <1>2, <1>3, <2>1, <2>2
  <1> QED
    BY <1>1, <1>4 DEF LoneInv

LEMMA BeginLone ==
  ASSUME LoneInv, Shape, NEW p \in Proc, Begin(p)
  PROVE  LoneInv'
  <1>1. ASSUME BeginMkcol(p) PROVE LoneInv'
    <2>1. PICK n \in Names : Arrive(p, [Idle EXCEPT !.kind = "mkcol", !.at = "mkcol", !.name = n], {n})
      BY <1>1 DEF BeginMkcol
    <2> DEFINE s == [Idle EXCEPT !.kind = "mkcol", !.at = "mkcol", !.name = n]
    <2>2. s.at = "mkcol" /\ s.kind = "mkcol" /\ s.marker = Nothing
      BY DEF Idle
    <2>3. Arrive(p, s, {n})
      BY <2>1
    <2> HIDE DEF s
    <2>4. Progress(tree, tree, s)
      BY <2>2 DEF Progress
    <2> QED
      BY <2>2, <2>3, <2>4, ArriveLone
  <1>2. ASSUME BeginPut(p) PROVE LoneInv'
    <2>1. PICK n \in Names : Arrive(p, [Idle EXCEPT !.kind = "put", !.at = "open", !.name = n], {n})
      BY <1>2 DEF BeginPut
    <2> DEFINE s == [Idle EXCEPT !.kind = "put", !.at = "open", !.name = n]
    <2>2. s.at = "open" /\ s.kind = "put" /\ s.marker = Nothing
      BY DEF Idle
    <2>3. Arrive(p, s, {n})
      BY <2>1
    <2> HIDE DEF s
    <2>4. Progress(tree, tree, s)
      BY <2>2 DEF Progress
    <2> QED
      BY <2>2, <2>3, <2>4, ArriveLone
  <1>3. ASSUME BeginDelete(p) PROVE LoneInv'
    <2>1. PICK n \in Names :
            Arrive(p, [Idle EXCEPT !.kind = "delete", !.at = "removeAll", !.name = n, !.target = n], {n})
      BY <1>3 DEF BeginDelete
    <2> DEFINE s == [Idle EXCEPT !.kind = "delete", !.at = "removeAll", !.name = n, !.target = n]
    <2>2. s.at = "removeAll" /\ s.kind = "delete" /\ s.marker = Nothing /\ s.name = n /\ s.target = n
      BY DEF Idle
    <2>3. Arrive(p, s, {n})
      BY <2>1
    <2>4. n # Nothing
      BY NameIs DEF Nothing
    <2> HIDE DEF s
    <2>5. Progress(tree, tree, s)
      BY <2>2, <2>4 DEF Progress, Clears
    <2> QED
      BY <2>2, <2>3, <2>5, ArriveLone
  <1>4. ASSUME BeginMove(p) PROVE LoneInv'
    <2>1. PICK n \in Names, d \in Names, over \in BOOLEAN :
            /\ ~IsPrefix(d, n)
            /\ Arrive(p, [Idle EXCEPT !.kind = "move", !.at = "stat", !.name = n, !.dst = d, !.over = over], {n, d})
      BY <1>4 DEF BeginMove
    <2> DEFINE s == [Idle EXCEPT !.kind = "move", !.at = "stat", !.name = n, !.dst = d, !.over = over]
    <2>2. s.at = "stat" /\ s.kind = "move" /\ s.marker = Nothing /\ s.name = n /\ s.dst = d
      BY DEF Idle
    <2>3. Arrive(p, s, {n, d})
      BY <2>1
    <2> HIDE DEF s
    <2>4. Progress(tree, tree, s)
      BY <2>1, <2>2 DEF Progress
    <2> QED
      BY <2>2, <2>3, <2>4, ArriveLone
  <1>5. ASSUME BeginS3Put(p) PROVE LoneInv'
    <2>1. PICK k \in Files : Arrive(p, [Idle EXCEPT !.kind = "s3put", !.at = "write", !.name = k], {})
      BY <1>5 DEF BeginS3Put
    <2> DEFINE s == [Idle EXCEPT !.kind = "s3put", !.at = "write", !.name = k]
    <2>2. s.at = "write" /\ s.kind = "s3put" /\ s.marker = Nothing
      BY DEF Idle
    <2>3. Arrive(p, s, {})
      BY <2>1
    <2> HIDE DEF s
    <2>4. Progress(tree, tree, s)
      BY <2>2 DEF Progress
    <2> QED
      BY <2>2, <2>3, <2>4, ArriveLone
  <1>6. ASSUME BeginBatch(p) PROVE LoneInv'
    <2>1. PICK b \in Batches :
            Arrive(p, [Idle EXCEPT !.kind = "batch", !.at = "drop", !.batch = b, !.todo = b], {})
      BY <1>6 DEF BeginBatch
    <2> DEFINE s == [Idle EXCEPT !.kind = "batch", !.at = "drop", !.batch = b, !.todo = b]
    <2>2. s.at = "drop" /\ s.kind = "batch" /\ s.marker = Nothing /\ s.batch = b /\ s.todo = b
      BY DEF Idle
    <2>3. Arrive(p, s, {})
      BY <2>1
    <2> HIDE DEF s
    <2>4. Dropped(tree, tree, ToSet(s.batch), s)
      <3>1. tree = Without(tree, {})
        <4>1. tree = [k \in DOMAIN tree |-> tree[k]]
          BY DEF Shape, TreeOk
        <4>2. Without(tree, {}) = [k \in DOMAIN tree |-> tree[k]]
          BY DEF Without
        <4> QED
          BY <4>1, <4>2
      <3>2. {} \in SUBSET ToSet(s.batch) /\ {} \cup ToSet(s.todo) = ToSet(s.batch)
        BY <2>2
      <3> QED
        BY <3>1, <3>2 DEF Dropped
    <2>5. Progress(tree, tree, s)
      BY <2>2, <2>4 DEF Progress
    <2> QED
      BY <2>2, <2>3, <2>5, ArriveLone
  <1> QED
    BY <1>1, <1>2, <1>3, <1>4, <1>5, <1>6 DEF Begin

LEMMA LoneStep ==
  ASSUME LoneInv, Shape, [Next]_davVars
  PROVE  LoneInv'
  <1>1. CASE Crash
    <2>1. before' = [p \in Proc |-> {}]
      BY <1>1 DEF Crash, Alone
    <2>2. \A p \in Proc : before'[p] = {}
      BY <2>1
    <2> QED
      BY <2>1, <2>2 DEF LoneInv
  <1>2. ASSUME NEW p \in Proc, Begin(p) PROVE LoneInv'
    BY <1>2, BeginLone
  <1>3. ASSUME NEW p \in Proc, Step(p) PROVE LoneInv'
    <2>1. CASE Mkdir(p) \/ PutMarker(p) \/ OpenFile(p) \/ Write(p)
      BY <2>1, MkdirLone, PutMarkerLone, OpenFileLone, WriteLone
    <2>2. CASE \/ RemoveAll(p) \/ DropFile(p) \/ List(p) \/ Drop(p) \/ EndDrops(p) \/ Prune(p) \/ Unmark(p)
      BY <2>2, RemoveAllLone, DropFileLone, ListLone, DropLone, EndDropsLone, PruneLone, UnmarkLone
    <2>3. CASE \/ StatDst(p) \/ Rename(p) \/ MarkDst(p) \/ Take(p) \/ EndTakes(p) \/ Place(p) \/ RemoveSource(p)
      BY <2>3, StatDstLone, RenameLone, MarkDstLone, TakeLone, EndTakesLone, PlaceLone, RemoveSourceLone
    <2>4. CASE End(p)
      BY <2>4, EndLone
    <2> QED
      BY <1>3, <2>1, <2>2, <2>3, <2>4 DEF Step
  <1>4. CASE UNCHANGED davVars
    <2>1. UNCHANGED <<tree, req, before>>
      BY <1>4 DEF davVars
    <2> QED
      BY <2>1 DEF LoneInv, Busy
  <1> QED
    BY <1>1, <1>2, <1>3, <1>4 DEF Next

\* A MKCOL, PUT, DELETE, MOVE, PutObject or batch delete that runs while no other request does
\* and that reports success has left exactly the tree it promises, whatever the tree was, however
\* many pages and keys the request went through and whichever folders it emptied
\* (webdav/filesystem.go RemoveAll, Rename and cleanupEmptyParents; README.md:296).  Unlike the
\* theorem above, this one asks nothing of the moves of other times.
THEOREM SuccessesAreWhole == DavSpec => []SuccessIsWhole
  <1>1. Init => Shape /\ LoneInv
    <2> SUFFICES ASSUME Init PROVE Shape /\ LoneInv
      OBVIOUS
    <2>1. Shape
      BY InitDav DEF DavInv
    <2>2. before = [p \in Proc |-> {}]
      BY DEF Init, Alone
    <2>3. \A p \in Proc : before[p] = {}
      BY <2>2
    <2> QED
      BY <2>1, <2>2, <2>3 DEF LoneInv
  <1>2. (Shape /\ LoneInv) /\ [Next]_davVars => (Shape /\ LoneInv)'
    BY DavStep, LoneStep DEF Keeps
  <1>3. Shape /\ LoneInv => SuccessIsWhole
    <2> SUFFICES ASSUME LoneInv, NEW p \in Proc, req[p].at = "reply", req[p].ok, NEW t \in before[p]
                 PROVE  tree = Promised(t, req[p])
      BY DEF SuccessIsWhole
    <2>1. before[p] # {}
      OBVIOUS
    <2>2. Progress(t, tree, req[p])
      BY <2>1 DEF LoneInv
    <2> QED
      BY <2>2 DEF Progress
  <1> QED
    BY <1>1, <1>2, <1>3, PTL DEF DavSpec
=============================================================================
