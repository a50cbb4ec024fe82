------------------------- MODULE ShimInstallProofs -------------------------
(***************************************************************************)
(* Proofs about ShimInstall.  About auto.sh, for every list of lines it    *)
(* can come to hold and under every fault: the applier's line stays above  *)
(* the daemon's, no hook is doubled or glued to another line, and our      *)
(* scripts keep everybody else's lines.  About the three minarch files,    *)
(* for every way a card can come, with power lost between any two effects: *)
(* games keep launching and the stock binary is kept, unless a cp can be   *)
(* cut short or the card can be full.                                      *)
(***************************************************************************)
EXTENDS ShimInstall, FiniteSetTheorems, SequenceTheorems, TLAPS

-----------------------------------------------------------------------------
(* The lines that sed or awk take, by their places.                        *)

\* How many places come before one of them, and that this tells them apart.
LEMMA BeforeIsRank ==
    ASSUME NEW n \in Nat, NEW I \in SUBSET (1..n)
    PROVE  /\ IsFiniteSet(I) /\ Cardinality(I) \in Nat
           /\ \A i \in I : Before(I, i) \in 0..Cardinality(I) - 1
           /\ \A i, k \in I : i < k => Before(I, i) < Before(I, k)
<1>1. IsFiniteSet(I) /\ Cardinality(I) \in Nat
  <2>1. IsFiniteSet(1..n)
    BY FS_Interval
  <2>2. IsFiniteSet(I)
    BY <2>1, FS_Subset
  <2> QED
    BY <2>2, FS_CardinalityType
<1>2. ASSUME NEW X \in SUBSET I
      PROVE  /\ IsFiniteSet(X)
             /\ Cardinality(X) \in Nat /\ Cardinality(X) <= Cardinality(I)
             /\ Cardinality(X) = Cardinality(I) => X = I
  BY <1>1, FS_Subset, FS_CardinalityType
<1>3. ASSUME NEW i \in I PROVE Before(I, i) \in 0..Cardinality(I) - 1
  <2> DEFINE X == {j \in I : j < i}
  <2>1. X # I /\ X \in SUBSET I
    OBVIOUS
  <2>2. /\ Cardinality(X) \in Nat /\ Cardinality(X) <= Cardinality(I)
        /\ Cardinality(X) # Cardinality(I)
    BY <2>1, <1>2
  <2> HIDE DEF X
  <2>3. Cardinality(X) \in 0..Cardinality(I) - 1
    BY <2>2, <1>1
  <2> QED
    BY <2>3 DEF X, Before
<1>4. ASSUME NEW i \in I, NEW k \in I, i < k PROVE Before(I, i) < Before(I, k)
  <2> DEFINE X == {j \in I : j < i}
             Y == {j \in I : j < k}
  <2>1. X \in SUBSET Y /\ i \in Y /\ i \notin X /\ Y \in SUBSET I /\ X \in SUBSET I
    <3>1. \A j \in I : j \in 1..n
      OBVIOUS
    <3>2. \A j \in I : j < i => j < k
      BY <1>4, <3>1
    <3>3. ~(i < i)
      BY <3>1
    <3> QED
      BY <1>4, <3>2, <3>3
  <2> HIDE DEF X, Y
  <2>2. IsFiniteSet(Y) /\ Cardinality(X) \in Nat /\ Cardinality(Y) \in Nat
    BY <2>1, <1>2
  <2>3. Cardinality(X) <= Cardinality(Y) /\ Cardinality(X) # Cardinality(Y)
    BY <2>1, <2>2, FS_Subset
  <2>4. Cardinality(X) < Cardinality(Y)
    BY <2>2, <2>3
  <2> QED
    BY <2>4 DEF X, Y, Before
<1> QED
  BY <1>1, <1>3, <1>4

\* f lists the places I in their order.
Lists(f, n, I) ==
    /\ f \in [1..n -> I]
    /\ \A i \in I : \E m \in 1..n : f[m] = i
    /\ \A l, m \in 1..n : l < m => f[l] < f[m]

\* f says where Only(a, I) has its lines from.
Chosen(f, a, I) ==
    /\ Lists(f, Cardinality(I), I)
    /\ \A m \in 1..Cardinality(I) : Only(a, I)[m] = a[f[m]]

\* Each of 1, 2, ... up to their number is the rank of one of the places.
LEMMA RankTaken ==
    ASSUME NEW n \in Nat, NEW I \in SUBSET (1..n), NEW m \in 1..Cardinality(I)
    PROVE  (CHOOSE i \in I : Before(I, i) = m - 1) \in I
           /\ Before(I, CHOOSE i \in I : Before(I, i) = m - 1) = m - 1
<1> DEFINE c == Cardinality(I)
<1>1. IsFiniteSet(I) /\ c \in Nat
  BY BeforeIsRank
<1>2. \A i \in I : Before(I, i) \in 0..c - 1
  BY BeforeIsRank
<1>3. \A i, k \in I : i < k => Before(I, i) < Before(I, k)
  BY BeforeIsRank
<1> HIDE DEF c
<1> DEFINE r == [i \in I |-> Before(I, i) + 1]
<1>4. r \in [I -> 1..c]
  BY <1>1, <1>2
<1>5. \A i, k \in I : r[i] = r[k] => i = k
  <2> SUFFICES ASSUME NEW i \in I, NEW k \in I, r[i] = r[k], i # k PROVE FALSE
    OBVIOUS
  <2>1. Before(I, i) = Before(I, k)
    BY <1>2, <1>1
  <2>2. i < k \/ k < i
    OBVIOUS
  <2> QED
    BY <2>1, <2>2, <1>2, <1>3, <1>1
<1>6. r \in Injection(I, 1..c)
  BY <1>4, <1>5 DEF Injection, IsInjective
<1>7. IsFiniteSet(1..c) /\ Cardinality(1..c) = c
  BY <1>1, FS_Interval
<1>8. r \in Surjection(I, 1..c)
  BY <1>6, <1>7, FS_Injection DEF c
<1>9. PICK i \in I : r[i] = m
  BY <1>8 DEF Surjection, c
<1>10. Before(I, i) = m - 1
  BY <1>9, <1>1, <1>2
<1> QED
  BY <1>10

\* The places can be listed, and Only takes the lines in that order.
LEMMA PlacesListed ==
    ASSUME NEW n \in Nat, NEW I \in SUBSET (1..n), NEW a
    PROVE  /\ Cardinality(I) \in Nat
           /\ DOMAIN Only(a, I) = 1..Cardinality(I)
           /\ \E f : Chosen(f, a, I)
<1> DEFINE c == Cardinality(I)
<1>1. c \in Nat
  BY BeforeIsRank
<1>2. \A i \in I : Before(I, i) \in 0..c - 1
  BY BeforeIsRank
<1>3. \A i, k \in I : i < k => Before(I, i) < Before(I, k)
  BY BeforeIsRank
<1>9. \A i, k \in I : Before(I, i) = Before(I, k) => i = k
  <2> SUFFICES ASSUME NEW i \in I, NEW k \in I, Before(I, i) = Before(I, k), i # k
               PROVE  FALSE
    OBVIOUS
  <2>1. i < k \/ k < i
    OBVIOUS
  <2> QED
    BY <2>1, <1>1, <1>2, <1>3
<1> DEFINE f == [m \in 1..c |-> CHOOSE i \in I : Before(I, i) = m - 1]
<1>4. \A m \in 1..c : f[m] \in I /\ Before(I, f[m]) = m - 1
  BY RankTaken
<1> HIDE DEF c
<1>5. f \in [1..c -> I]
  BY <1>4
<1>6. \A i \in I : \E m \in 1..c : f[m] = i
  <2> TAKE i \in I
  <2> DEFINE m == Before(I, i) + 1
  <2>1. m \in 1..c /\ m - 1 = Before(I, i)
    BY <1>1, <1>2
  <2> HIDE DEF f
  <2>2. f[m] \in I /\ Before(I, f[m]) = Before(I, i)
    BY <2>1, <1>4
  <2> QED
    BY <2>1, <2>2, <1>9
<1>7. \A l, m \in 1..c : l < m => f[l] < f[m]
  <2> SUFFICES ASSUME NEW l \in 1..c, NEW m \in 1..c, l < m, ~(f[l] < f[m]) PROVE FALSE
    OBVIOUS
  <2> HIDE DEF f
  <2>1. f[l] \in 1..n /\ f[m] \in 1..n
    BY <1>4
  <2>2. f[m] < f[l] \/ f[m] = f[l]
    BY <2>1
  <2>3. Before(I, f[m]) < Before(I, f[l]) \/ Before(I, f[m]) = Before(I, f[l])
    BY <2>2, <1>4, <1>3
  <2> QED
    BY <2>3, <1>4, <1>1
<1>8. DOMAIN Only(a, I) = 1..c /\ \A m \in 1..c : Only(a, I)[m] = a[f[m]]
  BY DEF Only, c
<1> HIDE DEF f
<1> QED
  BY <1>1, <1>5, <1>6, <1>7, <1>8 DEF Lists, Chosen, c

\* There is one such list.
LEMMA ListedOnly ==
    ASSUME NEW n \in Nat, NEW I \in SUBSET (1..n), NEW a,
           NEW c \in Nat, NEW f, Lists(f, c, I)
    PROVE  Cardinality(I) = c /\ Chosen(f, a, I)
<1>1. /\ f \in [1..c -> I]
      /\ \A i \in I : \E m \in 1..c : f[m] = i
      /\ \A l, m \in 1..c : l < m => f[l] < f[m]
  BY DEF Lists
<1>2. \A l, m \in 1..c : f[l] < f[m] => l < m
  <2> SUFFICES ASSUME NEW l \in 1..c, NEW m \in 1..c, f[l] < f[m], ~(l < m) PROVE FALSE
    OBVIOUS
  <2>1. m < l \/ m = l
    OBVIOUS
  <2>2. f[l] \in 1..n /\ f[m] \in 1..n
    BY <1>1
  <2>3. f[m] < f[l] \/ f[m] = f[l]
    BY <1>1, <2>1
  <2> QED
    BY <2>2, <2>3
<1>3. \A l, m \in 1..c : f[l] = f[m] => l = m
  <2> SUFFICES ASSUME NEW l \in 1..c, NEW m \in 1..c, f[l] = f[m], l # m PROVE FALSE
    OBVIOUS
  <2>1. f[l] \in 1..n /\ f[m] \in 1..n
    BY <1>1
  <2>2. m < l \/ l < m
    OBVIOUS
  <2> QED
    BY <2>1, <2>2, <1>1
<1>4. ASSUME NEW k \in 0..c PROVE Cardinality({f[m] : m \in 1..k}) = k
  <2> DEFINE g == [m \in 1..k |-> f[m]]
             X == {f[m] : m \in 1..k}
  <2>1. g \in Injection(1..k, X)
    BY <1>1, <1>3 DEF Injection, IsInjective
  <2>2. g \in Surjection(1..k, X)
    BY <1>1 DEF Surjection
  <2>3. ExistsBijection(1..k, X)
    BY <2>1, <2>2 DEF Bijection, ExistsBijection
  <2> HIDE DEF X
  <2>4. Cardinality(X) = k
    BY <2>3, FS_CountingElements
  <2> QED
    BY <2>4 DEF X
<1>5. Cardinality(I) = c
  <2>1. I = {f[m] : m \in 1..c}
    BY <1>1
  <2> QED
    BY <2>1, <1>4
<1>6. ASSUME NEW m \in 1..c PROVE Before(I, f[m]) = m - 1
  <2>1. {j \in I : j < f[m]} = {f[l] : l \in 1..m - 1}
    <3>1. ASSUME NEW j \in I, j < f[m] PROVE j \in {f[l] : l \in 1..m - 1}
      <4>1. PICK l \in 1..c : f[l] = j
        BY <1>1
      <4>2. l < m
        BY <4>1, <3>1, <1>2
      <4> QED
        BY <4>1, <4>2
    <3>2. ASSUME NEW l \in 1..m - 1 PROVE f[l] \in I /\ f[l] < f[m]
      BY <1>1
    <3> QED
      BY <3>1, <3>2
  <2>2. m - 1 \in 0..c
    OBVIOUS
  <2> QED
    BY <2>1, <2>2, <1>4 DEF Before
<1>7. ASSUME NEW m \in 1..c PROVE (CHOOSE i \in I : Before(I, i) = m - 1) = f[m]
  <2>1. f[m] \in I /\ Before(I, f[m]) = m - 1
    BY <1>1, <1>6
  <2>2. ASSUME NEW i \in I, Before(I, i) = m - 1 PROVE i = f[m]
    <3>1. PICK l \in 1..c : f[l] = i
      BY <1>1
    <3>2. Before(I, i) = l - 1
      BY <3>1, <1>6
    <3>3. l = m
      BY <3>2, <2>2
    <3> QED
      BY <3>1, <3>3
  <2> QED
    BY <2>1, <2>2
<1>8. \A m \in 1..c : a[CHOOSE i \in I : Before(I, i) = m - 1] = a[f[m]]
  BY <1>7, Zenon
<1>9. Only(a, I) = [m \in 1..c |-> a[CHOOSE i \in I : Before(I, i) = m - 1]]
  BY <1>5 DEF Only
<1>10. \A m \in 1..c : Only(a, I)[m] = a[f[m]]
  BY <1>8, <1>9
<1> QED
  BY <1>5, <1>10 DEF Chosen

-----------------------------------------------------------------------------
(* Lists of lines.                                                         *)

\* What ApplierBeforeDaemon and HooksOnceAndAlone say of a list of lines.
HooksSound(a) ==
    /\ \A i, j \in DOMAIN a : "apply" \in a[i] /\ "syncd" \in a[j] => i < j
    /\ \A i, j \in DOMAIN a : \A c \in {"apply", "syncd"} :
         /\ c \in a[i] /\ c \in a[j] => i = j
         /\ c \in a[i] => a[i] = {c}

ForeignPlaces(a) == DOMAIN a \ Without(a, {"user", "wifi"})

LEMMA ForeignLine ==
    ASSUME NEW a, NEW i \in DOMAIN a
    PROVE  i \in ForeignPlaces(a) <=> "user" \in a[i] \/ "wifi" \in a[i]
BY DEF ForeignPlaces, Without

\* A place of a list and what stands there.
LEMMA LineType ==
    ASSUME NEW a \in Seq(Line)
    PROVE  /\ Len(a) \in Nat /\ DOMAIN a = 1..Len(a)
           /\ \A i \in 1..Len(a) : a[i] \in Line
           /\ ForeignPlaces(a) \in SUBSET (1..Len(a))
           /\ \A cmds : Without(a, cmds) \in SUBSET (1..Len(a))
BY DEF ForeignPlaces, Without

\* A line that is added at the end.
LEMMA LineAppended ==
    ASSUME NEW a \in Seq(Line), NEW line \in Line
    PROVE  LET b == Append(a, line)
           IN  /\ b \in Seq(Line) /\ Len(b) = Len(a) + 1
               /\ \A i \in 1..Len(a) : b[i] = a[i]
               /\ b[Len(b)] = line
               /\ b # a
OBVIOUS

LEMMA AppendForeign ==
    ASSUME NEW a \in Seq(Line), NEW line \in {{"apply"}, {"syncd"}}
    PROVE  Only(Append(a, line), ForeignPlaces(Append(a, line))) = Only(a, ForeignPlaces(a))
<1> DEFINE b == Append(a, line)
           I == ForeignPlaces(a)
<1>1. line \in Line
  BY DEF Line, Command
<1>2. /\ b \in Seq(Line) /\ Len(b) = Len(a) + 1
      /\ \A i \in 1..Len(a) : b[i] = a[i]
      /\ b[Len(b)] = line
  BY <1>1, LineAppended
<1> HIDE DEF b
<1>3. ForeignPlaces(b) = I
  <2>1. ASSUME NEW i \in 1..Len(b) PROVE i \in ForeignPlaces(b) <=> i \in I
    <3>1. CASE i = Len(b)
      BY <3>1, <1>2, ForeignLine, LineType
    <3>2. CASE i # Len(b)
      <4>1. i \in 1..Len(a)
        BY <3>2, <1>2, LineType
      <4> QED
        BY <4>1, <1>2, ForeignLine, LineType
    <3> QED
      BY <3>1, <3>2
  <2>2. I \in SUBSET (1..Len(b)) /\ ForeignPlaces(b) \in SUBSET (1..Len(b))
    BY <1>2, LineType
  <2> QED
    BY <2>1, <2>2
<1>4. \A i \in I : b[i] = a[i]
  BY <1>2, LineType
<1>5. \A m \in 1..Cardinality(I) : (CHOOSE i \in I : Before(I, i) = m - 1) \in I
  <2>1. Len(a) \in Nat /\ I \in SUBSET (1..Len(a))
    BY LineType
  <2> HIDE DEF I
  <2> QED
    BY <2>1, RankTaken
<1> HIDE DEF I
<1>6. Only(b, I) = Only(a, I)
  BY <1>4, <1>5 DEF Only
<1> QED
  BY <1>3, <1>6 DEF b, I

\* A list of which some lines are taken.
LEMMA OnlySound ==
    ASSUME NEW a \in Seq(Line), NEW I \in SUBSET (1..Len(a)), HooksSound(a)
    PROVE  Only(a, I) \in Seq(Line) /\ HooksSound(Only(a, I))
<1> DEFINE c == Cardinality(I)
           b == Only(a, I)
<1>0. PICK n \in Nat : n = Len(a)
  BY LineType
<1>9. c \in Nat /\ DOMAIN b = 1..c
  BY <1>0, PlacesListed
<1>10. PICK f : Chosen(f, a, I)
  BY <1>0, PlacesListed
<1>1. Lists(f, c, I) /\ \A m \in 1..c : b[m] = a[f[m]]
  BY <1>10 DEF Chosen
<1>2. c \in Nat /\ DOMAIN b = 1..c /\ b = [m \in 1..c |-> b[m]]
  BY <1>9 DEF Only
<1> HIDE DEF b, c
<1>3. \A m \in 1..c : f[m] \in 1..Len(a) /\ b[m] = a[f[m]] /\ b[m] \in Line
  BY <1>1, LineType DEF Lists
<1>4. b \in Seq(Line) /\ DOMAIN b = 1..c
  <2>1. b \in [1..c -> Line]
    BY <1>2, <1>3
  <2> QED
    BY <2>1, <1>2
<1>5. \A l, m \in 1..c : l < m => f[l] < f[m]
  BY <1>1 DEF Lists
<1>6. ASSUME NEW i \in 1..c, NEW j \in 1..c, "apply" \in b[i], "syncd" \in b[j]
      PROVE  i < j
  <2>1. f[i] < f[j]
    BY <1>6, <1>3, LineType DEF HooksSound
  <2>2. i # j /\ ~(j < i)
    BY <2>1, <1>5, <1>3
  <2> QED
    BY <2>2, <1>2
<1>7. ASSUME NEW i \in 1..c, NEW j \in 1..c, NEW h \in {"apply", "syncd"}, h \in b[i]
      PROVE  b[i] = {h} /\ (h \in b[j] => i = j)
  <2>1. a[f[i]] = {h} /\ (h \in a[f[j]] => f[i] = f[j])
    BY <1>7, <1>3, LineType DEF HooksSound
  <2>2. f[i] = f[j] => i = j
    <3>1. f[i] = f[j] => ~(i < j) /\ ~(j < i)
      BY <1>5, <1>3
    <3> QED
      BY <3>1, <1>2
  <2> QED
    BY <2>1, <2>2, <1>3
<1> QED
  BY <1>4, <1>6, <1>7 DEF HooksSound, b

LEMMA OnlyFrom ==
    ASSUME NEW a \in Seq(Line), NEW I \in SUBSET (1..Len(a))
    PROVE  \A m \in DOMAIN Only(a, I) : \E i \in DOMAIN a : Only(a, I)[m] = a[i]
<1>1. PICK n \in Nat : n = Len(a)
  BY LineType
<1>2. DOMAIN Only(a, I) = 1..Cardinality(I)
  BY <1>1, PlacesListed
<1>3. PICK f : Chosen(f, a, I)
  BY <1>1, PlacesListed
<1> QED
  BY <1>2, <1>3, LineType DEF Chosen, Lists

\* Taking out lines that are not foreign leaves the foreign ones.
LEMMA OnlyForeign ==
    ASSUME NEW a \in Seq(Line), NEW I \in SUBSET (1..Len(a)), HooksSound(a),
           ForeignPlaces(a) \subseteq I
    PROVE  Only(Only(a, I), ForeignPlaces(Only(a, I))) = Only(a, ForeignPlaces(a))
<1> DEFINE c == Cardinality(I)
           b == Only(a, I)
           J == ForeignPlaces(b)
           d == Cardinality(J)
<1>1. PICK n \in Nat : n = Len(a)
  BY LineType
<1>2. c \in Nat /\ DOMAIN b = 1..c
  BY <1>1, PlacesListed
<1>3. PICK f : Chosen(f, a, I)
  BY <1>1, PlacesListed
<1>4. Lists(f, c, I) /\ \A m \in 1..c : b[m] = a[f[m]]
  BY <1>3 DEF Chosen
<1>5. J \in SUBSET (1..c)
  BY <1>2 DEF ForeignPlaces
<1>6. d \in Nat /\ DOMAIN Only(b, J) = 1..d
  BY <1>2, <1>5, PlacesListed
<1>7. PICK g : Chosen(g, b, J)
  BY <1>2, <1>5, PlacesListed
<1>8. Lists(g, d, J) /\ \A m \in 1..d : Only(b, J)[m] = b[g[m]]
  BY <1>7 DEF Chosen
<1>9. \A m \in 1..c : m \in J <=> f[m] \in ForeignPlaces(a)
  <2> TAKE m \in 1..c
  <2>1. m \in DOMAIN b /\ f[m] \in DOMAIN a
    BY <1>2, <1>4, LineType DEF Lists
  <2> QED
    BY <2>1, <1>4, ForeignLine
<1> HIDE DEF b, c, d, J
<1> DEFINE h == [m \in 1..d |-> f[g[m]]]
<1>10. Lists(h, d, ForeignPlaces(a))
  <2>1. \A m \in 1..d : g[m] \in 1..c /\ g[m] \in J
    BY <1>8, <1>5 DEF Lists
  <2>2. h \in [1..d -> ForeignPlaces(a)]
    BY <2>1, <1>9
  <2>3. ASSUME NEW i \in ForeignPlaces(a) PROVE \E m \in 1..d : h[m] = i
    <3>1. PICK k \in 1..c : f[k] = i
      BY <1>4 DEF Lists
    <3>2. PICK m \in 1..d : g[m] = k
      BY <3>1, <1>9, <1>8 DEF Lists
    <3> QED
      BY <3>1, <3>2
  <2>4. \A l, m \in 1..d : l < m => h[l] < h[m]
    BY <2>1, <1>4, <1>8 DEF Lists
  <2> QED
    BY <2>2, <2>3, <2>4 DEF Lists
<1>11. ForeignPlaces(a) \in SUBSET (1..n)
  BY <1>1, LineType
<1> HIDE DEF h
<1>12. Only(a, ForeignPlaces(a)) = [m \in 1..d |-> a[h[m]]]
  <2>1. d \in Nat
    BY <1>6
  <2> DEFINE P == ForeignPlaces(a)
  <2>2. P \in SUBSET (1..n) /\ Lists(h, d, P)
    BY <1>10, <1>11
  <2> HIDE DEF P
  <2>3. Cardinality(P) = d /\ Chosen(h, a, P)
    BY <2>1, <2>2, ListedOnly
  <2>4. \A m \in 1..d : Only(a, P)[m] = a[h[m]]
    BY <2>3 DEF Chosen
  <2>5. Only(a, P) = [m \in 1..d |-> Only(a, P)[m]]
    BY <2>3 DEF Only
  <2> QED
    BY <2>4, <2>5 DEF P
<1>13. \A m \in 1..d : Only(b, J)[m] = a[h[m]]
  BY <1>4, <1>5, <1>8 DEF Lists, h
<1>14. Only(b, J) = [m \in 1..d |-> Only(b, J)[m]]
  BY <1>6 DEF Only, d
<1> QED
  BY <1>12, <1>13, <1>14 DEF b, J

\* The lines without a command that no foreign line has.
LEMMA HookRemoved ==
    ASSUME NEW a \in Seq(Line), HooksSound(a)
    PROVE  LET b == Only(a, Without(a, {"syncd"}))
           IN  b \in Seq(Line) /\ HooksSound(b)
               /\ Only(b, ForeignPlaces(b)) = Only(a, ForeignPlaces(a))
<1> DEFINE I == Without(a, {"syncd"})
<1>1. I \in SUBSET (1..Len(a))
  BY LineType
<1>2. ASSUME NEW i \in ForeignPlaces(a) PROVE i \in I
  <2>1. i \in DOMAIN a /\ ("user" \in a[i] \/ "wifi" \in a[i])
    BY ForeignLine DEF ForeignPlaces
  <2>2. "syncd" \notin a[i]
    BY <2>1 DEF HooksSound
  <2> QED
    BY <2>1, <2>2 DEF Without
<1> HIDE DEF I
<1>3. ForeignPlaces(a) \subseteq I
  BY <1>2
<1>4. Only(a, I) \in Seq(Line) /\ HooksSound(Only(a, I))
  BY <1>1, OnlySound
<1>5. Only(Only(a, I), ForeignPlaces(Only(a, I))) = Only(a, ForeignPlaces(a))
  BY <1>1, <1>3, OnlyForeign
<1> QED
  BY <1>4, <1>5 DEF I

\* The last line, when it is taken, stays the last.
LEMMA OnlyLast ==
    ASSUME NEW a \in Seq(Line), NEW I \in SUBSET (1..Len(a)), Len(a) \in I
    PROVE  Only(a, I) # <<>> /\ Last(Only(a, I)) = Last(a)
<1> DEFINE c == Cardinality(I)
           b == Only(a, I)
<1>1. PICK n \in Nat : n = Len(a)
  BY LineType
<1>2. c \in Nat /\ DOMAIN b = 1..c
  BY <1>1, PlacesListed
<1>3. PICK f : Chosen(f, a, I)
  BY <1>1, PlacesListed
<1>4. Lists(f, c, I) /\ \A m \in 1..c : b[m] = a[f[m]]
  BY <1>3 DEF Chosen
<1> HIDE DEF b, c
<1>5. PICK m \in 1..c : f[m] = n
  BY <1>1, <1>4 DEF Lists
<1>6. m = c
  <2>1. c \in 1..c /\ I \in SUBSET (1..n)
    BY <1>1, <1>2, <1>5
  <2>4. f[c] \in 1..n
    BY <2>1, <1>4 DEF Lists
  <2>2. m < c => f[m] < f[c]
    BY <1>2, <1>4, <1>5 DEF Lists
  <2>3. ~(m < c)
    BY <2>2, <2>4, <1>5
  <2> QED
    BY <2>3, <1>2
<1>7. b # <<>> /\ Len(b) = c
  BY <1>2, <1>5
<1> QED
  BY <1>1, <1>4, <1>5, <1>6, <1>7 DEF b, Last

-----------------------------------------------------------------------------

LEMMA LineInserted ==
    ASSUME NEW a \in Seq(Line), NEW k \in 1..Len(a), NEW line \in Line
    PROVE  LET b == InsertAt(a, k, line)
           IN  /\ b \in Seq(Line) /\ Len(b) = Len(a) + 1
               /\ \A i \in 1..Len(b) :
                    b[i] = IF i < k THEN a[i] ELSE IF i = k THEN line ELSE a[i - 1]
<1> DEFINE s == SubSeq(a, 1, k - 1)
           t == SubSeq(a, k, Len(a))
<1>1. /\ s \in Seq(Line) /\ Len(s) = k - 1
      /\ \A i \in 1..k - 1 : s[i] = a[i]
  <2>1. \A i \in 1..k - 1 : a[i] \in Line
    BY LineType
  <2> QED
    BY <2>1, LineType, SubSeqProperties
<1>2. /\ t \in Seq(Line) /\ Len(t) = Len(a) - k + 1
      /\ \A i \in 1..Len(a) - k + 1 : t[i] = a[k + i - 1]
  <2>1. \A i \in k..Len(a) : a[i] \in Line
    BY LineType
  <2> QED
    BY <2>1, LineType, SubSeqProperties
<1> HIDE DEF s, t
<1>3. /\ s \o <<line>> \in Seq(Line) /\ Len(s \o <<line>>) = k
      /\ \A i \in 1..k : (s \o <<line>>)[i] = IF i < k THEN a[i] ELSE line
  BY <1>1
<1>4. InsertAt(a, k, line) = (s \o <<line>>) \o t
  BY DEF InsertAt, s, t
<1> DEFINE u == s \o <<line>>
<1> HIDE DEF u
<1>5. /\ u \o t \in Seq(Line) /\ Len(u \o t) = k + Len(t)
      /\ \A i \in 1..k + Len(t) : (u \o t)[i] = IF i <= k THEN u[i] ELSE t[i - k]
  <2>1. /\ u \in Seq(Line) /\ Len(u) = k
    BY <1>3 DEF u
  <2> QED
    BY <2>1, <1>2, ConcatProperties
<1>6. k + Len(t) = Len(a) + 1
  BY <1>2, LineType
<1>7. ASSUME NEW i \in 1..Len(a) + 1
      PROVE  (u \o t)[i] = IF i < k THEN a[i] ELSE IF i = k THEN line ELSE a[i - 1]
  <2>1. CASE i <= k
    BY <2>1, <1>3, <1>5, <1>6 DEF u
  <2>2. CASE i > k
    <3>1. i - k \in 1..Len(a) - k + 1 /\ k + (i - k) - 1 = i - 1
      BY <2>2, LineType
    <3>2. t[i - k] = a[i - 1]
      BY <3>1, <1>2
    <3> QED
      BY <2>2, <3>2, <1>5, <1>6
  <2>3. i <= k \/ i > k
    <3>1. Len(a) \in Nat
      OBVIOUS
    <3> QED
      BY <3>1
  <2> QED
    BY <2>1, <2>2, <2>3, Zenon
<1> QED
  BY <1>4, <1>5, <1>6, <1>7 DEF u

LEMMA InsertForeign ==
    ASSUME NEW a \in Seq(Line), NEW k \in 1..Len(a), NEW line \in {{"apply"}, {"syncd"}}
    PROVE  LET b == InsertAt(a, k, line)
           IN  Only(b, ForeignPlaces(b)) = Only(a, ForeignPlaces(a))
<1> DEFINE b == InsertAt(a, k, line)
           I == ForeignPlaces(a)
           J == ForeignPlaces(b)
           c == Cardinality(I)
<1>1. line \in Line
  BY DEF Line, Command
<1>2. /\ b \in Seq(Line) /\ Len(b) = Len(a) + 1
      /\ \A i \in 1..Len(b) :
           b[i] = IF i < k THEN a[i] ELSE IF i = k THEN line ELSE a[i - 1]
  BY <1>1, LineInserted
<1>3. PICK n \in Nat : n = Len(a)
  BY LineType
<1>4. I \in SUBSET (1..n)
  BY <1>3, LineType
<1>5. J \in SUBSET (1..n + 1)
  <2> HIDE DEF b
  <2> QED
    BY <1>2, <1>3, LineType
<1>6. \A i \in 1..n + 1 :
        i \in J <=> (i < k /\ i \in I) \/ (i > k /\ i - 1 \in I)
  <2> TAKE i \in 1..n + 1
  <2> HIDE DEF b
  <2>1. i \in DOMAIN b /\ b[i] \in Line
    BY <1>2, <1>3, LineType
  <2>2. i \in J <=> "user" \in b[i] \/ "wifi" \in b[i]
    BY <2>1, ForeignLine
  <2>3. CASE i < k
    <3>1. i \in DOMAIN a /\ b[i] = a[i]
      BY <2>3, <1>2, <1>3, LineType
    <3>2. i \in I <=> "user" \in a[i] \/ "wifi" \in a[i]
      BY <3>1, ForeignLine
    <3> QED
      BY <2>2, <2>3, <3>1, <3>2
  <2>4. CASE i = k
    BY <1>2, <1>3, <2>2, <2>4
  <2>5. CASE i > k
    <3>1. i - 1 \in DOMAIN a /\ b[i] = a[i - 1]
      BY <2>5, <1>2, <1>3, LineType
    <3>2. i - 1 \in I <=> "user" \in a[i - 1] \/ "wifi" \in a[i - 1]
      BY <3>1, ForeignLine
    <3> QED
      BY <2>2, <2>5, <3>1, <3>2
  <2> QED
    BY <2>3, <2>4, <2>5, <1>3
<1>7. c \in Nat /\ DOMAIN Only(a, I) = 1..c
  <2> HIDE DEF I
  <2> QED
    BY <1>4, PlacesListed
<1>8. PICK f : Chosen(f, a, I)
  <2> HIDE DEF I
  <2> QED
    BY <1>4, PlacesListed
<1>9. Lists(f, c, I) /\ \A m \in 1..c : Only(a, I)[m] = a[f[m]]
  BY <1>8 DEF Chosen
<1> HIDE DEF b, I, J, c
<1> DEFINE h == [m \in 1..c |-> IF f[m] < k THEN f[m] ELSE f[m] + 1]
<1>10. \A m \in 1..c : f[m] \in 1..n /\ f[m] \in I
  BY <1>4, <1>9 DEF Lists
<1>11. Lists(h, c, J)
  <2>1. ASSUME NEW m \in 1..c PROVE h[m] \in J
    <3>1. CASE f[m] < k
      <4>1. h[m] = f[m] /\ h[m] \in 1..n + 1
        BY <3>1, <1>10
      <4> QED
        BY <3>1, <4>1, <1>6, <1>10
    <3>2. CASE ~(f[m] < k)
      <4>1. h[m] = f[m] + 1 /\ h[m] \in 1..n + 1 /\ h[m] > k /\ h[m] - 1 = f[m]
        BY <3>2, <1>10, <1>3
      <4> HIDE DEF h
      <4>2. h[m] - 1 \in I
        BY <4>1, <1>10
      <4> QED
        BY <4>1, <4>2, <1>6
    <3> QED
      BY <3>1, <3>2
  <2>2. ASSUME NEW i \in J PROVE \E m \in 1..c : h[m] = i
    <3>1. i \in 1..n + 1
      BY <1>5
    <3>2. CASE i < k /\ i \in I
      <4>1. PICK m \in 1..c : f[m] = i
        BY <3>2, <1>9 DEF Lists
      <4> QED
        BY <3>2, <4>1
    <3>3. CASE i > k /\ i - 1 \in I
      <4>1. PICK m \in 1..c : f[m] = i - 1
        BY <3>3, <1>9 DEF Lists
      <4>2. ~(f[m] < k)
        BY <3>1, <3>3, <4>1, <1>3
      <4>3. h[m] = i
        BY <3>1, <4>1, <4>2
      <4> QED
        BY <4>3
    <3> QED
      BY <3>1, <3>2, <3>3, <1>6
  <2>3. ASSUME NEW l \in 1..c, NEW m \in 1..c, l < m PROVE h[l] < h[m]
    <3>1. f[l] < f[m]
      BY <2>3, <1>9 DEF Lists
    <3> QED
      BY <3>1, <1>10, <1>3
  <2>4. h \in [1..c -> J]
    BY <2>1
  <2> HIDE DEF h
  <2> QED
    BY <2>2, <2>3, <2>4 DEF Lists
<1>12. \A m \in 1..c : b[h[m]] = a[f[m]]
  BY <1>2, <1>3, <1>10
<1> HIDE DEF h
<1>13. Cardinality(J) = c /\ Chosen(h, b, J)
  <2>1. n + 1 \in Nat
    OBVIOUS
  <2> QED
    BY <2>1, <1>5, <1>7, <1>11, ListedOnly
<1>14. \A m \in 1..c : Only(b, J)[m] = Only(a, I)[m]
  BY <1>9, <1>12, <1>13 DEF Chosen
<1>15. /\ Only(b, J) = [m \in 1..c |-> Only(b, J)[m]]
       /\ Only(a, I) = [m \in 1..c |-> Only(a, I)[m]]
  BY <1>13 DEF Only, c
<1>16. Only(b, J) = Only(a, I)
  BY <1>14, <1>15
<1> QED
  BY <1>16 DEF b, I, J

\* The applier's line above the daemon's.
LEMMA AboveSound ==
    ASSUME NEW a \in Seq(Line), HooksSound(a), a # NoFile,
           Has(a, "syncd"), ~Has(a, "apply")
    PROVE  LET b == Above(a, {"apply"})
           IN  /\ b \in Seq(Line) /\ HooksSound(b) /\ b # a
               /\ Only(b, ForeignPlaces(b)) = Only(a, ForeignPlaces(a))
<1>1. PICK k \in DOMAIN a : "syncd" \in a[k]
  BY DEF Has
<1>2. k \in 1..Len(a) /\ Len(a) \in Nat
  BY LineType
<1>3. \A j \in DOMAIN a : "syncd" \in a[j] => j = k
  BY <1>1 DEF HooksSound
<1>4. (CHOOSE i \in DOMAIN a : "syncd" \in a[i] /\ \A j \in 1..i - 1 : "syncd" \notin a[j]) = k
  <2>1. \A j \in 1..k - 1 : "syncd" \notin a[j]
    BY <1>2, <1>3, LineType
  <2> QED
    BY <1>1, <1>3, <2>1
<1> DEFINE b == InsertAt(a, k, {"apply"})
<1>5. Above(a, {"apply"}) = b
  BY <1>4 DEF Above
<1>6. {"apply"} \in Line
  BY DEF Line, Command
<1>7. /\ b \in Seq(Line) /\ Len(b) = Len(a) + 1
      /\ \A i \in 1..Len(b) :
           b[i] = IF i < k THEN a[i] ELSE IF i = k THEN {"apply"} ELSE a[i - 1]
  BY <1>2, <1>6, LineInserted
<1>8. Only(b, ForeignPlaces(b)) = Only(a, ForeignPlaces(a))
  BY <1>2, InsertForeign
<1> HIDE DEF b
<1>9. \A i \in 1..Len(a) : "apply" \notin a[i]
  BY LineType DEF Has
<1>10. \A i \in 1..Len(b) : "apply" \in b[i] <=> i = k
  BY <1>2, <1>7, <1>9
<1>11. \A i \in 1..Len(b) : "syncd" \in b[i] <=> i = k + 1
  <2> TAKE i \in 1..Len(b)
  <2>1. CASE i < k
    BY <2>1, <1>2, <1>3, <1>7, LineType
  <2>2. CASE i = k
    BY <2>2, <1>2, <1>7
  <2>3. CASE i > k
    <3>1. i - 1 \in DOMAIN a /\ b[i] = a[i - 1]
      BY <2>3, <1>2, <1>7, LineType
    <3> QED
      BY <3>1, <1>1, <1>2, <1>3, <1>7
  <2> QED
    BY <2>1, <2>2, <2>3, <1>2, <1>7
<1>12. b[k] = {"apply"} /\ b[k + 1] = {"syncd"}
  <2>1. a[k] = {"syncd"}
    BY <1>1 DEF HooksSound
  <2> QED
    BY <2>1, <1>2, <1>7
<1>13. HooksSound(b)
  <2>1. DOMAIN b = 1..Len(b)
    BY <1>7, LineType
  <2> QED
    BY <2>1, <1>2, <1>7, <1>10, <1>11, <1>12 DEF HooksSound
<1>14. b # a
  BY <1>2, <1>7
<1> QED
  BY <1>5, <1>7, <1>8, <1>13, <1>14

\* A hook appended where there is none of its kind.
LEMMA AppendSound ==
    ASSUME NEW a \in Seq(Line), HooksSound(a), NEW h \in {"apply", "syncd"},
           \A i \in DOMAIN a : h \notin a[i],
           h = "apply" => \A i \in DOMAIN a : "syncd" \notin a[i]
    PROVE  LET b == Append(a, {h})
           IN  /\ b \in Seq(Line) /\ HooksSound(b) /\ b # a
               /\ Only(b, ForeignPlaces(b)) = Only(a, ForeignPlaces(a))
<1> DEFINE b == Append(a, {h})
<1>1. {h} \in Line
  BY DEF Line, Command
<1>2. /\ b \in Seq(Line) /\ Len(b) = Len(a) + 1 /\ b # a
      /\ \A i \in 1..Len(a) : b[i] = a[i]
      /\ b[Len(b)] = {h}
  BY <1>1, LineAppended
<1>3. Only(b, ForeignPlaces(b)) = Only(a, ForeignPlaces(a))
  BY AppendForeign
<1> HIDE DEF b
<1>4. \A i \in 1..Len(b) : (i \in DOMAIN a /\ b[i] = a[i]) \/ (i = Len(b) /\ b[i] = {h})
  BY <1>2, LineType
<1>5. DOMAIN b = 1..Len(b) /\ DOMAIN a = 1..Len(b) - 1 /\ Len(b) \in Nat
  BY <1>2, LineType
<1>6. ASSUME NEW i \in 1..Len(b), NEW j \in 1..Len(b), "apply" \in b[i], "syncd" \in b[j]
      PROVE  i < j
  <2>1. CASE i \in DOMAIN a /\ b[i] = a[i] /\ j \in DOMAIN a /\ b[j] = a[j]
    BY <2>1, <1>6 DEF HooksSound
  <2>2. CASE i = Len(b) /\ b[i] = {h}
    BY <2>2, <1>4, <1>6
  <2>3. CASE i \in DOMAIN a /\ j = Len(b)
    BY <2>3, <1>5
  <2> QED
    BY <2>1, <2>2, <2>3, <1>4
<1>7. ASSUME NEW i \in 1..Len(b), NEW j \in 1..Len(b),
             NEW g \in {"apply", "syncd"}, g \in b[i]
      PROVE  (g \in b[j] => i = j) /\ b[i] = {g}
  <2>1. CASE i \in DOMAIN a /\ b[i] = a[i] /\ j \in DOMAIN a /\ b[j] = a[j]
    BY <2>1, <1>7 DEF HooksSound
  <2>2. CASE i \in DOMAIN a /\ b[i] = a[i] /\ j = Len(b) /\ b[j] = {h}
    <3>1. g # h
      BY <2>2, <1>7
    <3>2. a[i] = {g}
      BY <2>2, <1>7 DEF HooksSound
    <3> QED
      BY <2>2, <3>1, <3>2
  <2>3. CASE i = Len(b) /\ b[i] = {h}
    BY <2>3, <1>4, <1>7
  <2> QED
    BY <2>1, <2>2, <2>3, <1>4
<1>8. HooksSound(b)
  BY <1>5, <1>6, <1>7 DEF HooksSound
<1> QED
  BY <1>2, <1>3, <1>8 DEF b

\* The Wifi pak's line, on a line of its own or behind one without a hook.
LEMMA GluedSound ==
    ASSUME NEW a \in Seq(Line), HooksSound(a), ~nl /\ a # <<>> => Last(a) = {"user"}
    PROVE  Glued(a, {"wifi"}) \in Seq(Line) /\ HooksSound(Glued(a, {"wifi"}))
<1>1. {"wifi"} \in Line /\ {"user", "wifi"} \in Line
  BY DEF Line, Command
<1>2. CASE a = <<>> \/ nl
  <2> DEFINE b == Append(a, {"wifi"})
  <2>1. /\ b \in Seq(Line) /\ Len(b) = Len(a) + 1
        /\ \A i \in 1..Len(a) : b[i] = a[i]
        /\ b[Len(b)] = {"wifi"}
    BY <1>1, LineAppended
  <2>2. Glued(a, {"wifi"}) = b
    BY <1>2 DEF Glued
  <2> HIDE DEF b
  <2>3. \A i \in DOMAIN b : (i \in DOMAIN a /\ b[i] = a[i]) \/ b[i] = {"wifi"}
    BY <2>1, LineType
  <2>4. HooksSound(b)
    BY <2>3 DEF HooksSound
  <2> QED
    BY <2>1, <2>2, <2>4
<1>3. CASE ~(a = <<>> \/ nl)
  <2> DEFINE f == Front(a)
             b == f \o <<{"user", "wifi"}>>
  <2>1. Len(a) \in Nat /\ Len(a) # 0 /\ \A i \in 1..Len(a) : a[i] \in Line
    BY <1>3, LineType, EmptySeq
  <2>2. /\ f \in Seq(Line) /\ Len(f) = Len(a) - 1
        /\ \A i \in 1..Len(a) - 1 : f[i] = a[i]
    <3> DEFINE l == Len(a) - 1
    <3>1. l \in Nat /\ \A i \in 1..l : a[i] \in Line
      BY <2>1
    <3> HIDE DEF l
    <3>2. f = SubSeq(a, 1, l)
      BY DEF Front, l
    <3>3. /\ SubSeq(a, 1, l) \in Seq(Line) /\ Len(SubSeq(a, 1, l)) = l
          /\ \A i \in 1..l : SubSeq(a, 1, l)[i] = a[i]
      BY <3>1, SubSeqProperties
    <3> QED
      BY <3>2, <3>3 DEF l
  <2> HIDE DEF f
  <2>3. /\ b \in Seq(Line) /\ Len(b) = Len(a)
        /\ \A i \in 1..Len(a) - 1 : b[i] = a[i]
        /\ b[Len(a)] = {"user", "wifi"}
    BY <2>1, <2>2, <1>1
  <2>4. Last(a) \cup {"wifi"} = {"user", "wifi"}
    BY <1>3
  <2>5. Glued(a, {"wifi"}) = b
    BY <1>3, <2>4 DEF Glued, f
  <2> HIDE DEF b
  <2>6. \A i \in DOMAIN b : (i \in DOMAIN a /\ b[i] = a[i]) \/ b[i] = {"user", "wifi"}
    BY <2>1, <2>3, LineType
  <2>7. HooksSound(b)
    BY <2>6 DEF HooksSound
  <2> QED
    BY <2>3, <2>5, <2>7
<1> QED
  BY <1>2, <1>3

-----------------------------------------------------------------------------
(* auto.sh                                                                 *)

\* What ApplierBeforeDaemon and HooksOnceAndAlone need to be kept: a script
\* past the creation has a file, and only the owner's own last line can lack
\* its newline.
HookInv ==
    /\ auto = NoFile \/ auto \in Seq(Line)
    /\ nl \in BOOLEAN
    /\ HooksSound(Lines(auto))
    /\ pc \in {"syncd", "apply"} => auto # NoFile
    /\ ~nl => /\ auto # NoFile /\ auto # <<>> /\ Last(auto) = {"user"}
              /\ ~Has(auto, "wifi")

HookStep == HookInv' /\ (pc # "live" => Foreign(auto') = Foreign(auto))

LEMMA NoLines == <<>> \in Seq(Line) /\ <<>> # NoFile /\ HooksSound(<<>>)
<1>1. <<>> \in Seq(Line)
  OBVIOUS
<1>2. DOMAIN <<>> = {}
  OBVIOUS
<1>3. HooksSound(<<>>)
  BY <1>2, Zenon DEF HooksSound
<1> QED
  BY <1>1, <1>3, FileAssumption

LEMMA LinesType ==
    ASSUME HookInv
    PROVE  Lines(auto) \in Seq(Line) /\ Lines(auto) # NoFile
BY NoLines, FileAssumption DEF HookInv, Lines

LEMMA ForeignIsOnly == \A a : Foreign(a) = Only(Lines(a), ForeignPlaces(Lines(a)))
BY DEF Foreign, ForeignPlaces

LEMMA InitHookInv == Init => HookInv
<1> SUFFICES ASSUME Init PROVE HookInv
  OBVIOUS
<1>1. PICK kind \in Kinds : auto \in Scripts(kind)
  BY DEF Init
<1>2. \/ auto = NoFile
      \/ auto \in {<<{"user"}>>, <<{"syncd"}, {"user"}>>, <<{"user"}, {"syncd"}>>,
                  <<{"apply"}, {"syncd"}>>}
  BY <1>1 DEF Scripts
<1>3. {"user"} \in Line /\ {"apply"} \in Line /\ {"syncd"} \in Line
  BY DEF Line, Command
<1>4. nl \in BOOLEAN /\ (~nl => ~(auto = NoFile \/ Last(auto) # {"user"}))
  BY DEF Init
<1>5. CASE auto = NoFile
  BY <1>4, <1>5, NoLines DEF Init, HookInv, Lines
<1>6. CASE auto = <<{"user"}>>
  <2>1. auto \in Seq(Line)
    BY <1>3, <1>6
  <2>2. HooksSound(auto) /\ auto # <<>> /\ ~Has(auto, "wifi")
    BY <1>6 DEF HooksSound, Has
  <2> QED
    BY <1>4, <2>1, <2>2, FileAssumption DEF Init, HookInv, Lines
<1>7. CASE auto = <<{"syncd"}, {"user"}>>
  <2>1. auto \in Seq(Line)
    BY <1>3, <1>7
  <2>2. HooksSound(auto) /\ auto # <<>> /\ ~Has(auto, "wifi")
    BY <1>7 DEF HooksSound, Has
  <2> QED
    BY <1>4, <2>1, <2>2, FileAssumption DEF Init, HookInv, Lines
<1>8. CASE auto = <<{"user"}, {"syncd"}>>
  <2>1. auto \in Seq(Line)
    BY <1>3, <1>8
  <2>2. HooksSound(auto) /\ auto # <<>> /\ ~Has(auto, "wifi")
    BY <1>8 DEF HooksSound, Has
  <2> QED
    BY <1>4, <2>1, <2>2, FileAssumption DEF Init, HookInv, Lines
<1>9. CASE auto = <<{"apply"}, {"syncd"}>>
  <2>1. auto \in Seq(Line)
    BY <1>3, <1>9
  <2>2. HooksSound(auto) /\ auto # <<>> /\ ~Has(auto, "wifi")
    BY <1>9 DEF HooksSound, Has
  <2> QED
    BY <1>4, <2>1, <2>2, FileAssumption DEF Init, HookInv, Lines
<1> QED
  BY <1>2, <1>5, <1>6, <1>7, <1>8, <1>9

\* The steps that write auto.sh.
LEMMA HooksWritten ==
    ASSUME HookInv, CreateAuto \/ AddSyncd \/ AddApply \/ RemoveSyncd \/ Heal
    PROVE  HookStep
<1> DEFINE a == Lines(auto)
<1>1. a \in Seq(Line) /\ a # NoFile /\ HooksSound(a) /\ (auto # NoFile => a = auto)
  BY LinesType DEF HookInv, Lines
<1>2. nl \in BOOLEAN
  BY DEF HookInv
\* What is written is a list of lines with the foreign ones kept, and ends in a
\* newline.
<1>3. ASSUME NEW b \in Seq(Line), HooksSound(b), auto' = b,
             Only(b, ForeignPlaces(b)) = Only(a, ForeignPlaces(a)), nl' = TRUE
      PROVE  HookStep
  <2>1. b # NoFile
    BY FileAssumption
  <2>2. Lines(auto') = b
    BY <1>3, <2>1 DEF Lines
  <2>3. Foreign(auto') = Foreign(auto)
    BY <1>3, <2>2, ForeignIsOnly
  <2>4. HooksSound(Lines(auto'))
    BY <1>3, <2>2
  <2> QED
    BY <1>3, <2>1, <2>3, <2>4 DEF HookInv, HookStep
<1>4. ASSUME auto' = auto, nl' = nl, pc' \notin {"syncd", "apply"} \/ auto # NoFile
      PROVE  HookStep
  BY <1>4 DEF HookInv, HookStep, Has
<1>5. CASE CreateAuto
  <2>1. auto' = a /\ nl' = (nl \/ auto = NoFile)
    BY <1>5 DEF CreateAuto
  <2>2. CASE auto = NoFile
    BY <1>1, <1>3, <2>1, <2>2
  <2>3. CASE auto # NoFile
    BY <1>1, <1>2, <1>4, <2>1, <2>3
  <2> QED
    BY <2>2, <2>3
<1>6. ASSUME NEW h \in {"apply", "syncd"}, auto' = Append(a, {h}), nl' = TRUE,
             ~Has(auto, h),
             h = "apply" => ~Has(auto, "syncd")
      PROVE  HookStep
  <2>1. \A i \in DOMAIN a : h \notin a[i] /\ (h = "apply" => "syncd" \notin a[i])
    <3>1. CASE auto = NoFile
      BY <3>1 DEF Lines
    <3>2. CASE auto # NoFile
      BY <3>2, <1>1, <1>6 DEF Has
    <3> QED
      BY <3>1, <3>2
  <2> DEFINE b == Append(a, {h})
  <2>2. /\ b \in Seq(Line) /\ HooksSound(b)
        /\ Only(b, ForeignPlaces(b)) = Only(a, ForeignPlaces(a))
    <3> HIDE DEF a
    <3> QED
      BY <1>1, <2>1, AppendSound
  <2> HIDE DEF b, a
  <2> QED
    BY <1>3, <1>6, <2>2 DEF b
<1>7. CASE AddSyncd
  <2>1. auto # NoFile /\ a = auto
    BY <1>7, <1>1 DEF AddSyncd, HookInv
  <2>2. CASE Has(auto, "syncd")
    <3>1. auto' = auto /\ nl' = nl
      BY <1>2, <1>7, <2>2 DEF AddSyncd
    <3> QED
      BY <1>4, <2>1, <3>1
  <2>3. CASE ~Has(auto, "syncd")
    <3>1. auto' = Append(a, {"syncd"})
      BY <1>7, <2>1, <2>3 DEF AddSyncd
    <3>2. auto' # auto
      BY <1>1, <2>1, <3>1
    <3>3. nl' = TRUE
      BY <1>7, <3>2 DEF AddSyncd
    <3> QED
      BY <1>6, <2>3, <3>1, <3>3
  <2> QED
    BY <2>2, <2>3
\* The applier's line, above the daemon's if it is there.
<1>8. ASSUME auto # NoFile, ~Has(auto, "apply"), nl' = (nl \/ auto' # auto) \/ nl' = TRUE,
             auto' = IF Has(auto, "syncd") THEN Above(auto, {"apply"})
                     ELSE Append(auto, {"apply"})
      PROVE  HookStep
  <2>1. a = auto
    BY <1>1, <1>8
  <2>2. CASE Has(auto, "syncd")
    <3> DEFINE b == Above(auto, {"apply"})
    <3>1. /\ b \in Seq(Line) /\ HooksSound(b) /\ b # auto
          /\ Only(b, ForeignPlaces(b)) = Only(auto, ForeignPlaces(auto))
      BY <1>1, <1>8, <2>1, <2>2, AboveSound
    <3>2. auto' = b
      BY <1>8, <2>2
    <3> HIDE DEF b
    <3>3. nl' = TRUE
      BY <1>8, <3>1, <3>2
    <3> QED
      BY <1>3, <2>1, <3>1, <3>2, <3>3
  <2>3. CASE ~Has(auto, "syncd")
    <3>1. auto' = Append(a, {"apply"}) /\ Append(a, {"apply"}) # a
      BY <1>1, <1>8, <2>1, <2>3
    <3>2. nl' = TRUE
      BY <1>8, <2>1, <3>1
    <3> QED
      BY <1>6, <1>8, <2>3, <3>1, <3>2
  <2> QED
    BY <2>2, <2>3
<1>9. CASE AddApply
  <2>1. auto # NoFile
    BY <1>9 DEF AddApply, HookInv
  <2>2. CASE Has(auto, "apply")
    <3>1. auto' = auto /\ nl' = nl
      BY <1>2, <1>9, <2>2 DEF AddApply
    <3> QED
      BY <1>4, <2>1, <3>1
  <2>3. CASE ~Has(auto, "apply")
    BY <1>8, <1>9, <2>1, <2>3 DEF AddApply
  <2> QED
    BY <2>2, <2>3
<1>10. CASE Heal
  <2>1. CASE auto = NoFile
    <3> DEFINE b == <<{"apply"}, {"syncd"}>>
    <3>1. auto' = b /\ nl' = TRUE
      BY <1>10, <2>1 DEF Heal
    <3>2. b \in Seq(Line) /\ HooksSound(b)
      <4>1. {"apply"} \in Line /\ {"syncd"} \in Line
        BY DEF Line, Command
      <4> QED
        BY <4>1 DEF HooksSound
    <3>3. ForeignPlaces(b) = {} /\ ForeignPlaces(a) = {}
      BY <2>1 DEF ForeignPlaces, Without, Lines
    <3>4. Only(b, {}) = Only(a, {})
      <4>1. Cardinality({}) = 0
        BY FS_EmptySet
      <4>2. 1..0 = {}
        OBVIOUS
      <4> QED
        BY <4>1, <4>2 DEF Only
    <3> HIDE DEF a, b
    <3> QED
      BY <1>3, <3>1, <3>2, <3>3, <3>4
  <2>2. CASE auto # NoFile
    BY <1>8, <1>10, <2>2 DEF Heal
  <2> QED
    BY <2>1, <2>2
<1>11. CASE RemoveSyncd
  <2>1. pc' = "live" /\ nl' = nl
    BY <1>11 DEF RemoveSyncd
  <2>2. CASE ~Has(auto, "syncd")
    BY <1>4, <1>11, <2>1, <2>2 DEF RemoveSyncd
  <2>3. CASE Has(auto, "syncd")
    <3> DEFINE b == Only(auto, Without(auto, {"syncd"}))
    <3>1. auto # NoFile /\ auto \in Seq(Line) /\ HooksSound(auto)
      BY <2>3, <1>1 DEF Has
    <3>2. auto' = b
      BY <1>11, <2>3 DEF RemoveSyncd
    <3>3. /\ b \in Seq(Line) /\ HooksSound(b)
          /\ Only(b, ForeignPlaces(b)) = Only(auto, ForeignPlaces(auto))
      BY <3>1, HookRemoved
    <3>4. b # NoFile
      BY <3>3, FileAssumption
    <3>5. ASSUME ~nl PROVE b # <<>> /\ Last(b) = {"user"} /\ ~Has(b, "wifi")
      <4>1. auto # <<>> /\ auto[Len(auto)] = {"user"} /\ ~Has(auto, "wifi")
        BY <3>5 DEF HookInv, Last
      <4>2. Len(auto) \in Without(auto, {"syncd"})
        BY <3>1, <4>1 DEF Without
      <4>3. b # <<>> /\ Last(b) = Last(auto)
        BY <3>1, <4>2, LineType, OnlyLast
      <4>4. Without(auto, {"syncd"}) \in SUBSET (1..Len(auto))
        BY <3>1, LineType
      <4>5. ~Has(b, "wifi")
        <5>1. \A m \in DOMAIN b : \E i \in DOMAIN auto : b[m] = auto[i]
          BY <3>1, <4>4, OnlyFrom
        <5> QED
          BY <3>1, <4>1, <5>1 DEF Has
      <4> QED
        BY <4>1, <4>3, <4>5 DEF Last
    <3> HIDE DEF b
    <3>6. Lines(auto') = b
      BY <3>2, <3>4 DEF Lines
    <3>7. HookInv'
      BY <1>2, <2>1, <3>2, <3>3, <3>4, <3>5, <3>6 DEF HookInv
    <3>8. Foreign(auto') = Foreign(auto)
      BY <3>1, <3>3, <3>6, ForeignIsOnly DEF Lines
    <3> QED
      BY <3>7, <3>8 DEF HookStep
  <2> QED
    BY <2>2, <2>3
<1> QED
  BY <1>5, <1>7, <1>9, <1>10, <1>11

\* The Wifi pak, which changes the foreign lines from the live system.
LEMMA WifiWritten ==
    ASSUME HookInv, WifiOn \/ WifiOff
    PROVE  HookStep
<1>1. pc = "live" /\ pc' = "live"
  BY DEF WifiOn, WifiOff
<1>2. Lines(auto) \in Seq(Line) /\ HooksSound(Lines(auto)) /\ nl \in BOOLEAN
  BY LinesType DEF HookInv
<1>3. ASSUME NEW b \in Seq(Line), HooksSound(b), auto' = b, nl' = TRUE PROVE HookStep
  <2>1. b # NoFile
    BY FileAssumption
  <2>2. Lines(auto') = b
    BY <1>3, <2>1 DEF Lines
  <2> QED
    BY <1>1, <1>3, <2>1, <2>2 DEF HookInv, HookStep
<1>4. CASE WifiOn
  <2>1. auto' = Glued(Lines(auto), {"wifi"}) /\ nl' = TRUE
    BY <1>4 DEF WifiOn
  <2>2. ~nl /\ Lines(auto) # <<>> => Last(Lines(auto)) = {"user"}
    BY DEF HookInv, Lines
  <2>3. /\ Glued(Lines(auto), {"wifi"}) \in Seq(Line)
        /\ HooksSound(Glued(Lines(auto), {"wifi"}))
    BY <1>2, <2>2, GluedSound
  <2> QED
    BY <1>3, <2>1, <2>3
<1>5. CASE WifiOff
  <2>1. Has(auto, "wifi") /\ auto # NoFile /\ Lines(auto) = auto
    BY <1>5 DEF WifiOff, Has, Lines
  <2>2. nl' = TRUE
    BY <1>2, <1>5, <2>1 DEF WifiOff, HookInv
  <2>3. auto' = Only(auto, Without(auto, {"wifi"}))
    BY <1>5 DEF WifiOff
  <2>4. Without(auto, {"wifi"}) \in SUBSET (1..Len(auto))
    BY <1>2, <2>1, LineType
  <2>5. auto' \in Seq(Line) /\ HooksSound(auto')
    BY <1>2, <2>1, <2>3, <2>4, OnlySound
  <2> QED
    BY <1>3, <2>2, <2>5
<1> QED
  BY <1>4, <1>5

LEMMA NextHookStep == ASSUME HookInv, [Next]_vars PROVE HookStep
<1>1. ASSUME UNCHANGED hooks, pc' \notin {"syncd", "apply"} \/ pc' = pc PROVE HookStep
  BY <1>1 DEF HookInv, HookStep, hooks, Has
<1>2. CASE CreateAuto \/ AddSyncd \/ AddApply \/ RemoveSyncd \/ Heal
  BY <1>2, HooksWritten
<1>3. CASE WifiOn \/ WifiOff
  BY <1>3, WifiWritten
<1>4. CASE UNCHANGED vars
  BY <1>1, <1>4 DEF vars, hooks
<1>5. CASE Refuse \/ KeepReal \/ SaveReal \/ SaveBak \/ SwapShim \/ HookFails
  BY <1>1, <1>5 DEF Refuse, KeepReal, SaveReal, SaveBak, SwapShim, HookFails, InstallExits
<1>6. CASE RestoreStock \/ HealHooked \/ HealFails \/ HandOff \/ ClearStaging
  BY <1>1, <1>6 DEF RestoreStock, HealHooked, HealFails, HandOff, ClearStaging, Install
<1>7. CASE RunInstall \/ RunUninstall \/ RestartDaemon \/ Stage
  BY <1>1, <1>7 DEF RunInstall, RunUninstall, RestartDaemon, Stage, Install, StartDaemon
<1>8. CASE Boot \/ PowerOff \/ TearCopy
  BY <1>1, <1>8 DEF Boot, PowerOff, TearCopy, Install, StartDaemon
<1> QED
  BY <1>2, <1>3, <1>4, <1>5, <1>6, <1>7, <1>8 DEF Next, Script, User

LEMMA HooksAlwaysSound == Spec => []HookInv
<1>1. HookInv /\ [Next]_vars => HookInv'
  BY NextHookStep DEF HookStep
<1> QED
  BY InitHookInv, <1>1, PTL DEF Spec

-----------------------------------------------------------------------------
(* The three minarch files.                                                *)

\* What the scripts write is whole, and the steps between two writes know
\* what the one before them left.
BinaryInv ==
    /\ elf \in {NoFile, Stock, Shim}
    /\ {real, bak} \subseteq {NoFile, Stock}
    /\ pc = "bak"  => real = Stock /\ elf = Stock
    /\ pc = "swap" => real = Stock

\* grep tells a whole shim from everything else.
LEMMA MarkerFound ==
    ASSUME NEW c \in {NoFile, Stock, Shim}
    PROVE  /\ TRUE \in Marked(c) <=> c = Shim
           /\ FALSE \in Marked(c) <=> c # Shim
BY ContentAssumption, Zenon DEF Marked

LEMMA CopyIsWhole ==
    ASSUME "full" \notin Faults, NEW c
    PROVE  Copied(c) = {c}
BY DEF Copied

LEMMA InitBinaryInv == Init => BinaryInv
<1> SUFFICES ASSUME Init PROVE BinaryInv
  OBVIOUS
<1>1. PICK kind \in Kinds : \E c \in Card(kind) :
        elf = c[1] /\ real = c[2] /\ bak = c[3]
  BY DEF Init
<1>2. kind \in {"stock", "built", "partial", "lost"}
  BY KindsAssumption
<1>3. elf \in {NoFile, Stock, Shim} /\ {real, bak} \subseteq {NoFile, Stock}
  BY <1>1, <1>2 DEF Card
<1> QED
  BY <1>3 DEF Init, BinaryInv

\* The invariant is kept, and so are both properties, by every step.
BinaryStep ==
    /\ BinaryInv'
    /\ Launches => Launches'
    /\ StockOnCard => StockOnCard'

LEMMA NextBinaryStep ==
    ASSUME "tear" \notin Faults, "full" \notin Faults, BinaryInv, [Next]_vars
    PROVE  BinaryStep
<1> USE DEF BinaryInv, BinaryStep, Launches, StockOnCard
<1>1. CASE KeepReal
  BY <1>1 DEF KeepReal, binaries
<1>2. CASE SaveReal
  BY <1>2, MarkerFound, CopyIsWhole DEF SaveReal
<1>3. CASE SaveBak
  BY <1>3, CopyIsWhole DEF SaveBak
<1>4. CASE SwapShim
  BY <1>4, CopyIsWhole DEF SwapShim
<1>5. CASE RestoreStock
  <2>1. pc' = "un_line" /\ bak' = bak
    BY <1>5 DEF RestoreStock
  <2>2. CASE elf # Shim
    BY <1>5, <2>1, <2>2, MarkerFound DEF RestoreStock
  <2>3. CASE elf = Shim
    <3>1. TRUE \in Marked(elf) /\ ~(FALSE \in Marked(elf))
      BY <2>3, MarkerFound
    <3>2. elf' \in Copied(bak) <=> elf' = bak
      BY CopyIsWhole
    <3>3. real \in {NoFile, Stock} /\ bak \in {NoFile, Stock}
      OBVIOUS
    <3>4. \/ real = Stock /\ elf' = Stock /\ real' = NoFile
          \/ real = NoFile /\ bak = Stock /\ elf' = Stock /\ real' = real
          \/ elf' = elf /\ real' = real
      BY <1>5, <3>1, <3>2, <3>3 DEF RestoreStock
    <3> QED
      BY <2>1, <2>3, <3>4, ContentAssumption
  <2> QED
    BY <2>2, <2>3
<1>6. CASE TearCopy
  BY <1>6 DEF TearCopy
\* Everything else leaves the three files alone.
<1>7. ASSUME UNCHANGED binaries, pc' \notin {"bak", "swap"} PROVE BinaryStep
  BY <1>7 DEF binaries
<1>8. ASSUME UNCHANGED vars PROVE BinaryStep
  BY <1>8 DEF vars, binaries
<1>9. CASE Refuse
  BY <1>9, <1>7 DEF Refuse, InstallExits
<1>10. CASE CreateAuto
  BY <1>10, <1>7 DEF CreateAuto
<1>11. CASE AddSyncd
  BY <1>11, <1>7 DEF AddSyncd
<1>12. CASE AddApply
  BY <1>12, <1>7 DEF AddApply, InstallExits
<1>13. CASE HookFails
  BY <1>13 DEF HookFails
<1>14. CASE RemoveSyncd
  BY <1>14, <1>7 DEF RemoveSyncd
<1>15. CASE HealHooked
  BY <1>15, <1>7 DEF HealHooked
<1>16. CASE HealFails
  BY <1>16 DEF HealFails
<1>17. CASE Heal
  BY <1>17, <1>7 DEF Heal
<1>18. CASE HandOff
  BY <1>18, <1>7 DEF HandOff, Install
<1>19. CASE ClearStaging
  BY <1>19, <1>7 DEF ClearStaging
<1>20. CASE RunInstall
  BY <1>20, <1>7 DEF RunInstall, Install
<1>21. CASE RunUninstall
  BY <1>21, <1>7 DEF RunUninstall
<1>22. CASE RestartDaemon
  BY <1>22, <1>7 DEF RestartDaemon, StartDaemon
<1>23. CASE Stage
  BY <1>23 DEF Stage, binaries
<1>24. CASE WifiOn
  BY <1>24 DEF WifiOn, binaries
<1>25. CASE WifiOff
  BY <1>25 DEF WifiOff, binaries
<1>26. CASE Boot
  BY <1>26, <1>7 DEF Boot, Install, StartDaemon
<1>27. CASE PowerOff
  BY <1>27, <1>7 DEF PowerOff
<1> QED
  BY <1>1, <1>2, <1>3, <1>4, <1>5, <1>6, <1>8, <1>9, <1>10, <1>11, <1>12,
     <1>13, <1>14, <1>15, <1>16, <1>17, <1>18, <1>19, <1>20, <1>21, <1>22,
     <1>23, <1>24, <1>25, <1>26, <1>27
  DEF Next, Script, User

-----------------------------------------------------------------------------
(* The types.                                                              *)

\* What is on a card of any kind.
LEMMA CardType ==
    ASSUME NEW kind \in Kinds, NEW c \in Card(kind)
    PROVE  {c[1], c[2], c[3]} \subseteq Content
<1>1. kind \in {"stock", "built", "partial", "lost"}
  BY KindsAssumption
<1> QED
  BY <1>1 DEF Card, Content

\* grep and cp, whatever the file holds.
LEMMA CopyType ==
    ASSUME NEW c \in Content
    PROVE  Copied(c) \subseteq Content /\ Marked(c) \subseteq BOOLEAN
BY DEF Copied, Marked, Content

LEMMA InitType == Init => TypeOK
<1> SUFFICES ASSUME Init PROVE TypeOK
  OBVIOUS
<1>1. {elf, real, bak} \subseteq Content
  BY CardType DEF Init
<1>2. (auto = NoFile \/ auto \in Seq(Line)) /\ nl \in BOOLEAN
  BY InitHookInv DEF HookInv
<1> QED
  BY <1>1, <1>2 DEF Init, TypeOK, PC

\* The lines are typed by HookInv; here the rest.
LEMMA NextType ==
    ASSUME TypeOK, HookInv', [Next]_vars
    PROVE  TypeOK'
<1>1. (auto = NoFile \/ auto \in Seq(Line))' /\ (nl \in BOOLEAN)'
  BY DEF HookInv
<1>2. elf \in Content /\ real \in Content /\ bak \in Content
      /\ pc \in PC /\ by \in {"user", "boot"} /\ staged \in BOOLEAN
  BY DEF TypeOK
<1> DEFINE Binaries == elf \in Content /\ real \in Content /\ bak \in Content
           Started  == pc \in PC /\ by \in {"user", "boot"} /\ staged \in BOOLEAN
<1>3. Binaries' /\ Started' => TypeOK'
  BY <1>1 DEF TypeOK
<1>4. UNCHANGED binaries => Binaries'
  BY <1>2 DEF binaries
<1>5. Shim \in Content /\ Torn \in Content /\ NoFile \in Content
  BY DEF Content
<1>6. CASE UNCHANGED vars
  BY <1>2, <1>3, <1>6 DEF vars, binaries
<1>7. CASE SaveReal \/ SaveBak \/ SwapShim
  BY <1>2, <1>3, <1>5, <1>7, CopyType DEF SaveReal, SaveBak, SwapShim, PC
<1>8. CASE RestoreStock
  BY <1>2, <1>3, <1>5, <1>8, CopyType DEF RestoreStock, PC
<1>9. CASE TearCopy
  BY <1>2, <1>3, <1>5, <1>9 DEF TearCopy, PC
<1>10. CASE Refuse \/ KeepReal \/ CreateAuto \/ AddSyncd \/ AddApply \/ HookFails
  <2>1. Binaries'
    BY <1>4, <1>10 DEF Refuse, KeepReal, CreateAuto, AddSyncd, AddApply, HookFails
  <2>2. Started'
    BY <1>2, <1>10
    DEF Refuse, KeepReal, CreateAuto, AddSyncd, AddApply, HookFails, InstallExits, PC
  <2> QED
    BY <1>3, <2>1, <2>2
<1>11. CASE RemoveSyncd \/ HealHooked \/ HealFails \/ Heal \/ HandOff \/ ClearStaging
  <2>1. Binaries'
    BY <1>4, <1>11 DEF RemoveSyncd, HealHooked, HealFails, Heal, HandOff, ClearStaging
  <2>2. Started'
    BY <1>2, <1>11
    DEF RemoveSyncd, HealHooked, HealFails, Heal, HandOff, ClearStaging, Install, PC
  <2> QED
    BY <1>3, <2>1, <2>2
<1>12. CASE User \/ Boot \/ PowerOff
  <2>1. Binaries'
    BY <1>4, <1>12
    DEF User, RunInstall, RunUninstall, RestartDaemon, Stage, WifiOn, WifiOff, Boot,
        PowerOff
  <2>2. Started'
    BY <1>2, <1>12
    DEF User, RunInstall, RunUninstall, RestartDaemon, Stage, WifiOn, WifiOff, Boot,
        PowerOff, Install, StartDaemon, PC
  <2> QED
    BY <1>3, <2>1, <2>2
<1> QED
  BY <1>6, <1>7, <1>8, <1>9, <1>10, <1>11, <1>12 DEF Next, Script

-----------------------------------------------------------------------------
(* The theorems.                                                           *)

\* Every variable keeps to its type; auto.sh is a list of lines, or absent.
THEOREM TypeCorrect == Spec => []TypeOK
<1>1. TypeOK /\ HookInv' /\ [Next]_vars => TypeOK'
  BY NextType
<1> QED
  BY InitType, HooksAlwaysSound, <1>1, PTL DEF Spec

\* Whatever is installed, uninstalled, healed or toggled, and wherever it is
\* cut short, the line of the applier is above the line of the daemon
\* (install.sh:59-78, bin/romm-syncd:53-74).
THEOREM ApplierRunsFirst == Spec => []ApplierBeforeDaemon
<1>1. HookInv => ApplierBeforeDaemon
  BY DEF HookInv, ApplierBeforeDaemon, HooksSound, Lines
<1> QED
  BY HooksAlwaysSound, <1>1, PTL

\* ... and neither hook is there twice, or shares its line, in spite of the
\* Wifi pak's bare `>>' (install.sh:48-58, bin/romm-syncd:61-64).
THEOREM HooksAreOnceAndAlone == Spec => []HooksOnceAndAlone
<1>1. HookInv => HooksOnceAndAlone
  BY DEF HookInv, HooksOnceAndAlone, HooksSound, Lines
<1> QED
  BY HooksAlwaysSound, <1>1, PTL

\* No script of ours changes, drops or reorders a line of somebody else's
\* (install.sh:41-78, uninstall.sh:28-31, bin/romm-syncd:53-74).
THEOREM ForeignLinesAreKept == Spec => ForeignLinesKept
<1>1. HookInv /\ [Next]_vars => [pc # "live" => Foreign(auto') = Foreign(auto)]_vars
  BY NextHookStep DEF HookStep
<1>2. HookInv /\ [Next]_vars => HookInv'
  BY NextHookStep DEF HookStep
<1> QED
  BY InitHookInv, <1>1, <1>2, PTL DEF Spec, ForeignLinesKept

\* However often installs, uninstalls and boots are cut short, a card on which
\* games start stays one (install.sh:23, "idempotent AND crash-atomic").
THEOREM GamesAlwaysLaunch ==
    ASSUME "tear" \notin Faults, "full" \notin Faults
    PROVE  Spec => GamesKeepLaunching
<1>1. BinaryInv /\ [Next]_vars => BinaryInv'
  BY NextBinaryStep DEF BinaryStep
<1>2. BinaryInv /\ [Next]_vars => [Launches => Launches']_vars
  BY NextBinaryStep DEF BinaryStep
<1> QED
  BY InitBinaryInv, <1>1, <1>2, PTL DEF Spec, GamesKeepLaunching

\* Under the same conditions a card that has the stock minarch never loses it
\* (install.sh:26-32, uninstall.sh:13-26).
THEOREM StockBinaryKept ==
    ASSUME "tear" \notin Faults, "full" \notin Faults
    PROVE  Spec => StockNeverLost
<1>1. BinaryInv /\ [Next]_vars => BinaryInv'
  BY NextBinaryStep DEF BinaryStep
<1>2. BinaryInv /\ [Next]_vars => [StockOnCard => StockOnCard']_vars
  BY NextBinaryStep DEF BinaryStep
<1> QED
  BY InitBinaryInv, <1>1, <1>2, PTL DEF Spec, StockNeverLost
=============================================================================
