-------------------------- MODULE MeanShift_proofs --------------------------
(* Proofs for the regions of the mean shift segmenter, for images of any     *)
(* size, any filtered image and any thresholds.                              *)
(*                                                                           *)
(* Connect is right because only the pixels in Fill's table, the seed aside, *)
(* may have a neighbour left to take (Open).  A closure is right because     *)
(* canonical elements never ascend: a climb ends at a root, joining two      *)
(* roots makes one class of two, and classes only ever grow along near       *)
(* regions.  Relabelling numbers the classes by rank and adds up areas.      *)
(* IInv says so of every point in every loop.                                *)
(*                                                                           *)
(* In this order: the image and Fill's neighbours; pieces; climbs; new       *)
(* labels; relabelling; and a lemma for each action.                         *)
EXTENDS MeanShift, FiniteSums

(* The image.                                                                *)
LEMMA Sizes == /\ Width \in Nat /\ Width >= 3 /\ Height \in Nat \ {0}
               /\ Size \in Nat /\ Size >= 3
<1>1. Width \in Nat /\ Width >= 3 /\ Height \in Nat /\ Height >= 1
  BY MeanShiftAssumption
<1>2. Width * Height \in Nat
  BY <1>1
<1>3. Width * Height = Width + Width * (Height - 1)
  BY <1>1
<1>4. Height - 1 \in Nat
  BY <1>1
<1>5. Width * (Height - 1) \in Nat
  BY <1>1, <1>4
<1> QED
  BY <1>1, <1>2, <1>3, <1>5 DEF Size

LEMMA PixelFacts == /\ \A v \in Pixels : v \in Nat /\ v < Size
                    /\ \A v \in Nat : v < Size => v \in Pixels
                    /\ 0 \in Pixels
                    /\ IsFiniteSet(Pixels) /\ Cardinality(Pixels) = Size
<1>1. IsFiniteSet(0 .. Size - 1) /\ Cardinality(0 .. Size - 1) = Size
  BY Sizes, FS_Interval
<1> QED
  BY <1>1, Sizes DEF Pixels

LEMMA PixelSets == ASSUME NEW A, A \subseteq Pixels
                   PROVE  IsFiniteSet(A) /\ Cardinality(A) \in Nat /\ Cardinality(A) <= Size
<1>1. IsFiniteSet(A) /\ Cardinality(A) <= Cardinality(Pixels)
  BY PixelFacts, FS_Subset
<1> QED
  BY <1>1, PixelFacts, FS_CardinalityType

(* The neighbours differ, and each has the other for a neighbour.            *)
LEMMA Offsets == /\ \A k \in 1 .. 8 : neigh[k] \in Int /\ neigh[k] # 0
                 /\ \A k, l \in 1 .. 8 : neigh[k] = neigh[l] => k = l
                 /\ \A k \in 1 .. 8 : \E l \in 1 .. 8 : neigh[l] = - neigh[k]
<1>0. Width \in Nat /\ Width >= 3
  BY Sizes
<1>1. /\ neigh[1] = 1 /\ neigh[2] = 1 - Width /\ neigh[3] = - Width /\ neigh[4] = - (1 + Width)
      /\ neigh[5] = -1 /\ neigh[6] = Width - 1 /\ neigh[7] = Width /\ neigh[8] = Width + 1
  BY DEF neigh
<1>2. \A k \in 1 .. 8 : k = 1 \/ k = 2 \/ k = 3 \/ k = 4 \/ k = 5 \/ k = 6 \/ k = 7 \/ k = 8
  OBVIOUS
<1>3. \A k \in 1 .. 8 : neigh[k] \in Int /\ neigh[k] # 0
  BY <1>0, <1>1, <1>2
<1>4. ASSUME NEW k \in 1 .. 8, NEW l \in 1 .. 8, neigh[k] = neigh[l] PROVE k = l
  BY <1>0, <1>1, <1>2, <1>4
<1>5. \A k \in 1 .. 8 : \E l \in 1 .. 8 : neigh[l] = - neigh[k]
  <2> TAKE k \in 1 .. 8
  <2>1. PICK w : w = Width
    OBVIOUS
  <2>2. w \in Int
    BY <1>0, <2>1
  <2>3. CASE k \in {1, 5}
    BY <1>1, <2>3
  <2>4. CASE k \in {2, 6}
    <3>1. neigh[2] = 1 - w /\ neigh[6] = w - 1 /\ 2 \in 1 .. 8 /\ 6 \in 1 .. 8
      BY <1>1, <2>1
    <3>2. 1 - w = - (w - 1) /\ w - 1 = - (1 - w)
      BY <2>2
    <3> QED
      BY <2>4, <3>1, <3>2
  <2>5. CASE k \in {3, 7}
    <3>1. neigh[3] = - w /\ neigh[7] = w /\ 3 \in 1 .. 8 /\ 7 \in 1 .. 8
      BY <1>1, <2>1
    <3>2. w = - (- w)
      BY <2>2
    <3> QED
      BY <2>5, <3>1, <3>2
  <2>6. CASE k \in {4, 8}
    <3>1. neigh[4] = - (1 + w) /\ neigh[8] = w + 1 /\ 4 \in 1 .. 8 /\ 8 \in 1 .. 8
      BY <1>1, <2>1
    <3>2. - (1 + w) = - (w + 1) /\ w + 1 = - (- (1 + w))
      BY <2>2
    <3> QED
      BY <2>6, <3>1, <3>2
  <2> QED
    BY <1>2, <2>3, <2>4, <2>5, <2>6
<1> QED
  BY <1>3, <1>4, <1>5

LEMMA AdjacentBack ==
  ASSUME NEW u \in Pixels, NEW v \in Pixels, Adjacent(u, v)
  PROVE  Adjacent(v, u) /\ u # v
<1>1. PICK k \in 1 .. 8 : v = u + neigh[k]
  BY DEF Adjacent
<1>2. PICK l \in 1 .. 8 : neigh[l] = - neigh[k]
  BY Offsets
<1>3. neigh[k] \in Int /\ neigh[k] # 0 /\ u \in Int
  BY Offsets, PixelFacts
<1>4. PICK n : n = neigh[k]
  OBVIOUS
<1>5. u = v + neigh[l] /\ u # v
  BY <1>1, <1>2, <1>3, <1>4
<1> QED
  BY <1>5 DEF Adjacent

LEMMA AlikeBack == ASSUME luv \in Images, NEW u \in Pixels, NEW v \in Pixels
                   PROVE  Alike(u, v) <=> Alike(v, u)
<1>1. luv[u] \in Nat /\ luv[v] \in Nat
  BY MeanShiftAssumption
<1>2. PICK a, b : a = luv[u] /\ b = luv[v]
  OBVIOUS
<1>3. Distance(a, b) = Distance(b, a)
  BY <1>1, <1>2 DEF Distance
<1> QED
  BY <1>2, <1>3 DEF Alike

(* Pixels beside one another are adjacent.                                   *)
LEMMA BesideAdjacent == ASSUME NEW u \in Pixels, NEW v \in Pixels, Beside(u, v)
                        PROVE  Adjacent(u, v)
<1>1. v = u + neigh[1] \/ v = u + neigh[7]
  BY DEF Beside, neigh
<1> QED
  BY <1>1 DEF Adjacent

-----------------------------------------------------------------------------
(* The loop of Fill over the neighbours.                                     *)
FoundStep(v, g, k) ==
  IF k = 0 THEN <<>>
  ELSE IF Takes(v, v + neigh[k]) THEN Append(g[k - 1], v + neigh[k])
  ELSE g[k - 1]

FoundUpTo(v) == CHOOSE g : g = [k \in 0 .. 8 |-> FoundStep(v, g, k)]

LEMMA FoundExists ==
  ASSUME NEW v
  PROVE  FoundUpTo(v) = [k \in 0 .. 8 |-> FoundStep(v, FoundUpTo(v), k)]
<1> DEFINE G == {n \in Nat : \E g : g = [k \in 0 .. n |-> FoundStep(v, g, k)]}
<1>1. 0 \in G
  <2>1. [k \in 0 .. 0 |-> <<>>] = [k \in 0 .. 0 |-> FoundStep(v, [l \in 0 .. 0 |-> <<>>], k)]
    BY DEF FoundStep
  <2> QED
    BY <2>1
<1>2. ASSUME NEW n \in Nat, n \in G PROVE n + 1 \in G
  <2>1. PICK g : g = [k \in 0 .. n |-> FoundStep(v, g, k)]
    BY <1>2
  <2> DEFINE h == [k \in 0 .. n + 1 |-> FoundStep(v, g, k)]
  <2>2. \A k \in 0 .. n : h[k] = g[k]
    <3>1. \A k \in 0 .. n : g[k] = FoundStep(v, g, k)
      BY <2>1
    <3> QED
      BY <3>1
  <2>3. ASSUME NEW k \in 0 .. n + 1 PROVE FoundStep(v, g, k) = FoundStep(v, h, k)
    <3>1. CASE k = 0
      BY <3>1 DEF FoundStep
    <3>2. CASE k # 0
      <4>1. k - 1 \in 0 .. n
        BY <3>2
      <4>2. h[k - 1] = g[k - 1]
        BY <2>2, <4>1
      <4> QED
        BY <3>2, <4>2 DEF FoundStep
    <3> QED
      BY <3>1, <3>2
  <2>4. h = [k \in 0 .. n + 1 |-> FoundStep(v, h, k)]
    BY <2>3
  <2>5. \E x : x = [k \in 0 .. n + 1 |-> FoundStep(v, x, k)]
    <3> HIDE DEF h
    <3> QED
      BY <2>4
  <2> QED
    BY <2>5
<1>3. 8 \in G
  <2> HIDE DEF G
  <2> QED
    BY <1>1, <1>2, InductionOnNat
<1> QED
  BY <1>3 DEF FoundUpTo

LEMMA FoundFacts ==
  ASSUME NEW v \in Pixels
  PROVE  /\ Found(v) \in Seq(Pixels)
         /\ \A k \in 1 .. Len(Found(v)) : /\ Found(v)[k] \in Pixels
                                          /\ Takes(v, Found(v)[k]) /\ Adjacent(v, Found(v)[k])
         /\ \A k, l \in 1 .. Len(Found(v)) : Found(v)[k] = Found(v)[l] => k = l
         /\ \A u \in Pixels : Adjacent(v, u) /\ Takes(v, u) => \E k \in 1 .. Len(Found(v)) : Found(v)[k] = u
<1>1. PICK g : g = FoundUpTo(v)
  OBVIOUS
<1>2. \A k \in 0 .. 8 : g[k] = FoundStep(v, g, k)
  <2>1. g = [k \in 0 .. 8 |-> FoundStep(v, g, k)]
    BY <1>1, FoundExists
  <2> QED
    BY <2>1
<1> DEFINE Good(n) == /\ g[n] \in Seq(Pixels)
                      /\ \A k \in 1 .. Len(g[n]) :
                           \E m \in 1 .. n : g[n][k] = v + neigh[m] /\ Takes(v, v + neigh[m])
                      /\ \A k, l \in 1 .. Len(g[n]) : g[n][k] = g[n][l] => k = l
                      /\ \A m \in 1 .. n : Takes(v, v + neigh[m]) =>
                           \E k \in 1 .. Len(g[n]) : g[n][k] = v + neigh[m]
           G == {n \in Nat : n <= 8 => Good(n)}
<1>3. 0 \in G
  <2>1. g[0] = <<>>
    BY <1>2 DEF FoundStep
  <2>2. Good(0)
    BY <2>1
  <2> QED
    BY <2>2
<1>4. ASSUME NEW n \in Nat, n \in G PROVE n + 1 \in G
  <2> SUFFICES ASSUME n + 1 <= 8 PROVE Good(n + 1)
    OBVIOUS
  <2>1. Good(n) /\ n + 1 \in 1 .. 8 /\ n + 1 \in 0 .. 8 /\ n \in 0 .. 8
    BY <1>4
  <2>2. PICK s, u : s = g[n] /\ u = v + neigh[n + 1]
    OBVIOUS
  <2>3. g[n + 1] = IF Takes(v, u) THEN Append(s, u) ELSE s
    <3>1. PICK m : m = n + 1
      OBVIOUS
    <3>2. m # 0 /\ m - 1 = n /\ m \in 0 .. 8 /\ u = v + neigh[m] /\ s = g[m - 1]
      BY <2>1, <2>2, <3>1
    <3>3. g[m] = FoundStep(v, g, m)
      BY <1>2, <3>2
    <3>4. FoundStep(v, g, m) = IF Takes(v, u) THEN Append(s, u) ELSE s
      BY <3>2 DEF FoundStep
    <3> QED
      BY <3>1, <3>3, <3>4
  <2>4. \A m \in 1 .. n + 1 : m \in 1 .. n \/ m = n + 1
    OBVIOUS
  <2>5. CASE ~ Takes(v, u)
    <3>1. g[n + 1] = s
      BY <2>3, <2>5
    <3>2. \A m \in 1 .. n : m \in 1 .. n + 1
      OBVIOUS
    <3> QED
      BY <2>1, <2>2, <2>4, <2>5, <3>1, <3>2
  <2>6. CASE Takes(v, u)
    <3>1. u \in Pixels
      BY <2>6 DEF Takes
    <3>2. s \in Seq(Pixels) /\ Len(s) \in Nat
      BY <2>1, <2>2
    <3>3. PICK t : t = Append(s, u)
      OBVIOUS
    <3>4. /\ t \in Seq(Pixels) /\ Len(t) = Len(s) + 1
          /\ \A k \in 1 .. Len(s) : t[k] = s[k]
          /\ t[Len(s) + 1] = u
      BY <3>1, <3>2, <3>3
    <3>5. g[n + 1] = t
      BY <2>3, <2>6, <3>3
    <3>6. \A k \in 1 .. Len(s) : s[k] # u
      <4> TAKE k \in 1 .. Len(s)
      <4>1. PICK m \in 1 .. n : s[k] = v + neigh[m]
        BY <2>1, <2>2
      <4>2. m \in 1 .. 8 /\ m # n + 1
        BY <2>1
      <4>3. PICK p : p = n + 1
        OBVIOUS
      <4>4. neigh[m] # neigh[p] /\ neigh[m] \in Int /\ neigh[p] \in Int
        BY <2>1, <4>2, <4>3, Offsets
      <4>5. v \in Int
        BY PixelFacts
      <4>6. PICK a, b : a = neigh[m] /\ b = neigh[p]
        OBVIOUS
      <4> QED
        BY <2>2, <4>1, <4>3, <4>4, <4>5, <4>6
    <3>7. \A k \in 1 .. Len(t) : k \in 1 .. Len(s) \/ k = Len(s) + 1
      BY <3>2, <3>4
    <3>8. \A k \in 1 .. Len(t) : \E m \in 1 .. n + 1 : t[k] = v + neigh[m] /\ Takes(v, v + neigh[m])
      <4> TAKE k \in 1 .. Len(t)
      <4>1. CASE k \in 1 .. Len(s)
        <5>1. PICK m \in 1 .. n : s[k] = v + neigh[m] /\ Takes(v, v + neigh[m])
          BY <2>1, <2>2, <4>1
        <5>2. m \in 1 .. n + 1
          OBVIOUS
        <5> QED
          BY <3>4, <4>1, <5>1, <5>2
      <4>2. CASE k = Len(s) + 1
        <5>1. n + 1 \in 1 .. n + 1
          OBVIOUS
        <5> QED
          BY <2>2, <2>6, <3>4, <4>2, <5>1
      <4> QED
        BY <3>7, <4>1, <4>2
    <3>9. ASSUME NEW k \in 1 .. Len(t), NEW l \in 1 .. Len(t), t[k] = t[l] PROVE k = l
      <4>1. \A a, b \in 1 .. Len(s) : s[a] = s[b] => a = b
        BY <2>1, <2>2
      <4> QED
        BY <3>4, <3>6, <3>7, <3>9, <4>1
    <3>10. \A m \in 1 .. n + 1 : Takes(v, v + neigh[m]) => \E k \in 1 .. Len(t) : t[k] = v + neigh[m]
      <4> TAKE m \in 1 .. n + 1
      <4>1. CASE m \in 1 .. n
        <5>1. Takes(v, v + neigh[m]) => \E k \in 1 .. Len(s) : s[k] = v + neigh[m]
          BY <2>1, <2>2, <4>1
        <5>2. \A k \in 1 .. Len(s) : k \in 1 .. Len(t)
          BY <3>2, <3>4
        <5> QED
          BY <3>4, <5>1, <5>2
      <4>2. CASE m = n + 1
        <5>1. Len(s) + 1 \in 1 .. Len(t)
          BY <3>2, <3>4
        <5> QED
          BY <2>2, <3>4, <4>2, <5>1
      <4> QED
        BY <2>4, <4>1, <4>2
    <3> QED
      BY <3>4, <3>5, <3>8, <3>9, <3>10
  <2> QED
    BY <2>5, <2>6
<1>5. Good(8)
  <2>1. 8 \in G
    <3> HIDE DEF G
    <3> QED
      BY <1>3, <1>4, InductionOnNat
  <2> HIDE DEF Good
  <2>2. 8 <= 8 => Good(8)
    BY <2>1
  <2> QED
    BY <2>2
<1>6. Found(v) = g[8]
  BY <1>1 DEF Found, FoundUpTo, FoundStep
<1>7. PICK s : s = g[8]
  OBVIOUS
<1>8. \A k \in 1 .. Len(s) : s[k] \in Pixels /\ Takes(v, s[k]) /\ Adjacent(v, s[k])
  <2> TAKE k \in 1 .. Len(s)
  <2>1. PICK m \in 1 .. 8 : s[k] = v + neigh[m] /\ Takes(v, v + neigh[m])
    BY <1>5, <1>7
  <2> QED
    BY <2>1 DEF Takes, Adjacent
<1>9. \A u \in Pixels : Adjacent(v, u) /\ Takes(v, u) => \E k \in 1 .. Len(s) : s[k] = u
  BY <1>5, <1>7 DEF Adjacent
<1> QED
  BY <1>5, <1>6, <1>7, <1>8, <1>9

-----------------------------------------------------------------------------
(* What is in one piece.                                                     *)
LEMMA OnePixel == ASSUME NEW v PROVE InOnePiece({v})
  BY DEF InOnePiece

LEMMA Extended ==
  ASSUME NEW A, NEW F, InOnePiece(A), \A f \in F : \E a \in A : Adjacent(a, f)
  PROVE  InOnePiece(A \union F)
<1> SUFFICES ASSUME NEW S \in (SUBSET (A \union F)) \ {{}, A \union F}
             PROVE  \E u \in S, v \in (A \union F) \ S : Adjacent(u, v) \/ Adjacent(v, u)
  BY DEF InOnePiece
<1>1. CASE S \cap A = {}
  <2>1. PICK f \in S : f \in F
    BY <1>1
  <2>2. PICK a \in A : Adjacent(a, f)
    BY <2>1
  <2>3. a \in (A \union F) \ S
    BY <1>1
  <2> QED
    BY <2>1, <2>2, <2>3
<1>2. CASE A \subseteq S
  <2>1. PICK f \in (A \union F) \ S : f \in F
    BY <1>2
  <2>2. PICK a \in A : Adjacent(a, f)
    BY <2>1
  <2> QED
    BY <1>2, <2>1, <2>2
<1>3. CASE S \cap A # {} /\ ~ (A \subseteq S)
  <2>1. S \cap A \in (SUBSET A) \ {{}, A}
    BY <1>3
  <2>2. PICK u \in S \cap A, v \in A \ (S \cap A) : Adjacent(u, v) \/ Adjacent(v, u)
    BY <2>1 DEF InOnePiece
  <2>3. u \in S /\ v \in (A \union F) \ S
    BY <2>2
  <2> QED
    BY <2>2, <2>3
<1> QED
  BY <1>1, <1>2, <1>3

LEMMA Bridged ==
  ASSUME NEW A, NEW B, InOnePiece(A), InOnePiece(B),
         NEW a \in A, NEW b \in B, Adjacent(a, b) \/ Adjacent(b, a)
  PROVE  InOnePiece(A \union B)
<1> SUFFICES ASSUME NEW S \in (SUBSET (A \union B)) \ {{}, A \union B}
             PROVE  \E u \in S, v \in (A \union B) \ S : Adjacent(u, v) \/ Adjacent(v, u)
  BY DEF InOnePiece
<1>1. CASE S \cap A \notin {{}, A}
  <2>1. S \cap A \in (SUBSET A) \ {{}, A}
    BY <1>1
  <2>2. PICK u \in S \cap A, v \in A \ (S \cap A) : Adjacent(u, v) \/ Adjacent(v, u)
    BY <2>1 DEF InOnePiece
  <2>3. u \in S /\ v \in (A \union B) \ S
    BY <2>2
  <2> QED
    BY <2>2, <2>3
<1>2. CASE S \cap B \notin {{}, B}
  <2>1. S \cap B \in (SUBSET B) \ {{}, B}
    BY <1>2
  <2>2. PICK u \in S \cap B, v \in B \ (S \cap B) : Adjacent(u, v) \/ Adjacent(v, u)
    BY <2>1 DEF InOnePiece
  <2>3. u \in S /\ v \in (A \union B) \ S
    BY <2>2
  <2> QED
    BY <2>2, <2>3
<1>3. CASE S \cap A \in {{}, A} /\ S \cap B \in {{}, B}
  <2>1. (a \in S /\ b \notin S) \/ (a \notin S /\ b \in S)
    BY <1>3
  <2>2. a \in A \union B /\ b \in A \union B
    OBVIOUS
  <2> QED
    BY <2>1, <2>2
<1> QED
  BY <1>1, <1>2, <1>3

-----------------------------------------------------------------------------
(* The climb to the canonical element, along a function that never ascends.  *)
ClimbStep(f, g, c) == IF f[c] = c THEN c ELSE g[f[c]]
Climb(f) == CHOOSE g : g = [c \in Pixels |-> ClimbStep(f, g, c)]

LEMMA CanonicalIsClimb == \A r : CanonicalElement(r) = Climb(canon)[r]
  BY DEF CanonicalElement, Climb, ClimbStep

LEMMA CanonicalIsClimbNext == \A r : CanonicalElement(r)' = Climb(canon')[r]
  BY DEF CanonicalElement, Climb, ClimbStep

Descends(f) == f \in [Pixels -> Pixels] /\ \A c \in Pixels : f[c] <= c

LEMMA ClimbExists ==
  ASSUME NEW f, Descends(f)
  PROVE  Climb(f) = [c \in Pixels |-> ClimbStep(f, Climb(f), c)]
<1> DEFINE D(n) == {c \in Pixels : c < n}
           G == {n \in Nat : \E g : g = [c \in D(n) |-> ClimbStep(f, g, c)]}
<1>0. \A c \in Pixels : c \in Nat /\ f[c] \in Pixels /\ f[c] \in Nat /\ f[c] <= c
  BY PixelFacts DEF Descends
<1>1. 0 \in G
  <2>1. D(0) = {}
    BY <1>0
  <2>2. [c \in D(0) |-> 0] = [c \in D(0) |-> ClimbStep(f, [d \in D(0) |-> 0], c)]
    BY <2>1
  <2> HIDE DEF D
  <2> QED
    BY <2>2
<1>2. ASSUME NEW n \in Nat, n \in G PROVE n + 1 \in G
  <2>1. PICK g : g = [c \in D(n) |-> ClimbStep(f, g, c)]
    BY <1>2
  <2> DEFINE h == [c \in D(n + 1) |-> ClimbStep(f, g, c)]
  <2>2. \A c \in D(n) : c \in D(n + 1) /\ h[c] = g[c]
    <3>1. ASSUME NEW c \in D(n) PROVE c \in D(n + 1)
      BY <1>0
    <3>2. \A c \in D(n) : g[c] = ClimbStep(f, g, c)
      BY <2>1
    <3> QED
      BY <3>1, <3>2
  <2>3. ASSUME NEW c \in D(n + 1) PROVE ClimbStep(f, g, c) = ClimbStep(f, h, c)
    <3>1. CASE f[c] = c
      BY <3>1 DEF ClimbStep
    <3>2. CASE f[c] # c
      <4>1. f[c] \in D(n)
        BY <1>0, <3>2
      <4>2. h[f[c]] = g[f[c]]
        BY <2>2, <4>1
      <4> QED
        BY <3>2, <4>2 DEF ClimbStep
    <3> QED
      BY <3>1, <3>2
  <2>4. h = [c \in D(n + 1) |-> ClimbStep(f, h, c)]
    <3> HIDE DEF D
    <3> QED
      BY <2>3
  <2>5. \E x : x = [c \in D(n + 1) |-> ClimbStep(f, x, c)]
    <3> HIDE DEF h, D
    <3> QED
      BY <2>4
  <2> HIDE DEF D
  <2> QED
    BY <2>5
<1>3. Size \in G
  <2> HIDE DEF G
  <2> QED
    BY <1>1, <1>2, Sizes, InductionOnNat
<1>4. D(Size) = Pixels
  BY PixelFacts
<1>5. \E g : g = [c \in Pixels |-> ClimbStep(f, g, c)]
  <2> HIDE DEF D
  <2> QED
    BY <1>3, <1>4
<1> QED
  BY <1>5 DEF Climb

LEMMA ClimbRule ==
  ASSUME NEW f, Descends(f), NEW c \in Pixels
  PROVE  Climb(f)[c] = IF f[c] = c THEN c ELSE Climb(f)[f[c]]
<1>1. PICK g : g = Climb(f)
  OBVIOUS
<1>2. g = [d \in Pixels |-> ClimbStep(f, g, d)]
  BY <1>1, ClimbExists
<1>3. g[c] = ClimbStep(f, g, c)
  BY <1>2
<1> QED
  BY <1>1, <1>3 DEF ClimbStep

(* It ends at a root, no higher than where it began.                         *)
LEMMA ClimbEnds ==
  ASSUME NEW f, Descends(f)
  PROVE  \A c \in Pixels : /\ Climb(f)[c] \in Pixels /\ Climb(f)[c] <= c
                           /\ f[Climb(f)[c]] = Climb(f)[c]
                           /\ Climb(f)[Climb(f)[c]] = Climb(f)[c]
                           /\ f[c] = c => Climb(f)[c] = c
<1>0. \A c \in Pixels : c \in Nat /\ f[c] \in Pixels /\ f[c] \in Nat /\ f[c] <= c
  BY PixelFacts DEF Descends
<1>1. PICK g : g = Climb(f)
  OBVIOUS
<1>2. \A c \in Pixels : g[c] = IF f[c] = c THEN c ELSE g[f[c]]
  BY <1>1, ClimbRule
<1> DEFINE Good(c) == g[c] \in Pixels /\ g[c] <= c /\ f[g[c]] = g[c]
           G == {n \in Nat : \A c \in Pixels : c < n => Good(c)}
<1>3. 0 \in G
  BY <1>0
<1>4. ASSUME NEW n \in Nat, n \in G PROVE n + 1 \in G
  <2> SUFFICES ASSUME NEW c \in Pixels, c < n + 1 PROVE Good(c)
    BY <1>4
  <2>1. CASE f[c] = c
    BY <1>0, <1>2, <2>1
  <2>2. CASE f[c] # c
    <3>1. f[c] \in Pixels /\ f[c] < n /\ f[c] < c
      BY <1>0, <2>2
    <3>2. Good(f[c])
      BY <1>4, <3>1
    <3>3. g[c] = g[f[c]]
      BY <1>2, <2>2
    <3>4. g[f[c]] \in Nat
      BY <1>0, <3>2
    <3> QED
      BY <1>0, <3>1, <3>2, <3>3, <3>4
  <2> QED
    BY <2>1, <2>2
<1>5. Size \in G
  <2> HIDE DEF G
  <2> QED
    BY <1>3, <1>4, Sizes, InductionOnNat
<1>6. \A c \in Pixels : Good(c)
  <2> HIDE DEF Good
  <2> QED
    BY <1>5, PixelFacts
<1> QED
  BY <1>1, <1>2, <1>6

(* Hanging one root below another joins the two classes and no others.       *)
LEMMA ClimbJoin ==
  ASSUME NEW f, Descends(f), NEW c \in Pixels, NEW d \in Pixels, f[c] = c, f[d] = d, c <= d,
         NEW h, h \in [Pixels -> Pixels], h[d] = c, \A r \in Pixels : r # d => h[r] = f[r]
  PROVE  /\ Descends(h)
         /\ \A r \in Pixels : /\ Climb(f)[r] = c \/ Climb(f)[r] = d => Climb(h)[r] = c
                              /\ Climb(f)[r] # c /\ Climb(f)[r] # d => Climb(h)[r] = Climb(f)[r]
<1>0. \A r \in Pixels : r \in Nat /\ f[r] \in Pixels /\ f[r] \in Nat /\ f[r] <= r
  BY PixelFacts DEF Descends
<1>1. PICK g, k : g = Climb(f) /\ k = Climb(h)
  OBVIOUS
<1>2. h \in [Pixels -> Pixels] /\ h[d] = c /\ \A r \in Pixels : r # d => h[r] = f[r]
  OBVIOUS
<1>3. Descends(h)
  BY <1>0, <1>2 DEF Descends
<1>4. /\ \A r \in Pixels : g[r] = IF f[r] = r THEN r ELSE g[f[r]]
      /\ \A r \in Pixels : k[r] = IF h[r] = r THEN r ELSE k[h[r]]
  BY <1>1, <1>3, ClimbRule
<1> DEFINE Good(r) == k[r] = IF g[r] \in {c, d} THEN c ELSE g[r]
           G == {n \in Nat : \A r \in Pixels : r < n => Good(r)}
<1>5. 0 \in G
  BY <1>0
<1>6. ASSUME NEW n \in Nat, n \in G PROVE n + 1 \in G
  <2> SUFFICES ASSUME NEW r \in Pixels, r < n + 1 PROVE Good(r)
    BY <1>6
  <2>0. k[c] = c
    BY <1>2, <1>4
  <2>1. CASE f[r] = r
    <3>1. g[r] = r
      BY <1>4, <2>1
    <3>2. CASE r = d
      <4>1. h[r] = c
        BY <1>2, <3>2
      <4>2. k[r] = c
        BY <1>4, <2>0, <4>1
      <4> QED
        BY <3>1, <3>2, <4>2
    <3>3. CASE r # d
      <4>1. h[r] = r
        BY <1>2, <2>1, <3>3
      <4>2. k[r] = r
        BY <1>4, <4>1
      <4> QED
        BY <3>1, <3>3, <4>2
    <3> QED
      BY <3>2, <3>3
  <2>2. CASE f[r] # r
    <3>1. r # d /\ h[r] = f[r] /\ f[r] \in Pixels /\ f[r] < n
      BY <1>0, <1>2, <2>2
    <3>2. k[r] = k[f[r]] /\ g[r] = g[f[r]]
      BY <1>4, <2>2, <3>1
    <3>3. Good(f[r])
      BY <1>6, <3>1
    <3> QED
      BY <3>2, <3>3
  <2> QED
    BY <2>1, <2>2
<1>7. Size \in G
  <2> HIDE DEF G
  <2> QED
    BY <1>5, <1>6, Sizes, InductionOnNat
<1>8. \A r \in Pixels : Good(r)
  <2> HIDE DEF Good
  <2> QED
    BY <1>7, PixelFacts
<1> QED
  BY <1>1, <1>3, <1>8

-----------------------------------------------------------------------------
(* The new labels.                                                           *)
LEMMA LeastIs == ASSUME NEW S, S \subseteq Nat, NEW m \in S, \A n \in S : m <= n
                 PROVE  Min(S) = m
<1>1. Min(S) \in S /\ \A n \in S : Min(S) <= n
  BY DEF Min
<1>2. Min(S) <= m /\ m <= Min(S) /\ m \in Nat /\ Min(S) \in Nat
  BY <1>1
<1> QED
  BY <1>2

(* How many there are below numbers them through.                            *)
Rank(C, c) == Cardinality({x \in C : x < c})

LEMMA Ranks ==
  ASSUME NEW C, C \subseteq Nat, IsFiniteSet(C)
  PROVE  /\ \A c \in C : Rank(C, c) \in 0 .. Cardinality(C) - 1
         /\ \A c, d \in C : Rank(C, c) = Rank(C, d) => c = d
         /\ \A k \in 0 .. Cardinality(C) - 1 : \E c \in C : Rank(C, c) = k
<1> DEFINE Below(c) == {x \in C : x < c}
<1>1. Cardinality(C) \in Nat
  BY FS_CardinalityType
<1>2. \A c \in C : IsFiniteSet(Below(c)) /\ Cardinality(Below(c)) \in Nat
  <2> TAKE c \in C
  <2>1. Below(c) \subseteq C
    OBVIOUS
  <2> HIDE DEF Below
  <2> QED
    BY <2>1, FS_Subset, FS_CardinalityType
<1>3. ASSUME NEW c \in C PROVE Cardinality(Below(c)) < Cardinality(C)
  <2>1. Below(c) \subseteq C /\ c \notin Below(c)
    OBVIOUS
  <2> HIDE DEF Below
  <2>2. Cardinality(Below(c)) <= Cardinality(C) /\ (Cardinality(C) = Cardinality(Below(c)) => C = Below(c))
    BY <2>1, FS_Subset
  <2> QED
    BY <1>1, <1>2, <2>1, <2>2
<1>4. ASSUME NEW c \in C, NEW d \in C, c < d PROVE Cardinality(Below(c)) < Cardinality(Below(d))
  <2>1. Below(c) \subseteq Below(d) /\ c \in Below(d) /\ c \notin Below(c)
    <3>1. \A x \in C : x \in Nat
      OBVIOUS
    <3>2. \A x \in C : x < c => x < d
      BY <1>4, <3>1
    <3>3. ~ (c < c)
      BY <3>1
    <3> QED
      BY <1>4, <3>2, <3>3
  <2>2. IsFiniteSet(Below(d))
    BY <1>2
  <2> HIDE DEF Below
  <2>3. /\ Cardinality(Below(c)) <= Cardinality(Below(d))
        /\ Cardinality(Below(d)) = Cardinality(Below(c)) => Below(d) = Below(c)
    BY <2>1, <2>2, FS_Subset
  <2> QED
    BY <1>2, <2>1, <2>3
<1>5. ASSUME NEW c \in C, NEW d \in C, Cardinality(Below(c)) = Cardinality(Below(d)) PROVE c = d
  <2>1. c \in Nat /\ d \in Nat
    OBVIOUS
  <2>2. ~ (c < d) /\ ~ (d < c)
    <3> HIDE DEF Below
    <3> QED
      BY <1>2, <1>4, <1>5
  <2> QED
    BY <2>1, <2>2
<1> HIDE DEF Below
<1> DEFINE N == Cardinality(C)
           T == 0 .. N - 1
           f == [c \in C |-> Cardinality(Below(c))]
<1>6. f \in Injection(C, T)
  <2>1. f \in [C -> T]
    BY <1>1, <1>2, <1>3
  <2> QED
    BY <1>5, <2>1 DEF Injection, IsInjective
<1>7. IsFiniteSet(T) /\ Cardinality(T) = N
  <2>1. N \in Nat
    BY <1>1
  <2> HIDE DEF N
  <2>2. IsFiniteSet(0 .. N - 1) /\ Cardinality(0 .. N - 1) = N
    BY <2>1, FS_Interval
  <2> QED
    BY <2>2
<1>8. f \in Surjection(C, T)
  <2> HIDE DEF f, T
  <2> QED
    BY <1>6, <1>7, FS_Injection DEF N
<1>9. \A k \in T : \E c \in C : f[c] = k
  <2> HIDE DEF f, T
  <2> QED
    BY <1>8 DEF Surjection
<1>10. \A k \in T : \E c \in C : Cardinality(Below(c)) = k
  BY <1>9
<1>11. \A c \in C : Cardinality(Below(c)) \in T
  BY <1>1, <1>2, <1>3
<1> QED
  BY <1>5, <1>10, <1>11 DEF Below, Rank

LEMMA RegionSet == ASSUME regionCount \in 0 .. Size
                   PROVE  /\ Regions \subseteq Pixels /\ Regions \subseteq Nat
                          /\ \A r \in Regions, s \in Nat : s <= r => s \in Regions
                          /\ IsFiniteSet(Regions) /\ Cardinality(Regions) = regionCount
<1>1. regionCount \in Nat /\ regionCount <= Size
  BY Sizes
<1>2. IsFiniteSet(0 .. regionCount - 1) /\ Cardinality(0 .. regionCount - 1) = regionCount
  BY <1>1, FS_Interval
<1> QED
  BY <1>1, <1>2, Sizes DEF Regions, Pixels

LEMMA Canonical ==
  ASSUME Descends(canon), regionCount \in 0 .. Size
  PROVE  /\ \A r \in Pixels : /\ CanonicalElement(r) \in Pixels /\ CanonicalElement(r) <= r
                              /\ CanonicalElement(CanonicalElement(r)) = CanonicalElement(r)
                              /\ canon[CanonicalElement(r)] = CanonicalElement(r)
                              /\ canon[r] = r => CanonicalElement(r) = r
         /\ \A r \in Regions : CanonicalElement(r) \in Regions
<1>1. \A r \in Pixels : /\ CanonicalElement(r) \in Pixels /\ CanonicalElement(r) <= r
                        /\ CanonicalElement(CanonicalElement(r)) = CanonicalElement(r)
                        /\ canon[CanonicalElement(r)] = CanonicalElement(r)
                        /\ canon[r] = r => CanonicalElement(r) = r
  BY ClimbEnds, CanonicalIsClimb
<1>2. \A r \in Regions : r \in Pixels
  BY RegionSet
<1>3. \A r \in Regions : CanonicalElement(r) \in Nat /\ CanonicalElement(r) <= r
  BY <1>1, <1>2, PixelFacts
<1> QED
  BY <1>1, <1>3, RegionSet

(* The first region of a class is its canonical element.                     *)
LEMMA FirstIsCanonical ==
  ASSUME Descends(canon), regionCount \in 0 .. Size, NEW r \in Regions
  PROVE  FirstOf(r) = CanonicalElement(r)
<1> DEFINE S == {s \in Regions : CanonicalElement(s) = CanonicalElement(r)}
<1>1. S \subseteq Nat
  BY RegionSet
<1>2. CanonicalElement(r) \in S
  <2>1. r \in Pixels
    BY RegionSet
  <2> QED
    BY <2>1, Canonical
<1>3. \A s \in S : CanonicalElement(r) <= s
  <2> TAKE s \in S
  <2>1. s \in Pixels /\ CanonicalElement(s) = CanonicalElement(r)
    BY RegionSet
  <2>2. CanonicalElement(s) <= s
    BY <2>1, Canonical
  <2> QED
    BY <2>1, <2>2
<1>4. Min(S) = CanonicalElement(r)
  <2> HIDE DEF S
  <2> QED
    BY <1>1, <1>2, <1>3, LeastIs
<1> QED
  BY <1>4 DEF FirstOf

Classes == {FirstOf(r) : r \in Regions}

LEMMA NewLabels ==
  ASSUME Descends(canon), regionCount \in 0 .. Size
  PROVE  /\ Cardinality(Classes) \in Nat /\ Cardinality(Classes) <= regionCount
         /\ \A r \in Regions : NewLabel(r) \in 0 .. Cardinality(Classes) - 1
         /\ \A r, s \in Regions : NewLabel(r) = NewLabel(s) <=> CanonicalElement(r) = CanonicalElement(s)
         /\ \A k \in 0 .. Cardinality(Classes) - 1 : \E r \in Regions : NewLabel(r) = k
         /\ (\A r \in Regions : CanonicalElement(r) = r) =>
              Cardinality(Classes) = regionCount /\ \A r \in Regions : NewLabel(r) = r
<1>1. \A r \in Regions : FirstOf(r) = CanonicalElement(r)
  BY FirstIsCanonical
<1>2. Classes \subseteq Regions
  BY <1>1, Canonical DEF Classes
<1>3. Classes \subseteq Nat /\ IsFiniteSet(Classes) /\ Cardinality(Classes) <= regionCount
  BY <1>2, RegionSet, FS_Subset
<1>4. \A r \in Regions : /\ FirstOf(r) \in Classes
                         /\ NewLabel(r) = Rank(Classes, FirstOf(r))
  <2> TAKE r \in Regions
  <2>1. {FirstOf(s) : s \in {t \in Regions : FirstOf(t) < FirstOf(r)}} = {x \in Classes : x < FirstOf(r)}
    BY DEF Classes
  <2>2. FirstOf(r) \in Classes
    BY DEF Classes
  <2>3. NewLabel(r) = Cardinality({x \in Classes : x < FirstOf(r)})
    BY <2>1 DEF NewLabel
  <2> QED
    BY <2>2, <2>3 DEF Rank
<1> DEFINE N == Cardinality(Classes)
<1>9. /\ \A c \in Classes : Rank(Classes, c) \in 0 .. N - 1
      /\ \A c, d \in Classes : Rank(Classes, c) = Rank(Classes, d) => c = d
      /\ \A k \in 0 .. N - 1 : \E c \in Classes : Rank(Classes, c) = k
  BY <1>3, Ranks
<1> HIDE DEF N
<1>5. \A r \in Regions : NewLabel(r) \in 0 .. N - 1
  BY <1>4, <1>9
<1>6. ASSUME NEW r \in Regions, NEW s \in Regions
      PROVE  NewLabel(r) = NewLabel(s) <=> CanonicalElement(r) = CanonicalElement(s)
  <2>1. NewLabel(r) = NewLabel(s) => FirstOf(r) = FirstOf(s)
    BY <1>4, <1>9
  <2>2. FirstOf(r) = FirstOf(s) => NewLabel(r) = NewLabel(s)
    BY <1>4
  <2> QED
    BY <1>1, <2>1, <2>2
<1>7. ASSUME NEW k \in 0 .. N - 1 PROVE \E r \in Regions : NewLabel(r) = k
  <2>1. PICK c \in Classes : Rank(Classes, c) = k
    BY <1>9
  <2>2. PICK r \in Regions : c = FirstOf(r)
    BY DEF Classes
  <2> QED
    BY <1>4, <2>1, <2>2
<1>8. ASSUME \A r \in Regions : CanonicalElement(r) = r
      PROVE  N = regionCount /\ \A r \in Regions : NewLabel(r) = r
  <2>1. Classes = Regions
    BY <1>1, <1>8 DEF Classes
  <2>2. ASSUME NEW r \in Regions PROVE NewLabel(r) = r
    <3>1. FirstOf(r) = r
      BY <1>1, <1>8
    <3>2. r \in Nat
      BY RegionSet
    <3>3. {x \in Regions : x < r} = 0 .. r - 1
      BY <3>2, Sizes DEF Regions
    <3>4. Cardinality(0 .. r - 1) = r
      BY <3>2, FS_Interval
    <3> QED
      BY <1>4, <2>1, <3>1, <3>3, <3>4 DEF Rank
  <2> QED
    BY <2>1, <2>2, RegionSet DEF N
<1> QED
  BY <1>3, <1>5, <1>6, <1>7, <1>8, FS_CardinalityType DEF N

-----------------------------------------------------------------------------
(* Levelling and relabelling.                                                *)
AreaOf(lab, S) == {v \in Pixels : lab[v] \in S}

LEMMA AreasAdd ==
  ASSUME NEW lab, NEW cnt, NEW S, IsFiniteSet(S),
         \A r \in S : cnt[r] = Cardinality({v \in Pixels : lab[v] = r})
  PROVE  SumFunctionOnSet(cnt, S) = Cardinality(AreaOf(lab, S))
<1> DEFINE G == {T \in SUBSET S : SumFunctionOnSet(cnt, T) = Cardinality(AreaOf(lab, T))}
<1>0. \A A \in SUBSET Pixels : IsFiniteSet(A) /\ Cardinality(A) \in Nat
  BY PixelSets
<1>1. \A r \in S : cnt[r] \in Nat
  BY <1>0
<1>2. {} \in G
  <2>1. AreaOf(lab, {}) = {}
    BY DEF AreaOf
  <2> QED
    BY <2>1, SumStep, FS_EmptySet
<1>3. ASSUME NEW T \in SUBSET S, NEW x \in S \ T, T \in G PROVE T \cup {x} \in G
  <2> DEFINE U == T \cup {x}
             A == AreaOf(lab, T)
             B == {v \in Pixels : lab[v] = x}
  <2>1. U \in SUBSET S /\ x \in U /\ U \ {x} = T
    OBVIOUS
  <2>2. IsFiniteSet(U)
    BY <2>1, FS_Subset
  <2>3. AreaOf(lab, U) = A \cup B /\ A \cap B = {}
    BY DEF AreaOf
  <2>4. A \in SUBSET Pixels /\ B \in SUBSET Pixels
    BY DEF AreaOf
  <2>5. SumFunctionOnSet(cnt, T) = Cardinality(A) /\ cnt[x] = Cardinality(B)
    BY <1>3
  <2> HIDE DEF U, A, B
  <2>6. SumFunctionOnSet(cnt, U) = cnt[x] + SumFunctionOnSet(cnt, T)
    <3>1. \A y \in U : cnt[y] \in Nat
      BY <1>1, <2>1
    <3>2. SumFunctionOnSet(cnt, U) = cnt[x] + SumFunctionOnSet(cnt, U \ {x})
      BY <2>1, <2>2, <3>1, SumRemove
    <3> QED
      BY <2>1, <3>2
  <2>7. Cardinality(A \cup B) = Cardinality(A) + Cardinality(B)
    <3>1. /\ IsFiniteSet(A) /\ IsFiniteSet(B) /\ Cardinality(A) \in Nat /\ Cardinality(B) \in Nat
      BY <1>0, <2>4
    <3>2. Cardinality(A \cup B) = Cardinality(A) + Cardinality(B) - Cardinality(A \cap B)
      BY <3>1, FS_Union
    <3>3. Cardinality(A \cap B) = 0
      BY <2>3, FS_EmptySet
    <3> QED
      BY <3>1, <3>2, <3>3
  <2>8. Cardinality(A) \in Nat /\ Cardinality(B) \in Nat
    BY <1>0, <2>4
  <2>9. SumFunctionOnSet(cnt, U) = Cardinality(AreaOf(lab, U))
    BY <2>3, <2>5, <2>6, <2>7, <2>8
  <2> QED
    BY <2>1, <2>9 DEF U
<1>4. S \in G
  <2> HIDE DEF G
  <2> QED
    BY <1>2, <1>3, InductionOnSets
<1> QED
  BY <1>4

(* Labels and counts as CountsAreAreas has them, whatever the stage.         *)
Books == /\ labels \in [Pixels -> Regions] /\ {labels[v] : v \in Pixels} = Regions
         /\ \A r \in Regions : count[r] = Cardinality(Area(r))
         /\ total \in [Pixels -> Nat] /\ count \in [Pixels -> Nat]
         /\ regionCount \in 0 .. Size

LEMMA Relabelled ==
  ASSUME Books, Descends(canon), Relabel
  PROVE  /\ Books'
         /\ \A k \in Regions' : \E r \in Regions : Area(k)' = ClassArea(r)
         /\ (\A r \in Regions : CanonicalElement(r) = r) =>
              /\ labels' = labels /\ regionCount' = regionCount
              /\ \A r \in Regions : count'[r] = count[r]
<1>1. PICK n : n = Cardinality(Classes)
  OBVIOUS
<1>2. regionCount \in 0 .. Size /\ labels \in [Pixels -> Regions] /\ Regions \subseteq Pixels
  BY RegionSet DEF Books
<1> DEFINE class(k) == {r \in Regions : NewLabel(r) = k}
<1>3. /\ labels' = [v \in Pixels |-> NewLabel(labels[v])]
      /\ count' = [r \in Pixels |-> IF r < n THEN SumFunctionOnSet(count, class(r)) ELSE count[r]]
      /\ total' = [r \in Pixels |-> IF r < n THEN SumFunctionOnSet(total, class(r)) ELSE total[r]]
      /\ regionCount' = n
  BY <1>1 DEF Relabel, Classes
<1>4. /\ n \in Nat /\ n <= regionCount
      /\ \A r \in Regions : NewLabel(r) \in 0 .. n - 1
      /\ \A r, s \in Regions : NewLabel(r) = NewLabel(s) <=> CanonicalElement(r) = CanonicalElement(s)
      /\ \A k \in 0 .. n - 1 : \E r \in Regions : NewLabel(r) = k
      /\ (\A r \in Regions : CanonicalElement(r) = r) =>
           n = regionCount /\ \A r \in Regions : NewLabel(r) = r
  BY <1>1, <1>2, NewLabels
<1>5. Regions' = 0 .. n - 1 /\ n \in 0 .. Size
  <2>1. regionCount \in Nat /\ regionCount <= Size
    BY <1>2, Sizes
  <2> QED
    BY <1>3, <1>4, <2>1, Sizes DEF Regions
<1>6. labels' \in [Pixels -> Regions'] /\ {labels'[v] : v \in Pixels} = Regions'
  <2>1. \A v \in Pixels : labels[v] \in Regions /\ labels'[v] = NewLabel(labels[v])
    BY <1>2, <1>3
  <2>2. labels' \in [Pixels -> Regions']
    BY <1>3, <1>4, <1>5, <2>1
  <2>3. ASSUME NEW k \in Regions' PROVE \E v \in Pixels : labels'[v] = k
    <3>1. PICK r \in Regions : NewLabel(r) = k
      BY <1>4, <1>5, <2>3
    <3>2. PICK v \in Pixels : labels[v] = r
      BY DEF Books
    <3> QED
      BY <2>1, <3>1, <3>2
  <2> QED
    BY <2>2, <2>3
<1>7. \A k \in Regions' : Area(k)' = AreaOf(labels, class(k))
  <2> TAKE k \in Regions'
  <2>1. \A v \in Pixels : labels'[v] = NewLabel(labels[v]) /\ labels[v] \in Regions
    BY <1>2, <1>3
  <2> QED
    BY <2>1 DEF Area, AreaOf
<1>8. \A k : IsFiniteSet(class(k)) /\ class(k) \subseteq Regions
  <2>1. \A k : class(k) \subseteq Regions
    OBVIOUS
  <2> HIDE DEF class
  <2>2. IsFiniteSet(Regions)
    BY <1>2, RegionSet
  <2> QED
    BY <2>1, <2>2, FS_Subset
<1> HIDE DEF class
<1>9. ASSUME NEW k \in Regions' PROVE count'[k] = Cardinality(Area(k)')
  <2>1. k \in Pixels /\ k < n
    BY <1>4, <1>5, Sizes DEF Pixels
  <2>2. count'[k] = SumFunctionOnSet(count, class(k))
    BY <1>3, <2>1
  <2>3. \A r \in class(k) : count[r] = Cardinality({v \in Pixels : labels[v] = r})
    BY <1>8 DEF Books, Area
  <2>4. SumFunctionOnSet(count, class(k)) = Cardinality(AreaOf(labels, class(k)))
    BY <1>8, <2>3, AreasAdd
  <2> QED
    BY <1>7, <2>2, <2>4
<1>10. total' \in [Pixels -> Nat] /\ count' \in [Pixels -> Nat]
  <2>1. total \in [Pixels -> Nat] /\ count \in [Pixels -> Nat]
    BY DEF Books
  <2>2. \A k : /\ SumFunctionOnSet(count, class(k)) \in Nat
               /\ SumFunctionOnSet(total, class(k)) \in Nat
    <3> TAKE k
    <3>1. \A r \in class(k) : count[r] \in Nat /\ total[r] \in Nat
      BY <1>2, <1>8, <2>1
    <3> QED
      BY <1>8, <3>1, SumTyped
  <2> QED
    BY <1>3, <2>1, <2>2
<1>11. ASSUME NEW k \in Regions' PROVE \E r \in Regions : Area(k)' = ClassArea(r)
  <2>1. PICK r \in Regions : NewLabel(r) = k
    BY <1>4, <1>5, <1>11
  <2>2. \A s \in Regions : s \in class(k) <=> CanonicalElement(s) = CanonicalElement(r)
    BY <1>4, <2>1 DEF class
  <2>3. \A v \in Pixels : labels[v] \in Regions
    BY <1>2
  <2>4. AreaOf(labels, class(k)) = ClassArea(r)
    BY <2>2, <2>3 DEF AreaOf, ClassArea
  <2> QED
    BY <1>7, <2>4
<1>12. ASSUME \A r \in Regions : CanonicalElement(r) = r
       PROVE  /\ labels' = labels /\ regionCount' = regionCount
              /\ \A r \in Regions : count'[r] = count[r]
  <2>1. n = regionCount /\ \A r \in Regions : NewLabel(r) = r
    BY <1>4, <1>12
  <2>2. labels' = labels
    BY <1>2, <1>3, <2>1
  <2>3. Regions' = Regions
    BY <1>3, <2>1 DEF Regions
  <2>4. ASSUME NEW r \in Regions PROVE count'[r] = count[r]
    <3>1. Area(r)' = Area(r)
      BY <2>2 DEF Area
    <3>2. count'[r] = Cardinality(Area(r)')
      BY <1>9, <2>3
    <3> QED
      BY <3>1, <3>2 DEF Books
  <2> QED
    BY <1>3, <2>1, <2>2, <2>4
<1>13. Books'
  BY <1>3, <1>5, <1>6, <1>9, <1>10 DEF Books
<1> QED
  BY <1>11, <1>12, <1>13

-----------------------------------------------------------------------------
(* Connect.                                                                  *)
LEMMA ConnectEnough ==
  ASSUME PruneOK, stage = "connect", stage' = "connect", small' = small, TypeOK', ConnectOK'
  PROVE  IInv'
<1>1. SettledOK' /\ ClosureOK'
  BY DEF SettledOK, ClosureOK, Settled
<1>2. PruneOK'
  BY DEF PruneOK
<1> QED
  BY <1>1, <1>2 DEF IInv

LEMMA InitOK == ASSUME Init PROVE IInv
<1>1. /\ luv \in Images /\ minRegion \in MinRegions /\ labels = [v \in Pixels |-> -1]
      /\ total = [r \in Pixels |-> 0] /\ count = [r \in Pixels |-> 0]
      /\ regionCount = 0 /\ canon = [r \in Pixels |-> r] /\ stage = "connect" /\ i = 0
      /\ table = <<>> /\ todo = {} /\ small = 0 /\ counter = 0 /\ oldCount = 0
  BY DEF Init
<1>2. TypeOK
  BY <1>1, Sizes DEF TypeOK
<1>3. Used = {}
  BY <1>1 DEF Used, Regions
<1>4. ConnectOK
  <2>1. \A v \in Pixels : labels[v] = -1 /\ ~ (v < i) /\ ~ (labels[v] >= 0)
    BY <1>1, PixelFacts
  <2> QED
    BY <1>1, <1>3, <2>1, Sizes DEF ConnectOK
<1>5. SettledOK /\ ClosureOK /\ PruneOK
  BY <1>1 DEF SettledOK, ClosureOK, PruneOK, Settled
<1> QED
  BY <1>2, <1>4, <1>5 DEF IInv

LEMMA SeedStep == ASSUME IInv, Seed PROVE IInv'
<1>0. TypeOK /\ ConnectOK /\ PruneOK
  BY DEF IInv
<1>1. /\ stage = "connect" /\ table = <<>> /\ i < Size /\ labels[i] < 0
      /\ labels' = [labels EXCEPT ![i] = regionCount]
      /\ count' = [count EXCEPT ![regionCount] = 1]
      /\ table' = <<i>>
      /\ UNCHANGED <<luv, minRegion, total, regionCount, canon, stage, i, todo, small,
                     counter, oldCount, before>>
  BY DEF Seed, input
<1>2. /\ i \in Pixels /\ regionCount \in Nat /\ regionCount <= i /\ regionCount \in Pixels
      /\ i \in 0 .. Size
  <2>1. i \in Nat /\ regionCount \in Nat
    BY <1>0, Sizes DEF TypeOK
  <2>2. i \in Pixels
    BY <1>1, <2>1, PixelFacts
  <2>3. labels[i] \in Pixels \union {-1}
    BY <1>0, <2>2 DEF TypeOK
  <2>4. ~ (labels[i] >= 0)
    BY <1>1, <2>3, PixelFacts
  <2>5. regionCount <= i
    BY <1>0, <1>1, <2>4 DEF ConnectOK
  <2>6. regionCount < Size
    BY <1>1, <2>1, <2>5, Sizes
  <2> QED
    BY <1>0, <2>1, <2>2, <2>5, <2>6, PixelFacts DEF TypeOK
<1>3. /\ labels \in [Pixels -> Pixels \union {-1}] /\ count \in [Pixels -> Nat]
      /\ luv \in Images
  BY <1>0 DEF TypeOK
<1>4. /\ labels'[i] = regionCount /\ \A v \in Pixels : v # i => labels'[v] = labels[v]
      /\ count'[regionCount] = 1 /\ \A r \in Pixels : r # regionCount => count'[r] = count[r]
  BY <1>1, <1>2, <1>3
<1>5. TypeOK'
  <2>1. labels' \in [Pixels -> Pixels \union {-1}]
    BY <1>1, <1>2, <1>3
  <2>2. count' \in [Pixels -> Nat]
    BY <1>1, <1>3
  <2>3. table' \in Seq(Pixels)
    BY <1>1, <1>2
  <2> QED
    BY <1>0, <1>1, <2>1, <2>2, <2>3 DEF TypeOK
<1>6. Used = 0 .. regionCount - 1 /\ Used' = 0 .. regionCount
  <2>1. <<i>> # <<>>
    OBVIOUS
  <2> QED
    BY <1>1, <2>1 DEF Used, Regions
<1>7. \A v \in Pixels : /\ v \in Nat
                        /\ labels[v] = -1 \/ (labels[v] \in Nat /\ labels[v] < regionCount)
                        /\ v < i => labels[v] >= 0
  <2>1. \A v \in Pixels : labels[v] \in (0 .. regionCount - 1) \union {-1} /\ (v < i => labels[v] >= 0)
    BY <1>0, <1>1, <1>6 DEF ConnectOK
  <2> QED
    BY <1>2, <2>1, PixelFacts
<1>8. labels[i] = -1
  BY <1>1, <1>2, <1>7
<1>9. \A v \in Pixels : labels'[v] \in Used' \union {-1} /\ (v < i' => labels'[v] >= 0)
  <2> TAKE v \in Pixels
  <2>1. CASE v = i
    BY <1>1, <1>2, <1>4, <1>6, <2>1
  <2>2. CASE v # i
    BY <1>1, <1>2, <1>4, <1>6, <1>7, <2>2
  <2> QED
    BY <2>1, <2>2
<1>10. ASSUME NEW r \in Used'
       PROVE  Area(r)' # {} /\ count'[r] = Cardinality(Area(r)') /\ InOnePiece(Area(r)')
  <2>1. r \in Nat /\ r <= regionCount
    BY <1>2, <1>6, <1>10
  <2>2. CASE r = regionCount
    <3>1. Area(r)' = {i}
      <4>1. \A v \in Pixels : v # i => labels[v] # regionCount
        BY <1>2, <1>7
      <4>2. \A v \in Pixels : labels'[v] = r <=> v = i
        BY <1>4, <2>2, <4>1
      <4>3. \A v : v \in Area(r)' <=> v \in Pixels /\ labels'[v] = r
        BY DEF Area
      <4> QED
        BY <1>2, <4>2, <4>3
    <3> QED
      BY <1>4, <2>2, <3>1, OnePixel, FS_Singleton
  <2>3. CASE r # regionCount
    <3>1. Area(r)' = Area(r)
      <4>1. r # labels[i]
        BY <1>8, <2>1
      <4>2. \A v \in Pixels : labels'[v] = r <=> labels[v] = r
        BY <1>4, <2>3, <4>1
      <4>3. \A v : v \in Area(r)' <=> v \in Pixels /\ labels'[v] = r
        BY DEF Area
      <4>4. \A v : v \in Area(r) <=> v \in Pixels /\ labels[v] = r
        BY DEF Area
      <4> QED
        BY <4>2, <4>3, <4>4
    <3>2. r \in Used
      BY <1>2, <1>6, <2>1, <2>3
    <3>3. r \in Pixels
      <4>1. regionCount \in Nat /\ regionCount < Size
        BY <1>2, PixelFacts
      <4>2. r < Size
        BY <2>1, <4>1, Sizes
      <4> QED
        BY <2>1, <4>2, PixelFacts
    <3>4. Area(r) # {} /\ count[r] = Cardinality(Area(r)) /\ InOnePiece(Area(r))
      BY <1>0, <1>1, <3>2 DEF ConnectOK
    <3> QED
      BY <1>4, <2>3, <3>1, <3>3, <3>4
  <2> QED
    BY <2>2, <2>3
<1>11. ASSUME NEW u \in Pixels, NEW v \in Pixels, labels'[u] >= 0, Adjacent(u, v), Alike(u, v)'
       PROVE  labels'[v] = labels'[u]
                \/ (labels'[u] = regionCount' /\ labels'[v] = -1 /\ Open(u)')
  <2>1. Alike(u, v) /\ Alike(v, u) /\ Adjacent(v, u) /\ u # v
    BY <1>1, <1>3, <1>11, AlikeBack, AdjacentBack DEF Alike
  <2>2. \A x, y \in Pixels : labels[x] >= 0 /\ Adjacent(x, y) /\ Alike(x, y) => labels[y] = labels[x]
    <3> TAKE x \in Pixels, y \in Pixels
    <3>1. labels[x] >= 0 /\ Adjacent(x, y) /\ Alike(x, y) =>
            labels[y] = labels[x] \/ labels[x] = regionCount
      BY <1>0, <1>1 DEF ConnectOK
    <3> QED
      BY <1>2, <1>7, <3>1
  <2>3. CASE u = i
    <3>1. labels'[v] = labels[v] /\ labels[v] = -1
      BY <1>4, <1>7, <1>8, <2>1, <2>2, <2>3
    <3>2. Open(u)'
      BY <1>1, <2>3 DEF Open
    <3> QED
      BY <1>1, <1>4, <2>3, <3>1, <3>2
  <2>4. CASE u # i
    <3>1. labels'[u] = labels[u] /\ labels[v] = labels[u]
      BY <1>4, <1>11, <2>1, <2>2, <2>4
    <3>2. v # i
      BY <1>8, <1>11, <3>1
    <3> QED
      BY <1>4, <3>1, <3>2
  <2> QED
    BY <2>3, <2>4
<1>12. \A k \in 1 .. Len(table') : labels'[table'[k]] = regionCount
  BY <1>1, <1>4
<1>13. ConnectOK'
  <2>1. table' # <<>>
    BY <1>1
  <2> QED
    BY <1>1, <1>2, <1>4, <1>9, <1>10, <1>11, <1>12, <2>1 DEF ConnectOK
<1> QED
  BY <1>0, <1>1, <1>5, <1>13, ConnectEnough

LEMMA LabelledStep == ASSUME IInv, Labelled PROVE IInv'
<1>0. TypeOK /\ ConnectOK /\ PruneOK
  BY DEF IInv
<1>1. /\ stage = "connect" /\ table = <<>> /\ i < Size /\ labels[i] >= 0
      /\ i' = i + 1
      /\ UNCHANGED <<luv, minRegion, labels, total, count, regionCount, canon, stage,
                     table, todo, small, counter, oldCount, before>>
  BY DEF Labelled, input
<1>2. i \in Nat /\ i + 1 \in 0 .. Size /\ regionCount \in Nat
  BY <1>0, <1>1, Sizes DEF TypeOK
<1>3. TypeOK'
  BY <1>0, <1>1, <1>2 DEF TypeOK
<1>4. Used' = Used /\ (\A u : Open(u)' <=> Open(u)) /\ (\A r : Area(r)' = Area(r))
      /\ \A u, v : Alike(u, v)' <=> Alike(u, v)
  BY <1>1 DEF Used, Regions, Open, Area, Alike
<1>5. \A v \in Pixels : v < i' => labels[v] >= 0
  <2> SUFFICES ASSUME NEW v \in Pixels, v < i' PROVE labels[v] >= 0
    OBVIOUS
  <2>1. v < i \/ v = i
    BY <1>1, <1>2, PixelFacts
  <2> QED
    BY <1>0, <1>1, <2>1 DEF ConnectOK
<1>6. regionCount <= IF i' < Size /\ labels[i'] >= 0 THEN i' + 1 ELSE i'
  <2>1. regionCount <= i + 1
    BY <1>0, <1>1 DEF ConnectOK
  <2> QED
    BY <1>1, <1>2, <2>1
<1>7. ConnectOK'
  <2>1. /\ \A v \in Pixels : labels[v] \in Used \union {-1}
        /\ \A r \in Used : Area(r) # {} /\ count[r] = Cardinality(Area(r)) /\ InOnePiece(Area(r))
        /\ \A u, v \in Pixels : labels[u] >= 0 /\ Adjacent(u, v) /\ Alike(u, v) =>
             labels[v] = labels[u] \/ (labels[u] = regionCount /\ labels[v] = -1 /\ Open(u))
    BY <1>0, <1>1 DEF ConnectOK
  <2>2. \A v \in Pixels : labels'[v] \in Used' \union {-1} /\ (v < i' => labels'[v] >= 0)
    BY <1>1, <1>4, <1>5, <2>1
  <2>3. \A r \in Used' : Area(r)' # {} /\ count'[r] = Cardinality(Area(r)') /\ InOnePiece(Area(r)')
    BY <1>1, <1>4, <2>1
  <2>4. \A u, v \in Pixels : labels'[u] >= 0 /\ Adjacent(u, v) /\ Alike(u, v)' =>
          labels'[v] = labels'[u] \/ (labels'[u] = regionCount' /\ labels'[v] = -1 /\ Open(u)')
    BY <1>1, <1>4, <2>1
  <2> QED
    BY <1>1, <1>6, <2>2, <2>3, <2>4 DEF ConnectOK
<1> QED
  BY <1>0, <1>1, <1>3, <1>7, ConnectEnough

(* While a region is filled.                                                 *)
LEMMA Filling ==
  ASSUME IInv, table # <<>>
  PROVE  /\ stage = "connect" /\ regionCount \in Pixels /\ regionCount \in Nat
         /\ i \in Pixels /\ regionCount <= i /\ labels[i] = regionCount
         /\ Len(table) \in Nat /\ Len(table) >= 1
         /\ Last(table) = table[Len(table)] /\ Last(table) \in Pixels
         /\ labels[Last(table)] = regionCount
         /\ Used = 0 .. regionCount
         /\ \A v \in Pixels : /\ v \in Nat
                              /\ labels[v] = -1 \/ (labels[v] \in Nat /\ labels[v] <= regionCount)
                              /\ v < i => labels[v] >= 0
         /\ \A u, v \in Pixels : labels[u] >= 0 /\ Adjacent(u, v) /\ Alike(u, v) =>
              labels[v] = labels[u] \/ (labels[u] = regionCount /\ labels[v] = -1 /\ Open(u))
<1>0. TypeOK /\ ConnectOK /\ SettledOK
  BY DEF IInv
<1>1. stage = "connect"
  BY <1>0 DEF SettledOK, Settled
<1>2. table \in Seq(Pixels) /\ i \in 0 .. Size /\ regionCount \in 0 .. Size
  BY <1>0 DEF TypeOK
<1>3. Used = 0 .. regionCount
  BY DEF Used
<1>4. /\ regionCount <= i /\ i < Size /\ labels[i] = regionCount
      /\ \A k \in 1 .. Len(table) : labels[table[k]] = regionCount
  BY <1>0, <1>1 DEF ConnectOK
<1>5. i \in Nat /\ regionCount \in Nat /\ regionCount < Size
  BY <1>2, <1>4, Sizes
<1>6. i \in Pixels /\ regionCount \in Pixels
  BY <1>4, <1>5, PixelFacts
<1>7. Len(table) \in Nat /\ Len(table) >= 1 /\ Last(table) = table[Len(table)]
  BY <1>2 DEF Last
<1>8. Last(table) \in Pixels /\ labels[Last(table)] = regionCount
  BY <1>2, <1>4, <1>7
<1>9. \A v \in Pixels : labels[v] \in Used \union {-1} /\ (v < i => labels[v] >= 0)
  BY <1>0, <1>1 DEF ConnectOK
<1>10. \A v \in Pixels : labels[v] = -1 \/ (labels[v] \in Nat /\ labels[v] <= regionCount)
  BY <1>3, <1>5, <1>9
<1>11. \A u, v \in Pixels : labels[u] >= 0 /\ Adjacent(u, v) /\ Alike(u, v) =>
         labels[v] = labels[u] \/ (labels[u] = regionCount /\ labels[v] = -1 /\ Open(u))
  BY <1>0, <1>1 DEF ConnectOK
<1> QED
  BY <1>1, <1>3, <1>4, <1>5, <1>6, <1>7, <1>8, <1>9, <1>10, <1>11, PixelFacts

(* A sequence without repetition is as long as its range is large.           *)
LEMMA LengthIsSize ==
  ASSUME NEW s, s \in Seq(Pixels), \A k, l \in 1 .. Len(s) : s[k] = s[l] => k = l
  PROVE  Cardinality(Range(s)) = Len(s)
<1>1. Len(s) \in Nat /\ DOMAIN s = 1 .. Len(s)
  OBVIOUS
<1>2. IsFiniteSet(1 .. Len(s)) /\ Cardinality(1 .. Len(s)) = Len(s)
  BY <1>1, FS_Interval
<1> DEFINE D == 1 .. Len(s)
           f == [k \in D |-> s[k]]
<1>3. f \in Bijection(D, Range(s))
  <2>1. \A k \in D : f[k] \in Range(s)
    BY <1>1 DEF Range
  <2>2. \A x \in Range(s) : \E k \in D : f[k] = x
    BY <1>1 DEF Range
  <2>3. \A k, l \in D : f[k] = f[l] => k = l
    OBVIOUS
  <2> HIDE DEF D
  <2>4. f \in [D -> Range(s)]
    BY <2>1
  <2> HIDE DEF f
  <2> QED
    BY <2>2, <2>3, <2>4 DEF Bijection, Injection, Surjection, IsInjective
<1>4. Cardinality(D) = Cardinality(Range(s))
  <2> HIDE DEF D, f
  <2>1. IsFiniteSet(D)
    BY <1>2 DEF D
  <2> QED
    BY <1>3, <2>1, FS_Bijection DEF ExistsBijection
<1> QED
  BY <1>2, <1>4

LEMMA FillOnStep == ASSUME IInv, FillOn PROVE IInv'
<1>0. TypeOK /\ ConnectOK /\ PruneOK
  BY DEF IInv
<1>1. PICK t, found : t = Last(table) /\ found = Found(t)
  OBVIOUS
<1>2. /\ table # <<>> /\ found # <<>>
      /\ labels' = [v \in Pixels |-> IF v \in Range(found) THEN regionCount ELSE labels[v]]
      /\ count' = [count EXCEPT ![regionCount] = @ + Len(found)]
      /\ table' = table \o found
      /\ UNCHANGED <<luv, minRegion, total, regionCount, canon, stage, i, todo, small,
                     counter, oldCount, before>>
  BY <1>1 DEF FillOn, input
<1>3. /\ stage = "connect" /\ regionCount \in Pixels /\ regionCount \in Nat
      /\ i \in Pixels /\ regionCount <= i /\ labels[i] = regionCount
      /\ Len(table) \in Nat /\ Len(table) >= 1
      /\ t = table[Len(table)] /\ t \in Pixels /\ labels[t] = regionCount
      /\ Used = 0 .. regionCount
      /\ \A v \in Pixels : /\ v \in Nat
                           /\ labels[v] = -1 \/ (labels[v] \in Nat /\ labels[v] <= regionCount)
                           /\ v < i => labels[v] >= 0
      /\ \A u, v \in Pixels : labels[u] >= 0 /\ Adjacent(u, v) /\ Alike(u, v) =>
           labels[v] = labels[u] \/ (labels[u] = regionCount /\ labels[v] = -1 /\ Open(u))
  BY <1>1, <1>2, Filling
<1>4. /\ labels \in [Pixels -> Pixels \union {-1}] /\ count \in [Pixels -> Nat]
      /\ luv \in Images /\ table \in Seq(Pixels)
  BY <1>0 DEF TypeOK
<1>5. /\ found \in Seq(Pixels)
      /\ \A k \in 1 .. Len(found) : found[k] \in Pixels /\ Takes(t, found[k]) /\ Adjacent(t, found[k])
      /\ \A k, l \in 1 .. Len(found) : found[k] = found[l] => k = l
      /\ \A u \in Pixels : Adjacent(t, u) /\ Takes(t, u) => \E k \in 1 .. Len(found) : found[k] = u
  BY <1>1, <1>3, FoundFacts
<1>6. Len(found) \in Nat /\ Len(found) >= 1 /\ DOMAIN found = 1 .. Len(found)
  BY <1>2, <1>5
<1>7. PICK F : F = Range(found)
  OBVIOUS
<1>8. F = {found[k] : k \in 1 .. Len(found)}
  BY <1>6, <1>7 DEF Range
<1>9. \A f \in F : f \in Pixels /\ labels[f] = -1 /\ Adjacent(t, f)
  <2> TAKE f \in F
  <2>1. PICK k \in 1 .. Len(found) : f = found[k]
    BY <1>8
  <2>2. f \in Pixels /\ labels[f] < 0 /\ Adjacent(t, f)
    BY <1>5, <2>1 DEF Takes
  <2> QED
    BY <1>3, <2>2
<1>10. \A v \in Pixels : v \notin F => labels'[v] = labels[v]
  BY <1>2, <1>7
<1>11. \A v \in F : labels'[v] = regionCount
  BY <1>2, <1>7, <1>9
<1>12. \A u \in Pixels : labels[u] = -1 /\ Adjacent(t, u) /\ Alike(t, u) => u \in F
  <2> SUFFICES ASSUME NEW u \in Pixels, labels[u] = -1, Adjacent(t, u), Alike(t, u)
               PROVE  u \in F
    OBVIOUS
  <2>1. Takes(t, u)
    BY DEF Takes
  <2>2. PICK k \in 1 .. Len(found) : found[k] = u
    BY <1>5, <2>1
  <2> QED
    BY <1>8, <2>2
<1>13. /\ table' \in Seq(Pixels) /\ Len(table') = Len(table) + Len(found)
       /\ \A k \in 1 .. Len(table) : table'[k] = table[k]
       /\ \A k \in 1 .. Len(found) : table'[Len(table) + k] = found[k]
       /\ \A k \in 1 .. Len(table') : k \in 1 .. Len(table) \/ k - Len(table) \in 1 .. Len(found)
  <2>1. table' = table \o found
    BY <1>2
  <2>2. /\ table \o found \in Seq(Pixels) /\ Len(table \o found) = Len(table) + Len(found)
        /\ \A k \in 1 .. Len(table) : (table \o found)[k] = table[k]
        /\ \A k \in 1 .. Len(found) : (table \o found)[Len(table) + k] = found[k]
    BY <1>4, <1>5
  <2>3. PICK p, q : p = Len(table) /\ q = Len(found)
    OBVIOUS
  <2>4. \A k \in 1 .. p + q : k \in 1 .. p \/ k - p \in 1 .. q
    BY <1>3, <1>6, <2>3
  <2> QED
    BY <2>1, <2>2, <2>3, <2>4
<1>14. /\ count'[regionCount] = count[regionCount] + Len(found)
       /\ \A r \in Pixels : r # regionCount => count'[r] = count[r]
  BY <1>2, <1>3, <1>4
<1>15. TypeOK'
  <2>1. labels' \in [Pixels -> Pixels \union {-1}]
    BY <1>2, <1>3, <1>4
  <2>2. count' \in [Pixels -> Nat]
    <3>1. count[regionCount] + Len(found) \in Nat
      BY <1>3, <1>4, <1>6
    <3> QED
      BY <1>2, <1>4, <3>1
  <2> QED
    BY <1>0, <1>2, <1>13, <2>1, <2>2 DEF TypeOK
<1>16. table' # <<>>
  <2>1. Len(table') >= 1
    BY <1>3, <1>6, <1>13
  <2>2. Len(<<>>) = 0
    OBVIOUS
  <2> QED
    BY <2>1, <2>2
<1>17. Used' = 0 .. regionCount
  BY <1>2, <1>16 DEF Used
<1>18. \A v \in Pixels : labels'[v] \in Used' \union {-1} /\ (v < i' => labels'[v] >= 0)
  <2> TAKE v \in Pixels
  <2>1. CASE v \in F
    BY <1>2, <1>3, <1>11, <1>17, <2>1
  <2>2. CASE v \notin F
    BY <1>2, <1>3, <1>10, <1>17, <2>2
  <2> QED
    BY <2>1, <2>2
<1>19. ASSUME NEW r \in Used'
       PROVE  Area(r)' # {} /\ count'[r] = Cardinality(Area(r)') /\ InOnePiece(Area(r)')
  <2>1. r \in Used /\ r \in Nat /\ r <= regionCount
    BY <1>3, <1>17, <1>19
  <2>2. Area(r) # {} /\ count[r] = Cardinality(Area(r)) /\ InOnePiece(Area(r))
    BY <1>0, <1>3, <2>1 DEF ConnectOK
  <2>3. \A v : v \in Area(r)' <=> v \in Pixels /\ labels'[v] = r
    BY DEF Area
  <2>4. \A v : v \in Area(r) <=> v \in Pixels /\ labels[v] = r
    BY DEF Area
  <2>5. CASE r = regionCount
    <3>1. Area(r)' = Area(r) \union F
      BY <1>9, <1>10, <1>11, <2>3, <2>4, <2>5
    <3>2. Area(r) \cap F = {}
      <4>1. r # -1
        BY <2>1
      <4> QED
        BY <1>9, <2>4, <4>1
    <3>3. InOnePiece(Area(r) \union F)
      <4>1. t \in Area(r)
        BY <1>3, <2>4, <2>5
      <4>2. \A f \in F : \E a \in Area(r) : Adjacent(a, f)
        BY <1>9, <4>1
      <4> QED
        BY <2>2, <4>2, Extended
    <3>4. Cardinality(F) = Len(found)
      BY <1>5, <1>7, LengthIsSize
    <3>5. Cardinality(Area(r) \union F) = Cardinality(Area(r)) + Cardinality(F)
      <4>1. Area(r) \subseteq Pixels /\ F \subseteq Pixels
        BY <1>9, <2>4
      <4>2. IsFiniteSet(Area(r)) /\ IsFiniteSet(F)
        BY <4>1, PixelSets
      <4>3. Cardinality(Area(r)) \in Nat /\ Cardinality(F) \in Nat
        BY <4>1, PixelSets
      <4>4. Cardinality(Area(r) \union F)
              = Cardinality(Area(r)) + Cardinality(F) - Cardinality(Area(r) \cap F)
        BY <4>2, FS_Union
      <4>5. Cardinality(Area(r) \cap F) = 0
        BY <3>2, FS_EmptySet
      <4> QED
        BY <4>3, <4>4, <4>5
    <3>6. count'[r] = Cardinality(Area(r)')
      BY <1>14, <2>2, <2>5, <3>1, <3>4, <3>5
    <3>7. Area(r)' # {}
      BY <2>2, <3>1
    <3> QED
      BY <3>1, <3>3, <3>6, <3>7
  <2>6. CASE r # regionCount
    <3>1. \A v \in Pixels : labels'[v] = r <=> labels[v] = r
      <4>1. r # -1
        BY <2>1
      <4> QED
        BY <1>9, <1>10, <1>11, <2>6, <4>1
    <3>2. Area(r)' = Area(r)
      BY <2>3, <2>4, <3>1
    <3>3. r \in Pixels
      <4>1. regionCount < Size
        BY <1>3, PixelFacts
      <4>2. r < Size
        BY <1>3, <2>1, <4>1, Sizes
      <4> QED
        BY <2>1, <4>2, PixelFacts
    <3>4. count'[r] = count[r]
      BY <1>14, <2>6, <3>3
    <3> QED
      BY <2>2, <3>2, <3>4
  <2> QED
    BY <2>5, <2>6
<1>20. \A k \in 1 .. Len(table') : labels'[table'[k]] = regionCount
  <2> TAKE k \in 1 .. Len(table')
  <2>1. CASE k \in 1 .. Len(table)
    <3>1. table'[k] = table[k] /\ table[k] \in Pixels
      BY <1>4, <1>13, <2>1
    <3>2. labels[table[k]] = regionCount
      BY <1>0, <1>2, <1>3, <2>1 DEF ConnectOK
    <3> QED
      BY <1>10, <1>11, <3>1, <3>2
  <2>2. CASE k - Len(table) \in 1 .. Len(found)
    <3>1. PICK l \in 1 .. Len(found) : l = k - Len(table)
      BY <2>2
    <3>2. k = Len(table) + l
      BY <1>3, <3>1
    <3>3. table'[k] = found[l]
      BY <1>13, <3>2
    <3> QED
      BY <1>8, <1>11, <3>3
  <2> QED
    BY <1>13, <2>1, <2>2
<1>21. ASSUME NEW u \in Pixels, NEW v \in Pixels, labels'[u] >= 0, Adjacent(u, v), Alike(u, v)'
       PROVE  labels'[v] = labels'[u]
                \/ (labels'[u] = regionCount' /\ labels'[v] = -1 /\ Open(u)')
  <2>1. Alike(u, v) /\ Alike(v, u) /\ Adjacent(v, u)
    BY <1>2, <1>4, <1>21, AlikeBack, AdjacentBack DEF Alike
  <2>2. CASE u \in F
    <3>1. Open(u)'
      <4>1. PICK k \in 1 .. Len(found) : found[k] = u
        BY <1>8, <2>2
      <4>2. table'[Len(table) + k] = u
        BY <1>13, <4>1
      <4>3. Len(table) + k \in 2 .. Len(table')
        BY <1>3, <1>6, <1>13
      <4>4. \E l \in 2 .. Len(table') : table'[l] = u
        BY <4>2, <4>3
      <4> QED
        BY <4>4 DEF Open
    <3>2. labels'[u] = regionCount /\ labels[u] = -1
      BY <1>9, <1>11, <2>2
    <3>3. CASE v \in F
      BY <1>11, <3>2, <3>3
    <3>4. CASE v \notin F /\ labels[v] = -1
      BY <1>2, <1>10, <3>1, <3>2, <3>4
    <3>5. CASE v \notin F /\ labels[v] # -1
      <4>1. labels[v] >= 0
        BY <1>3, <3>5
      <4>2. labels[v] = regionCount
        BY <1>3, <2>1, <3>2, <3>5, <4>1
      <4> QED
        BY <1>10, <3>2, <3>5, <4>2
    <3> QED
      BY <3>3, <3>4, <3>5
  <2>3. CASE u \notin F
    <3>1. labels'[u] = labels[u] /\ labels[u] >= 0
      BY <1>10, <1>21, <2>3
    <3>2. labels[v] = labels[u] \/ (labels[u] = regionCount /\ labels[v] = -1 /\ Open(u))
      BY <1>3, <1>21, <2>1, <3>1
    <3>3. CASE labels[v] = labels[u]
      <4>1. v \notin F
        BY <1>9, <3>1, <3>3
      <4> QED
        BY <1>10, <3>1, <3>3, <4>1
    <3>4. CASE labels[u] = regionCount /\ labels[v] = -1 /\ Open(u) /\ v \in F
      BY <1>11, <3>1, <3>4
    <3>5. CASE labels[u] = regionCount /\ labels[v] = -1 /\ Open(u) /\ v \notin F
      <4>1. PICK k \in 2 .. Len(table) : table[k] = u
        <5>1. ~ (Len(table) = 1 /\ table[1] = u)
          BY <1>3, <1>12, <1>21, <2>1, <3>5
        <5> QED
          BY <3>5, <5>1 DEF Open
      <4>2. k \in 1 .. Len(table) /\ k \in 2 .. Len(table')
        BY <1>3, <1>6, <1>13
      <4>3. \E l \in 2 .. Len(table') : table'[l] = u
        BY <1>13, <4>1, <4>2
      <4>4. Open(u)'
        BY <4>3 DEF Open
      <4> QED
        BY <1>2, <1>10, <3>1, <3>5, <4>4
    <3> QED
      BY <3>2, <3>3, <3>4, <3>5
  <2> QED
    BY <2>2, <2>3
<1>22. ConnectOK'
  <2>1. regionCount' = regionCount /\ i' = i /\ labels'[i] = regionCount /\ i < Size
    <3>1. i \notin F
      BY <1>3, <1>9
    <3> QED
      BY <1>2, <1>3, <1>10, <3>1, PixelFacts
  <2> QED
    BY <1>3, <1>16, <1>18, <1>19, <1>20, <1>21, <2>1 DEF ConnectOK
<1> QED
  BY <1>0, <1>2, <1>3, <1>15, <1>22, ConnectEnough

LEMMA FillBackStep == ASSUME IInv, FillBack PROVE IInv'
<1>0. TypeOK /\ ConnectOK /\ PruneOK
  BY DEF IInv
<1>1. PICK t : t = Last(table)
  OBVIOUS
<1>2. /\ table # <<>> /\ Found(t) = <<>> /\ Len(table) > 2 /\ table' = Front(table)
      /\ UNCHANGED <<luv, minRegion, labels, total, count, regionCount, canon, stage, i,
                     todo, small, counter, oldCount, before>>
  BY <1>1 DEF FillBack, input
<1>3. /\ stage = "connect" /\ Len(table) \in Nat /\ t = table[Len(table)] /\ t \in Pixels
      /\ Used = 0 .. regionCount
      /\ \A u, v \in Pixels : labels[u] >= 0 /\ Adjacent(u, v) /\ Alike(u, v) =>
           labels[v] = labels[u] \/ (labels[u] = regionCount /\ labels[v] = -1 /\ Open(u))
  BY <1>1, <1>2, Filling
<1>4. table \in Seq(Pixels)
  BY <1>0 DEF TypeOK
<1>5. PICK n : n = Len(table) - 1
  OBVIOUS
<1>6. /\ n \in Nat /\ n >= 2 /\ Len(table) = n + 1
      /\ table' \in Seq(Pixels) /\ Len(table') = n /\ \A k \in 1 .. n : table'[k] = table[k]
  <2>1. n \in Nat /\ n >= 2 /\ Len(table) = n + 1
    BY <1>2, <1>3, <1>5
  <2>2. table' = [k \in 1 .. n |-> table[k]]
    <3>1. Front(table) = SubSeq(table, 1, Len(table) - 1)
      BY DEF Front
    <3>2. SubSeq(table, 1, n) = [k \in 1 .. n |-> table[k]]
      BY <1>4, <2>1
    <3> QED
      BY <1>2, <1>5, <3>1, <3>2
  <2>3. \A k \in 1 .. n : table[k] \in Pixels
    BY <1>4, <2>1
  <2> QED
    BY <2>1, <2>2, <2>3
<1>7. TypeOK'
  BY <1>0, <1>2, <1>6 DEF TypeOK
<1>8. table' # <<>>
  <2>1. Len(<<>>) = 0
    OBVIOUS
  <2> QED
    BY <1>6, <2>1
<1>9. Used' = Used /\ (\A r : Area(r)' = Area(r)) /\ \A u, v : Alike(u, v)' <=> Alike(u, v)
  BY <1>2, <1>3, <1>8 DEF Used, Area, Alike
<1>10. ASSUME NEW u \in Pixels, NEW v \in Pixels, labels[u] >= 0, Adjacent(u, v), Alike(u, v)
       PROVE  labels[v] = labels[u] \/ (labels[u] = regionCount /\ labels[v] = -1 /\ Open(u)')
  <2>1. SUFFICES ASSUME labels[u] = regionCount, labels[v] = -1, Open(u) PROVE Open(u)'
    BY <1>3, <1>10
  <2>2. PICK k \in 2 .. n + 1 : table[k] = u
    BY <1>6, <2>1 DEF Open
  <2>3. CASE k = n + 1
    <3>1. Takes(t, v) /\ Adjacent(t, v)
      BY <1>3, <1>6, <1>10, <2>1, <2>2, <2>3 DEF Takes
    <3>2. \E l \in 1 .. Len(Found(t)) : Found(t)[l] = v
      BY <1>3, <3>1, FoundFacts
    <3> QED
      BY <1>2, <3>2
  <2>4. CASE k # n + 1
    <3>1. k \in 1 .. n /\ k \in 2 .. Len(table')
      BY <1>6, <2>4
    <3>2. \E l \in 2 .. Len(table') : table'[l] = u
      BY <1>6, <2>2, <3>1
    <3> QED
      BY <3>2 DEF Open
  <2> QED
    BY <2>3, <2>4
<1>11. ConnectOK'
  <2>1. /\ \A v \in Pixels : labels[v] \in Used \union {-1} /\ (v < i => labels[v] >= 0)
        /\ \A r \in Used : Area(r) # {} /\ count[r] = Cardinality(Area(r)) /\ InOnePiece(Area(r))
        /\ regionCount <= i /\ i < Size /\ labels[i] = regionCount
        /\ \A k \in 1 .. Len(table) : labels[table[k]] = regionCount
    BY <1>0, <1>2, <1>3 DEF ConnectOK
  <2>2. \A v \in Pixels : labels'[v] \in Used' \union {-1} /\ (v < i' => labels'[v] >= 0)
    BY <1>2, <1>9, <2>1
  <2>3. \A r \in Used' : Area(r)' # {} /\ count'[r] = Cardinality(Area(r)') /\ InOnePiece(Area(r)')
    BY <1>2, <1>9, <2>1
  <2>4. \A u, v \in Pixels : labels'[u] >= 0 /\ Adjacent(u, v) /\ Alike(u, v)' =>
          labels'[v] = labels'[u] \/ (labels'[u] = regionCount' /\ labels'[v] = -1 /\ Open(u)')
    BY <1>2, <1>9, <1>10
  <2>5. \A k \in 1 .. Len(table') : labels'[table'[k]] = regionCount'
    <3>1. \A k \in 1 .. n : k \in 1 .. Len(table)
      BY <1>6
    <3> QED
      BY <1>2, <1>6, <2>1, <3>1
  <2>6. regionCount' <= i' /\ i' < Size /\ labels'[i'] = regionCount'
    BY <1>2, <2>1
  <2> QED
    BY <1>8, <2>2, <2>3, <2>4, <2>5, <2>6 DEF ConnectOK
<1> QED
  BY <1>0, <1>2, <1>3, <1>7, <1>11, ConnectEnough

LEMMA FilledStep == ASSUME IInv, Filled PROVE IInv'
<1>0. TypeOK /\ ConnectOK /\ PruneOK
  BY DEF IInv
<1>1. PICK t : t = Last(table)
  OBVIOUS
<1>2. /\ table # <<>> /\ Found(t) = <<>> /\ Len(table) <= 2 /\ table' = <<>>
      /\ total' = [total EXCEPT ![regionCount] = luv[i] * count[regionCount]]
      /\ regionCount' = regionCount + 1
      /\ UNCHANGED <<luv, minRegion, labels, count, canon, stage, i,
                     todo, small, counter, oldCount, before>>
  BY <1>1 DEF Filled, input
<1>3. /\ stage = "connect" /\ regionCount \in Pixels /\ regionCount \in Nat
      /\ i \in Pixels /\ regionCount <= i /\ labels[i] = regionCount
      /\ Len(table) \in Nat /\ Len(table) >= 1 /\ t = table[Len(table)] /\ t \in Pixels
      /\ Used = 0 .. regionCount
      /\ \A u, v \in Pixels : labels[u] >= 0 /\ Adjacent(u, v) /\ Alike(u, v) =>
           labels[v] = labels[u] \/ (labels[u] = regionCount /\ labels[v] = -1 /\ Open(u))
  BY <1>1, <1>2, Filling
<1>4. /\ luv \in [Pixels -> Nat] /\ count \in [Pixels -> Nat] /\ total \in [Pixels -> Nat]
  BY <1>0, MeanShiftAssumption DEF TypeOK
<1>5. TypeOK'
  <2>1. total' \in [Pixels -> Nat]
    <3>1. luv[i] * count[regionCount] \in Nat
      BY <1>3, <1>4
    <3> QED
      BY <1>2, <1>4, <3>1
  <2>2. regionCount' \in 0 .. Size
    <3>1. regionCount < Size
      BY <1>3, PixelFacts
    <3> QED
      BY <1>2, <1>3, <3>1, Sizes
  <2>3. table' \in Seq(Pixels)
    BY <1>2
  <2> QED
    BY <1>0, <1>2, <2>1, <2>2, <2>3 DEF TypeOK
<1>6. Used' = Used /\ (\A r : Area(r)' = Area(r)) /\ \A u, v : Alike(u, v)' <=> Alike(u, v)
  <2>1. Used' = 0 .. regionCount
    <3>1. regionCount' - 1 = regionCount
      BY <1>2, <1>3
    <3>2. Used' = 0 .. regionCount' - 1
      BY <1>2 DEF Used, Regions
    <3> QED
      BY <3>1, <3>2
  <2> QED
    BY <1>2, <1>3, <2>1 DEF Area, Alike
<1>7. \A u, v \in Pixels : labels[u] >= 0 /\ Adjacent(u, v) /\ Alike(u, v) => labels[v] = labels[u]
  <2> SUFFICES ASSUME NEW u \in Pixels, NEW v \in Pixels, labels[u] >= 0, Adjacent(u, v),
                      Alike(u, v), labels[v] = -1, Open(u)
               PROVE  FALSE
    BY <1>3
  <2>1. u = t
    BY <1>2, <1>3 DEF Open
  <2>2. Takes(t, v) /\ Adjacent(t, v)
    BY <2>1 DEF Takes
  <2>3. \A w \in Pixels : Adjacent(t, w) /\ Takes(t, w) =>
          \E l \in 1 .. Len(Found(t)) : Found(t)[l] = w
    BY <1>3, FoundFacts
  <2>4. \E l \in 1 .. Len(Found(t)) : Found(t)[l] = v
    BY <2>2, <2>3
  <2> QED
    BY <1>2, <2>4
<1>8. ConnectOK'
  <2>1. /\ \A v \in Pixels : labels[v] \in Used \union {-1} /\ (v < i => labels[v] >= 0)
        /\ \A r \in Used : Area(r) # {} /\ count[r] = Cardinality(Area(r)) /\ InOnePiece(Area(r))
        /\ i < Size
    BY <1>0, <1>2, <1>3 DEF ConnectOK
  <2>2. \A v \in Pixels : labels'[v] \in Used' \union {-1} /\ (v < i' => labels'[v] >= 0)
    BY <1>2, <1>6, <2>1
  <2>3. \A r \in Used' : Area(r)' # {} /\ count'[r] = Cardinality(Area(r)') /\ InOnePiece(Area(r)')
    BY <1>2, <1>6, <2>1
  <2>4. \A u, v \in Pixels : labels'[u] >= 0 /\ Adjacent(u, v) /\ Alike(u, v)' =>
          labels'[v] = labels'[u] \/ (labels'[u] = regionCount' /\ labels'[v] = -1 /\ Open(u)')
    BY <1>2, <1>6, <1>7
  <2>5. regionCount' <= IF i' < Size /\ labels'[i'] >= 0 THEN i' + 1 ELSE i'
    <3>1. i \in Nat
      BY <1>3, PixelFacts
    <3>2. i' = i /\ labels'[i] = regionCount
      BY <1>2, <1>3
    <3>3. labels'[i] >= 0 /\ regionCount + 1 <= i + 1
      BY <1>3, <3>1, <3>2
    <3> QED
      BY <1>2, <2>1, <3>2, <3>3
  <2> QED
    BY <1>2, <2>2, <2>3, <2>4, <2>5 DEF ConnectOK
<1> QED
  BY <1>0, <1>2, <1>3, <1>5, <1>8, ConnectEnough

-----------------------------------------------------------------------------
(* A pass begins: every region is its own canonical element.                 *)
LEMMA FreshCanonical ==
  canon = [r \in Pixels |-> r] => Descends(canon) /\ \A r \in Pixels : CanonicalElement(r) = r
<1> SUFFICES ASSUME canon = [r \in Pixels |-> r]
             PROVE  Descends(canon) /\ \A r \in Pixels : CanonicalElement(r) = r
  OBVIOUS
<1>1. Descends(canon)
  BY PixelFacts DEF Descends
<1>2. \A r \in Pixels : canon[r] = r
  OBVIOUS
<1>3. \A r \in Pixels : Climb(canon)[r] = r
  BY <1>1, <1>2, ClimbRule
<1> QED
  BY <1>1, <1>3, CanonicalIsClimb

LEMMA BooksRegions == Books => /\ Regions \subseteq Pixels
                               /\ \A v \in Pixels : labels[v] \in Regions /\ labels[v] \in Pixels
                               /\ regionCount \in Nat /\ regionCount >= 1 /\ 0 \in Regions
                               /\ \A r : Neighbours(r, labels) \subseteq Regions
                               /\ \A r : Neighbours(r, labels) \subseteq Pixels
<1> SUFFICES ASSUME Books
             PROVE  /\ Regions \subseteq Pixels
                    /\ \A v \in Pixels : labels[v] \in Regions /\ labels[v] \in Pixels
                    /\ regionCount \in Nat /\ regionCount >= 1 /\ 0 \in Regions
                    /\ \A r : Neighbours(r, labels) \subseteq Regions
                    /\ \A r : Neighbours(r, labels) \subseteq Pixels
  OBVIOUS
<1>1. regionCount \in 0 .. Size /\ labels \in [Pixels -> Regions]
  BY DEF Books
<1>2. Regions \subseteq Pixels
  BY <1>1, RegionSet
<1>3. \A v \in Pixels : labels[v] \in Regions
  BY <1>1
<1>4. regionCount \in Nat /\ regionCount >= 1
  <2>1. labels[0] \in 0 .. regionCount - 1
    BY <1>3, PixelFacts DEF Regions
  <2>2. PICK x : x = labels[0]
    OBVIOUS
  <2> QED
    BY <1>1, <2>1, <2>2, Sizes
<1>5. 0 \in Regions
  BY <1>4 DEF Regions
<1>6. \A r : Neighbours(r, labels) \subseteq Regions
  BY <1>3 DEF Neighbours
<1> QED
  BY <1>2, <1>3, <1>4, <1>5, <1>6

LEMMA Settles ==
  Books /\ canon = [r \in Pixels |-> r] /\ table = <<>> /\ (\A r \in Regions : InOnePiece(Area(r)))
    => SettledOK
<1> SUFFICES ASSUME Books, canon = [r \in Pixels |-> r], table = <<>>,
                    \A r \in Regions : InOnePiece(Area(r))
             PROVE  SettledOK
  OBVIOUS
<1>1. Descends(canon) /\ \A r \in Pixels : CanonicalElement(r) = r
  BY FreshCanonical
<1>2. Regions \subseteq Pixels /\ \A v \in Pixels : labels[v] \in Pixels
  BY BooksRegions
<1>3. ASSUME NEW r \in Regions PROVE ClassArea(r) = Area(r)
  <2>1. \A v \in Pixels : CanonicalElement(labels[v]) = labels[v] /\ CanonicalElement(r) = r
    BY <1>1, <1>2
  <2> QED
    BY <2>1 DEF ClassArea, Area
<1>4. CountsAreAreas
  BY DEF CountsAreAreas, Books
<1>5. \A r \in Pixels : canon[r] <= r
  BY <1>1 DEF Descends
<1> QED
  BY <1>3, <1>4, <1>5 DEF SettledOK

LEMMA Settlement == IInv /\ Settled => /\ Books /\ Descends(canon) /\ table = <<>>
                                       /\ \A r \in Regions : /\ InOnePiece(Area(r))
                                                             /\ InOnePiece(ClassArea(r))
<1> SUFFICES ASSUME IInv, Settled
             PROVE  /\ Books /\ Descends(canon) /\ table = <<>>
                    /\ \A r \in Regions : InOnePiece(Area(r)) /\ InOnePiece(ClassArea(r))
  OBVIOUS
<1>1. TypeOK /\ SettledOK
  BY DEF IInv
<1>2. /\ table = <<>> /\ CountsAreAreas /\ (\A r \in Pixels : canon[r] <= r)
      /\ \A r \in Regions : InOnePiece(Area(r)) /\ InOnePiece(ClassArea(r))
  BY <1>1 DEF SettledOK
<1>3. /\ {labels[v] : v \in Pixels} = Regions
      /\ \A r \in Regions : count[r] = Cardinality(Area(r))
  BY <1>2 DEF CountsAreAreas
<1>4. labels \in [Pixels -> Regions]
  <2>1. labels \in [Pixels -> Pixels \union {-1}]
    BY <1>1 DEF TypeOK
  <2>2. \A v \in Pixels : labels[v] \in Regions
    BY <1>3
  <2> QED
    BY <2>1, <2>2
<1>5. Books
  BY <1>1, <1>3, <1>4 DEF Books, TypeOK
<1>6. Descends(canon)
  BY <1>1, <1>2 DEF Descends, TypeOK
<1> QED
  BY <1>2, <1>5, <1>6

LEMMA Closes ==
  /\ Books /\ canon = [r \in Pixels |-> r] /\ stage = "closure" /\ i = 0
  /\ todo = Neighbours(0, labels)
  /\ before = [labels |-> labels, total |-> total, count |-> count]
  /\ counter = 0 => \A u, v \in Pixels : Adjacent(u, v) /\ Alike(u, v) => labels[u] = labels[v]
  => ClosureOK
<1> SUFFICES ASSUME Books, canon = [r \in Pixels |-> r], stage = "closure", i = 0,
                    todo = Neighbours(0, labels),
                    before = [labels |-> labels, total |-> total, count |-> count],
                    counter = 0 => \A u, v \in Pixels :
                                     Adjacent(u, v) /\ Alike(u, v) => labels[u] = labels[v]
             PROVE  ClosureOK
  OBVIOUS
<1>1. regionCount \in Nat /\ regionCount >= 1 /\ Regions \subseteq Pixels
  BY BooksRegions
<1>2. \A r \in Pixels : CanonicalElement(r) = r
  BY FreshCanonical
<1>3. \A r, s \in Regions : CanonicalElement(r) = CanonicalElement(s) => r = s
  BY <1>1, <1>2
<1>4. \A r, s \in Regions : s \in Neighbours(r, labels) => ~ (r < i \/ (r = i /\ s \notin todo))
  <2>1. \A r \in Regions : ~ (r < 0)
    BY <1>1, PixelFacts
  <2> QED
    BY <2>1
<1>5. i <= regionCount /\ todo \subseteq IF i < regionCount THEN Neighbours(i, labels) ELSE {}
  BY <1>1
<1> QED
  BY <1>3, <1>4, <1>5 DEF ClosureOK

LEMMA EndConnectStep == ASSUME IInv, EndConnect PROVE IInv'
<1>0. TypeOK /\ ConnectOK /\ PruneOK
  BY DEF IInv
<1>1. /\ stage = "connect" /\ table = <<>> /\ i = Size
      /\ stage' = "closure" /\ i' = 0 /\ canon' = [r \in Pixels |-> r]
      /\ todo' = Neighbours(0, labels)
      /\ before' = [labels |-> labels, total |-> total, count |-> count]
      /\ UNCHANGED <<luv, minRegion, labels, total, count, regionCount, table, small,
                     counter, oldCount>>
  BY DEF EndConnect, Begin, input
<1>2. /\ \A v \in Pixels : labels[v] \in Regions \union {-1} /\ labels[v] >= 0
      /\ \A r \in Regions : Area(r) # {} /\ count[r] = Cardinality(Area(r)) /\ InOnePiece(Area(r))
      /\ \A u, v \in Pixels : Adjacent(u, v) /\ Alike(u, v) =>
           labels[v] = labels[u] \/ labels[v] = -1
  <2>1. Used = Regions
    BY <1>1 DEF Used
  <2>2. \A v \in Pixels : v < i
    BY <1>1, PixelFacts
  <2> QED
    BY <1>0, <1>1, <2>1, <2>2 DEF ConnectOK
<1>3. \A v \in Pixels : labels[v] \in Regions /\ labels[v] # -1
  BY <1>2
<1>4. Books
  <2>1. labels \in [Pixels -> Regions]
    BY <1>0, <1>3 DEF TypeOK
  <2>2. \A r \in Regions : \E v \in Pixels : labels[v] = r
    BY <1>2 DEF Area
  <2>3. {labels[v] : v \in Pixels} = Regions
    BY <1>3, <2>2
  <2> QED
    BY <1>0, <1>2, <2>1, <2>3 DEF Books, TypeOK
<1>5. (\A r : Area(r)' = Area(r)) /\ Regions' = Regions /\ \A u, v : Alike(u, v)' <=> Alike(u, v)
  BY <1>1 DEF Area, Regions, Alike
<1>6. Books'
  BY <1>1, <1>4, <1>5 DEF Books
<1>7. SettledOK'
  <2>1. \A r \in Regions' : InOnePiece(Area(r)')
    BY <1>2, <1>5
  <2>2. (\A r \in Regions : InOnePiece(Area(r)))'
    BY <2>1 DEF InOnePiece, Adjacent
  <2>3. (/\ Books /\ canon = [r \in Pixels |-> r] /\ table = <<>>
         /\ \A r \in Regions : InOnePiece(Area(r)))'
    BY <1>1, <1>6, <2>2
  <2> QED
    BY <2>3, Settles, PTL
<1>8. ClosureOK'
  <2>1. todo' = Neighbours(0, labels)'
    BY <1>1 DEF Neighbours
  <2>2. before' = [labels |-> labels', total |-> total', count |-> count']
    BY <1>1
  <2>3. \A u, v \in Pixels : Adjacent(u, v) /\ Alike(u, v)' => labels'[u] = labels'[v]
    BY <1>1, <1>2, <1>3, <1>5
  <2>4. (counter = 0 => \A u, v \in Pixels : Adjacent(u, v) /\ Alike(u, v) => labels[u] = labels[v])'
    BY <2>3 DEF Adjacent
  <2>5. (/\ Books /\ canon = [r \in Pixels |-> r] /\ stage = "closure" /\ i = 0
         /\ todo = Neighbours(0, labels)
         /\ before = [labels |-> labels, total |-> total, count |-> count]
         /\ counter = 0 => \A u, v \in Pixels : Adjacent(u, v) /\ Alike(u, v) => labels[u] = labels[v])'
    BY <1>1, <1>6, <2>1, <2>2, <2>4
  <2> QED
    BY <2>5, Closes, PTL
<1>9. TypeOK'
  <2>1. Neighbours(0, labels) \subseteq Pixels
    BY <1>4, BooksRegions
  <2> QED
    BY <1>0, <1>1, <2>1, Sizes DEF TypeOK
<1>10. ConnectOK' /\ PruneOK'
  BY <1>0, <1>1 DEF ConnectOK, PruneOK
<1> QED
  BY <1>7, <1>8, <1>9, <1>10 DEF IInv

-----------------------------------------------------------------------------
(* A join makes one class of two.                                            *)
LEMMA Joined ==
  ASSUME Descends(canon), NEW r \in Pixels, NEW s \in Pixels, Join(r, s)
  PROVE  /\ Descends(canon')
         /\ \E top \in {CanonicalElement(r), CanonicalElement(s)} : \A q \in Pixels :
              CanonicalElement(q)' = IF CanonicalElement(q) \in {CanonicalElement(r), CanonicalElement(s)}
                                     THEN top ELSE CanonicalElement(q)
<1>1. PICK c, d : c = CanonicalElement(r) /\ d = CanonicalElement(s)
  OBVIOUS
<1>2. c \in Pixels /\ d \in Pixels /\ canon[c] = c /\ canon[d] = d
  BY <1>1, CanonicalIsClimb, ClimbEnds
<1>3. canon' = IF c < d THEN [canon EXCEPT ![d] = c]
                        ELSE [canon EXCEPT ![canon[c]] = d, ![c] = d]
  BY <1>1 DEF Join
<1>4. c \in Nat /\ d \in Nat /\ canon \in [Pixels -> Pixels]
  BY <1>2, PixelFacts DEF Descends
<1>5. CASE c < d
  <2>1. canon' = [canon EXCEPT ![d] = c] /\ c <= d
    BY <1>3, <1>4, <1>5
  <2>2. /\ Descends(canon')
        /\ \A q \in Pixels : /\ Climb(canon)[q] = c \/ Climb(canon)[q] = d => Climb(canon')[q] = c
                             /\ Climb(canon)[q] # c /\ Climb(canon)[q] # d =>
                                 Climb(canon')[q] = Climb(canon)[q]
    <3>1. PICK f, h : f = canon /\ h = canon'
      OBVIOUS
    <3>2. Descends(f)
      BY <3>1
    <3>3. f[c] = c
      BY <1>2, <3>1
    <3>4. f[d] = d
      BY <1>2, <3>1
    <3>5. c <= d
      BY <2>1
    <3>6. h \in [Pixels -> Pixels] /\ h[d] = c /\ \A q \in Pixels : q # d => h[q] = f[q]
      BY <1>2, <1>4, <2>1, <3>1
    <3>7. /\ Descends(h)
          /\ \A q \in Pixels : /\ Climb(f)[q] = c \/ Climb(f)[q] = d => Climb(h)[q] = c
                               /\ Climb(f)[q] # c /\ Climb(f)[q] # d => Climb(h)[q] = Climb(f)[q]
      BY <1>2, <3>2, <3>3, <3>4, <3>5, <3>6, ClimbJoin
    <3> QED
      BY <3>1, <3>7
  <2>3. \A q \in Pixels : CanonicalElement(q)' =
          IF CanonicalElement(q) \in {c, d} THEN c ELSE CanonicalElement(q)
    <3> TAKE q \in Pixels
    <3>1. CanonicalElement(q) = Climb(canon)[q] /\ CanonicalElement(q)' = Climb(canon')[q]
      BY CanonicalIsClimb, CanonicalIsClimbNext
    <3>2. PICK x, y : x = Climb(canon)[q] /\ y = Climb(canon')[q]
      OBVIOUS
    <3>3. (x = c \/ x = d => y = c) /\ (x # c /\ x # d => y = x)
      BY <2>2, <3>2
    <3>4. y = IF x \in {c, d} THEN c ELSE x
      BY <3>3
    <3> QED
      BY <3>1, <3>2, <3>4
  <2> QED
    BY <1>1, <2>1, <2>2, <2>3
<1>6. CASE ~ (c < d)
  <2>1. [canon EXCEPT ![canon[c]] = d, ![c] = d] = [canon EXCEPT ![c] = d]
    BY <1>2, <1>4
  <2>2. canon' = [canon EXCEPT ![c] = d] /\ d <= c
    BY <1>3, <1>4, <1>6, <2>1
  <2>3. /\ Descends(canon')
        /\ \A q \in Pixels : /\ Climb(canon)[q] = d \/ Climb(canon)[q] = c => Climb(canon')[q] = d
                             /\ Climb(canon)[q] # d /\ Climb(canon)[q] # c =>
                                 Climb(canon')[q] = Climb(canon)[q]
    <3>1. PICK f, h : f = canon /\ h = canon'
      OBVIOUS
    <3>2. Descends(f)
      BY <3>1
    <3>3. f[d] = d
      BY <1>2, <3>1
    <3>4. f[c] = c
      BY <1>2, <3>1
    <3>5. d <= c
      BY <2>2
    <3>6. h \in [Pixels -> Pixels] /\ h[c] = d /\ \A q \in Pixels : q # c => h[q] = f[q]
      BY <1>2, <1>4, <2>2, <3>1
    <3>7. /\ Descends(h)
          /\ \A q \in Pixels : /\ Climb(f)[q] = d \/ Climb(f)[q] = c => Climb(h)[q] = d
                               /\ Climb(f)[q] # d /\ Climb(f)[q] # c => Climb(h)[q] = Climb(f)[q]
      BY <1>2, <3>2, <3>3, <3>4, <3>5, <3>6, ClimbJoin
    <3> QED
      BY <3>1, <3>7
  <2>4. \A q \in Pixels : CanonicalElement(q)' =
          IF CanonicalElement(q) \in {c, d} THEN d ELSE CanonicalElement(q)
    <3> TAKE q \in Pixels
    <3>1. CanonicalElement(q) = Climb(canon)[q] /\ CanonicalElement(q)' = Climb(canon')[q]
      BY CanonicalIsClimb, CanonicalIsClimbNext
    <3>2. PICK x, y : x = Climb(canon)[q] /\ y = Climb(canon')[q]
      OBVIOUS
    <3>3. (x = d \/ x = c => y = d) /\ (x # d /\ x # c => y = x)
      BY <2>3, <3>2
    <3>4. y = IF x \in {c, d} THEN d ELSE x
      BY <3>3
    <3> QED
      BY <3>1, <3>2, <3>4
  <2> QED
    BY <1>1, <2>2, <2>3, <2>4
<1> QED
  BY <1>5, <1>6

LEMMA JoinClasses ==
  ASSUME Descends(canon), NEW r \in Pixels, NEW s \in Pixels, Join(r, s)
  PROVE  \A p, q \in Pixels : CanonicalElement(p)' = CanonicalElement(q)' <=>
           \/ CanonicalElement(p) = CanonicalElement(q)
           \/ /\ CanonicalElement(p) \in {CanonicalElement(r), CanonicalElement(s)}
              /\ CanonicalElement(q) \in {CanonicalElement(r), CanonicalElement(s)}
<1>1. PICK top \in {CanonicalElement(r), CanonicalElement(s)} : \A q \in Pixels :
        CanonicalElement(q)' = IF CanonicalElement(q) \in {CanonicalElement(r), CanonicalElement(s)}
                               THEN top ELSE CanonicalElement(q)
  BY Joined
<1> QED
  BY <1>1

(* Regions that touch are joined, so that their classes stay in one piece.   *)
LEMMA JoinPieces ==
  ASSUME Books, Descends(canon), NEW r \in Regions, NEW s \in Neighbours(r, labels), Join(r, s),
         \A q \in Regions : InOnePiece(ClassArea(q)), labels' = labels
  PROVE  \A q \in Regions : InOnePiece(ClassArea(q)')
<1>1. /\ Regions \subseteq Pixels /\ s \in Regions
      /\ \A v \in Pixels : labels[v] \in Pixels
  BY BooksRegions
<1>2. \A p, q \in Pixels : CanonicalElement(p)' = CanonicalElement(q)' <=>
        \/ CanonicalElement(p) = CanonicalElement(q)
        \/ /\ CanonicalElement(p) \in {CanonicalElement(r), CanonicalElement(s)}
           /\ CanonicalElement(q) \in {CanonicalElement(r), CanonicalElement(s)}
  BY <1>1, JoinClasses
<1> SUFFICES ASSUME NEW q \in Regions PROVE InOnePiece(ClassArea(q)')
  OBVIOUS
<1>3. \A v : v \in ClassArea(q)' <=> v \in Pixels /\ CanonicalElement(labels[v])' = CanonicalElement(q)'
  BY DEF ClassArea
<1>4. \A v : v \in ClassArea(q)' <=>
        /\ v \in Pixels
        /\ \/ CanonicalElement(labels[v]) = CanonicalElement(q)
           \/ /\ CanonicalElement(labels[v]) \in {CanonicalElement(r), CanonicalElement(s)}
              /\ CanonicalElement(q) \in {CanonicalElement(r), CanonicalElement(s)}
  BY <1>1, <1>2, <1>3
<1>5. \A p, v : v \in ClassArea(p) <=> v \in Pixels /\ CanonicalElement(labels[v]) = CanonicalElement(p)
  BY DEF ClassArea
<1>6. CASE CanonicalElement(q) \in {CanonicalElement(r), CanonicalElement(s)}
  <2>1. ClassArea(q)' = ClassArea(r) \union ClassArea(s)
    BY <1>4, <1>5, <1>6
  <2>2. PICK v \in Pixels, u \in Pixels : labels[v] = s /\ labels[u] = r /\ (Beside(u, v) \/ Beside(v, u))
    BY DEF Neighbours
  <2>3. u \in ClassArea(r) /\ v \in ClassArea(s)
    BY <1>5, <2>2
  <2>4. Adjacent(u, v) \/ Adjacent(v, u)
    BY <2>2, BesideAdjacent
  <2>5. InOnePiece(ClassArea(r)) /\ InOnePiece(ClassArea(s))
    BY <1>1
  <2>6. InOnePiece(ClassArea(r) \union ClassArea(s))
    BY <2>3, <2>4, <2>5, Bridged
  <2> QED
    BY <2>1, <2>6
<1>7. CASE CanonicalElement(q) \notin {CanonicalElement(r), CanonicalElement(s)}
  <2>1. ClassArea(q)' = ClassArea(q)
    BY <1>4, <1>5, <1>7
  <2> QED
    BY <2>1
<1> QED
  BY <1>6, <1>7

(* A step that leaves labels and counts alone.                               *)
LEMMA StillSettled ==
  ASSUME IInv, Settled, Settled', Descends(canon'), \A q \in Regions : InOnePiece(ClassArea(q)'),
         UNCHANGED <<labels, total, count, regionCount, table>>
  PROVE  SettledOK'
<1>1. Regions' = Regions /\ (\A r : Area(r)' = Area(r))
  BY DEF Regions, Area
<1>2. /\ Books /\ table = <<>> /\ \A r \in Regions : InOnePiece(Area(r))
  BY Settlement
<1>3. CountsAreAreas'
  BY <1>1, <1>2 DEF CountsAreAreas, Books
<1>4. \A r \in Regions' : InOnePiece(Area(r)') /\ InOnePiece(ClassArea(r)')
  BY <1>1, <1>2
<1>5. \A r \in Pixels : canon'[r] <= r
  BY DEF Descends
<1> QED
  BY <1>2, <1>3, <1>4, <1>5 DEF SettledOK

LEMMA SamePieces ==
  ASSUME IInv, Settled, UNCHANGED <<labels, canon>>
  PROVE  /\ Descends(canon') /\ (\A q : CanonicalElement(q)' = CanonicalElement(q))
         /\ \A q \in Regions : InOnePiece(ClassArea(q)')
<1>1. Descends(canon) /\ \A q \in Regions : InOnePiece(ClassArea(q))
  BY Settlement
<1>2. \A q : CanonicalElement(q)' = CanonicalElement(q)
  BY CanonicalIsClimb, CanonicalIsClimbNext
<1>3. \A q : ClassArea(q)' = ClassArea(q)
  BY <1>2 DEF ClassArea
<1> QED
  BY <1>1, <1>2, <1>3

-----------------------------------------------------------------------------
(* A closure.                                                                *)
LEMMA NeighboursBack ==
  ASSUME NEW lab, NEW r, NEW s \in Neighbours(r, lab)
  PROVE  r \in Neighbours(s, lab) /\ s # r
<1>1. PICK v \in Pixels, u \in Pixels :
        lab[v] = s /\ lab[v] # r /\ lab[u] = r /\ (Beside(u, v) \/ Beside(v, u))
  BY DEF Neighbours
<1>2. lab[u] # s /\ \E w \in Pixels : lab[w] = s /\ (Beside(w, u) \/ Beside(u, w))
  BY <1>1
<1> QED
  BY <1>1, <1>2 DEF Neighbours

LEMMA LeastIn == ASSUME NEW S, S \subseteq Nat, S # {} PROVE Min(S) \in S
<1>1. \E m \in S : \A n \in S : m <= n
  BY LeastOf
<1> QED
  BY <1>1 DEF Min

(* What a closure has joined so far is apart from nothing it belongs to.     *)
LEMMA NotApart ==
  ASSUME Books, before = [labels |-> labels, total |-> total, count |-> count],
         NEW r \in Regions, NEW s \in Neighbours(r, labels), InWindow(r, s, total, count),
         NEW S \in Apart
  PROVE  r \in S <=> s \in S
<1>1. before.labels = labels /\ before.total = total /\ before.count = count
  OBVIOUS
<1>2. OldRegions = Regions /\ s \in Regions
  BY <1>1, BooksRegions DEF OldRegions, Books
<1>3. r \in Neighbours(s, labels)
  BY NeighboursBack
<1>4. Near(r, s) /\ Near(s, r)
  BY <1>1, <1>3 DEF Near
<1>5. \A p \in S, q \in OldRegions \ S : ~ Near(p, q)
  BY DEF Apart
<1> QED
  BY <1>2, <1>4, <1>5

LEMMA SameApart == ASSUME before' = before PROVE Apart' = Apart
<1>1. OldRegions' = OldRegions /\ \A r, s : Near(r, s)' <=> Near(r, s)
  BY DEF OldRegions, Near
<1> QED
  BY <1>1 DEF Apart

LEMMA CloseWithStep == ASSUME IInv, CloseWith PROVE IInv'
<1>0. TypeOK /\ ClosureOK /\ PruneOK
  BY DEF IInv
<1>1. PICK s, j : s = Min(todo) /\ j = i
  OBVIOUS
<1>2. /\ stage = "closure" /\ i < regionCount /\ todo # {} /\ todo' = todo \ {s}
      /\ IF InWindow(j, s, total, count) THEN Join(j, s) ELSE UNCHANGED canon
      /\ j = i /\ i' = j
      /\ UNCHANGED <<luv, minRegion, labels, total, count, regionCount, stage, i, table,
                     small, counter, oldCount, before>>
  BY <1>1 DEF CloseWith, input
<1>3. Settled /\ Settled'
  BY <1>2 DEF Settled
<1>4. /\ Books /\ Descends(canon) /\ Regions \subseteq Pixels
      /\ \A q \in Regions : InOnePiece(ClassArea(q))
  BY <1>3, Settlement, BooksRegions
<1>5. /\ before = [labels |-> labels, total |-> total, count |-> count]
      /\ i <= regionCount /\ todo \subseteq Neighbours(j, labels)
      /\ \A r, q \in Regions :
           q \in Neighbours(r, labels) /\ InWindow(r, q, total, count)
             /\ (r < j \/ (r = j /\ q \notin todo))
           => CanonicalElement(r) = CanonicalElement(q)
      /\ \A r, q \in Regions : CanonicalElement(r) = CanonicalElement(q) =>
           \A S \in Apart : r \in S => q \in S
      /\ counter = 0 => \A u, v \in Pixels : Adjacent(u, v) /\ Alike(u, v) => labels[u] = labels[v]
  BY <1>0, <1>1, <1>2 DEF ClosureOK
<1>6. i \in Regions /\ j \in Regions /\ j \in Pixels
  <2>1. i \in Nat /\ regionCount \in Nat
    BY <1>0, Sizes DEF TypeOK
  <2>2. i \in Regions
    BY <1>2, <2>1 DEF Regions
  <2> QED
    BY <1>1, <1>4, <2>2
<1>7. s \in todo /\ s \in Neighbours(j, labels) /\ s \in Regions /\ s \in Pixels
  <2>1. todo \subseteq Nat
    BY <1>0, PixelFacts DEF TypeOK
  <2>2. s \in todo
    BY <1>1, <1>2, <2>1, LeastIn
  <2> QED
    BY <1>4, <1>5, <2>2, BooksRegions
<1>8. /\ Descends(canon') /\ (\A q \in Regions : InOnePiece(ClassArea(q)'))
      /\ \A p, q \in Pixels : CanonicalElement(p) = CanonicalElement(q) =>
           CanonicalElement(p)' = CanonicalElement(q)'
      /\ InWindow(j, s, total, count) => CanonicalElement(j)' = CanonicalElement(s)'
      /\ \A p, q \in Pixels : CanonicalElement(p)' = CanonicalElement(q)' =>
           \/ CanonicalElement(p) = CanonicalElement(q)
           \/ /\ InWindow(j, s, total, count)
              /\ CanonicalElement(p) \in {CanonicalElement(j), CanonicalElement(s)}
              /\ CanonicalElement(q) \in {CanonicalElement(j), CanonicalElement(s)}
  <2>1. CASE InWindow(j, s, total, count)
    <3>1. Join(j, s)
      BY <1>2, <2>1
    <3>2. \A p, q \in Pixels : CanonicalElement(p)' = CanonicalElement(q)' <=>
            \/ CanonicalElement(p) = CanonicalElement(q)
            \/ /\ CanonicalElement(p) \in {CanonicalElement(j), CanonicalElement(s)}
               /\ CanonicalElement(q) \in {CanonicalElement(j), CanonicalElement(s)}
      BY <1>4, <1>6, <1>7, <3>1, JoinClasses
    <3>3. Descends(canon')
      BY <1>4, <1>6, <1>7, <3>1, Joined
    <3>4. labels' = labels
      BY <1>2
    <3>5. \A q \in Regions : InOnePiece(ClassArea(q)')
      BY <1>4, <1>6, <1>7, <3>1, <3>4, JoinPieces
    <3>6. CanonicalElement(j)' = CanonicalElement(s)'
      <4>1. \A x, y : x \in {x, y} /\ y \in {x, y}
        OBVIOUS
      <4> QED
        BY <1>6, <1>7, <3>2, <4>1
    <3> QED
      BY <2>1, <3>2, <3>3, <3>5, <3>6
  <2>2. CASE ~ InWindow(j, s, total, count)
    <3>1. UNCHANGED <<labels, canon>>
      BY <1>2, <2>2
    <3>2. /\ Descends(canon') /\ (\A q : CanonicalElement(q)' = CanonicalElement(q))
          /\ \A q \in Regions : InOnePiece(ClassArea(q)')
      BY <1>3, <3>1, SamePieces
    <3> QED
      BY <2>2, <3>2
  <2> QED
    BY <2>1, <2>2
<1>9. SettledOK'
  BY <1>2, <1>3, <1>8, StillSettled
<1>10. ClosureOK'
  <2>1. Regions' = Regions /\ Apart' = Apart /\ (\A u, v : Alike(u, v)' <=> Alike(u, v))
    BY <1>2, SameApart DEF Regions, Alike
  <2>2. ASSUME NEW r \in Regions, NEW q \in Regions,
               q \in Neighbours(r, labels), InWindow(r, q, total, count),
               r < j \/ (r = j /\ q \notin todo')
        PROVE  CanonicalElement(r)' = CanonicalElement(q)'
    <3>1. CASE r < j \/ (r = j /\ q \notin todo)
      <4>1. CanonicalElement(r) = CanonicalElement(q)
        BY <1>5, <2>2, <3>1
      <4> QED
        BY <1>4, <1>8, <4>1
    <3>2. CASE r = j /\ q = s
      BY <1>8, <2>2, <3>2
    <3> QED
      BY <1>2, <2>2, <3>1, <3>2
  <2>3. ASSUME NEW r \in Regions, NEW q \in Regions, CanonicalElement(r)' = CanonicalElement(q)',
               NEW S \in Apart, r \in S
        PROVE  q \in S
    <3>1. CASE CanonicalElement(r) = CanonicalElement(q)
      BY <1>5, <2>3, <3>1
    <3>2. CASE /\ InWindow(j, s, total, count)
               /\ CanonicalElement(r) \in {CanonicalElement(j), CanonicalElement(s)}
               /\ CanonicalElement(q) \in {CanonicalElement(j), CanonicalElement(s)}
      <4>1. j \in S <=> s \in S
        BY <1>4, <1>5, <1>6, <1>7, <3>2, NotApart
      <4>2. \A x, y \in Regions : CanonicalElement(x) = CanonicalElement(y) /\ x \in S => y \in S
        BY <1>5
      <4>3. j \in S \/ s \in S
        BY <1>6, <1>7, <2>3, <3>2, <4>2
      <4> QED
        BY <1>6, <1>7, <3>2, <4>1, <4>2, <4>3
    <3> QED
      BY <1>4, <1>8, <2>3, <3>1, <3>2
  <2>4. todo' \subseteq Neighbours(j, labels)
    BY <1>2, <1>5
  <2>5. \A r, q \in Regions' :
          q \in Neighbours(r, labels)' /\ InWindow(r, q, total, count)'
            /\ (r < i' \/ (r = i' /\ q \notin todo'))
          => CanonicalElement(r)' = CanonicalElement(q)'
    <3>1. \A r, q : /\ Neighbours(r, labels)' = Neighbours(r, labels)
                    /\ InWindow(r, q, total, count)' <=> InWindow(r, q, total, count)
      BY <1>2 DEF Neighbours, InWindow
    <3> QED
      BY <1>2, <2>1, <2>2, <3>1
  <2>6. \A r, q \in Regions' : CanonicalElement(r)' = CanonicalElement(q)' =>
          \A S \in Apart' : r \in S => q \in S
    BY <2>1, <2>3
  <2>7. todo' \subseteq IF i' < regionCount' THEN Neighbours(i', labels') ELSE {}
    BY <1>2, <2>4
  <2>8. counter' = 0 => \A u, v \in Pixels : Adjacent(u, v) /\ Alike(u, v)' => labels'[u] = labels'[v]
    BY <1>2, <1>5, <2>1
  <2>9. before' = [labels |-> labels', total |-> total', count |-> count'] /\ i' <= regionCount'
    BY <1>2, <1>5
  <2> QED
    BY <2>5, <2>6, <2>7, <2>8, <2>9 DEF ClosureOK, Adjacent
<1>11. TypeOK'
  <2>1. todo' \subseteq Pixels
    BY <1>0, <1>2 DEF TypeOK
  <2>2. canon' \in [Pixels -> Pixels]
    BY <1>8 DEF Descends
  <2> QED
    BY <1>0, <1>2, <2>1, <2>2 DEF TypeOK
<1>12. ConnectOK' /\ PruneOK'
  BY <1>0, <1>2 DEF ConnectOK, PruneOK
<1> QED
  BY <1>9, <1>10, <1>11, <1>12 DEF IInv

LEMMA NextRegionStep == ASSUME IInv, NextRegion PROVE IInv'
<1>0. TypeOK /\ ClosureOK /\ PruneOK
  BY DEF IInv
<1>1. PICK j : j = i
  OBVIOUS
<1>2. /\ stage = "closure" /\ i < regionCount /\ todo = {} /\ i' = i + 1
      /\ todo' = IF i' < regionCount THEN Neighbours(i', labels) ELSE {}
      /\ UNCHANGED <<luv, minRegion, labels, total, count, regionCount, canon, stage, table,
                     small, counter, oldCount, before>>
  BY DEF NextRegion, input
<1>3. Settled /\ Settled'
  BY <1>2 DEF Settled
<1>4. Books /\ Regions \subseteq Pixels
  BY <1>3, Settlement, BooksRegions
<1>5. /\ before = [labels |-> labels, total |-> total, count |-> count]
      /\ \A r, q \in Regions :
           q \in Neighbours(r, labels) /\ InWindow(r, q, total, count)
             /\ (r < i \/ (r = i /\ q \notin todo))
           => CanonicalElement(r) = CanonicalElement(q)
      /\ \A r, q \in Regions : CanonicalElement(r) = CanonicalElement(q) =>
           \A S \in Apart : r \in S => q \in S
      /\ counter = 0 => \A u, v \in Pixels : Adjacent(u, v) /\ Alike(u, v) => labels[u] = labels[v]
  BY <1>0, <1>2 DEF ClosureOK
<1>6. i \in Nat /\ regionCount \in Nat /\ i + 1 \in 0 .. Size /\ i + 1 <= regionCount
  BY <1>0, <1>2, Sizes DEF TypeOK
<1>7. /\ Descends(canon') /\ (\A q : CanonicalElement(q)' = CanonicalElement(q))
      /\ \A q \in Regions : InOnePiece(ClassArea(q)')
  BY <1>2, <1>3, SamePieces
<1>8. SettledOK'
  BY <1>2, <1>3, <1>7, StillSettled
<1>9. ClosureOK'
  <2>1. Regions' = Regions /\ Apart' = Apart /\ (\A u, v : Alike(u, v)' <=> Alike(u, v))
    BY <1>2, SameApart DEF Regions, Alike
  <2>2. \A r, q : /\ Neighbours(r, labels)' = Neighbours(r, labels)
                  /\ InWindow(r, q, total, count)' <=> InWindow(r, q, total, count)
    BY <1>2 DEF Neighbours, InWindow
  <2>3. ASSUME NEW r \in Regions, NEW q \in Regions,
               q \in Neighbours(r, labels), InWindow(r, q, total, count),
               r < i' \/ (r = i' /\ q \notin todo')
        PROVE  CanonicalElement(r) = CanonicalElement(q)
    <3>1. r \in Nat /\ r < regionCount
      BY <1>6 DEF Regions
    <3>2. CASE r < i \/ r = i
      BY <1>2, <1>5, <2>3, <3>2
    <3>3. CASE r = i'
      <4>1. todo' = Neighbours(r, labels)
        BY <1>2, <3>1, <3>3
      <4> QED
        BY <1>2, <1>6, <2>3, <3>3, <4>1
    <3> QED
      BY <1>2, <1>6, <2>3, <3>1, <3>2, <3>3
  <2>4. \A r, q \in Regions' :
          q \in Neighbours(r, labels)' /\ InWindow(r, q, total, count)'
            /\ (r < i' \/ (r = i' /\ q \notin todo'))
          => CanonicalElement(r)' = CanonicalElement(q)'
    BY <1>7, <2>1, <2>2, <2>3
  <2>5. \A r, q \in Regions' : CanonicalElement(r)' = CanonicalElement(q)' =>
          \A S \in Apart' : r \in S => q \in S
    BY <1>5, <1>7, <2>1
  <2>6. todo' \subseteq IF i' < regionCount' THEN Neighbours(i', labels') ELSE {}
    BY <1>2
  <2>7. counter' = 0 => \A u, v \in Pixels : Adjacent(u, v) /\ Alike(u, v)' => labels'[u] = labels'[v]
    BY <1>2, <1>5, <2>1
  <2>8. before' = [labels |-> labels', total |-> total', count |-> count'] /\ i' <= regionCount'
    BY <1>2, <1>5, <1>6
  <2> QED
    BY <2>4, <2>5, <2>6, <2>7, <2>8 DEF ClosureOK, Adjacent
<1>10. TypeOK'
  <2>1. \A r : Neighbours(r, labels) \subseteq Pixels
    BY <1>4, BooksRegions
  <2>2. todo' \subseteq Pixels
    BY <1>2, <2>1
  <2> QED
    BY <1>0, <1>2, <1>6, <2>2 DEF TypeOK
<1>11. ConnectOK' /\ PruneOK'
  BY <1>0, <1>2 DEF ConnectOK, PruneOK
<1> QED
  BY <1>8, <1>9, <1>10, <1>11 DEF IInv

(* What a relabelling leaves is settled.                                     *)
LEMMA RelabelSettles ==
  ASSUME IInv, Settled, Relabel, canon' = [r \in Pixels |-> r], table' = table
  PROVE  Books' /\ SettledOK'
<1>1. /\ Books /\ Descends(canon) /\ table = <<>>
      /\ \A r \in Regions : InOnePiece(ClassArea(r))
  BY Settlement
<1>2. Books' /\ \A k \in Regions' : \E r \in Regions : Area(k)' = ClassArea(r)
  BY <1>1, Relabelled
<1>3. \A k \in Regions' : InOnePiece(Area(k)')
  BY <1>1, <1>2
<1>4. (\A r \in Regions : InOnePiece(Area(r)))'
  BY <1>3 DEF InOnePiece, Adjacent
<1>5. (/\ Books /\ canon = [r \in Pixels |-> r] /\ table = <<>>
       /\ \A r \in Regions : InOnePiece(Area(r)))'
  BY <1>1, <1>2, <1>4
<1>6. SettledOK'
  BY <1>5, Settles, PTL
<1> QED
  BY <1>2, <1>6

LEMMA BooksTyped ==
  Books => /\ labels \in [Pixels -> Pixels \union {-1}]
           /\ total \in [Pixels -> Nat] /\ count \in [Pixels -> Nat]
           /\ regionCount \in 0 .. Size /\ regionCount \in Nat
           /\ Neighbours(0, labels) \subseteq Pixels
<1> SUFFICES ASSUME Books
             PROVE  /\ labels \in [Pixels -> Pixels \union {-1}]
                    /\ total \in [Pixels -> Nat] /\ count \in [Pixels -> Nat]
                    /\ regionCount \in 0 .. Size /\ regionCount \in Nat
                    /\ Neighbours(0, labels) \subseteq Pixels
  OBVIOUS
<1>1. Regions \subseteq Pixels
  BY BooksRegions
<1>2. labels \in [Pixels -> Pixels \union {-1}]
  BY <1>1 DEF Books
<1> QED
  BY <1>2, BooksRegions DEF Books

LEMMA EndClosureStep == ASSUME IInv, EndClosure PROVE IInv'
<1>0. TypeOK /\ ClosureOK /\ PruneOK
  BY DEF IInv
<1>1. /\ stage = "closure" /\ i = regionCount /\ Relabel
      /\ counter' = counter + 1 /\ oldCount' = regionCount'
      /\ i' = 0 /\ canon' = [r \in Pixels |-> r]
      /\ \/ stage' = "closure" /\ todo' = Neighbours(0, labels')
         \/ stage' = "prune" /\ todo' = {}
      /\ before' = [labels |-> labels', total |-> total', count |-> count']
      /\ UNCHANGED <<luv, minRegion, table, small>>
  BY DEF EndClosure, Begin, input
<1>2. Settled
  BY <1>1 DEF Settled
<1>3. Books' /\ SettledOK'
  BY <1>1, <1>2, RelabelSettles
<1>4. /\ labels' \in [Pixels -> Pixels \union {-1}]
      /\ total' \in [Pixels -> Nat] /\ count' \in [Pixels -> Nat]
      /\ regionCount' \in 0 .. Size /\ regionCount' \in Nat
      /\ Neighbours(0, labels)' \subseteq Pixels
  <2>1. (/\ labels \in [Pixels -> Pixels \union {-1}]
         /\ total \in [Pixels -> Nat] /\ count \in [Pixels -> Nat]
         /\ regionCount \in 0 .. Size /\ regionCount \in Nat
         /\ Neighbours(0, labels) \subseteq Pixels)'
    BY <1>3, BooksTyped, PTL
  <2> QED
    BY <2>1
<1>5. Neighbours(0, labels') = Neighbours(0, labels)'
  BY DEF Neighbours
<1>6. counter' \in Nat /\ counter' # 0
  BY <1>0, <1>1 DEF TypeOK
<1>7. TypeOK'
  <2>1. canon' \in [Pixels -> Pixels]
    BY <1>1
  <2>2. todo' \subseteq Pixels
    BY <1>1, <1>4, <1>5
  <2>3. i' \in 0 .. Size
    BY <1>1, Sizes
  <2>4. oldCount' \in Nat
    BY <1>1, <1>4
  <2>5. stage' \in {"connect", "closure", "prune", "done", "crash"}
    BY <1>1
  <2> QED
    BY <1>0, <1>1, <1>4, <1>6, <2>1, <2>2, <2>3, <2>4, <2>5 DEF TypeOK
<1>8. ClosureOK'
  <2>1. CASE stage' = "closure"
    <3>1. (/\ Books /\ canon = [r \in Pixels |-> r] /\ stage = "closure" /\ i = 0
           /\ todo = Neighbours(0, labels)
           /\ before = [labels |-> labels, total |-> total, count |-> count]
           /\ counter = 0 => \A u, v \in Pixels : Adjacent(u, v) /\ Alike(u, v) => labels[u] = labels[v])'
      BY <1>1, <1>3, <1>5, <1>6, <2>1
    <3> QED
      BY <3>1, Closes, PTL
  <2>2. CASE stage' # "closure"
    BY <2>2 DEF ClosureOK
  <2> QED
    BY <2>1, <2>2
<1>9. PruneOK'
  <2>1. small' = 0
    BY <1>0, <1>1 DEF PruneOK
  <2>2. \A r \in Regions' : ~ (r < i')
    <3>1. \A r \in Regions' : r \in Nat
      BY <1>4 DEF Regions
    <3> QED
      BY <1>1, <3>1
  <2> QED
    BY <1>1, <1>4, <2>1, <2>2 DEF PruneOK
<1>10. ConnectOK'
  BY <1>1 DEF ConnectOK
<1> QED
  BY <1>3, <1>7, <1>8, <1>9, <1>10 DEF IInv

-----------------------------------------------------------------------------
(* Pruning: the closest of the neighbours is one of them.                    *)
LEMMA MulLess == ASSUME NEW x \in Nat, NEW y \in Nat, NEW z \in Nat, z > 0
                 PROVE  (x < y <=> x * z < y * z) /\ (x <= y <=> x * z <= y * z)
<1>1. ASSUME NEW a \in Nat, NEW b \in Nat, a < b PROVE a * z < b * z
  <2>1. PICK n : n = b - a
    OBVIOUS
  <2>2. n \in Nat /\ n > 0 /\ b = a + n
    BY <1>1, <2>1
  <2>3. b * z = a * z + n * z
    BY <2>2
  <2>4. n * z > 0 /\ n * z \in Nat /\ a * z \in Nat
    BY <2>2
  <2> QED
    BY <2>3, <2>4
<1>2. x * z \in Nat /\ y * z \in Nat
  OBVIOUS
<1>3. x < y \/ x = y \/ y < x
  OBVIOUS
<1>4. (x < y => x * z < y * z) /\ (y < x => y * z < x * z)
  BY <1>1
<1> QED
  BY <1>2, <1>3, <1>4

LEMMA CrossProducts ==
  ASSUME NEW a \in Nat, NEW b \in Nat, NEW c \in Nat,
         NEW p \in Nat, NEW q \in Nat, NEW e \in Nat, p > 0, q > 0, e > 0,
         a * q <= b * p, b * e <= c * q
  PROVE  a * e <= c * p /\ (a * q < b * p \/ b * e < c * q => a * e < c * p)
<1>1. PICK aq, bp, be, cq, ae, cp : /\ aq = a * q /\ bp = b * p /\ be = b * e
                                    /\ cq = c * q /\ ae = a * e /\ cp = c * p
  OBVIOUS
<1>2. aq \in Nat /\ bp \in Nat /\ be \in Nat /\ cq \in Nat /\ ae \in Nat /\ cp \in Nat
  BY <1>1
<1>3. aq * e = ae * q /\ bp * e = be * p /\ cq * p = cp * q
  BY <1>1
<1>4. aq * e <= bp * e /\ be * p <= cq * p
  BY <1>1, <1>2, MulLess
<1>5. (aq < bp => aq * e < bp * e) /\ (be < cq => be * p < cq * p)
  BY <1>2, MulLess
<1>6. PICK x, y, z : x = ae * q /\ y = bp * e /\ z = cp * q
  OBVIOUS
<1>7. x \in Nat /\ y \in Nat /\ z \in Nat
  BY <1>2, <1>6
<1>8. x <= z /\ (aq < bp \/ be < cq => x < z)
  BY <1>3, <1>4, <1>5, <1>6, <1>7
<1>9. (ae < cp <=> x < z) /\ (ae <= cp <=> x <= z)
  BY <1>2, <1>6, MulLess
<1> QED
  BY <1>1, <1>8, <1>9

Beats(r, s, t) == ~ Closer(r, t, s) /\ (t < s => Closer(r, s, t))

LEMMA CandidateIn ==
  ASSUME Books, NEW r \in Regions, Neighbours(r, labels) # {}
  PROVE  Candidate(r) \in Neighbours(r, labels)
<1> DEFINE D(t) == Distance(total[r] * count[t], total[t] * count[r])
           N == Neighbours(r, labels)
<1>1. N \subseteq Regions /\ Regions \subseteq Pixels /\ IsFiniteSet(N)
  <2>1. N \subseteq Regions /\ Regions \subseteq Pixels
    BY BooksRegions
  <2> QED
    BY <2>1, PixelSets
<1>2. \A t \in Regions : count[t] \in Nat /\ count[t] > 0 /\ total[t] \in Nat /\ t \in Nat
  <2> TAKE t \in Regions
  <2>1. t \in Pixels
    BY <1>1
  <2>2. count[t] \in Nat /\ total[t] \in Nat /\ t \in Nat
    BY <2>1, PixelFacts DEF Books
  <2>3. PICK v \in Pixels : labels[v] = t
    BY DEF Books
  <2>4. v \in Area(t) /\ Area(t) \subseteq Pixels
    BY <2>3 DEF Area
  <2>5. IsFiniteSet(Area(t)) /\ Area(t) # {}
    BY <2>4, PixelSets
  <2>6. Cardinality(Area(t)) # 0
    BY <2>5, FS_EmptySet
  <2>7. count[t] # 0
    BY <2>6 DEF Books
  <2> QED
    BY <2>2, <2>7
<1>3. \A t \in Regions : D(t) \in Nat
  <2> TAKE t \in Regions
  <2>1. PICK x, y : x = total[r] * count[t] /\ y = total[t] * count[r]
    OBVIOUS
  <2>2. x \in Nat /\ y \in Nat
    BY <1>2, <2>1
  <2>3. Distance(x, y) \in Nat
    BY <2>2 DEF Distance
  <2> QED
    BY <2>1, <2>3
<1>4. \A s, t : Closer(r, s, t) <=> D(s) * count[t] < D(t) * count[s]
  BY DEF Closer
<1> HIDE DEF D, N
<1>5. \A s, t \in Regions : D(s) * count[t] \in Nat
  BY <1>2, <1>3
<1>6. ASSUME NEW s \in Regions, NEW t \in Regions, ~ Beats(r, s, t) PROVE Beats(r, t, s)
  <2>1. PICK x, y : x = D(s) * count[t] /\ y = D(t) * count[s]
    OBVIOUS
  <2>2. x \in Nat /\ y \in Nat /\ (Closer(r, s, t) <=> x < y) /\ (Closer(r, t, s) <=> y < x)
    BY <1>4, <1>5, <2>1
  <2>3. s \in Nat /\ t \in Nat
    BY <1>2
  <2> QED
    BY <1>6, <2>2, <2>3 DEF Beats
<1>7. ASSUME NEW x \in Regions, NEW s \in Regions, NEW t \in Regions,
             Beats(r, x, s), Beats(r, s, t)
      PROVE  Beats(r, x, t)
  <2>1. PICK a, b, c, p, q, e : /\ a = D(x) /\ b = D(s) /\ c = D(t)
                                /\ p = count[x] /\ q = count[s] /\ e = count[t]
    OBVIOUS
  <2>2. /\ a \in Nat /\ b \in Nat /\ c \in Nat /\ p \in Nat /\ q \in Nat /\ e \in Nat
        /\ p > 0 /\ q > 0 /\ e > 0 /\ x \in Nat /\ s \in Nat /\ t \in Nat
    BY <1>2, <1>3, <2>1
  <2>3. /\ Closer(r, x, s) <=> a * q < b * p
        /\ Closer(r, s, x) <=> b * p < a * q
        /\ Closer(r, s, t) <=> b * e < c * q
        /\ Closer(r, t, s) <=> c * q < b * e
        /\ Closer(r, x, t) <=> a * e < c * p
        /\ Closer(r, t, x) <=> c * p < a * e
    BY <1>4, <2>1
  <2>4. /\ a * q \in Nat /\ b * p \in Nat /\ b * e \in Nat /\ c * q \in Nat
        /\ a * e \in Nat /\ c * p \in Nat
    BY <2>2
  <2>5. ~ (b * p < a * q) /\ ~ (c * q < b * e)
    BY <1>7, <2>3 DEF Beats
  <2>6. a * q <= b * p /\ b * e <= c * q
    BY <2>4, <2>5
  <2>7. a * e <= c * p /\ (a * q < b * p \/ b * e < c * q => a * e < c * p)
    BY <2>2, <2>6, CrossProducts
  <2>8. ~ Closer(r, t, x)
    BY <2>3, <2>4, <2>7
  <2>9. ASSUME t < x PROVE Closer(r, x, t)
    <3>1. t < s \/ s < x
      BY <2>2, <2>9
    <3>2. a * q < b * p \/ b * e < c * q
      BY <1>7, <2>3, <3>1 DEF Beats
    <3> QED
      BY <2>3, <2>7, <3>2
  <2> QED
    BY <2>8, <2>9 DEF Beats
<1>8. ASSUME NEW s \in Regions PROVE Beats(r, s, s)
  <2>1. ~ (D(s) * count[s] < D(s) * count[s])
    BY <1>5
  <2>2. ~ (s < s)
    BY <1>2
  <2> QED
    BY <1>4, <2>1, <2>2 DEF Beats
<1> DEFINE G == {T \in SUBSET N : T = {} \/ \E s \in T : \A t \in T : Beats(r, s, t)}
<1>9. {} \in G
  OBVIOUS
<1>10. ASSUME NEW T \in SUBSET N, NEW x \in N \ T, T \in G PROVE T \cup {x} \in G
  <2>1. x \in Regions /\ \A t \in T : t \in Regions
    BY <1>1
  <2>2. T \cup {x} \in SUBSET N
    OBVIOUS
  <2>3. \E s \in T \cup {x} : \A t \in T \cup {x} : Beats(r, s, t)
    <3>1. CASE T = {}
      <4>1. Beats(r, x, x)
        BY <1>8, <2>1
      <4> QED
        BY <3>1, <4>1
    <3>2. CASE T # {}
      <4>1. PICK s \in T : \A t \in T : Beats(r, s, t)
        BY <1>10, <3>2
      <4>2. CASE Beats(r, s, x)
        BY <4>1, <4>2
      <4>3. CASE ~ Beats(r, s, x)
        <5>1. Beats(r, x, s) /\ Beats(r, x, x)
          BY <1>6, <1>8, <2>1, <4>3
        <5>2. \A t \in T : Beats(r, x, t)
          BY <1>7, <2>1, <4>1, <5>1
        <5> QED
          BY <5>1, <5>2
      <4> QED
        BY <4>2, <4>3
    <3> QED
      BY <3>1, <3>2
  <2> QED
    BY <2>2, <2>3
<1>11. N \in G
  <2> HIDE DEF G
  <2> QED
    BY <1>1, <1>9, <1>10, InductionOnSets
<1>12. N # {}
  BY DEF N
<1>13. \E s \in N : \A t \in N : Beats(r, s, t)
  BY <1>11, <1>12
<1>14. \E s \in Neighbours(r, labels) :
         \A t \in Neighbours(r, labels) : ~ Closer(r, t, s) /\ (t < s => Closer(r, s, t))
  BY <1>13 DEF N, Beats
<1> QED
  BY <1>14 DEF Candidate

(* From any pixel steps to the one beside it lead to every other.            *)
LEMMA Stepping ==
  ASSUME NEW v \in Pixels, v # 0
  PROVE  \E u \in Pixels : u < v /\ Beside(u, v)
<1>0. PICK w : w = Width
  OBVIOUS
<1>1. w \in Nat /\ w >= 3 /\ v \in Nat /\ v < Size
  BY <1>0, Sizes, PixelFacts
<1>2. CASE v >= w
  <2>1. PICK u : u = v - w
    OBVIOUS
  <2>2. u \in Nat /\ u < v /\ u < Size /\ v = u + w
    BY <1>1, <1>2, <2>1, Sizes
  <2>3. u \in Pixels
    BY <2>2, PixelFacts
  <2> QED
    BY <1>0, <2>2, <2>3 DEF Beside
<1>3. CASE v < w
  <2>1. PICK u : u = v - 1
    OBVIOUS
  <2>2. u \in Nat /\ u < v /\ u < Size /\ v = u + 1
    BY <1>1, <2>1, Sizes
  <2>3. v % w = v
    BY <1>1, <1>3
  <2>4. u \in Pixels
    BY <2>2, PixelFacts
  <2> QED
    BY <1>0, <2>2, <2>3, <2>4 DEF Beside
<1> QED
  BY <1>1, <1>2, <1>3

LEMMA WholeImage ==
  ASSUME NEW A, A \subseteq Pixels, A # {},
         \A u \in Pixels, v \in Pixels : Beside(u, v) => (u \in A <=> v \in A)
  PROVE  A = Pixels
<1>0. Pixels \subseteq Nat
  BY PixelFacts
<1>1. 0 \in A
  <2>1. PICK m \in A : \A n \in A : m <= n
    BY <1>0, LeastOf
  <2>2. CASE m # 0
    <3>1. PICK u \in Pixels : u < m /\ Beside(u, m)
      BY <2>2, Stepping
    <3>2. u \in A
      BY <3>1
    <3>3. m <= u /\ m \in Nat /\ u \in Nat
      BY <1>0, <2>1, <3>2
    <3> QED
      BY <3>1, <3>3
  <2> QED
    BY <2>1, <2>2
<1>2. SUFFICES ASSUME Pixels \ A # {} PROVE FALSE
  OBVIOUS
<1>3. PICK m \in Pixels \ A : \A n \in Pixels \ A : m <= n
  BY <1>0, <1>2, LeastOf
<1>4. PICK u \in Pixels : u < m /\ Beside(u, m)
  BY <1>1, Stepping
<1>5. u \in Pixels \ A
  BY <1>4
<1>6. m <= u /\ m \in Nat /\ u \in Nat
  BY <1>0, <1>3, <1>5
<1> QED
  BY <1>4, <1>6

LEMMA Alone ==
  ASSUME Books, NEW r \in Regions, Neighbours(r, labels) = {}
  PROVE  count[r] = Size
<1>1. \A v : v \in Area(r) <=> v \in Pixels /\ labels[v] = r
  BY DEF Area
<1>2. Area(r) # {}
  <2>1. PICK v \in Pixels : labels[v] = r
    BY DEF Books
  <2> QED
    BY <1>1, <2>1
<1>3. ASSUME NEW u \in Pixels, NEW v \in Pixels, Beside(u, v), labels[u] = r PROVE labels[v] = r
  <2>1. labels[v] # r => labels[v] \in Neighbours(r, labels)
    BY <1>3 DEF Neighbours
  <2> QED
    BY <2>1
<1>4. ASSUME NEW u \in Pixels, NEW v \in Pixels, Beside(u, v), labels[v] = r PROVE labels[u] = r
  <2>1. labels[u] # r => labels[u] \in Neighbours(r, labels)
    BY <1>4 DEF Neighbours
  <2> QED
    BY <2>1
<1>5. \A u \in Pixels, v \in Pixels : Beside(u, v) => (u \in Area(r) <=> v \in Area(r))
  BY <1>1, <1>3, <1>4
<1>6. Area(r) = Pixels
  BY <1>1, <1>2, <1>5, WholeImage
<1>7. count[r] = Cardinality(Area(r))
  BY DEF Books
<1> QED
  BY <1>6, <1>7, PixelFacts

LEMMA PruneRegionStep == ASSUME IInv, PruneRegion PROVE IInv'
<1>0. TypeOK /\ PruneOK
  BY DEF IInv
<1>1. PICK j, s : j = i /\ s = Candidate(j)
  OBVIOUS
<1>2. /\ stage = "prune" /\ j < regionCount /\ Neighbours(j, labels) # {}
      /\ small' = small + 1 /\ Join(j, s) /\ i' = i + 1
      /\ UNCHANGED <<luv, minRegion, labels, total, count, regionCount, stage, table, todo,
                     counter, oldCount, before>>
  BY <1>1 DEF PruneRegion, input
<1>3. Settled /\ Settled'
  BY <1>2 DEF Settled
<1>4. /\ Books /\ Descends(canon) /\ Regions \subseteq Pixels
      /\ \A q \in Regions : InOnePiece(ClassArea(q))
  BY <1>3, Settlement, BooksRegions
<1>5. /\ j \in Regions /\ j \in Pixels /\ i \in Nat /\ i + 1 \in 0 .. Size
      /\ regionCount \in Nat /\ i + 1 <= regionCount
  <2>1. i \in Nat /\ regionCount \in Nat /\ regionCount <= Size /\ j = i
    BY <1>0, <1>1, Sizes DEF TypeOK
  <2>2. j \in Regions
    BY <1>2, <2>1 DEF Regions
  <2>3. i + 1 <= regionCount /\ i + 1 \in 0 .. Size
    BY <1>2, <2>1, Sizes
  <2> QED
    BY <1>4, <2>1, <2>2, <2>3
<1>6. s \in Neighbours(j, labels) /\ s \in Pixels
  <2>1. s \in Neighbours(j, labels)
    BY <1>1, <1>2, <1>4, <1>5, CandidateIn
  <2> QED
    BY <1>4, <2>1, BooksRegions
<1>7. Descends(canon')
  BY <1>2, <1>4, <1>5, <1>6, Joined
<1>8. \A q \in Regions : InOnePiece(ClassArea(q)')
  <2>1. labels' = labels
    BY <1>2
  <2> QED
    BY <1>2, <1>4, <1>5, <1>6, <2>1, JoinPieces
<1>9. SettledOK'
  BY <1>2, <1>3, <1>7, <1>8, StillSettled
<1>10. small' \in Nat /\ small' # 0
  BY <1>0, <1>2 DEF TypeOK
<1>11. TypeOK'
  BY <1>0, <1>2, <1>5, <1>7, <1>10 DEF TypeOK, Descends
<1>12. ConnectOK' /\ ClosureOK' /\ PruneOK'
  BY <1>2, <1>5, <1>10 DEF ConnectOK, ClosureOK, PruneOK
<1> QED
  BY <1>9, <1>11, <1>12 DEF IInv

LEMMA PruneAloneStep == ASSUME IInv, PruneAlone PROVE IInv'
<1>0. TypeOK /\ PruneOK
  BY DEF IInv
<1>1. PICK j : j = i
  OBVIOUS
<1>2. /\ stage = "prune" /\ j < regionCount /\ count[j] < minRegion
      /\ Neighbours(j, labels) = {} /\ stage' = "crash"
      /\ UNCHANGED <<luv, minRegion, labels, total, count, regionCount, canon, i, table, todo,
                     small, counter, oldCount, before>>
  BY <1>1 DEF PruneAlone, input
<1>3. Settled /\ Settled'
  BY <1>2 DEF Settled
<1>4. Books
  BY <1>3, Settlement
<1>5. j \in Regions
  <2>1. j \in Nat /\ regionCount \in Nat
    BY <1>0, <1>1, Sizes DEF TypeOK
  <2> QED
    BY <1>2, <2>1 DEF Regions
<1>6. Size < minRegion
  BY <1>2, <1>4, <1>5, Alone
<1>7. SettledOK'
  <2>1. UNCHANGED <<labels, canon>>
    BY <1>2
  <2>2. /\ Descends(canon') /\ \A q \in Regions : InOnePiece(ClassArea(q)')
    BY <1>3, <2>1, SamePieces
  <2> QED
    BY <1>2, <1>3, <2>2, StillSettled
<1>8. TypeOK'
  BY <1>0, <1>2 DEF TypeOK
<1>9. ConnectOK' /\ ClosureOK' /\ PruneOK'
  BY <1>2, <1>6 DEF ConnectOK, ClosureOK, PruneOK
<1> QED
  BY <1>7, <1>8, <1>9 DEF IInv

LEMMA KeepRegionStep == ASSUME IInv, KeepRegion PROVE IInv'
<1>0. TypeOK /\ PruneOK
  BY DEF IInv
<1>1. /\ stage = "prune" /\ i < regionCount /\ count[i] >= minRegion /\ i' = i + 1
      /\ UNCHANGED <<luv, minRegion, labels, total, count, regionCount, canon, stage, table, todo,
                     small, counter, oldCount, before>>
  BY DEF KeepRegion, input
<1>2. Settled /\ Settled'
  BY <1>1 DEF Settled
<1>3. i \in Nat /\ regionCount \in Nat /\ i + 1 <= regionCount /\ i + 1 \in 0 .. Size
  BY <1>0, <1>1, Sizes DEF TypeOK
<1>4. SettledOK'
  <2>1. UNCHANGED <<labels, canon>>
    BY <1>1
  <2>2. /\ Descends(canon') /\ \A q \in Regions : InOnePiece(ClassArea(q)')
    BY <1>2, <2>1, SamePieces
  <2> QED
    BY <1>1, <1>2, <2>2, StillSettled
<1>5. TypeOK'
  BY <1>0, <1>1, <1>3 DEF TypeOK
<1>6. PruneOK'
  <2>1. small = 0 => /\ canon = [r \in Pixels |-> r]
                     /\ \A r \in Regions : r < i => count[r] >= minRegion
    BY <1>0, <1>1 DEF PruneOK
  <2>2. \A r \in Regions : r \in Nat
    BY <1>3 DEF Regions
  <2>3. \A r \in Regions : r < i + 1 => r < i \/ r = i
    BY <1>3, <2>2
  <2>4. small = 0 => \A r \in Regions : r < i + 1 => count[r] >= minRegion
    BY <1>1, <2>1, <2>3
  <2>5. Regions' = Regions
    BY <1>1 DEF Regions
  <2> QED
    BY <1>1, <1>3, <2>1, <2>4, <2>5 DEF PruneOK
<1>7. ConnectOK' /\ ClosureOK'
  BY <1>1 DEF ConnectOK, ClosureOK
<1> QED
  BY <1>4, <1>5, <1>6, <1>7 DEF IInv

LEMMA EndPruneStep == ASSUME IInv, EndPrune PROVE IInv'
<1>0. TypeOK /\ PruneOK
  BY DEF IInv
<1>1. /\ stage = "prune" /\ i = regionCount /\ Relabel /\ small' = 0
      /\ stage' = IF small > 0 THEN "prune" ELSE "done"
      /\ i' = 0 /\ canon' = [r \in Pixels |-> r]
      /\ UNCHANGED <<luv, minRegion, table, todo, counter, oldCount, before>>
  BY DEF EndPrune, Begin, input
<1>2. Settled
  BY <1>1 DEF Settled
<1>3. Books' /\ SettledOK'
  BY <1>1, <1>2, RelabelSettles
<1>4. /\ labels' \in [Pixels -> Pixels \union {-1}]
      /\ total' \in [Pixels -> Nat] /\ count' \in [Pixels -> Nat]
      /\ regionCount' \in 0 .. Size /\ regionCount' \in Nat
  <2>1. (/\ labels \in [Pixels -> Pixels \union {-1}]
         /\ total \in [Pixels -> Nat] /\ count \in [Pixels -> Nat]
         /\ regionCount \in 0 .. Size /\ regionCount \in Nat
         /\ Neighbours(0, labels) \subseteq Pixels)'
    BY <1>3, BooksTyped, PTL
  <2> QED
    BY <2>1
<1>5. TypeOK'
  <2>1. canon' \in [Pixels -> Pixels]
    BY <1>1
  <2>2. i' \in 0 .. Size
    BY <1>1, Sizes
  <2>3. stage' \in {"connect", "closure", "prune", "done", "crash"}
    BY <1>1
  <2> QED
    BY <1>0, <1>1, <1>4, <2>1, <2>2, <2>3 DEF TypeOK
<1>6. CASE small > 0
  <2>1. stage' = "prune"
    BY <1>1, <1>6
  <2>2. \A r \in Regions' : ~ (r < i')
    <3>1. \A r \in Regions' : r \in Nat
      BY <1>4 DEF Regions
    <3> QED
      BY <1>1, <3>1
  <2>3. PruneOK' /\ ConnectOK' /\ ClosureOK'
    BY <1>1, <1>4, <2>1, <2>2 DEF PruneOK, ConnectOK, ClosureOK
  <2> QED
    BY <1>3, <1>5, <2>3 DEF IInv
<1>7. CASE ~ (small > 0)
  <2>1. small = 0 /\ stage' = "done"
    BY <1>0, <1>1, <1>7 DEF TypeOK
  <2>2. /\ canon = [r \in Pixels |-> r]
        /\ \A r \in Regions : r < i => count[r] >= minRegion
    BY <1>0, <1>1, <2>1 DEF PruneOK
  <2>3. Books /\ Descends(canon)
    BY <1>2, Settlement
  <2>4. \A r \in Regions : CanonicalElement(r) = r
    BY <2>2, <2>3, FreshCanonical, BooksRegions
  <2>5. /\ regionCount' = regionCount
        /\ \A r \in Regions : count'[r] = count[r]
    BY <1>1, <2>3, <2>4, Relabelled
  <2>6. \A r \in Regions : r < i
    <3>1. regionCount \in Nat
      BY <2>3, BooksRegions
    <3> QED
      BY <1>1, <3>1 DEF Regions
  <2>7. \A r \in Regions' : count'[r] >= minRegion'
    <3>1. Regions' = Regions
      BY <2>5 DEF Regions
    <3> QED
      BY <1>1, <2>2, <2>5, <2>6, <3>1
  <2>8. PruneOK' /\ ConnectOK' /\ ClosureOK'
    BY <2>1, <2>7 DEF PruneOK, ConnectOK, ClosureOK
  <2> QED
    BY <1>3, <1>5, <2>8 DEF IInv
<1> QED
  BY <1>6, <1>7

-----------------------------------------------------------------------------
LEMMA StutterStep == ASSUME IInv, UNCHANGED vars PROVE IInv'
<1>0. UNCHANGED <<luv, minRegion, labels, total, count, regionCount, canon, stage, i, table,
                  todo, small, counter, oldCount, before>>
  BY DEF vars, input
<1>1. TypeOK' /\ PruneOK'
  BY <1>0 DEF IInv, TypeOK, PruneOK, Regions
<1>2. (\A r : Area(r)' = Area(r)) /\ Regions' = Regions /\ Used' = Used
      /\ (\A u : Open(u)' <=> Open(u)) /\ (\A u, v : Alike(u, v)' <=> Alike(u, v))
      /\ Apart' = Apart
      /\ (\A r : Neighbours(r, labels)' = Neighbours(r, labels))
      /\ (\A r, s : InWindow(r, s, total, count)' <=> InWindow(r, s, total, count))
      /\ \A q : CanonicalElement(q)' = CanonicalElement(q)
  <2>1. \A q : CanonicalElement(q)' = CanonicalElement(q)
    BY <1>0, CanonicalIsClimb, CanonicalIsClimbNext
  <2> QED
    BY <1>0, <2>1, SameApart DEF Area, Regions, Used, Open, Alike, Neighbours, InWindow
<1>3. ConnectOK'
  BY <1>0, <1>2 DEF IInv, ConnectOK
<1>4. SettledOK'
  <2>1. CASE Settled
    <3>1. Settled'
      BY <1>0, <2>1 DEF Settled
    <3>2. UNCHANGED <<labels, canon>>
      BY <1>0
    <3>3. Descends(canon') /\ \A q \in Regions : InOnePiece(ClassArea(q)')
      BY <2>1, <3>2, SamePieces
    <3> QED
      BY <1>0, <2>1, <3>1, <3>3, StillSettled
  <2>2. CASE ~ Settled
    BY <1>0, <2>2 DEF Settled, SettledOK
  <2> QED
    BY <2>1, <2>2
<1>5. ClosureOK'
  BY <1>0, <1>2 DEF IInv, ClosureOK
<1> QED
  BY <1>1, <1>3, <1>4, <1>5 DEF IInv

(* Every state is as IInv says: labels, counts and areas agree, regions and  *)
(* the classes of joined regions hang together, and what a pass has left to  *)
(* do is in its loop variables.                                              *)
THEOREM Invariance == Spec => []IInv
<1>1. Init => IInv
  BY InitOK
<1>2. IInv /\ [Next]_vars => IInv'
  BY SeedStep, LabelledStep, FillOnStep, FillBackStep, FilledStep, EndConnectStep,
     CloseWithStep, NextRegionStep, EndClosureStep, PruneRegionStep, PruneAloneStep,
     KeepRegionStep, EndPruneStep, StutterStep DEF Next
<1> QED
  BY <1>1, <1>2, PTL DEF Spec

(* Labels, counts and areas tell of the same regions after every pass.       *)
THEOREM BooksKept == Spec => []CountsAreAreas
<1>1. IInv => CountsAreAreas
  BY DEF IInv, SettledOK, CountsAreAreas, Settled
<1> QED
  BY <1>1, Invariance, PTL

(* Connect leaves no two pixels apart that Fill could go between, and a      *)
(* region hangs together after every pass.                                   *)
THEOREM NoPixelMissed == Spec => []FilledWhole
<1>1. IInv => FilledWhole
  BY DEF IInv, SettledOK, ClosureOK, FilledWhole, Settled
<1> QED
  BY <1>1, Invariance, PTL

(* A closure brings together what chains of near regions lead between, and   *)
(* nothing else.                                                             *)
THEOREM ClosureExact == Spec => []TransitivelyClosed
<1>1. IInv => TransitivelyClosed
  <2> SUFFICES ASSUME IInv, stage = "closure", i = regionCount, NEW r \in Regions, NEW s \in Regions
               PROVE  CanonicalElement(r) = CanonicalElement(s) <=>
                        \A S \in Apart : r \in S => s \in S
    BY DEF TransitivelyClosed
  <2>1. Settled /\ Books /\ Regions \subseteq Pixels
    BY Settlement, BooksRegions DEF Settled
  <2>2. /\ before = [labels |-> labels, total |-> total, count |-> count]
        /\ \A p, q \in Regions :
             q \in Neighbours(p, labels) /\ InWindow(p, q, total, count)
               /\ (p < i \/ (p = i /\ q \notin todo))
             => CanonicalElement(p) = CanonicalElement(q)
        /\ \A p, q \in Regions : CanonicalElement(p) = CanonicalElement(q) =>
             \A S \in Apart : p \in S => q \in S
    BY DEF IInv, ClosureOK
  <2>3. OldRegions = Regions
    BY <2>1, <2>2 DEF OldRegions, Books
  <2>4. \A p \in Regions : p < i
    <3>1. regionCount \in Nat
      BY <2>1, BooksRegions
    <3> QED
      BY <3>1 DEF Regions
  <2>5. ASSUME \A S \in Apart : r \in S => s \in S
        PROVE  CanonicalElement(r) = CanonicalElement(s)
    <3> DEFINE C == {p \in Regions : CanonicalElement(p) = CanonicalElement(r)}
    <3>1. ASSUME NEW p \in C, NEW q \in OldRegions \ C, Near(p, q) PROVE FALSE
      <4>1. p \in Regions /\ q \in Regions /\ CanonicalElement(p) # CanonicalElement(q)
        BY <2>3, <3>1
      <4>2. q \in Neighbours(p, labels) /\ p \in Neighbours(q, labels)
        <5>1. q \in Neighbours(p, labels)
          BY <2>2, <3>1 DEF Near
        <5> QED
          BY <5>1, NeighboursBack
      <4>3. InWindow(p, q, total, count) \/ InWindow(q, p, total, count)
        BY <2>2, <3>1 DEF Near
      <4> QED
        BY <2>2, <2>4, <4>1, <4>2, <4>3
    <3>2. C \in Apart
      <4>1. C \subseteq OldRegions
        BY <2>3
      <4> HIDE DEF C
      <4> QED
        BY <3>1, <4>1 DEF Apart
    <3>3. s \in C
      BY <2>5, <3>2
    <3> QED
      BY <3>3
  <2> QED
    BY <2>2, <2>5
<1> QED
  BY <1>1, Invariance, PTL

(* Prune ends with no region below the least area, and is left without a     *)
(* neighbour only where the whole image is smaller than that.                *)
THEOREM NothingTooSmall == Spec => []NoSmallRegion
<1>1. IInv => NoSmallRegion
  <2> SUFFICES ASSUME IInv PROVE NoSmallRegion
    OBVIOUS
  <2>1. /\ stage = "done" => \A r \in Regions : count[r] >= minRegion
        /\ stage = "crash" => Size < minRegion
    BY DEF IInv, PruneOK
  <2>2. stage = "done" => \A r \in Regions : count[r] = Cardinality(Area(r))
    BY DEF IInv, SettledOK, CountsAreAreas, Settled
  <2> QED
    BY <2>1, <2>2 DEF NoSmallRegion
<1> QED
  BY <1>1, Invariance, PTL
==============================================================================
