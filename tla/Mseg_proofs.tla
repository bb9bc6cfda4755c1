---------------------------- MODULE Mseg_proofs ----------------------------
(***************************************************************************)
(* Proofs for mseg, for images of any size and any constants of the        *)
(* algorithm.  The disjoint-set forest is a partition of the pixels at     *)
(* every step of find and join, whatever paths find has shortened; this    *)
(* makes the result of find the component it stands for.                   *)
(*                                                                         *)
(* Then that the first pass does what the paper says.  A threshold is the  *)
(* paper's measure of its component (ThresholdsOK).  An edge that keeps    *)
(* two components apart finishes one of them, since all edges to come are  *)
(* heavier; so a set of pixels that ends inside a larger component was     *)
(* left by an edge that it would have taken (WaysOut), and a finer         *)
(* segmentation would have been too fine.                                  *)
(***************************************************************************)
EXTENDS Mseg, FiniteSums

LEMMA PixelFacts == /\ Pixels \subseteq Nat /\ IsFiniteSet(Pixels)
                    /\ 0 \in Pixels
                    /\ Width * Height \in Nat \ {0}
                    /\ Cardinality(Pixels) = Width * Height
<1>1. Width * Height \in Nat \ {0}
  BY MsegAssumption
<1>2. IsFiniteSet(0 .. Width * Height - 1) /\ Cardinality(0 .. Width * Height - 1) = Width * Height
  <2>1. 0 \in Int /\ Width * Height - 1 \in Int
    BY <1>1
  <2> HIDE DEF Pixels
  <2>2. /\ IsFiniteSet(0 .. Width * Height - 1)
        /\ Cardinality(0 .. Width * Height - 1) =
             IF 0 > Width * Height - 1 THEN 0 ELSE Width * Height - 1 - 0 + 1
    BY <2>1, FS_Interval
  <2> QED
    BY <2>2, <1>1
<1> QED
  BY <1>1, <1>2 DEF Pixels

LEMMA EdgesInImage == Edges \subseteq Pixels \X Pixels
  BY DEF Edges

LEMMA WeightType == ASSUME TypeOK, NEW e \in Edges
                    PROVE  Weight(e) \in Nat
<1>1. image[e[1]] \in Nat /\ image[e[2]] \in Nat
  <2>1. e[1] \in Pixels /\ e[2] \in Pixels
    BY EdgesInImage
  <2>2. image \in [Pixels -> Nat]
    BY MsegAssumption DEF TypeOK
  <2> QED
    BY <2>1, <2>2
<1> QED
  BY <1>1 DEF Weight

(* A component that takes an edge takes every lighter one.                 *)
LEMMA WithinMonotone ==
  ASSUME NEW t \in [w : Nat, size : Nat \ {0}], NEW v \in Nat, NEW w \in Nat,
         v <= w, Within(w, t)
  PROVE  Within(v, t)
<1>1. ASSUME NEW d \in Int, NEW e \in Int, NEW n \in Nat \ {0}, d <= e
      PROVE  d * n <= e * n
  BY <1>1
<1>2. v - t.w <= w - t.w /\ t.size \in Nat \ {0} /\ v - t.w \in Int /\ w - t.w \in Int
  OBVIOUS
<1>3. (v - t.w) * t.size <= (w - t.w) * t.size
  BY <1>1, <1>2
<1>4. (v - t.w) * t.size \in Int /\ (w - t.w) * t.size \in Int
  BY <1>2
<1> QED
  BY <1>3, <1>4, MsegAssumption DEF Within

(* Shortening a path changes no component and no root.                     *)
LEMMA Shortened ==
  ASSUME TypeOK, ForestOK, pc = "find", CallOK, Root(y),
         p' = [p EXCEPT ![x] = y], UNCHANGED <<rank, size, num, part>>
  PROVE  /\ p' \in [Pixels -> Pixels]
         /\ \A v \in Pixels : Root(v)' <=> Root(v)
         /\ part' = part
         /\ ForestOK'
<1>1. x \in Pixels /\ y \in Pixels /\ p \in [Pixels -> Pixels]
  BY DEF TypeOK
<1>2. part[y] = part[x] /\ (x = y \/ rank[x] < rank[y])
  BY DEF CallOK
<1>3. p' \in [Pixels -> Pixels]
  BY <1>1
<1>4. \A v \in Pixels : Root(v)' <=> Root(v)
  BY <1>1, <1>2 DEF ForestOK, Root
<1>5. {v \in Pixels : Root(v)}' = {v \in Pixels : Root(v)}
  BY <1>4
<1>6. \A v \in Pixels : part[p'[v]] = part[v]
  BY <1>1, <1>2 DEF ForestOK
<1>7. \A v \in Pixels : ~ Root(v) => rank[v] < rank[p'[v]]
  BY <1>1, <1>2 DEF ForestOK, Root
<1> QED
  BY <1>3, <1>4, <1>5, <1>6, <1>7 DEF ForestOK

(* One root below another makes one component of two.                      *)
LEMMA Linked ==
  ASSUME TypeOK, ForestOK, Root(a), Root(b), a # b,
         NEW c, NEW r, c \in {a, b}, r \in {a, b}, c # r,
         Link(c, r), rank' \in [Pixels -> Nat],
         \A v \in Pixels : v # r => rank'[v] = rank[v],
         rank'[r] >= rank[r], rank'[c] < rank'[r]
  PROVE  /\ p' \in [Pixels -> Pixels] /\ size' \in [Pixels -> Nat] /\ num' \in Int
         /\ part' \in [Pixels -> SUBSET Pixels]
         /\ \A v \in Pixels : Root(v)' <=> Root(v) /\ v # c
         /\ ForestOK'
<1> DEFINE AB == part[a] \union part[b]
<1>1. /\ c \in Pixels /\ r \in Pixels /\ a \in Pixels /\ b \in Pixels
      /\ p \in [Pixels -> Pixels] /\ size \in [Pixels -> Nat] /\ num \in Int
      /\ rank \in [Pixels -> Nat] /\ part \in [Pixels -> SUBSET Pixels]
  BY DEF TypeOK
<1>2. /\ p' = [p EXCEPT ![c] = r]
      /\ size' = [size EXCEPT ![r] = size[r] + size[c]]
      /\ num' = num - 1
      /\ part' = [v \in Pixels |-> IF v \in AB THEN AB ELSE part[v]]
  BY DEF Link
<1>3. /\ p' \in [Pixels -> Pixels] /\ size' \in [Pixels -> Nat] /\ num' \in Int
      /\ part' \in [Pixels -> SUBSET Pixels]
  BY <1>1, <1>2
<1>4. \A v \in Pixels : Root(v)' <=> Root(v) /\ v # c
  BY <1>1, <1>2 DEF Root
<1>5. part[a] \cap part[b] = {}
  BY <1>1 DEF ForestOK
<1>6. \A v \in Pixels : v \in AB <=> part[v] = part[a] \/ part[v] = part[b]
  BY <1>1 DEF ForestOK
<1>7. /\ \A v \in Pixels : v \in part'[v]
      /\ \A u, v \in Pixels : u \in part'[v] => part'[u] = part'[v]
  BY <1>1, <1>2, <1>6 DEF ForestOK
<1>8. \A v \in Pixels : part'[p'[v]] = part'[v]
  <2> TAKE v \in Pixels
  <2>1. CASE v = c
    BY <2>1, <1>1, <1>2, <1>6
  <2>2. CASE v # c
    <3>1. p'[v] = p[v] /\ p[v] \in Pixels /\ part[p[v]] = part[v]
      BY <2>2, <1>1, <1>2 DEF ForestOK
    <3> QED
      BY <3>1, <1>1, <1>2, <1>6
  <2> QED
    BY <2>1, <2>2
<1>9. \A u, v \in Pixels : Root(u)' /\ Root(v)' /\ part'[u] = part'[v] => u = v
  <2> SUFFICES ASSUME NEW u \in Pixels, NEW v \in Pixels,
                      Root(u), Root(v), u # c, v # c, part'[u] = part'[v]
               PROVE  u = v
    BY <1>4
  <2>1. CASE u \in AB
    <3>1. v \in AB
      BY <2>1, <1>1, <1>2, <1>7
    <3>2. u = r /\ v = r
      BY <2>1, <3>1, <1>1, <1>6 DEF ForestOK
    <3> QED
      BY <3>2
  <2>2. CASE u \notin AB
    <3>1. v \notin AB
      BY <2>2, <1>1, <1>2, <1>7
    <3> QED
      BY <2>2, <3>1, <1>1, <1>2 DEF ForestOK
  <2> QED
    BY <2>1, <2>2
<1>10. \A v \in Pixels : ~ Root(v)' => rank'[v] < rank'[p'[v]]
  <2> SUFFICES ASSUME NEW v \in Pixels, ~ Root(v) \/ v = c
               PROVE  rank'[v] < rank'[p'[v]]
    BY <1>4
  <2>1. CASE v = c
    BY <2>1, <1>1, <1>2
  <2>2. CASE v # c
    <3>1. p'[v] = p[v] /\ p[v] \in Pixels /\ rank[v] < rank[p[v]] /\ v # r
      BY <2>2, <1>1, <1>2 DEF ForestOK, Root
    <3>2. rank'[p[v]] >= rank[p[v]] /\ rank'[v] = rank[v]
      BY <3>1, <1>1
    <3> QED
      BY <3>1, <3>2, <1>1
  <2> QED
    BY <2>1, <2>2
<1>11. \A v \in Pixels : Root(v)' => size'[v] = Cardinality(part'[v])
  <2> SUFFICES ASSUME NEW v \in Pixels, Root(v), v # c
               PROVE  size'[v] = Cardinality(part'[v])
    BY <1>4
  <2>1. CASE v = r
    <3>1. IsFiniteSet(part[a]) /\ IsFiniteSet(part[b])
      BY <1>1, PixelFacts, FS_Subset
    <3>2. Cardinality(AB) = Cardinality(part[a]) + Cardinality(part[b])
                              - Cardinality(part[a] \cap part[b])
      BY <3>1, FS_Union
    <3>3. Cardinality(part[a] \cap part[b]) = 0
      BY <1>5, FS_EmptySet
    <3>4. size[a] = Cardinality(part[a]) /\ size[b] = Cardinality(part[b])
      BY <1>1 DEF ForestOK
    <3>5. size'[v] = size[a] + size[b]
      BY <2>1, <1>1, <1>2
    <3>6. part'[v] = AB
      BY <2>1, <1>1, <1>2, <1>6
    <3> HIDE DEF AB
    <3> QED
      BY <3>2, <3>3, <3>4, <3>5, <3>6, <1>1
  <2>2. CASE v # r
    <3>1. v \notin AB
      BY <2>2, <1>1, <1>6 DEF ForestOK
    <3> QED
      BY <2>2, <3>1, <1>1, <1>2 DEF ForestOK
  <2> QED
    BY <2>1, <2>2
<1>12. num' = Cardinality({v \in Pixels : Root(v)}')
  <2> DEFINE R == {v \in Pixels : Root(v)}
  <2>1. R' = R \ {c} /\ c \in R
    BY <1>1, <1>4 DEF Root
  <2>2. IsFiniteSet(R)
    BY PixelFacts, FS_Subset
  <2>3. num = Cardinality(R)
    BY DEF ForestOK
  <2> HIDE DEF R
  <2>4. Cardinality(R \ {c}) = Cardinality(R) - 1
    BY <2>1, <2>2, FS_RemoveElement
  <2> QED
    BY <2>1, <2>3, <2>4, <1>2 DEF R
<1> QED
  BY <1>3, <1>4, <1>7, <1>8, <1>9, <1>10, <1>11, <1>12 DEF ForestOK

LEMMA Joined ==
  ASSUME TypeOK, ForestOK, Root(a), Root(b), a # b, Join
  PROVE  /\ p' \in [Pixels -> Pixels] /\ size' \in [Pixels -> Nat] /\ num' \in Int
         /\ part' \in [Pixels -> SUBSET Pixels] /\ rank' \in [Pixels -> Nat]
         /\ \E c \in {a, b} : \A v \in Pixels : Root(v)' <=> Root(v) /\ v # c
         /\ part' = [v \in Pixels |-> IF v \in part[a] \union part[b]
                                         THEN part[a] \union part[b] ELSE part[v]]
         /\ ForestOK'
<1>1. a \in Pixels /\ b \in Pixels /\ rank \in [Pixels -> Nat]
  BY DEF TypeOK
<1>2. CASE rank[a] > rank[b] /\ Link(b, a) /\ UNCHANGED rank
  <2>1. rank' \in [Pixels -> Nat] /\ rank'[a] >= rank[a] /\ rank'[b] < rank'[a]
    BY <1>1, <1>2
  <2> QED
    BY <1>1, <1>2, <2>1, Linked DEF Link
<1>3. CASE rank[a] = rank[b] /\ Link(a, b) /\ rank' = [rank EXCEPT ![b] = rank[b] + 1]
  <2>1. /\ rank' \in [Pixels -> Nat] /\ rank'[b] >= rank[b] /\ rank'[a] < rank'[b]
        /\ \A v \in Pixels : v # b => rank'[v] = rank[v]
    BY <1>1, <1>3
  <2> QED
    BY <1>1, <1>3, <2>1, Linked DEF Link
<1>4. CASE rank[a] < rank[b] /\ Link(a, b) /\ UNCHANGED rank
  <2>1. rank' \in [Pixels -> Nat] /\ rank'[b] >= rank[b] /\ rank'[a] < rank'[b]
    BY <1>1, <1>4
  <2> QED
    BY <1>1, <1>4, <2>1, Linked DEF Link
<1> QED
  BY <1>2, <1>3, <1>4 DEF Join

-----------------------------------------------------------------------------
LEMMA Initially == Init => IInv
<1> SUFFICES ASSUME Init PROVE IInv
  OBVIOUS
<1>1. TypeOK
  BY PixelFacts, MsegAssumption DEF Init, TypeOK
<1>2. ForestOK
  <2>1. \A v \in Pixels : Root(v)
    BY DEF Init, Root
  <2>2. {v \in Pixels : Root(v)} = Pixels
    BY <2>1
  <2>3. \A v \in Pixels : Cardinality({v}) = 1
    BY FS_Singleton
  <2>4. /\ part = [v \in Pixels |-> {v}] /\ p = [v \in Pixels |-> v]
        /\ size = [v \in Pixels |-> 1] /\ num = Width * Height
    BY DEF Init
  <2> QED
    BY <2>1, <2>2, <2>3, <2>4, PixelFacts DEF ForestOK
<1>3. order = <<>> /\ i = 0 /\ stage = "segment" /\ pc = "next"
  BY DEF Init
<1>4. CallOK /\ Sorted /\ KeptApart /\ SmallJoined /\ Painted
  BY <1>3 DEF CallOK, Sorted, KeptApart, SmallJoined, Painted
<1> QED
  BY <1>1, <1>2, <1>4 DEF IInv

(* What a call of find on the way keeps: components and what is known of   *)
(* the edges dealt with.                                                   *)
LEMMA OnTheWay ==
  ASSUME IInv, pc # "next", pc' # "next", part' = part,
         \A v \in Pixels : Root(v)' <=> Root(v),
         UNCHANGED <<image, order, stage, i, threshold, output>>
  PROVE  Sorted' /\ KeptApart' /\ SmallJoined' /\ Painted'
<1>1. \A k \in Nat : DealtWith(k)' <=> DealtWith(k)
  BY DEF DealtWith
<1>2. Sorted'
  BY DEF IInv, Sorted, Remaining, Weight
<1>3. KeptApart'
  <2> SUFFICES ASSUME stage = "segment", NEW k \in 1 .. Len(order),
                      NEW r \in Pixels, NEW s \in Pixels, DealtWith(k),
                      Root(r), part[r] = part[order[k][1]],
                      Root(s), part[s] = part[order[k][2]], r # s
               PROVE  \/ ~ Within(Weight(order[k]), threshold[r])'
                      \/ ~ Within(Weight(order[k]), threshold[s])'
    BY <1>1 DEF KeptApart
  <2>1. \/ ~ Within(Weight(order[k]), threshold[r])
        \/ ~ Within(Weight(order[k]), threshold[s])
    BY DEF IInv, KeptApart
  <2> QED
    BY <2>1 DEF Within, Weight
<1>4. SmallJoined'
  BY <1>1 DEF IInv, SmallJoined
<1>5. Painted'
  <2>1. output' = output /\ i' = i /\ stage' = stage /\ output \in [Pixels -> Pixels]
    BY DEF IInv, TypeOK
  <2>2. stage = "paint" => \A v \in Pixels : v + 1 < i =>
                                   Root(output[v]) /\ part[output[v]] = part[v]
    BY DEF IInv, Painted
  <2>3. stage # "done"
    BY DEF IInv, CallOK
  <2> QED
    BY <2>1, <2>2, <2>3 DEF Painted
<1> QED
  BY <1>2, <1>3, <1>4, <1>5

LEMMA ClimbStep == IInv /\ Climb => IInv'
<1> SUFFICES ASSUME IInv, Climb PROVE IInv'
  OBVIOUS
<1>1. /\ pc = "find" /\ ~ Root(y) /\ y' = p[y] /\ y \in Pixels /\ x \in Pixels
      /\ UNCHANGED <<image, forest, threshold, order, stage, i, pc, x, for, a, b, output>>
  BY DEF Climb, IInv, TypeOK, Root
<1>2. TypeOK'
  BY <1>1 DEF forest, IInv, TypeOK
<1>3. ForestOK'
  BY <1>1 DEF forest, IInv, ForestOK, Root
<1>4. part[y'] = part[x] /\ rank[x] < rank[y']
  <2>1. part[p[y]] = part[y] /\ rank[y] < rank[p[y]]
    BY <1>1 DEF IInv, ForestOK
  <2>2. part[y] = part[x] /\ (x = y \/ rank[x] < rank[y])
    BY <1>1 DEF IInv, CallOK
  <2>3. rank[x] \in Nat /\ rank[y] \in Nat /\ rank[p[y]] \in Nat
    BY <1>1 DEF IInv, TypeOK
  <2> QED
    BY <1>1, <2>1, <2>2, <2>3
<1>5. CallOK'
  BY <1>1, <1>4 DEF forest, IInv, CallOK, Root, edge, Within, Weight
<1> QED
  BY <1>1, <1>2, <1>3, <1>5, OnTheWay DEF forest, IInv, Root

(* Every Found step begins alike.                                          *)
LEMMA FoundRoot ==
  ASSUME IInv, NEW who, Found(who)
  PROVE  /\ pc = "find" /\ for = who /\ Root(y) /\ part[y] = part[x]
         /\ x \in Pixels /\ y \in Pixels
         /\ p' \in [Pixels -> Pixels]
         /\ \A v \in Pixels : Root(v)' <=> Root(v)
         /\ part' = part /\ UNCHANGED <<rank, size, num>>
         /\ ForestOK'
<1>1. pc = "find" /\ for = who /\ Root(y) /\ p' = [p EXCEPT ![x] = y]
  BY DEF Found, Root
<1>2. UNCHANGED <<rank, size, num, part>>
  BY DEF Found
<1>3. part[y] = part[x] /\ x \in Pixels /\ y \in Pixels
  BY <1>1 DEF IInv, CallOK, TypeOK
<1>4. TypeOK /\ ForestOK /\ CallOK
  BY DEF IInv
<1> QED
  BY <1>1, <1>2, <1>3, <1>4, Shortened

LEMMA EdgeInImage ==
  ASSUME IInv, stage \in {"segment", "small"}, pc # "next"
  PROVE  /\ i \in 1 .. Len(order) /\ edge \in Edges
         /\ edge[1] \in Pixels /\ edge[2] \in Pixels
         /\ for # "pixel" /\ Weight(edge) \in Nat
<1>1. i > 0 /\ for # "pixel" /\ i <= Len(order) /\ i \in Nat
  BY DEF IInv, CallOK, TypeOK
<1>2. order \in Seq(Edges)
  BY DEF IInv, TypeOK
<1>3. edge \in Edges
  BY <1>1, <1>2 DEF edge
<1> QED
  BY <1>1, <1>2, <1>3, EdgesInImage, WeightType DEF IInv

LEMMA FoundAStep == IInv /\ FoundA => IInv'
<1> SUFFICES ASSUME IInv, FoundA PROVE IInv'
  OBVIOUS
<1>1. /\ pc = "find" /\ for = "a" /\ Root(y) /\ part[y] = part[x]
      /\ x \in Pixels /\ y \in Pixels
      /\ p' \in [Pixels -> Pixels]
      /\ \A v \in Pixels : Root(v)' <=> Root(v)
      /\ part' = part /\ UNCHANGED <<rank, size, num>>
      /\ ForestOK'
  BY FoundRoot DEF FoundA
<1>2. /\ a' = y /\ pc' = "find" /\ x' = edge[2] /\ y' = edge[2] /\ for' = "b"
      /\ UNCHANGED <<image, threshold, order, stage, i, b, output>>
  BY DEF FoundA, Find
<1>3. stage \in {"segment", "small"} /\ x = edge[1]
  BY <1>1 DEF IInv, CallOK, TypeOK
<1>4. edge[2] \in Pixels /\ i \in 1 .. Len(order) /\ edge' = edge
  BY <1>1, <1>2, <1>3, EdgeInImage DEF edge
<1>5. TypeOK'
  BY <1>1, <1>2, <1>4 DEF IInv, TypeOK
<1>6. CallOK'
  BY <1>1, <1>2, <1>3, <1>4 DEF IInv, CallOK
<1> QED
  BY <1>1, <1>2, <1>5, <1>6, OnTheWay DEF IInv

LEMMA FoundBStep == IInv /\ FoundB => IInv'
<1> SUFFICES ASSUME IInv, FoundB PROVE IInv'
  OBVIOUS
<1>1. /\ pc = "find" /\ for = "b" /\ Root(y) /\ part[y] = part[x]
      /\ x \in Pixels /\ y \in Pixels
      /\ p' \in [Pixels -> Pixels]
      /\ \A v \in Pixels : Root(v)' <=> Root(v)
      /\ part' = part /\ UNCHANGED <<rank, size, num>>
      /\ ForestOK'
  BY FoundRoot DEF FoundB
<1>2. /\ b' = y /\ pc' = "test"
      /\ UNCHANGED <<image, threshold, order, stage, i, x, y, for, a, output>>
  BY DEF FoundB
<1>3. /\ stage \in {"segment", "small"} /\ x = edge[2]
      /\ Root(a) /\ part[a] = part[edge[1]] /\ a \in Pixels
  BY <1>1 DEF IInv, CallOK, TypeOK
<1>4. edge' = edge /\ i \in 1 .. Len(order)
  BY <1>1, <1>2, <1>3, EdgeInImage DEF edge
<1>5. TypeOK'
  BY <1>1, <1>2 DEF IInv, TypeOK
<1>6. CallOK'
  BY <1>1, <1>2, <1>3, <1>4 DEF IInv, CallOK
<1> QED
  BY <1>1, <1>2, <1>5, <1>6, OnTheWay DEF IInv

LEMMA FoundJoinedStep == IInv /\ FoundJoined => IInv'
<1> SUFFICES ASSUME IInv, FoundJoined PROVE IInv'
  OBVIOUS
<1>1. /\ pc = "find" /\ for = "joined" /\ Root(y) /\ part[y] = part[x]
      /\ x \in Pixels /\ y \in Pixels
      /\ p' \in [Pixels -> Pixels]
      /\ \A v \in Pixels : Root(v)' <=> Root(v)
      /\ part' = part /\ UNCHANGED <<rank, size, num>>
      /\ ForestOK'
  BY FoundRoot DEF FoundJoined
<1>2. /\ a' = y /\ pc' = "next"
      /\ threshold' = [threshold EXCEPT ![y] = [w |-> Weight(edge), size |-> size[y]]]
      /\ UNCHANGED <<image, order, stage, i, x, y, for, b, output>>
  BY DEF FoundJoined
<1>3. /\ stage = "segment"
      /\ part[x] = part[edge[1]] /\ part[edge[1]] = part[edge[2]]
      /\ \A r \in Pixels : Root(r) /\ part[r] = part[x] => Within(Weight(edge), threshold[r])
  BY <1>1 DEF IInv, CallOK
<1>4. i \in 1 .. Len(order) /\ i = Len(order) /\ edge \in Edges /\ Weight(edge) \in Nat
  BY <1>1, <1>3, EdgeInImage DEF IInv, CallOK
<1>5. size[y] \in Nat \ {0}
  <2>1. y \in part[y] /\ size[y] = Cardinality(part[y]) /\ part[y] \in SUBSET Pixels
    BY <1>1 DEF IInv, ForestOK, TypeOK
  <2>2. IsFiniteSet(part[y])
    BY <2>1, PixelFacts, FS_Subset
  <2> QED
    BY <2>1, <2>2, FS_CardinalityType, FS_EmptySet
<1>6. TypeOK'
  BY <1>1, <1>2, <1>4, <1>5 DEF IInv, TypeOK
<1>7. CallOK'
  BY <1>2, <1>3, <1>4 DEF IInv, CallOK
<1>8. Sorted'
  BY <1>2 DEF IInv, Sorted, Remaining, Weight
<1>9. KeptApart'
  <2> SUFFICES ASSUME NEW k \in 1 .. Len(order), NEW r \in Pixels, NEW s \in Pixels,
                      Root(r), part[r] = part[order[k][1]],
                      Root(s), part[s] = part[order[k][2]], r # s
               PROVE  \/ ~ Within(Weight(order[k]), threshold'[r])
                      \/ ~ Within(Weight(order[k]), threshold'[s])
    BY <1>1, <1>2 DEF KeptApart, DealtWith, Within, Weight
  <2>1. k # i
    BY <1>3 DEF IInv, ForestOK, edge
  <2>2. DealtWith(k)
    BY <2>1, <1>4 DEF DealtWith
  <2>3. \/ ~ Within(Weight(order[k]), threshold[r])
        \/ ~ Within(Weight(order[k]), threshold[s])
    BY <2>2, <1>3 DEF IInv, KeptApart
  <2>4. Within(Weight(order[k]), threshold[y])
    <3>1. order[k] \in Edges
      <4>1. order \in Seq(Edges)
        BY DEF IInv, TypeOK
      <4> QED
        BY <4>1
    <3>2. Weight(order[k]) \in Nat
      BY <3>1, WeightType DEF IInv
    <3>3. Weight(order[k]) <= Weight(edge)
      BY <2>1, <1>4 DEF IInv, Sorted, edge
    <3>4. Within(Weight(edge), threshold[y])
      BY <1>1, <1>3
    <3>5. threshold[y] \in [w : Nat, size : Nat \ {0}]
      BY <1>1 DEF IInv, TypeOK
    <3> QED
      BY <3>2, <3>3, <3>4, <3>5, <1>4, WithinMonotone
  <2>5. \A v \in Pixels : v # y => threshold'[v] = threshold[v]
    BY <1>2 DEF IInv, TypeOK
  <2>6. CASE r = y
    BY <2>3, <2>4, <2>5, <2>6
  <2>7. CASE s = y
    BY <2>3, <2>4, <2>5, <2>7
  <2>8. CASE r # y /\ s # y
    BY <2>3, <2>5, <2>8
  <2> QED
    BY <2>6, <2>7, <2>8
<1>10. SmallJoined' /\ Painted'
  BY <1>2, <1>3 DEF SmallJoined, Painted
<1> QED
  BY <1>1, <1>6, <1>7, <1>8, <1>9, <1>10 DEF IInv

LEMMA FoundPixelStep == IInv /\ FoundPixel => IInv'
<1> SUFFICES ASSUME IInv, FoundPixel PROVE IInv'
  OBVIOUS
<1>1. /\ pc = "find" /\ for = "pixel" /\ Root(y) /\ part[y] = part[x]
      /\ x \in Pixels /\ y \in Pixels
      /\ p' \in [Pixels -> Pixels]
      /\ \A v \in Pixels : Root(v)' <=> Root(v)
      /\ part' = part /\ UNCHANGED <<rank, size, num>>
      /\ ForestOK'
  BY FoundRoot DEF FoundPixel
<1>2. /\ output' = [output EXCEPT ![x] = y] /\ pc' = "next"
      /\ UNCHANGED <<image, threshold, order, stage, i, x, y, for, a, b>>
  BY DEF FoundPixel
<1>3. stage = "paint" /\ i = x + 1
  BY <1>1 DEF IInv, CallOK
<1>4. TypeOK'
  BY <1>1, <1>2 DEF IInv, TypeOK
<1>5. CallOK'
  BY <1>1, <1>2, <1>3 DEF IInv, CallOK
<1>6. Sorted'
  BY <1>2 DEF IInv, Sorted, Remaining, Weight
<1>7. KeptApart' /\ SmallJoined'
  BY <1>1, <1>2, <1>3 DEF IInv, KeptApart, SmallJoined
<1>8. Painted'
  <2>1. \A v \in Pixels : v + 1 < i => Root(output[v]) /\ part[output[v]] = part[v]
    BY <1>3 DEF IInv, Painted
  <2>2. ASSUME NEW v \in Pixels, v + 1 <= i
        PROVE  Root(output[v])' /\ part[output'[v]] = part[v]
    <3>1. output[v] \in Pixels /\ output'[v] = IF v = x THEN y ELSE output[v]
      BY <1>2 DEF IInv, TypeOK
    <3>2. v = x \/ v + 1 < i
      BY <2>2, <1>1, <1>3, PixelFacts
    <3> QED
      BY <3>1, <3>2, <2>1, <1>1 DEF Root
  <2>3. \A v \in Pixels : v + 1 < i \/ v + 1 = i => v + 1 <= i
    BY <1>1, <1>3, PixelFacts
  <2> QED
    BY <2>2, <2>3, <1>1, <1>2, <1>3 DEF Painted
<1> QED
  BY <1>1, <1>4, <1>5, <1>6, <1>7, <1>8 DEF IInv

LEMMA TakeLightestStep == IInv /\ TakeLightest => IInv'
<1> SUFFICES ASSUME IInv, TakeLightest PROVE IInv'
  OBVIOUS
<1>1. PICK e \in Remaining : /\ \A f \in Remaining : Weight(e) <= Weight(f)
                             /\ order' = Append(order, e)
                             /\ Find(e[1], "a")
  BY DEF TakeLightest
<1>2. /\ stage = "segment" /\ pc = "next" /\ i' = i + 1
      /\ UNCHANGED <<image, forest, threshold, stage, a, b, output>>
  BY DEF TakeLightest
<1>3. /\ i = Len(order) /\ order \in Seq(Edges) /\ e \in Edges /\ i \in Nat
      /\ e[1] \in Pixels /\ i + 1 \in Nat
  BY <1>2, EdgesInImage DEF IInv, CallOK, TypeOK, Remaining
<1>4. /\ order' \in Seq(Edges) /\ Len(order') = i + 1 /\ order'[i + 1] = e
      /\ \A k \in 1 .. i : order'[k] = order[k]
      /\ \A k \in 1 .. i + 1 : k \in 1 .. i \/ k = i + 1
  BY <1>1, <1>3
<1>5. TypeOK'
  BY <1>1, <1>2, <1>3, <1>4 DEF forest, Find, IInv, TypeOK
<1>6. ForestOK'
  BY <1>2 DEF forest, IInv, ForestOK, Root
<1>7. CallOK'
  BY <1>1, <1>2, <1>3, <1>4 DEF forest, Find, CallOK, edge
<1>8. Sorted'
  <2>1. \A f \in Remaining' : f \in Remaining
    BY <1>3, <1>4 DEF Remaining
  <2>3. \A k \in 1 .. i : Weight(order[k]) <= Weight(e)
    BY <1>3 DEF IInv, Sorted
  <2>4. \A k \in 1 .. i, f \in Remaining : Weight(order[k]) <= Weight(f)
    BY <1>3 DEF IInv, Sorted
  <2>5. \A j, k \in 1 .. i : j < k => Weight(order[j]) <= Weight(order[k])
    BY <1>3 DEF IInv, Sorted
  <2>7. ASSUME NEW j \in 1 .. i + 1, NEW k \in 1 .. i + 1, j < k
        PROVE  Weight(order[j])' <= Weight(order[k])'
    <3>1. j \in 1 .. i
      BY <2>7, <1>3
    <3>2. Weight(order[j]) <= Weight(order'[k])
      BY <3>1, <2>3, <2>5, <2>7, <1>4
    <3> QED
      BY <3>1, <3>2, <1>2, <1>4 DEF Weight
  <2>8. ASSUME NEW k \in 1 .. i + 1, NEW f \in Remaining'
        PROVE  Weight(order[k])' <= Weight(f)'
    <3>1. f \in Remaining /\ f \in Edges
      BY <2>1, <2>8 DEF Remaining
    <3>2. Weight(order'[k]) <= Weight(f)
      BY <3>1, <2>4, <1>1, <1>4
    <3> QED
      BY <3>2, <1>2 DEF Weight
  <2> QED
    BY <2>7, <2>8, <1>2, <1>4 DEF Sorted
<1>9. KeptApart'
  <2> SUFFICES ASSUME NEW k \in 1 .. i + 1, NEW r \in Pixels, NEW s \in Pixels, DealtWith(k)',
                      Root(r), part[r] = part[order'[k][1]],
                      Root(s), part[s] = part[order'[k][2]], r # s
               PROVE  \/ ~ Within(Weight(order'[k]), threshold[r])
                      \/ ~ Within(Weight(order'[k]), threshold[s])
    BY <1>2, <1>4 DEF KeptApart, forest, Root, Within, Weight
  <2>1. k \in 1 .. i /\ order'[k] = order[k]
    BY <1>1, <1>2, <1>3, <1>4 DEF DealtWith, Find
  <2>2. DealtWith(k)
    BY <2>1, <1>2, <1>3 DEF DealtWith
  <2> QED
    BY <2>1, <2>2, <1>2, <1>3 DEF IInv, KeptApart
<1>10. SmallJoined' /\ Painted'
  BY <1>2 DEF SmallJoined, Painted
<1> QED
  BY <1>5, <1>6, <1>7, <1>8, <1>9, <1>10 DEF IInv

LEMMA TakeSortedStep == IInv /\ TakeSorted => IInv'
<1> SUFFICES ASSUME IInv, TakeSorted PROVE IInv'
  OBVIOUS
<1>1. /\ stage = "small" /\ pc = "next" /\ i < Len(order) /\ i' = i + 1
      /\ pc' = "find" /\ x' = order[i + 1][1] /\ y' = order[i + 1][1] /\ for' = "a"
      /\ UNCHANGED <<image, forest, threshold, order, stage, a, b, output>>
  BY DEF TakeSorted, Find
<1>2. /\ i \in Nat /\ i + 1 \in Nat /\ order \in Seq(Edges)
      /\ order[i + 1] \in Edges /\ order[i + 1][1] \in Pixels
  <2>1. i \in Nat /\ order \in Seq(Edges)
    BY DEF IInv, TypeOK
  <2>2. Len(order) \in Nat
    BY <2>1
  <2>3. i + 1 \in 1 .. Len(order)
    BY <1>1, <2>1, <2>2
  <2>4. order[i + 1] \in Edges
    BY <2>1, <2>3
  <2> QED
    BY <2>1, <2>4, EdgesInImage
<1>3. TypeOK'
  BY <1>1, <1>2 DEF forest, IInv, TypeOK
<1>4. ForestOK' /\ Sorted' /\ KeptApart' /\ Painted'
  BY <1>1 DEF forest, IInv, ForestOK, Root, Sorted, Remaining, Weight, KeptApart, Painted
<1>5. CallOK'
  BY <1>1, <1>2 DEF forest, CallOK, edge
<1>6. SmallJoined'
  <2>1. \A k \in 1 .. Len(order) : DealtWith(k)' => DealtWith(k)
    BY <1>1, <1>2 DEF DealtWith
  <2> QED
    BY <2>1, <1>1 DEF forest, IInv, SmallJoined
<1> QED
  BY <1>3, <1>4, <1>5, <1>6 DEF IInv

LEMMA TakePixelStep == IInv /\ TakePixel => IInv'
<1> SUFFICES ASSUME IInv, TakePixel PROVE IInv'
  OBVIOUS
<1>1. /\ stage = "paint" /\ pc = "next" /\ i < Width * Height /\ i' = i + 1
      /\ pc' = "find" /\ x' = i /\ y' = i /\ for' = "pixel"
      /\ UNCHANGED <<image, forest, threshold, order, stage, a, b, output>>
  BY DEF TakePixel, Find
<1>2. i \in Pixels /\ i \in Nat /\ i + 1 \in Nat /\ i + 1 <= Width * Height
  BY <1>1, PixelFacts DEF IInv, TypeOK, Pixels
<1>3. TypeOK'
  BY <1>1, <1>2 DEF forest, IInv, TypeOK
<1>4. ForestOK' /\ Sorted' /\ KeptApart' /\ SmallJoined'
  BY <1>1 DEF forest, IInv, ForestOK, Root, Sorted, Remaining, Weight, KeptApart, SmallJoined
<1>5. CallOK'
  BY <1>1, <1>2 DEF forest, CallOK, edge
<1>6. Painted'
  <2>1. \A v \in Pixels : v + 1 < i' \/ (v + 1 = i' /\ pc' = "next")
                            => v + 1 < i \/ (v + 1 = i /\ pc = "next")
    BY <1>1, <1>2, PixelFacts
  <2> QED
    BY <2>1, <1>1 DEF forest, IInv, Painted, Root
<1> QED
  BY <1>3, <1>4, <1>5, <1>6 DEF IInv

LEMMA EndPassStep == IInv /\ EndPass => IInv'
<1> SUFFICES ASSUME IInv, EndPass PROVE IInv'
  OBVIOUS
<1>1. /\ pc = "next" /\ i' = 0
      /\ UNCHANGED <<image, forest, threshold, order, pc, x, y, for, a, b, output>>
      /\ i \in Nat /\ Len(order) \in Nat
  BY DEF EndPass, IInv, TypeOK
<1>2. \/ stage = "segment" /\ Remaining = {} /\ stage' = "small"
      \/ stage = "small" /\ i = Len(order) /\ stage' = "paint"
      \/ stage = "paint" /\ i = Width * Height /\ stage' = "done"
  BY DEF EndPass
<1>3. TypeOK' /\ ForestOK' /\ KeptApart'
  <2>1. TypeOK'
    BY <1>1, <1>2 DEF forest, IInv, TypeOK
  <2>2. ForestOK'
    BY <1>1 DEF forest, IInv, ForestOK, Root
  <2>3. KeptApart'
    BY <1>2 DEF KeptApart
  <2> QED
    BY <2>1, <2>2, <2>3
<1>4. CallOK'
  BY <1>1, <1>2, PixelFacts DEF CallOK
<1>5. Sorted'
  BY <1>1, <1>2 DEF forest, IInv, Sorted, Remaining, Weight
<1>6. SmallJoined'
  <2>1. CASE stage = "segment"
    <3>1. \A k \in 1 .. Len(order) : ~ DealtWith(k)'
      BY <1>1 DEF DealtWith
    <3> QED
      BY <3>1, <2>1, <1>1, <1>2 DEF SmallJoined
  <2>2. CASE stage = "small"
    <3>1. \A k \in 1 .. Len(order) : DealtWith(k)
      BY <1>1, <1>2, <2>2 DEF DealtWith
    <3> QED
      BY <3>1, <2>2, <1>1, <1>2 DEF forest, IInv, SmallJoined
  <2>3. CASE stage = "paint"
    BY <2>3, <1>1, <1>2 DEF forest, IInv, SmallJoined
  <2> QED
    BY <2>1, <2>2, <2>3, <1>2
<1>7. Painted'
  <2>1. CASE stage \in {"segment", "small"}
    BY <2>1, <1>1, <1>2, PixelFacts DEF Painted
  <2>2. CASE stage = "paint"
    <3>1. \A v \in Pixels : v + 1 < i \/ v + 1 = i
      BY <2>2, <1>2, PixelFacts DEF Pixels
    <3> QED
      BY <3>1, <2>2, <1>1, <1>2 DEF forest, IInv, Painted, Root
  <2> QED
    BY <2>1, <2>2, <1>2
<1> QED
  BY <1>3, <1>4, <1>5, <1>6, <1>7 DEF IInv

LEMMA LeaveApartStep == IInv /\ LeaveApart => IInv'
<1> SUFFICES ASSUME IInv, LeaveApart PROVE IInv'
  OBVIOUS
<1>1. /\ pc = "test" /\ pc' = "next"
      /\ UNCHANGED <<image, forest, threshold, order, stage, i, x, y, for, a, b, output>>
      /\ \/ stage = "segment" /\ ~ MayJoin
         \/ stage = "small" /\ ~ TooSmall
  BY DEF LeaveApart
<1>2. /\ Root(a) /\ part[a] = part[edge[1]] /\ a \in Pixels
      /\ Root(b) /\ part[b] = part[edge[2]] /\ b \in Pixels
  BY <1>1 DEF IInv, CallOK, TypeOK
<1>3. i \in 1 .. Len(order) /\ \A k \in 1 .. Len(order) : DealtWith(k)' => DealtWith(k) \/ k = i
  BY <1>1, EdgeInImage DEF DealtWith
<1>4. TypeOK' /\ ForestOK' /\ Sorted' /\ CallOK' /\ Painted'
  <2>1. TypeOK' /\ CallOK' /\ Painted'
    BY <1>1 DEF forest, IInv, TypeOK, CallOK, Painted
  <2>2. ForestOK'
    BY <1>1 DEF forest, IInv, ForestOK, Root
  <2>3. Sorted'
    BY <1>1 DEF IInv, Sorted, Remaining, Weight
  <2> QED
    BY <2>1, <2>2, <2>3
<1>5. KeptApart'
  <2> SUFFICES ASSUME stage = "segment", NEW k \in 1 .. Len(order),
                      NEW r \in Pixels, NEW s \in Pixels, DealtWith(k) \/ k = i,
                      Root(r), part[r] = part[order[k][1]],
                      Root(s), part[s] = part[order[k][2]], r # s
               PROVE  \/ ~ Within(Weight(order[k]), threshold[r])
                      \/ ~ Within(Weight(order[k]), threshold[s])
    BY <1>1, <1>3 DEF KeptApart, forest, Root, Within, Weight
  <2>1. CASE k = i
    <3>1. r = a /\ s = b
      BY <2>1, <1>2 DEF IInv, ForestOK, edge
    <3> QED
      BY <3>1, <2>1, <1>1 DEF MayJoin, edge
  <2>2. CASE DealtWith(k)
    BY <2>2 DEF IInv, KeptApart
  <2> QED
    BY <2>1, <2>2
<1>6. SmallJoined'
  <2>1. CASE stage = "small"
    <3>1. a = b \/ (size[a] >= MinSize /\ size[b] >= MinSize)
      <4>1. size[a] \in Nat /\ size[b] \in Nat
        BY <1>2 DEF IInv, TypeOK
      <4> QED
        BY <4>1, <2>1, <1>1, MsegAssumption DEF TooSmall
    <3>2. size[a] = Cardinality(part[a]) /\ size[b] = Cardinality(part[b])
      BY <1>2 DEF IInv, ForestOK
    <3>3. part[edge[1]] # part[edge[2]] =>
            Cardinality(part[edge[1]]) >= MinSize /\ Cardinality(part[edge[2]]) >= MinSize
      BY <3>1, <3>2, <1>2
    <3> QED
      BY <3>3, <2>1, <1>1, <1>3 DEF forest, IInv, SmallJoined, edge
  <2>2. CASE stage = "segment"
    BY <2>2, <1>1 DEF SmallJoined
  <2> QED
    BY <2>1, <2>2, <1>1
<1> QED
  BY <1>4, <1>5, <1>6 DEF IInv

(* What joining the components of an edge leaves to be said by its caller. *)
LEMMA JoinedParts ==
  ASSUME IInv, pc = "test", a # b, Join
  PROVE  /\ edge[1] \in Pixels /\ edge[2] \in Pixels
         /\ part'[edge[1]] = part'[edge[2]] /\ part'[a] = part'[edge[1]]
         /\ \A u, v \in Pixels : part[u] = part[v] => part'[u] = part'[v]
         /\ \A v \in Pixels : /\ part'[v] \in SUBSET Pixels /\ part[v] \subseteq part'[v]
                              /\ part'[v] # part[v] => /\ part'[v] = part'[a]
                                                       /\ part[v] \in {part[a], part[b]}
         /\ \A u, v \in Pixels : part'[u] = part'[v] /\ part'[v] # part'[a]
                                  => part[u] = part[v]
         /\ \A v \in Pixels : part'[v] = part'[a] => part[v] \in {part[a], part[b]}
<1>1. /\ Root(a) /\ part[a] = part[edge[1]] /\ Root(b) /\ part[b] = part[edge[2]]
      /\ a \in Pixels /\ b \in Pixels /\ stage \in {"segment", "small"}
  BY DEF IInv, CallOK, TypeOK
<1>2. edge[1] \in Pixels /\ edge[2] \in Pixels
  BY <1>1, EdgeInImage
<1>3. /\ part' = [v \in Pixels |-> IF v \in part[a] \union part[b]
                                      THEN part[a] \union part[b] ELSE part[v]]
      /\ part' \in [Pixels -> SUBSET Pixels]
  BY <1>1, Joined DEF IInv
<1>4. \A v \in Pixels : v \in part[a] \union part[b] <=> part[v] \in {part[a], part[b]}
  BY <1>1 DEF IInv, ForestOK, TypeOK
<1>5. /\ \A v \in Pixels : part[v] \in {part[a], part[b]} => part'[v] = part[a] \union part[b]
      /\ \A v \in Pixels : part[v] \notin {part[a], part[b]} => part'[v] = part[v]
      /\ \A v \in Pixels : v \in part[v]
  BY <1>3, <1>4 DEF IInv, ForestOK
<1>6. part'[a] = part[a] \union part[b] /\ a \in part'[a]
  BY <1>1, <1>5
<1>7. \A v \in Pixels : part'[v] = part'[a] => part[v] \in {part[a], part[b]}
  <2> SUFFICES ASSUME NEW v \in Pixels, part'[v] = part'[a], part[v] \notin {part[a], part[b]}
               PROVE  FALSE
    OBVIOUS
  <2>1. a \in part[v]
    BY <1>5, <1>6
  <2> QED
    BY <2>1, <1>1 DEF IInv, ForestOK
<1>8. \A u, v \in Pixels : part'[u] = part'[v] /\ part'[v] # part'[a] => part[u] = part[v]
  BY <1>5, <1>6
<1> QED
  BY <1>1, <1>2, <1>3, <1>5, <1>6, <1>7, <1>8

LEMMA JoinSmallStep == IInv /\ JoinSmall => IInv'
<1> SUFFICES ASSUME IInv, JoinSmall PROVE IInv'
  OBVIOUS
<1>1. /\ stage = "small" /\ pc = "test" /\ TooSmall /\ a # b /\ Join /\ pc' = "next"
      /\ UNCHANGED <<image, threshold, order, stage, i, x, y, for, a, b, output>>
  BY DEF JoinSmall, TooSmall
<1>2. Root(a) /\ Root(b)
  BY <1>1 DEF IInv, CallOK
<1>3. /\ p' \in [Pixels -> Pixels] /\ size' \in [Pixels -> Nat] /\ num' \in Int
      /\ part' \in [Pixels -> SUBSET Pixels] /\ rank' \in [Pixels -> Nat]
      /\ ForestOK'
  BY <1>1, <1>2, Joined DEF IInv
<1>4. TypeOK'
  BY <1>1, <1>3 DEF IInv, TypeOK
<1>9. Sorted'
  BY <1>1 DEF IInv, Sorted, Remaining, Weight
<1>5. CallOK' /\ KeptApart' /\ Painted'
  BY <1>1 DEF IInv, CallOK, KeptApart, Painted
<1>6. SmallJoined'
  <2> SUFFICES ASSUME NEW k \in 1 .. Len(order), DealtWith(k)',
                      part'[order[k][1]] # part'[order[k][2]], NEW v \in {1, 2}
               PROVE  Cardinality(part'[order[k][v]]) >= MinSize
    BY <1>1 DEF SmallJoined
  <2>1. k # i
    BY <1>1, JoinedParts DEF edge
  <2>2. DealtWith(k)
    BY <2>1, <1>1 DEF DealtWith
  <2>3. order[k][1] \in Pixels /\ order[k][2] \in Pixels
    <3>1. order \in Seq(Edges)
      BY DEF IInv, TypeOK
    <3> QED
      BY <3>1, EdgesInImage
  <2>4. part[order[k][1]] # part[order[k][2]]
    BY <2>3, <1>1, JoinedParts
  <2>5. Cardinality(part[order[k][v]]) >= MinSize
    BY <2>2, <2>4, <1>1 DEF IInv, SmallJoined
  <2>6. /\ part'[order[k][v]] \in SUBSET Pixels
        /\ part[order[k][v]] \in SUBSET part'[order[k][v]]
    BY <2>3, <1>1, JoinedParts
  <2>7. IsFiniteSet(part'[order[k][v]])
    BY <2>6, PixelFacts, FS_Subset
  <2>8. Cardinality(part[order[k][v]]) <= Cardinality(part'[order[k][v]])
    BY <2>6, <2>7, FS_Subset
  <2>9. /\ Cardinality(part[order[k][v]]) \in Nat
        /\ Cardinality(part'[order[k][v]]) \in Nat
    BY <2>6, <2>7, FS_Subset, FS_CardinalityType
  <2> QED
    BY <2>5, <2>8, <2>9, MsegAssumption
<1> QED
  BY <1>3, <1>4, <1>5, <1>6, <1>9 DEF IInv

LEMMA JoinLightStep == IInv /\ JoinLight => IInv'
<1> SUFFICES ASSUME IInv, JoinLight PROVE IInv'
  OBVIOUS
<1>1. /\ stage = "segment" /\ pc = "test" /\ a # b /\ Join
      /\ Within(Weight(edge), threshold[a]) /\ Within(Weight(edge), threshold[b])
      /\ pc' = "find" /\ x' = a /\ y' = a /\ for' = "joined"
      /\ UNCHANGED <<image, threshold, order, stage, i, a, b, output>>
  BY DEF JoinLight, MayJoin, Find
<1>2. /\ Root(a) /\ part[a] = part[edge[1]] /\ a \in Pixels
      /\ Root(b) /\ part[b] = part[edge[2]] /\ b \in Pixels
      /\ i = Len(order)
  BY <1>1 DEF IInv, CallOK, TypeOK
<1>3. /\ p' \in [Pixels -> Pixels] /\ size' \in [Pixels -> Nat] /\ num' \in Int
      /\ part' \in [Pixels -> SUBSET Pixels] /\ rank' \in [Pixels -> Nat]
      /\ \A v \in Pixels : Root(v)' => Root(v)
      /\ ForestOK'
  BY <1>1, <1>2, Joined DEF IInv
<1>4. TypeOK' /\ Sorted'
  <2>1. TypeOK'
    BY <1>1, <1>2, <1>3 DEF IInv, TypeOK
  <2>2. Sorted'
    BY <1>1 DEF IInv, Sorted, Remaining, Weight
  <2> QED
    BY <2>1, <2>2
(* The root of what was joined was the root of one of the two components,  *)
(* and its threshold still is the one that let the edge pass.              *)
<1>5. \A r \in Pixels : Root(r)' /\ part'[r] = part'[a] => r \in {a, b}
  <2> TAKE r \in Pixels
  <2>1. part'[r] = part'[a] => part[r] \in {part[a], part[b]}
    BY <1>1, JoinedParts
  <2> QED
    BY <2>1, <1>2, <1>3 DEF IInv, ForestOK
<1>6. CallOK'
  <2>1. part'[a] = part'[edge[1]] /\ part'[edge[1]] = part'[edge[2]] /\ edge' = edge
    BY <1>1, JoinedParts DEF edge
  <2>2. i > 0
    BY <1>1 DEF IInv, CallOK
  <2>3. \A r \in Pixels : Root(r)' /\ part'[r] = part'[a] =>
                             Within(Weight(edge), threshold[r])'
    BY <1>1, <1>5, <2>1 DEF Within, Weight
  <2> QED
    BY <1>1, <1>2, <2>1, <2>2, <2>3 DEF CallOK
<1>7. KeptApart'
  <2> SUFFICES ASSUME NEW k \in 1 .. Len(order), NEW r \in Pixels, NEW s \in Pixels, k < i,
                      Root(r)', part'[r] = part'[order[k][1]],
                      Root(s)', part'[s] = part'[order[k][2]], r # s
               PROVE  \/ ~ Within(Weight(order[k]), threshold[r])
                      \/ ~ Within(Weight(order[k]), threshold[s])
    BY <1>1 DEF KeptApart, DealtWith, Within, Weight
  <2>1. order[k] \in Edges /\ order[k][1] \in Pixels /\ order[k][2] \in Pixels
    <3>1. order \in Seq(Edges)
      BY DEF IInv, TypeOK
    <3>2. order[k] \in Edges
      BY <3>1
    <3> QED
      BY <3>2, EdgesInImage
  <2>2. /\ Within(Weight(order[k]), threshold[a])
        /\ Within(Weight(order[k]), threshold[b])
    <3>1. Weight(order[k]) \in Nat /\ Weight(edge) \in Nat
      BY <2>1, <1>1, WeightType, EdgeInImage DEF IInv
    <3>2. Weight(order[k]) <= Weight(edge)
      BY <1>2 DEF IInv, Sorted, edge
    <3>3. /\ threshold[a] \in [w : Nat, size : Nat \ {0}]
          /\ threshold[b] \in [w : Nat, size : Nat \ {0}]
      BY <1>2 DEF IInv, TypeOK
    <3> QED
      BY <3>1, <3>2, <3>3, <1>1, WithinMonotone
  (* Before the join, one of the two was kept apart by its threshold.      *)
  <2>3. ASSUME NEW u \in Pixels, NEW v \in Pixels, u # v,
               Root(u), part[u] = part[order[k][1]], Root(v), part[v] = part[order[k][2]]
        PROVE  \/ ~ Within(Weight(order[k]), threshold[u])
               \/ ~ Within(Weight(order[k]), threshold[v])
    BY <2>3, <1>1 DEF IInv, KeptApart, DealtWith
  <2>4. CASE part'[r] = part'[a]
    <3>1. r \in {a, b} /\ part'[s] # part'[a]
      BY <2>4, <1>3, <1>5 DEF ForestOK
    <3>2. part[order[k][1]] \in {part[a], part[b]} /\ part[s] = part[order[k][2]]
      BY <2>1, <2>4, <3>1, <1>1, JoinedParts
    <3>3. PICK u \in {a, b} : part[u] = part[order[k][1]]
      BY <3>2
    <3>4. u # s
      BY <3>1, <3>3, <1>1, <1>2, JoinedParts
    <3> QED
      BY <3>2, <3>3, <3>4, <2>2, <2>3, <1>2, <1>3
  <2>5. CASE part'[s] = part'[a]
    <3>1. s \in {a, b} /\ part'[r] # part'[a]
      BY <2>5, <1>3, <1>5 DEF ForestOK
    <3>2. part[order[k][2]] \in {part[a], part[b]} /\ part[r] = part[order[k][1]]
      BY <2>1, <2>5, <3>1, <1>1, JoinedParts
    <3>3. PICK u \in {a, b} : part[u] = part[order[k][2]]
      BY <3>2
    <3>4. u # r
      BY <3>1, <3>3, <1>1, <1>2, JoinedParts
    <3> QED
      BY <3>2, <3>3, <3>4, <2>2, <2>3, <1>2, <1>3
  <2>6. CASE part'[r] # part'[a] /\ part'[s] # part'[a]
    <3>1. part[r] = part[order[k][1]] /\ part[s] = part[order[k][2]]
      BY <2>1, <2>6, <1>1, JoinedParts
    <3> QED
      BY <3>1, <2>3, <1>3
  <2> QED
    BY <2>4, <2>5, <2>6
<1>8. SmallJoined' /\ Painted'
  BY <1>1 DEF SmallJoined, Painted
<1> QED
  BY <1>3, <1>4, <1>6, <1>7, <1>8 DEF IInv
-----------------------------------------------------------------------------
LEMMA Inductive == IInv /\ [Next]_vars => IInv'
<1> SUFFICES ASSUME IInv, [Next]_vars PROVE IInv'
  OBVIOUS
<1>1. CASE UNCHANGED vars
  <2>1. TypeOK' /\ CallOK'
    <3>1. TypeOK'
      BY <1>1 DEF vars, IInv, TypeOK
    <3>2. CallOK'
      BY <1>1 DEF vars, IInv, CallOK, Root, edge, Within, Weight
    <3> QED
      BY <3>1, <3>2
  <2>2. ForestOK'
    BY <1>1 DEF vars, IInv, ForestOK, Root
  <2>3. Sorted' /\ SmallJoined' /\ Painted'
    BY <1>1 DEF vars, IInv, Sorted, Remaining, Weight, SmallJoined, DealtWith, Painted, Root
  <2>4. KeptApart'
    BY <1>1 DEF vars, IInv, KeptApart, DealtWith, Root, Within, Weight
  <2> QED
    BY <2>1, <2>2, <2>3, <2>4 DEF IInv
<1>2. CASE Next
  BY <1>2, TakeLightestStep, TakeSortedStep, TakePixelStep, EndPassStep, ClimbStep,
     FoundAStep, FoundBStep, FoundJoinedStep, FoundPixelStep, JoinLightStep,
     JoinSmallStep, LeaveApartStep DEF Next
<1> QED
  BY <1>1, <1>2

(* The forest is a partition of the pixels that find and join agree on, at *)
(* every step, and an edge between two components that segment_graph has   *)
(* dealt with is beyond the threshold of one of the two.                   *)
THEOREM Invariance == Spec => []IInv
<1> QED
  BY Initially, Inductive, PTL DEF Spec

(* The second pass of segment_image leaves no component of fewer than      *)
(* min_size pixels that has a neighbour.                                   *)
THEOREM SmallRegions == Spec => []NoSmallRegionLeft
<1>1. IInv => NoSmallRegionLeft
  <2> SUFFICES ASSUME IInv, stage \in {"paint", "done"}, NEW v \in Pixels, NEW e \in Edges,
                      ~ (Cardinality(part[v]) >= MinSize),
                      ~ (e[1] \in part[v] <=> e[2] \in part[v])
               PROVE  FALSE
    BY DEF NoSmallRegionLeft
  <2>1. PICK k \in 1 .. Len(order) : order[k] = e
    BY DEF IInv, Sorted, Remaining
  <2>2. e[1] \in Pixels /\ e[2] \in Pixels
    BY EdgesInImage
  <2>3. part[e[1]] # part[e[2]] /\ part[v] \in {part[e[1]], part[e[2]]}
    BY <2>2 DEF IInv, ForestOK
  <2>4. \A u \in {1, 2} : Cardinality(part[e[u]]) >= MinSize
    BY <2>1, <2>3 DEF IInv, SmallJoined
  <2> QED
    BY <2>3, <2>4
<1> QED
  BY <1>1, Invariance, PTL

(* In the end two pixels have one label exactly if they are in one         *)
(* component, and *num_ccs counts the labels.                              *)
THEOREM Labels == Spec => []LabelsAreRegions
<1>1. IInv => LabelsAreRegions
  <2> SUFFICES ASSUME IInv, stage = "done" PROVE LabelsAreRegions
    BY DEF LabelsAreRegions
  <2>1. \A v \in Pixels : output[v] \in Pixels /\ Root(output[v]) /\ part[output[v]] = part[v]
    BY DEF IInv, TypeOK, Painted
  <2>2. \A u, v \in Pixels : output[u] = output[v] <=> part[u] = part[v]
    BY <2>1 DEF IInv, ForestOK
  <2>3. {output[v] : v \in Pixels} = {v \in Pixels : Root(v)}
    BY <2>1 DEF IInv, ForestOK
  <2> QED
    BY <2>2, <2>3 DEF LabelsAreRegions, IInv, ForestOK
<1> QED
  BY <1>1, Invariance, PTL

LEMMA SameMembers == ASSUME NEW S, NEW T, \A e : e \in S <=> e \in T
                     PROVE  S = T
  OBVIOUS

(* Segmenting merges regions that touch, and does nothing else to them.    *)
THEOREM Refinement == Spec => MergesRegions
<1>1. Init => Merging!Init
  BY DEF Init, Merging!Init, Regions
<1>2. IInv /\ [Next]_vars => [Merging!Next]_Regions
  <2> SUFFICES ASSUME IInv, [Next]_vars, Regions' # Regions PROVE Merging!Next
    OBVIOUS
  <2>1. part' # part
    BY DEF Regions
  <2>2. (JoinLight \/ JoinSmall) /\ pc = "test" /\ a # b /\ Join
    BY <2>1 DEF vars, forest, Next, TakeLightest, TakeSorted, TakePixel, EndPass, Climb,
       FoundA, FoundB, FoundJoined, FoundPixel, Found, JoinLight, MayJoin, JoinSmall,
       TooSmall, LeaveApart
  <2>3. /\ Root(a) /\ part[a] = part[edge[1]] /\ a \in Pixels
        /\ Root(b) /\ part[b] = part[edge[2]] /\ b \in Pixels
        /\ stage \in {"segment", "small"}
    BY <2>2 DEF IInv, CallOK, TypeOK
  <2>4. part' = [v \in Pixels |-> IF v \in part[a] \union part[b]
                                    THEN part[a] \union part[b] ELSE part[v]]
    BY <2>2, <2>3, Joined DEF IInv
  <2>5. edge \in Edges /\ edge[1] \in part[a] /\ edge[2] \in part[b]
    BY <2>2, <2>3, EdgeInImage DEF IInv, ForestOK
  <2>6. part[a] # part[b]
    BY <2>2, <2>3 DEF IInv, ForestOK
  <2>7. \A v \in Pixels : v \in part[a] \union part[b] <=> part[v] \in {part[a], part[b]}
    BY <2>3 DEF IInv, ForestOK, TypeOK
  <2>8. Regions' = (Regions \ {part[a], part[b]}) \union {part[a] \union part[b]}
    <3>1. ASSUME NEW v \in Pixels
          PROVE  part'[v] \in (Regions \ {part[a], part[b]}) \union {part[a] \union part[b]}
      <4>1. CASE part[v] \in {part[a], part[b]}
        BY <4>1, <2>4, <2>7
      <4>2. CASE part[v] \notin {part[a], part[b]}
        <5>1. part'[v] = part[v] /\ part[v] \in Regions
          BY <4>2, <2>4, <2>7 DEF Regions
        <5> QED
          BY <5>1, <4>2
      <4> QED
        BY <4>1, <4>2
    <3>2. ASSUME NEW v \in Pixels, part[v] \notin {part[a], part[b]}
          PROVE  part[v] \in Regions'
      BY <3>2, <2>4, <2>7 DEF Regions
    <3>3. part[a] \union part[b] \in Regions'
      <4>1. part'[a] = part[a] \union part[b]
        BY <2>3, <2>4, <2>7
      <4> QED
        BY <4>1, <2>3 DEF Regions
    <3>4. ASSUME NEW R \in Regions'
          PROVE  R \in (Regions \ {part[a], part[b]}) \union {part[a] \union part[b]}
      BY <3>1 DEF Regions
    <3>5. ASSUME NEW R \in Regions \ {part[a], part[b]} PROVE R \in Regions'
      BY <3>2 DEF Regions
    <3>6. \A R : R \in Regions' <=>
                 R \in (Regions \ {part[a], part[b]}) \union {part[a] \union part[b]}
      BY <3>3, <3>4, <3>5, Zenon
    <3> QED
      BY <3>6, SameMembers
  <2>9. Merging!Merge(part[a], part[b])
    BY <2>5, <2>6, <2>8 DEF Merging!Merge, Merging!Touch
  <2>10. part[a] \in Regions /\ part[b] \in Regions
    BY <2>3 DEF Regions
  <2> QED
    BY <2>9, <2>10 DEF Merging!Next
<1> QED
  BY <1>1, <1>2, Invariance, PTL DEF Spec, MergesRegions, Merging!Spec

-----------------------------------------------------------------------------
(* What mseg has from merging alone.                                       *)

LEMMA MergeKeepsPartition == Merging!Partition /\ Merging!Next => Merging!Partition'
<1> SUFFICES ASSUME Merging!Partition, NEW A \in Regions, NEW B \in Regions, Merging!Merge(A, B)
             PROVE  Merging!Partition'
  BY DEF Merging!Next
<1>1. Regions' = (Regions \ {A, B}) \union {A \union B}
  BY DEF Merging!Merge
<1>2. UNION Regions' = Pixels
  <2>1. ASSUME NEW v \in Pixels PROVE v \in UNION Regions'
    <3>1. PICK C \in Regions : v \in C
      BY DEF Merging!Partition
    <3>2. CASE C \in {A, B}
      <4>1. v \in A \union B /\ A \union B \in Regions'
        BY <3>1, <3>2, <1>1
      <4> QED
        BY <4>1
    <3>3. CASE C \notin {A, B}
      <4>1. C \in Regions'
        BY <3>3, <1>1
      <4> QED
        BY <4>1, <3>1
    <3> QED
      BY <3>2, <3>3
  <2>2. ASSUME NEW v \in UNION Regions' PROVE v \in Pixels
    BY <1>1 DEF Merging!Partition
  <2> QED
    BY <2>1, <2>2
<1>3. {} \notin Regions'
  BY <1>1 DEF Merging!Partition
<1>4. ASSUME NEW C \in Regions', NEW D \in Regions', C # D PROVE C \cap D = {}
  <2>1. \A E \in Regions \ {A, B} : E \cap (A \union B) = {}
    BY DEF Merging!Partition
  <2> QED
    BY <1>1, <1>4, <2>1 DEF Merging!Partition
<1> QED
  BY <1>2, <1>3, <1>4 DEF Merging!Partition

LEMMA MergeKeepsConnected ==
  Merging!Partition /\ Merging!Connected /\ Merging!Next => Merging!Connected'
<1> SUFFICES ASSUME Merging!Partition, Merging!Connected, NEW A \in Regions, NEW B \in Regions,
                    Merging!Merge(A, B), NEW C \in Regions'
             PROVE  Merging!InOnePiece(C)
  BY DEF Merging!Next, Merging!Connected, Merging!InOnePiece, Merging!Touch
<1>1. /\ Regions' = (Regions \ {A, B}) \union {A \union B}
      /\ A # B /\ Merging!Touch(A, B)
  BY DEF Merging!Merge
<1>2. CASE C \in Regions
  BY <1>2 DEF Merging!Connected
<1>3. CASE C = A \union B
  <2> SUFFICES ASSUME NEW S \in SUBSET C, S # {}, S # C
               PROVE  Merging!Touch(S, C \ S)
    BY DEF Merging!InOnePiece
  <2>1. ASSUME NEW D \in {A, B}, S \cap D # {}, S \cap D # D
        PROVE  Merging!Touch(S, C \ S)
    <3>1. Merging!InOnePiece(D)
      BY DEF Merging!Connected
    <3>2. Merging!Touch(S \cap D, D \ (S \cap D))
      BY <2>1, <3>1 DEF Merging!InOnePiece
    <3> QED
      BY <3>2, <1>3 DEF Merging!Touch
  <2>2. CASE S = A \/ S = B
    <3>1. A \cap B = {}
      BY <1>1 DEF Merging!Partition
    <3> QED
      BY <2>2, <3>1, <1>1, <1>3 DEF Merging!Touch
  <2>3. \/ \E D \in {A, B} : S \cap D # {} /\ S \cap D # D
        \/ S = A \/ S = B
    BY <1>3
  <2> QED
    BY <2>1, <2>2, <2>3
<1> QED
  BY <1>1, <1>2, <1>3

(* The regions are at every step a partition of the image into pieces that *)
(* hang together: no pixel is lost or in two regions, and no region falls  *)
(* apart.                                                                  *)
THEOREM Pieces == Spec => [](Merging!Partition /\ Merging!Connected)
<1>1. Merging!Init => Merging!Partition /\ Merging!Connected
  BY DEF Merging!Init, Merging!Partition, Merging!Connected, Merging!InOnePiece
<1>2. Merging!Partition /\ Merging!Connected /\ [Merging!Next]_Regions =>
        (Merging!Partition /\ Merging!Connected)'
  <2>1. CASE Merging!Next
    BY <2>1, MergeKeepsPartition, MergeKeepsConnected
  <2>2. CASE UNCHANGED Regions
    BY <2>2 DEF Merging!Partition, Merging!Connected, Merging!InOnePiece, Merging!Touch
  <2> QED
    BY <2>1, <2>2
<1> QED
  BY <1>1, <1>2, Refinement, PTL DEF MergesRegions, Merging!Spec

-----------------------------------------------------------------------------
(* The measures of the paper.                                     *)

(* A finite set has a member of the greatest value.                        *)
LEMMA GreatestOf ==
  ASSUME NEW S, IsFiniteSet(S), S # {}, NEW f, \A z \in S : f[z] \in Nat
  PROVE  \E m \in S : \A n \in S : f[n] <= f[m]
<1> DEFINE G == {T \in SUBSET S : T = {} \/ \E m \in T : \A n \in T : f[n] <= f[m]}
<1>1. {} \in G
  OBVIOUS
<1>2. ASSUME NEW T \in SUBSET S, NEW z \in S \ T, T \in G
      PROVE  T \cup {z} \in G
  <2>1. CASE T = {}
    <3>1. z \in T \cup {z} /\ \A n \in T \cup {z} : f[n] <= f[z]
      BY <2>1
    <3> QED
      BY <3>1
  <2>2. CASE T # {}
    <3>1. PICK m \in T : \A n \in T : f[n] <= f[m]
      BY <1>2, <2>2
    <3>2. CASE f[z] <= f[m]
      <4>1. \A n \in T \cup {z} : f[n] <= f[m]
        BY <3>1, <3>2
      <4> QED
        BY <4>1
    <3>3. CASE f[m] < f[z]
      <4>1. \A n \in T \cup {z} : f[n] <= f[z]
        BY <3>1, <3>3
      <4> QED
        BY <4>1
    <3> QED
      BY <3>2, <3>3
  <2> QED
    BY <2>1, <2>2
<1>3. S \in G
  <2> HIDE DEF G
  <2> QED
    BY <1>1, <1>2, InductionOnSets
<1> QED
  BY <1>3

(* Ranks grow on the way to it, so there is a root to every component.     *)
LEMMA EveryRoot ==
  ASSUME IInv, NEW v \in Pixels
  PROVE  \E r \in Pixels : Root(r) /\ part[r] = part[v] /\ r \in part[v]
<1>1. v \in part[v] /\ part[v] \in SUBSET Pixels /\ IsFiniteSet(part[v])
  <2>1. v \in part[v] /\ part[v] \in SUBSET Pixels
    BY DEF IInv, ForestOK, TypeOK
  <2> QED
    BY <2>1, PixelFacts, FS_Subset
<1>2. \A u \in part[v] : rank[u] \in Nat
  BY <1>1 DEF IInv, TypeOK
<1>3. PICK r \in part[v] : \A u \in part[v] : rank[u] <= rank[r]
  BY <1>1, <1>2, GreatestOf
<1>4. r \in Pixels /\ part[r] = part[v] /\ p[r] \in Pixels /\ part[p[r]] = part[r]
  BY <1>1 DEF IInv, ForestOK, TypeOK
<1>5. p[r] \in part[v]
  BY <1>4 DEF IInv, ForestOK
<1>6. Root(r)
  <2> SUFFICES ASSUME ~ Root(r) PROVE FALSE
    OBVIOUS
  <2>1. rank[r] < rank[p[r]]
    BY <1>4 DEF IInv, ForestOK
  <2> QED
    BY <2>1, <1>2, <1>3, <1>5
<1> QED
  BY <1>4, <1>6

LEMMA WeightsNat ==
  ASSUME TypeOK
  PROVE  /\ Weights \subseteq Nat /\ 0 \in Weights
         /\ \A e \in Edges : Weight(e) \in Weights /\ Weight(e) \in Nat
  BY WeightType DEF Weights

(* What holds a set together, without an inequality of truth values.       *)
LEMMA HeldMeans ==
  ASSUME NEW C, NEW w
  PROVE  HeldTogether(C, w) <=>
           \A S \in SUBSET C : S # {} /\ S # C =>
             \E e \in Edges : /\ Weight(e) <= w /\ e[1] \in C /\ e[2] \in C
                              /\ e[1] \in S <=> e[2] \notin S
  BY DEF HeldTogether

LEMMA SameWeights ==
  ASSUME UNCHANGED image
  PROVE  /\ \A e : Weight(e)' = Weight(e)
         /\ Weights' = Weights
         /\ \A C, w : HeldTogether(C, w)' <=> HeldTogether(C, w)
         /\ \A C, w : HeldBy(C, w)' <=> HeldBy(C, w)
<1>1. \A e : Weight(e)' = Weight(e)
  BY DEF Weight
<1>2. Weights' = Weights
  BY <1>1 DEF Weights
<1>3. \A C, w : HeldTogether(C, w)' <=> HeldTogether(C, w)
  BY <1>1 DEF HeldTogether
<1> QED
  BY <1>1, <1>2, <1>3 DEF HeldBy

(* Internal is what a set is held together by.                             *)
LEMMA InternalOf ==
  ASSUME TypeOK, NEW C, NEW w, HeldBy(C, w)
  PROVE  Internal(C) = w /\ InOnePiece(C)
<1>1. w \in Weights /\ HeldTogether(C, w) /\ \A v \in Weights : HeldTogether(C, v) => w <= v
  BY DEF HeldBy
<1>2. ASSUME NEW u \in Weights, HeldTogether(C, u),
             \A v \in Weights : HeldTogether(C, v) => u <= v
      PROVE  u = w
  <2>1. u <= w /\ w <= u /\ u \in Nat /\ w \in Nat
    BY <1>1, <1>2, WeightsNat
  <2> QED
    BY <2>1
<1> QED
  BY <1>1, <1>2 DEF Internal, InOnePiece

LEMMA InternalHolds ==
  ASSUME TypeOK, NEW C, InOnePiece(C)
  PROVE  HeldBy(C, Internal(C))
<1> DEFINE H == {w \in Weights : HeldTogether(C, w)}
<1>1. H # {} /\ H \subseteq Nat
  BY WeightsNat DEF InOnePiece
<1>2. PICK m \in H : \A n \in H : m <= n
  <2> HIDE DEF H
  <2> QED
    BY <1>1, LeastOf
<1>3. HeldBy(C, m)
  BY <1>2 DEF HeldBy
<1> QED
  BY <1>3, InternalOf

(* Where the first pass is: of the edges taken the last is the heaviest,   *)
(* and all lighter ones have been dealt with.                              *)
LEMMA EdgesTaken ==
  ASSUME IInv, stage = "segment"
  PROVE  /\ i = Len(order) /\ i \in Nat
         /\ \A k \in 1 .. Len(order) : order[k] \in Edges /\ Weight(order[k]) \in Nat
         /\ pc # "next" => /\ i \in 1 .. Len(order) /\ edge \in Edges /\ Weight(edge) \in Nat
                           /\ \A k \in 1 .. Len(order) : Weight(order[k]) <= Weight(edge)
                           /\ \A e \in Edges : Weight(e) < Weight(edge) =>
                                \E k \in 1 .. Len(order) : order[k] = e /\ DealtWith(k)
<1>1. i = Len(order) /\ order \in Seq(Edges)
  BY DEF IInv, CallOK, TypeOK
<1>2. \A k \in 1 .. Len(order) : order[k] \in Edges
  BY <1>1
<1>3. \A k \in 1 .. Len(order) : Weight(order[k]) \in Nat
  BY <1>2, WeightsNat DEF IInv
<1>4. ASSUME pc # "next"
      PROVE  /\ i \in 1 .. Len(order) /\ edge \in Edges /\ Weight(edge) \in Nat
             /\ \A k \in 1 .. Len(order) : Weight(order[k]) <= Weight(edge)
             /\ \A e \in Edges : Weight(e) < Weight(edge) =>
                  \E k \in 1 .. Len(order) : order[k] = e /\ DealtWith(k)
  <2>1. i \in 1 .. Len(order) /\ edge \in Edges /\ Weight(edge) \in Nat
    BY <1>4, EdgeInImage
  <2>2. ASSUME NEW k \in 1 .. Len(order) PROVE Weight(order[k]) <= Weight(edge)
    <3>1. CASE k = i
      BY <3>1, <2>1 DEF edge
    <3>2. CASE k # i
      <4>1. k < i
        BY <3>2, <1>1, <2>1
      <4> QED
        BY <4>1, <2>1 DEF IInv, Sorted, edge
    <3> QED
      BY <3>1, <3>2
  <2>3. ASSUME NEW e \in Edges, Weight(e) < Weight(edge)
        PROVE  \E k \in 1 .. Len(order) : order[k] = e /\ DealtWith(k)
    <3>1. Weight(e) \in Nat
      BY WeightsNat DEF IInv
    <3>2. e \notin Remaining
      <4>1. e \in Remaining => Weight(edge) <= Weight(e)
        BY <2>1 DEF IInv, Sorted, edge
      <4> QED
        BY <4>1, <3>1, <2>1, <2>3
    <3>3. PICK k \in 1 .. Len(order) : order[k] = e
      BY <3>2 DEF Remaining
    <3>4. k # i
      BY <3>1, <3>3, <2>1, <2>3 DEF edge
    <3>5. DealtWith(k)
      BY <3>4, <1>1, <2>1 DEF DealtWith
    <3> QED
      BY <3>3, <3>5
  <2> QED
    BY <2>1, <2>2, <2>3
<1> QED
  BY <1>1, <1>2, <1>3, <1>4, EdgeInImage DEF IInv, TypeOK

(* A component that takes an edge would take all those taken before.       *)
LEMMA LighterToo ==
  ASSUME IInv, stage = "segment", pc # "next", NEW r \in Pixels,
         Within(Weight(edge), threshold[r])
  PROVE  ~ Finished(r)
<1> SUFFICES ASSUME NEW k \in 1 .. Len(order) PROVE Within(Weight(order[k]), threshold[r])
  BY DEF Finished
<1>1. threshold[r] \in [w : Nat, size : Nat \ {0}]
  BY DEF IInv, TypeOK
<1>2. Weight(order[k]) \in Nat /\ Weight(edge) \in Nat /\ Weight(order[k]) <= Weight(edge)
  BY EdgesTaken
<1> QED
  BY <1>1, <1>2, WithinMonotone

(* What holds a component together is no heavier than the edge at hand.    *)
LEMMA ThresholdLighter ==
  ASSUME IInv, ThresholdsOK, stage = "segment", pc # "next", NEW r \in Pixels, Root(r)
  PROVE  threshold[r].w \in Nat /\ threshold[r].w <= Weight(edge)
<1>1. threshold[r].w \in Nat
  <2>1. threshold[r] \in [w : Nat, size : Nat \ {0}]
    BY DEF IInv, TypeOK
  <2> QED
    BY <2>1
<1>2. threshold[r].w = 0 \/ \E k \in 1 .. Len(order) : threshold[r].w = Weight(order[k])
  BY DEF ThresholdsOK
<1>3. Weight(edge) \in Nat /\ \A k \in 1 .. Len(order) : Weight(order[k]) <= Weight(edge)
  BY EdgesTaken
<1> QED
  BY <1>1, <1>2, <1>3

(* Two components that are joined are held together by the edge that does: *)
(* no lighter edge goes between them.                                      *)
LEMMA JoinHeld ==
  ASSUME IInv, ThresholdsOK, stage = "segment", pc = "test", MayJoin
  PROVE  HeldBy(part[a] \cup part[b], Weight(edge))
<1> DEFINE C == part[a] \cup part[b]
           w == Weight(edge)
<1>1. /\ Root(a) /\ part[a] = part[edge[1]] /\ a \in Pixels
      /\ Root(b) /\ part[b] = part[edge[2]] /\ b \in Pixels
  BY DEF IInv, CallOK, TypeOK
<1>2. /\ edge \in Edges /\ w \in Nat /\ edge[1] \in Pixels /\ edge[2] \in Pixels
      /\ edge[1] \in part[a] /\ edge[2] \in part[b] /\ w \in Weights
  BY <1>1, EdgeInImage, WeightsNat DEF IInv, ForestOK
<1>3. part[a] # part[b] /\ part[a] \cap part[b] = {}
  <2>1. a # b
    BY DEF MayJoin
  <2>2. part[a] # part[b]
    BY <2>1, <1>1 DEF IInv, ForestOK
  <2>3. part[a] \in SUBSET Pixels /\ part[b] \in SUBSET Pixels
    BY <1>1 DEF IInv, TypeOK
  <2>4. \A v \in Pixels : v \in part[a] /\ v \in part[b] => part[a] = part[b]
    BY <1>1 DEF IInv, ForestOK
  <2> QED
    BY <2>2, <2>3, <2>4
<1>4. ASSUME NEW r \in {a, b}
      PROVE  HeldTogether(part[r], w)
  <2>1. ~ Joining(r) /\ Root(r) /\ r \in Pixels
    BY <1>1 DEF Joining
  <2>2. threshold[r].w \in Nat /\ threshold[r].w <= w
    BY <2>1, ThresholdLighter
  <2>3. HeldTogether(part[r], threshold[r].w)
    BY <2>1 DEF ThresholdsOK, HeldBy
  <2>4. ASSUME NEW S \in SUBSET part[r], S # {}, S # part[r]
        PROVE  \E e \in Edges : /\ Weight(e) <= w /\ e[1] \in part[r] /\ e[2] \in part[r]
                                /\ e[1] \in S <=> e[2] \notin S
    <3>1. PICK e \in Edges : /\ Weight(e) <= threshold[r].w
                             /\ e[1] \in part[r] /\ e[2] \in part[r]
                             /\ e[1] \in S <=> e[2] \notin S
      BY <2>3, <2>4, HeldMeans
    <3>2. Weight(e) \in Nat
      BY WeightsNat DEF IInv
    <3>3. Weight(e) <= w
      BY <3>1, <3>2, <2>2, <1>2
    <3> QED
      BY <3>1, <3>3
  <2> HIDE DEF w
  <2> QED
    BY <2>4, HeldMeans
<1>5. ASSUME NEW S \in SUBSET C, S # {}, S # C
      PROVE  \E e \in Edges : /\ Weight(e) <= w /\ e[1] \in C /\ e[2] \in C
                              /\ e[1] \in S <=> e[2] \notin S
  <2>1. CASE \E r \in {a, b} : S \cap part[r] # {} /\ ~ part[r] \subseteq S
    <3>1. PICK r \in {a, b} : S \cap part[r] # {} /\ ~ part[r] \subseteq S
      BY <2>1
    <3>2. PICK e \in Edges : /\ Weight(e) <= w
                             /\ e[1] \in part[r] /\ e[2] \in part[r]
                             /\ e[1] \in S \cap part[r] <=> e[2] \notin S \cap part[r]
      <4>1. S \cap part[r] \in SUBSET part[r] /\ S \cap part[r] # part[r]
        BY <3>1
      <4> HIDE DEF w
      <4> QED
        BY <4>1, <3>1, <1>4, HeldMeans
    <3> QED
      BY <3>2
  <2>2. CASE \A r \in {a, b} : S \cap part[r] = {} \/ part[r] \subseteq S
    <3>1. \/ part[a] \subseteq S /\ S \cap part[b] = {}
          \/ part[b] \subseteq S /\ S \cap part[a] = {}
      BY <1>5, <2>2
    <3>2. edge[1] \in S <=> edge[2] \notin S
      BY <3>1, <1>2
    <3> QED
      BY <3>2, <1>2
  <2> QED
    BY <2>1, <2>2
<1>6. ASSUME NEW v \in Weights, HeldTogether(C, v)
      PROVE  w <= v
  <2> SUFFICES ASSUME v < w PROVE FALSE
    BY <1>2, WeightsNat DEF IInv
  <2>1. PICK e \in Edges : /\ Weight(e) <= v /\ e[1] \in C /\ e[2] \in C
                           /\ e[1] \in part[a] <=> e[2] \notin part[a]
    <3>1. part[a] \in SUBSET C /\ part[a] # {} /\ part[a] # C
      BY <1>2, <1>3
    <3> QED
      BY <3>1, <1>6, HeldMeans
  <2>2. Weight(e) < w
    BY <2>1, <1>2, WeightsNat DEF IInv
  <2>3. PICK k \in 1 .. Len(order) : order[k] = e /\ DealtWith(k)
    BY <2>2, EdgesTaken
  <2>4. ~ Finished(a) /\ ~ Finished(b)
    BY <1>1, LighterToo DEF MayJoin
  <2>5. Within(Weight(order[k]), threshold[a]) /\ Within(Weight(order[k]), threshold[b])
    BY <2>4 DEF Finished
  <2>6. e[1] \in Pixels /\ e[2] \in Pixels
    BY EdgesInImage
  <2>7. \/ part[e[1]] = part[a] /\ part[e[2]] = part[b]
        \/ part[e[1]] = part[b] /\ part[e[2]] = part[a]
    BY <2>1, <2>6, <1>1, <1>3 DEF IInv, ForestOK
  <2> QED
    BY <2>3, <2>5, <2>7, <1>1, <1>3 DEF IInv, KeptApart
<1>7. HeldTogether(C, w)
  <2> HIDE DEF w, C
  <2> QED
    BY <1>5, HeldMeans
<1> QED
  BY <1>2, <1>6, <1>7 DEF HeldBy

(* How a join lets a set be left: by the edge at hand, unless a component  *)
(* inside it is finished.                                                  *)
LEMMA JoinWays ==
  ASSUME IInv, ThresholdsOK, WaysOut, JoinLight
  PROVE  WaysOut'
<1>1. /\ stage = "segment" /\ pc = "test" /\ MayJoin /\ a # b /\ Join
      /\ Within(Weight(edge), threshold[a]) /\ Within(Weight(edge), threshold[b])
      /\ UNCHANGED <<image, threshold, order, stage, i, a, b, output>>
  BY DEF JoinLight, MayJoin
<1>2. /\ Root(a) /\ part[a] = part[edge[1]] /\ a \in Pixels
      /\ Root(b) /\ part[b] = part[edge[2]] /\ b \in Pixels
      /\ edge \in Edges /\ edge[1] \in Pixels /\ edge[2] \in Pixels /\ Weight(edge) \in Nat
  BY <1>1, EdgeInImage DEF IInv, CallOK, TypeOK
<1>3. /\ \E c \in {a, b} : \A v \in Pixels : Root(v)' <=> Root(v) /\ v # c
      /\ part' = [v \in Pixels |-> IF v \in part[a] \cup part[b]
                                      THEN part[a] \cup part[b] ELSE part[v]]
  BY <1>1, <1>2, Joined DEF IInv
<1>4. /\ \A v \in Pixels : v \in part[v] /\ part[v] \in SUBSET Pixels
      /\ \A u, v \in Pixels : u \in part[v] <=> part[u] = part[v]
  BY DEF IInv, ForestOK, TypeOK
<1>5. \A e \in Edges : e[1] \in Pixels /\ e[2] \in Pixels
  BY EdgesInImage
<1>6. \A v \in Pixels : part[v] \in {part[a], part[b]} \/ part'[v] = part[v]
  BY <1>2, <1>3, <1>4
<1>7. part'[edge[1]] = part'[edge[2]]
  BY <1>2, <1>3, <1>4
<1> SUFFICES ASSUME NEW A \in (SUBSET Pixels) \ {{}}, NEW w \in Weights, HeldTogether(A, w)
             PROVE  \/ \A v \in A : part'[v] \subseteq A
                    \/ \E e \in Edges :
                         /\ Leaves(e, A) /\ part'[e[1]] = part'[e[2]]
                         /\ Within(Weight(e), [w |-> w, size |-> Cardinality(A)])
                    \/ \E r \in A : Root(r)' /\ part'[r] \subseteq A /\ part'[r] # A /\ Finished(r)
  <2>1. \A r : Finished(r)' <=> Finished(r)
    BY <1>1, SameWeights DEF Finished, Within
  <2>2. \A e, t : Within(Weight(e), t)' <=> Within(Weight(e), t)
    BY <1>1, SameWeights DEF Within
  <2>3. \A e, A : Leaves(e, A)' <=> Leaves(e, A)
    BY DEF Leaves
  <2> QED
    BY <2>1, <2>2, <2>3, <1>1, SameWeights DEF WaysOut
<1>8. \/ \A v \in A : part[v] \subseteq A
      \/ \E e \in Edges : /\ Leaves(e, A) /\ part[e[1]] = part[e[2]]
                          /\ Within(Weight(e), [w |-> w, size |-> Cardinality(A)])
      \/ \E r \in A : Root(r) /\ part[r] \subseteq A /\ part[r] # A /\ Finished(r)
  BY <1>1 DEF WaysOut
(* The finished take no part in a join.                                    *)
<1>9. ASSUME NEW r \in A, Root(r), Finished(r)
      PROVE  Root(r)' /\ part'[r] = part[r]
  <2>1. r \in Pixels /\ r # a /\ r # b
    BY <1>1, <1>2, <1>9, LighterToo
  <2>2. part[r] # part[a] /\ part[r] # part[b]
    BY <2>1, <1>2, <1>9 DEF IInv, ForestOK
  <2> QED
    BY <2>1, <2>2, <1>3, <1>6, <1>9
<1>10. CASE \E e \in Edges : /\ Leaves(e, A) /\ part[e[1]] = part[e[2]]
                             /\ Within(Weight(e), [w |-> w, size |-> Cardinality(A)])
  BY <1>10, <1>1, <1>5, JoinedParts
<1>11. CASE \E r \in A : Root(r) /\ part[r] \subseteq A /\ part[r] # A /\ Finished(r)
  BY <1>9, <1>11
<1>12. CASE (\A v \in A : part[v] \subseteq A) /\ ~ (\A v \in A : part'[v] \subseteq A)
  <2>1. PICK q \in {a, b}, o \in {a, b} :
          /\ q # o /\ part[q] \subseteq A /\ part[q] # {} /\ part[o] \cap A = {}
    <3>1. PICK v \in A : ~ part'[v] \subseteq A
      BY <1>12
    <3>2. v \in Pixels /\ part[v] \subseteq A /\ part[v] \in {part[a], part[b]}
      BY <3>1, <1>6, <1>12
    <3>3. part'[v] = part[a] \cup part[b]
      BY <3>2, <1>2, <1>3, <1>4
    <3>4. PICK q \in {a, b} : part[q] = part[v]
      BY <3>2
    <3>5. PICK o \in {a, b} : o # q
      BY <1>1
    <3>6. ~ part[o] \subseteq A
      BY <3>1, <3>2, <3>3, <3>4, <3>5
    <3>7. part[o] \cap A = {}
      <4>1. ASSUME NEW u \in part[o], u \in A PROVE FALSE
        <5>1. u \in Pixels /\ part[u] = part[o]
          BY <4>1, <1>2, <1>4
        <5> QED
          BY <5>1, <4>1, <3>6, <1>12
      <4> QED
        BY <4>1
    <3> QED
      BY <3>2, <3>4, <3>5, <3>7, <1>2, <1>4
  <2>2. Leaves(edge, A)
    <3>1. edge[1] \in part[a] /\ edge[2] \in part[b]
      BY <1>2, <1>4
    <3> QED
      BY <3>1, <2>1 DEF Leaves
  <2>3. Cardinality(A) \in Nat /\ w \in Nat
    BY PixelFacts, FS_Subset, FS_CardinalityType, WeightsNat DEF IInv
  <2>4. CASE Weight(edge) <= w
    <3>1. ASSUME NEW d \in Int, NEW n \in Nat, d <= 0 PROVE d * n <= 0
      BY <3>1
    <3>2. Weight(edge) - w \in Int /\ Weight(edge) - w <= 0
      BY <2>3, <2>4, <1>2
    <3>3. (Weight(edge) - w) * Cardinality(A) <= 0 /\ (Weight(edge) - w) * Cardinality(A) \in Int
      BY <3>1, <3>2, <2>3
    <3>4. Within(Weight(edge), [w |-> w, size |-> Cardinality(A)])
      BY <3>3, MsegAssumption DEF Within
    <3> QED
      BY <3>4, <2>2, <1>2, <1>7
  <2>5. CASE w < Weight(edge) /\ part[q] = A
    <3>1. threshold[q] \in [w : Nat, size : Nat \ {0}] /\ ~ Joining(q) /\ Root(q) /\ q \in Pixels
      BY <1>1, <1>2 DEF Joining, IInv, TypeOK
    <3>2. threshold[q].w <= w /\ threshold[q].size = Cardinality(A)
      BY <3>1, <2>5, <1>1 DEF ThresholdsOK, HeldBy
    <3>3. (Weight(edge) - threshold[q].w) * Cardinality(A) <= ScaleC
      BY <3>2, <1>1 DEF Within
    <3>4. ASSUME NEW d \in Int, NEW e \in Int, NEW n \in Nat, d <= e PROVE d * n <= e * n
      BY <3>4
    <3>5. /\ Weight(edge) - w \in Int /\ Weight(edge) - threshold[q].w \in Int
          /\ Weight(edge) - w <= Weight(edge) - threshold[q].w
      BY <3>1, <3>2, <2>3, <1>2
    <3>6. (Weight(edge) - w) * Cardinality(A) <= (Weight(edge) - threshold[q].w) * Cardinality(A)
      BY <3>4, <3>5, <2>3
    <3>7. /\ (Weight(edge) - w) * Cardinality(A) \in Int
          /\ (Weight(edge) - threshold[q].w) * Cardinality(A) \in Int
      BY <3>5, <2>3
    <3>8. Within(Weight(edge), [w |-> w, size |-> Cardinality(A)])
      BY <3>3, <3>6, <3>7, MsegAssumption DEF Within
    <3> QED
      BY <3>8, <2>2, <1>2, <1>7
  (* An edge that holds the set together has been dealt with, and one of   *)
  (* the components at its ends did not take it: not the one that joins.   *)
  <2>6. CASE w < Weight(edge) /\ part[q] # A
    <3>1. PICK e \in Edges : /\ Weight(e) <= w /\ e[1] \in A /\ e[2] \in A
                             /\ e[1] \in part[q] <=> e[2] \notin part[q]
      BY <2>1, <2>6, HeldMeans
    <3>2. Weight(e) < Weight(edge)
      BY <3>1, <2>3, <2>6, <1>2, WeightsNat DEF IInv
    <3>3. PICK k \in 1 .. Len(order) : order[k] = e /\ DealtWith(k)
      BY <3>2, <1>1, EdgesTaken
    <3>4. PICK u \in {e[1], e[2]} : u \notin part[q]
      BY <3>1
    <3>5. u \in Pixels /\ u \in A
      BY <3>1, <1>5
    <3>6. PICK s \in Pixels : Root(s) /\ part[s] = part[u] /\ s \in part[u]
      BY <3>5, EveryRoot
    <3>7. /\ s \in A /\ part[s] \subseteq A /\ part[s] # part[q] /\ part[s] # A
      <4>1. part[u] \subseteq A /\ part[u] # part[q]
        BY <3>4, <3>5, <1>4, <1>12
      <4>2. part[u] # A
        <5>1. part[u] \cap part[q] = {}
          BY <4>1, <3>5, <1>2, <1>4
        <5> QED
          BY <5>1, <2>1
      <4> QED
        BY <3>6, <4>1, <4>2
    <3>8. ~ Within(Weight(order[k]), threshold[q]) \/ ~ Within(Weight(order[k]), threshold[s])
      <4>1. \/ part[q] = part[e[1]] /\ part[s] = part[e[2]]
            \/ part[s] = part[e[1]] /\ part[q] = part[e[2]]
        BY <3>1, <3>4, <3>6, <1>2, <1>4, <1>5
      <4>2. s # q /\ Root(q) /\ q \in Pixels
        BY <3>7, <1>2
      <4> QED
        BY <4>1, <4>2, <3>3, <3>6, <1>1 DEF IInv, KeptApart
    <3>9. Finished(s)
      <4>1. ~ Finished(q)
        BY <1>1, <1>2, LighterToo
      <4> QED
        BY <4>1, <3>8 DEF Finished
    <3>10. Root(s)' /\ part'[s] = part[s]
      BY <3>6, <3>7, <3>9, <1>9
    <3> QED
      BY <3>7, <3>9, <3>10
  <2> QED
    BY <2>3, <2>4, <2>5, <2>6, <1>2
<1> QED
  BY <1>8, <1>10, <1>11, <1>12

(* The two invariants, through steps that leave components as they are.    *)
LEMMA WaysKept ==
  ASSUME IInv, ThresholdsOK, WaysOut, stage' = stage,
         UNCHANGED <<image, threshold, order, i, part>>,
         \A r \in Pixels : Root(r)' <=> Root(r),
         \A r \in Pixels : Joining(r)' <=> Joining(r)
  PROVE  ThresholdsOK' /\ WaysOut'
<1>1. part' = part /\ order' = order /\ threshold' = threshold /\ edge' = edge
  BY DEF edge
<1>2. ThresholdsOK'
  BY <1>1, SameWeights DEF ThresholdsOK
<1>3. \A r : Finished(r)' <=> Finished(r)
  BY <1>1, SameWeights DEF Finished, Within
<1>4. \A e, t : Within(Weight(e), t)' <=> Within(Weight(e), t)
  BY SameWeights DEF Within
<1>5. \A e, A : Leaves(e, A)' <=> Leaves(e, A)
  BY DEF Leaves
<1>6. WaysOut'
  BY <1>1, <1>3, <1>4, <1>5, SameWeights, EdgesInImage DEF WaysOut
<1> QED
  BY <1>2, <1>6

LEMMA WaysInitially == Init => ThresholdsOK /\ WaysOut
<1> SUFFICES ASSUME Init PROVE ThresholdsOK /\ WaysOut
  OBVIOUS
<1>1. IInv /\ TypeOK
  BY Initially DEF IInv
<1>2. /\ \A v \in Pixels : part[v] = {v} /\ Cardinality(part[v]) = 1
      /\ \A v \in Pixels : threshold[v] = [w |-> 0, size |-> 1]
      /\ pc = "next" /\ order = <<>>
  BY FS_Singleton DEF Init
<1>3. ASSUME NEW v \in Pixels PROVE HeldBy({v}, 0)
  <2>1. HeldTogether({v}, 0)
    <3>1. \A S \in SUBSET {v} : S = {} \/ S = {v}
      OBVIOUS
    <3> QED
      BY <3>1, HeldMeans
  <2> QED
    BY <1>1, <2>1, WeightsNat DEF HeldBy
<1>4. ThresholdsOK
  BY <1>2, <1>3 DEF ThresholdsOK, Joining
<1>5. WaysOut
  BY <1>2 DEF WaysOut
<1> QED
  BY <1>4, <1>5

LEMMA TakeLightestWays ==
  ASSUME IInv, ThresholdsOK, WaysOut, TakeLightest
  PROVE  ThresholdsOK' /\ WaysOut'
<1>1. PICK e \in Remaining : order' = Append(order, e)
  BY DEF TakeLightest
<1>2. /\ stage = "segment" /\ pc = "next" /\ for' = "a"
      /\ UNCHANGED <<image, forest, threshold, stage>>
      /\ part' = part /\ p' = p /\ threshold' = threshold
  BY DEF TakeLightest, Find, forest
<1>3. order \in Seq(Edges) /\ e \in Edges /\ Len(order) \in Nat
  BY DEF IInv, TypeOK, Remaining
<1>4. \A k \in 1 .. Len(order) : k \in 1 .. Len(order') /\ order'[k] = order[k]
  BY <1>1, <1>3
<1>5. \A r \in Pixels : Root(r)' <=> Root(r)
  BY <1>2 DEF Root
<1>6. \A r : ~ Joining(r) /\ ~ Joining(r)'
  BY <1>2 DEF Joining
<1>7. ThresholdsOK'
  <2> SUFFICES ASSUME NEW r \in Pixels, Root(r)
               PROVE  /\ \/ threshold[r].w = 0
                         \/ \E k \in 1 .. Len(order') : threshold[r].w = Weight(order'[k])
                      /\ HeldBy(part[r], threshold[r].w)
                      /\ threshold[r].size = Cardinality(part[r])
    BY <1>2, <1>5, <1>6, SameWeights DEF ThresholdsOK
  <2>1. /\ threshold[r].w = 0 \/ \E k \in 1 .. Len(order) : threshold[r].w = Weight(order[k])
        /\ HeldBy(part[r], threshold[r].w)
        /\ threshold[r].size = Cardinality(part[r])
    BY <1>2, <1>6 DEF ThresholdsOK
  <2> QED
    BY <2>1, <1>4
<1>8. \A r : Finished(r) => Finished(r)'
  BY <1>2, <1>4, SameWeights DEF Finished, Within
<1>9. \A e1, t : Within(Weight(e1), t)' <=> Within(Weight(e1), t)
  BY <1>2, SameWeights DEF Within
<1>10. \A e1, A : Leaves(e1, A)' <=> Leaves(e1, A)
  BY DEF Leaves
<1>11. WaysOut'
  <2> SUFFICES ASSUME NEW A \in (SUBSET Pixels) \ {{}}, NEW w \in Weights, HeldTogether(A, w)
               PROVE  \/ \A v \in A : part[v] \subseteq A
                      \/ \E f \in Edges :
                           /\ Leaves(f, A) /\ part[f[1]] = part[f[2]]
                           /\ Within(Weight(f), [w |-> w, size |-> Cardinality(A)])
                      \/ \E r \in A : Root(r) /\ part[r] \subseteq A /\ part[r] # A /\ Finished(r)'
    BY <1>2, <1>5, <1>9, <1>10, SameWeights DEF WaysOut
  <2> QED
    BY <1>2, <1>8 DEF WaysOut
<1> QED
  BY <1>7, <1>11

LEMMA JoinLightThresholds ==
  ASSUME IInv, ThresholdsOK, JoinLight
  PROVE  ThresholdsOK'
<1>1. /\ stage = "segment" /\ pc = "test" /\ MayJoin /\ a # b /\ Join
      /\ pc' = "find" /\ x' = a /\ for' = "joined"
      /\ UNCHANGED <<image, threshold, order, stage, i, a, b, output>>
      /\ edge' = edge
  BY DEF JoinLight, MayJoin, Find, edge
<1>2. Root(a) /\ Root(b) /\ a \in Pixels /\ b \in Pixels
  BY <1>1 DEF IInv, CallOK, TypeOK
<1>3. /\ \A v \in Pixels : Root(v)' => Root(v)
      /\ part' = [v \in Pixels |-> IF v \in part[a] \cup part[b]
                                      THEN part[a] \cup part[b] ELSE part[v]]
  BY <1>1, <1>2, Joined DEF IInv
<1>4. part'[a] = part[a] \cup part[b]
  BY <1>2, <1>3 DEF IInv, ForestOK
<1>5. ASSUME NEW r \in Pixels, Root(r)'
      PROVE  /\ threshold[r].w = 0 \/ \E k \in 1 .. Len(order) : threshold[r].w = Weight(order[k])
             /\ part'[r] = part'[a] => HeldBy(part'[r], Weight(edge))
             /\ part'[r] # part'[a] => /\ HeldBy(part'[r], threshold[r].w)
                                       /\ threshold[r].size = Cardinality(part'[r])
  <2>1. Root(r) /\ ~ Joining(r)
    BY <1>1, <1>3, <1>5 DEF Joining
  <2>2. HeldBy(part[a] \cup part[b], Weight(edge))
    BY <1>1, JoinHeld
  <2>3. part'[r] # part'[a] => part'[r] = part[r]
    BY <1>3, <1>4
  <2> QED
    BY <2>1, <2>2, <2>3, <1>1, <1>4 DEF ThresholdsOK
<1>6. \A r \in Pixels : Joining(r)' <=> part'[r] = part'[a]
  BY <1>1 DEF Joining
<1>7. /\ Weight(edge)' = Weight(edge)
      /\ \A k \in 1 .. Len(order) : Weight(order[k])' = Weight(order[k])
  BY <1>1, SameWeights
<1> QED
  BY <1>1, <1>5, <1>6, <1>7, SameWeights DEF ThresholdsOK

LEMMA FoundJoinedWays ==
  ASSUME IInv, ThresholdsOK, WaysOut, FoundJoined
  PROVE  ThresholdsOK' /\ WaysOut'
<1>1. /\ pc = "find" /\ for = "joined" /\ Root(y) /\ part[y] = part[x]
      /\ x \in Pixels /\ y \in Pixels
      /\ \A v \in Pixels : Root(v)' <=> Root(v)
      /\ part' = part /\ size' = size
  BY FoundRoot DEF FoundJoined
<1>2. /\ pc' = "next" /\ order' = order
      /\ threshold' = [threshold EXCEPT ![y] = [w |-> Weight(edge), size |-> size[y]]]
      /\ UNCHANGED <<image, order, stage, i>>
  BY DEF FoundJoined
<1>3. /\ stage = "segment"
      /\ \A r \in Pixels : Root(r) /\ part[r] = part[x] => Within(Weight(edge), threshold[r])
  BY <1>1 DEF IInv, CallOK
<1>4. /\ \A r \in Pixels : r # y => threshold'[r] = threshold[r]
      /\ threshold'[y] = [w |-> Weight(edge), size |-> size[y]]
  BY <1>1, <1>2 DEF IInv, TypeOK
<1>5. i \in 1 .. Len(order) /\ edge = order[i]
  BY <1>1, <1>3, EdgesTaken DEF edge
<1>6. size[y] = Cardinality(part[y]) /\ Joining(y)
  BY <1>1 DEF IInv, ForestOK, Joining
<1>7. \A r \in Pixels : Root(r) /\ r # y => ~ Joining(r)
  BY <1>1 DEF IInv, ForestOK, Joining
<1>8. ThresholdsOK'
  <2> SUFFICES ASSUME NEW r \in Pixels, Root(r)
               PROVE  /\ \/ threshold'[r].w = 0
                         \/ \E k \in 1 .. Len(order) : threshold'[r].w = Weight(order[k])
                      /\ HeldBy(part[r], threshold'[r].w)
                      /\ threshold'[r].size = Cardinality(part[r])
    <3>1. \A r : ~ Joining(r)'
      BY <1>2 DEF Joining
    <3> QED
      BY <3>1, <1>1, <1>2, SameWeights DEF ThresholdsOK
  <2>1. CASE r = y
    <3>1. HeldBy(part[y], Weight(edge))
      BY <1>1, <1>3, <1>6 DEF ThresholdsOK
    <3>2. threshold'[y].w = Weight(edge) /\ threshold'[y].size = size[y]
      BY <1>4
    <3> QED
      BY <3>1, <3>2, <1>5, <1>6, <2>1
  <2>2. CASE r # y
    BY <2>2, <1>3, <1>4, <1>7 DEF ThresholdsOK
  <2> QED
    BY <2>1, <2>2
<1>9. ASSUME NEW r \in Pixels, Finished(r) PROVE Finished(r)'
  <2>1. r # y
    BY <1>1, <1>3, <1>9, LighterToo
  <2> QED
    BY <2>1, <1>2, <1>4, <1>9, SameWeights DEF Finished, Within
<1>10. WaysOut'
  <2>1. \A e1, t : Within(Weight(e1), t)' <=> Within(Weight(e1), t)
    BY <1>2, SameWeights DEF Within
  <2>2. \A e1, A : Leaves(e1, A)' <=> Leaves(e1, A)
    BY DEF Leaves
  <2> SUFFICES ASSUME NEW A \in (SUBSET Pixels) \ {{}}, NEW w \in Weights, HeldTogether(A, w)
               PROVE  \/ \A v \in A : part[v] \subseteq A
                      \/ \E f \in Edges :
                           /\ Leaves(f, A) /\ part[f[1]] = part[f[2]]
                           /\ Within(Weight(f), [w |-> w, size |-> Cardinality(A)])
                      \/ \E r \in A : Root(r) /\ part[r] \subseteq A /\ part[r] # A /\ Finished(r)'
    BY <1>1, <1>2, <2>1, <2>2, SameWeights DEF WaysOut
  <2>3. \A r \in A : r \in Pixels
    OBVIOUS
  <2> QED
    BY <2>3, <1>3, <1>9 DEF WaysOut
<1> QED
  BY <1>8, <1>10

(* What a partition of the pixels and the components have to do with each  *)
(* other.                                                                  *)
LEMMA PartitionPieces ==
  ASSUME NEW P \in Partitions
  PROVE  /\ \A A \in P : A \in SUBSET Pixels /\ A # {}
         /\ \A v \in Pixels : \E A \in P : v \in A
         /\ \A A, B \in P : A # B => A \cap B = {}
<1>1. PICK f \in [Pixels -> Pixels] :
        P = {{v \in Pixels : f[v] = k} : k \in {f[v] : v \in Pixels}}
  BY DEF Partitions
<1>2. \A A \in P : \E u \in Pixels : A = {v \in Pixels : f[v] = f[u]}
  BY <1>1
<1>3. \A u \in Pixels : {v \in Pixels : f[v] = f[u]} \in P
  BY <1>1
<1>4. \A A \in P : A \in SUBSET Pixels /\ A # {}
  <2> TAKE A \in P
  <2>1. PICK u \in Pixels : A = {v \in Pixels : f[v] = f[u]}
    BY <1>2
  <2>2. u \in A
    BY <2>1
  <2> QED
    BY <2>1, <2>2
<1>5. ASSUME NEW A \in P, NEW B \in P, A # B PROVE A \cap B = {}
  <2>1. PICK u \in Pixels : A = {v \in Pixels : f[v] = f[u]}
    BY <1>2
  <2>2. PICK w \in Pixels : B = {v \in Pixels : f[v] = f[w]}
    BY <1>2
  <2> QED
    BY <2>1, <2>2, <1>5
<1> QED
  BY <1>3, <1>4, <1>5

(* A piece of a component that the first pass has made is left, within the *)
(* component, by an edge that the piece would have taken.                  *)
LEMMA PieceIsLeft ==
  ASSUME IInv, WaysOut, stage = "segment", NEW A \in SUBSET Pixels, A # {},
         NEW C \in Regions, A \subseteq C, A # C, InOnePiece(A)
  PROVE  \E e \in Edges : /\ Leaves(e, A) /\ e[1] \in C /\ e[2] \in C
                          /\ Within(Weight(e), [w |-> Internal(A), size |-> Cardinality(A)])
<1>1. HeldBy(A, Internal(A))
  BY InternalHolds DEF IInv
<1>2. \A v \in A : part[v] = C
  BY DEF Regions, IInv, ForestOK
<1>3. PICK u \in A : TRUE
  OBVIOUS
<1>4. ~ (\A v \in A : part[v] \subseteq A)
  BY <1>2, <1>3
<1>5. ~ \E r \in A : Root(r) /\ part[r] \subseteq A /\ part[r] # A /\ Finished(r)
  BY <1>2
<1>6. PICK e \in Edges :
        /\ Leaves(e, A) /\ part[e[1]] = part[e[2]]
        /\ Within(Weight(e), [w |-> Internal(A), size |-> Cardinality(A)])
  BY <1>1, <1>4, <1>5 DEF WaysOut, HeldBy
<1>7. e[1] \in Pixels /\ e[2] \in Pixels
  BY EdgesInImage
<1>8. e[1] \in C /\ e[2] \in C
  BY <1>2, <1>6, <1>7 DEF Leaves, IInv, ForestOK
<1> QED
  BY <1>6, <1>8

(* Neither too fine.                                                       *)
LEMMA NotTooFine ==
  ASSUME IInv, ThresholdsOK, stage = "segment", pc = "next", Remaining = {}
  PROVE  ~ TooFine(Regions) /\ \A C \in Regions : InOnePiece(C)
<1>1. ASSUME NEW C \in Regions
      PROVE  \E r \in Pixels : /\ Root(r) /\ part[r] = C /\ HeldBy(C, threshold[r].w)
                               /\ threshold[r] = [w |-> Internal(C), size |-> Cardinality(C)]
  <2>1. PICK v \in Pixels : C = part[v]
    BY DEF Regions
  <2>2. PICK r \in Pixels : Root(r) /\ part[r] = C
    BY <2>1, EveryRoot
  <2>3. HeldBy(C, threshold[r].w) /\ threshold[r].size = Cardinality(C)
    BY <2>2 DEF ThresholdsOK, Joining
  <2>4. Internal(C) = threshold[r].w
    BY <2>3, InternalOf DEF IInv
  <2>5. threshold[r] \in [w : Nat, size : Nat \ {0}]
    BY DEF IInv, TypeOK
  <2>6. threshold[r] = [w |-> threshold[r].w, size |-> threshold[r].size]
    BY <2>5
  <2> QED
    BY <2>2, <2>3, <2>4, <2>6
<1>2. \A C \in Regions : InOnePiece(C)
  BY <1>1, InternalOf DEF IInv
<1>3. ASSUME NEW C \in Regions, NEW D \in Regions, C # D
      PROVE  Boundary(C, D)
  <2> SUFFICES ASSUME NEW e \in Edges,
                      (e[1] \in C /\ e[2] \in D) \/ (e[1] \in D /\ e[2] \in C)
               PROVE  \/ ~ Within(Weight(e), [w |-> Internal(C), size |-> Cardinality(C)])
                      \/ ~ Within(Weight(e), [w |-> Internal(D), size |-> Cardinality(D)])
    BY DEF Boundary
  <2>1. PICK r \in Pixels : Root(r) /\ part[r] = C
                            /\ threshold[r] = [w |-> Internal(C), size |-> Cardinality(C)]
    BY <1>1
  <2>2. PICK s \in Pixels : Root(s) /\ part[s] = D
                            /\ threshold[s] = [w |-> Internal(D), size |-> Cardinality(D)]
    BY <1>1
  <2>3. PICK k \in 1 .. Len(order) : order[k] = e
    BY DEF Remaining
  <2>4. DealtWith(k)
    BY EdgesTaken DEF DealtWith
  <2>5. \/ part[r] = part[e[1]] /\ part[s] = part[e[2]]
        \/ part[s] = part[e[1]] /\ part[r] = part[e[2]]
    BY <2>1, <2>2, EdgesInImage DEF IInv, ForestOK
  <2>6. ~ Within(Weight(e), threshold[r]) \/ ~ Within(Weight(e), threshold[s])
    BY <2>1, <2>2, <2>3, <2>4, <2>5, <1>3 DEF IInv, KeptApart
  <2> QED
    BY <2>1, <2>2, <2>6
<1> QED
  BY <1>2, <1>3 DEF TooFine

(* Nor too coarse: of the edges that a finer partition cuts, the lightest  *)
(* has a piece at its end that would have taken the edge.                  *)
LEMMA NotTooCoarse ==
  ASSUME IInv, ThresholdsOK, WaysOut, stage = "segment", pc = "next", Remaining = {},
         NEW P \in Partitions, Refines(P, Regions), P # Regions
  PROVE  TooFine(P)
<1> DEFINE Cut == {e \in Edges : \E C \in Regions, A \in P :
                     A \subseteq C /\ Leaves(e, A) /\ e[1] \in C /\ e[2] \in C}
<1>1. \A A \in P : \E C \in Regions : A \subseteq C
  BY DEF Refines
<1>2. \A A \in P : InOnePiece(A)
  BY DEF Refines
<1>3. /\ \A C, D \in Regions : C \cap D # {} => C = D
      /\ \A C \in Regions : C \in SUBSET Pixels /\ C # {}
  <2>1. /\ \A v \in Pixels : v \in part[v] /\ part[v] \in SUBSET Pixels
        /\ \A u, v \in Pixels : u \in part[v] => part[u] = part[v]
    BY DEF IInv, TypeOK, ForestOK
  <2>2. \A C \in Regions : \E v \in Pixels : C = part[v]
    BY DEF Regions
  <2>3. ASSUME NEW C \in Regions, NEW D \in Regions, NEW u \in C, u \in D PROVE C = D
    <3>1. PICK v \in Pixels : C = part[v]
      BY <2>2
    <3>2. PICK w \in Pixels : D = part[w]
      BY <2>2
    <3>3. u \in Pixels /\ part[u] = C /\ part[u] = D
      BY <2>1, <2>3, <3>1, <3>2
    <3> QED
      BY <3>3
  <2>4. \A C \in Regions : C \in SUBSET Pixels /\ C # {}
    BY <2>1, <2>2
  <2> QED
    BY <2>3, <2>4
<1>4. PICK A0 \in P, C0 \in Regions : A0 \subseteq C0 /\ A0 # C0
  <2> SUFFICES ASSUME \A A \in P, C \in Regions : A \subseteq C => A = C PROVE FALSE
    OBVIOUS
  <2>1. P \subseteq Regions
    BY <1>1
  <2>2. ASSUME NEW C \in Regions PROVE C \in P
    <3>1. PICK v \in C : v \in Pixels
      BY <1>3
    <3>2. PICK A \in P : v \in A
      BY <3>1, PartitionPieces
    <3> QED
      BY <3>1, <3>2, <2>1, <1>3
  <2> QED
    BY <2>1, <2>2
<1>5. Cut # {}
  <2>1. A0 \in SUBSET Pixels /\ A0 # {} /\ InOnePiece(A0)
    BY <1>2, PartitionPieces
  <2>2. \E e \in Edges : Leaves(e, A0) /\ e[1] \in C0 /\ e[2] \in C0
    BY <2>1, <1>4, PieceIsLeft
  <2> QED
    BY <2>2, <1>4
<1>6. PICK e \in Cut : \A f \in Cut : Weight(e) <= Weight(f)
  <2> DEFINE W == {Weight(f) : f \in Cut}
  <2>1. W \subseteq Nat /\ W # {}
    BY <1>5, WeightsNat DEF IInv
  <2>2. PICK m \in W : \A n \in W : m <= n
    <3> HIDE DEF W
    <3> QED
      BY <2>1, LeastOf
  <2> QED
    BY <2>2
<1>7. PICK C \in Regions : e[1] \in C /\ e[2] \in C /\ e \in Edges
  BY <1>6
<1>8. PICK A \in P, B \in P : e[1] \in A /\ e[2] \in B
  BY EdgesInImage, <1>7, PartitionPieces
<1>9. A # B /\ A \subseteq C /\ B \subseteq C /\ A # C /\ B # C
  <2>1. PICK A1 \in P : Leaves(e, A1)
    BY <1>6
  <2>2. A # B
    BY <2>1, <1>8, PartitionPieces DEF Leaves
  <2>3. A \subseteq C /\ B \subseteq C
    BY <1>1, <1>3, <1>7, <1>8
  <2>4. A \cap B = {}
    BY <2>2, PartitionPieces
  <2> QED
    BY <2>2, <2>3, <2>4, <1>7, <1>8
<1>10. ASSUME NEW D \in {A, B}
       PROVE  Within(Weight(e), [w |-> Internal(D), size |-> Cardinality(D)])
  <2>1. D \in P /\ D \in SUBSET Pixels /\ D # {} /\ D \subseteq C /\ D # C /\ InOnePiece(D)
    BY <1>2, <1>9, PartitionPieces
  <2>2. PICK f \in Edges : /\ Leaves(f, D) /\ f[1] \in C /\ f[2] \in C
                           /\ Within(Weight(f), [w |-> Internal(D), size |-> Cardinality(D)])
    BY <2>1, <1>7, PieceIsLeft
  <2>3. f \in Cut
    BY <2>1, <2>2
  <2>4. Weight(e) \in Nat /\ Weight(f) \in Nat /\ Weight(e) <= Weight(f)
    BY <2>3, <1>6, <1>7, WeightsNat DEF IInv
  <2>5. Internal(D) \in Nat
    BY <2>1, InternalHolds, WeightsNat DEF IInv, HeldBy
  <2>6. Cardinality(D) \in Nat \ {0}
    BY <2>1, PixelFacts, FS_Subset, FS_CardinalityType, FS_EmptySet
  <2>7. [w |-> Internal(D), size |-> Cardinality(D)] \in [w : Nat, size : Nat \ {0}]
    BY <2>5, <2>6
  <2> QED
    BY <2>2, <2>4, <2>7, WithinMonotone
<1>11. ~ Boundary(A, B)
  BY <1>7, <1>8, <1>10 DEF Boundary
<1> QED
  BY <1>8, <1>9, <1>11 DEF TooFine

LEMMA EndPassPaper ==
  ASSUME IInv, ThresholdsOK, WaysOut, EndPass, stage = "segment"
  PROVE  AsInThePaper'
<1>1. /\ pc = "next" /\ Remaining = {} /\ stage' = "small"
      /\ image' = image /\ part' = part
  BY DEF EndPass, forest
<1>2. Regions' = Regions
  BY <1>1 DEF Regions
<1>3. \A C : Internal(C)' = Internal(C)
  BY <1>1, SameWeights DEF Internal
<1>4. \A C : InOnePiece(C)' <=> InOnePiece(C)
  BY <1>1, SameWeights DEF InOnePiece
<1>5. \A C, D : Boundary(C, D)' <=> Boundary(C, D)
  BY <1>1, <1>3, SameWeights DEF Boundary, Within
<1>6. \A R : TooFine(R)' <=> TooFine(R)
  BY <1>5 DEF TooFine
<1>7. \A P : Refines(P, Regions)' <=> Refines(P, Regions)
  BY <1>2, <1>4 DEF Refines
<1>8. /\ \A C \in Regions : InOnePiece(C)
      /\ ~ TooFine(Regions)
      /\ \A P \in Partitions : Refines(P, Regions) /\ P # Regions => TooFine(P)
  BY <1>1, NotTooFine, NotTooCoarse
<1> QED
  BY <1>2, <1>4, <1>6, <1>7, <1>8 DEF AsInThePaper

LEMMA PaperStep == IInv /\ PaperOK /\ [Next]_vars => PaperOK'
<1> SUFFICES ASSUME IInv, ThresholdsOK, WaysOut, AsInThePaper, [Next]_vars PROVE PaperOK'
  BY DEF PaperOK
<1>1. ASSUME stage' # "segment" PROVE ThresholdsOK' /\ WaysOut'
  BY <1>1 DEF ThresholdsOK, WaysOut
<1>2. ASSUME \/ stage' # "small" \/ i' # 0 \/ pc' # "next" PROVE AsInThePaper'
  BY <1>2 DEF AsInThePaper
<1>3. CASE TakeLightest
  <2>1. pc' = "find"
    BY <1>3 DEF TakeLightest, Find
  <2> QED
    BY <2>1, <1>2, <1>3, TakeLightestWays DEF PaperOK
<1>4. CASE TakeSorted \/ TakePixel
  <2>1. stage' # "segment" /\ pc' = "find"
    BY <1>4 DEF TakeSorted, TakePixel, Find
  <2> QED
    BY <2>1, <1>1, <1>2 DEF PaperOK
<1>5. CASE EndPass
  <2>1. stage' # "segment"
    BY <1>5 DEF EndPass
  <2>2. CASE stage = "segment"
    BY <2>1, <2>2, <1>1, <1>5, EndPassPaper DEF PaperOK
  <2>3. CASE stage # "segment"
    <3>1. stage' # "small"
      BY <2>3, <1>5 DEF EndPass
    <3> QED
      BY <2>1, <3>1, <1>1, <1>2 DEF PaperOK
  <2> QED
    BY <2>2, <2>3
<1>6. CASE Climb
  <2>1. /\ pc' = pc /\ pc = "find" /\ stage' = stage
        /\ UNCHANGED <<image, threshold, order, i, part, p, x, for>>
    BY <1>6 DEF Climb, forest
  <2>2. /\ \A r \in Pixels : Root(r)' <=> Root(r)
        /\ \A r \in Pixels : Joining(r)' <=> Joining(r)
    BY <2>1 DEF Root, Joining
  <2> QED
    BY <2>1, <2>2, <1>2, WaysKept DEF PaperOK
<1>7. CASE FoundA \/ FoundB \/ FoundPixel
  <2>1. /\ stage' = stage /\ for # "joined" /\ pc = "find" /\ part' = part
        /\ UNCHANGED <<image, threshold, order, i>>
        /\ \A v \in Pixels : Root(v)' <=> Root(v)
    BY <1>7, FoundRoot DEF FoundA, FoundB, FoundPixel
  <2>2. for' # "joined" \/ pc' # "find"
    BY <1>7 DEF FoundA, FoundB, FoundPixel, Find
  <2>3. \A r \in Pixels : Joining(r)' <=> Joining(r)
    BY <2>1, <2>2 DEF Joining
  <2>4. stage' # "small" \/ pc' # "next"
    <3>1. CASE FoundA \/ FoundB
      BY <3>1 DEF FoundA, FoundB, Find
    <3>2. CASE FoundPixel
      <4>1. for = "pixel"
        BY <3>2 DEF FoundPixel, Found
      <4> QED
        BY <4>1, <2>1 DEF IInv, CallOK
    <3> QED
      BY <3>1, <3>2, <1>7
  <2> QED
    BY <2>1, <2>3, <2>4, <1>2, WaysKept DEF PaperOK
<1>8. CASE FoundJoined
  <2>1. stage' = "segment"
    BY <1>8, FoundRoot DEF FoundJoined, IInv, CallOK
  <2> QED
    BY <2>1, <1>2, <1>8, FoundJoinedWays DEF PaperOK
<1>9. CASE JoinLight
  <2>1. stage' = "segment"
    BY <1>9 DEF JoinLight
  <2> QED
    BY <2>1, <1>2, <1>9, JoinLightThresholds, JoinWays DEF PaperOK
<1>10. CASE JoinSmall
  <2>1. stage' = "small" /\ i' = i /\ i # 0
    BY <1>10 DEF JoinSmall, IInv, CallOK
  <2> QED
    BY <2>1, <1>1, <1>2 DEF PaperOK
<1>11. CASE LeaveApart
  <2>1. /\ stage' = stage /\ pc = "test" /\ pc' = "next"
        /\ UNCHANGED <<image, threshold, order, i, part, p>>
    BY <1>11 DEF LeaveApart, forest
  <2>2. /\ \A r \in Pixels : Root(r)' <=> Root(r)
        /\ \A r \in Pixels : Joining(r)' <=> Joining(r)
    BY <2>1 DEF Root, Joining
  <2>3. i # 0
    BY <2>1 DEF IInv, CallOK
  <2> QED
    BY <2>1, <2>2, <2>3, <1>2, WaysKept DEF PaperOK
<1>12. CASE UNCHANGED vars
  <2>1. /\ stage' = stage
        /\ UNCHANGED <<image, threshold, order, i, part, p, pc, x, for>>
    BY <1>12 DEF vars
  <2>2. /\ \A r \in Pixels : Root(r)' <=> Root(r)
        /\ \A r \in Pixels : Joining(r)' <=> Joining(r)
    BY <2>1 DEF Root, Joining
  <2>3. AsInThePaper'
    <3>1. Regions' = Regions
      BY <2>1 DEF Regions
    <3>2. \A C : Internal(C)' = Internal(C) /\ (InOnePiece(C)' <=> InOnePiece(C))
      BY <2>1, SameWeights DEF Internal, InOnePiece
    <3>3. \A C, D : Boundary(C, D)' <=> Boundary(C, D)
      BY <2>1, <3>2, SameWeights DEF Boundary, Within
    <3>4. \A R : TooFine(R)' <=> TooFine(R)
      BY <3>3 DEF TooFine
    <3>5. \A P : Refines(P, Regions)' <=> Refines(P, Regions)
      BY <3>1, <3>2 DEF Refines
    <3> QED
      BY <3>1, <3>2, <3>4, <3>5, <2>1 DEF AsInThePaper
  <2> QED
    BY <2>1, <2>2, <2>3, WaysKept DEF PaperOK
<1> QED
  BY <1>3, <1>4, <1>5, <1>6, <1>7, <1>8, <1>9, <1>10, <1>11, <1>12 DEF Next

(* The first pass does what the paper proves of it, whatever order equal   *)
(* edges are taken in: its components are neither too fine nor too coarse. *)
THEOREM NeitherFineNorCoarse == Spec => []AsInThePaper
<1>1. Init => PaperOK
  BY WaysInitially DEF PaperOK, AsInThePaper, Init
<1>2. PaperOK => AsInThePaper
  BY DEF PaperOK
<1> QED
  BY <1>1, <1>2, PaperStep, Invariance, PTL DEF Spec
=============================================================================
